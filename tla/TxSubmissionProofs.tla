------------------------- MODULE TxSubmissionProofs -------------------------
(* Invariants of the transaction submission, for any number of payments,   *)
(* operations and attempts.                                                *)
EXTENDS TxSubmission, SequenceTheorems, FiniteSetTheorems, TLAPS

-----------------------------------------------------------------------------
(* The inductive invariant of the client's books.  TypeOK alone is not      *)
(* inductive: that `attempt` and `subs` stay in range depends on what each  *)
(* state of a call says about them, and that the head of the queue may be   *)
(* started depends on the queue and the calls agreeing.                     *)

(* How many jobs and executions a call may have used, by its state.         *)
BudgetOf(r) ==
    /\ r.pc = "idle" => r.attempt = 0 /\ r.subs = 0
    /\ r.pc \in {"queued", "starting"} =>
         r.attempt >= 1 /\ r.subs <= 2 * r.attempt - 2 /\ r.failovers = 0
    /\ r.pc = "running" => r.attempt >= 1 /\ r.subs <= 2 * r.attempt - 1 + r.failovers
    /\ r.pc = "failover" => r.subs <= 2 * r.attempt - 1 /\ r.failovers = 1
    /\ r.pc = "backoff" => r.attempt < MaxAttempts
    /\ r.subs <= 2 * r.attempt

Books ==
    /\ pay \in [Pays -> PayRecords]
    /\ queue \in Seq(Pays)
    /\ current \in Pays \cup {NoPay}
    /\ \A p \in Pays : BudgetOf(pay[p])
    /\ QueueConsistent

(* The rest of TypeOK.                                                      *)
RestTyped ==
    /\ closed \in BOOLEAN
    /\ sub \in [Subs -> SubRecords]
    /\ store \in [Ops -> Txs \cup {NoTx}]
    /\ mempool \subseteq Txs
    /\ landed \subseteq LandedTxs
    /\ ledgerSeq \in Nat
    /\ foreign \in Nat

IInv == Books /\ RestTyped

-----------------------------------------------------------------------------
(* What the three ways of touching `pay` do to the books.                   *)

(* A call under way moves on while the queue stays as it is.                *)
LEMMA MoveKeepsBooks ==
  ASSUME Books, NEW p \in Pays, UnderWay(p), NEW r \in PayRecords,
         r.pc \in {"starting", "running", "failover", "hit"}, BudgetOf(r),
         pay' = [pay EXCEPT ![p] = r], queue' = queue, current' = current
  PROVE  Books'
<1>1. \A q \in Pays : pay'[q] = IF q = p THEN r ELSE pay[q]
  BY DEF Books
<1>2. pay' \in [Pays -> PayRecords]
  BY DEF Books
<1>3. \A q \in Pays : UnderWay(q)' <=> UnderWay(q)
  BY <1>1 DEF UnderWay
<1>4. \A q \in Pays : pay'[q].pc = "queued" <=> pay[q].pc = "queued"
  BY <1>1 DEF UnderWay
<1>5. QueueConsistent'
  BY <1>3, <1>4 DEF Books, QueueConsistent
<1>6. \A q \in Pays : BudgetOf(pay'[q])
  BY <1>1 DEF Books
<1> QED
  BY <1>2, <1>5, <1>6 DEF Books, BudgetOf

(* A job settles and the next one starts.                                   *)
LEMMA SettleKeepsBooks ==
  ASSUME Books, NEW p \in Pays, UnderWay(p), NEW r \in PayRecords,
         r.pc \in {"resolved", "rejected", "backoff"}, BudgetOf(r), SettleJob(p, r)
  PROVE  Books'
<1>1. current = p
  BY DEF Books, QueueConsistent
<1>2. CASE queue = <<>>
  <2>1. \A q \in Pays : pay'[q] = IF q = p THEN r ELSE pay[q]
    BY <1>2 DEF SettleJob, Books
  <2>2. pay' \in [Pays -> PayRecords] /\ queue' = <<>> /\ current' = NoPay
    BY <1>2 DEF SettleJob, Books
  <2>3. \A q \in Pays : ~UnderWay(q)'
    BY <1>1, <2>1 DEF UnderWay, Books, QueueConsistent
  <2>4. \A q \in Pays : pay'[q].pc # "queued"
    BY <1>2, <2>1 DEF Books, QueueConsistent
  <2>5. QueueConsistent'
    BY <2>2, <2>3, <2>4, PaysFinite DEF QueueConsistent
  <2> QED
    BY <2>1, <2>2, <2>5 DEF Books, BudgetOf
<1>3. CASE queue # <<>>
  <2> DEFINE n == Head(queue)
  <2>1. n \in Pays /\ queue[1] = n /\ Len(queue) \in Nat /\ Len(queue) >= 1
    BY <1>3 DEF Books
  <2>2. pay[n].pc = "queued" /\ n # p
    BY <2>1 DEF Books, QueueConsistent, UnderWay
  <2>3. /\ pay' = [pay EXCEPT ![p] = r, ![n].pc = "starting"]
        /\ current' = n
        /\ queue' = Tail(queue)
    BY <1>3 DEF SettleJob
  <2>4. \A q \in Pays : pay'[q] = IF q = n THEN [pay[n] EXCEPT !.pc = "starting"]
                                  ELSE IF q = p THEN r ELSE pay[q]
    BY <2>1, <2>2, <2>3 DEF Books
  <2>5. pay' \in [Pays -> PayRecords]
    <3>1. [pay[n] EXCEPT !.pc = "starting"] \in PayRecords
      BY <2>1 DEF Books, PayRecords, PayStates
    <3>2. \A q \in Pays : pay'[q] \in PayRecords
      BY <2>4, <3>1 DEF Books
    <3>3. pay' = [q \in Pays |-> pay'[q]]
      BY <2>3 DEF Books
    <3> QED
      BY <3>2, <3>3
  <2>6. /\ queue' \in Seq(Pays)
        /\ Len(queue') = Len(queue) - 1
        /\ \A i \in 1 .. Len(queue') : queue'[i] = queue[i + 1]
    BY <1>3, <2>3 DEF Books
  <2>7. \A q \in Pays : UnderWay(q)' <=> q = n
    <3>1. \A q \in Pays : q # p => ~UnderWay(q)
      BY <1>1 DEF Books, QueueConsistent
    <3>2. pay'[n].pc = "starting"
      BY <2>1, <2>4 DEF Books, PayRecords
    <3> QED
      BY <2>1, <2>2, <2>4, <3>1, <3>2 DEF UnderWay
  <2>8. \A q \in Pays : pay'[q].pc = "queued" <=> \E i \in 1 .. Len(queue') : queue'[i] = q
    <3>1. ASSUME NEW q \in Pays, pay'[q].pc = "queued"
          PROVE  \E i \in 1 .. Len(queue') : queue'[i] = q
      <4>1. q # n /\ pay[q].pc = "queued"
        <5>1. q # n
          BY <2>1, <2>4, <3>1 DEF Books, PayRecords
        <5> QED
          BY <2>4, <3>1, <5>1
      <4>2. PICK i \in 1 .. Len(queue) : queue[i] = q
        BY <4>1 DEF Books, QueueConsistent
      <4>3. i - 1 \in 1 .. Len(queue') /\ queue'[i - 1] = q
        BY <2>1, <2>6, <4>1, <4>2
      <4> QED
        BY <4>3
    <3>2. ASSUME NEW q \in Pays, NEW i \in 1 .. Len(queue'), queue'[i] = q
          PROVE  pay'[q].pc = "queued"
      <4>1. i + 1 \in 1 .. Len(queue) /\ queue[i + 1] = q /\ 1 \in 1 .. Len(queue)
        BY <2>1, <2>6, <3>2
      <4>2. q # n /\ pay[q].pc = "queued"
        BY <2>1, <4>1 DEF Books, QueueConsistent
      <4>3. q # p
        BY <4>2 DEF UnderWay
      <4> QED
        BY <2>4, <4>2, <4>3
    <3> QED
      BY <3>1, <3>2
  <2>9. \A i, j \in 1 .. Len(queue') : queue'[i] = queue'[j] => i = j
    <3> SUFFICES ASSUME NEW i \in 1 .. Len(queue'), NEW j \in 1 .. Len(queue'),
                        queue'[i] = queue'[j]
                 PROVE  i = j
      OBVIOUS
    <3>1. i + 1 \in 1 .. Len(queue) /\ j + 1 \in 1 .. Len(queue)
      BY <2>1, <2>6
    <3>2. i + 1 = j + 1
      BY <2>6, <3>1 DEF Books, QueueConsistent
    <3> QED
      BY <3>2
  <2>10. QueueConsistent'
    BY <2>1, <2>3, <2>7, <2>8, <2>9, PaysFinite DEF QueueConsistent
  <2>11. \A q \in Pays : BudgetOf(pay'[q])
    <3>1. BudgetOf([pay[n] EXCEPT !.pc = "starting"])
      BY <2>1, <2>2 DEF Books, BudgetOf, PayRecords
    <3> QED
      BY <2>1, <2>4, <3>1 DEF Books
  <2> QED
    BY <2>1, <2>3, <2>5, <2>6, <2>10, <2>11 DEF Books, BudgetOf
<1> QED
  BY <1>2, <1>3

(* A call enters the queue, for the first time or for a retry.              *)
LEMMA EnqueueKeepsBooks ==
  ASSUME Books, NEW p \in Pays, pay[p].pc \in {"idle", "backoff"}, Enqueue(p)
  PROVE  Books'
<1> DEFINE r(pc) == [pc |-> pc, attempt |-> pay[p].attempt + 1, subs |-> pay[p].subs,
                     failovers |-> 0, result |-> pay[p].result]
           entered(pc) == [pay EXCEPT ![p] = r(pc)]
<1>0. ~UnderWay(p) /\ current # p /\ pay[p].pc # "queued"
  BY DEF UnderWay, Books, QueueConsistent
<1>1. pay[p] \in PayRecords /\ BudgetOf(pay[p]) /\ pay[p].attempt + 1 \in 1 .. MaxAttempts
  BY AttemptsPositive DEF Books, PayRecords, BudgetOf
<1>2. ASSUME NEW pc \in {"starting", "queued"}
      PROVE  r(pc) \in PayRecords /\ BudgetOf(r(pc)) /\ r(pc).pc = pc
  <2>1. r(pc) \in PayRecords /\ r(pc).pc = pc
    <3>1. /\ pc \in PayStates
          /\ pay[p].attempt + 1 \in 0 .. MaxAttempts
          /\ pay[p].subs \in 0 .. 2 * MaxAttempts
          /\ pay[p].result \in Txs \cup {NoTx}
      BY <1>1, <1>2 DEF PayRecords, PayStates
    <3> QED
      BY <3>1 DEF PayRecords
  <2>2. /\ r(pc).attempt = pay[p].attempt + 1
        /\ r(pc).subs = pay[p].subs
        /\ r(pc).failovers = 0
    BY <1>1 DEF PayRecords
  <2>3. pay[p].attempt \in Nat /\ pay[p].subs \in Nat /\ pay[p].subs <= 2 * pay[p].attempt
    BY <1>1 DEF PayRecords, BudgetOf
  <2> HIDE DEF r
  <2>4. BudgetOf(r(pc))
    BY <1>2, <2>1, <2>2, <2>3 DEF BudgetOf
  <2> QED
    BY <2>1, <2>4
<1>3. ASSUME NEW pc \in {"starting", "queued"}, pay' = entered(pc)
      PROVE  /\ pay' \in [Pays -> PayRecords]
             /\ \A q \in Pays : BudgetOf(pay'[q])
             /\ \A q \in Pays : q # p => pay'[q] = pay[q]
             /\ pay'[p].pc = pc
  <2>1. \A q \in Pays : pay'[q] = IF q = p THEN r(pc) ELSE pay[q]
    BY <1>3 DEF Books
  <2>2. pay' = [pay EXCEPT ![p] = r(pc)]
    BY <1>3 DEF Books
  <2> QED
    BY <1>2, <2>1, <2>2 DEF Books
<1>4. CASE closed
  <2> DEFINE x == [pay[p] EXCEPT !.pc = "rejected"]
  <2>1. x \in PayRecords /\ BudgetOf(x) /\ x.pc = "rejected"
    BY <1>1 DEF PayRecords, PayStates, BudgetOf
  <2>2. pay' = [pay EXCEPT ![p] = x] /\ queue' = queue /\ current' = current
    BY <1>4 DEF Enqueue, Books
  <2>3. \A q \in Pays : pay'[q] = IF q = p THEN x ELSE pay[q]
    BY <2>2 DEF Books
  <2>4. \A q \in Pays : UnderWay(q)' <=> UnderWay(q)
    BY <1>0, <2>1, <2>3 DEF UnderWay
  <2>5. \A q \in Pays : pay'[q].pc = "queued" <=> pay[q].pc = "queued"
    BY <1>0, <2>1, <2>3
  <2>6. QueueConsistent'
    BY <2>2, <2>4, <2>5 DEF Books, QueueConsistent
  <2> QED
    BY <2>1, <2>2, <2>3, <2>6 DEF Books, BudgetOf
<1>5. CASE ~closed /\ current = NoPay
  <2>1. pay' = entered("starting") /\ current' = p /\ queue' = queue /\ queue = <<>>
    BY <1>5 DEF Enqueue, Books, QueueConsistent
  <2>a. \A q \in Pays : ~UnderWay(q) /\ pay[q].pc # "queued"
    BY <1>5, <2>1, PaysFinite DEF Books, QueueConsistent
  <2>b. /\ \A q \in Pays : q # p => pay'[q] = pay[q]
        /\ pay'[p].pc = "starting"
    BY <1>3, <2>1
  <2>2. \A q \in Pays : UnderWay(q)' <=> p = q
    BY <2>a, <2>b DEF UnderWay
  <2>3. \A q \in Pays : pay'[q].pc # "queued"
    BY <2>a, <2>b
  <2>c. \A i \in 1 .. Len(queue') : FALSE
    BY <2>1
  <2>4. QueueConsistent'
    BY <2>1, <2>2, <2>3, <2>c, PaysFinite DEF QueueConsistent
  <2> QED
    BY <1>3, <2>1, <2>4 DEF Books, BudgetOf
<1>6. CASE ~closed /\ current # NoPay
  <2>1. pay' = entered("queued") /\ current' = current /\ queue' = Append(queue, p)
    BY <1>6 DEF Enqueue
  <2>2. /\ queue' \in Seq(Pays)
        /\ Len(queue) \in Nat
        /\ Len(queue') = Len(queue) + 1
        /\ \A i \in 1 .. Len(queue) : queue'[i] = queue[i]
        /\ queue'[Len(queue) + 1] = p
    BY <2>1 DEF Books
  <2>3. /\ \A q \in Pays : q # p => pay'[q] = pay[q]
        /\ pay'[p].pc = "queued"
    BY <1>3, <2>1
  <2>4. \A q \in Pays : UnderWay(q)' <=> UnderWay(q)
    BY <1>0, <2>3 DEF UnderWay
  <2>5. \A q \in Pays : UnderWay(q)' <=> current' = q
    BY <2>1, <2>4 DEF Books, QueueConsistent
  <2>6. \A q \in Pays : pay'[q].pc = "queued" <=> \E i \in 1 .. Len(queue') : queue'[i] = q
    <3>1. p = queue'[Len(queue')] /\ Len(queue') \in 1 .. Len(queue')
      BY <2>2
    <3>2. ASSUME NEW q \in Pays, q # p
          PROVE  pay'[q].pc = "queued" <=> \E i \in 1 .. Len(queue') : queue'[i] = q
      <4>1. pay[q].pc = "queued" <=> \E i \in 1 .. Len(queue) : queue[i] = q
        BY DEF Books, QueueConsistent
      <4>2. (\E i \in 1 .. Len(queue') : queue'[i] = q) <=> \E i \in 1 .. Len(queue) : queue[i] = q
        <5>1. ASSUME NEW i \in 1 .. Len(queue'), queue'[i] = q
              PROVE  i \in 1 .. Len(queue) /\ queue[i] = q
          BY <2>2, <3>2, <5>1
        <5>2. ASSUME NEW i \in 1 .. Len(queue), queue[i] = q
              PROVE  i \in 1 .. Len(queue') /\ queue'[i] = q
          BY <2>2, <5>2
        <5> QED
          BY <5>1, <5>2
      <4> QED
        BY <2>3, <3>2, <4>1, <4>2
    <3> QED
      BY <2>3, <3>1, <3>2
  <2>7. \A i, j \in 1 .. Len(queue') : queue'[i] = queue'[j] => i = j
    <3>1. \A i \in 1 .. Len(queue) : queue[i] # p
      BY <1>0 DEF Books, QueueConsistent
    <3>2. \A i, j \in 1 .. Len(queue) : queue[i] = queue[j] => i = j
      BY DEF Books, QueueConsistent
    <3> QED
      BY <2>2, <3>1, <3>2
  <2>8. current' # NoPay
    BY <1>6, <2>1
  <2>9. QueueConsistent'
    BY <2>5, <2>6, <2>7, <2>8 DEF QueueConsistent
  <2> QED
    BY <1>3, <2>1, <2>2, <2>9 DEF Books, BudgetOf
<1> QED
  BY <1>4, <1>5, <1>6

(* An error reaches the job: it fails over or rejects.                      *)
LEMMA ErrorKeepsBooks ==
  ASSUME Books, NEW p \in Pays, pay[p].pc \in {"starting", "running", "failover"},
         NEW error \in Errors, ErrorReachesJob(p, error)
  PROVE  Books'
<1>0. pay[p] \in PayRecords /\ BudgetOf(pay[p]) /\ UnderWay(p)
  BY DEF Books, UnderWay
<1>1. CASE Standby /\ pay[p].failovers = 0
  <2> DEFINE r == [pc |-> "failover", attempt |-> pay[p].attempt, subs |-> pay[p].subs,
                   failovers |-> 1, result |-> pay[p].result]
  <2>a. /\ r \in PayRecords /\ r.pc = "failover" /\ r.failovers = 1
        /\ r.subs = pay[p].subs /\ r.attempt = pay[p].attempt
    BY <1>0 DEF PayRecords, PayStates
  <2>b. /\ pay[p].attempt \in Nat /\ pay[p].subs \in Nat
        /\ pay[p].subs <= 2 * pay[p].attempt - 1
    BY <1>0, <1>1 DEF PayRecords, BudgetOf
  <2>2. pay' = [pay EXCEPT ![p] = r] /\ queue' = queue /\ current' = current
    BY <1>1 DEF ErrorReachesJob, Books
  <2> HIDE DEF r
  <2>1. BudgetOf(r)
    BY <2>a, <2>b DEF BudgetOf
  <2> QED
    BY <1>0, <2>a, <2>1, <2>2, MoveKeepsBooks
<1>2. CASE ~(Standby /\ pay[p].failovers = 0)
  <2> DEFINE pc == IF error = "transient" /\ pay[p].attempt < MaxAttempts
                   THEN "backoff" ELSE "rejected"
             r == [pay[p] EXCEPT !.pc = pc]
  <2>1. SettleJob(p, r)
    BY <1>2 DEF ErrorReachesJob, JobRejects
  <2>2. r \in PayRecords /\ r.pc \in {"resolved", "rejected", "backoff"}
    BY <1>0 DEF PayRecords, PayStates
  <2>3. BudgetOf(r)
    BY <1>0 DEF PayRecords, BudgetOf
  <2> HIDE DEF r
  <2> QED
    BY <1>0, <2>1, <2>2, <2>3, SettleKeepsBooks
<1> QED
  BY <1>1, <1>2

LEMMA ResolveKeepsBooks ==
  ASSUME Books, NEW p \in Pays, UnderWay(p), NEW tx \in Txs \cup {NoTx}, JobResolves(p, tx)
  PROVE  Books'
<1> DEFINE r == [pay[p] EXCEPT !.pc = "resolved", !.result = tx]
<1>1. pay[p] \in PayRecords /\ BudgetOf(pay[p])
  BY DEF Books
<1>2. r \in PayRecords /\ r.pc = "resolved" /\ BudgetOf(r)
  BY <1>1 DEF PayRecords, PayStates, BudgetOf
<1>3. SettleJob(p, r)
  BY DEF JobResolves
<1> HIDE DEF r
<1> QED
  BY <1>2, <1>3, SettleKeepsBooks

LEMMA BooksUnchanged ==
  ASSUME Books, UNCHANGED <<pay, queue, current>>
  PROVE  Books'
<1>1. \A p \in Pays : UnderWay(p)' <=> UnderWay(p)
  BY DEF UnderWay
<1>2. QueueConsistent'
  BY <1>1 DEF Books, QueueConsistent
<1> QED
  BY <1>2 DEF Books, BudgetOf

-----------------------------------------------------------------------------
(* The same for the steps of _doSubmitTx.                                   *)

LEMMA GoToTyped ==
  ASSUME sub \in [Subs -> SubRecords], NEW s \in Subs, NEW stage \in SubStages, GoTo(s, stage)
  PROVE  sub' \in [Subs -> SubRecords]
<1>1. [sub[s] EXCEPT !.stage = stage] \in SubRecords
  BY DEF SubRecords
<1> QED
  BY <1>1 DEF GoTo

LEMMA FailKeepsIInv ==
  ASSUME IInv, NEW s \in Subs, NEW error \in Errors, SubFails(s, error)
  PROVE  /\ Books'
         /\ sub' \in [Subs -> SubRecords]
         /\ UNCHANGED <<closed, store>>
<1>1. Books'
  <2>1. s[1] \in Pays
    BY DEF Subs
  <2>2. CASE Awaited(s)
    BY <2>1, <2>2, ErrorKeepsBooks DEF IInv, SubFails, Awaited
  <2>3. CASE ~Awaited(s)
    BY <2>3, BooksUnchanged DEF IInv, SubFails
  <2> QED
    BY <2>2, <2>3
<1>2. sub' \in [Subs -> SubRecords]
  BY GoToTyped DEF IInv, RestTyped, SubFails, SubStages
<1> QED
  BY <1>1, <1>2 DEF SubFails

LEMMA SuccessKeepsIInv ==
  ASSUME IInv, NEW s \in Subs, NEW tx \in Txs, SubSucceeds(s, tx)
  PROVE  /\ Books'
         /\ sub' \in [Subs -> SubRecords]
         /\ store' \in [Ops -> Txs \cup {NoTx}]
         /\ UNCHANGED closed
<1>1. Books'
  <2>1. s[1] \in Pays
    BY DEF Subs
  <2>2. CASE Awaited(s)
    BY <2>1, <2>2, ResolveKeepsBooks DEF IInv, SubSucceeds, Awaited, UnderWay
  <2>3. CASE ~Awaited(s)
    BY <2>3, BooksUnchanged DEF IInv, SubSucceeds
  <2> QED
    BY <2>2, <2>3
<1>2. sub' \in [Subs -> SubRecords]
  BY GoToTyped DEF IInv, RestTyped, SubSucceeds, SubStages
<1>3. store' \in [Ops -> Txs \cup {NoTx}]
  BY DEF IInv, RestTyped, SubSucceeds, TryClaim
<1> QED
  BY <1>1, <1>2, <1>3 DEF SubSucceeds

LEMMA TxsOfSub ==
  ASSUME IInv, NEW s \in Subs
  PROVE  InnerTx(s) \in Txs /\ BumpTx(s) \in Txs /\ ToSend(s) \in Txs /\ Polled(s) \in Txs
BY DEF IInv, RestTyped, SubRecords, InnerTx, BumpTx, ToSend, Polled, Txs

LEMMA BeginKeepsIInv ==
  ASSUME IInv, NEW p \in Pays, pay[p].pc \in {"starting", "failover"}, BeginSub(p)
  PROVE  IInv'
<1> DEFINE r == [pc |-> "running", attempt |-> pay[p].attempt, subs |-> pay[p].subs + 1,
                 failovers |-> pay[p].failovers, result |-> pay[p].result]
<1>1. /\ pay[p] \in PayRecords /\ BudgetOf(pay[p])
  BY DEF IInv, Books
<1>2. /\ pay[p].attempt \in 0 .. MaxAttempts /\ pay[p].subs \in Nat
      /\ pay[p].failovers \in 0 .. 1
      /\ pay[p].subs + 1 <= 2 * pay[p].attempt - 1 + pay[p].failovers
  BY <1>1 DEF PayRecords, BudgetOf
<1>3. pay[p].subs + 1 \in 1 .. 2 * MaxAttempts /\ pay[p].attempt >= 1
  BY <1>2, AttemptsPositive
<1>4. r \in PayRecords
  BY <1>1, <1>3 DEF PayRecords, PayStates
<1>5. r.pc = "running" /\ BudgetOf(r)
  BY <1>2, <1>3 DEF BudgetOf
<1>6. pay' = [pay EXCEPT ![p] = r] /\ queue' = queue /\ current' = current
  BY DEF BeginSub
<1>7. UnderWay(p)
  BY DEF UnderWay
<1> HIDE DEF r
<1>8. Books'
  BY <1>4, <1>5, <1>6, <1>7, MoveKeepsBooks DEF IInv
<1>9. NextSub(p) \in Subs
  BY <1>3 DEF NextSub, Subs
<1>10. sub' \in [Subs -> SubRecords]
  BY <1>9, GoToTyped DEF BeginSub, GoTo, IInv, RestTyped, SubStages
<1> QED
  BY <1>8, <1>10 DEF IInv, RestTyped, BeginSub

-----------------------------------------------------------------------------
LEMMA InitEstablishesIInv == Init => IInv
<1> SUFFICES ASSUME Init PROVE IInv
  OBVIOUS
<1>1. pay \in [Pays -> PayRecords]
  BY AttemptsPositive DEF Init, PayRecords, PayStates
<1>2. \A p \in Pays : BudgetOf(pay[p])
  BY AttemptsPositive DEF Init, BudgetOf
<1>3. QueueConsistent
  BY PaysFinite DEF Init, QueueConsistent, UnderWay
<1>4. Books
  BY <1>1, <1>2, <1>3 DEF Books, Init
<1>5. RestTyped
  BY DEF Init, RestTyped, SubRecords, SubStages
<1> QED
  BY <1>4, <1>5 DEF IInv

LEMMA NextKeepsIInv ==
  ASSUME IInv, [Next]_vars
  PROVE  IInv'
<1> USE DEF RestTyped
<1>1. ASSUME NEW p \in Pays, Pay(p) \/ Retry(p) PROVE IInv'
  BY <1>1, EnqueueKeepsBooks DEF Pay, Retry, IInv
<1>2. ASSUME NEW p \in Pays, Hit(p) PROVE IInv'
  <2> DEFINE r == [pay[p] EXCEPT !.pc = "hit", !.result = store[OpOf[p]]]
  <2>1. pay[p] \in PayRecords /\ BudgetOf(pay[p]) /\ UnderWay(p)
    BY <1>2 DEF IInv, Books, Hit, UnderWay
  <2>2. store[OpOf[p]] \in Txs \cup {NoTx}
    BY OpsOfPays DEF IInv
  <2>3. r \in PayRecords /\ r.pc = "hit" /\ BudgetOf(r)
    BY <2>1, <2>2 DEF PayRecords, PayStates, BudgetOf
  <2>4. pay' = [pay EXCEPT ![p] = r] /\ queue' = queue /\ current' = current
    BY <1>2 DEF Hit, IInv, Books
  <2> HIDE DEF r
  <2>5. Books'
    BY <2>1, <2>3, <2>4, MoveKeepsBooks DEF IInv
  <2> QED
    BY <1>2, <2>5 DEF IInv, Hit
<1>3. ASSUME NEW p \in Pays, ReturnHit(p) PROVE IInv'
  <2>1. pay[p].result \in Txs \cup {NoTx}
    BY DEF IInv, Books, PayRecords
  <2> QED
    BY <1>3, <2>1, ResolveKeepsBooks DEF ReturnHit, IInv, UnderWay
<1>4. ASSUME NEW p \in Pays, Execute(p) \/ Failover(p) PROVE IInv'
  BY <1>4, BeginKeepsIInv DEF Execute, Failover
<1>5. CASE Shutdown
  <2>1. Books'
    BY <1>5, BooksUnchanged DEF Shutdown, IInv
  <2> QED
    BY <1>5, <2>1 DEF Shutdown, IInv
<1>6. ASSUME NEW s \in Subs, ReadAccount(s) PROVE IInv'
  <2>1. Books'
    BY <1>6, BooksUnchanged DEF ReadAccount, IInv
  <2>2a. (IF RpcLags THEN 0 .. ledgerSeq ELSE {ledgerSeq}) \subseteq Nat
    BY DEF IInv, RestTyped
  <2>2b. \E n \in IF RpcLags THEN 0 .. ledgerSeq ELSE {ledgerSeq} :
            sub' = [sub EXCEPT ![s] = [stage |-> "prepare", seq |-> n + 1]]
    BY <1>6 DEF ReadAccount
  <2>2. PICK n \in Nat : sub' = [sub EXCEPT ![s] = [stage |-> "prepare", seq |-> n + 1]]
    BY <2>2a, <2>2b
  <2>3. [stage |-> "prepare", seq |-> n + 1] \in SubRecords
    BY DEF SubRecords, SubStages
  <2>4. sub' \in [Subs -> SubRecords]
    BY <2>2, <2>3 DEF IInv
  <2> QED
    BY <1>6, <2>1, <2>4 DEF ReadAccount, IInv, StaysOnLedger, ledgerVars
<1>7. ASSUME NEW s \in Subs, Prepare(s) \/ SendAccepted(s) \/ SendPutOff(s) PROVE IInv'
  <2>1. Books'
    BY <1>7, BooksUnchanged DEF Prepare, SendAccepted, SendPutOff, IInv
  <2>2. \E stage \in SubStages : GoTo(s, stage)
    BY <1>7 DEF Prepare, SendAccepted, SendPutOff, SubStages
  <2>3. sub' \in [Subs -> SubRecords]
    BY <2>2, GoToTyped DEF IInv
  <2>4. mempool' \subseteq Txs
    BY <1>7, TxsOfSub DEF Prepare, SendAccepted, SendPutOff, StaysOnLedger, ledgerVars, IInv
  <2> QED
    BY <1>7, <2>1, <2>3, <2>4
       DEF Prepare, SendAccepted, SendPutOff, StaysOnLedger, ledgerVars, IInv
<1>8. ASSUME NEW s \in Subs, SendAnswerLost(s) PROVE IInv'
  <2>1. SubFails(s, "transient")
    BY <1>8 DEF SendAnswerLost
  <2>2. Books' /\ sub' \in [Subs -> SubRecords] /\ UNCHANGED <<closed, store>>
    BY <2>1, FailKeepsIInv DEF Errors
  <2> QED
    BY <1>8, <2>2, TxsOfSub DEF SendAnswerLost, IInv
<1>9. ASSUME NEW s \in Subs, FailsBeforeSending(s) \/ PollDisconnects(s) PROVE IInv'
  <2>1. PICK error \in Errors : SubFails(s, error)
    BY <1>9 DEF FailsBeforeSending, PollDisconnects, Errors
  <2>2. Books' /\ sub' \in [Subs -> SubRecords] /\ UNCHANGED <<closed, store>>
    BY <2>1, FailKeepsIInv
  <2> QED
    BY <1>9, <2>2 DEF FailsBeforeSending, PollDisconnects, StaysOnLedger, ledgerVars, IInv
<1>10. ASSUME NEW s \in Subs, PollFinds(s) PROVE IInv'
  <2>1. StaysOnLedger
    BY <1>10 DEF PollFinds
  <2>2. CASE SubSucceeds(s, Polled(s))
    BY <2>1, <2>2, SuccessKeepsIInv, TxsOfSub DEF StaysOnLedger, ledgerVars, IInv
  <2>3. CASE SubFails(s, "transient")
    <3>1. Books' /\ sub' \in [Subs -> SubRecords] /\ UNCHANGED <<closed, store>>
      BY <2>3, FailKeepsIInv DEF Errors
    <3> QED
      BY <2>1, <3>1 DEF StaysOnLedger, ledgerVars, IInv
  <2> QED
    BY <1>10, <2>2, <2>3 DEF PollFinds
<1>11. ASSUME NEW s \in Subs, PollGivesUp(s) PROVE IInv'
  <2>1. Books' /\ sub' \in [Subs -> SubRecords] /\ UNCHANGED <<closed, store>>
    <3>1. CASE At(s, "poll")
      <4>1. GoTo(s, "bump") /\ UNCHANGED <<pay, queue, current, closed, store>>
        BY <1>11, <3>1 DEF PollGivesUp
      <4> QED
        BY <4>1, GoToTyped, BooksUnchanged DEF SubStages, IInv
    <3>2. CASE ~At(s, "poll")
      BY <1>11, <3>2, FailKeepsIInv DEF PollGivesUp, Errors
    <3> QED
      BY <3>1, <3>2
  <2> QED
    BY <1>11, <2>1 DEF PollGivesUp, StaysOnLedger, ledgerVars, IInv
<1>12. ASSUME NEW tx \in mempool, Land(tx) PROVE IInv'
  <2>1. Books'
    BY <1>12, BooksUnchanged DEF Land, clientVars, IInv
  <2>2. landed' \subseteq LandedTxs /\ mempool' \subseteq Txs /\ ledgerSeq' \in Nat
    BY <1>12 DEF Land, IInv, LandedTxs
  <2> QED
    BY <1>12, <2>1, <2>2 DEF Land, clientVars, IInv
<1>13. CASE ForeignTx
  <2>1. Books'
    BY <1>13, BooksUnchanged DEF ForeignTx, clientVars, IInv
  <2> QED
    BY <1>13, <2>1 DEF ForeignTx, clientVars, IInv
<1>14. ASSUME NEW o \in Ops, ExpireKey(o) PROVE IInv'
  <2>1. Books'
    BY <1>14, BooksUnchanged DEF ExpireKey, IInv
  <2>2. store' \in [Ops -> Txs \cup {NoTx}]
    BY <1>14 DEF ExpireKey, IInv
  <2> QED
    BY <1>14, <2>1, <2>2 DEF ExpireKey, StaysOnLedger, ledgerVars, IInv
<1>15. CASE UNCHANGED vars
  <2>1. Books'
    BY <1>15, BooksUnchanged DEF vars, IInv
  <2> QED
    BY <1>15, <2>1 DEF vars, IInv
<1> QED
  BY <1>1, <1>2, <1>3, <1>4, <1>5, <1>6, <1>7, <1>8, <1>9, <1>10, <1>11, <1>12, <1>13, <1>14, <1>15
     DEF Next, PayStep, SubStep, Environment

(* Every variable of the submission keeps its range: a call never starts    *)
(* more attempts than maxAttempts nor more executions than two per attempt. *)
THEOREM SubmissionTypeCorrect == Spec => []TypeOK
<1>1. IInv => TypeOK
  BY DEF IInv, Books, RestTyped, TypeOK
<1> QED
  BY <1>1, InitEstablishesIInv, NextKeepsIInv, PTL DEF Spec

(* The queue's books are always in order: the job it awaits is the only one *)
(* under way, and the waiting calls are in its list, each once.             *)
THEOREM QueueAlwaysConsistent == Spec => []QueueConsistent
<1>1. IInv => QueueConsistent
  BY DEF IInv, Books
<1> QED
  BY <1>1, InitEstablishesIInv, NextKeepsIInv, PTL DEF Spec

-----------------------------------------------------------------------------
(* What a call reports.  A receipt for operation o is a transaction that a  *)
(* ledger has applied and that carries o; the calls that have an answer and *)
(* the store hold receipts only, and the ledger never takes one back.       *)
Receipt(ledger, o, tx) ==
    [tx |-> tx, status |-> "SUCCESS"] \in ledger /\ Op(tx.sub) = o
Answered(r) == r.pc \in {"hit", "resolved"}

AnswersAreReceipts ==
    \A p \in Pays : Answered(pay[p]) => Receipt(landed, OpOf[p], pay[p].result)
StoreHoldsReceipts == \A o \in Ops : store[o] # NoTx => Receipt(landed, o, store[o])

(* Only the call a step touches may gain an answer.                         *)
LEMMA OneAnswerChanges ==
  ASSUME AnswersAreReceipts, landed \subseteq landed', NEW p \in Pays,
         \A q \in Pays : q # p => pay'[q] = pay[q] \/ pay'[q].pc = "starting",
         Answered(pay'[p]) => Receipt(landed', OpOf[p], pay'[p].result)
  PROVE  AnswersAreReceipts'
<1> SUFFICES ASSUME NEW q \in Pays, Answered(pay'[q])
             PROVE  Receipt(landed', OpOf[q], pay'[q].result)
  BY DEF AnswersAreReceipts, Answered
<1>1. CASE q = p
  BY <1>1
<1>2. CASE q # p
  <2>1. pay'[q] = pay[q]
    BY <1>2 DEF Answered
  <2>2. Receipt(landed, OpOf[q], pay[q].result)
    BY <2>1 DEF AnswersAreReceipts
  <2> QED
    BY <2>1, <2>2 DEF Receipt
<1> QED
  BY <1>1, <1>2

LEMMA NoAnswerChanges ==
  ASSUME AnswersAreReceipts, landed \subseteq landed', UNCHANGED pay
  PROVE  AnswersAreReceipts'
BY DEF AnswersAreReceipts, Receipt

LEMMA SettleKeepsAnswers ==
  ASSUME Books, AnswersAreReceipts, landed \subseteq landed', NEW p \in Pays, UnderWay(p),
         NEW r, Answered(r) => Receipt(landed, OpOf[p], r.result), SettleJob(p, r)
  PROVE  AnswersAreReceipts'
<1>1. \A q \in Pays : q # p => pay'[q] = pay[q] \/ pay'[q].pc = "starting"
  BY DEF SettleJob, Books, PayRecords
<1>2. pay'[p] = r
  <2>1. CASE queue = <<>>
    BY <2>1 DEF SettleJob, Books
  <2>2. CASE queue # <<>>
    <3>1. Head(queue) = queue[1] /\ 1 \in 1 .. Len(queue)
      BY <2>2 DEF Books
    <3>2. pay[p].pc # "queued"
      BY DEF UnderWay
    <3>3. Head(queue) # p
      BY <3>1, <3>2 DEF Books, QueueConsistent
    <3> QED
      BY <2>2, <3>3 DEF SettleJob, Books
  <2> QED
    BY <2>1, <2>2
<1>3. Answered(pay'[p]) => Receipt(landed', OpOf[p], pay'[p].result)
  BY <1>2 DEF Receipt
<1> QED
  BY <1>1, <1>3, OneAnswerChanges

LEMMA FailKeepsAnswers ==
  ASSUME Books, AnswersAreReceipts, landed \subseteq landed',
         NEW s \in Subs, NEW error, SubFails(s, error)
  PROVE  AnswersAreReceipts'
<1>1. s[1] \in Pays
  BY DEF Subs
<1>2. CASE ~Awaited(s)
  BY <1>2, NoAnswerChanges DEF SubFails
<1>3. CASE Awaited(s)
  <2>1. UnderWay(s[1])
    BY <1>3 DEF Awaited, UnderWay
  <2>2. CASE Standby /\ pay[s[1]].failovers = 0
    <3>1. \A q \in Pays : q # s[1] => pay'[q] = pay[q]
      BY <1>1, <1>3, <2>2 DEF SubFails, ErrorReachesJob, Books
    <3>2. pay'[s[1]].pc = "failover"
      BY <1>1, <1>3, <2>2 DEF SubFails, ErrorReachesJob, Books
    <3>3. ~Answered(pay'[s[1]])
      BY <3>2 DEF Answered
    <3> QED
      BY <1>1, <3>1, <3>3, OneAnswerChanges
  <2>3. CASE ~(Standby /\ pay[s[1]].failovers = 0)
    <3> DEFINE r == [pay[s[1]] EXCEPT !.pc = IF error = "transient" /\ pay[s[1]].attempt < MaxAttempts
                                             THEN "backoff" ELSE "rejected"]
    <3>1. SettleJob(s[1], r)
      BY <1>3, <2>3 DEF SubFails, ErrorReachesJob, JobRejects
    <3>2. ~Answered(r)
      BY <1>1 DEF Answered, Books, PayRecords
    <3> HIDE DEF r
    <3> QED
      BY <1>1, <2>1, <3>1, <3>2, SettleKeepsAnswers
  <2> QED
    BY <2>2, <2>3
<1> QED
  BY <1>2, <1>3

(* An execution that succeeds reports its own transaction, which the call   *)
(* and the store take over.                                                 *)
LEMMA SuccessKeepsReceipts ==
  ASSUME IInv, AnswersAreReceipts, StoreHoldsReceipts, UNCHANGED landed,
         NEW s \in Subs, NEW tx \in Txs, Applied(tx), tx.sub = s, SubSucceeds(s, tx)
  PROVE  AnswersAreReceipts' /\ StoreHoldsReceipts'
<1>1. s[1] \in Pays
  BY DEF Subs
<1>2. Receipt(landed, OpOf[s[1]], tx) /\ Receipt(landed, Op(s), tx)
  BY DEF Receipt, Applied, Op
<1>3. CASE ~Awaited(s)
  <2>1. UNCHANGED <<pay, store>>
    BY <1>3 DEF SubSucceeds
  <2> QED
    BY <2>1 DEF AnswersAreReceipts, StoreHoldsReceipts
<1>4. CASE Awaited(s)
  <2>1. UnderWay(s[1])
    BY <1>4 DEF Awaited, UnderWay
  <2> DEFINE r == [pay[s[1]] EXCEPT !.pc = "resolved", !.result = tx]
  <2>2. SettleJob(s[1], r)
    BY <1>4 DEF SubSucceeds, JobResolves
  <2>3. r.result = tx
    BY <1>1 DEF IInv, Books, PayRecords
  <2> HIDE DEF r
  <2>4. AnswersAreReceipts'
    BY <1>1, <1>2, <2>1, <2>2, <2>3, SettleKeepsAnswers DEF IInv
  <2>5. StoreHoldsReceipts'
    <3> SUFFICES ASSUME NEW o \in Ops, store'[o] # NoTx
                 PROVE  Receipt(landed, o, store'[o])
      BY DEF StoreHoldsReceipts
    <3>1. CASE store'[o] = store[o]
      BY <3>1 DEF StoreHoldsReceipts
    <3>2. CASE store'[o] # store[o]
      <4>1. o = Op(s) /\ store'[o] = tx
        BY <1>4, <3>2 DEF SubSucceeds, TryClaim, IInv, RestTyped
      <4> QED
        BY <4>1, <1>2
    <3> QED
      BY <3>1, <3>2
  <2> QED
    BY <2>4, <2>5
<1> QED
  BY <1>3, <1>4

LEMMA EnqueueKeepsAnswers ==
  ASSUME Books, AnswersAreReceipts, UNCHANGED landed, NEW p \in Pays, Enqueue(p)
  PROVE  AnswersAreReceipts'
<1>1. \A q \in Pays : q # p => pay'[q] = pay[q]
  BY DEF Enqueue, Books
<1>2. pay'[p].pc \in {"rejected", "starting", "queued"}
  BY DEF Enqueue, Books, PayRecords
<1>3. ~Answered(pay'[p])
  BY <1>2 DEF Answered
<1> QED
  BY <1>1, <1>3, OneAnswerChanges

LEMMA NextKeepsReceipts ==
  ASSUME IInv, AnswersAreReceipts, StoreHoldsReceipts, [Next]_vars
  PROVE  AnswersAreReceipts' /\ StoreHoldsReceipts'
<1>0. ASSUME UNCHANGED store, landed \subseteq landed' PROVE StoreHoldsReceipts'
  BY <1>0 DEF StoreHoldsReceipts, Receipt
<1>1. ASSUME NEW p \in Pays, Pay(p) \/ Retry(p)
      PROVE  AnswersAreReceipts' /\ StoreHoldsReceipts'
  BY <1>0, <1>1, EnqueueKeepsAnswers DEF Pay, Retry, IInv
<1>2. ASSUME NEW p \in Pays, Hit(p) PROVE AnswersAreReceipts' /\ StoreHoldsReceipts'
  <2>1. OpOf[p] \in Ops /\ Receipt(landed, OpOf[p], store[OpOf[p]])
    BY <1>2, OpsOfPays DEF Hit, Known, StoreHoldsReceipts
  <2>2. pay'[p].result = store[OpOf[p]] /\ \A q \in Pays : q # p => pay'[q] = pay[q]
    BY <1>2 DEF Hit, IInv, Books, PayRecords
  <2>3. UNCHANGED <<store, landed>>
    BY <1>2 DEF Hit
  <2> QED
    BY <1>0, <2>1, <2>2, <2>3, OneAnswerChanges
<1>3. ASSUME NEW p \in Pays, ReturnHit(p) PROVE AnswersAreReceipts' /\ StoreHoldsReceipts'
  <2> DEFINE r == [pay[p] EXCEPT !.pc = "resolved", !.result = pay[p].result]
  <2>1. SettleJob(p, r) /\ UnderWay(p) /\ UNCHANGED <<store, landed>>
    BY <1>3 DEF ReturnHit, JobResolves, UnderWay
  <2>2. r.result = pay[p].result
    BY DEF IInv, Books, PayRecords
  <2>3. Receipt(landed, OpOf[p], r.result)
    BY <1>3, <2>2 DEF ReturnHit, AnswersAreReceipts, Answered
  <2> HIDE DEF r
  <2> QED
    BY <1>0, <2>1, <2>3, SettleKeepsAnswers DEF IInv
<1>4. ASSUME NEW p \in Pays, Execute(p) \/ Failover(p)
      PROVE  AnswersAreReceipts' /\ StoreHoldsReceipts'
  <2>1. BeginSub(p)
    BY <1>4 DEF Execute, Failover
  <2>2. pay'[p].pc = "running" /\ \A q \in Pays : q # p => pay'[q] = pay[q]
    BY <2>1 DEF BeginSub, IInv, Books
  <2>3. ~Answered(pay'[p])
    BY <2>2 DEF Answered
  <2>4. UNCHANGED <<store, landed>>
    BY <2>1 DEF BeginSub
  <2> QED
    BY <1>0, <2>2, <2>3, <2>4, OneAnswerChanges
<1>5. ASSUME UNCHANGED <<pay, store>>, landed \subseteq landed'
      PROVE  AnswersAreReceipts' /\ StoreHoldsReceipts'
  BY <1>0, <1>5, NoAnswerChanges
<1>6. ASSUME NEW s \in Subs, NEW error, SubFails(s, error), landed \subseteq landed'
      PROVE  AnswersAreReceipts' /\ StoreHoldsReceipts'
  BY <1>0, <1>6, FailKeepsAnswers DEF SubFails, IInv
<1>7. ASSUME NEW s \in Subs, SubStep(s) PROVE AnswersAreReceipts' /\ StoreHoldsReceipts'
  <2>1. UNCHANGED landed
    BY <1>7 DEF SubStep, ReadAccount, Prepare, SendAccepted, SendPutOff, SendAnswerLost,
       FailsBeforeSending, PollFinds, PollGivesUp, PollDisconnects, StaysOnLedger, ledgerVars
  <2>2. CASE ReadAccount(s) \/ Prepare(s) \/ SendAccepted(s) \/ SendPutOff(s)
    <3>1. UNCHANGED <<pay, store>>
      BY <2>2 DEF ReadAccount, Prepare, SendAccepted, SendPutOff
    <3> QED
      BY <1>5, <2>1, <3>1
  <2>3. CASE SendAnswerLost(s) \/ FailsBeforeSending(s) \/ PollDisconnects(s)
    <3>1. \E error \in Errors : SubFails(s, error)
      BY <2>3 DEF SendAnswerLost, FailsBeforeSending, PollDisconnects, Errors
    <3> QED
      BY <1>6, <2>1, <3>1
  <2>4. CASE PollFinds(s)
    <3>1. CASE Applied(Polled(s)) /\ SubSucceeds(s, Polled(s))
      <4>1. Polled(s) \in Txs /\ Polled(s).sub = s
        BY TxsOfSub DEF IInv, RestTyped, Polled, InnerTx, BumpTx
      <4> QED
        BY <2>1, <3>1, <4>1, SuccessKeepsReceipts
    <3>2. CASE SubFails(s, "transient")
      BY <1>6, <2>1, <3>2
    <3> QED
      BY <2>4, <3>1, <3>2 DEF PollFinds
  <2>5. CASE PollGivesUp(s)
    <3>1. CASE At(s, "poll")
      <4>1. UNCHANGED <<pay, store>>
        BY <2>5, <3>1 DEF PollGivesUp
      <4> QED
        BY <1>5, <2>1, <4>1
    <3>2. CASE ~At(s, "poll")
      <4>1. SubFails(s, "transient")
        BY <2>5, <3>2 DEF PollGivesUp
      <4> QED
        BY <1>6, <2>1, <4>1
    <3> QED
      BY <3>1, <3>2
  <2> QED
    BY <1>7, <2>2, <2>3, <2>4, <2>5 DEF SubStep
<1>8. CASE Shutdown \/ UNCHANGED vars \/ ForeignTx
  <2>1. UNCHANGED <<pay, store, landed>>
    BY <1>8 DEF Shutdown, vars, ForeignTx, clientVars
  <2> QED
    BY <1>5, <2>1
<1>9. ASSUME NEW tx \in mempool, Land(tx) PROVE AnswersAreReceipts' /\ StoreHoldsReceipts'
  <2>1. UNCHANGED <<pay, store>> /\ landed \subseteq landed'
    BY <1>9 DEF Land, clientVars
  <2> QED
    BY <1>5, <2>1
<1>10. ASSUME NEW o \in Ops, ExpireKey(o) PROVE AnswersAreReceipts' /\ StoreHoldsReceipts'
  <2>1. UNCHANGED <<pay, landed>>
    BY <1>10 DEF ExpireKey, StaysOnLedger, ledgerVars
  <2>2. \A k \in Ops : store'[k] = store[k] \/ store'[k] = NoTx
    BY <1>10 DEF ExpireKey, IInv, RestTyped
  <2>3. StoreHoldsReceipts'
    BY <2>1, <2>2 DEF StoreHoldsReceipts
  <2> QED
    BY <2>1, <2>3, NoAnswerChanges
<1> QED
  BY <1>1, <1>2, <1>3, <1>4, <1>7, <1>8, <1>9, <1>10 DEF Next, PayStep, Environment

LEMMA InitHoldsReceipts == Init => AnswersAreReceipts /\ StoreHoldsReceipts
BY DEF Init, AnswersAreReceipts, StoreHoldsReceipts, Answered

(* A call of pay() that resolves names an applied transaction that carries  *)
(* its operation.                                                           *)
THEOREM SuccessMeansApplied == Spec => []ResolvedIsApplied
<1>1. AnswersAreReceipts => ResolvedIsApplied
  BY DEF AnswersAreReceipts, ResolvedIsApplied, Answered, Receipt, Applied
<1> QED
  BY <1>1, InitEstablishesIInv, NextKeepsIInv, InitHoldsReceipts, NextKeepsReceipts,
     PTL DEF Spec

(* The idempotency store answers only with transactions applied for that    *)
(* very operation, whatever expires and whoever answers late.               *)
THEOREM StoreAnswersTruly == Spec => []StoredIsApplied
<1>1. StoreHoldsReceipts => StoredIsApplied
  BY DEF StoreHoldsReceipts, StoredIsApplied, Receipt, Applied
<1> QED
  BY <1>1, InitEstablishesIInv, NextKeepsIInv, InitHoldsReceipts, NextKeepsReceipts,
     PTL DEF Spec

-----------------------------------------------------------------------------
(***************************************************************************)
(* The ledger.  For every number of calls, operations and attempts and     *)
(* under every schedule: a fee bump never lands next to the transaction it *)
(* wraps, pay() implements PaymentPromise, and the queue serialises the    *)
(* submissions and the claims of their keys.                               *)
(***************************************************************************)

(* What the ledger has of a submission.  A transaction that is pending or   *)
(* applied carries the sequence number which its submission read, and that  *)
(* number is not read again; the ledger applies one transaction per number. *)
Sent(tx) ==
    /\ sub[tx.sub].stage \notin {"idle", "account"}
    /\ tx.seq = sub[tx.sub].seq

LedgerAgrees ==
    /\ \A s \in Subs : sub[s].stage # "idle" => s[2] <= pay[s[1]].subs
    /\ \A tx \in mempool : Sent(tx)
    /\ \A r \in landed : Sent(r.tx) /\ r.tx.seq <= ledgerSeq
    /\ \A r, q \in landed : r.tx.seq = q.tx.seq => r = q

(* A job that settles changes its own call and starts the next one.         *)
LEMMA SettleChanges ==
  ASSUME Books, NEW p \in Pays, UnderWay(p), NEW r \in PayRecords, SettleJob(p, r)
  PROVE  /\ pay'[p] = r
         /\ \A q \in Pays : q # p =>
               \/ pay'[q] = pay[q]
               \/ pay[q].pc = "queued" /\ pay'[q].pc = "starting" /\ pay'[q].subs = pay[q].subs
<1>1. CASE queue = <<>>
  BY <1>1 DEF SettleJob, Books
<1>2. CASE queue # <<>>
  <2>1. Head(queue) = queue[1] /\ 1 \in 1 .. Len(queue) /\ Head(queue) \in Pays
    BY <1>2 DEF Books
  <2>2. pay[Head(queue)].pc = "queued"
    BY <2>1 DEF Books, QueueConsistent
  <2>3. Head(queue) # p
    BY <2>2 DEF UnderWay
  <2>4. pay' = [pay EXCEPT ![p] = r, ![Head(queue)].pc = "starting"]
    BY <1>2 DEF SettleJob
  <2>5. pay'[p] = r /\ \A q \in Pays : q # p /\ q # Head(queue) => pay'[q] = pay[q]
    BY <2>1, <2>3, <2>4 DEF Books
  <2>6. pay'[Head(queue)] = [pay[Head(queue)] EXCEPT !.pc = "starting"]
    BY <2>1, <2>3, <2>4 DEF Books
  <2>7. pay'[Head(queue)].pc = "starting" /\ pay'[Head(queue)].subs = pay[Head(queue)].subs
    BY <2>1, <2>6 DEF Books, PayRecords
  <2> QED
    BY <2>2, <2>5, <2>7
<1> QED
  BY <1>1, <1>2

(* How a call's record changes when its submission fails: it fails over or  *)
(* its job settles with an error.                                           *)
LEMMA FailChanges ==
  ASSUME Books, NEW s \in Subs, NEW error, SubFails(s, error)
  PROVE  \/ UNCHANGED pay
         \/ /\ pay[s[1]].pc = "running"
            /\ pay'[s[1]].pc \in {"failover", "backoff", "rejected"}
            /\ pay'[s[1]].subs = pay[s[1]].subs
            /\ \A q \in Pays : q # s[1] =>
                  \/ pay'[q] = pay[q]
                  \/ pay[q].pc = "queued" /\ pay'[q].pc = "starting" /\ pay'[q].subs = pay[q].subs
<1>1. s[1] \in Pays /\ pay[s[1]] \in PayRecords
  BY DEF Subs, Books
<1>2. CASE ~Awaited(s)
  BY <1>2 DEF SubFails
<1>3. CASE Awaited(s) /\ Standby /\ pay[s[1]].failovers = 0
  BY <1>1, <1>3 DEF SubFails, ErrorReachesJob, Books, Awaited
<1>4. CASE Awaited(s) /\ ~(Standby /\ pay[s[1]].failovers = 0)
  <2> DEFINE r == [pay[s[1]] EXCEPT !.pc = IF error = "transient" /\ pay[s[1]].attempt < MaxAttempts
                                           THEN "backoff" ELSE "rejected"]
  <2>1. SettleJob(s[1], r) /\ pay[s[1]].pc = "running"
    BY <1>4 DEF SubFails, ErrorReachesJob, JobRejects, Awaited
  <2>2. r \in PayRecords /\ r.subs = pay[s[1]].subs /\ r.pc \in {"backoff", "rejected"}
    BY <1>1 DEF PayRecords, PayStates
  <2>3. UnderWay(s[1])
    BY <2>1 DEF UnderWay
  <2> HIDE DEF r
  <2> QED
    BY <1>1, <2>1, <2>2, <2>3, SettleChanges
<1> QED
  BY <1>2, <1>3, <1>4

LEMMA ResolveChanges ==
  ASSUME Books, NEW p \in Pays, UnderWay(p), NEW tx \in Txs \cup {NoTx}, JobResolves(p, tx)
  PROVE  /\ pay'[p].pc = "resolved" /\ pay'[p].subs = pay[p].subs
         /\ \A q \in Pays : q # p =>
               \/ pay'[q] = pay[q]
               \/ pay[q].pc = "queued" /\ pay'[q].pc = "starting" /\ pay'[q].subs = pay[q].subs
<1> DEFINE r == [pay[p] EXCEPT !.pc = "resolved", !.result = tx]
<1>1. SettleJob(p, r)
  BY DEF JobResolves
<1>2. r \in PayRecords /\ r.subs = pay[p].subs /\ r.pc = "resolved"
  BY DEF Books, PayRecords, PayStates
<1> HIDE DEF r
<1> QED
  BY <1>1, <1>2, SettleChanges

LEMMA EnqueueChanges ==
  ASSUME Books, NEW p \in Pays, Enqueue(p)
  PROVE  /\ pay'[p].pc \in {"rejected", "starting", "queued"}
         /\ pay'[p].subs = pay[p].subs
         /\ \A q \in Pays : q # p => pay'[q] = pay[q]
BY DEF Enqueue, Books, PayRecords

(* What a step may do to a submission: nothing; move one that has read its  *)
(* number on; or move one that nothing has been sent of, and which then     *)
(* counts among those of its call.                                          *)
MovesSub(t) ==
    \/ sub'[t] = sub[t]
    \/ /\ {sub[t].stage, sub'[t].stage} \cap {"idle", "account"} = {}
       /\ sub'[t].seq = sub[t].seq
    \/ /\ sub[t].stage \in {"idle", "account"}
       /\ t[2] <= pay'[t[1]].subs

LEMMA FrameKeepsLedger ==
  ASSUME IInv, IInv', LedgerAgrees,
         \A q \in Pays : pay'[q].subs >= pay[q].subs,
         \A t \in Subs : MovesSub(t),
         \A tx \in mempool' \ mempool : Sent(tx)',
         UNCHANGED landed, ledgerSeq' >= ledgerSeq
  PROVE  LedgerAgrees'
<1>1. \A tx \in Txs : Sent(tx) => Sent(tx)'
  <2> SUFFICES ASSUME NEW tx \in Txs, Sent(tx) PROVE Sent(tx)'
    OBVIOUS
  <2>1. tx.sub \in Subs
    BY DEF Txs
  <2> QED
    BY <2>1 DEF Sent, MovesSub
<1>2. mempool \subseteq Txs /\ \A r \in landed : r.tx \in Txs /\ r.tx.seq \in Nat
  BY DEF IInv, RestTyped, LandedTxs, Txs
<1>3. ASSUME NEW s \in Subs, sub'[s].stage # "idle" PROVE s[2] <= pay'[s[1]].subs
  <2>1. s[1] \in Pays /\ s[2] \in Nat
    BY AttemptsPositive DEF Subs
  <2>2. pay[s[1]].subs \in Nat /\ pay'[s[1]].subs \in Nat
    BY <2>1 DEF IInv, Books, PayRecords
  <2>3. pay'[s[1]].subs >= pay[s[1]].subs
    BY <2>1
  <2>4. CASE sub[s].stage = "idle"
    BY <1>3, <2>4 DEF MovesSub
  <2>5. CASE sub[s].stage # "idle"
    BY <2>1, <2>2, <2>3, <2>5 DEF LedgerAgrees
  <2> QED
    BY <2>4, <2>5
<1>4. \A tx \in mempool' : Sent(tx)'
  BY <1>1, <1>2 DEF LedgerAgrees
<1>5. \A r \in landed' : Sent(r.tx)' /\ r.tx.seq <= ledgerSeq'
  <2>1. ledgerSeq \in Nat /\ ledgerSeq' \in Nat
    BY DEF IInv, RestTyped
  <2> QED
    BY <1>1, <1>2, <2>1 DEF LedgerAgrees
<1>6. \A r, q \in landed' : r.tx.seq = q.tx.seq => r = q
  BY DEF LedgerAgrees
<1> QED
  BY <1>3, <1>4, <1>5, <1>6 DEF LedgerAgrees, Sent

LEMMA SubMoves ==
  ASSUME sub \in [Subs -> SubRecords], NEW s \in Subs, NEW stage \in SubStages \ {"idle", "account"},
         sub[s].stage \notin {"idle", "account"}, GoTo(s, stage)
  PROVE  \A t \in Subs : MovesSub(t)
<1> SUFFICES ASSUME NEW t \in Subs PROVE MovesSub(t)
  OBVIOUS
<1>1. CASE t = s
  <2>1. sub'[t] = [sub[t] EXCEPT !.stage = stage]
    BY <1>1 DEF GoTo
  <2>2. sub'[t].stage = stage /\ sub'[t].seq = sub[t].seq
    BY <2>1 DEF SubRecords
  <2> QED
    BY <1>1, <2>2 DEF MovesSub
<1>2. CASE t # s
  BY <1>2 DEF GoTo, MovesSub
<1> QED
  BY <1>1, <1>2

(* An execution that ends, with an error or a transaction.                  *)
LEMMA EndMoves ==
  ASSUME IInv, LedgerAgrees, NEW s \in Subs, sub[s].stage # "idle", GoTo(s, "ended"),
         \A q \in Pays : pay'[q].subs = pay[q].subs
  PROVE  \A t \in Subs : MovesSub(t)
<1>1. CASE sub[s].stage \notin {"idle", "account"}
  BY <1>1, SubMoves DEF SubStages, IInv, RestTyped
<1>2. CASE sub[s].stage = "account"
  <2>1. s[1] \in Pays /\ s[2] <= pay'[s[1]].subs
    BY DEF LedgerAgrees, Subs
  <2>2. \A t \in Subs : t # s => sub'[t] = sub[t]
    BY DEF GoTo, IInv, RestTyped
  <2> QED
    BY <1>2, <2>1, <2>2 DEF MovesSub
<1> QED
  BY <1>1, <1>2

LEMMA NextKeepsLedger ==
  ASSUME IInv, IInv', LedgerAgrees, [Next]_vars
  PROVE  LedgerAgrees'
<1>0. /\ sub \in [Subs -> SubRecords] /\ ledgerSeq \in Nat /\ Books
      /\ \A q \in Pays : pay[q].subs \in Nat
  BY DEF IInv, RestTyped, Books, PayRecords
<1>a. ASSUME UNCHANGED ledgerVars, \A q \in Pays : pay'[q].subs = pay[q].subs,
             \A t \in Subs : MovesSub(t)
      PROVE  LedgerAgrees'
  BY <1>0, <1>a, FrameKeepsLedger DEF ledgerVars
<1>b. ASSUME UNCHANGED sub PROVE \A t \in Subs : MovesSub(t)
  BY <1>b DEF MovesSub
<1>1. ASSUME NEW p \in Pays, Pay(p) \/ Retry(p) PROVE LedgerAgrees'
  <2>1. Enqueue(p) /\ UNCHANGED ledgerVars /\ UNCHANGED sub
    BY <1>1 DEF Pay, Retry, ledgerVars
  <2>2. \A q \in Pays : pay'[q].subs = pay[q].subs
    BY <1>0, <2>1, EnqueueChanges
  <2> QED
    BY <1>a, <1>b, <2>1, <2>2
<1>2. ASSUME NEW p \in Pays, Hit(p) PROVE LedgerAgrees'
  <2>1. UNCHANGED ledgerVars /\ UNCHANGED sub
    BY <1>2 DEF Hit, ledgerVars
  <2>2. \A q \in Pays : pay'[q].subs = pay[q].subs
    BY <1>2 DEF Hit, IInv, Books, PayRecords
  <2> QED
    BY <1>a, <1>b, <2>1, <2>2
<1>3. ASSUME NEW p \in Pays, ReturnHit(p) PROVE LedgerAgrees'
  <2>1. JobResolves(p, pay[p].result) /\ UnderWay(p) /\ UNCHANGED ledgerVars /\ UNCHANGED sub
    BY <1>3 DEF ReturnHit, ledgerVars, UnderWay
  <2>2. pay[p].result \in Txs \cup {NoTx}
    BY DEF IInv, Books, PayRecords
  <2>3. \A q \in Pays : pay'[q].subs = pay[q].subs
    BY <1>0, <2>1, <2>2, ResolveChanges
  <2> QED
    BY <1>a, <1>b, <2>1, <2>3
<1>4. ASSUME NEW p \in Pays, Execute(p) \/ Failover(p) PROVE LedgerAgrees'
  <2>1. BeginSub(p)
    BY <1>4 DEF Execute, Failover
  <2>2. pay'[p].subs = pay[p].subs + 1 /\ \A q \in Pays : q # p => pay'[q] = pay[q]
    BY <2>1 DEF BeginSub, IInv, Books
  <2>3. \A t \in Subs : t # NextSub(p) => sub'[t] = sub[t]
    BY <1>0, <2>1 DEF BeginSub
  <2>4. NextSub(p) \in Subs => sub[NextSub(p)].stage = "idle"
    <3>1. NextSub(p)[1] = p /\ NextSub(p)[2] = pay[p].subs + 1
      BY DEF NextSub
    <3>2. ~(pay[p].subs + 1 <= pay[p].subs)
      BY <1>0
    <3> QED
      BY <3>1, <3>2 DEF LedgerAgrees
  <2>5. \A t \in Subs : MovesSub(t)
    <3> SUFFICES ASSUME NEW t \in Subs PROVE MovesSub(t)
      OBVIOUS
    <3>1. CASE t = NextSub(p)
      <4>1. t[1] = p /\ t[2] = pay'[p].subs /\ pay'[p].subs \in Nat
        BY <1>0, <2>2, <3>1 DEF NextSub
      <4> QED
        BY <2>4, <3>1, <4>1 DEF MovesSub
    <3>2. CASE t # NextSub(p)
      BY <2>3, <3>2 DEF MovesSub
    <3> QED
      BY <3>1, <3>2
  <2>6. \A q \in Pays : pay'[q].subs >= pay[q].subs
    BY <1>0, <2>2
  <2>7. UNCHANGED <<mempool, landed, ledgerSeq>>
    BY <2>1 DEF BeginSub
  <2> QED
    BY <1>0, <2>5, <2>6, <2>7, FrameKeepsLedger
<1>5. ASSUME NEW s \in Subs, ReadAccount(s) PROVE LedgerAgrees'
  <2>1. sub[s].stage = "account" /\ UNCHANGED ledgerVars /\ UNCHANGED pay
    BY <1>5 DEF ReadAccount, At, StaysOnLedger
  <2>2. \A t \in Subs : t # s => sub'[t] = sub[t]
    BY <1>0, <1>5 DEF ReadAccount
  <2>3. s[2] <= pay'[s[1]].subs
    BY <2>1 DEF LedgerAgrees
  <2>4. \A t \in Subs : MovesSub(t)
    BY <2>1, <2>2, <2>3 DEF MovesSub
  <2> QED
    BY <1>a, <2>1, <2>4
<1>6. ASSUME NEW s \in Subs, Prepare(s) \/ SendPutOff(s) PROVE LedgerAgrees'
  <2>1. /\ UNCHANGED ledgerVars /\ UNCHANGED pay
        /\ \E stage \in {"send", "poll", "bumpPoll"} : GoTo(s, stage)
        /\ sub[s].stage \notin {"idle", "account"}
    BY <1>6 DEF Prepare, SendPutOff, StaysOnLedger, At, Sending
  <2>2. \A t \in Subs : MovesSub(t)
    BY <1>0, <2>1, SubMoves DEF SubStages
  <2> QED
    BY <1>a, <2>1, <2>2
<1>7. ASSUME NEW s \in Subs, SendAccepted(s) \/ SendAnswerLost(s) PROVE LedgerAgrees'
  <2>1. /\ mempool' = mempool \cup {ToSend(s)} /\ UNCHANGED <<landed, ledgerSeq>>
        /\ sub[s].stage \in {"send", "bump"}
    BY <1>7 DEF SendAccepted, SendAnswerLost, Sending, At
  <2>2. \E stage \in {"poll", "bumpPoll", "ended"} : GoTo(s, stage)
    BY <1>7 DEF SendAccepted, SendAnswerLost, SubFails
  <2>3. \A t \in Subs : MovesSub(t)
    BY <1>0, <2>1, <2>2, SubMoves DEF SubStages
  <2>4. \A q \in Pays : pay'[q].subs = pay[q].subs
    <3>1. CASE SendAccepted(s)
      BY <3>1 DEF SendAccepted
    <3>2. CASE SendAnswerLost(s)
      <4>1. SubFails(s, "transient") /\ s[1] \in Pays
        BY <3>2 DEF SendAnswerLost, Subs
      <4> QED
        BY <1>0, <4>1, FailChanges
    <3> QED
      BY <1>7, <3>1, <3>2
  <2>5. ToSend(s).sub = s /\ ToSend(s).seq = sub[s].seq
    BY DEF ToSend, InnerTx, BumpTx
  <2>6. \A tx \in mempool' \ mempool : Sent(tx)'
    <3>1. PICK stage \in {"poll", "bumpPoll", "ended"} : sub' = [sub EXCEPT ![s].stage = stage]
      BY <2>2 DEF GoTo
    <3>2. sub'[s].stage = stage /\ sub'[s].seq = sub[s].seq
      BY <1>0, <3>1 DEF SubRecords
    <3>3. \A tx \in mempool' \ mempool : tx.sub = s /\ tx.seq = sub[s].seq
      BY <2>1, <2>5
    <3> QED
      BY <3>2, <3>3 DEF Sent
  <2> QED
    BY <1>0, <2>1, <2>3, <2>4, <2>6, FrameKeepsLedger
<1>8. ASSUME NEW s \in Subs, NEW error, SubFails(s, error), UNCHANGED ledgerVars, sub[s].stage # "idle"
      PROVE  LedgerAgrees'
  <2>1. GoTo(s, "ended") /\ s[1] \in Pays
    BY <1>8 DEF SubFails, Subs
  <2>2. \A q \in Pays : pay'[q].subs = pay[q].subs
    BY <1>0, <1>8, <2>1, FailChanges
  <2> QED
    BY <1>a, <1>8, <2>1, <2>2, EndMoves
<1>9. ASSUME NEW s \in Subs, FailsBeforeSending(s) \/ PollDisconnects(s) PROVE LedgerAgrees'
  <2>1. UNCHANGED ledgerVars /\ sub[s].stage # "idle" /\ \E error \in Errors : SubFails(s, error)
    BY <1>9 DEF FailsBeforeSending, PollDisconnects, StaysOnLedger, At, Sending, Polling, Errors
  <2> QED
    BY <1>8, <2>1
<1>10. ASSUME NEW s \in Subs, PollFinds(s) PROVE LedgerAgrees'
  <2>1. UNCHANGED ledgerVars /\ sub[s].stage # "idle"
    BY <1>10 DEF PollFinds, StaysOnLedger, At, Polling
  <2>2. CASE SubSucceeds(s, Polled(s))
    <3>1. GoTo(s, "ended") /\ s[1] \in Pays
      BY <2>2 DEF SubSucceeds, Subs
    <3>2. \A q \in Pays : pay'[q].subs = pay[q].subs
      <4>1. CASE Awaited(s)
        <5>1. JobResolves(s[1], Polled(s)) /\ UnderWay(s[1])
          BY <2>2, <4>1 DEF SubSucceeds, Awaited, UnderWay
        <5>2. Polled(s) \in Txs \cup {NoTx}
          BY TxsOfSub
        <5> QED
          BY <1>0, <3>1, <5>1, <5>2, ResolveChanges
      <4>2. CASE ~Awaited(s)
        BY <2>2, <4>2 DEF SubSucceeds
      <4> QED
        BY <4>1, <4>2
    <3> QED
      BY <1>a, <2>1, <3>1, <3>2, EndMoves
  <2>3. CASE SubFails(s, "transient")
    BY <1>8, <2>1, <2>3
  <2> QED
    BY <1>10, <2>2, <2>3 DEF PollFinds
<1>11. ASSUME NEW s \in Subs, PollGivesUp(s) PROVE LedgerAgrees'
  <2>1. UNCHANGED ledgerVars /\ sub[s].stage \notin {"idle", "account"}
    BY <1>11 DEF PollGivesUp, StaysOnLedger, At, Polling
  <2>2. CASE At(s, "poll")
    <3>1. GoTo(s, "bump") /\ UNCHANGED pay
      BY <1>11, <2>2 DEF PollGivesUp
    <3>2. \A t \in Subs : MovesSub(t)
      BY <1>0, <2>1, <3>1, SubMoves DEF SubStages
    <3> QED
      BY <1>a, <2>1, <3>1, <3>2
  <2>3. CASE ~At(s, "poll")
    <3>1. SubFails(s, "transient")
      BY <1>11, <2>3 DEF PollGivesUp
    <3> QED
      BY <1>8, <2>1, <3>1
  <2> QED
    BY <2>2, <2>3
<1>12. ASSUME NEW tx \in mempool, Land(tx) PROVE LedgerAgrees'
  <2>1. /\ UNCHANGED <<pay, sub>> /\ mempool' \subseteq mempool
        /\ ledgerSeq' = ledgerSeq + 1 /\ tx.seq = ledgerSeq + 1
    BY <1>12 DEF Land, clientVars
  <2>2. PICK status \in {"SUCCESS", "FAILED"} : landed' = landed \cup {[tx |-> tx, status |-> status]}
    BY <1>12 DEF Land
  <2> DEFINE new == [tx |-> tx, status |-> status]
  <2>3. Sent(tx) /\ new.tx = tx
    BY DEF LedgerAgrees
  <2>4. \A r \in landed : r.tx.seq <= ledgerSeq /\ r.tx.seq \in Nat
    BY DEF LedgerAgrees, IInv, RestTyped, LandedTxs, Txs
  <2> HIDE DEF new
  <2>5. \A r \in landed' : Sent(r.tx) /\ r.tx.seq <= ledgerSeq'
    <3>1. \A r \in landed : Sent(r.tx) /\ r.tx.seq <= ledgerSeq + 1
      BY <1>0, <2>4 DEF LedgerAgrees
    <3>2. landed' = landed \cup {new}
      BY <2>2 DEF new
    <3> QED
      BY <1>0, <2>1, <2>3, <3>1, <3>2
  <2>6. \A r, q \in landed' : r.tx.seq = q.tx.seq => r = q
    <3>1. \A r \in landed : r.tx.seq # new.tx.seq
      BY <1>0, <2>1, <2>3, <2>4
    <3>2. landed' = landed \cup {new}
      BY <2>2 DEF new
    <3> QED
      BY <3>1, <3>2 DEF LedgerAgrees
  <2>7. \A t \in mempool' : Sent(t)
    BY <2>1 DEF LedgerAgrees
  <2> QED
    BY <2>1, <2>5, <2>6, <2>7 DEF LedgerAgrees, Sent
<1>13. CASE ForeignTx
  <2>1. UNCHANGED <<pay, sub, mempool, landed>> /\ ledgerSeq' >= ledgerSeq
    BY <1>0, <1>13 DEF ForeignTx, clientVars
  <2> QED
    BY <1>0, <1>b, <2>1, FrameKeepsLedger
<1>14. CASE Shutdown \/ (\E o \in Ops : ExpireKey(o)) \/ UNCHANGED vars
  <2>1. UNCHANGED <<pay, sub>> /\ UNCHANGED ledgerVars
    BY <1>14 DEF Shutdown, ExpireKey, vars, StaysOnLedger, ledgerVars
  <2> QED
    BY <1>a, <1>b, <2>1
<1> QED
  BY <1>1, <1>2, <1>3, <1>4, <1>5, <1>6, <1>7, <1>9, <1>10, <1>11, <1>12, <1>13, <1>14
     DEF Next, PayStep, SubStep, Environment

LEMMA InitLedgerAgrees == Init => LedgerAgrees
BY DEF Init, LedgerAgrees

(* A fee bump carries the sequence number of the transaction it bumps, and  *)
(* the ledger uses a number once: it never applies both.                    *)
THEOREM BumpAlwaysExcludesInner == Spec => []BumpExcludesInner
<1>1. IInv /\ LedgerAgrees => BumpExcludesInner
  <2> SUFFICES ASSUME IInv, LedgerAgrees, NEW s \in Subs, NEW r \in landed, NEW q \in landed,
                      r.tx.sub = s, q.tx.sub = s, r.tx.kind = "inner", q.tx.kind = "bump"
               PROVE  FALSE
    BY DEF BumpExcludesInner
  <2>1. r.tx.seq = q.tx.seq
    BY DEF LedgerAgrees, Sent
  <2>2. r = q
    BY <2>1 DEF LedgerAgrees
  <2> QED
    BY <2>2
<1> QED
  BY <1>1, InitEstablishesIInv, NextKeepsIInv, InitLedgerAgrees, NextKeepsLedger, PTL DEF Spec

-----------------------------------------------------------------------------
(* The submission implements PaymentPromise.                                *)

(* A submission is executed at most once.                                   *)
LEMMA OneExecution ==
  ASSUME IInv, LedgerAgrees, NEW s \in Subs
  PROVE  /\ \A r, q \in Executions(s) : r = q
         /\ Executions(s) # {} => s \in Made /\ Cardinality(Executions(s)) = 1
<1>1. \A r, q \in Executions(s) : r = q
  BY DEF Executions, LedgerAgrees, Sent
<1>2. ASSUME NEW r \in Executions(s) PROVE s \in Made /\ Cardinality(Executions(s)) = 1
  <2>1. sub[s].stage # "idle"
    BY DEF Executions, LedgerAgrees, Sent
  <2>2. Executions(s) = {r}
    BY <1>1
  <2> QED
    BY <2>1, <2>2, FS_Singleton DEF Made, LedgerAgrees
<1> QED
  BY <1>1, <1>2

(* The steps of the promise, by what they change.                           *)
LEMMA PromiseStutters ==
  ASSUME \A p \in Pays : Outcome(p)' = Outcome(p), Made' = Made,
         \A s \in Subs : Executions(s)' = Executions(s)
  PROVE  [Promise!PromiseNext]_Promise!promiseVars
BY DEF Promise!promiseVars

LEMMA PromiseAnswers ==
  ASSUME NEW p \in Pays, \A q \in Pays : q # p => Outcome(q)' = Outcome(q),
         Made' = Made, \A s \in Subs : Executions(s)' = Executions(s),
         \/ Outcome(p) = "none" /\ Outcome(p)' \in {"pending", "failed"}
         \/ Outcome(p) = "pending" /\ Outcome(p)' = "failed"
         \/ /\ Outcome(p) = "pending" /\ Outcome(p)' = "paid"
            /\ \E s \in Made : Cardinality(Executions(s)) = 1 /\ OpOf[s[1]] = OpOf[p]
  PROVE  [Promise!PromiseNext]_Promise!promiseVars
<1> DEFINE outcomes == [q \in Pays |-> Outcome(q)]
           counts == [s \in Subs |-> Cardinality(Executions(s))]
<1>1. UNCHANGED <<Made, counts>>
  OBVIOUS
<1>2. outcomes' = [outcomes EXCEPT ![p] = Outcome(p)']
  OBVIOUS
<1>3. Promise!Ask(p) \/ Promise!ReportFailed(p) \/ Promise!ReportPaid(p)
  BY <1>1, <1>2 DEF Promise!Ask, Promise!ReportFailed, Promise!ReportPaid, Made
<1> QED
  BY <1>3 DEF Promise!PromiseNext

(* Moving on inside a call is not seen by its caller.                       *)
LEMMA SameOutcome ==
  ASSUME NEW q \in Pays,
         \/ pay'[q] = pay[q]
         \/ {pay[q].pc, pay'[q].pc} \cap {"idle", "resolved", "rejected"} = {}
  PROVE  Outcome(q)' = Outcome(q)
BY DEF Outcome

LEMMA SameMade ==
  ASSUME \A q \in Pays : pay'[q].subs = pay[q].subs
  PROVE  Made' = Made
<1>1. \A s \in Subs : s[1] \in Pays
  BY DEF Subs
<1> QED
  BY <1>1 DEF Made

LEMMA SameExecutions ==
  ASSUME UNCHANGED landed
  PROVE  \A s \in Subs : Executions(s)' = Executions(s)
BY DEF Executions

(* A submission that fails leaves its call waiting or tells it so.          *)
LEMMA FailIsPromised ==
  ASSUME IInv, NEW s \in Subs, NEW error, SubFails(s, error), UNCHANGED landed
  PROVE  [Promise!PromiseNext]_Promise!promiseVars
<1>0. Books /\ s[1] \in Pays
  BY DEF IInv, Subs
<1>1. CASE UNCHANGED pay
  BY <1>1, PromiseStutters, SameOutcome, SameMade, SameExecutions
<1>2. CASE ~UNCHANGED pay
  <2>1. /\ pay[s[1]].pc = "running"
        /\ pay'[s[1]].pc \in {"failover", "backoff", "rejected"}
        /\ pay'[s[1]].subs = pay[s[1]].subs
        /\ \A q \in Pays : q # s[1] =>
              \/ pay'[q] = pay[q]
              \/ pay[q].pc = "queued" /\ pay'[q].pc = "starting" /\ pay'[q].subs = pay[q].subs
    BY <1>0, <1>2, FailChanges
  <2>2. \A q \in Pays : q # s[1] => Outcome(q)' = Outcome(q)
    BY <2>1, SameOutcome
  <2>3. Made' = Made
    BY <2>1, SameMade
  <2>4. Outcome(s[1]) = "pending" /\ Outcome(s[1])' \in {"pending", "failed"}
    BY <2>1 DEF Outcome
  <2>5. CASE Outcome(s[1])' = "pending"
    BY <2>2, <2>3, <2>4, <2>5, PromiseStutters, SameExecutions
  <2>6. CASE Outcome(s[1])' = "failed"
    BY <1>0, <2>2, <2>3, <2>4, <2>6, PromiseAnswers, SameExecutions
  <2> QED
    BY <2>4, <2>5, <2>6
<1> QED
  BY <1>1, <1>2

(* A call that succeeds holds a receipt, and its submission was executed.   *)
LEMMA SuccessIsPromised ==
  ASSUME IInv, LedgerAgrees, NEW p \in Pays, UnderWay(p), NEW tx \in Txs,
         Receipt(landed, OpOf[p], tx), JobResolves(p, tx), UNCHANGED landed
  PROVE  [Promise!PromiseNext]_Promise!promiseVars
<1>0. Books /\ tx.sub \in Subs
  BY DEF IInv, Txs
<1>1. /\ pay'[p].pc = "resolved" /\ pay'[p].subs = pay[p].subs
      /\ \A q \in Pays : q # p =>
            \/ pay'[q] = pay[q]
            \/ pay[q].pc = "queued" /\ pay'[q].pc = "starting" /\ pay'[q].subs = pay[q].subs
  BY <1>0, ResolveChanges
<1>2. \A q \in Pays : q # p => Outcome(q)' = Outcome(q)
  BY <1>1, SameOutcome
<1>3. Made' = Made
  BY <1>1, SameMade
<1>4. Outcome(p) = "pending" /\ Outcome(p)' = "paid"
  BY <1>1 DEF Outcome, UnderWay
<1>5. [tx |-> tx, status |-> "SUCCESS"] \in Executions(tx.sub)
  BY DEF Executions, Receipt
<1>6. tx.sub \in Made /\ Cardinality(Executions(tx.sub)) = 1 /\ OpOf[tx.sub[1]] = OpOf[p]
  BY <1>0, <1>5, OneExecution DEF Receipt, Op
<1> QED
  BY <1>2, <1>3, <1>4, <1>6, PromiseAnswers, SameExecutions

(* Beginning a submission is Submit, for a call that has not answered.      *)
LEMMA BeginIsPromised ==
  ASSUME IInv, NEW p \in Pays, pay[p].pc \in {"starting", "failover"}, BeginSub(p),
         NextSub(p) \in Subs
  PROVE  [Promise!PromiseNext]_Promise!promiseVars
<1>1. /\ pay'[p].pc = "running" /\ pay'[p].subs = pay[p].subs + 1 /\ pay[p].subs \in Nat
      /\ \A q \in Pays : q # p => pay'[q] = pay[q]
  BY DEF BeginSub, IInv, Books, PayRecords
<1>2. NextSub(p)[1] = p /\ NextSub(p)[2] = pay[p].subs + 1
  BY DEF NextSub
<1>3. \A q \in Pays : Outcome(q)' = Outcome(q)
  BY <1>1, SameOutcome
<1>4. NextSub(p) \notin Made
  BY <1>1, <1>2 DEF Made
<1>5. Made' = Made \cup {NextSub(p)}
  <2>1. \A s \in Subs : s[1] \in Pays /\ s[2] \in Nat /\ s = <<s[1], s[2]>>
    BY AttemptsPositive DEF Subs
  <2>2. \A s \in Subs : s[1] # p => (s \in Made' <=> s \in Made) /\ s # NextSub(p)
    BY <1>1, <1>2, <2>1 DEF Made
  <2>3. \A s \in Subs : s[1] = p => (s \in Made' <=> s \in Made \/ s = NextSub(p))
    <3> SUFFICES ASSUME NEW s \in Subs, s[1] = p
                 PROVE  s \in Made' <=> s \in Made \/ s = NextSub(p)
      OBVIOUS
    <3>1. s = NextSub(p) <=> s[2] = pay[p].subs + 1
      BY <2>1 DEF NextSub
    <3>2. s \in Made' <=> s[2] <= pay[p].subs + 1
      BY <1>1 DEF Made
    <3>3. s \in Made <=> s[2] <= pay[p].subs
      BY DEF Made
    <3> QED
      BY <1>1, <2>1, <3>1, <3>2, <3>3
  <2> QED
    BY <2>2, <2>3 DEF Made
<1>6. \A s \in Subs : Executions(s)' = Executions(s)
  BY SameExecutions DEF BeginSub
<1>7. Outcome(p) = "pending"
  BY DEF Outcome
<1>8. Promise!Submit(NextSub(p))
  BY <1>2, <1>3, <1>4, <1>5, <1>6, <1>7 DEF Promise!Submit
<1> QED
  BY <1>8 DEF Promise!PromiseNext

(* A transaction that lands is the first of its submission.                 *)
LEMMA LandIsPromised ==
  ASSUME IInv, LedgerAgrees, LedgerAgrees', NEW tx \in mempool, Land(tx)
  PROVE  [Promise!PromiseNext]_Promise!promiseVars
<1> DEFINE s == tx.sub
           counts == [t \in Subs |-> Cardinality(Executions(t))]
<1>1. s \in Subs /\ ledgerSeq \in Nat
  BY DEF IInv, RestTyped, Txs
<1>2. /\ \A q \in Pays : Outcome(q)' = Outcome(q)
      /\ Made' = Made
  BY SameOutcome, SameMade DEF Land, clientVars
<1>3. PICK status \in {"SUCCESS", "FAILED"} : landed' = landed \cup {[tx |-> tx, status |-> status]}
  BY DEF Land
<1>4. \A t \in Subs : t # s => Executions(t)' = Executions(t)
  BY <1>3 DEF Executions
<1>5. CASE status = "FAILED"
  <2>1. Executions(s)' = Executions(s)
    BY <1>3, <1>5 DEF Executions
  <2> QED
    BY <1>2, <1>4, <2>1, PromiseStutters
<1>6. CASE status = "SUCCESS"
  <2>1. Executions(s) = {}
    <3> SUFFICES ASSUME NEW r \in landed, r.tx.sub = s PROVE FALSE
      BY DEF Executions
    <3>1. r.tx.seq = tx.seq /\ tx.seq = ledgerSeq + 1 /\ r.tx.seq <= ledgerSeq
      BY DEF LedgerAgrees, Sent, Land
    <3> QED
      BY <1>1, <3>1
  <2>2. Executions(s)' = {[tx |-> tx, status |-> status]}
    BY <1>3, <1>6, <2>1 DEF Executions
  <2>3. Cardinality(Executions(s)) = 0 /\ Cardinality(Executions(s)') = 1
    BY <2>1, <2>2, FS_EmptySet, FS_Singleton
  <2>4. s \in Made
    BY <1>1 DEF LedgerAgrees, Sent, Made
  <2>5. counts' = [counts EXCEPT ![s] = 1]
    BY <1>1, <1>4, <2>3
  <2>6. Promise!ExecuteOnce(s)
    BY <1>1, <1>2, <2>3, <2>4, <2>5 DEF Promise!ExecuteOnce
  <2> QED
    BY <1>1, <2>6 DEF Promise!PromiseNext
<1> QED
  BY <1>5, <1>6

LEMMA NextIsPromised ==
  ASSUME IInv, IInv', LedgerAgrees, LedgerAgrees', AnswersAreReceipts, [Next]_vars
  PROVE  [Promise!PromiseNext]_Promise!promiseVars
<1>0. Books
  BY DEF IInv
<1>1. ASSUME UNCHANGED <<pay, landed>> PROVE [Promise!PromiseNext]_Promise!promiseVars
  BY <1>1, PromiseStutters, SameOutcome, SameMade, SameExecutions
<1>2. ASSUME NEW p \in Pays, Pay(p) \/ Retry(p) PROVE [Promise!PromiseNext]_Promise!promiseVars
  <2>1. Enqueue(p) /\ UNCHANGED landed /\ pay[p].pc \in {"idle", "backoff"}
    BY <1>2 DEF Pay, Retry
  <2>2. /\ pay'[p].pc \in {"rejected", "starting", "queued"}
        /\ pay'[p].subs = pay[p].subs
        /\ \A q \in Pays : q # p => pay'[q] = pay[q]
    BY <1>0, <2>1, EnqueueChanges
  <2>3. \A q \in Pays : q # p => Outcome(q)' = Outcome(q)
    BY <2>2, SameOutcome
  <2>4. Made' = Made
    BY <2>2, SameMade
  <2>5. /\ (Outcome(p) = "none" /\ pay[p].pc = "idle") \/ Outcome(p) = "pending"
        /\ Outcome(p)' \in {"pending", "failed"}
    BY <2>1, <2>2 DEF Outcome
  <2>6. CASE Outcome(p) = Outcome(p)'
    BY <2>1, <2>3, <2>4, <2>6, PromiseStutters, SameExecutions
  <2>7. CASE Outcome(p) # Outcome(p)'
    BY <2>1, <2>3, <2>4, <2>5, <2>7, PromiseAnswers, SameExecutions
  <2> QED
    BY <2>6, <2>7
<1>3. ASSUME NEW p \in Pays, Hit(p) PROVE [Promise!PromiseNext]_Promise!promiseVars
  <2>1. /\ pay[p].pc = "starting" /\ pay'[p].pc = "hit" /\ pay'[p].subs = pay[p].subs
        /\ \A q \in Pays : q # p => pay'[q] = pay[q]
        /\ UNCHANGED landed
    BY <1>0, <1>3 DEF Hit, Books, PayRecords
  <2> QED
    BY <2>1, PromiseStutters, SameOutcome, SameMade, SameExecutions
<1>4. ASSUME NEW p \in Pays, ReturnHit(p) PROVE [Promise!PromiseNext]_Promise!promiseVars
  <2>1. /\ UnderWay(p) /\ JobResolves(p, pay[p].result) /\ UNCHANGED landed
        /\ Receipt(landed, OpOf[p], pay[p].result)
    BY <1>4 DEF ReturnHit, UnderWay, AnswersAreReceipts, Answered
  <2>2. pay[p].result \in Txs
    BY <2>1 DEF Receipt, IInv, RestTyped, LandedTxs
  <2> QED
    BY <2>1, <2>2, SuccessIsPromised
<1>5. ASSUME NEW p \in Pays, Execute(p) \/ Failover(p) PROVE [Promise!PromiseNext]_Promise!promiseVars
  <2>1. BeginSub(p) /\ pay[p].pc \in {"starting", "failover"}
    BY <1>5 DEF Execute, Failover
  <2>2. BudgetOf(pay[p]) /\ pay[p] \in PayRecords
    BY <1>0 DEF Books
  <2>3. pay[p].subs + 1 \in 1 .. 2 * MaxAttempts
    BY <2>1, <2>2, AttemptsPositive DEF BudgetOf, PayRecords
  <2>4. NextSub(p) \in Subs
    BY <2>3 DEF NextSub, Subs
  <2> QED
    BY <2>1, <2>4, BeginIsPromised
<1>6. ASSUME NEW s \in Subs, SubStep(s) PROVE [Promise!PromiseNext]_Promise!promiseVars
  <2>1. UNCHANGED landed /\ s[1] \in Pays
    BY <1>6 DEF Subs, SubStep, ReadAccount, Prepare, SendAccepted, SendPutOff, SendAnswerLost,
       FailsBeforeSending, PollFinds, PollGivesUp, PollDisconnects, StaysOnLedger, ledgerVars
  <2>2. ASSUME UNCHANGED pay PROVE [Promise!PromiseNext]_Promise!promiseVars
    BY <1>1, <2>1, <2>2
  <2>3. ASSUME NEW error, SubFails(s, error) PROVE [Promise!PromiseNext]_Promise!promiseVars
    BY <2>1, <2>3, FailIsPromised
  <2>4. CASE ReadAccount(s) \/ Prepare(s) \/ SendAccepted(s) \/ SendPutOff(s)
    BY <2>2, <2>4 DEF ReadAccount, Prepare, SendAccepted, SendPutOff
  <2>5. CASE SendAnswerLost(s) \/ FailsBeforeSending(s) \/ PollDisconnects(s)
    BY <2>3, <2>5 DEF SendAnswerLost, FailsBeforeSending, PollDisconnects
  <2>6. CASE PollFinds(s)
    <3>1. CASE Applied(Polled(s)) /\ SubSucceeds(s, Polled(s))
      <4>1. Polled(s) \in Txs /\ Receipt(landed, OpOf[s[1]], Polled(s))
        BY <3>1, TxsOfSub DEF Receipt, Applied, Op, Polled, InnerTx, BumpTx
      <4>2. CASE Awaited(s)
        BY <2>1, <3>1, <4>1, <4>2, SuccessIsPromised DEF SubSucceeds, Awaited, UnderWay
      <4>3. CASE ~Awaited(s)
        BY <2>2, <3>1, <4>3 DEF SubSucceeds
      <4> QED
        BY <4>2, <4>3
    <3>2. CASE SubFails(s, "transient")
      BY <2>3, <3>2
    <3> QED
      BY <2>6, <3>1, <3>2 DEF PollFinds
  <2>7. CASE PollGivesUp(s)
    BY <2>2, <2>3, <2>7 DEF PollGivesUp
  <2> QED
    BY <1>6, <2>4, <2>5, <2>6, <2>7 DEF SubStep
<1>7. CASE Shutdown \/ ForeignTx \/ (\E o \in Ops : ExpireKey(o)) \/ UNCHANGED vars
  <2>1. UNCHANGED <<pay, landed>>
    BY <1>7 DEF Shutdown, ForeignTx, ExpireKey, vars, clientVars, StaysOnLedger, ledgerVars
  <2> QED
    BY <1>1, <2>1
<1>8. ASSUME NEW tx \in mempool, Land(tx) PROVE [Promise!PromiseNext]_Promise!promiseVars
  BY <1>8, LandIsPromised
<1> QED
  BY <1>2, <1>3, <1>4, <1>5, <1>6, <1>7, <1>8 DEF Next, PayStep, Environment

LEMMA InitIsPromised == Init => Promise!PromiseInit
<1> SUFFICES ASSUME Init PROVE Promise!PromiseInit
  OBVIOUS
<1>1. [p \in Pays |-> Outcome(p)] = [p \in Pays |-> "none"]
  BY DEF Init, Outcome
<1>2. Made = {}
  <2>1. \A s \in Subs : s[1] \in Pays /\ s[2] \in 1 .. 2 * MaxAttempts
    BY DEF Subs
  <2>2. \A s \in Subs : ~(s[2] <= pay[s[1]].subs)
    BY <2>1, AttemptsPositive DEF Init
  <2> QED
    BY <2>2 DEF Made
<1>3. \A s \in Subs : Executions(s) = {}
  BY DEF Init, Executions
<1>4. [s \in Subs |-> Cardinality(Executions(s))] = [s \in Subs |-> 0]
  BY <1>3, FS_EmptySet
<1> QED
  BY <1>1, <1>2, <1>4 DEF Promise!PromiseInit

(* The calls of pay() keep the promise: each submission is executed at most *)
(* once, and a call reports success only after an execution of its          *)
(* operation, with a standby, a node that lags, expiring keys and others    *)
(* that use the account.                                                    *)
THEOREM SubmissionKeepsPromise == Spec => ImplementsPromise
<1>1. Init => Promise!PromiseInit
  BY InitIsPromised
<1>2. [](IInv /\ LedgerAgrees /\ AnswersAreReceipts) /\ [][Next]_vars
        => [][Promise!PromiseNext]_Promise!promiseVars
  <2>1. IInv /\ LedgerAgrees /\ AnswersAreReceipts /\ (IInv /\ LedgerAgrees /\ AnswersAreReceipts)'
           /\ [Next]_vars => [Promise!PromiseNext]_Promise!promiseVars
    BY NextIsPromised
  <2> QED
    BY <2>1, PTL
<1>3. Spec => [](IInv /\ LedgerAgrees /\ AnswersAreReceipts)
  BY InitEstablishesIInv, NextKeepsIInv, InitLedgerAgrees, NextKeepsLedger,
     InitHoldsReceipts, NextKeepsReceipts, PTL DEF Spec
<1> QED
  BY <1>1, <1>2, <1>3, PTL DEF Spec, ImplementsPromise, Promise!PromiseSpec

-----------------------------------------------------------------------------
(* Submissions are serialised, and a key is claimed by one of them only.    *)
(* An execution that has not ended is the one its call awaits; while it is, *)
(* the key is free; and what a call answers is what the key remembers.      *)
ActiveIsAwaited == \A s \in Subs : Active(s) => Awaited(s)
RunningUnclaimed ==
    Idempotent => \A p \in Pays :
        pay[p].pc \in {"running", "failover"} => store[OpOf[p]] = NoTx
AnswersAreStored ==
    Idempotent /\ ~KeysExpire => \A p \in Pays :
        Answered(pay[p]) => pay[p].result = store[OpOf[p]] /\ store[OpOf[p]] # NoTx
SerialInv == ActiveIsAwaited /\ RunningUnclaimed /\ AnswersAreStored

LEMMA OneUnderWay ==
  ASSUME IInv, NEW p \in Pays, NEW q \in Pays, UnderWay(p), UnderWay(q)
  PROVE  p = q
BY DEF IInv, Books, QueueConsistent

LEMMA OneActive ==
  ASSUME IInv, SerialInv, NEW s \in Subs, NEW t \in Subs, Active(s), Active(t)
  PROVE  s = t
<1>1. s[1] \in Pays /\ t[1] \in Pays /\ s = <<s[1], s[2]>> /\ t = <<t[1], t[2]>>
  BY DEF Subs
<1>2. Awaited(s) /\ Awaited(t)
  BY DEF SerialInv, ActiveIsAwaited
<1>3. UnderWay(s[1]) /\ UnderWay(t[1])
  BY <1>2 DEF Awaited, UnderWay
<1>4. s[1] = t[1]
  BY <1>1, <1>3, OneUnderWay
<1> QED
  BY <1>1, <1>2, <1>4 DEF Awaited

(* No step of the calls that leaves those that run alone disturbs this.     *)
LEMMA QuietKeepsSerial ==
  ASSUME SerialInv, UNCHANGED store, \A t \in Subs : Active(t)' => Active(t),
         \A q \in Pays :
            \/ pay'[q] = pay[q]
            \/ pay[q].pc # "running" /\ pay'[q].pc \notin {"running", "failover", "hit", "resolved"}
            \/ pay[q].pc = "hit" /\ pay'[q].pc = "resolved" /\ pay'[q].result = pay[q].result
            \/ /\ pay[q].pc = "starting" /\ pay'[q].pc = "hit"
               /\ pay'[q].result = store[OpOf[q]] /\ store[OpOf[q]] # NoTx
  PROVE  SerialInv'
<1>1. ActiveIsAwaited'
  <2>1. \A t \in Subs : t[1] \in Pays
    BY DEF Subs
  <2>2. \A t \in Subs : Awaited(t) => Awaited(t)'
    BY <2>1 DEF Awaited
  <2> QED
    BY <2>2 DEF SerialInv, ActiveIsAwaited
<1>2. RunningUnclaimed'
  BY DEF SerialInv, RunningUnclaimed
<1>3. AnswersAreStored'
  BY DEF SerialInv, AnswersAreStored, Answered
<1> QED
  BY <1>1, <1>2, <1>3 DEF SerialInv

(* When the execution that is awaited ends, none is left.                   *)
LEMMA EndLeavesNone ==
  ASSUME IInv, SerialInv, NEW s \in Subs, Active(s), GoTo(s, "ended")
  PROVE  \A t \in Subs : ~Active(t)'
<1> SUFFICES ASSUME NEW t \in Subs, Active(t)' PROVE FALSE
  OBVIOUS
<1>1. sub'[s].stage = "ended" /\ (t # s => sub'[t] = sub[t])
  BY DEF GoTo, IInv, RestTyped, SubRecords
<1>2. t # s
  BY <1>1 DEF Active
<1>3. Active(t)
  BY <1>1, <1>2 DEF Active
<1> QED
  BY <1>2, <1>3, OneActive

LEMMA FailKeepsSerial ==
  ASSUME IInv, SerialInv, NEW s \in Subs, Active(s), NEW error, SubFails(s, error)
  PROVE  SerialInv'
<1>1. \A t \in Subs : ~Active(t)'
  BY EndLeavesNone DEF SubFails
<1>2. UNCHANGED store
  BY DEF SubFails
<1>3. \/ UNCHANGED pay
      \/ /\ pay[s[1]].pc = "running" /\ pay'[s[1]].pc \in {"failover", "backoff", "rejected"}
         /\ \A q \in Pays : q # s[1] => pay'[q] = pay[q] \/ pay'[q].pc = "starting"
  BY FailChanges DEF IInv
<1>4. RunningUnclaimed'
  BY <1>2, <1>3 DEF SerialInv, RunningUnclaimed
<1>5. AnswersAreStored'
  BY <1>2, <1>3 DEF SerialInv, AnswersAreStored, Answered
<1> QED
  BY <1>1, <1>4, <1>5 DEF SerialInv, ActiveIsAwaited

LEMMA SuccessKeepsSerial ==
  ASSUME IInv, SerialInv, NEW s \in Subs, Active(s), NEW tx \in Txs, SubSucceeds(s, tx)
  PROVE  SerialInv'
<1>0. Books /\ s[1] \in Pays /\ Op(s) = OpOf[s[1]] /\ Op(s) \in Ops /\ store \in [Ops -> Txs \cup {NoTx}]
  BY OpsOfPays DEF IInv, RestTyped, Subs, Op
<1>1. Awaited(s) /\ pay[s[1]].pc = "running"
  BY DEF SerialInv, ActiveIsAwaited, Awaited
<1>2. \A t \in Subs : ~Active(t)'
  BY EndLeavesNone DEF SubSucceeds
<1>3. JobResolves(s[1], tx) /\ TryClaim(Op(s), tx) /\ UnderWay(s[1])
  BY <1>1 DEF SubSucceeds, UnderWay
<1> DEFINE r == [pay[s[1]] EXCEPT !.pc = "resolved", !.result = tx]
<1>4. SettleJob(s[1], r)
  BY <1>3 DEF JobResolves
<1>5. r \in PayRecords /\ r.pc = "resolved" /\ r.result = tx
  <2>1. pay[s[1]] \in PayRecords
    BY <1>0 DEF Books
  <2>2. "resolved" \in PayStates /\ tx \in Txs \cup {NoTx}
    BY DEF PayStates
  <2> QED
    BY <2>1, <2>2 DEF PayRecords
<1> HIDE DEF r
<1>6. /\ pay'[s[1]] = r
      /\ \A q \in Pays : q # s[1] => pay'[q] = pay[q] \/ pay'[q].pc = "starting"
  BY <1>0, <1>3, <1>4, <1>5, SettleChanges
<1>7. \A q \in Pays : pay'[q].pc \notin {"running", "failover"}
  <2> SUFFICES ASSUME NEW q \in Pays, pay'[q].pc \in {"running", "failover"} PROVE FALSE
    OBVIOUS
  <2>1. q # s[1] /\ pay'[q] = pay[q]
    BY <1>5, <1>6
  <2>2. UnderWay(q)
    BY <2>1 DEF UnderWay
  <2> QED
    BY <1>0, <1>3, <2>1, <2>2, OneUnderWay
<1>8. ASSUME Idempotent PROVE store[Op(s)] = NoTx /\ store' = [store EXCEPT ![Op(s)] = tx]
  BY <1>0, <1>1, <1>3, <1>8 DEF SerialInv, RunningUnclaimed, TryClaim
<1>9. tx # NoTx
  BY PaysFinite DEF Txs, NoTx, Subs
<1>10. AnswersAreStored'
  <2> SUFFICES ASSUME Idempotent, ~KeysExpire, NEW q \in Pays, Answered(pay'[q])
               PROVE  pay'[q].result = store'[OpOf[q]] /\ store'[OpOf[q]] # NoTx
    BY DEF AnswersAreStored, Answered
  <2>1. CASE q = s[1]
    BY <1>0, <1>5, <1>6, <1>8, <1>9, <2>1
  <2>2. CASE q # s[1]
    <3>1. pay'[q] = pay[q]
      BY <1>6, <2>2 DEF Answered
    <3>2. pay[q].result = store[OpOf[q]] /\ store[OpOf[q]] # NoTx
      BY <3>1 DEF SerialInv, AnswersAreStored
    <3>3. OpOf[q] # Op(s) /\ OpOf[q] \in Ops
      BY <1>8, <3>2, OpsOfPays
    <3> QED
      BY <1>0, <1>8, <3>1, <3>2, <3>3
  <2> QED
    BY <2>1, <2>2
<1>11. RunningUnclaimed'
  BY <1>7 DEF RunningUnclaimed
<1> QED
  BY <1>2, <1>10, <1>11 DEF SerialInv, ActiveIsAwaited

(* The calls' own steps, for a submission that begins as well.              *)
LEMMA BeginKeepsSerial ==
  ASSUME IInv, SerialInv, NEW p \in Pays, pay[p].pc \in {"starting", "failover"}, BeginSub(p),
         Idempotent => store[OpOf[p]] = NoTx
  PROVE  SerialInv'
<1>0. UnderWay(p)
  BY DEF UnderWay
<1>1. /\ pay'[p].pc = "running" /\ pay'[p].subs = pay[p].subs + 1
      /\ \A q \in Pays : q # p => pay'[q] = pay[q]
      /\ UNCHANGED store
  BY DEF BeginSub, IInv, Books
<1>2. ASSUME NEW t \in Subs, Active(t)' PROVE Awaited(t)'
  <2>1. t[1] \in Pays
    BY DEF Subs
  <2>2. CASE t = NextSub(p)
    BY <1>1, <2>2 DEF Awaited, NextSub
  <2>3. CASE t # NextSub(p)
    <3>1. Active(t)
      BY <1>2, <2>3 DEF BeginSub, Active, IInv, RestTyped
    <3>2. pay[t[1]].pc = "running"
      BY <3>1 DEF SerialInv, ActiveIsAwaited, Awaited
    <3>3. t[1] = p
      BY <1>0, <2>1, <3>2, OneUnderWay DEF UnderWay
    <3> QED
      BY <3>2, <3>3
  <2> QED
    BY <2>2, <2>3
<1>3. RunningUnclaimed'
  BY <1>1 DEF SerialInv, RunningUnclaimed
<1>4. AnswersAreStored'
  BY <1>1 DEF SerialInv, AnswersAreStored, Answered
<1> QED
  BY <1>2, <1>3, <1>4 DEF SerialInv, ActiveIsAwaited

LEMMA NextKeepsSerial ==
  ASSUME IInv, SerialInv, [Next]_vars
  PROVE  SerialInv'
<1>0. Books /\ sub \in [Subs -> SubRecords]
  BY DEF IInv, RestTyped
<1>a. ASSUME UNCHANGED sub PROVE \A t \in Subs : Active(t)' => Active(t)
  BY <1>a DEF Active
<1>1. ASSUME NEW p \in Pays, Pay(p) \/ Retry(p) PROVE SerialInv'
  <2>1. Enqueue(p) /\ UNCHANGED <<sub, store>> /\ pay[p].pc \in {"idle", "backoff"}
    BY <1>1 DEF Pay, Retry
  <2>2. /\ pay'[p].pc \in {"rejected", "starting", "queued"}
        /\ \A q \in Pays : q # p => pay'[q] = pay[q]
    BY <1>0, <2>1, EnqueueChanges
  <2> QED
    BY <1>a, <2>1, <2>2, QuietKeepsSerial
<1>2. ASSUME NEW p \in Pays, Hit(p) PROVE SerialInv'
  <2>1. /\ pay[p].pc = "starting" /\ pay'[p].pc = "hit"
        /\ pay'[p].result = store[OpOf[p]] /\ store[OpOf[p]] # NoTx
        /\ \A q \in Pays : q # p => pay'[q] = pay[q]
        /\ UNCHANGED <<sub, store>>
    BY <1>0, <1>2 DEF Hit, Known, Books, PayRecords
  <2> QED
    BY <1>a, <2>1, QuietKeepsSerial
<1>3. ASSUME NEW p \in Pays, ReturnHit(p) PROVE SerialInv'
  <2> DEFINE r == [pay[p] EXCEPT !.pc = "resolved", !.result = pay[p].result]
  <2>1. SettleJob(p, r) /\ UnderWay(p) /\ UNCHANGED <<sub, store>> /\ pay[p].pc = "hit"
    BY <1>3 DEF ReturnHit, JobResolves, UnderWay
  <2>2. r \in PayRecords /\ r.pc = "resolved" /\ r.result = pay[p].result
    BY <1>0 DEF Books, PayRecords, PayStates
  <2> HIDE DEF r
  <2>3. /\ pay'[p] = r
        /\ \A q \in Pays : q # p =>
              \/ pay'[q] = pay[q]
              \/ /\ pay[q].pc = "queued"
                 /\ pay'[q].pc = "starting"
    BY <1>0, <2>1, <2>2, SettleChanges
  <2> QED
    BY <1>a, <2>1, <2>2, <2>3, QuietKeepsSerial
<1>4. ASSUME NEW p \in Pays, Execute(p) \/ Failover(p) PROVE SerialInv'
  <2>1. Idempotent => store[OpOf[p]] = NoTx
    BY <1>4 DEF Execute, Failover, Known, SerialInv, RunningUnclaimed
  <2> QED
    BY <1>4, <2>1, BeginKeepsSerial DEF Execute, Failover
<1>5. ASSUME NEW s \in Subs, SubStep(s) PROVE SerialInv'
  <2>1. Active(s)
    BY <1>5 DEF SubStep, Active, ReadAccount, Prepare, SendAccepted, SendPutOff, SendAnswerLost,
       FailsBeforeSending, PollFinds, PollGivesUp, PollDisconnects, At, Sending, Polling
  <2>2. ASSUME UNCHANGED <<pay, store>>, \A t \in Subs : t # s => sub'[t] = sub[t]
        PROVE  SerialInv'
    <3>1. \A t \in Subs : Active(t)' => Active(t)
      BY <2>1, <2>2 DEF Active
    <3> QED
      BY <2>2, <3>1, QuietKeepsSerial
  <2>3. ASSUME NEW error, SubFails(s, error) PROVE SerialInv'
    BY <2>1, <2>3, FailKeepsSerial
  <2>4. CASE ReadAccount(s) \/ Prepare(s) \/ SendAccepted(s) \/ SendPutOff(s)
    <3>1. UNCHANGED <<pay, store>>
      BY <2>4 DEF ReadAccount, Prepare, SendAccepted, SendPutOff
    <3>2. \A t \in Subs : t # s => sub'[t] = sub[t]
      BY <1>0, <2>4 DEF ReadAccount, Prepare, SendAccepted, SendPutOff, GoTo
    <3> QED
      BY <2>2, <3>1, <3>2
  <2>5. CASE SendAnswerLost(s) \/ FailsBeforeSending(s) \/ PollDisconnects(s)
    BY <2>3, <2>5 DEF SendAnswerLost, FailsBeforeSending, PollDisconnects
  <2>6. CASE PollFinds(s)
    <3>1. Polled(s) \in Txs
      BY TxsOfSub
    <3> QED
      BY <2>1, <2>3, <2>6, <3>1, SuccessKeepsSerial DEF PollFinds
  <2>7. CASE PollGivesUp(s)
    <3>1. CASE At(s, "poll")
      <4>1. UNCHANGED <<pay, store>> /\ \A t \in Subs : t # s => sub'[t] = sub[t]
        BY <1>0, <2>7, <3>1 DEF PollGivesUp, GoTo
      <4> QED
        BY <2>2, <4>1
    <3>2. CASE ~At(s, "poll")
      BY <2>3, <2>7, <3>2 DEF PollGivesUp
    <3> QED
      BY <3>1, <3>2
  <2> QED
    BY <1>5, <2>4, <2>5, <2>6, <2>7 DEF SubStep
<1>6. CASE Shutdown \/ ForeignTx \/ (\E tx \in mempool : Land(tx)) \/ UNCHANGED vars
  <2>1. UNCHANGED <<pay, sub, store>>
    BY <1>6 DEF Shutdown, ForeignTx, Land, vars, clientVars
  <2> QED
    BY <1>a, <2>1, QuietKeepsSerial
<1>7. ASSUME NEW o \in Ops, ExpireKey(o) PROVE SerialInv'
  <2>1. UNCHANGED <<pay, sub>> /\ KeysExpire /\ \A k \in Ops : store'[k] = store[k] \/ store'[k] = NoTx
    BY <1>7 DEF ExpireKey, IInv, RestTyped
  <2>2. ActiveIsAwaited'
    BY <2>1 DEF SerialInv, ActiveIsAwaited, Active, Awaited
  <2>3. RunningUnclaimed'
    BY <2>1, OpsOfPays DEF SerialInv, RunningUnclaimed
  <2>4. AnswersAreStored'
    BY <2>1 DEF AnswersAreStored
  <2> QED
    BY <2>2, <2>3, <2>4 DEF SerialInv
<1> QED
  BY <1>1, <1>2, <1>3, <1>4, <1>5, <1>6, <1>7 DEF Next, PayStep, Environment

LEMMA InitIsSerial == Init => SerialInv
BY DEF Init, SerialInv, ActiveIsAwaited, Active, RunningUnclaimed, AnswersAreStored, Answered

(* Submissions of the client never overlap, and calls for one operation     *)
(* whose key is kept report one transaction.                                *)
THEOREM TwinsAlwaysSerialised == Spec => []TwinsAreSerialised
<1>1. IInv /\ SerialInv => TwinsAreSerialised
  <2> SUFFICES ASSUME IInv, SerialInv PROVE TwinsAreSerialised
    OBVIOUS
  <2>1. OneSubmission
    BY OneActive DEF OneSubmission
  <2>2. TwinsShareTransaction
    BY DEF TwinsShareTransaction, SerialInv, AnswersAreStored, Answered
  <2> QED
    BY <2>1, <2>2 DEF TwinsAreSerialised
<1> QED
  BY <1>1, InitEstablishesIInv, NextKeepsIInv, InitIsSerial, NextKeepsSerial, PTL DEF Spec

(* Nothing is sent for an operation while its key is remembered.            *)
THEOREM NeverSentOnceClaimed == Spec => NoSendOnceClaimed
<1> DEFINE Unsent == \A tx \in mempool' \ mempool : Idempotent => store[Op(tx.sub)] = NoTx
<1>1. IInv /\ SerialInv /\ [Next]_vars => [Unsent]_vars
  <2> SUFFICES ASSUME IInv, SerialInv, Next, NEW tx \in mempool', tx \notin mempool, Idempotent
               PROVE  store[Op(tx.sub)] = NoTx
    OBVIOUS
  <2>1. \A p \in Pays : ~PayStep(p)
    BY DEF PayStep, Pay, Retry, Hit, ReturnHit, Execute, Failover, BeginSub
  <2>2. ~Shutdown /\ ~Environment
    BY DEF Shutdown, Environment, Land, ForeignTx, ExpireKey, StaysOnLedger, ledgerVars
  <2>3. PICK s \in Subs : SubStep(s)
    BY <2>1, <2>2 DEF Next
  <2>4. SendAccepted(s) \/ SendAnswerLost(s)
    BY <2>3 DEF SubStep, ReadAccount, Prepare, SendPutOff, FailsBeforeSending, PollFinds,
       PollGivesUp, PollDisconnects, StaysOnLedger, ledgerVars
  <2>5. tx = ToSend(s) /\ Active(s)
    BY <2>4 DEF SendAccepted, SendAnswerLost, Active, Sending, At
  <2>6. tx.sub = s
    BY <2>5 DEF ToSend, InnerTx, BumpTx
  <2>7. pay[s[1]].pc = "running" /\ s[1] \in Pays
    BY <2>5 DEF SerialInv, ActiveIsAwaited, Awaited, Subs
  <2> QED
    BY <2>6, <2>7 DEF SerialInv, RunningUnclaimed, Op
<1>2. [](IInv /\ SerialInv) /\ [][Next]_vars => [][Unsent]_vars
  BY <1>1, PTL
<1> QED
  BY <1>2, InitEstablishesIInv, NextKeepsIInv, InitIsSerial, NextKeepsSerial, PTL
     DEF Spec, NoSendOnceClaimed
=============================================================================
