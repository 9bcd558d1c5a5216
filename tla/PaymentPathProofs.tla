------------------------- MODULE PaymentPathProofs --------------------------
(***************************************************************************)
(* What surrounds the submission of a payment: the schedule that makes it  *)
(* later, the rollback of a split, the circuit breaker around it, and the  *)
(* allocation and rounding of amounts; for every number of payments, tabs, *)
(* attempts, submissions, restarts, invoices and split lines.              *)
(***************************************************************************)
EXTENDS ScheduledPayments, SplitRollback, GuardedSubmission, PaymentAllocation,
        SplitAlgorithms, TxSubmissionProofs, BasicLemmas, FiniteSetTheorems

(* Scheduled payments.                                                      *)

Statuses == {"none", "pending", "executed", "failed"}

(* The ranges the steps rely on.                                            *)
ScheduleRanges ==
    /\ storage \in [shared : BOOLEAN, full : BOOLEAN]
    /\ plan \in [Tabs -> [Payments -> Statuses]]
    /\ saved \in [Payments -> Statuses]
    /\ dueAt \in [Payments -> 0 .. MaxNow \cup {Unset}]
    /\ alarm \in [Tabs -> [Payments -> 0 .. MaxNow \cup {Unset}]]
    /\ paying \subseteq Tabs \X Payments
    /\ paidTimes \in [Payments -> Nat]
    /\ cut \in [Payments -> Nat]
    /\ payCalls \in [Tabs -> [Payments -> Nat]]
    /\ now \in 0 .. MaxNow

(* A payment that was never scheduled is known to nobody.                   *)
UnknownBefore ==
    \A s \in Payments : dueAt[s] = Unset =>
        /\ saved[s] = "none" /\ paidTimes[s] = 0
        /\ \A t \in Tabs : plan[t][s] = "none" /\ payCalls[t][s] = 0 /\ <<t, s>> \notin paying

(* A timer that is set belongs to an entry its manager has not paid.        *)
OneCallPerManager ==
    \A t \in Tabs, s \in Payments :
        /\ payCalls[t][s] <= 1
        /\ alarm[t][s] # Unset => payCalls[t][s] = 0

(* Alone, what is due or under way was applied only by calls cut off.       *)
AloneAgrees ==
    Alone =>
        /\ plan[FirstTab] = saved
        /\ \A c \in paying : c[1] = FirstTab
        /\ \A t \in Tabs \ {FirstTab}, s \in Payments :
              plan[t][s] = "none" /\ alarm[t][s] = Unset
        /\ \A s \in Payments :
            /\ saved[s] = "pending" => alarm[FirstTab][s] # Unset \/ <<FirstTab, s>> \in paying
            /\ saved[s] = "pending" \/ <<FirstTab, s>> \in paying => paidTimes[s] <= cut[s]
            /\ paidTimes[s] <= 1 + cut[s]

(* The inductive invariant.                                                 *)
ScheduleInv == ScheduleRanges /\ UnknownBefore /\ OneCallPerManager /\ AloneAgrees

(* Nothing is scheduled when the manager is made first.                     *)
LEMMA ScheduleInvInitially == ScheduleInit => ScheduleInv
<1> SUFFICES ASSUME ScheduleInit PROVE ScheduleInv
  OBVIOUS
<1> USE ScheduleSettings
<1>1. ScheduleRanges
  BY DEF ScheduleInit, ScheduleRanges, Nothing, NoAlarms, Zeros, Statuses, Unset
<1>2. UnknownBefore /\ OneCallPerManager
  BY DEF ScheduleInit, UnknownBefore, OneCallPerManager, Nothing, NoAlarms, Zeros
<1>3. AloneAgrees
  BY DEF ScheduleInit, AloneAgrees, Nothing, NoAlarms, Zeros
<1> QED
  BY <1>1, <1>2, <1>3 DEF ScheduleInv

(* Counting once more is counting.                                          *)
LEMMA OnceMoreCounts ==
    ASSUME NEW counts \in [Payments -> Nat], NEW S
    PROVE  /\ OnceMore(counts, S) \in [Payments -> Nat]
           /\ \A s \in Payments :
                 OnceMore(counts, S)[s] = IF s \in S THEN counts[s] + 1 ELSE counts[s]
BY DEF OnceMore

(* Timers that are set for a time in range fire in range.                   *)
LEMMA TimersFireInRange ==
    ASSUME now \in 0 .. MaxNow, NEW at \in 0 .. MaxNow
    PROVE  FiresAt(at) \in 0 .. MaxNow /\ FiresAt(at) # Unset
BY ScheduleSettings DEF FiresAt, Unset

(* A new entry is pending with its timer set.                               *)
LEMMA ScheduleKeeps ==
    ASSUME ScheduleInv, NEW t \in Tabs, NEW s \in Payments, NEW delay \in Delays,
           SchedulePayment(t, s, delay)
    PROVE  ScheduleInv'
<1> USE ScheduleSettings DEF ScheduleInv
<1> DEFINE at == now + delay
<1>1. at \in 0 .. MaxNow /\ at # Unset
  BY DEF ScheduleRanges, SchedulePayment, Unset
<1>2. FiresAt(at) \in 0 .. MaxNow /\ FiresAt(at) # Unset
  BY <1>1, TimersFireInRange DEF ScheduleRanges
<1>3. ScheduleRanges'
  BY <1>1, <1>2 DEF ScheduleRanges, SchedulePayment, Save, Statuses
<1>p. /\ \A u \in Tabs, r \in Payments :
            r # s => plan'[u][r] = plan[u][r] /\ alarm'[u][r] = alarm[u][r]
      /\ \A u \in Tabs : u # t => alarm'[u][s] = alarm[u][s]
      /\ \A r \in Payments : r # s => saved'[r] = saved[r] \/ saved'[r] = plan[t][r]
      /\ \A r \in Payments : r # s => dueAt'[r] = dueAt[r]
      /\ dueAt[s] = Unset /\ dueAt'[s] = at
      /\ UNCHANGED <<paying, paidTimes, payCalls>>
  BY DEF ScheduleRanges, SchedulePayment, Save
<1>4. UnknownBefore'
  <2> SUFFICES ASSUME NEW r \in Payments, dueAt'[r] = Unset
               PROVE  /\ saved'[r] = "none" /\ paidTimes'[r] = 0
                      /\ \A u \in Tabs : plan'[u][r] = "none" /\ payCalls'[u][r] = 0 /\ <<u, r>> \notin paying'
    BY DEF UnknownBefore
  <2>1. r # s /\ dueAt[r] = Unset
    BY <1>1, <1>p
  <2>2. /\ saved[r] = "none" /\ paidTimes[r] = 0 /\ plan[t][r] = "none"
        /\ \A u \in Tabs : plan[u][r] = "none" /\ payCalls[u][r] = 0 /\ <<u, r>> \notin paying
    BY <2>1 DEF UnknownBefore
  <2>3. paying' = paying /\ paidTimes' = paidTimes /\ payCalls' = payCalls
    BY <1>p
  <2>4. saved'[r] = "none" /\ \A u \in Tabs : plan'[u][r] = "none"
    BY <1>p, <2>1, <2>2
  <2> QED
    BY <2>2, <2>3, <2>4
<1>5. OneCallPerManager'
  <2> SUFFICES \A u \in Tabs, r \in Payments :
          payCalls'[u][r] <= 1 /\ (alarm'[u][r] # Unset => payCalls'[u][r] = 0)
    BY DEF OneCallPerManager
  <2> TAKE u \in Tabs, r \in Payments
  <2>1. CASE r = s
    <3>1. payCalls[u][s] = 0
      BY <1>p DEF UnknownBefore
    <3> QED
      BY <1>p, <2>1, <3>1
  <2>2. CASE r # s
    BY <1>p, <2>2 DEF OneCallPerManager
  <2> QED
    BY <2>1, <2>2
<1>6. AloneAgrees'
  <2> SUFFICES ASSUME Alone, plan[FirstTab] = saved, t = FirstTab PROVE AloneAgrees'
    BY DEF ScheduleRanges, AloneAgrees, Alone, SchedulePayment, Save
  <2>1. saved' = plan'[FirstTab] /\ plan'[FirstTab] = [plan[FirstTab] EXCEPT ![s] = "pending"]
    BY DEF ScheduleRanges, Alone, SchedulePayment, Save
  <2>2. /\ saved'[s] = "pending" /\ alarm'[FirstTab][s] # Unset
        /\ \A r \in Payments : r # s => saved'[r] = saved[r] /\ alarm'[FirstTab][r] = alarm[FirstTab][r]
        /\ UNCHANGED <<paying, paidTimes, cut, storage>>
    BY <1>2, <2>1 DEF ScheduleRanges, SchedulePayment
  <2>3. paidTimes[s] = 0 /\ cut[s] \in Nat
    BY <1>p DEF ScheduleRanges, UnknownBefore
  <2>4. \A r \in Payments :
           /\ saved'[r] = "pending" => alarm'[FirstTab][r] # Unset \/ <<FirstTab, r>> \in paying
           /\ saved'[r] = "pending" \/ <<FirstTab, r>> \in paying => paidTimes[r] <= cut[r]
           /\ paidTimes[r] <= 1 + cut[r]
    <3> TAKE r \in Payments
    <3>1. CASE r = s
      BY <2>2, <2>3, <3>1
    <3>2. CASE r # s
      BY <2>2, <3>2 DEF AloneAgrees
    <3> QED
      BY <3>1, <3>2
  <2>5. \A u \in Tabs \ {FirstTab}, r \in Payments :
           plan'[u][r] = "none" /\ alarm'[u][r] = Unset
    BY DEF ScheduleRanges, AloneAgrees, SchedulePayment
  <2>6. \A c \in paying : c[1] = FirstTab
    BY DEF AloneAgrees
  <2> QED
    BY <2>1, <2>2, <2>4, <2>5, <2>6 DEF AloneAgrees
<1> QED
  BY <1>3, <1>4, <1>5, <1>6

(* A cancelled entry has no timer; its call, if one is under way, goes on.  *)
LEMMA CancelKeeps ==
    ASSUME ScheduleInv, NEW t \in Tabs, NEW s \in Payments, CancelPayment(t, s)
    PROVE  ScheduleInv'
<1> USE ScheduleSettings DEF ScheduleInv
<1>1. ScheduleRanges'
  <2>1. plan' \in [Tabs -> [Payments -> Statuses]]
    BY DEF ScheduleRanges, CancelPayment, Statuses
  <2>2. saved' \in [Payments -> Statuses]
    BY <2>1 DEF ScheduleRanges, CancelPayment, Save
  <2>3. alarm' \in [Tabs -> [Payments -> 0 .. MaxNow \cup {Unset}]]
    BY DEF ScheduleRanges, CancelPayment
  <2> QED
    BY <2>1, <2>2, <2>3 DEF ScheduleRanges, CancelPayment
<1>p. /\ \A u \in Tabs, r \in Payments : r # s => plan'[u][r] = plan[u][r]
      /\ \A r \in Payments : r # s => saved'[r] = saved[r] \/ saved'[r] = plan[t][r]
      /\ plan[t][s] = "pending"
      /\ UNCHANGED <<dueAt, paying, paidTimes, payCalls>>
  BY DEF ScheduleRanges, CancelPayment, Save
<1>2. UnknownBefore'
  <2> SUFFICES ASSUME NEW r \in Payments, dueAt'[r] = Unset
               PROVE  /\ saved'[r] = "none" /\ paidTimes'[r] = 0
                      /\ \A u \in Tabs : plan'[u][r] = "none" /\ payCalls'[u][r] = 0 /\ <<u, r>> \notin paying'
    BY DEF UnknownBefore
  <2>1. r # s /\ dueAt[r] = Unset
    BY <1>p DEF UnknownBefore
  <2>2. /\ saved[r] = "none" /\ paidTimes[r] = 0 /\ plan[t][r] = "none"
        /\ \A u \in Tabs : plan[u][r] = "none" /\ payCalls[u][r] = 0 /\ <<u, r>> \notin paying
    BY <2>1 DEF UnknownBefore
  <2> HIDE DEF ScheduleInv
  <2>3. saved'[r] = "none" /\ \A u \in Tabs : plan'[u][r] = "none"
    BY <1>p, <2>1, <2>2
  <2> QED
    BY <1>p, <2>2, <2>3
<1>3. OneCallPerManager'
  BY DEF ScheduleRanges, OneCallPerManager, CancelPayment
<1>4. AloneAgrees'
  <2> SUFFICES ASSUME Alone, plan[FirstTab] = saved, t = FirstTab PROVE AloneAgrees'
    BY DEF ScheduleRanges, AloneAgrees, Alone, CancelPayment, Save
  <2>1. saved' = plan'[FirstTab] /\ plan'[FirstTab] = [plan[FirstTab] EXCEPT ![s] = "failed"]
    BY DEF ScheduleRanges, Alone, CancelPayment, Save
  <2>2. /\ saved'[s] = "failed"
        /\ \A r \in Payments : r # s => saved'[r] = saved[r] /\ alarm'[FirstTab][r] = alarm[FirstTab][r]
        /\ UNCHANGED <<paying, paidTimes, cut, storage>>
    BY <2>1 DEF ScheduleRanges, CancelPayment
  <2>3. \A r \in Payments :
           /\ saved'[r] = "pending" => alarm'[FirstTab][r] # Unset \/ <<FirstTab, r>> \in paying
           /\ saved'[r] = "pending" \/ <<FirstTab, r>> \in paying => paidTimes[r] <= cut[r]
           /\ paidTimes[r] <= 1 + cut[r]
    BY <2>2 DEF AloneAgrees
  <2>4. \A u \in Tabs \ {FirstTab}, r \in Payments :
           plan'[u][r] = "none" /\ alarm'[u][r] = Unset
    BY DEF ScheduleRanges, AloneAgrees, CancelPayment
  <2> QED
    BY <2>1, <2>2, <2>3, <2>4 DEF AloneAgrees, Alone
<1> QED
  BY <1>1, <1>2, <1>3, <1>4

(* The timer is given up for the call that it makes.                        *)
LEMMA AlarmKeeps ==
    ASSUME ScheduleInv, NEW t \in Tabs, NEW s \in Payments, AlarmFires(t, s)
    PROVE  ScheduleInv'
<1> USE ScheduleSettings DEF ScheduleInv
<1>1. alarm[t][s] # Unset
  BY DEF ScheduleRanges, AlarmFires, Unset
<1>2. ScheduleRanges'
  <2>1. alarm' \in [Tabs -> [Payments -> 0 .. MaxNow \cup {Unset}]]
    BY DEF ScheduleRanges, AlarmFires
  <2>2. CASE plan[t][s] = "pending"
    <3>1. paying' = paying \cup {<<t, s>>} /\ payCalls' = [payCalls EXCEPT ![t][s] = @ + 1]
      BY <2>2 DEF AlarmFires
    <3>2. paying' \subseteq Tabs \X Payments
      BY <3>1 DEF ScheduleRanges
    <3>3. payCalls' \in [Tabs -> [Payments -> Nat]]
      BY <3>1 DEF ScheduleRanges
    <3> QED
      BY <2>1, <3>2, <3>3 DEF ScheduleRanges, AlarmFires
  <2>3. CASE plan[t][s] # "pending"
    BY <2>1, <2>3 DEF ScheduleRanges, AlarmFires
  <2> QED
    BY <2>2, <2>3 DEF ScheduleRanges, AlarmFires
<1>3. UnknownBefore'
  BY DEF ScheduleRanges, UnknownBefore, AlarmFires
<1>4. OneCallPerManager'
  BY <1>1 DEF ScheduleRanges, OneCallPerManager, AlarmFires
<1>5. AloneAgrees'
  <2> SUFFICES ASSUME Alone PROVE AloneAgrees'
    BY DEF AloneAgrees, Alone, AlarmFires
  <2>1. /\ plan[FirstTab] = saved /\ UNCHANGED <<plan, saved, paidTimes, cut, storage>>
        /\ t = FirstTab
    BY <1>1 DEF AloneAgrees, AlarmFires
  <2>2. /\ \A u \in Tabs \ {FirstTab}, r \in Payments : alarm'[u][r] = alarm[u][r]
        /\ \A r \in Payments : r # s => alarm'[FirstTab][r] = alarm[FirstTab][r]
    BY <2>1 DEF ScheduleRanges, AlarmFires
  <2>3. /\ saved[s] = "pending" => <<FirstTab, s>> \in paying'
        /\ paying' = paying \/ (saved[s] = "pending" /\ paying' = paying \cup {<<FirstTab, s>>})
    BY <2>1 DEF AlarmFires
  <2>4. \A c \in paying' : c[1] = FirstTab
    BY <2>3 DEF AloneAgrees
  <2>5. \A r \in Payments :
           /\ saved[r] = "pending" => alarm'[FirstTab][r] # Unset \/ <<FirstTab, r>> \in paying'
           /\ saved[r] = "pending" \/ <<FirstTab, r>> \in paying' => paidTimes[r] <= cut[r]
           /\ paidTimes[r] <= 1 + cut[r]
    <3> TAKE r \in Payments
    <3>1. CASE r = s
      BY <2>3, <3>1 DEF AloneAgrees
    <3>2. CASE r # s
      BY <2>2, <2>3, <3>2 DEF AloneAgrees
    <3> QED
      BY <3>1, <3>2
  <2>6. \A u \in Tabs \ {FirstTab}, r \in Payments :
           plan'[u][r] = "none" /\ alarm'[u][r] = Unset
    BY <2>1, <2>2 DEF AloneAgrees
  <2> QED
    BY <2>1, <2>2, <2>4, <2>5, <2>6 DEF AloneAgrees, Alone
<1> QED
  BY <1>2, <1>3, <1>4, <1>5

(* A call that ends records its result; the ledger applied it or not.       *)
LEMMA PayEndsKeeps ==
    ASSUME ScheduleInv, NEW t \in Tabs, NEW s \in Payments, PayEnds(t, s)
    PROVE  ScheduleInv'
<1> USE ScheduleSettings DEF ScheduleInv
<1>1. PICK status \in {"executed", "failed"} : plan' = [plan EXCEPT ![t][s] = status]
  BY DEF PayEnds
<1>2. PICK S \in SUBSET {s} : paidTimes' = OnceMore(paidTimes, S)
  BY DEF PayEnds
<1>3. /\ paidTimes' \in [Payments -> Nat]
      /\ \A r \in Payments : r # s => paidTimes'[r] = paidTimes[r]
      /\ paidTimes'[s] <= paidTimes[s] + 1
  <2>1. paidTimes \in [Payments -> Nat]
    BY DEF ScheduleRanges
  <2> HIDE DEF ScheduleInv
  <2>2. /\ paidTimes' \in [Payments -> Nat]
        /\ \A r \in Payments : paidTimes'[r] = IF r \in S THEN paidTimes[r] + 1 ELSE paidTimes[r]
    BY <1>2, <2>1, OnceMoreCounts
  <2> QED
    BY <2>1, <2>2
<1>4. ScheduleRanges'
  <2>1. /\ ScheduleRanges /\ paying' \subseteq paying
        /\ UNCHANGED <<dueAt, alarm, now, storage, payCalls, cut>>
        /\ saved' = plan'[t] \/ saved' = saved
    BY DEF PayEnds, Save
  <2> HIDE DEF ScheduleInv
  <2>2. plan' \in [Tabs -> [Payments -> Statuses]]
    <3>1. plan \in [Tabs -> [Payments -> Statuses]] /\ status \in Statuses
      BY <2>1 DEF ScheduleRanges, Statuses
    <3>2. [plan[t] EXCEPT ![s] = status] \in [Payments -> Statuses]
      BY <3>1
    <3> QED
      BY <1>1, <3>1, <3>2
  <2>3. saved' \in [Payments -> Statuses]
    BY <2>1, <2>2 DEF ScheduleRanges
  <2> QED
    BY <1>3, <2>1, <2>2, <2>3 DEF ScheduleRanges
<1>p. /\ \A u \in Tabs, r \in Payments : r # s => plan'[u][r] = plan[u][r]
      /\ \A r \in Payments : r # s => saved'[r] = saved[r] \/ saved'[r] = plan[t][r]
      /\ <<t, s>> \in paying /\ paying' \subseteq paying
      /\ UNCHANGED <<dueAt, payCalls>>
  BY <1>1 DEF ScheduleRanges, PayEnds, Save
<1>5. UnknownBefore'
  <2> SUFFICES ASSUME NEW r \in Payments, dueAt'[r] = Unset
               PROVE  /\ saved'[r] = "none" /\ paidTimes'[r] = 0
                      /\ \A u \in Tabs : plan'[u][r] = "none" /\ payCalls'[u][r] = 0 /\ <<u, r>> \notin paying'
    BY DEF UnknownBefore
  <2>1. r # s /\ dueAt[r] = Unset
    BY <1>p DEF UnknownBefore
  <2>2. /\ saved[r] = "none" /\ paidTimes[r] = 0 /\ plan[t][r] = "none"
        /\ \A u \in Tabs : plan[u][r] = "none" /\ payCalls[u][r] = 0 /\ <<u, r>> \notin paying
    BY <2>1 DEF UnknownBefore
  <2> HIDE DEF ScheduleInv
  <2>3. saved'[r] = "none" /\ \A u \in Tabs : plan'[u][r] = "none"
    BY <1>p, <2>1, <2>2
  <2>4. paidTimes'[r] = 0
    BY <1>3, <2>1, <2>2
  <2>5. \A u \in Tabs : payCalls'[u][r] = 0 /\ <<u, r>> \notin paying'
    BY <1>p, <2>2
  <2> QED
    BY <2>3, <2>4, <2>5
<1>6. OneCallPerManager'
  BY DEF OneCallPerManager, PayEnds
<1>7. AloneAgrees'
  <2> SUFFICES ASSUME Alone, plan[FirstTab] = saved, t = FirstTab PROVE AloneAgrees'
    BY DEF ScheduleRanges, AloneAgrees, Alone, PayEnds, Save
  <2>1. saved' = plan'[FirstTab] /\ plan'[FirstTab] = [plan[FirstTab] EXCEPT ![s] = status]
    BY <1>1 DEF ScheduleRanges, Alone, PayEnds, Save
  <2>2. paying' = paying \ {<<FirstTab, s>>} /\ <<FirstTab, s>> \in paying
    BY DEF PayEnds
  <2>3. UNCHANGED <<alarm, cut, storage>>
    BY DEF PayEnds
  <2>4. \A r \in Payments :
           /\ saved'[r] = "pending" => alarm'[FirstTab][r] # Unset \/ <<FirstTab, r>> \in paying'
           /\ saved'[r] = "pending" \/ <<FirstTab, r>> \in paying' => paidTimes'[r] <= cut'[r]
           /\ paidTimes'[r] <= 1 + cut'[r]
    <3> TAKE r \in Payments
    <3>1. CASE r = s
      BY <1>3, <2>1, <2>2, <2>3, <3>1 DEF ScheduleRanges, AloneAgrees
    <3>2. CASE r # s
      BY <1>3, <2>1, <2>2, <2>3, <3>2 DEF ScheduleRanges, AloneAgrees
    <3> QED
      BY <3>1, <3>2
  <2>5. \A u \in Tabs \ {FirstTab}, r \in Payments :
           plan'[u][r] = "none" /\ alarm'[u][r] = Unset
    BY <1>1, <2>3 DEF ScheduleRanges, AloneAgrees
  <2>6. \A c \in paying' : c[1] = FirstTab
    BY <2>2 DEF AloneAgrees
  <2> QED
    BY <2>1, <2>3, <2>4, <2>5, <2>6 DEF AloneAgrees, Alone
<1> QED
  BY <1>4, <1>5, <1>6, <1>7

(* A restart arms what is stored as pending, and counts the calls it cuts.  *)
LEMMA StartKeeps ==
    ASSUME ScheduleInv, NEW t \in Tabs, StartManager(t)
    PROVE  ScheduleInv'
<1> USE ScheduleSettings DEF ScheduleInv
<1>1. \A s \in Payments : saved[s] = "pending" => dueAt[s] \in 0 .. MaxNow
  BY DEF ScheduleRanges, UnknownBefore
<1>2. \A s \in Payments : saved[s] = "pending" =>
          FiresAt(dueAt[s]) \in 0 .. MaxNow /\ FiresAt(dueAt[s]) # Unset
  BY <1>1, TimersFireInRange DEF ScheduleRanges
<1>3. PICK S \in SUBSET CallsOf(t) : paidTimes' = OnceMore(paidTimes, S)
  BY DEF StartManager
<1>4. /\ paidTimes' \in [Payments -> Nat] /\ cut' \in [Payments -> Nat]
      /\ \A s \in Payments :
            /\ s \in CallsOf(t) => cut'[s] = cut[s] + 1 /\ paidTimes'[s] <= paidTimes[s] + 1
            /\ s \notin CallsOf(t) => cut'[s] = cut[s] /\ paidTimes'[s] = paidTimes[s]
  <2>1. paidTimes \in [Payments -> Nat] /\ cut \in [Payments -> Nat]
    BY DEF ScheduleRanges
  <2>2. cut' = OnceMore(cut, CallsOf(t))
    BY DEF StartManager
  <2> HIDE DEF ScheduleInv
  <2>3. /\ paidTimes' \in [Payments -> Nat]
        /\ \A r \in Payments : paidTimes'[r] = IF r \in S THEN paidTimes[r] + 1 ELSE paidTimes[r]
    BY <1>3, <2>1, OnceMoreCounts
  <2>4. /\ cut' \in [Payments -> Nat]
        /\ \A r \in Payments : cut'[r] = IF r \in CallsOf(t) THEN cut[r] + 1 ELSE cut[r]
    BY <2>1, <2>2, OnceMoreCounts
  <2> QED
    BY <2>1, <2>3, <2>4
<1>5. /\ plan' = [plan EXCEPT ![t] = saved]
      /\ alarm' = [alarm EXCEPT ![t] = [s \in Payments |->
                      IF saved[s] = "pending" THEN FiresAt(dueAt[s]) ELSE Unset]]
      /\ paying' = {c \in paying : c[1] # t}
      /\ payCalls' = [payCalls EXCEPT ![t] = Zeros]
      /\ UNCHANGED <<saved, dueAt, now, storage>>
      /\ t = FirstTab \/ storage.shared
  BY DEF StartManager
<1>6. ScheduleRanges'
  BY <1>2, <1>4, <1>5 DEF ScheduleRanges, Zeros
<1>7. UnknownBefore'
  BY <1>4, <1>5 DEF ScheduleRanges, UnknownBefore, CallsOf, Zeros
<1>8. OneCallPerManager'
  BY <1>5 DEF ScheduleRanges, OneCallPerManager, Zeros
<1>9. AloneAgrees'
  <2> SUFFICES ASSUME Alone, t = FirstTab PROVE AloneAgrees'
    BY <1>5 DEF AloneAgrees, Alone
  <2>1. paying' = {}
    BY <1>5 DEF AloneAgrees, ScheduleRanges
  <2>2. plan'[FirstTab] = saved' /\ storage' = storage
    BY <1>5 DEF ScheduleRanges
  <2>3. \A s \in Payments :
           /\ saved'[s] = "pending" => alarm'[FirstTab][s] # Unset
           /\ saved'[s] = "pending" => paidTimes'[s] <= cut'[s]
           /\ paidTimes'[s] <= 1 + cut'[s]
    <3> TAKE s \in Payments
    <3>1. saved'[s] = "pending" => alarm'[FirstTab][s] # Unset
      BY <1>2, <1>5 DEF ScheduleRanges
    <3>2. CASE s \in CallsOf(t)
      <4>1. paidTimes[s] <= cut[s]
        BY <3>2 DEF CallsOf, AloneAgrees
      <4> QED
        BY <1>4, <3>1, <3>2, <4>1 DEF ScheduleRanges
    <3>3. CASE s \notin CallsOf(t)
      BY <1>4, <1>5, <3>1, <3>3 DEF ScheduleRanges, AloneAgrees
    <3> QED
      BY <3>2, <3>3
  <2>4. \A u \in Tabs \ {FirstTab}, r \in Payments :
           plan'[u][r] = "none" /\ alarm'[u][r] = Unset
    BY <1>5 DEF ScheduleRanges, AloneAgrees
  <2> QED
    BY <2>1, <2>2, <2>3, <2>4 DEF AloneAgrees, Alone
<1> QED
  BY <1>6, <1>7, <1>8, <1>9

(* Every step keeps the invariant.                                          *)
LEMMA ScheduleInvKept ==
    ASSUME ScheduleInv, [ScheduleNext]_scheduleVars
    PROVE  ScheduleInv'
<1>1. ASSUME NEW t \in Tabs, NEW s \in Payments, NEW delay \in Delays,
             SchedulePayment(t, s, delay)
      PROVE  ScheduleInv'
  BY <1>1, ScheduleKeeps
<1>2. ASSUME NEW t \in Tabs, NEW s \in Payments, CancelPayment(t, s)
      PROVE  ScheduleInv'
  BY <1>2, CancelKeeps
<1>3. ASSUME NEW t \in Tabs, NEW s \in Payments, AlarmFires(t, s)
      PROVE  ScheduleInv'
  BY <1>3, AlarmKeeps
<1>4. ASSUME NEW t \in Tabs, NEW s \in Payments, PayEnds(t, s)
      PROVE  ScheduleInv'
  BY <1>4, PayEndsKeeps
<1>5. ASSUME NEW t \in Tabs, StartManager(t)
      PROVE  ScheduleInv'
  BY <1>5, StartKeeps
<1>6. CASE TimePasses
  BY <1>6, ScheduleSettings DEF TimePasses, ScheduleInv, ScheduleRanges, UnknownBefore,
     OneCallPerManager, AloneAgrees, Alone
<1>7. CASE UNCHANGED scheduleVars
  BY <1>7 DEF scheduleVars, ScheduleInv, ScheduleRanges, UnknownBefore, OneCallPerManager,
     AloneAgrees, Alone
<1> QED
  BY <1>1, <1>2, <1>3, <1>4, <1>5, <1>6, <1>7 DEF ScheduleNext

(* What is always true of scheduled payments: a manager calls pay() at most *)
(* once for an entry; alone, its memory agrees with the storage, and an     *)
(* entry is applied twice only if a restart has cut off its first call.     *)
THEOREM ScheduledPaidOnce == ScheduleSpec => []PaidOnceUnlessCut
<1>1. ScheduleInv => PaidOnceUnlessCut
  BY DEF ScheduleInv, OneCallPerManager, AloneAgrees, PaidOnceUnlessCut
<1> QED
  BY <1>1, ScheduleInvInitially, ScheduleInvKept, PTL DEF ScheduleSpec

-----------------------------------------------------------------------------
(* Split rollback.  What has been announced is recorded and claimed, so     *)
(* that whoever comes next finds both; only a timeout takes a record away.  *)
RollbackInv ==
    /\ checkpoint \in Nat /\ begun \in Nat /\ rollbackRecord \in Nat
    /\ announced = 0 \/ (announced = 1 /\ rollbackRecord # 0 /\ claimed)
    /\ attempt \in [Attempts -> {"idle", "unknown", "executing", "done", "failed", "timedOut"}]
    /\ (\E a \in Attempts : attempt[a] = "executing") =>
          rollbackRecord # 0 \/ \E b \in Attempts : attempt[b] = "timedOut"

(* initiateRollback() leaves a record that is announced at most once.       *)
LEMMA RecordingKeeps ==
    ASSUME RollbackInv, checkpoint # 0, Recorded
    PROVE  /\ rollbackRecord' \in Nat /\ rollbackRecord' # 0
           /\ announced' = 0 \/ (announced' = 1 /\ claimed')
<1>1. CASE rollbackRecord # 0 /\ claimed
  BY <1>1 DEF RollbackInv, Recorded
<1>2. CASE ~(rollbackRecord # 0 /\ claimed)
  BY <1>2 DEF RollbackInv, Recorded
<1> QED
  BY <1>1, <1>2

LEMMA RollbackStepKeeps == RollbackInv /\ [RollbackNext]_rollbackVars => RollbackInv'
<1> SUFFICES ASSUME RollbackInv, [RollbackNext]_rollbackVars PROVE RollbackInv'
  OBVIOUS
<1>1. CASE BeginSplit
  BY <1>1 DEF BeginSplit, RollbackInv
<1>2. CASE InitiateRollback
  <2>1. /\ rollbackRecord' \in Nat /\ rollbackRecord' # 0
        /\ announced' = 0 \/ (announced' = 1 /\ claimed')
    BY <1>2, RecordingKeeps DEF InitiateRollback
  <2> QED
    BY <1>2, <2>1 DEF InitiateRollback, RollbackInv
<1>3. CASE RollbackKeyForgotten
  BY <1>3 DEF RollbackKeyForgotten, RollbackInv
<1>4. ASSUME NEW l \in Legs, NEW s \in LegStates, SetLegState(l, s) PROVE RollbackInv'
  BY <1>4 DEF SetLegState, RollbackInv
<1>5. ASSUME NEW a \in Attempts, StartAttempt(a) PROVE RollbackInv'
  <2>1. CASE checkpoint = 0
    BY <1>5, <2>1 DEF StartAttempt, RollbackInv
  <2>2. CASE checkpoint # 0
    <3>1. /\ rollbackRecord' \in Nat /\ rollbackRecord' # 0
          /\ announced' = 0 \/ (announced' = 1 /\ claimed')
      BY <1>5, <2>2, RecordingKeeps DEF StartAttempt
    <3> QED
      BY <1>5, <2>2, <3>1 DEF StartAttempt, RollbackInv
  <2> QED
    BY <2>1, <2>2
<1>6. ASSUME NEW a \in Attempts, AttemptTimesOut(a) PROVE RollbackInv'
  BY <1>6 DEF AttemptTimesOut, RollbackInv
<1>7. ASSUME NEW a \in Attempts, NEW outcome \in {"done", "failed"}, ExecuteEnds(a, outcome)
      PROVE  RollbackInv'
  BY <1>7 DEF ExecuteEnds, RollbackInv
<1>8. CASE UNCHANGED rollbackVars
  BY <1>8 DEF rollbackVars, RollbackInv
<1> QED
  BY <1>1, <1>2, <1>3, <1>4, <1>5, <1>6, <1>7, <1>8 DEF RollbackNext

(* However many attempts overlap and however often the split is begun       *)
(* again, a rollback is announced once while its record and its key are     *)
(* kept, and an attempt is without its record only after a timeout.         *)
THEOREM RollbackNeverRepeated == RollbackSpec => []RollbackAnnouncedOnce
<1>1. RollbackInit => RollbackInv
  BY DEF RollbackInit, RollbackInv
<1>2. RollbackInv => RollbackAnnouncedOnce
  BY DEF RollbackInv, RollbackAnnouncedOnce
<1> QED
  BY <1>1, <1>2, RollbackStepKeeps, PTL DEF RollbackSpec

-----------------------------------------------------------------------------
(* Submission inside the breaker.  The steps the breaker adds, a refusal    *)
(* and a probe that times out, end the job of a call as an error does, so   *)
(* the books of the queue stay in order; and what the breaker is inside of  *)
(* is what the queue's job awaits.                                          *)
Agreement ==
    /\ call \in [Subs -> {"idle", "normal", "probe", "timedOut"}]
    /\ BreakerMatchesQueue

(* Executions that have not begun are idle.                                 *)
GuardedInv == IInv /\ Agreement

LEMMA SameAwaited ==
    ASSUME Agreement, UNCHANGED call,
           \A s \in Subs : (Awaited(s)' <=> Awaited(s)) /\ (Active(s)' <=> Active(s))
    PROVE  Agreement'
BY DEF Agreement, BreakerMatchesQueue

(* Calls of pay() that are not running before or after a step, or the same, *)
(* are awaited as before.                                                   *)
LEMMA NotRunning ==
    ASSUME UNCHANGED sub,
           \A p \in Pays : \/ pay'[p] = pay[p]
                           \/ pay[p].pc # "running" /\ pay'[p].pc # "running"
    PROVE  \A s \in Subs : (Awaited(s)' <=> Awaited(s)) /\ (Active(s)' <=> Active(s))
<1> SUFFICES ASSUME NEW s \in Subs
             PROVE  (Awaited(s)' <=> Awaited(s)) /\ (Active(s)' <=> Active(s))
  OBVIOUS
<1>1. s[1] \in Pays
  BY DEF Subs
<1> QED
  BY <1>1 DEF Awaited, Active

(* Of the other calls a settled job touches only the head of the queue.     *)
LEMMA SettledTouches ==
    ASSUME Books, NEW p \in Pays, UnderWay(p), NEW r, SettleJob(p, r)
    PROVE  /\ pay'[p] = r
           /\ \A q \in Pays : q # p => \/ pay'[q] = pay[q]
                                       \/ pay[q].pc # "running" /\ pay'[q].pc # "running"
<1>1. CASE queue = <<>>
  BY <1>1 DEF SettleJob, Books
<1>2. CASE queue # <<>>
  <2> DEFINE n == Head(queue)
  <2>1. n \in Pays /\ pay[n].pc = "queued" /\ n # p
    <3>1. n \in Pays /\ n = queue[1] /\ 1 \in 1 .. Len(queue)
      BY <1>2 DEF Books
    <3> QED
      BY <3>1 DEF Books, QueueConsistent, UnderWay
  <2>2. pay' = [pay EXCEPT ![p] = r, ![n].pc = "starting"]
    BY <1>2 DEF SettleJob
  <2>3. \A q \in Pays : pay'[q] = IF q = n THEN [pay[n] EXCEPT !.pc = "starting"]
                                  ELSE IF q = p THEN r ELSE pay[q]
    BY <2>1, <2>2 DEF Books
  <2>4. pay'[n].pc = "starting"
    BY <2>1, <2>3 DEF Books, PayRecords
  <2> QED
    BY <2>1, <2>3, <2>4
<1> QED
  BY <1>1, <1>2

(* An error ends the wait for the execution of the call.                    *)
LEMMA ErrorEndsWait ==
    ASSUME Books, NEW p \in Pays, UnderWay(p), NEW error, ErrorReachesJob(p, error)
    PROVE  /\ pay'[p].pc \in {"failover", "backoff", "rejected"}
           /\ \A q \in Pays : q # p => \/ pay'[q] = pay[q]
                                       \/ pay[q].pc # "running" /\ pay'[q].pc # "running"
<1>1. CASE Standby /\ pay[p].failovers = 0
  BY <1>1 DEF ErrorReachesJob, Books
<1>2. CASE ~(Standby /\ pay[p].failovers = 0)
  <2> DEFINE r == [pay[p] EXCEPT !.pc = IF error = "transient" /\ pay[p].attempt < MaxAttempts
                                       THEN "backoff" ELSE "rejected"]
  <2>1. SettleJob(p, r)
    BY <1>2 DEF ErrorReachesJob, JobRejects
  <2>2. r.pc \in {"backoff", "rejected"}
    BY DEF Books, PayRecords
  <2> HIDE DEF r
  <2> QED
    BY <2>1, <2>2, SettledTouches
<1> QED
  BY <1>1, <1>2

LEMMA SuccessEndsWait ==
    ASSUME Books, NEW p \in Pays, UnderWay(p), NEW tx, JobResolves(p, tx)
    PROVE  /\ pay'[p].pc = "resolved"
           /\ \A q \in Pays : q # p => \/ pay'[q] = pay[q]
                                       \/ pay[q].pc # "running" /\ pay'[q].pc # "running"
<1> DEFINE r == [pay[p] EXCEPT !.pc = "resolved", !.result = tx]
<1>1. SettleJob(p, r)
  BY DEF JobResolves
<1>2. r.pc = "resolved"
  BY DEF Books, PayRecords
<1> HIDE DEF r
<1> QED
  BY <1>1, <1>2, SettledTouches

(* The breaker's own steps end the job's wait like an error.                *)
LEMMA BreakerErrorKeepsIInv ==
    ASSUME IInv, NEW p \in Pays, pay[p].pc \in {"starting", "running", "failover"},
           ErrorReachesJob(p, OpenCircuit), UNCHANGED <<closed, sub, store>>, StaysOnLedger
    PROVE  IInv'
<1>1. OpenCircuit \in Errors
  BY DEF OpenCircuit, Errors
<1>2. Books'
  BY <1>1, ErrorKeepsBooks DEF IInv
<1> QED
  BY <1>2 DEF IInv, RestTyped, StaysOnLedger, ledgerVars

LEMMA RefusedKeeps ==
    ASSUME GuardedInv, NEW p \in Pays, Refused(p)
    PROVE  GuardedInv'
<1>1. /\ pay[p].pc \in {"starting", "failover"} /\ UnderWay(p)
      /\ ErrorReachesJob(p, OpenCircuit) /\ UNCHANGED <<closed, sub, store, call>> /\ StaysOnLedger
  BY DEF Refused, Breaker!Reject, UnderWay
<1>2. IInv'
  BY <1>1, BreakerErrorKeepsIInv DEF GuardedInv
<1>3. /\ pay'[p].pc # "running"
      /\ \A q \in Pays : q # p => \/ pay'[q] = pay[q]
                                  \/ pay[q].pc # "running" /\ pay'[q].pc # "running"
  BY <1>1, ErrorEndsWait DEF GuardedInv, IInv
<1>4. \A q \in Pays : \/ pay'[q] = pay[q]
                      \/ pay[q].pc # "running" /\ pay'[q].pc # "running"
  BY <1>1, <1>3
<1> QED
  BY <1>1, <1>2, <1>4, NotRunning, SameAwaited DEF GuardedInv

LEMMA ProbeTimesOutKeeps ==
    ASSUME GuardedInv, NEW s \in Subs, ProbeTimesOut(s)
    PROVE  GuardedInv'
<1>1. /\ Awaited(s) /\ call[s] = "probe" /\ call' = [call EXCEPT ![s] = "timedOut"]
      /\ ErrorReachesJob(s[1], OpenCircuit) /\ UNCHANGED <<closed, sub, store>> /\ StaysOnLedger
  BY DEF ProbeTimesOut, Breaker!ProbeTimesOut
<1>2. s[1] \in Pays /\ pay[s[1]].pc = "running" /\ UnderWay(s[1])
  BY <1>1 DEF Awaited, Subs, UnderWay
<1>3. IInv'
  BY <1>1, <1>2, BreakerErrorKeepsIInv DEF GuardedInv
<1>4. /\ pay'[s[1]].pc # "running"
      /\ \A q \in Pays : q # s[1] => \/ pay'[q] = pay[q]
                                     \/ pay[q].pc # "running" /\ pay'[q].pc # "running"
  BY <1>1, <1>2, ErrorEndsWait DEF GuardedInv, IInv
<1>5. Active(s) /\ \A t \in Subs : Active(t)' <=> Active(t)
  BY <1>1 DEF GuardedInv, Agreement, BreakerMatchesQueue, Active
<1>6. ~Awaited(s)' /\ \A t \in Subs : t # s => (Awaited(t)' <=> Awaited(t))
  <2>1. ASSUME NEW t \in Subs, t # s PROVE Awaited(t)' <=> Awaited(t)
    <3>1. CASE t[1] = s[1]
      <4>1. t[2] # s[2]
        BY <2>1, <3>1 DEF Subs
      <4> QED
        BY <1>1, <1>4, <3>1, <4>1 DEF Awaited
    <3>2. CASE t[1] # s[1]
      BY <1>4, <3>2 DEF Awaited, Subs
    <3> QED
      BY <3>1, <3>2
  <2> QED
    BY <1>4, <2>1 DEF Awaited
<1>7. /\ call' \in [Subs -> {"idle", "normal", "probe", "timedOut"}] /\ call'[s] = "timedOut"
      /\ \A t \in Subs : t # s => call'[t] = call[t]
  BY <1>1 DEF GuardedInv, Agreement
<1>8. Agreement'
  BY <1>5, <1>6, <1>7 DEF GuardedInv, Agreement, BreakerMatchesQueue
<1> QED
  BY <1>3, <1>8 DEF GuardedInv

(* A new execution begins inside the breaker.                               *)
LEMMA AdmittedKeeps ==
    ASSUME GuardedInv, NEW p \in Pays, Admitted(p)
    PROVE  GuardedInv'
<1>0. pay[p].pc \in {"starting", "failover"} /\ BeginSub(p)
  BY DEF Admitted, Execute, Failover
<1>2. IInv'
  BY <1>0, BeginKeepsIInv DEF GuardedInv
<1>3. /\ pay' = [pay EXCEPT ![p] = [pc |-> "running", attempt |-> pay[p].attempt,
                    subs |-> pay[p].subs + 1, failovers |-> pay[p].failovers, result |-> pay[p].result]]
      /\ sub' = [sub EXCEPT ![NextSub(p)].stage = "account"]
      /\ pay \in [Pays -> PayRecords] /\ sub \in [Subs -> SubRecords]
  BY <1>0 DEF BeginSub, GuardedInv, IInv, Books, RestTyped
<1>4. /\ pay'[p].pc = "running" /\ pay'[p].subs = pay[p].subs + 1
      /\ \A q \in Pays : q # p => pay'[q] = pay[q]
  BY <1>3
<1>n. NextSub(p) \in Subs
  <2>1. pay'[p].subs \in 0 .. 2 * MaxAttempts
    BY <1>2 DEF IInv, Books, PayRecords
  <2>2. pay[p].subs \in Nat /\ MaxAttempts \in Nat
    BY <1>3, AttemptsPositive DEF PayRecords
  <2>3. pay[p].subs + 1 \in 1 .. 2 * MaxAttempts
    BY <1>4, <2>1, <2>2
  <2> QED
    BY <2>3 DEF NextSub, Subs
<1>5. PICK s \in Subs : s = NextSub(p) /\ s[1] = p /\ s[2] = pay[p].subs + 1
  BY <1>n DEF NextSub
<1>1. call' = [call EXCEPT ![s] = "probe"] \/ call' = [call EXCEPT ![s] = "normal"]
  BY <1>5 DEF Admitted, Breaker!Begin, Breaker!BeginProbe, Breaker!BeginNormal
<1>6. Active(s)' /\ Awaited(s)' /\ \A t \in Subs : t # s => (Active(t)' <=> Active(t))
  <2>1. sub'[s].stage = "account" /\ \A t \in Subs : t # s => sub'[t] = sub[t]
    BY <1>3, <1>5 DEF SubRecords
  <2> QED
    BY <1>4, <1>5, <2>1 DEF Active, Awaited
<1>7. \A t \in Subs : t # s => (Awaited(t)' <=> Awaited(t))
  <2> SUFFICES ASSUME NEW t \in Subs, t # s PROVE Awaited(t)' <=> Awaited(t)
    OBVIOUS
  <2>1. CASE t[1] = p
    <3>1. t[2] # s[2]
      BY <1>5, <2>1 DEF Subs
    <3> QED
      BY <1>0, <1>4, <1>5, <2>1, <3>1 DEF Awaited
  <2>2. CASE t[1] # p
    BY <1>4, <2>2 DEF Awaited, Subs
  <2> QED
    BY <2>1, <2>2
<1>8. /\ call' \in [Subs -> {"idle", "normal", "probe", "timedOut"}]
      /\ call'[s] \in {"normal", "probe"}
      /\ \A t \in Subs : t # s => call'[t] = call[t]
  BY <1>1, <1>5 DEF GuardedInv, Agreement
<1>9. Agreement'
  BY <1>6, <1>7, <1>8 DEF GuardedInv, Agreement, BreakerMatchesQueue
<1> QED
  BY <1>2, <1>9 DEF GuardedInv

(* What a step of _doSubmitTx does to the wait for it.                      *)
LEMMA SubStepEffect ==
    ASSUME IInv, NEW s \in Subs, SubStep(s)
    PROVE  /\ Active(s)
           /\ \A t \in Subs : t # s => sub'[t] = sub[t]
           /\ sub'[s].stage # "ended" => UNCHANGED pay /\ sub'[s].stage # "idle"
           /\ ~Awaited(s) => UNCHANGED pay
           /\ sub'[s].stage = "ended" /\ Awaited(s) =>
                 /\ pay'[s[1]].pc # "running"
                 /\ \A q \in Pays : q # s[1] => \/ pay'[q] = pay[q]
                                                \/ pay[q].pc # "running" /\ pay'[q].pc # "running"
<1> DEFINE Effect ==
           /\ Active(s)
           /\ \A t \in Subs : t # s => sub'[t] = sub[t]
           /\ sub'[s].stage # "ended" => UNCHANGED pay /\ sub'[s].stage # "idle"
           /\ ~Awaited(s) => UNCHANGED pay
           /\ sub'[s].stage = "ended" /\ Awaited(s) =>
                 /\ pay'[s[1]].pc # "running"
                 /\ \A q \in Pays : q # s[1] => \/ pay'[q] = pay[q]
                                                \/ pay[q].pc # "running" /\ pay'[q].pc # "running"
<1>0. sub \in [Subs -> SubRecords] /\ Books /\ s[1] \in Pays
  BY DEF IInv, RestTyped, Subs
<1>g. ASSUME NEW stage, GoTo(s, stage)
      PROVE  sub'[s].stage = stage /\ \A t \in Subs : t # s => sub'[t] = sub[t]
  BY <1>0, <1>g DEF GoTo, SubRecords
<1>w. Awaited(s) => UnderWay(s[1])
  BY DEF Awaited, UnderWay
<1>f. ASSUME Active(s), NEW error, SubFails(s, error) PROVE Effect
  <2>1. sub'[s].stage = "ended" /\ \A t \in Subs : t # s => sub'[t] = sub[t]
    BY <1>f, <1>g DEF SubFails
  <2>2. CASE Awaited(s)
    BY <1>0, <1>f, <1>w, <2>1, <2>2, ErrorEndsWait DEF SubFails
  <2>3. CASE ~Awaited(s)
    BY <1>f, <2>1, <2>3 DEF SubFails
  <2> QED
    BY <2>2, <2>3
<1>s. ASSUME Active(s), NEW tx, SubSucceeds(s, tx) PROVE Effect
  <2>1. sub'[s].stage = "ended" /\ \A t \in Subs : t # s => sub'[t] = sub[t]
    BY <1>s, <1>g DEF SubSucceeds
  <2>2. CASE Awaited(s)
    BY <1>0, <1>s, <1>w, <2>1, <2>2, SuccessEndsWait DEF SubSucceeds
  <2>3. CASE ~Awaited(s)
    BY <1>s, <2>1, <2>3 DEF SubSucceeds
  <2> QED
    BY <2>2, <2>3
<1>1. CASE ReadAccount(s)
  <2>1. PICK n : sub' = [sub EXCEPT ![s] = [stage |-> "prepare", seq |-> n + 1]]
    BY <1>1 DEF ReadAccount
  <2>2. sub'[s].stage = "prepare" /\ \A t \in Subs : t # s => sub'[t] = sub[t]
    BY <1>0, <2>1
  <2> QED
    BY <1>1, <2>2 DEF ReadAccount, At, Active
<1>2. CASE Prepare(s)
  BY <1>2, <1>g DEF Prepare, At, Active
<1>3. CASE SendAccepted(s) \/ SendPutOff(s)
  <2>1. Active(s) /\ UNCHANGED pay /\ (GoTo(s, "poll") \/ GoTo(s, "bumpPoll"))
    BY <1>3 DEF SendAccepted, SendPutOff, Sending, At, Active
  <2> QED
    BY <2>1, <1>g
<1>4. CASE SendAnswerLost(s)
  <2>1. Active(s) /\ SubFails(s, "transient")
    BY <1>4 DEF SendAnswerLost, Sending, At, Active
  <2> QED
    BY <2>1, <1>f
<1>5. CASE FailsBeforeSending(s)
  <2>1. Active(s) /\ \E error \in Errors : SubFails(s, error)
    BY <1>5 DEF FailsBeforeSending, Sending, At, Active
  <2> QED
    BY <2>1, <1>f
<1>6. CASE PollFinds(s)
  <2>1. Active(s) /\ (SubSucceeds(s, Polled(s)) \/ SubFails(s, "transient"))
    BY <1>6 DEF PollFinds, Polling, At, Active
  <2> QED
    BY <2>1, <1>f, <1>s
<1>7. CASE PollGivesUp(s)
  <2>1. Active(s) /\ ((GoTo(s, "bump") /\ UNCHANGED pay) \/ SubFails(s, "transient"))
    BY <1>7 DEF PollGivesUp, Polling, At, Active
  <2>2. CASE GoTo(s, "bump") /\ UNCHANGED pay
    BY <2>1, <2>2, <1>g
  <2> QED
    BY <2>1, <2>2, <1>f
<1>8. CASE PollDisconnects(s)
  <2>1. Active(s) /\ SubFails(s, "transient")
    BY <1>8 DEF PollDisconnects, Polling, At, Active
  <2> QED
    BY <2>1, <1>f
<1> QED
  BY <1>1, <1>2, <1>3, <1>4, <1>5, <1>6, <1>7, <1>8 DEF SubStep

LEMMA SubStepInBreakerKeeps ==
    ASSUME GuardedInv, NEW s \in Subs, SubStepInBreaker(s)
    PROVE  GuardedInv'
<1>1. SubStep(s) /\ Next
  BY DEF SubStepInBreaker, Next
<1>2. IInv'
  BY <1>1, NextKeepsIInv DEF GuardedInv
<1>3. /\ Active(s)
      /\ \A t \in Subs : t # s => sub'[t] = sub[t]
      /\ sub'[s].stage # "ended" => UNCHANGED pay /\ sub'[s].stage # "idle"
      /\ ~Awaited(s) => UNCHANGED pay
      /\ sub'[s].stage = "ended" /\ Awaited(s) =>
            /\ pay'[s[1]].pc # "running"
            /\ \A q \in Pays : q # s[1] => \/ pay'[q] = pay[q]
                                           \/ pay[q].pc # "running" /\ pay'[q].pc # "running"
  BY <1>1, SubStepEffect DEF GuardedInv
<1>4. \A t \in Subs : t # s => (Active(t)' <=> Active(t))
  BY <1>3 DEF Active
<1>5. CASE sub'[s].stage # "ended"
  <2>1. UNCHANGED <<pay, call>> /\ Active(s)'
    BY <1>3, <1>5 DEF SubStepInBreaker, breakerVars, Active
  <2>2. \A t \in Subs : Awaited(t)' <=> Awaited(t)
    BY <2>1 DEF Awaited
  <2>3. Agreement'
    BY <1>3, <1>4, <2>1, <2>2, SameAwaited DEF GuardedInv
  <2> QED
    BY <1>2, <2>3 DEF GuardedInv
<1>6. CASE sub'[s].stage = "ended"
  <2>1. call' = [call EXCEPT ![s] = "idle"]
    BY <1>6 DEF SubStepInBreaker, Breaker!AbandonedEnds, Breaker!NormalSucceeds,
                Breaker!ProbeSucceeds, Breaker!NormalFails, Breaker!ProbeFails
  <2>2. /\ call' \in [Subs -> {"idle", "normal", "probe", "timedOut"}] /\ call'[s] = "idle"
        /\ \A t \in Subs : t # s => call'[t] = call[t]
    BY <2>1 DEF GuardedInv, Agreement
  <2>3. ~Active(s)'
    BY <1>6 DEF Active
  <2>4. \A t \in Subs : t # s => (Awaited(t)' <=> Awaited(t))
    <3> SUFFICES ASSUME NEW t \in Subs, t # s PROVE Awaited(t)' <=> Awaited(t)
      OBVIOUS
    <3>1. CASE ~Awaited(s)
      BY <1>3, <3>1 DEF Awaited
    <3>2. CASE Awaited(s) /\ t[1] = s[1]
      <4>1. t[2] # s[2]
        BY <3>2 DEF Subs
      <4> QED
        BY <1>3, <1>6, <3>2, <4>1 DEF Awaited
    <3>3. CASE Awaited(s) /\ t[1] # s[1]
      BY <1>3, <1>6, <3>3 DEF Awaited, Subs
    <3> QED
      BY <3>1, <3>2, <3>3
  <2>5. Agreement'
    BY <1>4, <2>2, <2>3, <2>4 DEF GuardedInv, Agreement, BreakerMatchesQueue
  <2> QED
    BY <1>2, <2>5 DEF GuardedInv
<1> QED
  BY <1>5, <1>6

LEMMA UnguardedKeeps ==
    ASSUME GuardedInv, Unguarded
    PROVE  GuardedInv'
<1>1. Next /\ UNCHANGED <<sub, call>>
  <2>1. UNCHANGED call
    BY DEF Unguarded, breakerVars
  <2>2. Next
    BY DEF Unguarded, Next, PayStep
  <2>3. UNCHANGED sub
    BY DEF Unguarded, Pay, Retry, Hit, ReturnHit, Shutdown, Environment, Land, ForeignTx,
           ExpireKey, clientVars
  <2> QED
    BY <2>1, <2>2, <2>3
<1>2. IInv'
  BY <1>1, NextKeepsIInv DEF GuardedInv
<1>3. \A q \in Pays : \/ pay'[q] = pay[q]
                      \/ pay[q].pc # "running" /\ pay'[q].pc # "running"
  <2>0. Books /\ pay \in [Pays -> PayRecords]
    BY DEF GuardedInv, IInv, Books
  <2>1. ASSUME NEW p \in Pays, Pay(p) \/ Retry(p)
        PROVE  /\ pay[p].pc # "running" /\ pay'[p].pc # "running"
               /\ \A q \in Pays : q # p => pay'[q] = pay[q]
    BY <2>0, <2>1 DEF Pay, Retry, Enqueue, PayRecords
  <2>2. ASSUME NEW p \in Pays, Hit(p)
        PROVE  /\ pay[p].pc # "running" /\ pay'[p].pc # "running"
               /\ \A q \in Pays : q # p => pay'[q] = pay[q]
    BY <2>0, <2>2 DEF Hit, PayRecords
  <2>3. ASSUME NEW p \in Pays, ReturnHit(p)
        PROVE  /\ pay[p].pc # "running" /\ pay'[p].pc # "running"
               /\ \A q \in Pays : q # p => \/ pay'[q] = pay[q]
                                           \/ pay[q].pc # "running" /\ pay'[q].pc # "running"
    <3>1. UnderWay(p) /\ JobResolves(p, pay[p].result) /\ pay[p].pc = "hit"
      BY <2>3 DEF ReturnHit, UnderWay
    <3> QED
      BY <2>0, <3>1, SuccessEndsWait
  <2>4. CASE Shutdown \/ Environment
    BY <2>4 DEF Shutdown, Environment, Land, ForeignTx, ExpireKey, clientVars
  <2> QED
    BY <2>1, <2>2, <2>3, <2>4 DEF Unguarded
<1> QED
  BY <1>1, <1>2, <1>3, NotRunning, SameAwaited DEF GuardedInv

LEMMA GuardedStepKeeps == GuardedInv /\ [GuardedNext]_guardedVars => GuardedInv'
<1> SUFFICES ASSUME GuardedInv, [GuardedNext]_guardedVars PROVE GuardedInv'
  OBVIOUS
<1>1. ASSUME UNCHANGED <<vars, call>> PROVE GuardedInv'
  <2>1. IInv'
    BY <1>1, NextKeepsIInv DEF GuardedInv
  <2>2. \A s \in Subs : (Awaited(s)' <=> Awaited(s)) /\ (Active(s)' <=> Active(s))
    BY <1>1 DEF vars, Awaited, Active
  <2> QED
    BY <1>1, <2>1, <2>2, SameAwaited DEF GuardedInv
<1>2. CASE Breaker!Cool /\ UNCHANGED vars
  BY <1>1, <1>2 DEF Breaker!Cool
<1>3. CASE UNCHANGED guardedVars
  BY <1>1, <1>3 DEF guardedVars, breakerVars
<1> QED
  BY <1>2, <1>3, RefusedKeeps, ProbeTimesOutKeeps, AdmittedKeeps, SubStepInBreakerKeeps,
     UnguardedKeeps DEF GuardedNext

(* The call the breaker is inside of is the submission the queue's job      *)
(* awaits, and a submission the breaker gave up on is awaited by nobody,    *)
(* whenever a probe times out, a call is refused or an answer comes late.   *)
THEOREM BreakerAlwaysMatchesQueue == GuardedSpec => []BreakerMatchesQueue
<1>1. GuardedInit => GuardedInv
  <2> SUFFICES ASSUME GuardedInit PROVE GuardedInv
    OBVIOUS
  <2>1. IInv
    BY InitEstablishesIInv DEF GuardedInit
  <2> QED
    BY <2>1 DEF GuardedInit, Init, Breaker!Init, GuardedInv, Agreement, BreakerMatchesQueue,
                Active
<1>2. GuardedInv => BreakerMatchesQueue
  BY DEF GuardedInv, Agreement
<1> QED
  BY <1>1, <1>2, GuardedStepKeeps, PTL DEF GuardedSpec

-----------------------------------------------------------------------------
(* Allocation of amounts.                                                   *)

(* What holds of no elements, and of one element more, holds of them all.   *)
LEMMA SetsGrow ==
    ASSUME NEW S, IsFiniteSet(S), NEW P, {} \in P,
           \A T \in SUBSET S, x \in S : T \in P /\ x \notin T => T \cup {x} \in P
    PROVE  S \in P
<1> DEFINE N == {n \in Nat : \A T \in SUBSET S : Cardinality(T) = n => T \in P}
<1>1. 0 \in N
  BY FS_Subset, FS_EmptySet
<1>2. ASSUME NEW n \in N PROVE n + 1 \in N
  <2> SUFFICES ASSUME NEW T \in SUBSET S, Cardinality(T) = n + 1 PROVE T \in P
    OBVIOUS
  <2>0. n \in Nat /\ IsFiniteSet(T)
    BY <1>2, FS_Subset
  <2>1. T # {}
    BY <2>0, FS_EmptySet
  <2>2. PICK x \in T : TRUE
    BY <2>1
  <2>3. Cardinality(T \ {x}) = n
    <3>1. Cardinality(T \ {x}) = Cardinality(T) - 1
      BY <2>0, FS_RemoveElement
    <3> QED
      BY <2>0, <3>1
  <2>4. T \ {x} \in P /\ T \ {x} \in SUBSET S /\ x \in S /\ x \notin T \ {x}
    BY <1>2, <2>3
  <2>5. (T \ {x}) \cup {x} \in P
    BY <2>4
  <2>6. (T \ {x}) \cup {x} = T
    OBVIOUS
  <2> QED
    BY <2>5, <2>6
<1>3. Cardinality(S) \in N
  <2>1. Cardinality(S) \in Nat /\ N \in SUBSET Nat
    BY FS_CardinalityType
  <2> HIDE DEF N
  <2> QED
    BY <1>1, <1>2, <2>1, AllNaturals
<1> QED
  BY <1>3

(* Sums.  A sum over S comes with the sums over its subsets.                *)
Chosen(T) == CHOOSE x \in T : TRUE

Sums(f, a, S) ==
    f = [T \in SUBSET S |-> IF T = {} THEN 0 ELSE a[Chosen(T)] + f[T \ {Chosen(T)}]]

LEMMA ChosenIs ==
    ASSUME NEW T, IsFiniteSet(T), T # {}
    PROVE  /\ Chosen(T) \in T /\ IsFiniteSet(T \ {Chosen(T)})
           /\ Cardinality(T \ {Chosen(T)}) = Cardinality(T) - 1
           /\ Cardinality(T) \in Nat \ {0} /\ Cardinality(T \ {Chosen(T)}) \in Nat
<1>1. Chosen(T) \in T
  BY DEF Chosen
<1> QED
  BY <1>1, FS_RemoveElement, FS_EmptySet, FS_CardinalityType

LEMMA SumsAgree ==
    ASSUME NEW a, NEW S, IsFiniteSet(S), NEW T \in SUBSET S,
           NEW f, NEW g, Sums(f, a, S), Sums(g, a, T)
    PROVE  \A U \in SUBSET T : f[U] = g[U]
<1> DEFINE N == {n \in Nat : \A U \in SUBSET T : Cardinality(U) = n => f[U] = g[U]}
<1>1. \A U \in SUBSET T : /\ IsFiniteSet(U)
                          /\ f[U] = IF U = {} THEN 0 ELSE a[Chosen(U)] + f[U \ {Chosen(U)}]
                          /\ g[U] = IF U = {} THEN 0 ELSE a[Chosen(U)] + g[U \ {Chosen(U)}]
  BY FS_Subset DEF Sums
<1>2. 0 \in N
  BY <1>1, FS_EmptySet
<1>3. ASSUME NEW n \in N PROVE n + 1 \in N
  <2> SUFFICES ASSUME NEW U \in SUBSET T, Cardinality(U) = n + 1 PROVE f[U] = g[U]
    OBVIOUS
  <2>0. n \in Nat /\ IsFiniteSet(U)
    BY <1>1, <1>3
  <2>1. U # {}
    BY <2>0, FS_EmptySet
  <2>2. Cardinality(U \ {Chosen(U)}) = n /\ U \ {Chosen(U)} \in SUBSET T
    <3>1. Cardinality(U \ {Chosen(U)}) = Cardinality(U) - 1
      BY <2>0, <2>1, ChosenIs
    <3> QED
      BY <2>0, <3>1
  <2>3. f[U \ {Chosen(U)}] = g[U \ {Chosen(U)}]
    BY <1>3, <2>2
  <2> QED
    BY <1>1, <2>1, <2>3
<1>4. \A n \in Nat : n \in N
  <2>1. N \in SUBSET Nat
    OBVIOUS
  <2> HIDE DEF N
  <2> QED
    BY <1>2, <1>3, <2>1, AllNaturals
<1> QED
  BY <1>1, <1>4, FS_CardinalityType

LEMMA SumsExist ==
    ASSUME NEW D, NEW a \in [D -> Int], NEW S \in SUBSET D, IsFiniteSet(S)
    PROVE  \E f : Sums(f, a, S) /\ f \in [SUBSET S -> Int]
<1> DEFINE Upto(k) == {T \in SUBSET S : Cardinality(T) <= k}
           Solves(f, k) == \A T \in Upto(k) :
                              f[T] = IF T = {} THEN 0 ELSE a[Chosen(T)] + f[T \ {Chosen(T)}]
           N == {k \in Nat : \E f \in [Upto(k) -> Int] : Solves(f, k)}
<1>1. \A T \in SUBSET S : IsFiniteSet(T) /\ Cardinality(T) \in Nat /\ (Cardinality(T) = 0 <=> T = {})
  BY FS_Subset, FS_CardinalityType, FS_EmptySet
<1>2. 0 \in N
  <2> DEFINE f == [T \in Upto(0) |-> 0]
  <2>1. f \in [Upto(0) -> Int] /\ \A T \in Upto(0) : f[T] = 0
    OBVIOUS
  <2>2. \A T \in Upto(0) : T = {}
    BY <1>1
  <2>3. Solves(f, 0)
    BY <2>1, <2>2
  <2> QED
    BY <2>1, <2>3
<1>3. ASSUME NEW k \in N PROVE k + 1 \in N
  <2>1. PICK f \in [Upto(k) -> Int] : Solves(f, k)
    BY <1>3
  <2> DEFINE g == [T \in Upto(k + 1) |-> IF T \in Upto(k) THEN f[T] ELSE a[Chosen(T)] + f[T \ {Chosen(T)}]]
  <2>2. k \in Nat
    BY <1>3
  <2>3. ASSUME NEW T \in Upto(k + 1), T # {}
        PROVE  /\ Chosen(T) \in T /\ a[Chosen(T)] \in Int /\ T \ {Chosen(T)} \in Upto(k)
               /\ f[T \ {Chosen(T)}] \in Int
    <3>1. Chosen(T) \in T /\ Cardinality(T \ {Chosen(T)}) = Cardinality(T) - 1 /\ T \in SUBSET S
      BY <1>1, <2>3, ChosenIs
    <3>2. Cardinality(T \ {Chosen(T)}) <= k
      BY <1>1, <2>2, <3>1
    <3>3. T \ {Chosen(T)} \in Upto(k)
      BY <3>1, <3>2
    <3>4. a[Chosen(T)] \in Int
      BY <3>1
    <3> HIDE DEF Upto
    <3> QED
      BY <3>1, <3>3, <3>4
  <2>4. \A T \in Upto(k) : T \in Upto(k + 1) /\ f[T] \in Int
    BY <1>1, <2>2
  <2>5. \A T \in Upto(k + 1) : T \notin Upto(k) => T # {}
    BY <1>1, <2>2
  <2> HIDE DEF Upto
  <2>6. g \in [Upto(k + 1) -> Int]
    BY <2>3, <2>4, <2>5
  <2>7. ASSUME NEW T \in Upto(k + 1) PROVE g[T] = IF T = {} THEN 0 ELSE a[Chosen(T)] + g[T \ {Chosen(T)}]
    <3>1. CASE T \in Upto(k)
      <4>1. g[T] = f[T]
        BY <3>1
      <4>2. T # {} => g[T \ {Chosen(T)}] = f[T \ {Chosen(T)}]
        BY <2>3, <2>4
      <4> QED
        BY <2>1, <3>1, <4>1, <4>2
    <3>2. CASE T \notin Upto(k)
      <4>1. T # {} /\ g[T] = a[Chosen(T)] + f[T \ {Chosen(T)}]
        BY <2>5, <3>2
      <4>2. g[T \ {Chosen(T)}] = f[T \ {Chosen(T)}]
        BY <2>3, <2>4, <4>1
      <4> QED
        BY <4>1, <4>2
    <3> QED
      BY <3>1, <3>2
  <2> HIDE DEF g
  <2>8. g \in [Upto(k + 1) -> Int] /\ Solves(g, k + 1)
    BY <2>6, <2>7
  <2> HIDE DEF Solves
  <2>9. \E f_1 \in [Upto(k + 1) -> Int] : Solves(f_1, k + 1)
    BY <2>8
  <2>10. k + 1 \in Nat
    BY <2>2
  <2> QED
    BY <2>9, <2>10
<1>4. Cardinality(S) \in N
  <2>1. N \in SUBSET Nat /\ Cardinality(S) \in Nat
    BY <1>1
  <2> HIDE DEF N
  <2> QED
    BY <1>2, <1>3, <2>1, AllNaturals
<1>5. Upto(Cardinality(S)) = SUBSET S
  BY FS_Subset
<1>6. PICK f \in [SUBSET S -> Int] :
         \A T \in SUBSET S : f[T] = IF T = {} THEN 0 ELSE a[Chosen(T)] + f[T \ {Chosen(T)}]
  <2> HIDE DEF Upto
  <2> QED
    BY <1>4, <1>5
<1>7. f = [T \in SUBSET S |-> IF T = {} THEN 0 ELSE a[Chosen(T)] + f[T \ {Chosen(T)}]]
  BY <1>6
<1> QED
  BY <1>6, <1>7 DEF Sums

LEMMA TotalIs ==
    ASSUME NEW D, NEW a \in [D -> Int], NEW S \in SUBSET D, IsFiniteSet(S)
    PROVE  /\ Total(a, S) \in Int
           /\ Total(a, S) = IF S = {} THEN 0 ELSE a[Chosen(S)] + Total(a, S \ {Chosen(S)})
<1>1. ASSUME NEW T \in SUBSET S
      PROVE  \E f : Sums(f, a, T) /\ Total(a, T) = f[T]
  <2> DEFINE iter == CHOOSE f : Sums(f, a, T)
  <2>1. Total(a, T) = iter[T]
    BY DEF Total, MapThenSumSet, MapThenFoldSet, Sums, Chosen
  <2>2. \E f : Sums(f, a, T)
    <3>1. T \in SUBSET D /\ IsFiniteSet(T)
      BY FS_Subset
    <3> QED
      BY <3>1, SumsExist
  <2>3. Sums(iter, a, T)
    BY <2>2
  <2> QED
    BY <2>1, <2>3
<1>2. PICK f : Sums(f, a, S) /\ f \in [SUBSET S -> Int]
  BY SumsExist
<1>3. \A T \in SUBSET S : Total(a, T) = f[T]
  <2> TAKE T \in SUBSET S
  <2>1. PICK g : Sums(g, a, T) /\ Total(a, T) = g[T]
    BY <1>1
  <2> QED
    BY <1>2, <2>1, SumsAgree
<1>4. f[S] = IF S = {} THEN 0 ELSE a[Chosen(S)] + f[S \ {Chosen(S)}]
  BY <1>2 DEF Sums
<1> QED
  BY <1>2, <1>3, <1>4

LEMMA TotalSplits ==
    ASSUME NEW D, NEW a \in [D -> Int], NEW S \in SUBSET D, IsFiniteSet(S), NEW x \in S
    PROVE  /\ Total(a, S) \in Int /\ Total(a, S \ {x}) \in Int /\ a[x] \in Int
           /\ Total(a, S) = a[x] + Total(a, S \ {x})
<1> DEFINE Whole(T) == \A y \in T : Total(a, T) = a[y] + Total(a, T \ {y})
           N == {n \in Nat : \A T \in SUBSET S : Cardinality(T) = n => Whole(T)}
<1>1. \A T \in SUBSET S : /\ IsFiniteSet(T) /\ Cardinality(T) \in Nat /\ T \in SUBSET D
                          /\ Total(a, T) \in Int
                          /\ Total(a, T) = IF T = {} THEN 0 ELSE a[Chosen(T)] + Total(a, T \ {Chosen(T)})
  <2> SUFFICES ASSUME NEW T \in SUBSET S
               PROVE  /\ IsFiniteSet(T) /\ Cardinality(T) \in Nat /\ T \in SUBSET D
                      /\ Total(a, T) \in Int
                      /\ Total(a, T) = IF T = {} THEN 0 ELSE a[Chosen(T)] + Total(a, T \ {Chosen(T)})
    OBVIOUS
  <2>1. IsFiniteSet(T) /\ Cardinality(T) \in Nat /\ T \in SUBSET D
    BY FS_Subset, FS_CardinalityType
  <2> QED
    BY <2>1, TotalIs
<1>2. 0 \in N
  <2> SUFFICES ASSUME NEW T \in SUBSET S, Cardinality(T) = 0, NEW y \in T PROVE FALSE
    OBVIOUS
  <2> QED
    BY <1>1, FS_EmptySet
<1>3. ASSUME NEW n \in N PROVE n + 1 \in N
  <2> SUFFICES ASSUME NEW T \in SUBSET S, Cardinality(T) = n + 1, NEW y \in T
               PROVE  Total(a, T) = a[y] + Total(a, T \ {y})
    OBVIOUS
  <2> DEFINE c == Chosen(T)
             rest == T \ {c}
             others == T \ {y}
  <2>0. n \in Nat /\ IsFiniteSet(T) /\ T # {}
    BY <1>1, <1>3
  <2>1. c \in T /\ Total(a, T) = a[c] + Total(a, rest)
    BY <1>1, <2>0, ChosenIs
  <2>2. CASE c = y
    BY <2>1, <2>2
  <2>3. CASE c # y
    <3>1. /\ rest \in SUBSET S /\ others \in SUBSET S /\ y \in rest /\ c \in others
          /\ rest \ {y} = others \ {c}
      BY <2>1, <2>3
    <3>2. Cardinality(rest) = n /\ Cardinality(others) = n
      <4>1. Cardinality(rest) = Cardinality(T) - 1
        BY <2>0, <2>1, FS_RemoveElement
      <4>2. Cardinality(others) = Cardinality(T) - 1
        BY <2>0, FS_RemoveElement
      <4>3. Cardinality(T) - 1 = n
        BY <2>0
      <4> QED
        BY <4>1, <4>2, <4>3
    <3>3. Total(a, rest) = a[y] + Total(a, rest \ {y}) /\ Total(a, others) = a[c] + Total(a, others \ {c})
      BY <1>3, <3>1, <3>2
    <3>4. rest \ {y} \in SUBSET S /\ a[c] \in Int /\ a[y] \in Int
      BY <2>1
    <3>5. Total(a, rest \ {y}) \in Int
      BY <1>1, <3>4
    <3>6. Total(a, others) = a[c] + Total(a, rest \ {y})
      BY <3>1, <3>3
    <3>7. Total(a, T) = a[c] + (a[y] + Total(a, rest \ {y}))
      BY <2>1, <3>3
    <3> HIDE DEF rest, others, c
    <3> QED
      BY <3>4, <3>5, <3>6, <3>7 DEF others
  <2> QED
    BY <2>2, <2>3
<1>4. \A n \in Nat : n \in N
  <2>1. N \in SUBSET Nat
    OBVIOUS
  <2> HIDE DEF N
  <2> QED
    BY <1>2, <1>3, <2>1, AllNaturals
<1>5. Whole(S)
  BY <1>1, <1>4
<1>6. S \ {x} \in SUBSET S /\ a[x] \in Int
  OBVIOUS
<1> QED
  BY <1>1, <1>5, <1>6

Grown(a, T, x) ==
    /\ Total(a, T \cup {x}) = a[x] + Total(a, T)
    /\ a[x] \in Int /\ Total(a, T) \in Int /\ Total(a, T \cup {x}) \in Int

LEMMA TotalGrows ==
    ASSUME NEW D, NEW a \in [D -> Int], NEW T \in SUBSET D, IsFiniteSet(T), NEW x \in D, x \notin T
    PROVE  Grown(a, T, x)
<1>1. IsFiniteSet(T \cup {x}) /\ T \cup {x} \in SUBSET D /\ x \in T \cup {x}
  BY FS_AddElement
<1>2. (T \cup {x}) \ {x} = T
  OBVIOUS
<1> QED
  BY <1>1, <1>2, TotalSplits DEF Grown

LEMMA TotalOfNone ==
    ASSUME NEW D, NEW a \in [D -> Int]
    PROVE  Total(a, {}) = 0
  BY FS_EmptySet, TotalIs

LEMMA TotalIsInt ==
    ASSUME NEW D, NEW a \in [D -> Int], NEW S \in SUBSET D, IsFiniteSet(S)
    PROVE  Total(a, S) \in Int
  BY TotalIs

Added(c, a, b, S) == Total(c, S) = Total(a, S) + Total(b, S)

LEMMA TotalAdds ==
    ASSUME NEW D, NEW a \in [D -> Int], NEW b \in [D -> Int], NEW c \in [D -> Int],
           NEW S \in SUBSET D, IsFiniteSet(S), \A i \in S : c[i] = a[i] + b[i]
    PROVE  Added(c, a, b, S)
<1> DEFINE P == {T \in SUBSET S : Total(c, T) = Total(a, T) + Total(b, T)}
<1>1. {} \in P
  BY TotalOfNone
<1>2. ASSUME NEW T \in SUBSET S, NEW x \in S, T \in P, x \notin T PROVE T \cup {x} \in P
  <2>0. x \notin T
    BY <1>2
  <2>1. IsFiniteSet(T) /\ T \in SUBSET D /\ x \in D
    BY FS_Subset
  <2>2. Grown(a, T, x)
    BY <2>0, <2>1, TotalGrows
  <2>b. Grown(b, T, x)
    BY <2>0, <2>1, TotalGrows
  <2>c. Grown(c, T, x)
    BY <2>0, <2>1, TotalGrows
  <2>3. Total(c, T) = Total(a, T) + Total(b, T) /\ c[x] = a[x] + b[x]
    BY <1>2
  <2> QED
    BY <2>2, <2>b, <2>c, <2>3 DEF Grown
<1> HIDE DEF P
<1>3. S \in P
  BY <1>1, <1>2, SetsGrow
<1> QED
  BY <1>3 DEF P, Added

LEMMA TotalSame ==
    ASSUME NEW D, NEW a \in [D -> Int], NEW E, NEW b \in [E -> Int],
           NEW S \in SUBSET (D \cap E), IsFiniteSet(S), \A i \in S : a[i] = b[i]
    PROVE  Total(a, S) = Total(b, S)
<1> DEFINE P == {T \in SUBSET S : Total(a, T) = Total(b, T)}
<1>1. {} \in P
  BY TotalOfNone
<1>2. ASSUME NEW T \in SUBSET S, NEW x \in S, T \in P, x \notin T PROVE T \cup {x} \in P
  <2>0. x \notin T
    BY <1>2
  <2>1. IsFiniteSet(T) /\ T \in SUBSET D /\ x \in D /\ T \in SUBSET E /\ x \in E
    BY FS_Subset
  <2>2. Grown(a, T, x)
    BY <2>0, <2>1, TotalGrows
  <2>2b. Grown(b, T, x)
    BY <2>0, <2>1, TotalGrows
  <2>3. Total(a, T) = Total(b, T) /\ a[x] = b[x]
    BY <1>2
  <2> QED
    BY <2>2, <2>2b, <2>3 DEF Grown
<1> HIDE DEF P
<1>3. S \in P
  BY <1>1, <1>2, SetsGrow
<1> QED
  BY <1>3 DEF P

LEMMA TotalAtMost ==
    ASSUME NEW D, NEW a \in [D -> Int], NEW b \in [D -> Int],
           NEW S \in SUBSET D, IsFiniteSet(S), \A i \in S : a[i] <= b[i]
    PROVE  Total(a, S) <= Total(b, S)
<1> DEFINE P == {T \in SUBSET S : Total(a, T) <= Total(b, T)}
<1>1. {} \in P
  BY TotalOfNone
<1>2. ASSUME NEW T \in SUBSET S, NEW x \in S, T \in P, x \notin T PROVE T \cup {x} \in P
  <2>0. x \notin T
    BY <1>2
  <2>1. IsFiniteSet(T) /\ T \in SUBSET D /\ x \in D
    BY FS_Subset
  <2>2. Grown(a, T, x)
    BY <2>0, <2>1, TotalGrows
  <2>b. Grown(b, T, x)
    BY <2>0, <2>1, TotalGrows
  <2>3. Total(a, T) <= Total(b, T) /\ a[x] <= b[x]
    BY <1>2
  <2> QED
    BY <2>2, <2>b, <2>3 DEF Grown
<1> HIDE DEF P
<1>3. S \in P
  BY <1>1, <1>2, SetsGrow
<1> QED
  BY <1>3 DEF P

Scaled(c, k, a, S) == Total(c, S) = k * Total(a, S)

LEMMA TotalScales ==
    ASSUME NEW D, NEW a \in [D -> Int], NEW c \in [D -> Int], NEW k \in Int,
           NEW S \in SUBSET D, IsFiniteSet(S), \A i \in S : c[i] = k * a[i]
    PROVE  Scaled(c, k, a, S)
<1> DEFINE P == {T \in SUBSET S : Total(c, T) = k * Total(a, T)}
<1>1. {} \in P
  BY TotalOfNone
<1>2. ASSUME NEW T \in SUBSET S, NEW x \in S, T \in P, x \notin T PROVE T \cup {x} \in P
  <2>0. x \notin T
    BY <1>2
  <2>1. IsFiniteSet(T) /\ T \in SUBSET D /\ x \in D
    BY FS_Subset
  <2>2. Grown(a, T, x)
    BY <2>0, <2>1, TotalGrows
  <2>2b. Grown(c, T, x)
    BY <2>0, <2>1, TotalGrows
  <2>3. Total(c, T) = k * Total(a, T) /\ c[x] = k * a[x]
    BY <1>2
  <2>4. \A u, v \in Int : k * (u + v) = k * u + k * v
    OBVIOUS
  <2> QED
    BY <2>2, <2>2b, <2>3, <2>4 DEF Grown
<1> HIDE DEF P
<1>3. S \in P
  BY <1>1, <1>2, SetsGrow
<1> QED
  BY <1>3 DEF P, Scaled

LEMMA TotalOfPart ==
    ASSUME NEW D, NEW a \in [D -> Int], NEW S \in SUBSET D, IsFiniteSet(S), NEW U \in SUBSET S,
           \A i \in S \ U : a[i] = 0
    PROVE  Total(a, S) = Total(a, U)
<1> DEFINE P == {T \in SUBSET S : Total(a, T) = Total(a, T \cap U)}
<1>1. {} \in P
  <2>1. {} \cap U = {}
    OBVIOUS
  <2> QED
    BY <2>1
<1>2. ASSUME NEW T \in SUBSET S, NEW x \in S, T \in P, x \notin T PROVE T \cup {x} \in P
  <2>0. x \notin T
    BY <1>2
  <2>1. /\ IsFiniteSet(T) /\ T \in SUBSET D /\ x \in D
        /\ IsFiniteSet(T \cap U) /\ T \cap U \in SUBSET D
    BY FS_Subset
  <2>2. Grown(a, T, x)
    BY <2>0, <2>1, TotalGrows
  <2>2b. Grown(a, T \cap U, x)
    BY <2>0, <2>1, TotalGrows
  <2>3. Total(a, T) = Total(a, T \cap U)
    BY <1>2
  <2>4. CASE x \in U
    <3>1. (T \cup {x}) \cap U = (T \cap U) \cup {x}
      BY <2>4
    <3> QED
      BY <2>2, <2>2b, <2>3, <3>1 DEF Grown
  <2>5. CASE x \notin U
    <3>1. (T \cup {x}) \cap U = T \cap U /\ a[x] = 0
      BY <2>0, <2>5
    <3>2. Total(a, T \cup {x}) = Total(a, T)
      BY <2>2, <3>1 DEF Grown
    <3> QED
      BY <2>3, <3>1, <3>2
  <2> QED
    BY <2>4, <2>5
<1> HIDE DEF P
<1>3. S \in P
  BY <1>1, <1>2, SetsGrow
<1>4. S \cap U = U
  OBVIOUS
<1> QED
  BY <1>3, <1>4 DEF P

LEMMA TotalCounts ==
    ASSUME NEW D, NEW a \in [D -> Int], NEW S \in SUBSET D, IsFiniteSet(S), \A i \in S : a[i] = 1
    PROVE  Total(a, S) = Cardinality(S)
<1> DEFINE P == {T \in SUBSET S : Total(a, T) = Cardinality(T)}
<1>1. {} \in P
  BY TotalOfNone, FS_EmptySet
<1>2. ASSUME NEW T \in SUBSET S, NEW x \in S, T \in P, x \notin T PROVE T \cup {x} \in P
  <2>0. x \notin T
    BY <1>2
  <2>1. /\ IsFiniteSet(T) /\ T \in SUBSET D /\ x \in D /\ Cardinality(T) \in Nat
        /\ Cardinality(T \cup {x}) = Cardinality(T) + 1
    BY <1>2, FS_Subset, FS_AddElement, FS_CardinalityType
  <2>2. Grown(a, T, x)
    BY <2>0, <2>1, TotalGrows
  <2>3. Total(a, T) = Cardinality(T) /\ a[x] = 1
    BY <1>2
  <2> QED
    BY <2>1, <2>2, <2>3 DEF Grown
<1> HIDE DEF P
<1>3. S \in P
  BY <1>1, <1>2, SetsGrow
<1> QED
  BY <1>3 DEF P

LEMMA Dividing ==
    ASSUME NEW n \in Nat, NEW d \in Nat \ {0}
    PROVE  /\ n \div d \in Nat /\ n % d \in 0 .. d - 1
           /\ n = (n \div d) * d + (n % d) /\ (n \div d) * d <= n /\ n < (n \div d) * d + d
<1>1. n \div d \in Nat
  OBVIOUS
<1>2. n % d \in 0 .. d - 1
  OBVIOUS
<1>3. n % d = n - (n \div d) * d
  BY Z3
<1> DEFINE q == n \div d
           m == n % d
           p == q * d
<1>4. p \in Int /\ m = n - p /\ m \in 0 .. d - 1 /\ n \in Nat /\ d \in Nat
  BY <1>1, <1>2, <1>3
<1> HIDE DEF p, m
<1>5. n = p + m /\ p <= n /\ n < p + d
  BY <1>4
<1> QED
  BY <1>1, <1>2, <1>5 DEF p, m, q

LEMMA Cancelling ==
    ASSUME NEW x \in Int, NEW y \in Int, NEW d \in Nat \ {0}
    PROVE  /\ x * d <= y * d <=> x <= y
           /\ x * d < y * d <=> x < y
  OBVIOUS

(* Ranks.  Of a finite set under a strict total order, as many elements as  *)
(* there are ranks below n have a rank below n.                             *)
StrictOrder(R, S) ==
    /\ \A x \in S : <<x, x>> \notin R
    /\ \A x, y, z \in S : <<x, y>> \in R /\ <<y, z>> \in R => <<x, z>> \in R
    /\ \A x, y \in S : x # y => <<x, y>> \in R \/ <<y, x>> \in R

Rank(R, S, x) == Cardinality({y \in S : <<y, x>> \in R})

LEMMA Ranks ==
    ASSUME NEW S, IsFiniteSet(S), NEW R, StrictOrder(R, S)
    PROVE  /\ \A x \in S : Rank(R, S, x) \in 0 .. Cardinality(S) - 1
           /\ \A x, y \in S : Rank(R, S, x) = Rank(R, S, y) => x = y
           /\ \A x, y \in S : <<x, y>> \in R <=> Rank(R, S, x) < Rank(R, S, y)
<1> DEFINE ahead(x) == {y \in S : <<y, x>> \in R}
<1>1. \A x \in S : IsFiniteSet(ahead(x)) /\ Cardinality(ahead(x)) \in Nat
  <2> TAKE x \in S
  <2>1. ahead(x) \in SUBSET S
    OBVIOUS
  <2> QED
    BY <2>1, FS_Subset, FS_CardinalityType
<1>2. ASSUME NEW T, IsFiniteSet(T), NEW U \in SUBSET T, NEW z \in T, z \notin U
      PROVE  Cardinality(U) < Cardinality(T)
  <2>1. Cardinality(U) <= Cardinality(T) /\ (Cardinality(U) = Cardinality(T) => U = T)
    BY <1>2, FS_Subset
  <2>2. Cardinality(U) \in Nat /\ Cardinality(T) \in Nat /\ U # T
    BY <1>2, FS_Subset, FS_CardinalityType
  <2> QED
    BY <2>1, <2>2
<1>3. ASSUME NEW x \in S PROVE Cardinality(ahead(x)) < Cardinality(S)
  <2>1. ahead(x) \in SUBSET S /\ x \notin ahead(x)
    BY DEF StrictOrder
  <2> HIDE DEF ahead
  <2> QED
    BY <1>2, <2>1
<1>4. ASSUME NEW x \in S, NEW y \in S, <<x, y>> \in R
      PROVE  Cardinality(ahead(x)) < Cardinality(ahead(y))
  <2>1. ahead(x) \in SUBSET ahead(y) /\ x \in ahead(y) /\ x \notin ahead(x)
    BY <1>4 DEF StrictOrder
  <2>2. IsFiniteSet(ahead(y))
    BY <1>1
  <2> HIDE DEF ahead
  <2> QED
    BY <1>2, <2>1, <2>2
<1>5. ASSUME NEW x \in S, NEW y \in S, Rank(R, S, x) = Rank(R, S, y) PROVE x = y
  <2>1. <<x, y>> \notin R /\ <<y, x>> \notin R
    <3>1. Cardinality(ahead(x)) = Cardinality(ahead(y)) /\ Cardinality(ahead(x)) \in Nat
      BY <1>1, <1>5 DEF Rank
    <3> HIDE DEF ahead
    <3> QED
      BY <1>4, <3>1
  <2> QED
    BY <2>1 DEF StrictOrder
<1>6. Cardinality(S) \in Nat
  BY FS_CardinalityType
<1>7. \A x \in S : Rank(R, S, x) = Cardinality(ahead(x))
  BY DEF Rank
<1> HIDE DEF ahead
<1>8. \A x \in S : Rank(R, S, x) \in 0 .. Cardinality(S) - 1
  BY <1>1, <1>3, <1>6, <1>7
<1>9. ASSUME NEW x \in S, NEW y \in S PROVE <<x, y>> \in R <=> Rank(R, S, x) < Rank(R, S, y)
  <2>1. Cardinality(ahead(x)) \in Nat /\ Cardinality(ahead(y)) \in Nat
    BY <1>1
  <2>2. <<x, y>> \in R => Cardinality(ahead(x)) < Cardinality(ahead(y))
    BY <1>4
  <2>3. <<y, x>> \in R => Cardinality(ahead(y)) < Cardinality(ahead(x))
    BY <1>4
  <2>4. x = y \/ <<x, y>> \in R \/ <<y, x>> \in R
    BY DEF StrictOrder
  <2> QED
    BY <1>7, <2>1, <2>2, <2>3, <2>4
<1> QED
  BY <1>5, <1>8, <1>9

LEMMA FirstOnes ==
    ASSUME NEW S, IsFiniteSet(S), NEW R, StrictOrder(R, S), NEW n \in Nat
    PROVE  LET first == {x \in S : Rank(R, S, x) < n}
           IN  /\ IsFiniteSet(first) /\ Cardinality(first) \in Nat /\ Cardinality(first) <= n
               /\ n <= Cardinality(S) => Cardinality(first) = n
<1> DEFINE first == {x \in S : Rank(R, S, x) < n}
           last == S \ first
           rank == [x \in S |-> Rank(R, S, x)]
           N == Cardinality(S)
<1>1. N \in Nat /\ \A x \in S : rank[x] \in 0 .. N - 1 /\ (x \in first <=> rank[x] < n)
  BY Ranks, FS_CardinalityType
<1>2. \A x, y \in S : rank[x] = rank[y] => x = y
  BY Ranks
<1>3. /\ IsFiniteSet(first) /\ Cardinality(first) \in Nat
      /\ IsFiniteSet(last) /\ Cardinality(last) \in Nat
      /\ Cardinality(first) + Cardinality(last) = N
  <2>1. first \in SUBSET S /\ last \in SUBSET S /\ S \cap first = first
    OBVIOUS
  <2>2. IsFiniteSet(first) /\ IsFiniteSet(last)
    BY <2>1, FS_Subset
  <2>3. Cardinality(first) \in Nat /\ Cardinality(last) \in Nat
    BY <2>2, FS_CardinalityType
  <2>4. Cardinality(last) = N - Cardinality(first)
    BY <2>1, FS_Difference
  <2> HIDE DEF first, last, N
  <2> QED
    BY <1>1, <2>2, <2>3, <2>4
<1> HIDE DEF rank, N
<1>4. Cardinality(first) <= n
  <2> DEFINE f == [x \in first |-> rank[x]]
  <2>1. f \in Injection(first, 0 .. n - 1)
    <3>1. \A x \in first : x \in S /\ rank[x] \in 0 .. n - 1
      BY <1>1
    <3> HIDE DEF first
    <3> QED
      BY <1>2, <3>1 DEF Injection, IsInjective
  <2>2. IsFiniteSet(0 .. n - 1) /\ Cardinality(0 .. n - 1) = n
    BY FS_Interval
  <2> HIDE DEF f, first
  <2> QED
    BY <2>1, <2>2, FS_Injection
<1>5. ASSUME n <= N PROVE Cardinality(last) <= N - n
  <2> DEFINE f == [x \in last |-> rank[x]]
  <2>1. f \in Injection(last, n .. N - 1)
    <3>1. \A x \in last : x \in S /\ rank[x] \in n .. N - 1
      BY <1>1
    <3> HIDE DEF last
    <3> QED
      BY <1>2, <3>1 DEF Injection, IsInjective
  <2>2. IsFiniteSet(n .. N - 1) /\ Cardinality(n .. N - 1) = N - n
    BY <1>1, <1>5, FS_Interval
  <2> HIDE DEF f, last
  <2> QED
    BY <2>1, <2>2, FS_Injection
<1> HIDE DEF first, last
<1>6. n <= N => Cardinality(first) = n
  BY <1>1, <1>3, <1>4, <1>5
<1> QED
  BY <1>3, <1>4, <1>6 DEF first, N

LEMMA TotalAtLeastZero ==
    ASSUME NEW D, NEW a \in [D -> Int], NEW S \in SUBSET D, IsFiniteSet(S), \A i \in S : a[i] >= 0
    PROVE  /\ Total(a, S) \in Nat
           /\ \A x \in S : a[x] <= Total(a, S)
           /\ Total(a, S) = 0 => \A x \in S : a[x] = 0
<1> DEFINE zero == [i \in D |-> 0]
<1>1. zero \in [D -> Int] /\ \A i \in D : zero[i] = 0
  OBVIOUS
<1> HIDE DEF zero
<1>2. ASSUME NEW T \in SUBSET S PROVE Total(a, T) \in Int /\ Total(a, T) >= 0
  <2>1. IsFiniteSet(T) /\ T \in SUBSET D
    BY FS_Subset
  <2>2. Total(a, T) \in Int
    BY <2>1, TotalIsInt
  <2>3. Total(zero, T) = 0
    <3>1. {} \in SUBSET T /\ \A i \in T \ {} : zero[i] = 0
      BY <1>1, <2>1
    <3>2. Total(zero, T) = Total(zero, {})
      BY <1>1, <2>1, <3>1, TotalOfPart
    <3> QED
      BY <1>1, <3>2, TotalOfNone
  <2>4. Total(zero, T) <= Total(a, T)
    <3>1. \A i \in T : zero[i] <= a[i]
      BY <1>1, <2>1
    <3> QED
      BY <1>1, <2>1, <3>1, TotalAtMost
  <2> QED
    BY <2>2, <2>3, <2>4
<1>3. ASSUME NEW x \in S PROVE a[x] <= Total(a, S)
  <2>1. Total(a, S) = a[x] + Total(a, S \ {x}) /\ a[x] \in Int /\ Total(a, S) \in Int
    BY TotalSplits
  <2>2. S \ {x} \in SUBSET S
    OBVIOUS
  <2>3. Total(a, S \ {x}) \in Int /\ Total(a, S \ {x}) >= 0
    BY <1>2, <2>2
  <2> QED
    BY <2>1, <2>3
<1>4. Total(a, S) \in Nat
  BY <1>2
<1>5. \A x \in S : a[x] \in Int /\ a[x] >= 0
  OBVIOUS
<1> QED
  BY <1>3, <1>4, <1>5

LEMMA LowerIs ==
    ASSUME NEW a \in Int, NEW b \in Int
    PROVE  /\ Lower(a, b) \in Int /\ Lower(a, b) <= a /\ Lower(a, b) <= b
           /\ Lower(a, b) = a \/ Lower(a, b) = b
  BY DEF Lower

(* While anything is left to place, the active invoices are those that need *)
(* something, and the passes taken are no more than the invoices that need  *)
(* nothing any more, or, with what is left to place, than the invoices.     *)
AllocRanges ==
    /\ remaining \in [Invoices -> Nat] /\ weights \in [Invoices -> Nat]
    /\ allocations \in [Invoices -> Nat]
    /\ toPlace \in Nat /\ passes \in Nat /\ distributable \in Nat
    /\ active \in SUBSET Invoices

InNeed == {i \in Invoices : allocations[i] < remaining[i]}

AllocInv ==
    /\ AllocRanges /\ NeverOverpays
    /\ Total(allocations, Invoices) + toPlace = distributable
    /\ distributable <= Total(remaining, Invoices)
    /\ InNeed \subseteq active
    /\ toPlace > 0 => active = InNeed
    /\ passes + Cardinality(active) <= Cardinality(Invoices)
         \/ passes + toPlace <= Cardinality(Invoices)

LEMMA AllocInitSound == AllocationInit => AllocInv
<1> SUFFICES ASSUME AllocationInit PROVE AllocInv
  OBVIOUS
<1>1. IsFiniteSet(Invoices) /\ Cardinality(Invoices) \in Nat
  BY InvoicesArePositions, FS_CardinalityType
<1>2. remaining \in [Invoices -> Nat] /\ weights \in [Invoices -> Nat]
  <2>1. 0 .. MaxNeed \subseteq Nat /\ 0 .. MaxWeight \subseteq Nat
    BY AllocationBounds
  <2> QED
    BY <2>1 DEF AllocationInit
<1>3. Total(remaining, Invoices) \in Nat
  <2>1. remaining \in [Invoices -> Int] /\ \A i \in Invoices : remaining[i] >= 0
    BY <1>2
  <2> QED
    BY <1>1, <2>1, TotalAtLeastZero
<1>4. distributable \in Nat /\ distributable <= Total(remaining, Invoices)
  <2>1. PICK budget \in 0 .. MaxBudget : distributable = Lower(budget, Total(remaining, Invoices))
    BY DEF AllocationInit
  <2>2. budget \in Nat
    BY <2>1, AllocationBounds
  <2> DEFINE total == Total(remaining, Invoices)
  <2>3. total \in Nat
    BY <1>3
  <2> HIDE DEF total
  <2>4. /\ Lower(budget, total) <= total
        /\ Lower(budget, total) = budget \/ Lower(budget, total) = total
    BY <2>2, <2>3, LowerIs
  <2> QED
    BY <2>1, <2>2, <2>3, <2>4 DEF total
<1>5. allocations \in [Invoices -> Nat] /\ \A i \in Invoices : allocations[i] = 0
  BY DEF AllocationInit
<1>6. Total(allocations, Invoices) = 0
  <2>1. /\ allocations \in [Invoices -> Int] /\ remaining \in [Invoices -> Int] /\ 0 \in Int
        /\ Invoices \in SUBSET Invoices
        /\ \A i \in Invoices : allocations[i] = 0 * remaining[i]
    BY <1>2, <1>5
  <2>2. Total(allocations, Invoices) = 0 * Total(remaining, Invoices)
    BY <1>1, <2>1, TotalScales DEF Scaled
  <2> QED
    BY <1>3, <2>2
<1>7. active = InNeed /\ active \in SUBSET Invoices
  BY <1>2, <1>5 DEF AllocationInit, InNeed
<1>8. Cardinality(active) <= Cardinality(Invoices) /\ Cardinality(active) \in Nat
  BY <1>1, <1>7, FS_Subset, FS_CardinalityType
<1>9. NeverOverpays
  BY <1>2, <1>5 DEF NeverOverpays
<1>10. toPlace = distributable /\ passes = 0
  BY DEF AllocationInit
<1> QED
  BY <1>1, <1>2, <1>4, <1>5, <1>6, <1>7, <1>8, <1>9, <1>10 DEF AllocInv, AllocRanges

(* What is left to place is split by numerators over a common divisor.      *)
LEMMA NumeratorsAddUp ==
    ASSUME AllocInv, Placing
    PROVE  LET numer == [i \in Invoices |-> Numerator(i)]
           IN  /\ numer \in [Invoices -> Nat] /\ Divisor \in Nat \ {0}
               /\ IsFiniteSet(active) /\ active \in SUBSET Invoices
               /\ Total(numer, active) = toPlace * Divisor
<1> DEFINE numer == [i \in Invoices |-> Numerator(i)]
<1>1. /\ IsFiniteSet(active) /\ active \in SUBSET Invoices /\ active # {}
      /\ Cardinality(active) \in Nat \ {0} /\ toPlace \in Nat
      /\ weights \in [Invoices -> Nat] /\ weights \in [Invoices -> Int]
  <2>1. /\ active \in SUBSET Invoices /\ active # {} /\ toPlace \in Nat
        /\ weights \in [Invoices -> Nat] /\ weights \in [Invoices -> Int]
    BY DEF AllocInv, AllocRanges, Placing
  <2>2. IsFiniteSet(active)
    BY <2>1, InvoicesArePositions, FS_Subset
  <2> QED
    BY <2>1, <2>2, FS_EmptySet, FS_CardinalityType
<1>2. Total(weights, active) \in Nat
  <2>1. \A i \in active : weights[i] >= 0
    BY <1>1
  <2> QED
    BY <1>1, <2>1, TotalAtLeastZero
<1>3. CASE ProRata
  <2>1. Divisor = Total(weights, active) /\ Divisor \in Nat \ {0}
    BY <1>2, <1>3 DEF Divisor, ProRata
  <2>2. \A i \in Invoices : numer[i] = toPlace * weights[i] /\ weights[i] \in Nat
    BY <1>1, <1>3 DEF Numerator
  <2>3. numer \in [Invoices -> Nat]
    <3>1. \A i \in Invoices : toPlace * weights[i] \in Nat
      BY <1>1
    <3> QED
      BY <2>2, <3>1
  <2> HIDE DEF numer
  <2>4. Total(numer, active) = toPlace * Total(weights, active)
    <3>1. numer \in [Invoices -> Int] /\ toPlace \in Int /\ \A i \in active : numer[i] = toPlace * weights[i]
      BY <1>1, <2>2, <2>3
    <3> QED
      BY <1>1, <3>1, TotalScales DEF Scaled
  <2> QED
    BY <1>1, <2>1, <2>3, <2>4 DEF numer
<1>4. CASE ~ProRata
  <2> DEFINE ones == [i \in Invoices |-> 1]
  <2>1. Divisor = Cardinality(active)
    BY <1>4 DEF Divisor
  <2>2. /\ ones \in [Invoices -> Int] /\ \A i \in Invoices : ones[i] = 1 /\ numer[i] = toPlace
    BY <1>4 DEF Numerator
  <2>3. numer \in [Invoices -> Nat]
    BY <1>1, <2>2
  <2> HIDE DEF numer, ones
  <2>4. Total(ones, active) = Cardinality(active)
    <3>1. \A i \in active : ones[i] = 1
      BY <1>1, <2>2
    <3> QED
      BY <1>1, <2>2, <3>1, TotalCounts
  <2>5. Total(numer, active) = toPlace * Total(ones, active)
    <3>1. numer \in [Invoices -> Int] /\ toPlace \in Int /\ \A i \in active : numer[i] = toPlace * ones[i]
      BY <1>1, <2>2, <2>3
    <3> QED
      BY <1>1, <2>2, <3>1, TotalScales DEF Scaled
  <2> QED
    BY <1>1, <2>1, <2>3, <2>4, <2>5 DEF numer
<1> QED
  BY <1>3, <1>4

(* Shares rounded down add up to the whole at most, and fall short of it by *)
(* less than their number.                                                  *)
LEMMA RoundingDown ==
    ASSUME NEW D, NEW a \in [D -> Int], NEW q \in [D -> Int], NEW S \in SUBSET D, IsFiniteSet(S),
           NEW d \in Nat \ {0}, NEW t \in Int, Total(a, S) = t * d
    PROVE  /\ (\A i \in S : q[i] * d <= a[i]) => Total(q, S) <= t
           /\ S # {} /\ (\A i \in S : a[i] < q[i] * d + d) => t < Total(q, S) + Cardinality(S)
<1> DEFINE ones == [i \in D |-> 1]
           more == [i \in D |-> q[i] + 1]
           scaled == [i \in D |-> d * q[i]]
           scaledMore == [i \in D |-> d * (q[i] + 1)]
           next == [i \in D |-> a[i] + 1]
<1>1. /\ ones \in [D -> Int] /\ more \in [D -> Int] /\ scaled \in [D -> Int]
      /\ scaledMore \in [D -> Int] /\ next \in [D -> Int]
  OBVIOUS
<1>2. \A i \in S : /\ ones[i] = 1 /\ more[i] = q[i] + ones[i] /\ scaled[i] = d * q[i]
                   /\ scaledMore[i] = d * more[i] /\ next[i] = a[i] + ones[i]
                   /\ q[i] \in Int /\ a[i] \in Int /\ scaled[i] \in Int
                   /\ scaledMore[i] = d * q[i] + d /\ q[i] * d = d * q[i]
  <2> TAKE i \in S
  <2>1. i \in D /\ q[i] \in Int /\ a[i] \in Int
    OBVIOUS
  <2>2. d * (q[i] + 1) = d * q[i] + d /\ q[i] * d = d * q[i] /\ d * q[i] \in Int
    BY <2>1
  <2> QED
    BY <2>1, <2>2
<1> HIDE DEF ones, more, scaled, scaledMore, next
<1>3. Total(scaled, S) = d * Total(q, S)
  <2>1. \A i \in S : scaled[i] = d * q[i]
    BY <1>2
  <2>2. scaled \in [D -> Int] /\ d \in Int
    BY <1>1
  <2>3. Scaled(scaled, d, q, S)
    BY <2>1, <2>2, TotalScales
  <2> QED
    BY <2>3 DEF Scaled
<1>4. Total(ones, S) = Cardinality(S)
  BY <1>1, <1>2, TotalCounts
<1>5. Total(more, S) = Total(q, S) + Total(ones, S)
  <2>1. \A i \in S : more[i] = q[i] + ones[i]
    BY <1>2
  <2>2. ones \in [D -> Int] /\ more \in [D -> Int]
    BY <1>1
  <2> QED
    BY <2>1, <2>2, TotalAdds DEF Added
<1>6. Total(scaledMore, S) = d * Total(more, S)
  <2>1. \A i \in S : scaledMore[i] = d * more[i]
    BY <1>2
  <2>2. scaledMore \in [D -> Int] /\ more \in [D -> Int] /\ d \in Int
    BY <1>1
  <2>3. Scaled(scaledMore, d, more, S)
    BY <2>1, <2>2, TotalScales
  <2> QED
    BY <2>3 DEF Scaled
<1>7. Total(next, S) = Total(a, S) + Total(ones, S)
  <2>1. \A i \in S : next[i] = a[i] + ones[i]
    BY <1>2
  <2>2. next \in [D -> Int] /\ ones \in [D -> Int]
    BY <1>1
  <2>3. Added(next, a, ones, S)
    BY <2>1, <2>2, TotalAdds
  <2> QED
    BY <2>3 DEF Added
<1>8. Total(q, S) \in Int /\ Cardinality(S) \in Nat
  BY TotalIsInt, FS_CardinalityType
<1>9. ASSUME \A i \in S : q[i] * d <= a[i] PROVE Total(q, S) <= t
  <2>1. \A i \in S : scaled[i] <= a[i]
    BY <1>2, <1>9
  <2>2. Total(scaled, S) <= Total(a, S)
    BY <1>1, <2>1, TotalAtMost
  <2>3. Total(q, S) * d <= t * d
    BY <1>3, <1>8, <2>2
  <2> QED
    BY <1>8, <2>3, Cancelling
<1>10. ASSUME S # {}, \A i \in S : a[i] < q[i] * d + d PROVE t < Total(q, S) + Cardinality(S)
  <2>1. \A i \in S : next[i] <= scaledMore[i]
    BY <1>2, <1>10
  <2>2. Total(next, S) <= Total(scaledMore, S)
    BY <1>1, <2>1, TotalAtMost
  <2>3. Cardinality(S) > 0
    BY <1>8, <1>10, FS_EmptySet
  <2>4. t * d + Cardinality(S) <= d * (Total(q, S) + Cardinality(S))
    BY <1>4, <1>5, <1>6, <1>7, <2>2
  <2> DEFINE total == Total(q, S) + Cardinality(S)
  <2>5. total \in Int
    BY <1>8
  <2> HIDE DEF total
  <2>6. t * d < total * d
    <3>1. t * d \in Int /\ d * total = total * d /\ d * total \in Int
      BY <2>5
    <3>2. t * d + Cardinality(S) <= d * total
      BY <2>4 DEF total
    <3> QED
      BY <1>8, <2>3, <3>1, <3>2
  <2>7. t < total
    BY <2>5, <2>6, Cancelling
  <2> QED
    BY <2>7 DEF total
<1> QED
  BY <1>9, <1>10

LEMMA PassByWeightKeeps ==
    ASSUME AllocInv, PassByWeight
    PROVE  AllocInv'
<1> DEFINE numer == [i \in Invoices |-> Numerator(i)]
           shares == [i \in Invoices |-> Share(i)]
           given == Total(shares, active)
           N == Cardinality(Invoices)
<1>1. /\ numer \in [Invoices -> Nat] /\ Divisor \in Nat \ {0}
      /\ IsFiniteSet(active) /\ active \in SUBSET Invoices
      /\ Total(numer, active) = toPlace * Divisor
  BY NumeratorsAddUp DEF PassByWeight
<1>2. /\ remaining \in [Invoices -> Nat] /\ allocations \in [Invoices -> Nat] /\ passes \in Nat
      /\ toPlace \in Nat /\ toPlace > 0 /\ active = InNeed /\ active # {}
      /\ distributable \in Nat
  BY DEF AllocInv, AllocRanges, PassByWeight, Placing
<1>3. /\ allocations' = [i \in Invoices |-> allocations[i] + Share(i)]
      /\ active' = {i \in active : allocations[i] + Share(i) < remaining[i]}
      /\ passes' = passes + 1 /\ UNCHANGED <<remaining, weights, distributable>>
      /\ toPlace' = toPlace - Total([i \in active |-> Share(i)], active)
      /\ \E i \in active : Share(i) > 0
  BY DEF PassByWeight
<1>4. \A i \in Invoices :
         /\ i \notin active => shares[i] = 0
         /\ i \in active => LET q == numer[i] \div Divisor
                              need == remaining[i] - allocations[i]
                          IN  /\ shares[i] = Lower(q, need) /\ need \in Nat \ {0} /\ q \in Nat
                              /\ q * Divisor <= numer[i] /\ numer[i] < q * Divisor + Divisor
  <2> TAKE i \in Invoices
  <2>1. CASE i \notin active
    BY <2>1 DEF Share
  <2>2. CASE i \in active
    <3>1. shares[i] = Lower(numer[i] \div Divisor, remaining[i] - allocations[i])
      BY <2>2 DEF Share
    <3>2. remaining[i] - allocations[i] \in Nat \ {0}
      BY <1>2, <2>2 DEF InNeed
    <3>3. numer[i] \in Nat
      BY <1>1
    <3> HIDE DEF numer, shares
    <3>4. /\ numer[i] \div Divisor \in Nat
          /\ (numer[i] \div Divisor) * Divisor <= numer[i]
          /\ numer[i] < (numer[i] \div Divisor) * Divisor + Divisor
      BY <1>1, <3>3, Dividing
    <3> QED
      BY <2>2, <3>1, <3>2, <3>4
  <2> QED
    BY <2>1, <2>2
<1>s. \A i \in Invoices : shares[i] = Share(i)
  OBVIOUS
<1> HIDE DEF numer, shares
<1>5. /\ \A i \in Invoices : /\ shares[i] \in Nat
                             /\ allocations[i] + shares[i] <= remaining[i]
      /\ \A i \in active : shares[i] * Divisor <= numer[i]
      /\ \A i \in active : allocations[i] + shares[i] < remaining[i] =>
                              numer[i] < shares[i] * Divisor + Divisor
  <2>1. ASSUME NEW i \in Invoices
        PROVE  /\ shares[i] \in Nat /\ allocations[i] + shares[i] <= remaining[i]
               /\ i \in active => shares[i] * Divisor <= numer[i]
               /\ i \in active /\ allocations[i] + shares[i] < remaining[i] =>
                              numer[i] < shares[i] * Divisor + Divisor
    <3>0. allocations[i] \in Nat /\ remaining[i] \in Nat /\ allocations[i] <= remaining[i]
      BY <1>2 DEF AllocInv, NeverOverpays
    <3>1. CASE i \notin active
      BY <1>4, <3>0, <3>1
    <3>2. CASE i \in active
      <4> DEFINE q == numer[i] \div Divisor
                 need == remaining[i] - allocations[i]
      <4>1. /\ shares[i] = Lower(q, need) /\ need \in Nat \ {0} /\ q \in Nat
            /\ q * Divisor <= numer[i] /\ numer[i] < q * Divisor + Divisor
        BY <1>4, <3>2
      <4>n. numer[i] \in Nat /\ need = remaining[i] - allocations[i]
        BY <1>1
      <4> HIDE DEF q, need
      <4>2. shares[i] <= q /\ shares[i] <= need /\ (shares[i] = q \/ shares[i] = need) /\ shares[i] \in Nat
        <5>1. q \in Int /\ need \in Int
          BY <4>1
        <5>2. /\ Lower(q, need) <= q /\ Lower(q, need) <= need
              /\ Lower(q, need) = q \/ Lower(q, need) = need
          BY <5>1, LowerIs
        <5> QED
          BY <4>1, <5>2
      <4>3. shares[i] * Divisor <= q * Divisor
        BY <1>1, <4>1, <4>2, Cancelling
      <4>4. shares[i] * Divisor \in Int /\ q * Divisor \in Int
        BY <1>1, <4>1, <4>2
      <4>5. shares[i] * Divisor <= numer[i]
        BY <4>1, <4>3, <4>4, <4>n
      <4>6. allocations[i] + shares[i] <= remaining[i]
        BY <3>0, <4>2, <4>n
      <4>7. allocations[i] + shares[i] < remaining[i] => shares[i] = q
        BY <3>0, <4>2, <4>n
      <4> QED
        BY <4>1, <4>2, <4>5, <4>6, <4>7
    <3> QED
      BY <3>1, <3>2
  <2> QED
    BY <1>1, <2>1
<1>6. shares \in [Invoices -> Nat] /\ shares \in [Invoices -> Int]
  <2>1. shares = [i \in Invoices |-> Share(i)]
    BY DEF shares
  <2> QED
    BY <1>5, <1>s, <2>1
<1>7. given \in Nat /\ given <= toPlace /\ given >= 1
  <2>1. numer \in [Invoices -> Int] /\ toPlace \in Int
    BY <1>1, <1>2
  <2>2. given <= toPlace
    BY <1>1, <1>5, <1>6, <2>1, RoundingDown
  <2>3. given \in Nat /\ \A i \in active : shares[i] <= given
    <3>1. \A i \in active : shares[i] >= 0
      BY <1>1, <1>5
    <3> QED
      BY <1>1, <1>6, <3>1, TotalAtLeastZero
  <2>4. PICK i \in active : shares[i] > 0
    BY <1>1, <1>3, <1>s
  <2>5. shares[i] \in Nat
    BY <1>1, <1>5
  <2> QED
    BY <2>2, <2>3, <2>4, <2>5
<1>8. toPlace' = toPlace - given
  <2> DEFINE part == [i \in active |-> Share(i)]
  <2>1. part \in [active -> Int] /\ \A i \in active : part[i] = shares[i]
    BY <1>1, <1>5, <1>s
  <2>2. active \in SUBSET (active \cap Invoices)
    BY <1>1
  <2>p. toPlace' = toPlace - Total(part, active)
    BY <1>3
  <2> HIDE DEF part
  <2>3. Total(part, active) = Total(shares, active)
    BY <1>1, <1>6, <2>1, <2>2, TotalSame
  <2> QED
    BY <2>p, <2>3
<1>9. /\ allocations' \in [Invoices -> Nat]
      /\ \A i \in Invoices : allocations'[i] = allocations[i] + shares[i]
  BY <1>2, <1>3, <1>5, <1>s
<1>10. Total(allocations', Invoices) = Total(allocations, Invoices) + given
  <2>1. IsFiniteSet(Invoices) /\ Invoices \in SUBSET Invoices
    BY InvoicesArePositions
  <2>2. allocations \in [Invoices -> Int] /\ allocations' \in [Invoices -> Int]
    BY <1>2, <1>9
  <2>3. Total(allocations', Invoices) = Total(allocations, Invoices) + Total(shares, Invoices)
    BY <1>6, <1>9, <2>1, <2>2, TotalAdds DEF Added
  <2>4. \A i \in Invoices \ active : shares[i] = 0
    BY <1>4
  <2>5. Total(shares, Invoices) = Total(shares, active)
    BY <1>1, <1>6, <2>1, <2>4, TotalOfPart
  <2> QED
    BY <2>3, <2>5
<1> HIDE DEF given
<1>11. InNeed' = active' /\ active' \in SUBSET active
  BY <1>1, <1>2, <1>3, <1>4, <1>9, <1>s DEF InNeed
<1>12. N \in Nat /\ Cardinality(active) \in Nat /\ Cardinality(active') \in Nat
       /\ Cardinality(active) <= N
  BY <1>1, <1>11, InvoicesArePositions, FS_Subset, FS_CardinalityType
<1>13. passes' + Cardinality(active') <= N \/ passes' + toPlace' <= N
  <2> HIDE DEF N
  <2>0. \/ passes + Cardinality(active) <= N
        \/ passes + toPlace <= N
    BY DEF AllocInv, N
  <2>1. CASE passes + toPlace <= N
    BY <1>2, <1>3, <1>7, <1>8, <1>12, <2>1
  <2>2. CASE passes + Cardinality(active) <= N /\ active' # active
    <3>1. Cardinality(active') < Cardinality(active)
      BY <1>1, <1>11, <1>12, <2>2, FS_Subset
    <3> QED
      BY <1>2, <1>3, <1>12, <2>2, <3>1
  <2>3. CASE passes + Cardinality(active) <= N /\ active' = active
    <3>1. \A i \in active : numer[i] < shares[i] * Divisor + Divisor
      <4>1. \A i \in active : allocations[i] + shares[i] < remaining[i]
        BY <1>1, <1>3, <1>s, <2>3
      <4> QED
        BY <1>5, <4>1
    <3>2. toPlace < given + Cardinality(active)
      <4>1. numer \in [Invoices -> Int] /\ toPlace \in Int
        BY <1>1, <1>2
      <4> QED
        BY <1>1, <1>2, <1>6, <3>1, <4>1, RoundingDown DEF given
    <3> QED
      BY <1>2, <1>3, <1>7, <1>8, <1>12, <2>3, <3>2
  <2> QED
    BY <2>0, <2>1, <2>2, <2>3
<1>14. AllocRanges'
  BY <1>1, <1>2, <1>3, <1>7, <1>8, <1>9, <1>11 DEF AllocRanges, AllocInv
<1>15. NeverOverpays'
  BY <1>3, <1>5, <1>9 DEF NeverOverpays
<1>16. Total(allocations', Invoices) + toPlace' = distributable' /\ distributable' <= Total(remaining', Invoices)
  <2>1. Total(allocations, Invoices) \in Int
    <3>1. allocations \in [Invoices -> Int] /\ IsFiniteSet(Invoices) /\ Invoices \in SUBSET Invoices
      BY <1>2, InvoicesArePositions
    <3> QED
      BY <3>1, TotalIsInt
  <2>2. /\ Total(allocations, Invoices) + toPlace = distributable
        /\ distributable <= Total(remaining, Invoices)
    BY DEF AllocInv
  <2>3. remaining' = remaining /\ distributable' = distributable
    BY <1>3
  <2> QED
    BY <1>2, <1>7, <1>8, <1>10, <2>1, <2>2, <2>3
<1> QED
  BY <1>11, <1>13, <1>14, <1>15, <1>16 DEF AllocInv, N

(* Dust has a strict order of takers, and there are more of them than       *)
(* stroops to place.                                                        *)
Takers == {p \in TakesDust \X TakesDust : Before(p[1], p[2])}

LEMMA TakersAreOrdered ==
    ASSUME AllocInv, Placing
    PROVE  /\ StrictOrder(Takers, TakesDust)
           /\ \A i \in TakesDust :
                 Rank(Takers, TakesDust, i) = Cardinality({j \in TakesDust : Before(j, i)})
<1> DEFINE left == [i \in Invoices |-> Numerator(i) % Divisor]
           numer == [i \in Invoices |-> Numerator(i)]
<1>1. numer \in [Invoices -> Nat] /\ Divisor \in Nat \ {0} /\ active \in SUBSET Invoices
  BY NumeratorsAddUp
<1>2. TakesDust \in SUBSET Invoices /\ \A i \in TakesDust : i \in Nat
  BY <1>1, InvoicesArePositions DEF TakesDust
<1>3. \A i \in TakesDust : left[i] \in Int /\ left[i] = Numerator(i) % Divisor
  <2> TAKE i \in TakesDust
  <2>1. i \in Invoices /\ numer[i] = Numerator(i) /\ left[i] = numer[i] % Divisor
    BY <1>2
  <2>2. numer[i] \in Nat
    BY <1>1, <2>1
  <2> HIDE DEF numer, left
  <2>3. numer[i] % Divisor \in 0 .. Divisor - 1
    BY <1>1, <2>2, Dividing
  <2> QED
    BY <1>1, <2>1, <2>3
<1> HIDE DEF left, numer
<1>4. \A i, j \in TakesDust : Before(j, i) <=> (left[j] > left[i] \/ (left[j] = left[i] /\ j < i))
  <2> TAKE i, j \in TakesDust
  <2>1. left[j] = Numerator(j) % Divisor /\ left[i] = Numerator(i) % Divisor
    BY <1>3
  <2> QED
    BY <2>1 DEF Before
<1>5. \A i, j \in TakesDust : <<j, i>> \in Takers <=> (left[j] > left[i] \/ (left[j] = left[i] /\ j < i))
  <2> TAKE i, j \in TakesDust
  <2>1. <<j, i>> \in Takers <=> Before(j, i)
    BY DEF Takers
  <2> QED
    BY <1>4, <2>1
<1>6. StrictOrder(Takers, TakesDust)
  BY <1>2, <1>3, <1>5 DEF StrictOrder
<1>7. ASSUME NEW i \in TakesDust
      PROVE  Rank(Takers, TakesDust, i) = Cardinality({j \in TakesDust : Before(j, i)})
  <2>1. {j \in TakesDust : <<j, i>> \in Takers} = {j \in TakesDust : Before(j, i)}
    BY <1>4, <1>5
  <2> QED
    BY <2>1 DEF Rank
<1> QED
  BY <1>6, <1>7

LEMMA DustSuffices ==
    ASSUME AllocInv, Placing, \A i \in active : Share(i) = 0
    PROVE  /\ IsFiniteSet(TakesDust) /\ TakesDust \in SUBSET active
           /\ toPlace <= Cardinality(TakesDust)
<1> DEFINE numer == [i \in Invoices |-> Numerator(i)]
           zero == [i \in Invoices |-> 0]
<1>1. /\ numer \in [Invoices -> Nat] /\ Divisor \in Nat \ {0}
      /\ IsFiniteSet(active) /\ active \in SUBSET Invoices
      /\ Total(numer, active) = toPlace * Divisor
  BY NumeratorsAddUp
<1>2. /\ remaining \in [Invoices -> Nat] /\ allocations \in [Invoices -> Nat]
      /\ weights \in [Invoices -> Nat] /\ toPlace \in Nat /\ toPlace > 0 /\ active = InNeed
  BY DEF AllocInv, AllocRanges, Placing
<1>3. IsFiniteSet(TakesDust) /\ TakesDust \in SUBSET active /\ TakesDust \in SUBSET Invoices
  <2>1. TakesDust \in SUBSET active
    BY DEF TakesDust
  <2> QED
    BY <1>1, <2>1, FS_Subset
<1>4. ASSUME NEW i \in active PROVE numer[i] \in Nat /\ numer[i] < Divisor
  <2>1. Lower(numer[i] \div Divisor, remaining[i] - allocations[i]) = 0
    BY <1>1, <1>4 DEF Share
  <2>2. remaining[i] - allocations[i] \in Nat \ {0}
    BY <1>1, <1>2 DEF InNeed
  <2>3. numer[i] \in Nat
    BY <1>1
  <2> HIDE DEF numer
  <2> DEFINE q == numer[i] \div Divisor
             need == remaining[i] - allocations[i]
  <2>4. q \in Nat /\ numer[i] < q * Divisor + Divisor
    BY <1>1, <2>3, Dividing
  <2>5. Lower(q, need) = 0 /\ need \in Nat \ {0}
    BY <2>1, <2>2
  <2> HIDE DEF q, need
  <2>6. q = 0
    BY <2>4, <2>5 DEF Lower
  <2> QED
    BY <1>1, <2>3, <2>4, <2>6
<1>5. \A i \in active \ TakesDust : numer[i] = 0
  <2> TAKE i \in active \ TakesDust
  <2>1. i \in Invoices /\ allocations[i] < remaining[i] /\ weights[i] \in Nat
    BY <1>1, <1>2 DEF InNeed
  <2>2. ProRata /\ weights[i] = 0
    BY <2>1 DEF TakesDust
  <2>3. Numerator(i) = toPlace * 0
    BY <2>2 DEF Numerator
  <2> QED
    BY <1>2, <2>1, <2>3
<1>6. zero \in [Invoices -> Int] /\ \A i \in Invoices : zero[i] = 0
  OBVIOUS
<1>7. numer \in [Invoices -> Int] /\ \A i \in Invoices : numer[i] \in Nat
  BY <1>1
<1> HIDE DEF numer, zero
<1>8. Total(numer, TakesDust) = toPlace * Divisor
  BY <1>1, <1>3, <1>5, <1>7, TotalOfPart
<1>9. TakesDust # {}
  <2>1. SUFFICES ASSUME TakesDust = {} PROVE FALSE
    OBVIOUS
  <2>2. toPlace * Divisor = 0
    BY <1>7, <1>8, <2>1, TotalOfNone
  <2>3. 0 * Divisor < toPlace * Divisor
    BY <1>1, <1>2, Cancelling
  <2> QED
    BY <1>1, <2>2, <2>3
<1>10. Total(zero, TakesDust) = 0
  <2>1. {} \in SUBSET TakesDust /\ \A i \in TakesDust \ {} : zero[i] = 0
    BY <1>3, <1>6
  <2>2. Total(zero, TakesDust) = Total(zero, {})
    BY <1>3, <1>6, <2>1, TotalOfPart
  <2> QED
    BY <1>6, <2>2, TotalOfNone
<1>11. toPlace < Total(zero, TakesDust) + Cardinality(TakesDust)
  <2>1. \A i \in TakesDust : numer[i] < zero[i] * Divisor + Divisor
    BY <1>1, <1>3, <1>4, <1>6
  <2>2. toPlace \in Int
    BY <1>2
  <2> QED
    BY <1>1, <1>3, <1>6, <1>7, <1>8, <1>9, <2>1, <2>2, RoundingDown
<1>12. Cardinality(TakesDust) \in Nat
  BY <1>3, FS_CardinalityType
<1> QED
  BY <1>2, <1>3, <1>10, <1>11, <1>12

LEMMA PassOfDustKeeps ==
    ASSUME AllocInv, PassOfDust
    PROVE  AllocInv'
<1> DEFINE dust == [i \in Invoices |-> Dust(i)]
           first == {i \in TakesDust : Rank(Takers, TakesDust, i) < toPlace}
           N == Cardinality(Invoices)
<1>1. Placing /\ \A i \in active : Share(i) = 0
  BY DEF PassOfDust
<1>2. /\ remaining \in [Invoices -> Nat] /\ weights \in [Invoices -> Nat]
      /\ allocations \in [Invoices -> Nat] /\ passes \in Nat /\ distributable \in Nat
      /\ toPlace \in Nat /\ toPlace > 0 /\ active = InNeed /\ active # {}
      /\ active \in SUBSET Invoices /\ IsFiniteSet(Invoices) /\ IsFiniteSet(active)
  <2>1. active \in SUBSET Invoices
    BY DEF AllocInv, AllocRanges
  <2>2. IsFiniteSet(active)
    BY <2>1, InvoicesArePositions, FS_Subset
  <2> QED
    BY <1>1, <2>1, <2>2, InvoicesArePositions DEF AllocInv, AllocRanges, Placing
<1>3. /\ active' = active
      /\ allocations' = [i \in Invoices |-> allocations[i] + Dust(i)]
      /\ toPlace' = toPlace - Total([i \in active |-> Dust(i)], active)
      /\ passes' = passes + 1 /\ UNCHANGED <<remaining, weights, distributable>>
  <2>1. active' = active
    BY <1>2 DEF PassOfDust, InNeed
  <2> QED
    BY <1>2, <2>1 DEF PassOfDust
<1>4. /\ IsFiniteSet(TakesDust) /\ TakesDust \in SUBSET active
      /\ toPlace <= Cardinality(TakesDust)
  BY <1>1, DustSuffices
<1>5. /\ IsFiniteSet(first) /\ first \in SUBSET TakesDust /\ Cardinality(first) = toPlace
  <2>1. StrictOrder(Takers, TakesDust)
    BY <1>1, TakersAreOrdered
  <2> QED
    BY <1>2, <1>4, <2>1, FirstOnes
<1>6. \A i \in Invoices : dust[i] = Dust(i) /\ dust[i] = IF i \in first THEN 1 ELSE 0
  <2> TAKE i \in Invoices
  <2>1. dust[i] = Dust(i)
    OBVIOUS
  <2>2. CASE i \in TakesDust
    BY <1>1, <2>1, <2>2, TakersAreOrdered DEF Dust
  <2>3. CASE i \notin TakesDust
    BY <2>1, <2>3 DEF Dust
  <2> QED
    BY <2>1, <2>2, <2>3
<1>7. dust \in [Invoices -> Int]
  <2>1. \A i \in Invoices : Dust(i) \in Int
    BY <1>6
  <2> QED
    BY <2>1
<1> HIDE DEF dust, first
<1>8. first \in SUBSET active /\ first \in SUBSET Invoices
  BY <1>2, <1>4, <1>5
<1>9. Total(dust, first) = toPlace
  <2>1. \A i \in first : dust[i] = 1
    BY <1>6, <1>8
  <2> QED
    BY <1>5, <1>7, <1>8, <2>1, TotalCounts
<1>10. toPlace' = 0
  <2> DEFINE part == [i \in active |-> Dust(i)]
  <2>1. part \in [active -> Int] /\ \A i \in active : part[i] = dust[i]
    BY <1>2, <1>6
  <2>2. active \in SUBSET (active \cap Invoices)
    BY <1>2
  <2>p. toPlace' = toPlace - Total(part, active)
    BY <1>3
  <2> HIDE DEF part
  <2>3. Total(part, active) = Total(dust, active)
    BY <1>2, <1>7, <2>1, <2>2, TotalSame
  <2>4. \A i \in active \ first : dust[i] = 0
    BY <1>2, <1>6
  <2>5. Total(dust, active) = Total(dust, first)
    BY <1>2, <1>7, <1>8, <2>4, TotalOfPart
  <2> QED
    BY <1>2, <1>9, <2>p, <2>3, <2>5
<1>11. \A i \in Invoices : /\ allocations'[i] = allocations[i] + dust[i]
                           /\ allocations'[i] \in Nat /\ allocations[i] <= allocations'[i]
                           /\ allocations'[i] <= remaining[i]
  <2> TAKE i \in Invoices
  <2>1. allocations'[i] = allocations[i] + dust[i] /\ allocations[i] \in Nat /\ remaining[i] \in Nat
    BY <1>2, <1>3, <1>6
  <2>2. allocations[i] <= remaining[i]
    BY DEF AllocInv, NeverOverpays
  <2>3. i \in first => allocations[i] < remaining[i]
    BY <1>2, <1>8 DEF InNeed
  <2> QED
    BY <1>6, <2>1, <2>2, <2>3
<1>12. allocations' \in [Invoices -> Nat] /\ allocations' \in [Invoices -> Int]
  <2>1. \A i \in Invoices : allocations[i] + Dust(i) \in Nat
    BY <1>3, <1>11
  <2> QED
    BY <1>3, <2>1
<1>13. Total(allocations', Invoices) = Total(allocations, Invoices) + toPlace
  <2>1. IsFiniteSet(Invoices) /\ Invoices \in SUBSET Invoices
    BY <1>2
  <2>2. allocations \in [Invoices -> Int]
    BY <1>2
  <2>3. \A i \in Invoices : allocations'[i] = allocations[i] + dust[i]
    BY <1>11
  <2>4. Added(allocations', allocations, dust, Invoices)
    BY <1>7, <1>12, <2>1, <2>2, <2>3, TotalAdds
  <2>5. \A i \in Invoices \ first : dust[i] = 0
    BY <1>6
  <2>6. Total(dust, Invoices) = Total(dust, first)
    BY <1>7, <1>8, <2>1, <2>5, TotalOfPart
  <2> QED
    BY <1>9, <2>4, <2>6 DEF Added
<1>14. InNeed' \subseteq active'
  <2>1. ASSUME NEW i \in Invoices, allocations'[i] < remaining'[i] PROVE i \in active'
    <3>1. allocations[i] < remaining[i]
      BY <1>2, <1>3, <1>11, <2>1
    <3> QED
      BY <1>2, <1>3, <3>1 DEF InNeed
  <2> QED
    BY <2>1 DEF InNeed
<1>15. passes' + toPlace' <= N
  <2>1. N \in Nat /\ Cardinality(active) \in Nat \ {0}
    BY <1>2, FS_CardinalityType, FS_EmptySet
  <2>2. passes + Cardinality(active) <= N \/ passes + toPlace <= N
    BY DEF AllocInv
  <2> HIDE DEF N
  <2> QED
    BY <1>2, <1>3, <1>10, <2>1, <2>2
<1>16. AllocRanges'
  BY <1>2, <1>3, <1>10, <1>12 DEF AllocRanges
<1>17. NeverOverpays'
  BY <1>3, <1>11 DEF NeverOverpays
<1>18. Total(allocations', Invoices) + toPlace' = distributable' /\ distributable' <= Total(remaining', Invoices)
  <2>1. Total(allocations, Invoices) \in Int
    <3>1. allocations \in [Invoices -> Int] /\ Invoices \in SUBSET Invoices
      BY <1>2
    <3> QED
      BY <1>2, <3>1, TotalIsInt
  <2>2. /\ Total(allocations, Invoices) + toPlace = distributable
        /\ distributable <= Total(remaining, Invoices)
    BY DEF AllocInv
  <2> QED
    BY <1>2, <1>3, <1>10, <1>13, <2>1, <2>2
<1>19. ~(toPlace' > 0)
  BY <1>10
<1> QED
  BY <1>14, <1>15, <1>16, <1>17, <1>18, <1>19 DEF AllocInv, N

LEMMA AllocStep == AllocInv /\ [AllocationNext]_allocationVars => AllocInv'
<1> SUFFICES ASSUME AllocInv, [AllocationNext]_allocationVars PROVE AllocInv'
  OBVIOUS
<1>1. CASE PassByWeight
  BY <1>1, PassByWeightKeeps
<1>2. CASE PassOfDust
  BY <1>2, PassOfDustKeeps
<1>3. CASE UNCHANGED allocationVars
  <2>1. /\ remaining' = remaining /\ weights' = weights /\ distributable' = distributable
        /\ allocations' = allocations /\ toPlace' = toPlace /\ active' = active /\ passes' = passes
    BY <1>3 DEF allocationVars
  <2>2. AllocRanges' /\ NeverOverpays' /\ InNeed' = InNeed
    BY <2>1 DEF AllocInv, AllocRanges, NeverOverpays, InNeed
  <2> QED
    BY <2>1, <2>2 DEF AllocInv
<1> QED
  BY <1>1, <1>2, <1>3 DEF AllocationNext

LEMMA AllocCompletes ==
    ASSUME AllocInv, Cardinality(Invoices) <= MaxPasses
    PROVE  AllocationIsComplete
<1>1. IsFiniteSet(Invoices) /\ Cardinality(Invoices) \in Nat /\ MaxPasses \in Nat
  BY InvoicesArePositions, AllocationBounds, FS_CardinalityType
<1>2. AllocRanges /\ NeverOverpays
  BY DEF AllocInv
<1>3. Total(allocations, Invoices) + toPlace = distributable
  BY DEF AllocInv
<1>4. CASE active = {}
  <2>1. \A i \in Invoices : allocations[i] = remaining[i]
    <3> TAKE i \in Invoices
    <3>1. allocations[i] \in Nat /\ remaining[i] \in Nat
      BY <1>2 DEF AllocRanges
    <3>2. allocations[i] <= remaining[i] /\ ~(allocations[i] < remaining[i])
      BY <1>2, <1>4 DEF NeverOverpays, AllocInv, InNeed
    <3> QED
      BY <3>1, <3>2
  <2>2. allocations = remaining
    BY <1>2, <2>1 DEF AllocRanges
  <2>3. toPlace \in Nat /\ distributable <= Total(allocations, Invoices) /\ distributable \in Nat
    BY <1>2, <2>2 DEF AllocInv, AllocRanges
  <2>4. Total(allocations, Invoices) \in Int
    <3>1. allocations \in [Invoices -> Int] /\ Invoices \in SUBSET Invoices
      BY <1>2 DEF AllocRanges
    <3> QED
      BY <1>1, <3>1, TotalIsInt
  <2>5. toPlace = 0
    BY <1>3, <2>3, <2>4
  <2> QED
    BY <1>2, <1>3, <2>5 DEF AllocationIsComplete
<1>5. CASE active # {}
  <2>1. active \in SUBSET Invoices /\ toPlace \in Nat /\ passes \in Nat
    BY <1>2 DEF AllocRanges
  <2>2. Cardinality(active) \in Nat \ {0}
    BY <1>1, <1>5, <2>1, FS_Subset, FS_EmptySet, FS_CardinalityType
  <2>3. passes + Cardinality(active) <= Cardinality(Invoices) \/ passes + toPlace <= Cardinality(Invoices)
    BY DEF AllocInv
  <2>4. toPlace = 0 \/ passes < MaxPasses
    BY <1>1, <2>1, <2>2, <2>3
  <2>5. ~Placing => toPlace = 0
    BY <1>5, <2>1, <2>4 DEF Placing
  <2> QED
    BY <1>2, <1>3, <2>5 DEF AllocationIsComplete
<1> QED
  BY <1>4, <1>5

(* allocateWithCaps() allocates exactly what can be allocated, to no        *)
(* invoice more than it needs, whatever the weights, if there are no more   *)
(* invoices than MAX_ALLOCATION_PASSES: every pass settles an invoice, or   *)
(* leaves fewer stroops to place than there are invoices in need.           *)
THEOREM AllocationCompletes ==
    Cardinality(Invoices) <= MaxPasses => (AllocationSpec => []AllocationIsComplete)
<1> SUFFICES ASSUME Cardinality(Invoices) <= MaxPasses PROVE AllocationSpec => []AllocationIsComplete
  OBVIOUS
<1>1. AllocInv => AllocationIsComplete
  BY AllocCompletes
<1> QED
  BY <1>1, AllocInitSound, AllocStep, PTL DEF AllocationSpec

-----------------------------------------------------------------------------
(* Splits.                                                                  *)

LEMMA SumIs == \A a, S : SumOver(a, S) = Total(a, S)
  BY DEF SumOver, Total

(* A sum does not depend on the names of what is added up.                  *)
Moved(a, S, b, T) == Total(a, S) = Total(b, T)

LEMMA TotalMoves ==
    ASSUME NEW D, NEW a \in [D -> Int], NEW E, NEW b \in [E -> Int], NEW S \in SUBSET D, IsFiniteSet(S),
           NEW g \in [D -> E], \A i, j \in S : g[i] = g[j] => i = j, \A i \in S : a[i] = b[g[i]]
    PROVE  Moved(a, S, b, {g[i] : i \in S})
<1> DEFINE image(T) == {g[i] : i \in T}
           P == {T \in SUBSET S : IsFiniteSet(image(T)) /\ Total(a, T) = Total(b, image(T))}
<1>1. {} \in P
  <2>1. image({}) = {}
    OBVIOUS
  <2> HIDE DEF image
  <2> QED
    BY <2>1, TotalOfNone, FS_EmptySet
<1>2. ASSUME NEW T \in SUBSET S, NEW x \in S, T \in P, x \notin T PROVE T \cup {x} \in P
  <2>1. IsFiniteSet(T) /\ T \in SUBSET D /\ x \in D /\ x \notin T
    BY <1>2, FS_Subset
  <2>2. image(T \cup {x}) = image(T) \cup {g[x]} /\ image(T) \in SUBSET E /\ g[x] \in E
    BY <2>1
  <2>3. g[x] \notin image(T)
    BY <2>1
  <2>4. IsFiniteSet(image(T)) /\ Total(a, T) = Total(b, image(T)) /\ a[x] = b[g[x]]
    BY <1>2
  <2> HIDE DEF image
  <2>5. Grown(a, T, x)
    BY <2>1, TotalGrows
  <2>6. Grown(b, image(T), g[x])
    BY <2>2, <2>3, <2>4, TotalGrows
  <2>7. IsFiniteSet(image(T) \cup {g[x]})
    BY <2>4, FS_AddElement
  <2>8. Total(a, T \cup {x}) = Total(b, image(T \cup {x}))
    BY <2>2, <2>4, <2>5, <2>6 DEF Grown
  <2> QED
    BY <2>2, <2>7, <2>8
<1> HIDE DEF P
<1>3. S \in P
  BY <1>1, <1>2, SetsGrow
<1> QED
  BY <1>3 DEF P, Moved

(* Parts of a whole number of d's, each less than one d, are more than      *)
(* there are d's.                                                           *)
LEMMA PartsAreMany ==
    ASSUME NEW D, NEW a \in [D -> Int], NEW S \in SUBSET D, IsFiniteSet(S), NEW T \in SUBSET S,
           \A i \in S \ T : a[i] = 0, NEW d \in Nat \ {0}, \A i \in T : a[i] < d,
           NEW t \in Nat, Total(a, S) = t * d
    PROVE  t <= Cardinality(T)
<1> DEFINE zero == [i \in D |-> 0]
<1>1. zero \in [D -> Int] /\ \A i \in D : zero[i] = 0
  OBVIOUS
<1> HIDE DEF zero
<1>2. IsFiniteSet(T) /\ T \in SUBSET D /\ Cardinality(T) \in Nat
  BY FS_Subset, FS_CardinalityType
<1>3. Total(a, T) = t * d
  BY TotalOfPart
<1>4. Total(zero, T) = 0
  <2>1. {} \in SUBSET T /\ \A i \in T \ {} : zero[i] = 0
    BY <1>1, <1>2
  <2>2. Total(zero, T) = Total(zero, {})
    BY <1>1, <1>2, <2>1, TotalOfPart
  <2> QED
    BY <1>1, <2>2, TotalOfNone
<1>5. CASE T = {}
  <2>1. t * d = 0
    BY <1>3, <1>5, TotalOfNone
  <2>2. t = 0
    <3>1. t * d <= 0 * d
      BY <2>1
    <3> QED
      BY <3>1, Cancelling
  <2> QED
    BY <1>2, <2>2
<1>6. CASE T # {}
  <2>1. \A i \in T : a[i] < zero[i] * d + d
    BY <1>1, <1>2
  <2>2. t \in Int
    OBVIOUS
  <2>3. t < Total(zero, T) + Cardinality(T)
    BY <1>1, <1>2, <1>3, <1>6, <2>1, <2>2, RoundingDown
  <2> QED
    BY <1>2, <1>4, <2>3
<1> QED
  BY <1>5, <1>6

(* The calls.                                                               *)
AuditCalls == [of : {"audit"}, amount : 0 .. MaxAmount, lines : RatioLines]
PlanCalls == [of : {"plan"}, amount : 0 .. MaxAmount, lines : Tiers]

(* The floors of the exact shares, and what they leave.                     *)
LEMMA FloorsAndFractions ==
    ASSUME asked \in AuditCalls
    PROVE  /\ asked.amount \in Nat
           /\ Floors \in [Lines -> Nat]
           /\ \A i \in Lines : /\ asked.lines[i].ratio \in Nat /\ asked.lines[i].recipientId \in Recipients
                               /\ Exact(i) \in Nat /\ Exact(i) = asked.amount * asked.lines[i].ratio
                               /\ Fraction(i) \in 0 .. Parts - 1 /\ Floors[i] = Floor(i)
                               /\ Floor(i) \in Nat /\ Exact(i) = Floor(i) * Parts + Fraction(i)
<1>1. asked.amount \in 0 .. MaxAmount /\ asked.lines \in RatioLines
  BY DEF AuditCalls
<1>2. asked.amount \in Nat /\ Parts \in Nat \ {0}
  BY <1>1, SplitBounds
<1>3. ASSUME NEW i \in Lines
      PROVE  /\ asked.lines[i].ratio \in Nat /\ asked.lines[i].recipientId \in Recipients
             /\ Exact(i) \in Nat /\ Exact(i) = asked.amount * asked.lines[i].ratio
             /\ Fraction(i) \in 0 .. Parts - 1
             /\ Floor(i) \in Nat /\ Exact(i) = Floor(i) * Parts + Fraction(i)
  <2>1. asked.lines[i] \in [ratio : 0 .. Parts, recipientId : Recipients]
    BY <1>1 DEF RatioLines
  <2>2. asked.lines[i].ratio \in Nat /\ asked.lines[i].recipientId \in Recipients
    BY <1>2, <2>1
  <2>3. Exact(i) = asked.amount * asked.lines[i].ratio /\ Exact(i) \in Nat
    BY <1>2, <2>2 DEF Exact
  <2>4. /\ Exact(i) \div Parts \in Nat /\ Exact(i) % Parts \in 0 .. Parts - 1
        /\ Exact(i) = (Exact(i) \div Parts) * Parts + (Exact(i) % Parts)
    BY <1>2, <2>3, Dividing
  <2> QED
    BY <2>2, <2>3, <2>4 DEF Floor, Fraction
<1>4. Floors \in [Lines -> Nat] /\ \A i \in Lines : Floors[i] = Floor(i)
  BY <1>3 DEF Floors
<1> QED
  BY <1>2, <1>3, <1>4

(* The lines in the order of their fractions.                               *)
Preceding == {p \in Lines \X Lines : Precedes(p[1], p[2])}

LEMMA LinesAreOrdered ==
    ASSUME asked \in AuditCalls
    PROVE  /\ StrictOrder(Preceding, Lines)
           /\ \A i \in Lines : Rank(Preceding, Lines, i) = Cardinality({j \in Lines : Precedes(j, i)})
<1>1. \A i \in Lines : i \in Nat /\ Fraction(i) \in Int
  BY FloorsAndFractions, LinesArePositions, SplitBounds
<1>2. \A i, j \in Lines : <<j, i>> \in Preceding <=> Precedes(j, i)
  BY DEF Preceding
<1>3. \A i, j \in Lines :
         <<j, i>> \in Preceding <=> (Fraction(j) > Fraction(i) \/ (Fraction(j) = Fraction(i) /\ j < i))
  BY <1>2 DEF Precedes
<1>4. StrictOrder(Preceding, Lines)
  BY <1>1, <1>3 DEF StrictOrder
<1>5. ASSUME NEW i \in Lines
      PROVE  Rank(Preceding, Lines, i) = Cardinality({j \in Lines : Precedes(j, i)})
  <2>1. {j \in Lines : <<j, i>> \in Preceding} = {j \in Lines : Precedes(j, i)}
    BY <1>2
  <2> QED
    BY <2>1 DEF Rank
<1> QED
  BY <1>4, <1>5

LEMMA TopIsFirst ==
    ASSUME asked \in AuditCalls, NEW n \in Nat
    PROVE  /\ Top(n) \in SUBSET Lines /\ IsFiniteSet(Top(n)) /\ Cardinality(Top(n)) \in Nat
           /\ n <= Cardinality(Lines) => Cardinality(Top(n)) = n
<1> DEFINE first == {i \in Lines : Rank(Preceding, Lines, i) < n}
<1>1. Top(n) = first
  BY LinesAreOrdered DEF Top
<1>2. /\ IsFiniteSet(first) /\ Cardinality(first) \in Nat
      /\ n <= Cardinality(Lines) => Cardinality(first) = n
  BY LinesAreOrdered, LinesArePositions, FirstOnes
<1>3. first \in SUBSET Lines
  OBVIOUS
<1> QED
  BY <1>1, <1>2, <1>3

(* No more than half of the lines is adjusted.                              *)
LEMMA HalfOfAll ==
    ASSUME NEW m \in Nat, NEW n \in Nat, m <= (n + 1) \div 2, n # 0
    PROVE  m <= n
<1>1. ((n + 1) \div 2) * 2 <= n + 1 /\ (n + 1) \div 2 \in Nat
  BY Dividing
<1> QED
  BY <1>1

(* What each line of a recipient of its own gets.                           *)
Adjusted(i, n) == Floor(i) + IF i \in Top(Abs(n)) THEN (IF n < 0 THEN -1 ELSE 1) ELSE 0

LEMMA AmountsOfLines ==
    ASSUME asked \in AuditCalls, EachRecipientOnce, NEW n \in Int
    PROVE  /\ \A i \in Lines : Amount(asked.lines[i].recipientId, n) = Adjusted(i, n)
           /\ \A r \in Recipients : (\A i \in Lines : asked.lines[i].recipientId # r) => Amount(r, n) = 0
<1>0. \A i \in Lines : Floor(i) \in Nat
  BY FloorsAndFractions
<1>1. ASSUME NEW i \in Lines PROVE Amount(asked.lines[i].recipientId, n) = Adjusted(i, n)
  <2> DEFINE r == asked.lines[i].recipientId
             own == {j \in Lines : asked.lines[j].recipientId = r}
  <2>1. own = {i}
    BY DEF EachRecipientOnce
  <2>2. Max({i}) = i
    BY LinesArePositions DEF Max
  <2>3. Cardinality(own \cap Top(Abs(n))) = IF i \in Top(Abs(n)) THEN 1 ELSE 0
    <3>1. own \cap Top(Abs(n)) = IF i \in Top(Abs(n)) THEN {i} ELSE {}
      BY <2>1
    <3>2. Cardinality({i}) = 1 /\ Cardinality({}) = 0
      BY FS_Singleton, FS_EmptySet
    <3> QED
      BY <3>1, <3>2
  <2>4. Amount(r, n) = Floor(i) + IF n < 0 THEN -Cardinality(own \cap Top(Abs(n)))
                                         ELSE Cardinality(own \cap Top(Abs(n)))
    <3>1. own # {} /\ Floor(Max(own)) = Floor(i)
      BY <2>1, <2>2
    <3> QED
      BY <3>1 DEF Amount
  <2> HIDE DEF own
  <2> QED
    BY <1>0, <2>3, <2>4 DEF Adjusted
<1>2. ASSUME NEW r \in Recipients, \A i \in Lines : asked.lines[i].recipientId # r PROVE Amount(r, n) = 0
  <2> DEFINE own == {j \in Lines : asked.lines[j].recipientId = r}
  <2>1. own = {}
    BY <1>2
  <2>2. Cardinality(own \cap Top(Abs(n))) = 0
    <3>1. own \cap Top(Abs(n)) = {}
      BY <2>1
    <3> QED
      BY <3>1, FS_EmptySet
  <2> QED
    BY <2>1, <2>2 DEF Amount
<1> QED
  BY <1>1, <1>2

(* An audit that adjusts at most half of the lines.                         *)
Adjusts(n) ==
    /\ n = asked.amount - SumOver(Floors, Lines)
    /\ Lines # {} /\ Abs(n) <= (Cardinality(Lines) + 1) \div 2

LEMMA AdjustmentsFit ==
    ASSUME asked \in AuditCalls, NEW n, Adjusts(n)
    PROVE  /\ n \in Int /\ Abs(n) \in Nat /\ Cardinality(Top(Abs(n))) = Abs(n)
           /\ Total(Floors, Lines) \in Int /\ n = asked.amount - Total(Floors, Lines)
           /\ Floors \in [Lines -> Int] /\ IsFiniteSet(Lines) /\ Lines \in SUBSET Lines
           /\ Top(Abs(n)) \in SUBSET Lines /\ IsFiniteSet(Top(Abs(n)))
<1>1. Floors \in [Lines -> Int] /\ IsFiniteSet(Lines) /\ Lines \in SUBSET Lines /\ asked.amount \in Nat
  BY FloorsAndFractions, LinesArePositions
<1>2. Total(Floors, Lines) \in Int
  BY <1>1, TotalIsInt
<1>3. n = asked.amount - Total(Floors, Lines)
  BY SumIs DEF Adjusts
<1>4. n \in Int
  BY <1>1, <1>2, <1>3
<1>5. Abs(n) \in Nat
  BY <1>4 DEF Abs
<1>6. Cardinality(Lines) \in Nat \ {0}
  BY <1>1, FS_EmptySet, FS_CardinalityType DEF Adjusts
<1>7. Abs(n) <= Cardinality(Lines)
  <2>1. Abs(n) <= (Cardinality(Lines) + 1) \div 2
    BY DEF Adjusts
  <2> QED
    BY <1>5, <1>6, <2>1, HalfOfAll
<1>8. /\ Top(Abs(n)) \in SUBSET Lines /\ IsFiniteSet(Top(Abs(n)))
      /\ Cardinality(Top(Abs(n))) = Abs(n)
  BY <1>5, <1>7, TopIsFirst
<1> QED
  BY <1>1, <1>2, <1>3, <1>4, <1>5, <1>8

LEMMA AuditAddsUp ==
    ASSUME asked \in AuditCalls, EachRecipientOnce, NEW n, Adjusts(n)
    PROVE  SumOver([r \in Recipients |-> Amount(r, n)], Recipients) = asked.amount
<1> DEFINE amounts == [r \in Recipients |-> Amount(r, n)]
           recipient == [i \in Lines |-> asked.lines[i].recipientId]
           top == Top(Abs(n))
           sign == IF n < 0 THEN -1 ELSE 1
           inTop == [i \in Lines |-> IF i \in top THEN 1 ELSE 0]
           adjustments == [i \in Lines |-> IF i \in top THEN sign ELSE 0]
           given == [i \in Lines |-> Adjusted(i, n)]
           used == {recipient[i] : i \in Lines}
<1>1. /\ n \in Int /\ Abs(n) \in Nat /\ Cardinality(top) = Abs(n)
      /\ Total(Floors, Lines) \in Int /\ n = asked.amount - Total(Floors, Lines)
      /\ Floors \in [Lines -> Int] /\ IsFiniteSet(Lines) /\ Lines \in SUBSET Lines
      /\ top \in SUBSET Lines /\ IsFiniteSet(top)
  BY AdjustmentsFit
<1>2. /\ \A i \in Lines : Floors[i] = Floor(i) /\ Floor(i) \in Nat /\ recipient[i] \in Recipients
      /\ asked.amount \in Nat /\ recipient \in [Lines -> Recipients]
  BY FloorsAndFractions
<1>3. sign \in Int /\ sign * Abs(n) = n
  BY <1>1 DEF Abs
<1>4. /\ inTop \in [Lines -> Int] /\ adjustments \in [Lines -> Int]
      /\ \A i \in Lines : /\ inTop[i] = IF i \in top THEN 1 ELSE 0
                          /\ adjustments[i] = sign * inTop[i]
  BY <1>3
<1>5. /\ given \in [Lines -> Int]
      /\ \A i \in Lines : given[i] = Adjusted(i, n) /\ given[i] = Floors[i] + adjustments[i]
  <2>1. ASSUME NEW i \in Lines PROVE Adjusted(i, n) = Floors[i] + adjustments[i]
    BY <1>2 DEF Adjusted
  <2>2. \A i \in Lines : Adjusted(i, n) \in Int
    BY <1>1, <1>4, <2>1
  <2> QED
    BY <2>1, <2>2
<1> HIDE DEF sign, inTop, adjustments, given, top
<1>6. Total(inTop, Lines) = Abs(n)
  <2>1. \A i \in Lines \ top : inTop[i] = 0
    BY <1>4
  <2>2. Total(inTop, Lines) = Total(inTop, top)
    BY <1>1, <1>4, <2>1, TotalOfPart
  <2>3. \A i \in top : inTop[i] = 1
    BY <1>1, <1>4
  <2>4. Total(inTop, top) = Cardinality(top)
    BY <1>1, <1>4, <2>3, TotalCounts
  <2> QED
    BY <1>1, <2>2, <2>4
<1>7. Total(adjustments, Lines) = n
  <2>1. Scaled(adjustments, sign, inTop, Lines)
    BY <1>1, <1>3, <1>4, TotalScales
  <2> QED
    BY <1>3, <1>6, <2>1 DEF Scaled
<1>8. Total(given, Lines) = asked.amount
  <2>1. Added(given, Floors, adjustments, Lines)
    <3>1. \A i \in Lines : given[i] = Floors[i] + adjustments[i]
      BY <1>5
    <3>2. given \in [Lines -> Int] /\ adjustments \in [Lines -> Int]
      BY <1>4, <1>5
    <3> QED
      BY <1>1, <3>1, <3>2, TotalAdds
  <2> QED
    BY <1>1, <1>2, <1>7, <2>1 DEF Added
<1>9. /\ amounts \in [Recipients -> Int]
      /\ \A i \in Lines : given[i] = amounts[recipient[i]]
      /\ \A r \in Recipients \ used : amounts[r] = 0
  <2>1. \A i \in Lines : Amount(recipient[i], n) = Adjusted(i, n)
    BY <1>1, AmountsOfLines
  <2>2. \A r \in Recipients \ used : Amount(r, n) = 0
    BY <1>1, AmountsOfLines
  <2>3. \A r \in Recipients : Amount(r, n) \in Int
    <3> TAKE r \in Recipients
    <3>1. CASE r \in used
      <4>1. PICK i \in Lines : r = recipient[i]
        BY <3>1
      <4>2. Amount(r, n) = given[i]
        BY <1>5, <2>1, <4>1
      <4> QED
        BY <1>5, <4>2
    <3>2. CASE r \notin used
      BY <2>2, <3>2
    <3> QED
      BY <3>1, <3>2
  <2>4. \A i \in Lines : given[i] = amounts[recipient[i]]
    BY <1>2, <1>5, <2>1
  <2> QED
    BY <2>2, <2>3, <2>4
<1>10. \A i, j \in Lines : recipient[i] = recipient[j] => i = j
  BY DEF EachRecipientOnce
<1>11. used \in SUBSET Recipients
  BY <1>2
<1>12. Moved(given, Lines, amounts, used)
  <2> HIDE DEF recipient, amounts
  <2> QED
    BY <1>1, <1>2, <1>5, <1>9, <1>10, TotalMoves
<1> HIDE DEF amounts, used
<1>13. Total(amounts, Recipients) = Total(amounts, used)
  <2>1. Recipients \in SUBSET Recipients
    OBVIOUS
  <2> QED
    BY <1>9, <1>11, <2>1, RecipientsFinite, TotalOfPart
<1> QED
  BY <1>8, <1>12, <1>13, SumIs DEF Moved, amounts

(* With ratios that sum to one, the shares of the lines that are rounded up *)
(* are not whole.                                                           *)
LEMMA AuditIsClose ==
    ASSUME asked \in AuditCalls, EachRecipientOnce, NEW n, Adjusts(n),
           SumOver([i \in Lines |-> asked.lines[i].ratio], Lines) = Parts, NEW k \in Lines
    PROVE  Abs(Amount(asked.lines[k].recipientId, n) * Parts - Exact(k)) < Parts
<1> DEFINE ratios == [i \in Lines |-> asked.lines[i].ratio]
           exact == [i \in Lines |-> Exact(i)]
           whole == [i \in Lines |-> Parts * Floors[i]]
           fractions == [i \in Lines |-> Fraction(i)]
           broken == {i \in Lines : Fraction(i) # 0}
<1>1. /\ n \in Int /\ Abs(n) \in Nat /\ Cardinality(Top(Abs(n))) = Abs(n)
      /\ Total(Floors, Lines) \in Int /\ n = asked.amount - Total(Floors, Lines)
      /\ Floors \in [Lines -> Int] /\ IsFiniteSet(Lines) /\ Lines \in SUBSET Lines
      /\ Top(Abs(n)) \in SUBSET Lines /\ IsFiniteSet(Top(Abs(n)))
  BY AdjustmentsFit
<1>2. /\ asked.amount \in Nat /\ Parts \in Nat \ {0}
      /\ \A i \in Lines : /\ asked.lines[i].ratio \in Nat
                          /\ Exact(i) \in Nat /\ Exact(i) = asked.amount * asked.lines[i].ratio
                          /\ Fraction(i) \in 0 .. Parts - 1 /\ Floors[i] = Floor(i)
                          /\ Floor(i) \in Nat /\ Exact(i) = Floor(i) * Parts + Fraction(i)
  BY FloorsAndFractions, SplitBounds
<1>3. /\ ratios \in [Lines -> Int] /\ exact \in [Lines -> Int] /\ fractions \in [Lines -> Int]
      /\ \A i \in Lines : /\ exact[i] = asked.amount * ratios[i] /\ fractions[i] = Fraction(i)
                          /\ exact[i] = Exact(i)
  BY <1>2
<1>4. /\ whole \in [Lines -> Int]
      /\ \A i \in Lines : whole[i] = Parts * Floors[i] /\ exact[i] = whole[i] + fractions[i]
  <2>1. \A i \in Lines : Parts * Floors[i] \in Int /\ Exact(i) = Parts * Floors[i] + Fraction(i)
    <3> TAKE i \in Lines
    <3>1. Floors[i] = Floor(i) /\ Floor(i) \in Nat /\ Exact(i) = Floor(i) * Parts + Fraction(i)
      BY <1>2
    <3>2. Parts * Floor(i) = Floor(i) * Parts /\ Parts * Floor(i) \in Int
      BY <1>2, <3>1
    <3> QED
      BY <3>1, <3>2
  <2> QED
    BY <1>3, <2>1
<1>5. Total(ratios, Lines) = Parts
  BY SumIs
<1> HIDE DEF ratios, exact, whole, fractions
<1>6. Total(exact, Lines) = asked.amount * Parts
  <2>1. asked.amount \in Int
    BY <1>2
  <2>2. Scaled(exact, asked.amount, ratios, Lines)
    BY <1>1, <1>3, <2>1, TotalScales
  <2> QED
    BY <1>5, <2>2 DEF Scaled
<1>7. Total(fractions, Lines) = n * Parts
  <2>1. Parts \in Int
    BY <1>2
  <2>2. Scaled(whole, Parts, Floors, Lines)
    <3>1. \A i \in Lines : whole[i] = Parts * Floors[i]
      BY <1>4
    <3> QED
      BY <1>1, <1>4, <2>1, <3>1, TotalScales
  <2>3. Added(exact, whole, fractions, Lines)
    <3>1. \A i \in Lines : exact[i] = whole[i] + fractions[i]
      BY <1>4
    <3> QED
      BY <1>1, <1>3, <1>4, <3>1, TotalAdds
  <2>4. Total(fractions, Lines) \in Int
    BY <1>1, <1>3, TotalIsInt
  <2>5. asked.amount * Parts = Parts * Total(Floors, Lines) + Total(fractions, Lines)
    BY <1>6, <2>2, <2>3 DEF Scaled, Added
  <2>6. \A a, t, p \in Int : (a - t) * p = a * p - p * t
    OBVIOUS
  <2>7. n * Parts = asked.amount * Parts - Parts * Total(Floors, Lines)
    BY <1>1, <1>2, <2>1, <2>6
  <2>8. asked.amount * Parts \in Int /\ Parts * Total(Floors, Lines) \in Int
    BY <1>1, <1>2
  <2> QED
    BY <2>4, <2>5, <2>7, <2>8
<1>8. n \in Nat /\ Abs(n) = n
  <2>1. Total(fractions, Lines) \in Nat
    <3>1. \A i \in Lines : fractions[i] >= 0
      BY <1>2, <1>3
    <3> QED
      BY <1>1, <1>3, <3>1, TotalAtLeastZero
  <2>2. 0 * Parts <= n * Parts
    BY <1>2, <1>7, <2>1
  <2>3. 0 <= n
    BY <1>1, <1>2, <2>2, Cancelling
  <2> QED
    BY <1>1, <2>3 DEF Abs
<1>9. broken \in SUBSET Lines /\ n <= Cardinality(broken)
  <2>1. broken \in SUBSET Lines
    OBVIOUS
  <2>2. \A i \in Lines \ broken : fractions[i] = 0
    BY <1>3
  <2>3. \A i \in broken : fractions[i] < Parts
    BY <1>2, <1>3
  <2>4. fractions \in [Lines -> Int] /\ Parts \in Nat \ {0} /\ Total(fractions, Lines) = n * Parts
    BY <1>2, <1>3, <1>7
  <2> HIDE DEF broken
  <2>5. IsFiniteSet(Lines) /\ Lines \in SUBSET Lines /\ n \in Nat
    BY <1>1, <1>8
  <2> QED
    BY <2>1, <2>2, <2>3, <2>4, <2>5, PartsAreMany
<1>10. k \in Top(n) => Fraction(k) # 0
  <2> SUFFICES ASSUME k \in Top(n), Fraction(k) = 0 PROVE FALSE
    OBVIOUS
  <2> DEFINE ahead == {j \in Lines : Precedes(j, k)}
  <2>1. Cardinality(ahead) < n
    BY DEF Top
  <2>2. broken \in SUBSET ahead
    <3> SUFFICES ASSUME NEW i \in Lines, Fraction(i) # 0 PROVE Precedes(i, k)
      OBVIOUS
    <3>1. Fraction(i) \in 0 .. Parts - 1
      BY <1>2
    <3> QED
      BY <1>2, <3>1 DEF Precedes
  <2>3. IsFiniteSet(ahead) /\ Cardinality(ahead) \in Nat
    <3>1. ahead \in SUBSET Lines
      OBVIOUS
    <3> QED
      BY <1>1, <3>1, FS_Subset, FS_CardinalityType
  <2> HIDE DEF ahead, broken
  <2>4. Cardinality(broken) <= Cardinality(ahead) /\ Cardinality(broken) \in Nat
    BY <2>2, <2>3, FS_Subset, FS_CardinalityType
  <2> QED
    BY <1>8, <1>9, <2>1, <2>3, <2>4
<1>11. Amount(asked.lines[k].recipientId, n) = Floor(k) + IF k \in Top(n) THEN 1 ELSE 0
  <2>1. Amount(asked.lines[k].recipientId, n) = Adjusted(k, n)
    BY <1>1, AmountsOfLines
  <2>2. ~(n < 0)
    BY <1>8
  <2> QED
    BY <1>8, <2>1, <2>2 DEF Adjusted
<1>12. /\ Floor(k) \in Nat /\ Fraction(k) \in 0 .. Parts - 1
       /\ Exact(k) = Floor(k) * Parts + Fraction(k)
  BY <1>2
<1> DEFINE got == Amount(asked.lines[k].recipientId, n)
           f == Floor(k)
           r == Fraction(k)
           p == f * Parts
<1>13. p \in Int /\ f \in Int /\ r \in 0 .. Parts - 1 /\ Exact(k) = p + r /\ Parts \in Nat
  BY <1>2, <1>12
<1>14. got = f \/ (got = f + 1 /\ r # 0)
  BY <1>10, <1>11, <1>12
<1>15. got * Parts = p \/ (got * Parts = p + Parts /\ r # 0)
  <2>1. (f + 1) * Parts = p + Parts
    BY <1>2, <1>13
  <2> HIDE DEF got, f, r
  <2> QED
    BY <1>14, <2>1
<1> HIDE DEF got, f, r, p
<1>16. Abs(got * Parts - Exact(k)) < Parts
  BY <1>13, <1>15 DEF Abs
<1> QED
  BY <1>16 DEF got

(* Tiers in the order of their scores.                                      *)
Better == {p \in Lines \X Lines : Ahead(p[1], p[2])}
Best(n) == {i \in Lines : Rank(Better, Lines, i) < n}

LEMMA TiersAreOrdered ==
    ASSUME asked \in PlanCalls
    PROVE  /\ StrictOrder(Better, Lines)
           /\ asked.amount \in Nat /\ Minimums \in [Lines -> Nat] /\ Minimums \in [Lines -> Int]
           /\ \A i \in Lines : /\ Minimums[i] = asked.lines[i].minimumAmount
                               /\ Rank(Better, Lines, i) = Cardinality({j \in Lines : Ahead(j, i)})
                               /\ Rank(Better, Lines, i) \in 0 .. Cardinality(Lines) - 1
           /\ \A i, j \in Lines :
                 /\ Rank(Better, Lines, i) = Rank(Better, Lines, j) => i = j
                 /\ Ahead(i, j) <=> Rank(Better, Lines, i) < Rank(Better, Lines, j)
<1>1. asked.amount \in 0 .. MaxAmount /\ asked.lines \in Tiers
  BY DEF PlanCalls
<1>2. asked.amount \in Nat
  BY <1>1, SplitBounds
<1>3. \A i \in Lines : i \in Nat /\ asked.lines[i].score \in Nat /\ asked.lines[i].minimumAmount \in Nat
  <2> TAKE i \in Lines
  <2>1. asked.lines[i] \in [minimumAmount : 0 .. MaxScore, score : 0 .. MaxScore]
    BY <1>1 DEF Tiers
  <2>2. asked.lines[i].score \in 0 .. MaxScore /\ asked.lines[i].minimumAmount \in 0 .. MaxScore
    BY <2>1
  <2> QED
    BY <2>2, SplitBounds, LinesArePositions
<1>4. \A i, j \in Lines : <<j, i>> \in Better <=> Ahead(j, i)
  BY DEF Better
<1>5. \A i, j \in Lines :
         <<j, i>> \in Better <=> (asked.lines[j].score > asked.lines[i].score
                                    \/ (asked.lines[j].score = asked.lines[i].score /\ j < i))
  BY <1>4 DEF Ahead
<1>6. StrictOrder(Better, Lines)
  BY <1>3, <1>5 DEF StrictOrder
<1>7. \A i \in Lines : Rank(Better, Lines, i) = Cardinality({j \in Lines : Ahead(j, i)})
  <2> TAKE i \in Lines
  <2>1. {j \in Lines : <<j, i>> \in Better} = {j \in Lines : Ahead(j, i)}
    BY <1>4
  <2> QED
    BY <2>1 DEF Rank
<1>8. /\ \A i \in Lines : Rank(Better, Lines, i) \in 0 .. Cardinality(Lines) - 1
      /\ \A i, j \in Lines : Rank(Better, Lines, i) = Rank(Better, Lines, j) => i = j
      /\ \A i, j \in Lines : <<i, j>> \in Better <=> Rank(Better, Lines, i) < Rank(Better, Lines, j)
  BY <1>6, LinesArePositions, Ranks
<1>9. Minimums \in [Lines -> Nat] /\ Minimums \in [Lines -> Int]
      /\ \A i \in Lines : Minimums[i] = asked.lines[i].minimumAmount
  BY <1>3 DEF Minimums
<1> QED
  BY <1>2, <1>4, <1>6, <1>7, <1>8, <1>9

(* The k-th tier is the one that the k best have and the k - 1 best do not. *)
LEMMA InOrderIs ==
    ASSUME asked \in PlanCalls, NEW k \in 1 .. Cardinality(Lines)
    PROVE  /\ InOrder(k) \in Lines /\ Rank(Better, Lines, InOrder(k)) = k - 1
           /\ InOrder(k) \notin Best(k - 1) /\ Best(k) = Best(k - 1) \cup {InOrder(k)}
<1> DEFINE rank == [i \in Lines |-> Rank(Better, Lines, i)]
<1>0. \A i \in Lines : rank[i] = Rank(Better, Lines, i)
  OBVIOUS
<1> HIDE DEF rank
<1>a. StrictOrder(Better, Lines)
  BY TiersAreOrdered
<1>1. /\ \A i \in Lines : rank[i] \in 0 .. Cardinality(Lines) - 1
      /\ \A i, j \in Lines : rank[i] = rank[j] => i = j
  <2>1. /\ \A i \in Lines : Rank(Better, Lines, i) \in 0 .. Cardinality(Lines) - 1
        /\ \A i, j \in Lines : Rank(Better, Lines, i) = Rank(Better, Lines, j) => i = j
    BY TiersAreOrdered
  <2> QED
    BY <1>0, <2>1
<1>c. \A i \in Lines : rank[i] = Cardinality({j \in Lines : Ahead(j, i)})
  BY <1>0, TiersAreOrdered
<1>b. \A m \in Nat : /\ Best(m) \in SUBSET Lines
                    /\ \A i \in Lines : i \in Best(m) <=> rank[i] < m
  BY <1>0 DEF Best
<1>2. Cardinality(Lines) \in Nat /\ k \in Nat /\ k - 1 \in Nat /\ k <= Cardinality(Lines)
  BY LinesArePositions, FS_CardinalityType
<1>3. \E i \in Lines : rank[i] = k - 1
  <2>1. IsFiniteSet(Best(k)) /\ Cardinality(Best(k)) = k
    BY <1>a, <1>2, LinesArePositions, FirstOnes DEF Best
  <2>2. Cardinality(Best(k - 1)) = k - 1
    <3>1. k - 1 <= Cardinality(Lines)
      BY <1>2
    <3> QED
      BY <1>a, <1>2, <3>1, LinesArePositions, FirstOnes DEF Best
  <2>3. Best(k) # Best(k - 1)
    BY <1>2, <2>1, <2>2
  <2>4. \A i \in Best(k - 1) : i \in Best(k)
    <3> TAKE i \in Best(k - 1)
    <3>1. i \in Lines /\ rank[i] < k - 1
      BY <1>2, <1>b
    <3>2. rank[i] \in Int /\ rank[i] < k
      BY <1>1, <1>2, <3>1
    <3> QED
      BY <1>2, <1>b, <3>1, <3>2
  <2>5. PICK i \in Best(k) : i \notin Best(k - 1)
    BY <2>3, <2>4
  <2>6. i \in Lines /\ rank[i] < k /\ ~(rank[i] < k - 1) /\ rank[i] \in Nat
    BY <1>1, <1>2, <1>b, <2>5
  <2> QED
    BY <1>2, <2>6
<1>4. InOrder(k) \in Lines /\ rank[InOrder(k)] = k - 1
  <2>1. InOrder(k) \in Lines /\ Cardinality({j \in Lines : Ahead(j, InOrder(k))}) = k - 1
    <3>1. \E i \in Lines : Cardinality({j \in Lines : Ahead(j, i)}) = k - 1
      BY <1>c, <1>3
    <3> QED
      BY <3>1 DEF InOrder
  <2> QED
    BY <1>c, <2>1
<1>5. \A i \in Lines : /\ i \in Best(k - 1) <=> rank[i] < k - 1
                       /\ i \in Best(k) <=> rank[i] < k
                       /\ rank[i] \in Int
  BY <1>1, <1>2, <1>b
<1>6. \A i \in Lines : i \in Best(k) <=> (i \in Best(k - 1) \/ i = InOrder(k))
  BY <1>1, <1>2, <1>4, <1>5
<1>7. Best(k) \in SUBSET Lines /\ Best(k - 1) \in SUBSET Lines
  BY <1>2, <1>b
<1>8. Best(k) = Best(k - 1) \cup {InOrder(k)}
  BY <1>4, <1>6, <1>7
<1>9. InOrder(k) \notin Best(k - 1)
  BY <1>2, <1>4, <1>5
<1> QED
  BY <1>0, <1>4, <1>8, <1>9

(* The turns of the waterfall.                                              *)
PlanStates == [left : Nat, satisfied : SUBSET Lines]
PlanTurn(k, before) ==
    LET minimum == asked.lines[InOrder(k)].minimumAmount
    IN  IF Cardinality(before.satisfied) < k - 1 \/ minimum > before.left THEN before
        ELSE [left |-> before.left - minimum, satisfied |-> before.satisfied \cup {InOrder(k)}]

LEMMA PlanTurns ==
    ASSUME asked \in PlanCalls
    PROVE  /\ PlanUpTo[0] = [left |-> asked.amount, satisfied |-> {}]
           /\ \A k \in 1 .. Cardinality(Lines) : PlanUpTo[k] = PlanTurn(k, PlanUpTo[k - 1])
<1> DEFINE L == Cardinality(Lines)
           start == [left |-> asked.amount, satisfied |-> {}]
           step == [k \in 1 .. L |-> [b \in PlanStates |-> PlanTurn(k, b)]]
           Solves(f) == f = [k \in 0 .. L |-> IF k = 0 THEN start ELSE PlanTurn(k, f[k - 1])]
<1>1. L \in Nat /\ start \in PlanStates
  BY LinesArePositions, FS_CardinalityType, TiersAreOrdered DEF PlanStates
<1>2. ASSUME NEW k \in 1 .. L, NEW b \in PlanStates PROVE PlanTurn(k, b) \in PlanStates
  <2>1. InOrder(k) \in Lines
    BY InOrderIs
  <2>2. asked.lines[InOrder(k)].minimumAmount \in Nat
    BY <2>1, TiersAreOrdered
  <2>3. b.left \in Nat /\ b.satisfied \in SUBSET Lines
    BY DEF PlanStates
  <2> DEFINE minimum == asked.lines[InOrder(k)].minimumAmount
  <2>4. ~(minimum > b.left) => b.left - minimum \in Nat
    BY <2>2, <2>3
  <2> QED
    BY <2>1, <2>3, <2>4 DEF PlanTurn, PlanStates
<1>3. step \in [1 .. L -> [PlanStates -> PlanStates]]
  BY <1>2
<1>4. PICK f \in [0 .. L -> PlanStates] : Turns(f, start, step, L)
  <2> HIDE DEF L, start, step
  <2> QED
    BY <1>1, <1>3, TurnsExist
<1>5. Solves(f)
  <2>1. ASSUME NEW k \in 0 .. L PROVE f[k] = IF k = 0 THEN start ELSE PlanTurn(k, f[k - 1])
    <3>1. CASE k = 0
      BY <1>4, <3>1 DEF Turns
    <3>2. CASE k # 0
      <4>1. k \in 1 .. L /\ k - 1 \in 0 .. L
        BY <1>1, <3>2
      <4>2. f[k] = step[k][f[k - 1]] /\ f[k - 1] \in PlanStates
        BY <1>4, <4>1 DEF Turns
      <4>3. step[k][f[k - 1]] = PlanTurn(k, f[k - 1])
        BY <4>1, <4>2
      <4> QED
        BY <3>2, <4>2, <4>3
    <3> QED
      BY <3>1, <3>2
  <2>2. f = [k \in 0 .. L |-> f[k]]
    OBVIOUS
  <2> QED
    BY <2>1, <2>2
<1>6. PlanUpTo = CHOOSE g : Solves(g)
  BY DEF PlanUpTo, PlanTurn
<1>7. Solves(PlanUpTo)
  <2> HIDE DEF Solves
  <2> QED
    BY <1>5, <1>6
<1>8. \A k \in 0 .. L : PlanUpTo[k] = IF k = 0 THEN start ELSE PlanTurn(k, PlanUpTo[k - 1])
  BY <1>7
<1>9. 0 \in 0 .. L /\ \A k \in 1 .. L : k \in 0 .. L /\ k # 0
  BY <1>1
<1> QED
  BY <1>8, <1>9

(* After k turns the best tiers are satisfied, as many as the amount allows *)
(* among the first k.                                                       *)
Satisfies(m, p) ==
    /\ p.satisfied = Best(m) /\ p.left \in Nat
    /\ p.left + Total(Minimums, Best(m)) = asked.amount

Filled(k) ==
    \E m \in 0 .. k : /\ Satisfies(m, PlanUpTo[k])
                      /\ m < k => Minimums[InOrder(m + 1)] > PlanUpTo[k].left

LEMMA BestGrows ==
    ASSUME asked \in PlanCalls, NEW k \in 1 .. Cardinality(Lines)
    PROVE  /\ InOrder(k) \in Lines /\ Best(k) = Best(k - 1) \cup {InOrder(k)}
           /\ IsFiniteSet(Best(k - 1)) /\ Best(k - 1) \in SUBSET Lines
           /\ Cardinality(Best(k - 1)) = k - 1
           /\ Total(Minimums, Best(k - 1)) \in Int
           /\ Total(Minimums, Best(k)) = Minimums[InOrder(k)] + Total(Minimums, Best(k - 1))
<1>1. /\ InOrder(k) \in Lines /\ InOrder(k) \notin Best(k - 1)
      /\ Best(k) = Best(k - 1) \cup {InOrder(k)}
  BY InOrderIs
<1>2. StrictOrder(Better, Lines) /\ Minimums \in [Lines -> Int]
  BY TiersAreOrdered
<1>3. k - 1 \in Nat /\ k - 1 <= Cardinality(Lines)
  BY LinesArePositions, FS_CardinalityType
<1>4. IsFiniteSet(Best(k - 1)) /\ Cardinality(Best(k - 1)) = k - 1
  <2> DEFINE n == k - 1
  <2>1. n \in Nat /\ n <= Cardinality(Lines)
    BY <1>3
  <2> HIDE DEF n
  <2>2. StrictOrder(Better, Lines)
    BY <1>2
  <2>3. IsFiniteSet(Best(n)) /\ Cardinality(Best(n)) = n
    BY <2>1, <2>2, LinesArePositions, FirstOnes DEF Best
  <2> QED
    BY <2>3 DEF n
<1>5. Best(k - 1) \in SUBSET Lines
  BY DEF Best
<1>6. Grown(Minimums, Best(k - 1), InOrder(k))
  BY <1>1, <1>2, <1>4, <1>5, TotalGrows
<1> QED
  BY <1>1, <1>4, <1>5, <1>6 DEF Grown

LEMMA PlanFills ==
    ASSUME asked \in PlanCalls
    PROVE  Filled(Cardinality(Lines))
<1> DEFINE L == Cardinality(Lines)
           N == {k \in Nat : k <= L => Filled(k)}
<1>1. L \in Nat
  BY LinesArePositions, FS_CardinalityType
<1>2. 0 \in N
  <2>1. Best(0) = {}
    <3>1. \A i \in Lines : Rank(Better, Lines, i) \in 0 .. L - 1
      BY TiersAreOrdered
    <3> QED
      BY <1>1, <3>1 DEF Best
  <2>2. Total(Minimums, {}) = 0 /\ asked.amount \in Nat
    BY TiersAreOrdered, TotalOfNone
  <2>3. PlanUpTo[0].left = asked.amount /\ PlanUpTo[0].satisfied = {}
    BY PlanTurns
  <2>4. Satisfies(0, PlanUpTo[0])
    BY <2>1, <2>2, <2>3 DEF Satisfies
  <2> QED
    BY <2>4 DEF Filled
<1>3. ASSUME NEW j \in N PROVE j + 1 \in N
  <2> SUFFICES ASSUME j + 1 <= L PROVE Filled(j + 1)
    OBVIOUS
  <2> DEFINE k == j + 1
             before == PlanUpTo[j]
             minimum == Minimums[InOrder(k)]
  <2>1. j \in Nat /\ k \in 1 .. L /\ k - 1 = j /\ j <= L
    BY <1>1
  <2>2. PICK m \in 0 .. j : /\ Satisfies(m, before)
                            /\ m < j => Minimums[InOrder(m + 1)] > before.left
    BY <1>3, <2>1 DEF Filled
  <2>3. m \in Nat /\ m <= j /\ m + 1 \in 1 .. L /\ (m + 1) - 1 = m
    BY <1>1, <2>1, <2>2
  <2>4. Cardinality(Best(m)) = m
    BY <2>3, BestGrows
  <2>5. PlanUpTo[k] = PlanTurn(k, before)
    BY <2>1, PlanTurns
  <2>6. InOrder(k) \in Lines /\ minimum = asked.lines[InOrder(k)].minimumAmount /\ minimum \in Nat
    BY <2>1, InOrderIs, TiersAreOrdered
  <2>7. before.satisfied = Best(m) /\ before.left \in Nat
        /\ before.left + Total(Minimums, Best(m)) = asked.amount
    BY <2>2 DEF Satisfies
  <2> HIDE DEF before, k, minimum
  <2>8. CASE m < j
    <3>1. PlanUpTo[k] = before
      BY <2>1, <2>3, <2>4, <2>5, <2>7, <2>8 DEF PlanTurn
    <3>2. m \in 0 .. k /\ m < k => Minimums[InOrder(m + 1)] > before.left
      BY <2>2, <2>8
    <3>3. m \in 0 .. k
      BY <2>1, <2>3
    <3> QED
      BY <2>2, <3>1, <3>2, <3>3 DEF Filled, k
  <2>9. CASE m = j /\ minimum > before.left
    <3>1. PlanUpTo[k] = before
      BY <2>5, <2>6, <2>9 DEF PlanTurn
    <3>2. m + 1 = k /\ m \in 0 .. k
      BY <2>1, <2>3, <2>9
    <3>3. Minimums[InOrder(m + 1)] > before.left
      BY <2>9, <3>2 DEF minimum
    <3> QED
      BY <2>2, <3>1, <3>2, <3>3 DEF Filled, k
  <2>10. CASE m = j /\ ~(minimum > before.left)
    <3>1. PlanUpTo[k] = [left |-> before.left - minimum, satisfied |-> before.satisfied \cup {InOrder(k)}]
      <4>1. ~(Cardinality(before.satisfied) < k - 1)
        BY <2>1, <2>3, <2>4, <2>7, <2>10
      <4> QED
        BY <2>5, <2>6, <2>10, <4>1 DEF PlanTurn
    <3>2. /\ Best(k) = Best(j) \cup {InOrder(k)} /\ Total(Minimums, Best(j)) \in Int
          /\ Total(Minimums, Best(k)) = minimum + Total(Minimums, Best(j))
      <4>1. /\ Best(k) = Best(k - 1) \cup {InOrder(k)} /\ Total(Minimums, Best(k - 1)) \in Int
            /\ Total(Minimums, Best(k)) = Minimums[InOrder(k)] + Total(Minimums, Best(k - 1))
        BY <2>1, BestGrows
      <4> QED
        BY <2>1, <4>1 DEF minimum
    <3>3. PlanUpTo[k].satisfied = Best(k) /\ PlanUpTo[k].left = before.left - minimum
      BY <2>7, <2>10, <3>1, <3>2
    <3>4. PlanUpTo[k].left \in Nat /\ PlanUpTo[k].left + Total(Minimums, Best(k)) = asked.amount
      <4>1. asked.amount \in Nat
        BY TiersAreOrdered
      <4>2. before.left + Total(Minimums, Best(j)) = asked.amount
        BY <2>7, <2>10
      <4> QED
        BY <2>6, <2>7, <2>10, <3>2, <3>3, <4>1, <4>2
    <3>5. Satisfies(k, PlanUpTo[k])
      BY <3>3, <3>4 DEF Satisfies
    <3>6. k \in 0 .. k /\ ~(k < k)
      BY <2>1
    <3> QED
      BY <3>5, <3>6 DEF Filled, k
  <2> QED
    BY <2>1, <2>3, <2>8, <2>9, <2>10
<1>4. L \in N
  <2>1. N \in SUBSET Nat
    OBVIOUS
  <2> HIDE DEF N, L
  <2> QED
    BY <1>1, <1>2, <1>3, <2>1, AllNaturals
<1> QED
  BY <1>4

(* A sum of naturals over more is no less.                                  *)
LEMMA TotalOfMore ==
    ASSUME NEW D, NEW a \in [D -> Nat], NEW S \in SUBSET D, IsFiniteSet(S), NEW T \in SUBSET S
    PROVE  Total(a, T) <= Total(a, S)
<1> DEFINE part == [i \in D |-> IF i \in T THEN a[i] ELSE 0]
<1>1. /\ part \in [D -> Int] /\ a \in [D -> Int]
      /\ \A i \in D : part[i] <= a[i] /\ (i \in T => part[i] = a[i]) /\ (i \notin T => part[i] = 0)
  OBVIOUS
<1> HIDE DEF part
<1>2. IsFiniteSet(T) /\ T \in SUBSET D /\ T \in SUBSET (D \cap D)
  BY FS_Subset
<1>3. Total(part, S) <= Total(a, S)
  BY <1>1, TotalAtMost
<1>4. Total(part, S) = Total(part, T)
  <2>1. \A i \in S \ T : part[i] = 0
    BY <1>1
  <2> QED
    BY <1>1, <2>1, TotalOfPart
<1>5. Total(part, T) = Total(a, T)
  <2>1. \A i \in T : part[i] = a[i]
    BY <1>1, <1>2
  <2> QED
    BY <1>1, <1>2, <2>1, TotalSame
<1> QED
  BY <1>3, <1>4, <1>5

(* What plan() answers.                                                     *)
LEMMA PlanAddsUp ==
    ASSUME asked \in PlanCalls
    PROVE  LET p == PlanUpTo[Cardinality(Lines)]
           IN  /\ p.satisfied = {i \in Lines : MinimumsUpTo(i) <= asked.amount}
               /\ p.left + SumOver(Minimums, p.satisfied) = asked.amount
<1> DEFINE L == Cardinality(Lines)
           p == PlanUpTo[L]
<1>1. PICK m \in 0 .. L : Satisfies(m, p) /\ (m < L => Minimums[InOrder(m + 1)] > p.left)
  BY PlanFills DEF Filled
<1>2. L \in Nat /\ IsFiniteSet(Lines) /\ m \in Nat /\ m <= L
  BY <1>1, LinesArePositions, FS_CardinalityType
<1>3. /\ p.satisfied = Best(m) /\ p.left \in Nat
      /\ p.left + Total(Minimums, Best(m)) = asked.amount
  BY <1>1 DEF Satisfies
<1> HIDE DEF p, L
<1>4. Minimums \in [Lines -> Nat] /\ Minimums \in [Lines -> Int] /\ asked.amount \in Nat
  BY TiersAreOrdered
<1>5. ASSUME NEW n \in Nat PROVE IsFiniteSet(Best(n)) /\ Best(n) \in SUBSET Lines /\ Total(Minimums, Best(n)) \in Int
  <2>1. Best(n) \in SUBSET Lines
    BY DEF Best
  <2>2. IsFiniteSet(Best(n))
    BY <1>2, <2>1, FS_Subset
  <2> QED
    BY <1>4, <2>1, <2>2, TotalIsInt
<1>6. ASSUME NEW i \in Lines
      PROVE  /\ Rank(Better, Lines, i) \in 0 .. L - 1
             /\ MinimumsUpTo(i) = Total(Minimums, Best(Rank(Better, Lines, i) + 1))
  <2> DEFINE rank == [j \in Lines |-> Rank(Better, Lines, j)]
  <2>1. \A j \in Lines : rank[j] = Rank(Better, Lines, j)
    OBVIOUS
  <2> HIDE DEF rank
  <2>2. \A j \in Lines : rank[j] \in 0 .. L - 1
    BY <2>1, TiersAreOrdered DEF L
  <2>3. \A j \in Lines : rank[j] = rank[i] => j = i
    BY <2>1, TiersAreOrdered
  <2>4. \A j \in Lines : Ahead(j, i) <=> rank[j] < rank[i]
    BY <2>1, TiersAreOrdered
  <2>5. \A j \in Lines : (Ahead(j, i) \/ j = i) <=> rank[j] < rank[i] + 1
    BY <1>2, <2>2, <2>3, <2>4
  <2>6. {j \in Lines : Ahead(j, i) \/ j = i} = Best(rank[i] + 1)
    BY <2>1, <2>5 DEF Best
  <2> QED
    BY <2>1, <2>2, <2>6, SumIs DEF MinimumsUpTo
<1>7. ASSUME NEW i \in Lines PROVE i \in Best(m) <=> MinimumsUpTo(i) <= asked.amount
  <2> DEFINE r == Rank(Better, Lines, i)
  <2>1. r \in Nat /\ r < L /\ MinimumsUpTo(i) = Total(Minimums, Best(r + 1)) /\ r + 1 \in Nat
    BY <1>2, <1>6
  <2>2. i \in Best(m) <=> r < m
    BY DEF Best
  <2> HIDE DEF r
  <2>3. ASSUME NEW a \in Nat, NEW b \in Nat, a <= b PROVE Total(Minimums, Best(a)) <= Total(Minimums, Best(b))
    <3>1. Best(a) \in SUBSET Best(b)
      <4>1. \A j \in Lines : Rank(Better, Lines, j) \in 0 .. L - 1
        BY <1>6
      <4>2. \A j \in Lines : Rank(Better, Lines, j) < a => Rank(Better, Lines, j) < b
        BY <1>2, <2>3, <4>1
      <4> QED
        BY <4>2 DEF Best
    <3>2. IsFiniteSet(Best(b)) /\ Best(b) \in SUBSET Lines
      BY <1>5
    <3> QED
      BY <1>4, <3>1, <3>2, TotalOfMore
  <2>4. CASE r < m
    <3>1. Total(Minimums, Best(r + 1)) <= Total(Minimums, Best(m))
      <4>1. r + 1 <= m
        BY <1>2, <2>1, <2>4
      <4> QED
        BY <1>2, <2>1, <2>3, <4>1
    <3>2. Total(Minimums, Best(r + 1)) \in Int /\ Total(Minimums, Best(m)) \in Int
      BY <1>2, <1>5, <2>1
    <3> QED
      BY <1>3, <1>4, <2>1, <2>2, <2>4, <3>1, <3>2
  <2>5. CASE ~(r < m)
    <3>1. m + 1 \in 1 .. L /\ m < L /\ (m + 1) - 1 = m /\ m + 1 \in Nat /\ m + 1 <= r + 1
      BY <1>2, <2>1, <2>5
    <3>2. Total(Minimums, Best(m + 1)) <= Total(Minimums, Best(r + 1))
      BY <2>1, <2>3, <3>1
    <3>3. Total(Minimums, Best(m + 1)) = Minimums[InOrder(m + 1)] + Total(Minimums, Best(m))
          /\ InOrder(m + 1) \in Lines
      BY <3>1, BestGrows DEF L
    <3>4. Minimums[InOrder(m + 1)] > p.left /\ Minimums[InOrder(m + 1)] \in Nat
      BY <1>1, <1>4, <3>1, <3>3 DEF p
    <3>5. Total(Minimums, Best(r + 1)) \in Int /\ Total(Minimums, Best(m)) \in Int
      BY <1>2, <1>5, <2>1
    <3>6. ~(MinimumsUpTo(i) <= asked.amount)
      BY <1>3, <1>4, <2>1, <3>2, <3>3, <3>4, <3>5
    <3> QED
      BY <2>2, <2>5, <3>6
  <2> QED
    BY <2>4, <2>5
<1>8. Best(m) \in SUBSET Lines
  BY <1>2, <1>5
<1>9. p.satisfied = {i \in Lines : MinimumsUpTo(i) <= asked.amount}
  BY <1>3, <1>7, <1>8
<1>10. p.left + SumOver(Minimums, p.satisfied) = asked.amount
  BY <1>3, SumIs
<1> QED
  BY <1>9, <1>10 DEF p, L

SplitInv == asked \in AuditCalls \cup PlanCalls /\ SplitsAddUp

LEMMA SplitInitSound == SplitInit => SplitInv
  BY DEF SplitInit, SplitInv, AuditCalls, PlanCalls, SplitsAddUp, NoAnswer

LEMMA SplitStep == SplitInv /\ [SplitNext]_splitVars => SplitInv'
<1> SUFFICES ASSUME SplitInv, [SplitNext]_splitVars PROVE SplitInv'
  OBVIOUS
<1>1. CASE Audit
  <2> DEFINE n == asked.amount - SumOver(Floors, Lines)
             amounts == [r \in Recipients |-> Amount(r, n)]
  <2>1. asked' = asked /\ asked \in AuditCalls
    BY <1>1 DEF Audit, SplitInv, AuditCalls, PlanCalls
  <2>2. \/ answer' = Overflow
        \/ /\ answer' = [kind |-> "amounts", amounts |-> amounts]
           /\ Lines # {} => Adjusts(n)
    <3>1. ASSUME Lines # {}, Abs(n) > (Cardinality(Lines) + 1) \div 2 PROVE answer' = Overflow
      BY <1>1, <3>1 DEF Audit
    <3>2. ASSUME Lines = {} \/ ~(Abs(n) > (Cardinality(Lines) + 1) \div 2)
          PROVE  answer' = [kind |-> "amounts", amounts |-> amounts]
      BY <1>1, <3>2 DEF Audit
    <3>3. ASSUME Lines # {}, ~(Abs(n) > (Cardinality(Lines) + 1) \div 2) PROVE Adjusts(n)
      <4>1. Abs(n) \in Int
        <5>1. Total(Floors, Lines) \in Int /\ asked.amount \in Nat
          <6>1. Floors \in [Lines -> Int] /\ Lines \in SUBSET Lines /\ asked.amount \in Nat
            BY <2>1, FloorsAndFractions
          <6> QED
            BY <6>1, LinesArePositions, TotalIsInt
        <5>2. n \in Int
          BY <5>1, SumIs
        <5> QED
          BY <5>2 DEF Abs
      <4>2. (Cardinality(Lines) + 1) \div 2 \in Int
        BY LinesArePositions, FS_CardinalityType
      <4> QED
        BY <3>3, <4>1, <4>2 DEF Adjusts
    <3> QED
      BY <3>1, <3>2, <3>3
  <2> HIDE DEF n
  <2>3. CASE answer' = Overflow
    BY <2>1, <2>3 DEF SplitInv, SplitsAddUp, Overflow
  <2>4. CASE answer' = [kind |-> "amounts", amounts |-> amounts] /\ (Lines # {} => Adjusts(n))
    <3>1. answer'.kind = "amounts" /\ answer'.amounts = amounts
      BY <2>4
    <3>2. EachRecipientOnce' <=> EachRecipientOnce
      BY <2>1 DEF EachRecipientOnce
    <3>3. \A i \in Lines : Exact(i)' = Exact(i)
      BY <2>1 DEF Exact
    <3>4. ASSUME EachRecipientOnce, Lines # {}
          PROVE  /\ SumOver(answer'.amounts, Recipients) = asked'.amount
                 /\ SumOver([i \in Lines |-> asked'.lines[i].ratio], Lines) = Parts =>
                       \A i \in Lines :
                          Abs(answer'.amounts[asked'.lines[i].recipientId] * Parts - Exact(i)') < Parts
      <4>1. Adjusts(n)
        BY <2>4, <3>4
      <4>2. SumOver(amounts, Recipients) = asked.amount
        BY <2>1, <3>4, <4>1, AuditAddsUp
      <4>3. ASSUME SumOver([i \in Lines |-> asked.lines[i].ratio], Lines) = Parts, NEW i \in Lines
            PROVE  Abs(amounts[asked.lines[i].recipientId] * Parts - Exact(i)) < Parts
        <5>1. Abs(Amount(asked.lines[i].recipientId, n) * Parts - Exact(i)) < Parts
          BY <2>1, <3>4, <4>1, <4>3, AuditIsClose
        <5>2. asked.lines[i].recipientId \in Recipients
          BY <2>1, FloorsAndFractions
        <5> QED
          BY <5>1, <5>2
      <4> HIDE DEF amounts
      <4> QED
        BY <2>1, <3>1, <3>3, <4>2, <4>3
    <3> HIDE DEF amounts
    <3>5. SplitsAddUp'
      BY <3>1, <3>2, <3>4 DEF SplitsAddUp
    <3> QED
      BY <2>1, <3>5 DEF SplitInv
  <2> QED
    BY <2>2, <2>3, <2>4
<1>2. CASE Plan
  <2> DEFINE p == PlanUpTo[Cardinality(Lines)]
  <2>1. asked' = asked /\ asked \in PlanCalls /\ answer' = [kind |-> "steps", plan |-> p]
    BY <1>2 DEF Plan, SplitInv, AuditCalls, PlanCalls
  <2>2. /\ p.satisfied = {i \in Lines : MinimumsUpTo(i) <= asked.amount}
        /\ p.left + SumOver(Minimums, p.satisfied) = asked.amount
    BY <2>1, PlanAddsUp
  <2> HIDE DEF p
  <2>3. answer'.kind = "steps" /\ answer'.plan = p
    BY <2>1
  <2>4. Minimums' = Minimums
    BY <2>1 DEF Minimums
  <2>5. \A i \in Lines : MinimumsUpTo(i)' = MinimumsUpTo(i)
    <3> TAKE i \in Lines
    <3>1. \A j \in Lines : Ahead(j, i)' <=> Ahead(j, i)
      BY <2>1 DEF Ahead
    <3>2. {j \in Lines : Ahead(j, i)' \/ j = i} = {j \in Lines : Ahead(j, i) \/ j = i}
      BY <3>1
    <3> QED
      BY <2>4, <3>2 DEF MinimumsUpTo
  <2>6. answer'.plan.satisfied = {i \in Lines : MinimumsUpTo(i)' <= asked'.amount}
    BY <2>1, <2>2, <2>3, <2>5
  <2>7. answer'.plan.left + SumOver(Minimums', answer'.plan.satisfied) = asked'.amount
    BY <2>1, <2>2, <2>3, <2>4
  <2>8. SplitsAddUp'
    BY <2>3, <2>6, <2>7 DEF SplitsAddUp
  <2> QED
    BY <2>1, <2>8 DEF SplitInv
<1>3. CASE UNCHANGED splitVars
  <2>1. asked' = asked /\ answer' = answer
    BY <1>3 DEF splitVars
  <2>2. SplitsAddUp' <=> SplitsAddUp
    BY <2>1 DEF SplitsAddUp, EachRecipientOnce, Exact, Minimums, MinimumsUpTo, Ahead
  <2> QED
    BY <2>1, <2>2 DEF SplitInv
<1> QED
  BY <1>1, <1>2, <1>3 DEF SplitNext

(* auditSplitRounding() hands out exactly the total, in shares less than a  *)
(* stroop from the exact ones, or refuses; plan() satisfies exactly the     *)
(* tiers the amount reaches: for any number of lines, ratios and minimums.  *)
THEOREM SplitsAlwaysAddUp == SplitSpec => []SplitsAddUp
<1>1. SplitInv => SplitsAddUp
  BY DEF SplitInv
<1> QED
  BY <1>1, SplitInitSound, SplitStep, PTL DEF SplitSpec
=============================================================================
