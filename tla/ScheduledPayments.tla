-------------------------- MODULE ScheduledPayments --------------------------
(***************************************************************************)
(* ScheduledPaymentManager of src/scheduler.ts: payments that are made at  *)
(* a later time.  A manager keeps the list in memory, writes all of it to  *)
(* localStorage after each change and reads it only when it is made; a     *)
(* timer per pending entry calls pay().  A restart, or another tab, makes  *)
(* another manager from what is stored then.                               *)
(***************************************************************************)
EXTENDS Naturals

CONSTANTS
    Payments,    \* the payments that are scheduled
    Tabs,        \* the tabs that may hold a manager
    FirstTab,    \* the only one that is open when the storage is not shared
    Delays,      \* how far ahead a payment is scheduled
    MaxTimer,    \* the longest delay setTimeout() can count; a longer one is none at all
    MaxNow,      \* bound: the time
    MaxStarts,   \* bound: managers made
    Storages     \* settings: [shared |-> may a second tab be open, full |-> may a save fail]

ASSUME ScheduleSettings ==
    /\ FirstTab \in Tabs /\ Delays \subseteq Nat
    /\ MaxTimer \in Nat /\ MaxNow \in Nat /\ MaxStarts \in Nat \ {0}
    /\ Storages \subseteq [shared : BOOLEAN, full : BOOLEAN]

VARIABLES
    plan,      \* _payments of each tab's manager: the status of each entry
    saved,     \* external: the list in localStorage
    dueAt,     \* executeAt of each entry
    alarm,     \* _timers of each tab: when the timer of an entry fires
    paying,    \* the calls of pay() that a manager awaits: <<tab, payment>>
    paidTimes, \* external: how often the ledger has applied a payment
    now,       \* Date.now(), in units of a delay
    starts,    \* managers made so far
    storage,   \* the setting of this behaviour
    payCalls,  \* history: the calls of pay() that each tab's manager has begun
    cut        \* history: the calls of pay() that a restart has cut off

scheduleVars == <<plan, saved, dueAt, alarm, paying, paidTimes, now, starts, storage,
                  payCalls, cut>>

Unset == MaxNow + MaxTimer + 1
Nothing == [s \in Payments |-> "none"]
NoAlarms == [s \in Payments |-> Unset]
Zeros == [s \in Payments |-> 0]

ScheduleInit ==
    /\ storage \in Storages
    /\ plan = [t \in Tabs |-> Nothing]
    /\ saved = Nothing
    /\ dueAt = NoAlarms
    /\ alarm = [t \in Tabs |-> NoAlarms]
    /\ paying = {}
    /\ paidTimes = Zeros /\ cut = Zeros
    /\ payCalls = [t \in Tabs |-> Zeros]
    /\ now = 0 /\ starts = 1

-----------------------------------------------------------------------------
(* save(): an error of the storage is swallowed.                            *)
Save(list) == (saved' = list) \/ (storage.full /\ UNCHANGED saved)

(* _arm(): when the timer fires that is set now for `at`.                   *)
FiresAt(at) == IF at > now /\ at - now <= MaxTimer THEN at ELSE now

(* The ledger applies the payments in S once more.                          *)
OnceMore(counts, S) ==
    [s \in Payments |-> IF s \in S THEN counts[s] + 1 ELSE counts[s]]

SchedulePayment(t, s, delay) ==
    /\ t = FirstTab \/ storage.shared
    /\ dueAt[s] = Unset /\ now + delay <= MaxNow
    /\ dueAt' = [dueAt EXCEPT ![s] = now + delay]
    /\ plan' = [plan EXCEPT ![t][s] = "pending"]
    /\ alarm' = [alarm EXCEPT ![t][s] = FiresAt(now + delay)]
    /\ Save(plan'[t])
    /\ UNCHANGED <<paying, paidTimes, now, starts, storage, payCalls, cut>>

(* cancel() finds the entry pending also while pay() is under way: the      *)
(* payment goes on and its result replaces the status.                      *)
CancelPayment(t, s) ==
    /\ plan[t][s] = "pending"
    /\ plan' = [plan EXCEPT ![t][s] = "failed"]
    /\ alarm' = [alarm EXCEPT ![t][s] = Unset]
    /\ Save(plan'[t])
    /\ UNCHANGED <<dueAt, paying, paidTimes, now, starts, storage, payCalls, cut>>

AlarmFires(t, s) ==
    /\ alarm[t][s] <= now
    /\ alarm' = [alarm EXCEPT ![t][s] = Unset]
    /\ IF plan[t][s] = "pending"
       THEN /\ paying' = paying \cup {<<t, s>>}
            /\ payCalls' = [payCalls EXCEPT ![t][s] = @ + 1]
       ELSE UNCHANGED <<paying, payCalls>>
    /\ UNCHANGED <<plan, saved, dueAt, paidTimes, now, starts, storage, cut>>

(* pay() settles.  One that rejects may have been applied all the same.     *)
PayEnds(t, s) ==
    /\ <<t, s>> \in paying
    /\ paying' = paying \ {<<t, s>>}
    /\ \/ /\ plan' = [plan EXCEPT ![t][s] = "executed"]
          /\ paidTimes' = OnceMore(paidTimes, {s})
       \/ /\ plan' = [plan EXCEPT ![t][s] = "failed"]
          /\ \E S \in SUBSET {s} : paidTimes' = OnceMore(paidTimes, S)
    /\ Save(plan'[t])
    /\ UNCHANGED <<dueAt, alarm, now, starts, storage, payCalls, cut>>

CallsOf(t) == {s \in Payments : <<t, s>> \in paying}

(* The process of a tab ends, at any moment, and a manager is made from the *)
(* stored list.  Timers may fire late, so the time in between needs no      *)
(* state of its own; what was under way is applied or lost.                 *)
StartManager_ForgetsPending(t) ==
    /\ starts < MaxStarts
    /\ t = FirstTab \/ storage.shared
    /\ starts' = starts + 1
    /\ plan' = [plan EXCEPT ![t] = saved]
    /\ alarm' = [alarm EXCEPT ![t] = NoAlarms]
    /\ \E S \in SUBSET CallsOf(t) : paidTimes' = OnceMore(paidTimes, S)
    /\ paying' = {c \in paying : c[1] # t}
    /\ payCalls' = [payCalls EXCEPT ![t] = Zeros]
    /\ cut' = OnceMore(cut, CallsOf(t))
    /\ UNCHANGED <<saved, dueAt, now, storage>>
StartManager(t) ==
    /\ starts < MaxStarts
    /\ t = FirstTab \/ storage.shared
    /\ starts' = starts + 1
    /\ plan' = [plan EXCEPT ![t] = saved]
    /\ alarm' = [alarm EXCEPT ![t] = [s \in Payments |->
                    IF saved[s] = "pending" THEN FiresAt(dueAt[s]) ELSE Unset]]
    /\ \E S \in SUBSET CallsOf(t) : paidTimes' = OnceMore(paidTimes, S)
    /\ paying' = {c \in paying : c[1] # t}
    /\ payCalls' = [payCalls EXCEPT ![t] = Zeros]
    /\ cut' = OnceMore(cut, CallsOf(t))
    /\ UNCHANGED <<saved, dueAt, now, storage>>

TimePasses ==
    /\ now < MaxNow
    /\ now' = now + 1
    /\ UNCHANGED <<plan, saved, dueAt, alarm, paying, paidTimes, starts, storage, payCalls, cut>>

ScheduleNext ==
    \/ \E t \in Tabs, s \in Payments, delay \in Delays : SchedulePayment(t, s, delay)
    \/ \E t \in Tabs, s \in Payments : CancelPayment(t, s) \/ AlarmFires(t, s) \/ PayEnds(t, s)
    \/ \E t \in Tabs : StartManager(t)
    \/ TimePasses

ScheduleSpec == ScheduleInit /\ [][ScheduleNext]_scheduleVars

-----------------------------------------------------------------------------
(* One tab with a storage that takes every save.                            *)
Alone == ~storage.shared /\ ~storage.full

(* No manager calls pay() twice for an entry, whatever is cancelled, saved  *)
(* or read in between.  In a single tab whose saves succeed, what a restart *)
(* would read is what the manager has, a pending entry has its timer or a   *)
(* call of pay(), and an entry is paid a second time only if a restart has  *)
(* cut off the call that paid it first.                                     *)
PaidOnceUnlessCut ==
    /\ \A t \in Tabs, s \in Payments : payCalls[t][s] <= 1
    /\ Alone =>
        /\ plan[FirstTab] = saved
        /\ \A s \in Payments :
            /\ saved[s] = "pending" => alarm[FirstTab][s] # Unset \/ <<FirstTab, s>> \in paying
            /\ paidTimes[s] <= 1 + cut[s]
=============================================================================
