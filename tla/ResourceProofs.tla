--------------------------- MODULE ResourceProofs ---------------------------
(***************************************************************************)
(* The resources that clients share, for every number of overlapping       *)
(* calls, attempts, writes, callers, accounts and users, and for all       *)
(* thresholds and bounds: the circuit breaker counts its probes, lazy      *)
(* initialisation makes one attempt at a time, a shutdown takes nothing    *)
(* apart under a write, a channel account has one holder, a nonce or a     *)
(* sequence number is given once, and the connection pool's books agree.   *)
(***************************************************************************)
EXTENDS CircuitBreaker, LazyInitializer, GracefulShutdown, ChannelAccounts, NonceManager,
        SequenceNumbers, ConnectionPool, BasicLemmas, FiniteSetTheorems

(* The circuit breaker.                                                    *)

(* The parts of TypeOK that the success and the failure handler write.      *)
CountersOK ==
    /\ state \in States
    /\ failureCount \in Nat
    /\ successCount \in 0 .. SuccessThreshold - 1
    /\ cooled \in BOOLEAN

LEMMA HandlersKeepCounters ==
  ASSUME TypeOK, OnSuccess \/ OnFailure
  PROVE  CountersOK'
<1>1. cooled' \in BOOLEAN
  <2>1. cooled' = cooled \/ cooled' = FALSE
    BY Zenon DEF OnSuccess, OnFailure
  <2> QED
    BY <2>1, Zenon DEF TypeOK
<1>2. /\ state' \in States
      /\ failureCount' \in Nat
      /\ successCount' \in 0 .. SuccessThreshold - 1
  <2>1. CASE OnSuccess
    BY <2>1, ThresholdsPositive DEF OnSuccess, TypeOK, States
  <2>2. CASE OnFailure
    BY <2>2, ThresholdsPositive DEF OnFailure, TypeOK, States
  <2> QED
    BY <2>1, <2>2
<1> QED
  BY <1>1, <1>2, Zenon DEF CountersOK

LEMMA MovesKeepCalls ==
  ASSUME TypeOK, NEW c \in Calls, NEW s \in CallStates, call' = [call EXCEPT ![c] = s]
  PROVE  call' \in [Calls -> CallStates]
BY DEF TypeOK

(* Every field of the breaker keeps its range; in particular the success    *)
(* count of the half-open state stays below the threshold that closes it.   *)
THEOREM TypeCorrect == Spec => []TypeOK
<1> USE ThresholdsPositive
<1>1. Init => TypeOK
  BY DEF Init, TypeOK, States, CallStates
<1>2. TypeOK /\ [Next]_breakerVars => TypeOK'
  <2> SUFFICES ASSUME TypeOK, [Next]_breakerVars PROVE TypeOK'
    OBVIOUS
  <2> USE DEF TypeOK, States, CallStates
  <2>1. ASSUME NEW c \in Calls, Reject(c) PROVE TypeOK'
    BY <2>1 DEF Reject, MaybeExpireOpenState, Effective, Expires
  <2>2. ASSUME NEW c \in Calls, BeginProbe(c) PROVE TypeOK'
    <3>1. call' \in [Calls -> CallStates]
      BY <2>2, MovesKeepCalls DEF BeginProbe
    <3> QED
      BY <2>2, <3>1 DEF BeginProbe, MaybeExpireOpenState, Effective, Expires
  <2>3. ASSUME NEW c \in Calls, BeginNormal(c) PROVE TypeOK'
    <3>1. call' \in [Calls -> CallStates]
      BY <2>3, MovesKeepCalls DEF BeginNormal
    <3> QED
      BY <2>3, <3>1 DEF BeginNormal
  <2>4. ASSUME NEW c \in Calls, Settle(c) PROVE TypeOK'
    <3>1. CountersOK'
      BY <2>4, HandlersKeepCounters
         DEF Settle, NormalSucceeds, NormalFails, ProbeSucceeds, ProbeFails, ProbeTimesOut
    <3>2. PICK s \in CallStates : call' = [call EXCEPT ![c] = s]
      BY <2>4
         DEF Settle, NormalSucceeds, NormalFails, ProbeSucceeds, ProbeFails, ProbeTimesOut
    <3>3. call' \in [Calls -> CallStates]
      BY <3>2, MovesKeepCalls
    <3>4. probesInFlight' \in Int /\ resets' \in Nat
      BY <2>4
         DEF Settle, NormalSucceeds, NormalFails, ProbeSucceeds, ProbeFails, ProbeTimesOut, ReleaseProbe
    <3> QED
      BY <3>1, <3>3, <3>4 DEF CountersOK
  <2>9. ASSUME NEW c \in Calls, AbandonedEnds(c) PROVE TypeOK'
    BY <2>9 DEF AbandonedEnds
  <2>10. CASE Reset
    BY <2>10 DEF Reset
  <2>11. CASE Cool
    BY <2>11 DEF Cool
  <2>12. CASE UNCHANGED breakerVars
    BY <2>12 DEF breakerVars
  <2> QED
    BY <2>1, <2>2, <2>3, <2>4, <2>9, <2>10, <2>11, <2>12 DEF Next, Begin
<1> QED
  BY <1>1, <1>2, PTL DEF Spec

-----------------------------------------------------------------------------
(* The circuit never counts as closed with a failure count that should have *)
(* opened it.  Inductive together with TypeOK: every step into CLOSED       *)
(* zeroes the count, and every increment in CLOSED is compared.             *)
THEOREM ClosedCountBelowThreshold == Spec => []ClosedBelowThreshold
<1> USE ThresholdsPositive
<1>1. Init => ClosedBelowThreshold
  BY DEF Init, ClosedBelowThreshold
<1>2. TypeOK /\ ClosedBelowThreshold /\ [Next]_breakerVars => ClosedBelowThreshold'
  <2> SUFFICES ASSUME TypeOK, ClosedBelowThreshold, [Next]_breakerVars
               PROVE  ClosedBelowThreshold'
    OBVIOUS
  <2> USE DEF TypeOK, States, ClosedBelowThreshold
  <2>1. ASSUME NEW c \in Calls, Reject(c) \/ Begin(c) PROVE ClosedBelowThreshold'
    BY <2>1 DEF Reject, Begin, BeginProbe, BeginNormal, MaybeExpireOpenState, Effective, Expires
  <2>2. CASE OnSuccess
    BY <2>2 DEF OnSuccess
  <2>3. CASE OnFailure
    BY <2>3 DEF OnFailure
  <2>4. ASSUME NEW c \in Calls, Settle(c) PROVE ClosedBelowThreshold'
    BY <2>2, <2>3, <2>4
       DEF Settle, NormalSucceeds, NormalFails, ProbeSucceeds, ProbeFails, ProbeTimesOut
  <2>5. ASSUME NEW c \in Calls, AbandonedEnds(c) PROVE ClosedBelowThreshold'
    BY <2>5 DEF AbandonedEnds
  <2>6. CASE Reset
    BY <2>6 DEF Reset
  <2>7. CASE Cool
    BY <2>7 DEF Cool
  <2>8. CASE UNCHANGED breakerVars
    BY <2>8 DEF breakerVars
  <2> QED
    BY <2>1, <2>4, <2>5, <2>6, <2>7, <2>8 DEF Next
<1> QED
  BY <1>1, <1>2, TypeCorrect, PTL DEF Spec

-----------------------------------------------------------------------------
(* The probe limit.  The counter never exceeds halfOpenProbeCount, and each *)
(* call of reset() takes at most that many probes out of its sight.         *)
ProbeInv ==
    /\ TypeOK
    /\ ProbeCounterExact
    /\ probesInFlight <= ProbeCount

LEMMA ProbesFinite == IsFiniteSet(Probes) /\ Cardinality(Probes) \in Nat
<1>1. Probes \subseteq Calls
  BY DEF Probes
<1> QED
  BY <1>1, CallsFinite, FS_Subset, FS_CardinalityType

(* A call that becomes a probe adds one to the set of probes ...            *)
LEMMA ProbeAdded ==
  ASSUME TypeOK, NEW c \in Calls, call[c] = "idle",
         call' = [call EXCEPT ![c] = "probe"]
  PROVE  Cardinality(Probes') = Cardinality(Probes) + 1
<1>1. Probes' = Probes \cup {c} /\ c \notin Probes
  BY DEF Probes, TypeOK, CallStates
<1> QED
  BY <1>1, ProbesFinite, FS_AddElement

(* ... and a probe that ends takes one away, whatever it becomes.           *)
LEMMA ProbeRemoved ==
  ASSUME TypeOK, NEW c \in Calls, call[c] = "probe", NEW s \in CallStates \ {"probe"},
         call' = [call EXCEPT ![c] = s]
  PROVE  Cardinality(Probes') = Cardinality(Probes) - 1
<1>1. Probes' = Probes \ {c} /\ c \in Probes
  BY DEF Probes, TypeOK
<1> QED
  BY <1>1, ProbesFinite, FS_RemoveElement

(* Any other change of the calls leaves the probes alone.                   *)
LEMMA ProbesSame ==
  ASSUME TypeOK, NEW c \in Calls, call[c] # "probe", NEW s \in CallStates \ {"probe"},
         call' = [call EXCEPT ![c] = s]
  PROVE  Probes' = Probes
BY DEF Probes, TypeOK

(* reset() aside, there are never more probes in flight than                *)
(* halfOpenProbeCount, and each reset() adds at most one batch: probes that *)
(* time out or end in a later period are given back exactly once.           *)
THEOREM ProbesWithinLimit == Spec => []ProbeLimit
<1> USE ThresholdsPositive
<1>1. Init => ProbeInv
  <2> SUFFICES ASSUME Init PROVE ProbeInv
    OBVIOUS
  <2>1. Probes = {}
    BY DEF Init, Probes
  <2>2. TypeOK
    BY DEF Init, TypeOK, States, CallStates
  <2>3. probesInFlight = 0 /\ Cardinality(Probes) = 0 /\ resets = 0
    BY <2>1, FS_EmptySet DEF Init
  <2> QED
    BY <2>2, <2>3 DEF ProbeInv, ProbeCounterExact
<1>2. ProbeInv /\ TypeOK' /\ [Next]_breakerVars => ProbeInv'
  <2> SUFFICES ASSUME ProbeInv, TypeOK', [Next]_breakerVars PROVE ProbeInv'
    OBVIOUS
  <2> DEFINE n == Cardinality(Probes)
             forgotten == ProbeCount * resets
  <2>0. /\ TypeOK
        /\ n \in Nat /\ forgotten \in Nat /\ probesInFlight \in Int /\ resets \in Nat
        /\ probesInFlight <= n /\ n <= probesInFlight + forgotten
        /\ probesInFlight <= ProbeCount
    BY ProbesFinite DEF ProbeInv, ProbeCounterExact, TypeOK
  <2>a. ASSUME probesInFlight' = probesInFlight, n' = n, resets' = resets PROVE ProbeInv'
    BY <2>0, <2>a DEF ProbeInv, ProbeCounterExact
  <2>1. ASSUME NEW c \in Calls, Reject(c) PROVE ProbeInv'
    BY <2>1, <2>a DEF Reject, Probes
  <2>2. ASSUME NEW c \in Calls, BeginProbe(c) PROVE ProbeInv'
    <3>1. /\ call[c] = "idle" /\ call' = [call EXCEPT ![c] = "probe"]
          /\ probesInFlight < ProbeCount /\ probesInFlight' = probesInFlight + 1
          /\ resets' = resets
      BY <2>2 DEF BeginProbe
    <3>2. n' = n + 1
      BY <2>0, <3>1, ProbeAdded
    <3>3. forgotten' = forgotten
      BY <3>1
    <3>4. /\ probesInFlight' <= n' /\ n' <= probesInFlight' + forgotten'
          /\ probesInFlight' <= ProbeCount
      BY <2>0, <3>1, <3>2, <3>3
    <3> QED
      BY <3>4 DEF ProbeInv, ProbeCounterExact
  <2>3. ASSUME NEW c \in Calls, BeginNormal(c) PROVE ProbeInv'
    <3>1. Probes' = Probes
      BY <2>0, <2>3, ProbesSame DEF BeginNormal, CallStates
    <3> QED
      BY <2>3, <3>1, <2>a DEF BeginNormal
  <2>4. ASSUME NEW c \in Calls, NormalSucceeds(c) \/ NormalFails(c) PROVE ProbeInv'
    <3>1. Probes' = Probes
      BY <2>0, <2>4, ProbesSame DEF NormalSucceeds, NormalFails, CallStates
    <3> QED
      BY <2>4, <3>1, <2>a DEF NormalSucceeds, NormalFails
  <2>5. ASSUME NEW c \in Calls, ProbeSucceeds(c) \/ ProbeFails(c) \/ ProbeTimesOut(c)
        PROVE  ProbeInv'
    <3>1. /\ call[c] = "probe"
          /\ probesInFlight' = probesInFlight - 1
          /\ resets' = resets
      BY <2>5 DEF ProbeSucceeds, ProbeFails, ProbeTimesOut, ReleaseProbe
    <3>2. PICK s \in CallStates \ {"probe"} : call' = [call EXCEPT ![c] = s]
      BY <2>5 DEF ProbeSucceeds, ProbeFails, ProbeTimesOut, CallStates
    <3>3. n' = n - 1
      BY <2>0, <3>1, <3>2, ProbeRemoved
    <3>4. forgotten' = forgotten
      BY <3>1
    <3>5. /\ probesInFlight' <= n' /\ n' <= probesInFlight' + forgotten'
          /\ probesInFlight' <= ProbeCount
      BY <2>0, <3>1, <3>3, <3>4
    <3> QED
      BY <3>5 DEF ProbeInv, ProbeCounterExact
  <2>6. ASSUME NEW c \in Calls, AbandonedEnds(c) PROVE ProbeInv'
    <3>1. Probes' = Probes
      BY <2>0, <2>6, ProbesSame DEF AbandonedEnds, CallStates
    <3> QED
      BY <2>6, <3>1, <2>a DEF AbandonedEnds
  <2>7. CASE Reset
    <3>1. probesInFlight' = 0 /\ n' = n /\ resets' = resets + 1
      BY <2>7 DEF Reset, Probes
    <3>2. forgotten' = forgotten + ProbeCount
      BY <2>0, <3>1
    <3>3. /\ probesInFlight' <= n' /\ n' <= probesInFlight' + forgotten'
          /\ probesInFlight' <= ProbeCount
      BY <2>0, <3>1, <3>2
    <3> QED
      BY <3>3 DEF ProbeInv, ProbeCounterExact
  <2>8. CASE Cool
    BY <2>8, <2>a DEF Cool, Probes
  <2>9. CASE UNCHANGED breakerVars
    BY <2>9, <2>a DEF breakerVars, Probes
  <2> QED
    BY <2>1, <2>2, <2>3, <2>4, <2>5, <2>6, <2>7, <2>8, <2>9 DEF Next, Begin, Settle
<1>3. ProbeInv => ProbeLimit
  <2> SUFFICES ASSUME ProbeInv PROVE ProbeLimit
    OBVIOUS
  <2>1. ProbeCount * (resets + 1) = ProbeCount * resets + ProbeCount
    BY DEF ProbeInv, TypeOK
  <2>2. ProbeCount * resets \in Nat /\ Cardinality(Probes) \in Nat /\ probesInFlight \in Int
    BY ProbesFinite DEF ProbeInv, TypeOK
  <2> QED
    BY <2>1, <2>2 DEF ProbeInv, ProbeCounterExact, ProbeLimit
<1> QED
  BY <1>1, <1>2, <1>3, TypeCorrect, PTL DEF Spec

-----------------------------------------------------------------------------
(* Lazy initialisation.  That one attempt is under way, and is the one that *)
(* is handed out, is inductive once the fields keep their ranges.           *)
LazyInv ==
    /\ attempt \in [Attempts -> {"none", "running", "pausing", "resolved", "rejected"}]
    /\ retries \in [Attempts -> Nat]
    /\ promise \in 0 .. MaxAttempts
    /\ OneAttemptAtATime

LEMMA LazyStepKeeps == LazyInv /\ [LazyNext]_lazyVars => LazyInv'
<1> SUFFICES ASSUME LazyInv, [LazyNext]_lazyVars PROVE LazyInv'
  OBVIOUS
<1> USE LazySizes DEF LazyInv, OneAttemptAtATime, Attempts, UnderWay
<1>1. CASE Get
  <2>1. PICK a \in Attempts :
          attempt[a] = "none" /\ attempt' = [attempt EXCEPT ![a] = "running"] /\ promise' = a
    BY <1>1 DEF Get
  <2>2. promise = 0 /\ UNCHANGED <<retries, ready, midway>>
    BY <1>1 DEF Get
  <2>3. ~midway => ~ready
    BY <2>2
  <2> QED
    BY <2>1, <2>2, <2>3
<1>2. ASSUME NEW a \in Attempts, FactorySucceeds(a) PROVE LazyInv'
  BY <1>2 DEF FactorySucceeds
<1>3. ASSUME NEW a \in Attempts, FactoryFails(a) PROVE LazyInv'
  <2>1. CASE retries[a] > 0
    <3>1. /\ attempt[a] = "running" /\ attempt' = [attempt EXCEPT ![a] = "pausing"]
          /\ retries' = [retries EXCEPT ![a] = @ - 1]
          /\ UNCHANGED <<promise, ready, midway>>
      BY <1>3, <2>1 DEF FactoryFails
    <3>2. retries' \in [Attempts -> Nat] /\ promise' \in 0 .. MaxAttempts
      BY <2>1, <3>1
    <3>3. OneAttemptAtATime'
      BY <3>1
    <3> QED
      BY <3>1, <3>2, <3>3
  <2>2. CASE ~(retries[a] > 0)
    <3>1. ~midway => promise = a
      BY <1>3 DEF FactoryFails
    <3> QED
      BY <1>3, <2>2, <3>1 DEF FactoryFails
  <2> QED
    BY <2>1, <2>2
<1>4. ASSUME NEW a \in Attempts, PauseEnds(a) PROVE LazyInv'
  BY <1>4 DEF PauseEnds
<1>5. CASE ResetLazy
  BY <1>5 DEF ResetLazy
<1>6. CASE UNCHANGED lazyVars
  BY <1>6 DEF lazyVars
<1> QED
  BY <1>1, <1>2, <1>3, <1>4, <1>5, <1>6 DEF LazyNext

(* Unless an attempt is reset while it is under way, get() never starts a   *)
(* second one beside it, never hands out a rejected one, and isReady() is   *)
(* exact, for every number of attempts and retries.                         *)
THEOREM AttemptsNeverOverlap == LazySpec => []OneAttemptAtATime
<1>1. LazyInit => LazyInv
  BY LazySizes DEF LazyInit, LazyInv, OneAttemptAtATime, Attempts, UnderWay
<1>2. LazyInv => OneAttemptAtATime
  BY DEF LazyInv
<1> QED
  BY <1>1, <1>2, LazyStepKeeps, PTL DEF LazySpec

-----------------------------------------------------------------------------
(* Graceful shutdown.  From the turn of shutdown() on a tracking client     *)
(* refuses writes, so that what is sent is on the list that is awaited.     *)
ShutdownInv ==
    /\ write \in [Writes -> {"idle", "sending", "done", "refused"}]
    /\ teardown \in {"idle", "draining", "destroying", "ended"}
    /\ shutdownPromise = "none" <=> teardown = "idle"
    /\ closing = (teardown # "idle")
    /\ client = "tracking" /\ teardown # "idle" =>
          \A w \in Writes : write[w] = "sending" => w \in awaited
    /\ DrainedBeforeTeardown

LEMMA ShutdownStepKeeps == ShutdownInv /\ [ShutdownNext]_shutdownVars => ShutdownInv'
<1> SUFFICES ASSUME ShutdownInv, [ShutdownNext]_shutdownVars PROVE ShutdownInv'
  OBVIOUS
<1> USE DEF ShutdownInv, DrainedBeforeTeardown
<1>1. ASSUME NEW w \in Writes, SubmitWrite(w) PROVE ShutdownInv'
  BY <1>1 DEF SubmitWrite
<1>2. ASSUME NEW w \in Writes, WriteEnds(w) PROVE ShutdownInv'
  BY <1>2 DEF WriteEnds
<1>3. CASE BeginShutdown
  BY <1>3 DEF BeginShutdown, InFlight
<1>4. CASE DrainCompletes
  BY <1>4 DEF DrainCompletes
<1>5. CASE DrainTimesOut
  BY <1>5 DEF DrainTimesOut
<1>6. CASE TeardownEnds
  BY <1>6 DEF TeardownEnds
<1>7. CASE UNCHANGED shutdownVars
  BY <1>7 DEF shutdownVars
<1> QED
  BY <1>1, <1>2, <1>3, <1>4, <1>5, <1>6, <1>7 DEF ShutdownNext

(* No write of a tracking client is under way when its resources are torn   *)
(* down, unless the drain has timed out, for every number of writes.        *)
THEOREM TeardownAfterDrain == ShutdownSpec => []DrainedBeforeTeardown
<1>1. ShutdownInit => ShutdownInv
  BY DEF ShutdownInit, ShutdownInv, DrainedBeforeTeardown
<1>2. ShutdownInv => DrainedBeforeTeardown
  BY DEF ShutdownInv
<1> QED
  BY <1>1, <1>2, ShutdownStepKeeps, PTL DEF ShutdownSpec

-----------------------------------------------------------------------------
(* Channel accounts.                                                        *)

(* The ranges the steps rely on.                                            *)
ChannelRanges ==
    /\ inUse \in SUBSET Slots
    /\ waiters \in Seq(Acquirers)
    /\ acq \in [Acquirers -> AcquireStates]
    /\ slotOf \in [Acquirers -> Slots \cup {0}]
    /\ seqRead \in [Acquirers -> Nat]
    /\ ledgerSeq \in [Slots -> Nat]

(* Whoever is queued waits, and is queued once.                             *)
QueueIsSound ==
    /\ \A k \in 1 .. Len(waiters) : acq[waiters[k]] = "waiting"
    /\ \A j, k \in 1 .. Len(waiters) : waiters[j] = waiters[k] => j = k

Owners == {c \in Acquirers : acq[c] \in OwnerStates}

(* OneHolder in the form the steps use.                                     *)
OwnersShareNothing ==
    /\ \A c \in Owners : slotOf[c] \in inUse
    /\ \A s \in inUse : \E c \in Owners : slotOf[c] = s
    /\ \A c, d \in Owners : slotOf[c] = slotOf[d] => c = d

(* The inductive invariant.                                                 *)
ChannelInv == ChannelRanges /\ QueueIsSound /\ OwnersShareNothing /\ SequenceIsCurrent

(* The two forms say the same.                                              *)
LEMMA ShareNothingIsOneHolder == OwnersShareNothing <=> OneHolder
BY DEF OwnersShareNothing, OneHolder, Owners

(* _findAvailableSlot() returns a slot of the list it searches.             *)
LEMMA FirstIsAvailable ==
    ASSUME NEW slots \in SUBSET Nat, slots # {}
    PROVE  FirstOf(slots) \in slots
<1>1. \E s \in slots : \A t \in slots : s <= t
  BY LeastOfNaturals
<1> QED
  BY <1>1 DEF FirstOf

(* The pool starts unused.                                                  *)
LEMMA ChannelInvInitially == ChannelInit => ChannelInv
BY DEF ChannelInit, ChannelInv, ChannelRanges, QueueIsSound, OwnersShareNothing, Owners,
       SequenceIsCurrent, AcquireStates, OwnerStates, Unread

(* A call that owned nothing takes a free slot.                             *)
LEMMA AssigningKeepsOwners ==
    ASSUME OwnersShareNothing, ChannelRanges, NEW w \in Acquirers, w \notin Owners,
           NEW s \in Slots, s \notin inUse,
           inUse' = inUse \cup {s},
           slotOf' = [slotOf EXCEPT ![w] = s],
           acq' = [acq EXCEPT ![w] = "assigned"]
    PROVE  OwnersShareNothing'
<1>1. Owners' = Owners \cup {w}
  BY DEF ChannelRanges, Owners, OwnerStates
<1>2. slotOf'[w] = s /\ \A c \in Owners : slotOf'[c] = slotOf[c]
  BY DEF ChannelRanges, Owners
<1> QED
  BY <1>1, <1>2 DEF OwnersShareNothing

(* A holder gives its slot back and nobody takes it.                        *)
LEMMA ReleasingKeepsOwners ==
    ASSUME OwnersShareNothing, ChannelRanges, NEW c \in Owners,
           inUse' = inUse \ {slotOf[c]},
           slotOf' = slotOf,
           acq' = [acq EXCEPT ![c] = "released"]
    PROVE  OwnersShareNothing'
<1>1. Owners' = Owners \ {c}
  BY DEF ChannelRanges, Owners, OwnerStates
<1> QED
  BY <1>1 DEF OwnersShareNothing

(* A holder gives its slot back and a waiter takes a free one, which may be *)
(* the same.                                                                *)
LEMMA HandingOverKeepsOwners ==
    ASSUME OwnersShareNothing, ChannelRanges, NEW c \in Owners,
           NEW w \in Acquirers, w \notin Owners,
           NEW s \in Slots, s \notin inUse \ {slotOf[c]},
           inUse' = (inUse \ {slotOf[c]}) \cup {s},
           slotOf' = [slotOf EXCEPT ![w] = s],
           acq' = [[acq EXCEPT ![c] = "released"] EXCEPT ![w] = "assigned"]
    PROVE  OwnersShareNothing'
<1>1. Owners' = (Owners \ {c}) \cup {w}
  BY DEF ChannelRanges, Owners, OwnerStates
<1>2. slotOf'[w] = s /\ \A d \in Owners : slotOf'[d] = slotOf[d]
  BY DEF ChannelRanges, Owners
<1>3. \A d \in Owners \ {c} : slotOf[d] \in inUse \ {slotOf[c]} /\ slotOf[d] # s
  BY DEF OwnersShareNothing
<1>4. \A t \in inUse \ {slotOf[c]} : \E d \in Owners \ {c} : slotOf[d] = t
  BY DEF OwnersShareNothing
<1> QED
  BY <1>1, <1>2, <1>3, <1>4 DEF OwnersShareNothing

(* Every step keeps the invariant.                                          *)
LEMMA ChannelInvKept == ChannelInv /\ [ChannelNext]_channelVars => ChannelInv'
<1> SUFFICES ASSUME ChannelInv, [ChannelNext]_channelVars PROVE ChannelInv'
  OBVIOUS
<1> USE DEF ChannelInv
<1>1. ASSUME NEW c \in Acquirers, Acquire(c) PROVE ChannelInv'
  <2> USE <1>1 DEF Acquire
  <2>1. ChannelRanges' /\ Owners' = Owners
    BY DEF ChannelRanges, AcquireStates, Owners, OwnerStates
  <2>2. QueueIsSound'
    BY DEF QueueIsSound, ChannelRanges
  <2>3. SequenceIsCurrent'
    BY DEF SequenceIsCurrent, ChannelRanges
  <2> QED
    BY <2>1, <2>2, <2>3 DEF OwnersShareNothing
<1>2. ASSUME NEW c \in Acquirers, NEW s \in Slots, BalanceRead(c, s) PROVE ChannelInv'
  BY <1>2 DEF BalanceRead, ChannelRanges, QueueIsSound, OwnersShareNothing, Owners, SequenceIsCurrent
<1>3. ASSUME NEW c \in Acquirers, BalancesKnown(c) PROVE ChannelInv'
  <2> DEFINE available == Available(inUse, lowBalance)
             s == FirstOf(available)
  <2>1. c \notin Owners /\ acq[c] = "refreshing"
    BY <1>3 DEF BalancesKnown, Owners, OwnerStates
  <2>2. available \subseteq Slots /\ available \cap inUse = {}
    BY DEF Available
  <2>3. UNCHANGED <<seqRead, ledgerSeq>>
    BY <1>3 DEF BalancesKnown
  <2>4. CASE available # {}
    <3>1. s \in available
      BY <2>2, <2>4, FirstIsAvailable DEF Slots
    <3>2. s \in Slots /\ s \notin inUse
      BY <2>2, <3>1
    <3>3. /\ inUse' = inUse \cup {s}
          /\ slotOf' = [slotOf EXCEPT ![c] = s]
          /\ acq' = [acq EXCEPT ![c] = "assigned"]
          /\ waiters' = waiters
      BY <1>3, <2>4 DEF BalancesKnown, Assign
    <3> HIDE DEF available, s
    <3>4. ChannelRanges'
      BY <2>3, <3>2, <3>3 DEF ChannelRanges, AcquireStates
    <3>5. OwnersShareNothing'
      BY <2>1, <3>2, <3>3, AssigningKeepsOwners
    <3>6. QueueIsSound'
      BY <2>1, <3>3 DEF QueueIsSound, ChannelRanges
    <3>7. SequenceIsCurrent'
      BY <2>1, <2>3, <3>3 DEF SequenceIsCurrent, ChannelRanges
    <3> QED
      BY <3>4, <3>5, <3>6, <3>7
  <2>5. CASE available = {}
    <3>1. /\ waiters' = Append(waiters, c)
          /\ acq' = [acq EXCEPT ![c] = "waiting"]
          /\ UNCHANGED <<inUse, slotOf>>
      BY <1>3, <2>5 DEF BalancesKnown
    <3>2. ChannelRanges' /\ Owners' = Owners
      BY <2>1, <2>3, <3>1 DEF ChannelRanges, AcquireStates, Owners, OwnerStates
    <3>3. \A k \in 1 .. Len(waiters) : waiters[k] # c /\ waiters[k] \in Acquirers
      BY <2>1 DEF QueueIsSound, ChannelRanges
    <3>4. /\ Len(waiters') = Len(waiters) + 1
          /\ \A k \in 1 .. Len(waiters) : waiters'[k] = waiters[k]
          /\ waiters'[Len(waiters) + 1] = c
      BY <3>1 DEF ChannelRanges
    <3>5. QueueIsSound'
      BY <3>1, <3>3, <3>4 DEF QueueIsSound, ChannelRanges
    <3>6. SequenceIsCurrent'
      BY <2>3, <3>1 DEF SequenceIsCurrent, ChannelRanges
    <3> QED
      BY <3>1, <3>2, <3>5, <3>6 DEF OwnersShareNothing
  <2> QED
    BY <2>4, <2>5
<1>4. ASSUME NEW c \in Acquirers, ReadSequence(c) PROVE ChannelInv'
  <2> USE <1>4 DEF ReadSequence
  <2>1. Owners' = Owners /\ c \in Owners
    BY DEF ChannelRanges, Owners, OwnerStates
  <2>2. slotOf[c] \in Slots
    BY <2>1 DEF OwnersShareNothing, ChannelRanges
  <2>3. ChannelRanges'
    BY <2>2 DEF ChannelRanges, AcquireStates, Unread
  <2>4. QueueIsSound'
    BY DEF QueueIsSound, ChannelRanges
  <2>5. SequenceIsCurrent'
    BY DEF SequenceIsCurrent, ChannelRanges
  <2> QED
    BY <2>1, <2>3, <2>4, <2>5 DEF OwnersShareNothing
<1>5. ASSUME NEW c \in Acquirers, Release(c), acq[c] # "released" PROVE ChannelInv'
  <2> DEFINE free == inUse \ {slotOf[c]}
             available == Available(free, lowBalance)
             s == FirstOf(available)
  <2>1. acq[c] \in {"holding", "spent"} /\ NotifyWaiters(c, free) /\ UNCHANGED <<seqRead, ledgerSeq>>
    BY <1>5 DEF Release
  <2>2. c \in Owners
    BY <2>1 DEF Owners, OwnerStates
  <2>3. available \subseteq Slots /\ available \cap free = {}
    BY DEF Available
  <2>4. CASE waiters # <<>> /\ available # {}
    <3> DEFINE w == Head(waiters)
    <3>1. s \in available
      <4>1. Slots \subseteq Nat
        BY PoolNotEmpty DEF Slots
      <4> HIDE DEF available
      <4>2. available \in SUBSET Nat /\ available # {}
        BY <2>3, <2>4, <4>1
      <4> QED
        BY <4>2, FirstIsAvailable
    <3>2. s \in Slots /\ s \notin free
      BY <2>3, <3>1
    <3>3. /\ inUse' = free \cup {s}
          /\ slotOf' = [slotOf EXCEPT ![w] = s]
          /\ acq' = [[acq EXCEPT ![c] = "released"] EXCEPT ![w] = "assigned"]
          /\ waiters' = Tail(waiters)
      BY <2>1, <2>4 DEF NotifyWaiters
    <3>4. Len(waiters) \in Nat /\ Len(waiters) > 0 /\ w = waiters[1] /\ w \in Acquirers
      BY <2>4 DEF ChannelRanges
    <3>5. acq[w] = "waiting" /\ w \notin Owners /\ w # c
      BY <2>1, <3>4 DEF QueueIsSound, Owners, OwnerStates
    <3> HIDE DEF available, s, w
    <3>6. ChannelRanges'
      <4>1. waiters' \in Seq(Acquirers)
        BY <3>3, <3>4 DEF ChannelRanges
      <4>2. acq' \in [Acquirers -> AcquireStates]
        BY <3>3, <3>4 DEF ChannelRanges, AcquireStates
      <4>3. slotOf' \in [Acquirers -> Slots \cup {0}] /\ inUse' \in SUBSET Slots
        BY <3>2, <3>3, <3>4 DEF ChannelRanges
      <4> QED
        BY <2>1, <4>1, <4>2, <4>3 DEF ChannelRanges
    <3>7. OwnersShareNothing'
      BY <2>2, <3>2, <3>3, <3>4, <3>5, HandingOverKeepsOwners
    <3>8. /\ Len(waiters') = Len(waiters) - 1
          /\ \A k \in 1 .. Len(waiters') : waiters'[k] = waiters[k + 1] /\ k + 1 \in 1 .. Len(waiters)
      BY <3>3, <3>4 DEF ChannelRanges
    <3>9. QueueIsSound'
      <4>1. \A k \in 1 .. Len(waiters) : k # 1 => waiters[k] # w
        BY <3>4 DEF QueueIsSound
      <4>2. \A k \in 1 .. Len(waiters) : waiters[k] # c /\ waiters[k] \in Acquirers
        BY <2>1 DEF QueueIsSound, ChannelRanges
      <4>3. \A k \in 1 .. Len(waiters') : waiters'[k] # w /\ waiters'[k] # c
        BY <3>8, <4>1, <4>2
      <4>4. \A k \in 1 .. Len(waiters') : acq'[waiters'[k]] = "waiting"
        BY <3>3, <3>8, <4>2, <4>3 DEF QueueIsSound, ChannelRanges
      <4>5. \A j, k \in 1 .. Len(waiters') : waiters'[j] = waiters'[k] => j = k
        BY <3>8 DEF QueueIsSound
      <4> QED
        BY <4>4, <4>5 DEF QueueIsSound
    <3>10. SequenceIsCurrent'
      BY <2>1, <3>3, <3>4, <3>5 DEF SequenceIsCurrent, ChannelRanges
    <3> QED
      BY <3>6, <3>7, <3>9, <3>10
  <2>5. CASE ~(waiters # <<>> /\ available # {})
    <3>1. inUse' = free /\ acq' = [acq EXCEPT ![c] = "released"] /\ UNCHANGED <<waiters, slotOf>>
      BY <2>1, <2>5 DEF NotifyWaiters
    <3>2. OwnersShareNothing'
      BY <2>2, <3>1, ReleasingKeepsOwners
    <3>3. ChannelRanges'
      BY <2>1, <3>1 DEF ChannelRanges, AcquireStates
    <3>4. QueueIsSound'
      BY <2>1, <3>1 DEF QueueIsSound, ChannelRanges
    <3>5. SequenceIsCurrent'
      BY <2>1, <3>1 DEF SequenceIsCurrent, ChannelRanges
    <3> QED
      BY <3>2, <3>3, <3>4, <3>5
  <2> QED
    BY <2>4, <2>5
<1>6. ASSUME NEW c \in Acquirers, Release(c), acq[c] = "released" PROVE ChannelInv'
  BY <1>6 DEF Release, channelVars, ChannelRanges, QueueIsSound, OwnersShareNothing, Owners,
              SequenceIsCurrent
<1>7. ASSUME NEW c \in Acquirers, TimesOut(c) PROVE ChannelInv'
  <2>1. acq[c] = "waiting" /\ acq' = [acq EXCEPT ![c] = "exhausted"]
        /\ UNCHANGED <<inUse, slotOf, seqRead, ledgerSeq>>
    BY <1>7 DEF TimesOut
  <2>2. PICK k \in DOMAIN waiters : waiters[k] = c /\ waiters' = RemoveAt(waiters, k)
    BY <1>7 DEF TimesOut
  <2>3. /\ waiters' \in Seq(Acquirers) /\ Len(waiters') = Len(waiters) - 1
        /\ \A j \in 1 .. Len(waiters') : waiters'[j] = waiters[IF j < k THEN j ELSE j + 1]
    BY <2>2, RemovingShifts DEF ChannelRanges
  <2>4. Owners' = Owners
    BY <2>1 DEF ChannelRanges, Owners, OwnerStates
  <2>5. ChannelRanges'
    BY <2>1, <2>3 DEF ChannelRanges, AcquireStates
  <2>6. SequenceIsCurrent'
    BY <2>1 DEF SequenceIsCurrent, ChannelRanges
  <2>7. QueueIsSound'
    <3> DEFINE at(j) == IF j < k THEN j ELSE j + 1
    <3>1. Len(waiters) \in Nat /\ k \in 1 .. Len(waiters)
      BY <2>2 DEF ChannelRanges
    <3>2. \A j \in 1 .. Len(waiters') : at(j) \in 1 .. Len(waiters) /\ at(j) # k
      BY <2>3, <3>1
    <3>3. \A i, j \in 1 .. Len(waiters') : at(i) = at(j) => i = j
      BY <2>3, <3>1
    <3>4. \A j \in 1 .. Len(waiters') : waiters'[j] = waiters[at(j)]
      BY <2>3
    <3> HIDE DEF at
    <3>5. \A j \in 1 .. Len(waiters') : waiters'[j] # c /\ waiters'[j] \in Acquirers
      BY <2>2, <3>1, <3>2, <3>4 DEF QueueIsSound, ChannelRanges
    <3>6. \A j \in 1 .. Len(waiters') : acq'[waiters'[j]] = "waiting"
      <4>1. \A d \in Acquirers : d # c => acq'[d] = acq[d]
        BY <2>1 DEF ChannelRanges
      <4>2. \A j \in 1 .. Len(waiters') : acq[waiters[at(j)]] = "waiting"
        BY <3>2 DEF QueueIsSound
      <4> QED
        BY <3>4, <3>5, <4>1, <4>2
    <3>7. \A i, j \in 1 .. Len(waiters') : waiters'[i] = waiters'[j] => i = j
      <4>1. \A i, j \in 1 .. Len(waiters) : waiters[i] = waiters[j] => i = j
        BY DEF QueueIsSound
      <4> QED
        BY <3>2, <3>3, <3>4, <4>1
    <3> QED
      BY <3>6, <3>7 DEF QueueIsSound
  <2> QED
    BY <2>1, <2>4, <2>5, <2>6, <2>7 DEF OwnersShareNothing
<1>8. ASSUME NEW c \in Acquirers, Spend(c) PROVE ChannelInv'
  <2> USE <1>8 DEF Spend
  <2>1. Owners' = Owners /\ c \in Owners
    BY DEF ChannelRanges, Owners, OwnerStates
  <2>2. slotOf[c] \in Slots
    BY <2>1 DEF OwnersShareNothing, ChannelRanges
  <2>3. ChannelRanges'
    BY <2>2 DEF ChannelRanges, AcquireStates
  <2>4. QueueIsSound'
    BY DEF QueueIsSound, ChannelRanges
  <2>5. ASSUME NEW d \in Acquirers, acq'[d] = "holding"
        PROVE  seqRead'[d] \in {Unread, ledgerSeq'[slotOf'[d]]}
    <3>1. d # c /\ acq[d] = "holding" /\ d \in Owners
      BY <2>5 DEF ChannelRanges, Owners, OwnerStates
    <3>2. slotOf[d] # slotOf[c] /\ slotOf[d] \in Slots
      BY <2>1, <3>1 DEF OwnersShareNothing, ChannelRanges
    <3>3. ledgerSeq'[slotOf[d]] = ledgerSeq[slotOf[d]]
      BY <3>2 DEF ChannelRanges
    <3> QED
      BY <3>1, <3>3 DEF SequenceIsCurrent
  <2> QED
    BY <2>1, <2>3, <2>4, <2>5 DEF OwnersShareNothing, SequenceIsCurrent
<1>9. ASSUME NEW s \in Slots, BalanceChanges(s) PROVE ChannelInv'
  BY <1>9 DEF BalanceChanges, ChannelRanges, QueueIsSound, OwnersShareNothing, Owners,
              SequenceIsCurrent
<1>10. CASE UNCHANGED channelVars
  BY <1>10 DEF channelVars, ChannelRanges, QueueIsSound, OwnersShareNothing, Owners,
               SequenceIsCurrent
<1> QED
  BY <1>1, <1>2, <1>3, <1>4, <1>5, <1>6, <1>7, <1>8, <1>9, <1>10 DEF ChannelNext, AcquireStep

(* No two unsettled calls of src/submission/ChannelAccountManager.ts build  *)
(* with the same account, and the sequence number a holder read is still    *)
(* its account's, whatever timeouts, hand-overs, repeated releases and      *)
(* concurrent refreshes happen.                                             *)
THEOREM SlotsAlwaysHaveOneHolder == ChannelSpec => []SlotHasOneHolder
<1>1. ChannelInv /\ [ChannelNext]_channelVars => ChannelInv'
  BY ChannelInvKept
<1>2. ChannelInv => SlotHasOneHolder
  BY ShareNothingIsOneHolder DEF ChannelInv, SlotHasOneHolder
<1> QED
  BY ChannelInvInitially, <1>1, <1>2, PTL DEF ChannelSpec

-----------------------------------------------------------------------------
(* Nonces.                                                                  *)

(* What the history remembers was committed.                                *)
HistoryIsCommitted == \A i \in DOMAIN history : history[i] \in committed

(* The ranges the steps rely on.                                            *)
NonceRanges ==
    /\ current \in Nat /\ chainNext \in Nat
    /\ committed \in SUBSET Nat
    /\ history \in Seq(Nat)
    /\ stage \in [NonceUsers -> Stages]
    /\ nonceOf \in [NonceUsers -> Nat \cup {NoNonce}]
    /\ synced \in Nat \cup {NoNonce}

(* The inductive invariant: who holds a nonce is known to the manager, the  *)
(* counter is beyond everything in use, and so is the chain.                *)
NonceInv == NonceRanges /\ HistoryIsCommitted /\ NonceHeldOnce /\ CounterBeyondUse

(* Adding a nonce to the history adds nothing else to it.                   *)
LEMMA RememberedOnlyAdds ==
    ASSUME history \in Seq(Nat), NEW n \in Nat
    PROVE  /\ Remembered(n) \in Seq(Nat)
           /\ \A i \in DOMAIN Remembered(n) :
                 Remembered(n)[i] = n \/ \E j \in DOMAIN history : Remembered(n)[i] = history[j]
<1> DEFINE added == IF \E i \in DOMAIN history : history[i] = n THEN history ELSE Append(history, n)
<1>1. added \in Seq(Nat) /\ \A i \in DOMAIN added :
          added[i] = n \/ \E j \in DOMAIN history : added[i] = history[j]
  OBVIOUS
<1>2. CASE Len(added) > ReplayWindow
  <2> HIDE DEF added
  <2>1. Len(added) > 0
    BY <1>1, <1>2, NonceSizes
  <2>2. Tail(added) \in Seq(Nat) /\ \A i \in DOMAIN Tail(added) :
            Tail(added)[i] = added[i + 1] /\ i + 1 \in DOMAIN added
    BY <1>1, <2>1
  <2>3. Remembered(n) = Tail(added)
    BY <1>2 DEF Remembered, added
  <2> QED
    BY <1>1, <2>2, <2>3
<1>3. CASE ~(Len(added) > ReplayWindow)
  BY <1>1, <1>3 DEF Remembered
<1> QED
  BY <1>2, <1>3

(* No nonce is held and none was used when the manager starts.              *)
LEMMA NonceInvInitially == NonceInit => NonceInv
BY DEF NonceInit, NonceInv, NonceRanges, HistoryIsCommitted, NonceHeldOnce, CounterBeyondUse,
       Holders, Stages

(* Under the invariant a nonce in flight is held by one user, and the set   *)
(* of holders loses exactly the user who settles.                           *)
LEMMA SettlingFreesOne ==
    ASSUME NonceInv, NEW u \in NonceUsers, stage[u] # "idle", Settled(u)
    PROVE  /\ stage' \in [NonceUsers -> Stages] /\ nonceOf' \in [NonceUsers -> Nat \cup {NoNonce}]
           /\ Holders' = Holders \ {u}
           /\ \A v \in Holders' : nonceOf'[v] = nonceOf[v]
           /\ inFlight \ {nonceOf[u]} = {nonceOf'[v] : v \in Holders'}
           /\ nonceOf[u] \in Nat /\ nonceOf[u] < current
           /\ synced = NoNonce
<1>1. u \in Holders /\ nonceOf[u] \in Nat /\ nonceOf[u] < current /\ synced = NoNonce
  BY DEF NonceInv, CounterBeyondUse, Holders
<1>2. /\ stage' \in [NonceUsers -> Stages] /\ nonceOf' \in [NonceUsers -> Nat \cup {NoNonce}]
      /\ Holders' = Holders \ {u}
      /\ \A v \in Holders' : nonceOf'[v] = nonceOf[v]
  BY DEF NonceInv, NonceRanges, Settled, Holders, Stages
<1>3. inFlight = {nonceOf[v] : v \in Holders}
  BY DEF NonceInv, CounterBeyondUse
<1>4. \A v \in Holders \ {u} : nonceOf[v] # nonceOf[u]
  BY <1>1 DEF NonceInv, NonceHeldOnce
<1>5. inFlight \ {nonceOf[u]} = {nonceOf'[v] : v \in Holders'}
  BY <1>2, <1>3, <1>4
<1> QED
  BY <1>1, <1>2, <1>5

(* Every step keeps the invariant.                                          *)
LEMMA NonceInvKept == NonceInv /\ [NonceNext]_nonceVars => NonceInv'
<1> SUFFICES ASSUME NonceInv, [NonceNext]_nonceVars PROVE NonceInv'
  OBVIOUS
<1> USE DEF NonceInv
<1>1. ASSUME NEW u \in NonceUsers, AcquireNext(u) PROVE NonceInv'
  <2> USE <1>1 DEF AcquireNext
  <2>1. NonceRanges' /\ HistoryIsCommitted'
    BY DEF NonceRanges, HistoryIsCommitted, Stages
  <2>2. Holders' = Holders \cup {u} /\ u \notin Holders
    BY DEF NonceRanges, Holders
  <2>3. \A v \in Holders : nonceOf'[v] = nonceOf[v]
    BY <2>2 DEF NonceRanges, Holders
  <2>4. nonceOf'[u] = current
    BY DEF NonceRanges
  <2>5. NonceHeldOnce'
    BY <2>2, <2>3, <2>4 DEF NonceHeldOnce, CounterBeyondUse, NonceRanges
  <2>6. inFlight' = {nonceOf'[v] : v \in Holders'}
    BY <2>2, <2>3, <2>4 DEF CounterBeyondUse
  <2>7. \A v \in Holders' : nonceOf'[v] \in Nat /\ nonceOf'[v] < current'
    BY <2>2, <2>3, <2>4 DEF CounterBeyondUse, NonceRanges
  <2>8. \A n \in committed' : n < current' /\ n < chainNext'
    BY DEF CounterBeyondUse, NonceRanges
  <2> QED
    BY <2>1, <2>5, <2>6, <2>7, <2>8 DEF CounterBeyondUse
<1>2. ASSUME NEW u \in NonceUsers, ValidateBeforeSend(u) PROVE NonceInv'
  <2> USE <1>2 DEF ValidateBeforeSend
  <2>1. NonceRanges' /\ Holders' = Holders
    BY DEF NonceRanges, Stages, Holders
  <2> QED
    BY <2>1 DEF HistoryIsCommitted, NonceHeldOnce, CounterBeyondUse
<1>3. ASSUME NEW u \in NonceUsers, CommitNonce(u) PROVE NonceInv'
  <2> USE <1>3 DEF CommitNonce
  <2>1. stage[u] # "idle"
    OBVIOUS
  <2>2. /\ stage' \in [NonceUsers -> Stages] /\ nonceOf' \in [NonceUsers -> Nat \cup {NoNonce}]
        /\ Holders' = Holders \ {u}
        /\ \A v \in Holders' : nonceOf'[v] = nonceOf[v]
        /\ inFlight' = {nonceOf'[v] : v \in Holders'}
        /\ nonceOf[u] \in Nat /\ nonceOf[u] < current /\ synced = NoNonce
    BY <2>1, SettlingFreesOne
  <2>3. history' \in Seq(Nat) /\ HistoryIsCommitted'
    <3> DEFINE n == nonceOf[u]
    <3>1. n \in Nat /\ history \in Seq(Nat)
      BY <2>2 DEF NonceRanges
    <3> HIDE DEF n
    <3>2. /\ Remembered(n) \in Seq(Nat)
          /\ \A i \in DOMAIN Remembered(n) :
                Remembered(n)[i] = n \/ \E j \in DOMAIN history : Remembered(n)[i] = history[j]
      BY <3>1, RememberedOnlyAdds
    <3>3. history' = Remembered(n) /\ committed' = committed \cup {n}
      BY DEF n
    <3>4. \A j \in DOMAIN history : history[j] \in committed
      BY DEF HistoryIsCommitted
    <3>5. \A i \in DOMAIN history' : history'[i] \in committed'
      BY <3>2, <3>3, <3>4
    <3> QED
      BY <3>2, <3>3, <3>5 DEF HistoryIsCommitted
  <2>4. NonceRanges'
    <3>1. current' \in Nat /\ chainNext' \in Nat /\ synced' \in Nat \cup {NoNonce}
      BY <2>2 DEF NonceRanges
    <3>2. committed' \in SUBSET Nat
      BY <2>2 DEF NonceRanges
    <3> QED
      BY <2>2, <2>3, <3>1, <3>2 DEF NonceRanges
  <2>5. u \in Holders
    BY <2>1 DEF Holders
  <2>6. NonceHeldOnce'
    BY <2>2, <2>5 DEF NonceHeldOnce
  <2>7. \A v \in Holders' : nonceOf'[v] \in Nat /\ nonceOf'[v] < current'
    BY <2>2 DEF CounterBeyondUse
  <2>8. \A n \in committed' : n < current' /\ n < chainNext'
    BY <2>2 DEF CounterBeyondUse, NonceRanges
  <2> QED
    BY <2>2, <2>3, <2>4, <2>6, <2>7, <2>8 DEF CounterBeyondUse
<1>4. ASSUME NEW u \in NonceUsers, RollbackNonce(u) PROVE NonceInv'
  <2> USE <1>4 DEF RollbackNonce
  <2>1. /\ stage' \in [NonceUsers -> Stages] /\ nonceOf' \in [NonceUsers -> Nat \cup {NoNonce}]
        /\ Holders' = Holders \ {u}
        /\ \A v \in Holders' : nonceOf'[v] = nonceOf[v]
        /\ inFlight' = {nonceOf'[v] : v \in Holders'}
        /\ nonceOf[u] \in Nat /\ nonceOf[u] < current /\ synced = NoNonce
    BY SettlingFreesOne
  <2>2. u \in Holders
    BY DEF Holders
  <2>3. NonceRanges' /\ HistoryIsCommitted'
    BY <2>1 DEF NonceRanges, HistoryIsCommitted
  <2>4. NonceHeldOnce'
    BY <2>1 DEF NonceHeldOnce
  <2>5. \A v \in Holders' : nonceOf[v] # nonceOf[u] /\ nonceOf[v] \in Nat /\ nonceOf[v] < current
    BY <2>1, <2>2 DEF NonceHeldOnce, CounterBeyondUse
  <2>6. \A v \in Holders' : nonceOf'[v] \in Nat /\ nonceOf'[v] < current'
    BY <2>1, <2>5 DEF NonceRanges
  <2>7. \A n \in committed : n # nonceOf[u] /\ n \in Nat /\ n < current /\ n < chainNext
    BY <2>2 DEF NonceHeldOnce, CounterBeyondUse, NonceRanges
  <2>8. \A n \in committed' : n < current' /\ n < chainNext'
    BY <2>1, <2>7 DEF NonceRanges
  <2> QED
    BY <2>1, <2>3, <2>4, <2>6, <2>8 DEF CounterBeyondUse
<1>5. CASE HistoryExpires
  <2>1. PICK i \in DOMAIN history : history' = RemoveAt(history, i)
    BY <1>5 DEF HistoryExpires
  <2>2. history' \in Seq(Nat) /\ \A k \in DOMAIN history' : \E j \in DOMAIN history : history'[k] = history[j]
    BY <2>1, RemovingKeepsOthers DEF NonceRanges
  <2>3. NonceRanges' /\ HistoryIsCommitted' /\ Holders' = Holders
    BY <1>5, <2>2 DEF HistoryExpires, NonceRanges, HistoryIsCommitted, Holders
  <2> QED
    BY <1>5, <2>3 DEF HistoryExpires, NonceHeldOnce, CounterBeyondUse
<1>6. CASE SyncReadsChain
  <2>1. NonceRanges' /\ HistoryIsCommitted' /\ Holders' = Holders
    BY <1>6 DEF SyncReadsChain, NonceRanges, HistoryIsCommitted, Holders
  <2> QED
    BY <1>6, <2>1 DEF SyncReadsChain, NonceHeldOnce, CounterBeyondUse
<1>7. CASE SyncResets
  <2>1. Holders = {} /\ synced = chainNext /\ Holders' = Holders
    BY <1>7 DEF SyncResets, CounterBeyondUse, Holders
  <2>2. NonceRanges' /\ HistoryIsCommitted'
    BY <1>7, <2>1 DEF SyncResets, NonceRanges, HistoryIsCommitted
  <2>3. \A n \in committed' : n < current' /\ n < chainNext'
    BY <1>7, <2>1 DEF SyncResets, CounterBeyondUse
  <2>4. inFlight' = {nonceOf'[v] : v \in Holders'}
    BY <1>7, <2>1 DEF SyncResets
  <2>5. NonceHeldOnce' /\ \A v \in Holders' : nonceOf'[v] \in Nat /\ nonceOf'[v] < current'
    BY <2>1 DEF NonceHeldOnce
  <2>6. synced' = NoNonce
    BY <1>7 DEF SyncResets
  <2> QED
    BY <2>2, <2>3, <2>4, <2>5, <2>6 DEF CounterBeyondUse
<1>8. CASE UNCHANGED nonceVars
  BY <1>8 DEF nonceVars, NonceRanges, HistoryIsCommitted, NonceHeldOnce, CounterBeyondUse, Holders
<1> QED
  BY <1>1, <1>2, <1>3, <1>4, <1>5, <1>6, <1>7, <1>8 DEF NonceNext

(* The invariant makes the check exact: a held nonce passes it, and one     *)
(* that was committed never does, even if the history has forgotten it.     *)
LEMMA InvariantMakesExact == NonceInv => NoncesAreExact
<1> SUFFICES ASSUME NonceInv PROVE NoncesAreExact
  OBVIOUS
<1> USE DEF NonceInv
<1>1. ASSUME NEW u \in Holders PROVE Valid(nonceOf[u])
  <2>1. \A i \in DOMAIN history : history[i] # nonceOf[u]
    BY <1>1 DEF HistoryIsCommitted, NonceHeldOnce
  <2>2. nonceOf[u] \in inFlight /\ nonceOf[u] \in Nat /\ nonceOf[u] < current
    BY <1>1 DEF CounterBeyondUse
  <2> QED
    BY <2>1, <2>2 DEF Valid, NonceRanges
<1>2. ASSUME NEW n \in committed PROVE ~Valid(n)
  <2>1. n < current
    BY <1>2 DEF CounterBeyondUse
  <2>2. n \notin inFlight
    BY <1>2 DEF CounterBeyondUse, NonceHeldOnce
  <2> QED
    BY <2>1, <2>2 DEF Valid
<1> QED
  BY <1>1, <1>2 DEF NoncesAreExact, CheckIsExact

(* Whatever users, the expiry of the history and synchronisations do, no    *)
(* two users of src/nonceManager.ts hold the same nonce, none holds one     *)
(* that was committed, and validateBeforeSend() tells them apart exactly.   *)
THEOREM NoncesAlwaysExact == NonceSpec => []NoncesAreExact
<1>1. NonceInv /\ [NonceNext]_nonceVars => NonceInv'
  BY NonceInvKept
<1> QED
  BY NonceInvInitially, <1>1, InvariantMakesExact, PTL DEF NonceSpec

-----------------------------------------------------------------------------
(* Sequence numbers.  An entry that is marked has a caller that refreshes   *)
(* it; and with callers that leave each other's fetch alone, numbers are    *)
(* held only of the valid entry in the cache, all below its next one, and   *)
(* none while a fetch is under way.                                         *)
EntryRecords == [base : Nat, offset : Nat, state : {"valid", "invalidated", "refreshing"}]

SequenceRanges ==
    /\ entries \in Seq(EntryRecords)
    /\ cached \in 0 .. Len(entries)
    /\ caller \in [SeqCallers -> [at : {"idle", "get", "refresh", "gotten", "refreshed", "holds"},
                                  old : 0 .. Len(entries), number : Nat]]
    /\ onLedger \in Nat

RefreshHasCaller ==
    cached # 0 /\ entries[cached].state = "refreshing" =>
        \E c \in SeqCallers : Fetching(c) /\ caller[c].old = cached

Holds(c) == caller[c].at = "holds"
HeldOfValidEntry ==
    ~hasty =>
        /\ \A c, d \in SeqCallers : Fetching(c) => ~Holds(d) /\ (Fetching(d) => c = d)
        /\ \A c \in SeqCallers : Holds(c) =>
              /\ cached # 0 /\ entries[cached].state = "valid"
              /\ caller[c].number < entries[cached].base + entries[cached].offset
        /\ \A c, d \in SeqCallers :
              Holds(c) /\ Holds(d) /\ caller[c].number = caller[d].number => c = d

SequenceInv == SequenceRanges /\ RefreshHasCaller /\ HeldOfValidEntry

(* A fetch starts when no number is held, and marks the entry.              *)
LEMMA FetchKeeps ==
    ASSUME SequenceInv, NEW c \in SeqCallers, NEW why \in {"get", "refresh"},
           caller[c].at = "idle", Fetch(c, why),
           ~hasty => \A d \in SeqCallers : ~Holds(d) /\ ~Fetching(d)
    PROVE  SequenceInv'
<1> USE DEF SequenceInv
<1>1. /\ caller' = [caller EXCEPT ![c] = [at |-> why, old |-> cached, number |-> 0]]
      /\ entries' = IF cached = 0 THEN entries ELSE [entries EXCEPT ![cached].state = "refreshing"]
      /\ UNCHANGED <<cached, onLedger, hasty>>
  BY DEF Fetch
<1>2. /\ entries' \in Seq(EntryRecords) /\ Len(entries') = Len(entries)
      /\ cached # 0 => entries'[cached].state = "refreshing"
  <2>1. CASE cached = 0
    BY <1>1, <2>1 DEF SequenceRanges
  <2>2. CASE cached # 0
    <3>1. cached \in 1 .. Len(entries) /\ entries[cached] \in EntryRecords
      BY <2>2 DEF SequenceRanges
    <3>2. [entries[cached] EXCEPT !.state = "refreshing"] \in EntryRecords
      BY <3>1 DEF EntryRecords
    <3>3. entries' = [entries EXCEPT ![cached] = [entries[cached] EXCEPT !.state = "refreshing"]]
      BY <1>1, <2>2
    <3>4. entries'[cached].state = "refreshing"
      BY <3>1, <3>3 DEF SequenceRanges, EntryRecords
    <3> HIDE DEF EntryRecords
    <3> QED
      BY <3>1, <3>2, <3>3, <3>4 DEF SequenceRanges
  <2> QED
    BY <2>1, <2>2
<1>3. SequenceRanges'
  BY <1>1, <1>2 DEF SequenceRanges
<1>4. caller'[c].at = why /\ caller'[c].old = cached
      /\ \A d \in SeqCallers : d # c => caller'[d] = caller[d]
  BY <1>1 DEF SequenceRanges
<1>5. RefreshHasCaller'
  BY <1>1, <1>2, <1>4 DEF RefreshHasCaller, Fetching
<1>6. HeldOfValidEntry'
  BY <1>1, <1>4 DEF HeldOfValidEntry, Holds, Fetching
<1> QED
  BY <1>3, <1>5, <1>6

(* The answer makes a new entry, of which the caller may hold the first.    *)
LEMMA FetchEndKeeps ==
    ASSUME SequenceInv, NEW c \in SeqCallers, FetchEnds(c)
    PROVE  SequenceInv'
<1> USE DEF SequenceInv
<1> DEFINE e == [base |-> caller[c].number, offset |-> IF caller[c].at = "gotten" THEN 2 ELSE 1,
                 state |-> "valid"]
           r == IF caller[c].at = "gotten"
                THEN [at |-> "holds", old |-> 0, number |-> caller[c].number + 1] ELSE Resting
<1>1. /\ caller[c].at \in {"gotten", "refreshed"}
      /\ cached' = Len(entries) + 1 /\ entries' = Append(entries, e)
      /\ caller' = [caller EXCEPT ![c] = r]
      /\ UNCHANGED <<onLedger, hasty>>
  BY DEF FetchEnds
<1>2. e \in EntryRecords
  <2>1. caller[c].number \in Nat
    BY DEF SequenceRanges
  <2> QED
    BY <2>1 DEF EntryRecords
<1>e. e.state = "valid" /\ (caller[c].at = "gotten" => e.base + e.offset = caller[c].number + 2)
  OBVIOUS
<1>3. /\ r.at \in {"holds", "idle"} /\ r.old = 0 /\ r.number \in Nat
      /\ r \in [at : {"idle", "holds"}, old : {0}, number : Nat]
      /\ r.at = "holds" => caller[c].at = "gotten" /\ r.number = caller[c].number + 1
  <2>1. caller[c].number \in Nat
    BY DEF SequenceRanges
  <2>2. CASE caller[c].at = "gotten"
    BY <2>1, <2>2
  <2>3. CASE caller[c].at # "gotten"
    BY <2>3 DEF Resting
  <2> QED
    BY <2>2, <2>3
<1> HIDE DEF e, r
<1>4. /\ entries' \in Seq(EntryRecords) /\ Len(entries') = Len(entries) + 1
      /\ entries'[cached'] = e /\ Len(entries) \in Nat
  BY <1>1, <1>2 DEF SequenceRanges
<1>5. caller'[c] = r /\ \A d \in SeqCallers : d # c => caller'[d] = caller[d]
  BY <1>1 DEF SequenceRanges
<1>6. SequenceRanges'
  <2>1. caller' \in [SeqCallers -> [at : {"idle", "get", "refresh", "gotten", "refreshed", "holds"},
                                    old : 0 .. Len(entries'), number : Nat]]
    <3>1. \A d \in SeqCallers : caller[d].old \in 0 .. Len(entries')
      BY <1>4 DEF SequenceRanges
    <3>2. 0 \in 0 .. Len(entries')
      BY <1>4
    <3> QED
      BY <1>1, <1>3, <3>1, <3>2 DEF SequenceRanges
  <2> QED
    BY <1>1, <1>4, <2>1 DEF SequenceRanges
<1>7. RefreshHasCaller'
  BY <1>1, <1>e, <1>4 DEF RefreshHasCaller
<1>8. HeldOfValidEntry'
  <2>1. Fetching(c)
    BY <1>1 DEF Fetching
  <2>2. ~hasty => \A d \in SeqCallers : d # c => ~Fetching(d) /\ ~Holds(d)
    BY <2>1 DEF HeldOfValidEntry
  <2>3. ~hasty => \A d \in SeqCallers : ~Fetching(d)' /\ (Holds(d)' => d = c)
    BY <1>3, <1>5, <2>2 DEF Fetching, Holds
  <2>4. Holds(c)' => cached' # 0 /\ entries'[cached'].state = "valid"
                     /\ caller'[c].number < entries'[cached'].base + entries'[cached'].offset
    <3>1. caller[c].number \in Nat /\ Len(entries) \in Nat
      BY DEF SequenceRanges
    <3> QED
      BY <1>1, <1>e, <1>3, <1>4, <1>5, <3>1 DEF Holds
  <2> QED
    BY <1>1, <2>3, <2>4 DEF HeldOfValidEntry
<1> QED
  BY <1>6, <1>7, <1>8

(* A fetch that fails unmarks the entry it was to replace.                  *)
LEMMA FetchFailKeeps ==
    ASSUME SequenceInv, NEW c \in SeqCallers, FetchFails(c)
    PROVE  SequenceInv'
<1> USE DEF SequenceInv
<1> DEFINE o == caller[c].old
           marked == o # 0 /\ entries[o].state = "refreshing"
<1>1. /\ Fetching(c) /\ caller' = [caller EXCEPT ![c] = Resting]
      /\ entries' = IF marked THEN [entries EXCEPT ![o].state = "invalidated"] ELSE entries
      /\ UNCHANGED <<cached, onLedger, hasty>>
  BY DEF FetchFails
<1>2. o \in 0 .. Len(entries)
  BY DEF SequenceRanges
<1>3. /\ caller'[c] = Resting /\ \A d \in SeqCallers : d # c => caller'[d] = caller[d]
      /\ caller' \in [SeqCallers -> [at : {"idle", "get", "refresh", "gotten", "refreshed", "holds"},
                                     old : 0 .. Len(entries), number : Nat]]
  BY <1>1 DEF SequenceRanges, Resting
<1> HIDE DEF o
<1>4. /\ entries' \in Seq(EntryRecords) /\ Len(entries') = Len(entries)
      /\ marked => entries'[o].state = "invalidated"
      /\ \A k \in 1 .. Len(entries) : k # o => entries'[k] = entries[k]
      /\ ~marked => entries' = entries
  <2>1. CASE ~marked
    BY <1>1, <2>1 DEF SequenceRanges
  <2>2. CASE marked
    <3>1. o \in 1 .. Len(entries) /\ entries[o] \in EntryRecords
      BY <1>2, <2>2 DEF SequenceRanges
    <3>2. [entries[o] EXCEPT !.state = "invalidated"] \in EntryRecords
          /\ [entries[o] EXCEPT !.state = "invalidated"].state = "invalidated"
      BY <3>1 DEF EntryRecords
    <3>3. entries' = [entries EXCEPT ![o] = [entries[o] EXCEPT !.state = "invalidated"]]
      BY <1>1, <2>2
    <3> HIDE DEF EntryRecords, marked
    <3> QED
      BY <2>2, <3>1, <3>2, <3>3 DEF SequenceRanges
  <2> QED
    BY <2>1, <2>2
<1>5. SequenceRanges'
  BY <1>1, <1>3, <1>4 DEF SequenceRanges
<1>6. RefreshHasCaller'
  <2> SUFFICES ASSUME cached # 0, entries'[cached].state = "refreshing"
               PROVE  \E d \in SeqCallers : Fetching(d)' /\ caller'[d].old = cached
    BY <1>1 DEF RefreshHasCaller
  <2>1. cached \in 1 .. Len(entries)
    BY DEF SequenceRanges
  <2>2. entries[cached].state = "refreshing" /\ cached # o
    BY <1>1, <1>4, <2>1
  <2>3. PICK d \in SeqCallers : Fetching(d) /\ caller[d].old = cached
    BY <2>2 DEF RefreshHasCaller
  <2>4. d # c
    BY <2>2, <2>3 DEF o
  <2> QED
    BY <1>3, <2>3, <2>4 DEF Fetching
<1>7. HeldOfValidEntry'
  <2>1. ~hasty => \A d \in SeqCallers : ~Holds(d) /\ (Fetching(d) => d = c)
    BY <1>1 DEF HeldOfValidEntry
  <2>2. ~hasty => \A d \in SeqCallers : ~Holds(d)' /\ ~Fetching(d)'
    BY <1>3, <2>1 DEF Holds, Fetching, Resting
  <2> QED
    BY <1>1, <2>2 DEF HeldOfValidEntry
<1> QED
  BY <1>5, <1>6, <1>7

(* The next number of the entry is above all that are held of it.           *)
LEMMA GetKeeps ==
    ASSUME SequenceInv, NEW c \in SeqCallers, GetFromEntry(c)
    PROVE  SequenceInv'
<1> USE DEF SequenceInv
<1> DEFINE n == entries[cached].base + entries[cached].offset
<1>1. cached \in 1 .. Len(entries) /\ entries[cached] \in EntryRecords /\ n \in Nat
  <2>1. cached \in 1 .. Len(entries) /\ entries[cached] \in EntryRecords
    BY DEF GetFromEntry, SequenceRanges
  <2> QED
    BY <2>1 DEF EntryRecords
<1>2. /\ caller[c].at = "idle" /\ entries[cached].state # "invalidated"
      /\ caller' = [caller EXCEPT ![c] = [at |-> "holds", old |-> 0, number |-> n]]
      /\ entries' = [entries EXCEPT ![cached] = [entries[cached] EXCEPT !.offset = @ + 1]]
      /\ UNCHANGED <<cached, onLedger, hasty>>
      /\ ~hasty => \A d \in SeqCallers : ~Fetching(d)
  BY DEF GetFromEntry, Quiet
<1>3. /\ [entries[cached] EXCEPT !.offset = @ + 1] \in EntryRecords
      /\ [entries[cached] EXCEPT !.offset = @ + 1].state = entries[cached].state
      /\ [entries[cached] EXCEPT !.offset = @ + 1].base = entries[cached].base
      /\ [entries[cached] EXCEPT !.offset = @ + 1].offset = entries[cached].offset + 1
  BY <1>1 DEF EntryRecords
<1>4. /\ entries' \in Seq(EntryRecords) /\ Len(entries') = Len(entries)
      /\ entries'[cached].state = entries[cached].state
      /\ entries'[cached].base = entries[cached].base
      /\ entries'[cached].offset = entries[cached].offset + 1
  <2> HIDE DEF EntryRecords
  <2> QED
    BY <1>1, <1>2, <1>3 DEF SequenceRanges
<1>5. /\ caller'[c].at = "holds" /\ caller'[c].number = n
      /\ \A d \in SeqCallers : d # c => caller'[d] = caller[d]
  BY <1>2 DEF SequenceRanges
<1>6. SequenceRanges'
  <2> HIDE DEF n
  <2>1. caller' \in [SeqCallers -> [at : {"idle", "get", "refresh", "gotten", "refreshed", "holds"},
                                    old : 0 .. Len(entries), number : Nat]]
    BY <1>1, <1>2 DEF SequenceRanges
  <2> QED
    BY <1>2, <1>4, <2>1 DEF SequenceRanges
<1>7. RefreshHasCaller'
  BY <1>2, <1>4, <1>5 DEF RefreshHasCaller, Fetching
<1>8. HeldOfValidEntry'
  <2> SUFFICES ASSUME ~hasty PROVE HeldOfValidEntry'
    BY <1>2 DEF HeldOfValidEntry
  <2>1. \A d \in SeqCallers : ~Fetching(d)'
    BY <1>2, <1>5 DEF Fetching
  <2>2. entries[cached].state = "valid"
    BY <1>1, <1>2 DEF RefreshHasCaller, EntryRecords
  <2>3. n = entries[cached].base + entries[cached].offset
        /\ n < entries'[cached].base + entries'[cached].offset
    BY <1>1, <1>4 DEF EntryRecords
  <2> HIDE DEF n
  <2>4. \A d \in SeqCallers : d # c /\ Holds(d)' => Holds(d) /\ caller'[d].number = caller[d].number
                                                  /\ caller[d].number \in Nat /\ caller[d].number < n
    BY <1>5, <2>3 DEF HeldOfValidEntry, Holds, SequenceRanges
  <2>5. \A d \in SeqCallers : Holds(d)' =>
            caller'[d].number < entries'[cached].base + entries'[cached].offset
    <3> TAKE d \in SeqCallers
    <3>1. CASE d = c
      BY <1>5, <2>3, <3>1
    <3>2. CASE d # c
      <4> HAVE Holds(d)'
      <4>1. caller'[d].number \in Nat /\ caller'[d].number < n
        BY <2>4, <3>2
      <4>2. n \in Nat /\ entries'[cached].base \in Nat /\ entries'[cached].offset \in Nat
        BY <1>1, <1>4 DEF EntryRecords
      <4> QED
        BY <2>3, <4>1, <4>2
    <3> QED
      BY <3>1, <3>2
  <2>6. \A d, f \in SeqCallers :
            Holds(d)' /\ Holds(f)' /\ caller'[d].number = caller'[f].number => d = f
    BY <1>1, <1>5, <2>4 DEF HeldOfValidEntry
  <2> QED
    BY <1>2, <1>1, <1>4, <2>1, <2>2, <2>5, <2>6 DEF HeldOfValidEntry
<1> QED
  BY <1>6, <1>7, <1>8

LEMMA SequenceStepKeeps == SequenceInv /\ [SequenceNext]_sequenceVars => SequenceInv'
<1> SUFFICES ASSUME SequenceInv, [SequenceNext]_sequenceVars PROVE SequenceInv'
  OBVIOUS
<1> USE DEF SequenceInv
<1>1. ASSUME NEW c \in SeqCallers, GetFetches(c) PROVE SequenceInv'
  <2>1. ~hasty => \A d \in SeqCallers : ~Holds(d) /\ ~Fetching(d)
    BY <1>1 DEF GetFetches, Quiet, HeldOfValidEntry
  <2> QED
    BY <1>1, <2>1, FetchKeeps DEF GetFetches
<1>2. ASSUME NEW c \in SeqCallers, Refresh(c) PROVE SequenceInv'
  <2>1. ~hasty => \A d \in SeqCallers : ~Holds(d) /\ ~Fetching(d)
    BY <1>2 DEF Refresh, NothingHeld, Holds, Fetching
  <2> QED
    BY <1>2, <2>1, FetchKeeps DEF Refresh
<1>3. ASSUME NEW c \in SeqCallers, AccountRead(c) PROVE SequenceInv'
  <2> DEFINE r == [caller[c] EXCEPT !.at = IF @ = "get" THEN "gotten" ELSE "refreshed",
                                    !.number = onLedger]
  <2>r. /\ r \in [at : {"gotten", "refreshed"}, old : 0 .. Len(entries), number : Nat]
        /\ r.old = caller[c].old
    BY DEF SequenceRanges
  <2>c. /\ caller[c].at \in {"get", "refresh"} /\ caller' = [caller EXCEPT ![c] = r]
        /\ UNCHANGED <<entries, cached, onLedger, hasty>>
    BY <1>3 DEF AccountRead
  <2> HIDE DEF r
  <2>d. caller'[c] = r /\ \A d \in SeqCallers : d # c => caller'[d] = caller[d]
    BY <2>c DEF SequenceRanges
  <2>1. /\ \A d \in SeqCallers : Fetching(d)' = Fetching(d) /\ Holds(d)' = Holds(d)
                                 /\ caller'[d].old = caller[d].old
        /\ \A d \in SeqCallers : Holds(d) => caller'[d].number = caller[d].number
    BY <2>r, <2>c, <2>d DEF Fetching, Holds
  <2>2. SequenceRanges'
    BY <2>r, <2>c DEF SequenceRanges
  <2>3. RefreshHasCaller'
    BY <1>3, <2>1 DEF AccountRead, RefreshHasCaller
  <2>4. HeldOfValidEntry'
    BY <1>3, <2>1 DEF AccountRead, HeldOfValidEntry
  <2> QED
    BY <2>2, <2>3, <2>4
<1>4. ASSUME NEW c \in SeqCallers, TransactionEnds(c) PROVE SequenceInv'
  <2>1. /\ caller'[c] = Resting /\ \A d \in SeqCallers : d # c => caller'[d] = caller[d]
        /\ UNCHANGED <<entries, cached, hasty>> /\ ~Fetching(c)
    BY <1>4 DEF TransactionEnds, SequenceRanges, Fetching
  <2>2. SequenceRanges'
    BY <1>4 DEF TransactionEnds, SequenceRanges, Resting
  <2>3. RefreshHasCaller'
    BY <2>1 DEF RefreshHasCaller, Fetching
  <2>4. HeldOfValidEntry'
    BY <2>1 DEF HeldOfValidEntry, Fetching, Holds, Resting
  <2> QED
    BY <2>2, <2>3, <2>4
<1>5. CASE EntryExpires
  <2>1. ~hasty => \A d \in SeqCallers : ~Holds(d) /\ ~Fetching(d)
    BY <1>5 DEF EntryExpires, NothingHeld, Holds, Fetching
  <2>2. cached' = 0 /\ UNCHANGED <<entries, caller, onLedger, hasty>>
    BY <1>5 DEF EntryExpires
  <2>3. SequenceRanges' /\ RefreshHasCaller'
    BY <2>2 DEF SequenceRanges, RefreshHasCaller
  <2>4. HeldOfValidEntry'
    BY <2>1, <2>2 DEF HeldOfValidEntry, Holds, Fetching
  <2> QED
    BY <2>3, <2>4
<1>6. CASE UNCHANGED sequenceVars
  BY <1>6 DEF sequenceVars, SequenceRanges, RefreshHasCaller, HeldOfValidEntry, Holds, Fetching
<1> QED
  BY <1>1, <1>2, <1>3, <1>4, <1>5, <1>6, GetKeeps, FetchEndKeeps, FetchFailKeeps DEF SequenceNext

(* Callers that leave each other's fetch alone never share a number, and no *)
(* entry stays marked without a fetch that will replace or unmark it, for   *)
(* every number of callers, entries and numbers.                            *)
THEOREM NumbersNeverShared == SequenceSpec => []NumberGivenOnce
<1>1. SequenceInit => SequenceInv
  BY DEF SequenceInit, SequenceInv, SequenceRanges, RefreshHasCaller, HeldOfValidEntry,
         Holds, Fetching, Resting
<1>2. SequenceInv => NumberGivenOnce
  BY DEF SequenceInv, NumberGivenOnce, RefreshHasCaller, HeldOfValidEntry, Holds
<1> QED
  BY <1>1, <1>2, SequenceStepKeeps, PTL DEF SequenceSpec

-----------------------------------------------------------------------------
(* The connection pool.  Connections are numbered as they are made, so a    *)
(* new one is held, marked or idle nowhere; the rest is what the books say. *)
ConnectionIds == 1 .. created

ConnectionRanges ==
    /\ created \in Nat
    /\ connections \in SUBSET ConnectionIds
    /\ idleQueue \in Seq(ConnectionIds)
    /\ activeSet \in SUBSET ConnectionIds /\ unhealthy \in SUBSET ConnectionIds
    /\ held \in [PoolUsers -> 0 .. created]

ConnectionInv == ConnectionRanges /\ PoolBooksAgree

LEMMA ConnectionsFinite ==
    ASSUME ConnectionRanges, NEW S \in SUBSET ConnectionIds
    PROVE  IsFiniteSet(S) /\ Cardinality(S) \in Nat
<1>1. IsFiniteSet(ConnectionIds)
  BY FS_Interval DEF ConnectionIds, ConnectionRanges
<1> QED
  BY <1>1, FS_Subset, FS_CardinalityType

(* The oldest connection is one of them.                                    *)
LEMMA OldestIsOpen ==
    ASSUME ConnectionRanges, NEW S \in SUBSET ConnectionIds, S # {}
    PROVE  Oldest(S) \in S
<1>1. S \in SUBSET Nat
  BY DEF ConnectionIds
<1> QED
  BY <1>1, LeastOfNaturals DEF Oldest

LEMMA ConnectionInitSound == ConnectionInit => ConnectionInv
<1> SUFFICES ASSUME ConnectionInit PROVE ConnectionInv
  OBVIOUS
<1>1. MinConnections \in Nat /\ MaxConnections \in Nat /\ MinConnections <= MaxConnections
  BY ConnectionBounds
<1>2. Cardinality(1 .. MinConnections) = MinConnections
  BY <1>1, FS_Interval
<1>3. /\ idleQueue \in [1 .. MinConnections -> 1 .. MinConnections]
      /\ \A i \in 1 .. MinConnections : idleQueue[i] = i
  BY <1>1 DEF ConnectionInit
<1>4. idleQueue \in Seq(1 .. MinConnections) /\ DOMAIN idleQueue = 1 .. MinConnections
  BY <1>1, <1>3
<1>5. ConnectionRanges
  BY <1>1, <1>4 DEF ConnectionInit, ConnectionRanges, ConnectionIds
<1>6. ToSet(idleQueue) \subseteq connections
  BY <1>3, <1>4 DEF ToSet, ConnectionInit
<1>7. IsInjective(idleQueue)
  BY <1>3, <1>4 DEF IsInjective
<1> QED
  BY <1>1, <1>2, <1>5, <1>6, <1>7 DEF ConnectionInit, ConnectionInv, PoolBooksAgree

LEMMA SuffixLength ==
    ASSUME NEW S, NEW s \in Seq(S), NEW k \in 0 .. Len(s)
    PROVE  Len(SubSeq(s, k + 1, Len(s))) = Len(s) - k
OBVIOUS

(* What the clean-up closes and what it leaves are different connections.   *)
LEMMA CleanupSplits ==
    ASSUME NEW S, NEW s \in Seq(S), NEW k \in 0 .. Len(s), IsInjective(s)
    PROVE  /\ SubSeq(s, k + 1, Len(s)) \in Seq(S) /\ IsInjective(SubSeq(s, k + 1, Len(s)))
           /\ ToSet(SubSeq(s, k + 1, Len(s))) \subseteq ToSet(s)
           /\ ToSet(SubSeq(s, 1, k)) \subseteq ToSet(s)
           /\ ToSet(SubSeq(s, k + 1, Len(s))) \cap ToSet(SubSeq(s, 1, k)) = {}
<1> DEFINE front == SubSeq(s, 1, k)
           back == SubSeq(s, k + 1, Len(s))
<1>1. Len(s) \in Nat /\ k \in Nat /\ k <= Len(s) /\ DOMAIN s = 1 .. Len(s)
  OBVIOUS
<1>2. /\ front \in Seq(S) /\ Len(front) = k /\ \A i \in 1 .. k : front[i] = s[i]
      /\ DOMAIN front = 1 .. k
  BY <1>1
<1>3. /\ back \in Seq(S) /\ Len(back) = Len(s) - k /\ \A i \in 1 .. Len(s) - k : back[i] = s[k + i]
      /\ DOMAIN back = 1 .. Len(s) - k
  <2>1. back \in Seq(S)
    BY <1>1
  <2>2. Len(back) = Len(s) - k
    BY SuffixLength
  <2>3. ASSUME NEW i \in 1 .. Len(s) - k PROVE back[i] = s[k + i]
    <3>1. (k + 1) + i - 1 = k + i /\ i \in 1 .. Len(s) - (k + 1) + 1
      BY <1>1
    <3> QED
      BY <1>1, <3>1
  <2>4. DOMAIN back = 1 .. Len(back)
    BY <2>1
  <2> QED
    BY <2>1, <2>2, <2>3, <2>4
<1> HIDE DEF front, back
<1>4. \A i \in 1 .. Len(s) - k : k + i \in DOMAIN s /\ k + i > k /\ k + i \in Nat
  BY <1>1
<1>5. \A i, j \in DOMAIN s : s[i] = s[j] => i = j
  BY DEF IsInjective
<1>6. IsInjective(back)
  <2> SUFFICES ASSUME NEW i \in 1 .. Len(s) - k, NEW j \in 1 .. Len(s) - k, back[i] = back[j]
               PROVE  i = j
    BY <1>3 DEF IsInjective
  <2>1. s[k + i] = s[k + j] /\ k + i \in DOMAIN s /\ k + j \in DOMAIN s
    BY <1>3, <1>4
  <2>2. k + i = k + j
    BY <1>5, <2>1
  <2> QED
    BY <1>1, <2>2
<1>7. ToSet(back) \subseteq ToSet(s) /\ ToSet(front) \subseteq ToSet(s)
  <2>1. ASSUME NEW i \in 1 .. Len(s) - k PROVE back[i] \in ToSet(s)
    <3>1. k + i \in DOMAIN s /\ back[i] = s[k + i]
      BY <1>3, <1>4
    <3> QED
      BY <3>1 DEF ToSet
  <2>2. ASSUME NEW i \in 1 .. k PROVE front[i] \in ToSet(s)
    <3>1. i \in DOMAIN s /\ front[i] = s[i]
      BY <1>1, <1>2
    <3> QED
      BY <3>1 DEF ToSet
  <2>3. ToSet(back) \subseteq ToSet(s)
    <3>1. \A x \in ToSet(back) : \E i \in 1 .. Len(s) - k : x = back[i]
      BY <1>3 DEF ToSet
    <3> QED
      BY <2>1, <3>1
  <2>4. ToSet(front) \subseteq ToSet(s)
    <3>1. \A x \in ToSet(front) : \E i \in 1 .. k : x = front[i]
      BY <1>2 DEF ToSet
    <3> QED
      BY <2>2, <3>1
  <2> QED
    BY <2>3, <2>4
<1>8. ASSUME NEW i \in 1 .. Len(s) - k, NEW j \in 1 .. k PROVE back[i] # front[j]
  <2>1. k + i \in DOMAIN s /\ j \in DOMAIN s /\ k + i # j
    BY <1>1, <1>4
  <2> QED
    <3>1. back[i] = s[k + i] /\ front[j] = s[j]
      BY <1>2, <1>3
    <3> QED
      BY <1>5, <2>1, <3>1
<1>9. ToSet(back) \cap ToSet(front) = {}
  BY <1>2, <1>3, <1>8 DEF ToSet
<1> QED
  BY <1>3, <1>6, <1>7, <1>9 DEF front, back

(* Popping the stack takes out one connection.                              *)
LEMMA PoppingOne ==
    ASSUME NEW S, NEW s \in Seq(S), s # <<>>, IsInjective(s)
    PROVE  /\ Front(s) \in Seq(S) /\ IsInjective(Front(s))
           /\ Last(s) \in S /\ Last(s) \in ToSet(s) /\ Last(s) \notin ToSet(Front(s))
           /\ ToSet(Front(s)) \subseteq ToSet(s)
<1> DEFINE n == Len(s)
           front == SubSeq(s, 1, n - 1)
<1>1. n \in Nat /\ n > 0 /\ DOMAIN s = 1 .. n /\ s[n] \in S
  OBVIOUS
<1>2. /\ front \in Seq(S) /\ DOMAIN front = 1 .. n - 1 /\ \A i \in 1 .. n - 1 : front[i] = s[i]
  BY <1>1
<1>3. Front(s) = front /\ Last(s) = s[n]
  BY DEF Front, Last
<1> HIDE DEF front, n
<1>4. \A i, j \in DOMAIN s : s[i] = s[j] => i = j
  BY DEF IsInjective
<1>5. /\ n \in DOMAIN s /\ \A i \in 1 .. n - 1 : i \in DOMAIN s /\ i # n
  BY <1>1
<1>6. IsInjective(front)
  BY <1>2, <1>4, <1>5 DEF IsInjective
<1>7. s[n] \notin ToSet(front) /\ ToSet(front) \subseteq ToSet(s) /\ s[n] \in ToSet(s)
  BY <1>2, <1>4, <1>5 DEF ToSet
<1> QED
  BY <1>1, <1>2, <1>3, <1>6, <1>7

(* A free user gets a connection that nobody holds, or the pool is shared   *)
(* from then on.                                                            *)
LEMMA AcquireConnectionKeeps ==
    ASSUME ConnectionInv, NEW u \in PoolUsers, AcquireConnection(u)
    PROVE  ConnectionInv'
<1>0. /\ created \in Nat /\ connections \in SUBSET ConnectionIds /\ idleQueue \in Seq(ConnectionIds)
      /\ activeSet \in SUBSET ConnectionIds /\ unhealthy \in SUBSET ConnectionIds
      /\ held \in [PoolUsers -> 0 .. created] /\ ConnectionRanges
      /\ MinConnections \in Nat /\ MaxConnections \in Nat
  BY ConnectionBounds DEF ConnectionInv, ConnectionRanges
<1>b. /\ ToSet(idleQueue) \subseteq connections /\ activeSet \subseteq connections
      /\ ToSet(idleQueue) \cap activeSet = {} /\ IsInjective(idleQueue)
      /\ Cardinality(connections) <= MaxConnections
      /\ ~shared => /\ \A v, w \in PoolUsers : held[v] = held[w] /\ held[v] # 0 => v = w
                    /\ activeSet = {held[v] : v \in PoolUsers} \cap connections
                    /\ ToSet(idleQueue) \cap unhealthy = {}
  BY DEF ConnectionInv, PoolBooksAgree
<1>1. PICK k \in Cleanups :
        LET closed == ToSet(SubSeq(idleQueue, 1, k))
            idle == SubSeq(idleQueue, k + 1, Len(idleQueue))
            open == connections \ closed
        IN  \/ /\ idle # <<>>
               /\ Taken(u, Last(idle), Front(idle))
               /\ connections' = open
               /\ UNCHANGED <<created, shared>>
            \/ /\ idle = <<>> /\ Cardinality(open) < MaxConnections /\ created < MaxCreated
               /\ Taken(u, created + 1, <<>>)
               /\ connections' = open \cup {created + 1}
               /\ created' = created + 1
               /\ UNCHANGED shared
            \/ /\ idle = <<>> /\ Cardinality(open) >= MaxConnections
               /\ Taken(u, Oldest(open), <<>>)
               /\ connections' = open
               /\ shared' = TRUE
               /\ UNCHANGED created
  BY DEF AcquireConnection
<1>2. held[u] = 0 /\ UNCHANGED unhealthy
  BY DEF AcquireConnection
<1>3. k \in 0 .. Len(idleQueue)
  <2>1. Cardinality(connections) \in Nat /\ Len(idleQueue) \in Nat
    BY <1>0, ConnectionsFinite
  <2> QED
    BY <1>0, <1>1, <2>1 DEF Cleanups
<1> DEFINE closed == ToSet(SubSeq(idleQueue, 1, k))
           idle == SubSeq(idleQueue, k + 1, Len(idleQueue))
           open == connections \ closed
<1>4. /\ idle \in Seq(ConnectionIds) /\ IsInjective(idle)
      /\ ToSet(idle) \subseteq ToSet(idleQueue) /\ closed \subseteq ToSet(idleQueue)
      /\ ToSet(idle) \cap closed = {}
  BY <1>0, <1>b, <1>3, CleanupSplits
<1>5. \/ /\ idle # <<>>
         /\ Taken(u, Last(idle), Front(idle))
         /\ connections' = open
         /\ UNCHANGED <<created, shared>>
      \/ /\ idle = <<>> /\ Cardinality(open) < MaxConnections /\ created < MaxCreated
         /\ Taken(u, created + 1, <<>>)
         /\ connections' = open \cup {created + 1}
         /\ created' = created + 1
         /\ UNCHANGED shared
      \/ /\ idle = <<>> /\ Cardinality(open) >= MaxConnections
         /\ Taken(u, Oldest(open), <<>>)
         /\ connections' = open
         /\ shared' = TRUE
         /\ UNCHANGED created
  BY <1>1
<1> HIDE DEF closed, idle
<1>6. /\ open \in SUBSET ConnectionIds /\ activeSet \subseteq open /\ open \in SUBSET connections
      /\ ToSet(idle) \subseteq open /\ ToSet(idle) \cap activeSet = {}
      /\ IsFiniteSet(open) /\ Cardinality(open) \in Nat /\ Cardinality(open) <= MaxConnections
  <2>1. IsFiniteSet(connections) /\ Cardinality(connections) \in Nat
    BY <1>0, ConnectionsFinite
  <2>2. IsFiniteSet(open) /\ Cardinality(open) \in Nat /\ Cardinality(open) <= Cardinality(connections)
    BY <2>1, FS_Subset, FS_CardinalityType
  <2> QED
    BY <1>0, <1>b, <1>4, <2>1, <2>2
<1> HIDE DEF open
<1>7. CASE /\ idle # <<>>
           /\ Taken(u, Last(idle), Front(idle))
           /\ connections' = open
           /\ UNCHANGED <<created, shared>>
  <2> DEFINE id == Last(idle)
             left == Front(idle)
  <2>1. /\ left \in Seq(ConnectionIds) /\ IsInjective(left)
        /\ id \in ConnectionIds /\ id \in ToSet(idle) /\ id \notin ToSet(left)
        /\ ToSet(left) \subseteq ToSet(idle)
    BY <1>4, <1>7, PoppingOne
  <2>2. held' = [held EXCEPT ![u] = id] /\ idleQueue' = left /\ activeSet' = activeSet \cup {id}
    BY <1>7 DEF Taken
  <2> HIDE DEF id, left
  <2>3. id \in open /\ id \notin activeSet
    BY <1>6, <2>1
  <2>4. ConnectionRanges'
    BY <1>0, <1>2, <1>6, <1>7, <2>1, <2>2 DEF ConnectionRanges, ConnectionIds
  <2>5. ASSUME ~shared
        PROVE  /\ \A v, w \in PoolUsers : held'[v] = held'[w] /\ held'[v] # 0 => v = w
               /\ activeSet' = {held'[v] : v \in PoolUsers} \cap connections'
    <3>1. \A v \in PoolUsers : held[v] # id
      <4>1. id \in connections
        BY <1>6, <2>3
      <4> QED
        BY <1>b, <2>3, <2>5, <4>1
    <3>2. \A v \in PoolUsers : held'[v] = IF v = u THEN id ELSE held[v]
      BY <1>0, <2>2
    <3>3. \A v, w \in PoolUsers : held'[v] = held'[w] /\ held'[v] # 0 => v = w
      BY <1>b, <2>5, <3>1, <3>2
    <3>4. \A x \in open : x \in activeSet <=> \E v \in PoolUsers : held[v] = x
      <4>1. activeSet = {held[v] : v \in PoolUsers} \cap connections
        BY <1>b, <2>5
      <4>2. \A x \in open : x \in connections
        BY <1>6
      <4> QED
        BY <4>1, <4>2
    <3>5. \A x \in open : x \in activeSet' <=> \E v \in PoolUsers : held'[v] = x
      <4>1. 0 \notin open
        BY <1>6 DEF ConnectionIds
      <4> QED
        BY <1>2, <2>2, <3>2, <3>4, <4>1
    <3>6. activeSet' \subseteq open
      BY <1>6, <2>2, <2>3
    <3> QED
      BY <1>7, <3>3, <3>5, <3>6
  <2> QED
    BY <1>2, <1>4, <1>6, <1>7, <1>b, <2>1, <2>2, <2>3, <2>4, <2>5 DEF ConnectionInv, PoolBooksAgree
<1>8. CASE /\ idle = <<>> /\ Cardinality(open) < MaxConnections /\ created < MaxCreated
           /\ Taken(u, created + 1, <<>>)
           /\ connections' = open \cup {created + 1}
           /\ created' = created + 1
           /\ UNCHANGED shared
  <2> DEFINE id == created + 1
  <2>1. /\ held' = [held EXCEPT ![u] = id] /\ idleQueue' = <<>> /\ activeSet' = activeSet \cup {id}
        /\ connections' = open \cup {id} /\ created' = id
    BY <1>8 DEF Taken
  <2>2. /\ id \in Nat /\ id # 0 /\ 0 .. created \subseteq 0 .. id /\ id \in 0 .. id /\ id \in 1 .. id
        /\ 1 .. created \subseteq 1 .. id /\ id \notin 0 .. created /\ id \notin 1 .. created
    BY <1>0
  <2> HIDE DEF id
  <2>3. ConnectionRanges'
    <3>1. held' \in [PoolUsers -> 0 .. id]
      BY <1>0, <2>1, <2>2
    <3>2. <<>> \in Seq(1 .. id)
      OBVIOUS
    <3> QED
      BY <1>0, <1>2, <1>6, <2>1, <2>2, <3>1, <3>2 DEF ConnectionRanges, ConnectionIds
  <2>4. ASSUME ~shared
        PROVE  /\ \A v, w \in PoolUsers : held'[v] = held'[w] /\ held'[v] # 0 => v = w
               /\ activeSet' = {held'[v] : v \in PoolUsers} \cap connections'
    <3>1. \A v \in PoolUsers : held[v] # id
      BY <1>0, <2>2
    <3>2. \A v \in PoolUsers : held'[v] = IF v = u THEN id ELSE held[v]
      BY <1>0, <2>1
    <3>3. \A v, w \in PoolUsers : held'[v] = held'[w] /\ held'[v] # 0 => v = w
      BY <1>b, <2>4, <3>1, <3>2
    <3>4. \A x \in open : x \in activeSet <=> \E v \in PoolUsers : held[v] = x
      <4>1. activeSet = {held[v] : v \in PoolUsers} \cap connections
        BY <1>b, <2>4
      <4>2. \A x \in open : x \in connections
        BY <1>6
      <4> QED
        BY <4>1, <4>2
    <3>5. \A x \in open \cup {id} : x \in activeSet' <=> \E v \in PoolUsers : held'[v] = x
      <4>1. 0 \notin open
        BY <1>6 DEF ConnectionIds
      <4> QED
        BY <1>2, <2>1, <2>2, <3>2, <3>4, <4>1
    <3>6. activeSet' \subseteq open \cup {id}
      BY <1>6, <2>1
    <3> QED
      BY <2>1, <3>3, <3>5, <3>6
  <2>5. Cardinality(connections') <= MaxConnections
    <3>1. id \notin open
      BY <1>6, <2>2 DEF ConnectionIds
    <3>2. Cardinality(open \cup {id}) = Cardinality(open) + 1
      BY <1>6, <3>1, FS_AddElement
    <3>3. \A n \in Nat : n < MaxConnections => n + 1 <= MaxConnections
      BY <1>0
    <3>4. Cardinality(open) < MaxConnections
      BY <1>8
    <3>5. connections' = open \cup {id}
      BY <2>1
    <3> QED
      BY <1>6, <3>2, <3>3, <3>4, <3>5
  <2>6. ToSet(<<>>) = {} /\ IsInjective(<<>>)
    BY DEF ToSet, IsInjective
  <2> QED
    BY <1>6, <1>8, <2>1, <2>3, <2>4, <2>5, <2>6 DEF ConnectionInv, PoolBooksAgree
<1>9. CASE /\ idle = <<>> /\ Cardinality(open) >= MaxConnections
           /\ Taken(u, Oldest(open), <<>>)
           /\ connections' = open
           /\ shared' = TRUE
           /\ UNCHANGED created
  <2> DEFINE id == Oldest(open)
  <2>1. /\ held' = [held EXCEPT ![u] = id] /\ idleQueue' = <<>> /\ activeSet' = activeSet \cup {id}
    BY <1>9 DEF Taken
  <2>2. id \in open
    <3>1. open # {}
      <4>1. Cardinality({}) = 0
        BY FS_EmptySet
      <4>2. MaxConnections > 0
        BY ConnectionBounds
      <4>3. Cardinality(open) > 0
        BY <1>0, <1>6, <1>9, <4>2
      <4> QED
        BY <4>1, <4>3
    <3> QED
      BY <1>0, <1>6, <3>1, OldestIsOpen
  <2> HIDE DEF id
  <2>3. ConnectionRanges'
    BY <1>0, <1>2, <1>6, <1>9, <2>1, <2>2 DEF ConnectionRanges, ConnectionIds
  <2>4. ToSet(<<>>) = {} /\ IsInjective(<<>>)
    BY DEF ToSet, IsInjective
  <2> QED
    BY <1>6, <1>9, <2>1, <2>2, <2>3, <2>4 DEF ConnectionInv, PoolBooksAgree
<1> QED
  BY <1>5, <1>7, <1>8, <1>9

(* A mark on a held connection: what is idle is in nobody's hands as long   *)
(* as the pool was never exhausted.                                         *)
LEMMA ExecuteFailsKeeps ==
    ASSUME ConnectionInv, NEW u \in PoolUsers, ExecuteFails(u)
    PROVE  ConnectionInv'
<1>1. /\ created \in Nat /\ held \in [PoolUsers -> 0 .. created] /\ held[u] # 0
      /\ unhealthy' = unhealthy \cup {held[u]}
      /\ UNCHANGED <<connections, idleQueue, activeSet, held, created, shared>>
  BY DEF ConnectionInv, ConnectionRanges, ExecuteFails
<1>2. held[u] \in ConnectionIds
  <2>1. held[u] \in 0 .. created
    BY <1>1
  <2> QED
    BY <1>1, <2>1 DEF ConnectionIds
<1>3. ConnectionRanges'
  BY <1>1, <1>2 DEF ConnectionInv, ConnectionRanges, ConnectionIds
<1>4. ASSUME ~shared
      PROVE  ToSet(idleQueue) \cap unhealthy' = {}
  <2>1. held[u] \in connections => held[u] \in activeSet
    BY <1>4 DEF ConnectionInv, PoolBooksAgree
  <2> QED
    BY <1>1, <1>4, <2>1 DEF ConnectionInv, PoolBooksAgree
<1> QED
  BY <1>1, <1>3, <1>4 DEF ConnectionInv, PoolBooksAgree

LEMMA ReleaseConnectionKeeps ==
    ASSUME ConnectionInv, NEW u \in PoolUsers, ReleaseConnection(u)
    PROVE  ConnectionInv'
<1> DEFINE id == held[u]
<1>1. /\ created \in Nat /\ connections \in SUBSET ConnectionIds /\ idleQueue \in Seq(ConnectionIds)
      /\ activeSet \in SUBSET ConnectionIds /\ unhealthy \in SUBSET ConnectionIds
      /\ held \in [PoolUsers -> 0 .. created] /\ ConnectionRanges
      /\ MaxConnections \in Nat
  BY ConnectionBounds DEF ConnectionInv, ConnectionRanges
<1>2. /\ ToSet(idleQueue) \subseteq connections /\ activeSet \subseteq connections
      /\ ToSet(idleQueue) \cap activeSet = {} /\ IsInjective(idleQueue)
      /\ Cardinality(connections) <= MaxConnections
      /\ ~shared => /\ \A v, w \in PoolUsers : held[v] = held[w] /\ held[v] # 0 => v = w
                    /\ activeSet = {held[v] : v \in PoolUsers} \cap connections
                    /\ ToSet(idleQueue) \cap unhealthy = {}
  BY DEF ConnectionInv, PoolBooksAgree
<1>3. id # 0 /\ held' = [held EXCEPT ![u] = 0] /\ UNCHANGED <<unhealthy, created, shared>>
  BY DEF ReleaseConnection
<1>4. \A v \in PoolUsers : held'[v] = IF v = u THEN 0 ELSE held[v]
  BY <1>1, <1>3
<1>5. held' \in [PoolUsers -> 0 .. created]
  BY <1>1, <1>3
<1>6. 0 \notin connections
  BY <1>1 DEF ConnectionIds
<1>7. ASSUME ~shared
      PROVE  /\ \A v, w \in PoolUsers : held'[v] = held'[w] /\ held'[v] # 0 => v = w
             /\ {held'[v] : v \in PoolUsers} \cap connections = activeSet \ {id}
  <2>1. \A v, w \in PoolUsers : held[v] = held[w] /\ held[v] # 0 => v = w
    BY <1>2, <1>7
  <2>2. \A v, w \in PoolUsers : held'[v] = held'[w] /\ held'[v] # 0 => v = w
    BY <1>4, <2>1
  <2>3. \A x \in connections : x \in activeSet <=> \E v \in PoolUsers : held[v] = x
    BY <1>2, <1>7
  <2>4. \A x \in connections :
           (\E v \in PoolUsers : held'[v] = x) <=> (\E v \in PoolUsers : held[v] = x) /\ x # id
    BY <1>3, <1>4, <1>6, <2>1
  <2> QED
    BY <1>2, <2>2, <2>3, <2>4
<1>8. CASE id \notin activeSet
  <2>1. UNCHANGED <<connections, idleQueue, activeSet>>
    BY <1>8 DEF ReleaseConnection
  <2>2. ConnectionRanges'
    BY <1>1, <1>3, <1>5, <2>1 DEF ConnectionRanges, ConnectionIds
  <2> HIDE DEF id
  <2> QED
    BY <1>2, <1>3, <1>7, <1>8, <2>1, <2>2 DEF ConnectionInv, PoolBooksAgree
<1>9. CASE id \in activeSet /\ id \in unhealthy
  <2>1. activeSet' = activeSet \ {id} /\ connections' = connections \ {id} /\ UNCHANGED idleQueue
    BY <1>9 DEF ReleaseConnection
  <2>2. ConnectionRanges'
    BY <1>1, <1>3, <1>5, <2>1 DEF ConnectionRanges, ConnectionIds
  <2>3. Cardinality(connections') <= MaxConnections
    <3>1. IsFiniteSet(connections) /\ Cardinality(connections) \in Nat
      BY <1>1, ConnectionsFinite
    <3>2. connections' \subseteq connections
      BY <2>1
    <3>3. IsFiniteSet(connections') /\ Cardinality(connections') <= Cardinality(connections)
      BY <3>1, <3>2, FS_Subset
    <3>4. Cardinality(connections') \in Nat
      BY <3>3, FS_CardinalityType
    <3> QED
      BY <1>1, <1>2, <3>1, <3>3, <3>4
  <2> HIDE DEF id
  <2>4. ToSet(idleQueue) \subseteq connections' /\ activeSet' \subseteq connections'
    BY <1>2, <1>9, <2>1
  <2>5. ~shared => activeSet' = {held'[v] : v \in PoolUsers} \cap connections'
    BY <1>7, <2>1
  <2> QED
    BY <1>2, <1>3, <1>7, <2>1, <2>2, <2>3, <2>4, <2>5 DEF ConnectionInv, PoolBooksAgree
<1>10. CASE id \in activeSet /\ id \notin unhealthy
  <2>1. activeSet' = activeSet \ {id} /\ idleQueue' = Append(idleQueue, id) /\ UNCHANGED connections
    BY <1>10 DEF ReleaseConnection
  <2>2. id \in ConnectionIds /\ id \notin ToSet(idleQueue)
    BY <1>1, <1>2, <1>10
  <2> HIDE DEF id
  <2>3. /\ idleQueue' \in Seq(ConnectionIds) /\ ToSet(idleQueue') = ToSet(idleQueue) \cup {id}
        /\ IsInjective(idleQueue')
    <3>1. NoRepetition(idleQueue)
      BY <1>2 DEF NoRepetition, IsInjective
    <3>2. /\ Append(idleQueue, id) \in Seq(ConnectionIds)
          /\ ToSet(Append(idleQueue, id)) = ToSet(idleQueue) \cup {id}
          /\ NoRepetition(Append(idleQueue, id))
      BY <1>1, <2>2, <3>1, AppendingOne
    <3> QED
      BY <2>1, <3>2 DEF NoRepetition, IsInjective
  <2>4. ConnectionRanges'
    BY <1>1, <1>3, <1>5, <2>1, <2>3 DEF ConnectionRanges, ConnectionIds
  <2> QED
    BY <1>2, <1>3, <1>7, <1>10, <2>1, <2>3, <2>4 DEF ConnectionInv, PoolBooksAgree
<1> QED
  BY <1>8, <1>9, <1>10

(* What is left of a sequence in its order has no repetition either.        *)
LEMMA LeftIsInjective ==
    ASSUME NEW T, NEW seq \in Seq(T), NEW S, NEW left \in LeftInOrder(seq, S),
           Cardinality(ToSet(seq) \cap S) \in Nat
    PROVE  /\ left \in Seq(T) /\ IsInjective(left)
           /\ ToSet(left) \subseteq ToSet(seq) \cap S
<1> DEFINE members == ToSet(seq) \cap S
           c == Cardinality(members)
<1>1. /\ left \in [1 .. c -> members]
      /\ \A i, j \in DOMAIN left, m, n \in DOMAIN seq :
            left[i] = seq[m] /\ left[j] = seq[n] => (i < j <=> m < n)
  BY DEF LeftInOrder
<1>2. c \in Nat
  OBVIOUS
<1>3. members \subseteq T
  BY DEF ToSet
<1> HIDE DEF c
<1>4. left \in Seq(members) /\ DOMAIN left = 1 .. c /\ \A i \in 1 .. c : left[i] \in members
  BY <1>1, <1>2
<1>5. ASSUME NEW i \in 1 .. c, NEW j \in 1 .. c, left[i] = left[j]
      PROVE  i = j
  <2>1. PICK m \in DOMAIN seq : left[i] = seq[m]
    BY <1>4 DEF ToSet
  <2>2. (i < j <=> m < m) /\ (j < i <=> m < m)
    BY <1>1, <1>4, <1>5, <2>1
  <2>3. m \in Nat /\ i \in Nat /\ j \in Nat
    BY <1>2
  <2> QED
    BY <2>2, <2>3
<1>6. IsInjective(left)
  BY <1>4, <1>5 DEF IsInjective
<1>7. ToSet(left) \subseteq members
  BY <1>4 DEF ToSet
<1>8. left \in Seq(T)
  <2> HIDE DEF members
  <2>1. left \in [1 .. c -> T]
    BY <1>1, <1>3
  <2> QED
    BY <1>2, <2>1
<1> QED
  BY <1>6, <1>7, <1>8

LEMMA SequencesOfMore ==
    ASSUME NEW S, NEW T, S \subseteq T, NEW s \in Seq(S)
    PROVE  s \in Seq(T)
<1>1. Len(s) \in Nat /\ DOMAIN s = 1 .. Len(s) /\ \A i \in 1 .. Len(s) : s[i] \in S
  OBVIOUS
<1>2. s = [i \in 1 .. Len(s) |-> s[i]]
  OBVIOUS
<1>3. s \in [1 .. Len(s) -> T]
  BY <1>1, <1>2
<1> QED
  BY <1>1, <1>3

(* Two sequences without repetition that share nothing.                     *)
LEMMA JoiningApart ==
    ASSUME NEW S, NEW s \in Seq(S), NEW t \in Seq(S), IsInjective(s), IsInjective(t),
           ToSet(s) \cap ToSet(t) = {}
    PROVE  /\ s \o t \in Seq(S) /\ IsInjective(s \o t)
           /\ ToSet(s \o t) = ToSet(s) \cup ToSet(t)
<1> DEFINE joined == s \o t
           n == Len(s)
<1>1. /\ n \in Nat /\ Len(t) \in Nat /\ joined \in Seq(S) /\ Len(joined) = n + Len(t)
      /\ DOMAIN s = 1 .. n /\ DOMAIN t = 1 .. Len(t)
      /\ \A i \in 1 .. n + Len(t) : joined[i] = IF i <= n THEN s[i] ELSE t[i - n]
  OBVIOUS
<1>2. DOMAIN joined = 1 .. n + Len(t)
  BY <1>1
<1> HIDE DEF joined, n
<1>3. \A i \in DOMAIN joined : IF i <= n THEN i \in DOMAIN s ELSE i - n \in DOMAIN t
  BY <1>1, <1>2
<1>4. /\ \A i \in DOMAIN s : i \in DOMAIN joined /\ joined[i] = s[i]
      /\ \A i \in DOMAIN t : n + i \in DOMAIN joined /\ joined[n + i] = t[i]
  BY <1>1, <1>2
<1>5. /\ \A i, j \in DOMAIN s : s[i] = s[j] => i = j
      /\ \A i, j \in DOMAIN t : t[i] = t[j] => i = j
      /\ \A i \in DOMAIN s, j \in DOMAIN t : s[i] # t[j]
  BY DEF IsInjective, ToSet
<1>6. ASSUME NEW i \in DOMAIN joined, NEW j \in DOMAIN joined, joined[i] = joined[j]
      PROVE  i = j
  <2>1. /\ joined[i] = IF i <= n THEN s[i] ELSE t[i - n]
        /\ joined[j] = IF j <= n THEN s[j] ELSE t[j - n]
    BY <1>1, <1>2
  <2>2. i \in Nat /\ j \in Nat
    BY <1>1, <1>2
  <2>3. CASE i <= n /\ j <= n
    BY <1>3, <1>5, <1>6, <2>1, <2>3
  <2>4. CASE ~(i <= n) /\ ~(j <= n)
    <3>1. i - n = j - n
      BY <1>3, <1>5, <1>6, <2>1, <2>4
    <3> QED
      BY <1>1, <2>2, <3>1
  <2>5. CASE ~(i <= n <=> j <= n)
    BY <1>3, <1>5, <1>6, <2>1, <2>5
  <2> QED
    BY <2>3, <2>4, <2>5
<1>7. ToSet(joined) = ToSet(s) \cup ToSet(t)
  <2>1. ASSUME NEW i \in DOMAIN joined PROVE joined[i] \in ToSet(s) \cup ToSet(t)
    <3>1. joined[i] = IF i <= n THEN s[i] ELSE t[i - n]
      BY <1>1, <1>2
    <3> QED
      BY <1>3, <3>1 DEF ToSet
  <2> QED
    BY <1>4, <2>1 DEF ToSet
<1> QED
  BY <1>1, <1>6, <1>7 DEF joined, IsInjective

(* A check-up: what is marked leaves, and new connections fill the pool up  *)
(* to its minimum.                                                          *)
LEMMA CheckHealthKeeps ==
    ASSUME ConnectionInv, CheckHealth
    PROVE  ConnectionInv'
<1> DEFINE healthy == connections \ unhealthy
           missing == IF MinConnections > Cardinality(healthy)
                      THEN MinConnections - Cardinality(healthy) ELSE 0
           fresh == created + 1 .. created + missing
           new == [i \in 1 .. missing |-> created + i]
<1>1. /\ created \in Nat /\ connections \in SUBSET ConnectionIds /\ idleQueue \in Seq(ConnectionIds)
      /\ activeSet \in SUBSET ConnectionIds /\ unhealthy \in SUBSET ConnectionIds
      /\ held \in [PoolUsers -> 0 .. created] /\ ConnectionRanges
      /\ MinConnections \in Nat /\ MaxConnections \in Nat /\ MinConnections <= MaxConnections
  BY ConnectionBounds DEF ConnectionInv, ConnectionRanges
<1>2. /\ ToSet(idleQueue) \subseteq connections /\ activeSet \subseteq connections
      /\ ToSet(idleQueue) \cap activeSet = {} /\ IsInjective(idleQueue)
      /\ Cardinality(connections) <= MaxConnections
      /\ ~shared => /\ \A v, w \in PoolUsers : held[v] = held[w] /\ held[v] # 0 => v = w
                    /\ activeSet = {held[v] : v \in PoolUsers} \cap connections
                    /\ ToSet(idleQueue) \cap unhealthy = {}
  BY DEF ConnectionInv, PoolBooksAgree
<1>3. /\ connections' = healthy \cup fresh
      /\ activeSet' = activeSet \ unhealthy /\ created' = created + missing
      /\ UNCHANGED <<unhealthy, held, shared>>
  BY DEF CheckHealth
<1>4. PICK left \in LeftInOrder(idleQueue, healthy) : idleQueue' = left \o new
  BY DEF CheckHealth
<1>5. /\ IsFiniteSet(healthy) /\ Cardinality(healthy) \in Nat
      /\ Cardinality(healthy) <= Cardinality(connections) /\ Cardinality(connections) \in Nat
  <2>1. IsFiniteSet(connections) /\ Cardinality(connections) \in Nat
    BY <1>1, ConnectionsFinite
  <2> QED
    BY <2>1, FS_Subset, FS_CardinalityType
<1>6. Cardinality(ToSet(idleQueue) \cap healthy) \in Nat
  BY <1>5, FS_Subset, FS_CardinalityType
<1> HIDE DEF healthy
<1>7. /\ missing \in Nat
      /\ Cardinality(healthy) + missing <= MaxConnections
  BY <1>1, <1>2, <1>5
<1> HIDE DEF missing
<1>8. /\ left \in Seq(ConnectionIds) /\ IsInjective(left)
      /\ ToSet(left) \subseteq ToSet(idleQueue) \cap healthy
  BY <1>1, <1>4, <1>6, LeftIsInjective
<1>9. /\ 1 .. created \subseteq 1 .. created + missing /\ 0 .. created \subseteq 0 .. created + missing
      /\ fresh \subseteq 1 .. created + missing /\ fresh \cap (0 .. created) = {}
      /\ fresh \cap (1 .. created) = {}
      /\ created + missing \in Nat
  BY <1>1, <1>7
<1>10. /\ new \in Seq(1 .. created + missing) /\ IsInjective(new) /\ ToSet(new) = fresh
  <2>1. \A i \in 1 .. missing : created + i \in fresh
    BY <1>1, <1>7
  <2>2. new \in [1 .. missing -> 1 .. created + missing]
    BY <1>9, <2>1
  <2>3. \A x \in fresh : x - created \in 1 .. missing /\ created + (x - created) = x
    BY <1>1, <1>7
  <2>4. DOMAIN new = 1 .. missing /\ \A i \in 1 .. missing : new[i] = created + i
    OBVIOUS
  <2>5. new \in Seq(1 .. created + missing)
    BY <1>7, <2>2
  <2> HIDE DEF fresh, new
  <2>6. ToSet(new) = fresh
    BY <2>1, <2>3, <2>4 DEF ToSet
  <2>7. \A i, j \in 1 .. missing : created + i = created + j => i = j
    BY <1>1, <1>7
  <2>8. IsInjective(new)
    BY <2>4, <2>7 DEF IsInjective
  <2> QED
    BY <2>5, <2>6, <2>8
<1> HIDE DEF new
<1>11. /\ healthy \subseteq connections /\ healthy \cap unhealthy = {}
       /\ \A x \in connections : x \notin unhealthy => x \in healthy
  BY DEF healthy
<1>12. IsFiniteSet(fresh) /\ Cardinality(fresh) = missing
  <2>1. created + missing - (created + 1) + 1 = missing
    BY <1>1, <1>7
  <2>2. created + 1 \in Int /\ created + missing \in Int
    BY <1>1, <1>7
  <2> DEFINE low == created + 1
             high == created + missing
  <2>3. low \in Int /\ high \in Int
    BY <2>2
  <2> HIDE DEF low, high
  <2>4. /\ IsFiniteSet(low .. high)
        /\ Cardinality(low .. high) = IF low > high THEN 0 ELSE high - low + 1
    BY <2>3, FS_Interval
  <2>5. created + 1 > created + missing => missing = 0
    BY <1>1, <1>7
  <2> QED
    BY <1>1, <1>7, <2>1, <2>4, <2>5 DEF low, high
<1> HIDE DEF fresh
<1>13. /\ idleQueue' \in Seq(1 .. created + missing) /\ IsInjective(idleQueue')
       /\ ToSet(idleQueue') = ToSet(left) \cup fresh
  <2>1. left \in Seq(1 .. created + missing)
    <3>1. ConnectionIds \subseteq 1 .. created + missing
      BY <1>9 DEF ConnectionIds
    <3> QED
      BY <1>8, <3>1, SequencesOfMore
  <2>2. ToSet(left) \cap ToSet(new) = {}
    BY <1>1, <1>2, <1>8, <1>9, <1>10 DEF ConnectionIds
  <2> QED
    BY <1>4, <1>8, <1>10, <2>1, <2>2, JoiningApart
<1>14. ConnectionRanges'
  <2>1. held' \in [PoolUsers -> 0 .. created + missing]
    BY <1>1, <1>3, <1>9
  <2> QED
    BY <1>1, <1>3, <1>9, <1>11, <1>13, <2>1 DEF ConnectionRanges, ConnectionIds
<1>15. Cardinality(connections') <= MaxConnections
  <2>1. healthy \cap fresh = {}
    BY <1>1, <1>9, <1>11 DEF ConnectionIds
  <2>2. Cardinality(healthy \cup fresh) = Cardinality(healthy) + Cardinality(fresh)
    <3>1. Cardinality(healthy \cup fresh)
          = Cardinality(healthy) + Cardinality(fresh) - Cardinality(healthy \cap fresh)
      BY <1>5, <1>12, FS_Union
    <3>2. Cardinality(healthy \cap fresh) = 0
      BY <2>1, FS_EmptySet
    <3> QED
      BY <1>5, <1>7, <1>12, <3>1, <3>2
  <2> QED
    BY <1>3, <1>7, <1>12, <2>2
<1>16. ASSUME ~shared
       PROVE  activeSet' = {held'[v] : v \in PoolUsers} \cap connections'
  <2>1. \A v \in PoolUsers : held[v] \notin fresh
    BY <1>1, <1>9
  <2>2. activeSet = {held[v] : v \in PoolUsers} \cap connections
    BY <1>2, <1>16
  <2> QED
    BY <1>3, <1>11, <2>1, <2>2
<1>17. ToSet(idleQueue') \cap unhealthy' = {}
  BY <1>1, <1>3, <1>8, <1>9, <1>11, <1>13 DEF ConnectionIds
<1>18. ToSet(idleQueue') \cup activeSet' \subseteq connections'
  BY <1>2, <1>3, <1>8, <1>11, <1>13
<1>19. ToSet(idleQueue') \cap activeSet' = {}
  BY <1>1, <1>2, <1>3, <1>8, <1>9, <1>13 DEF ConnectionIds
<1> QED
  BY <1>2, <1>3, <1>13, <1>14, <1>15, <1>16, <1>17, <1>18, <1>19 DEF ConnectionInv, PoolBooksAgree

LEMMA DestroyPoolKeeps ==
    ASSUME ConnectionInv, DestroyPool
    PROVE  ConnectionInv'
<1>1. /\ connections' = {} /\ idleQueue' = <<>> /\ activeSet' = {}
      /\ UNCHANGED <<unhealthy, held, created, shared>>
  BY DEF DestroyPool
<1>2. ToSet(<<>>) = {} /\ IsInjective(<<>>)
  BY DEF ToSet, IsInjective
<1>3. Cardinality({}) = 0 /\ MaxConnections \in Nat
  BY FS_EmptySet, ConnectionBounds
<1> QED
  BY <1>1, <1>2, <1>3 DEF ConnectionInv, ConnectionRanges, ConnectionIds, PoolBooksAgree

(* The books of the connection pool agree (src/connectionPool.ts) for any   *)
(* number of users and any bounds: what is idle or active is in the pool,   *)
(* nothing is both, the pool keeps its bound, and while it has never been   *)
(* exhausted a connection has one holder and no broken one is idle.         *)
THEOREM BooksAlwaysAgree == ConnectionSpec => []PoolBooksAgree
<1>1. ASSUME ConnectionInv, [ConnectionNext]_connectionVars PROVE ConnectionInv'
  <2>1. CASE UNCHANGED connectionVars
    BY <1>1, <2>1 DEF ConnectionInv, ConnectionRanges, ConnectionIds, PoolBooksAgree, connectionVars
  <2>2. ASSUME NEW u \in PoolUsers, AcquireConnection(u) PROVE ConnectionInv'
    BY <1>1, <2>2, AcquireConnectionKeeps
  <2>3. ASSUME NEW u \in PoolUsers, ExecuteFails(u) PROVE ConnectionInv'
    BY <1>1, <2>3, ExecuteFailsKeeps
  <2>4. ASSUME NEW u \in PoolUsers, ReleaseConnection(u) PROVE ConnectionInv'
    BY <1>1, <2>4, ReleaseConnectionKeeps
  <2>5. CASE CheckHealth
    BY <1>1, <2>5, CheckHealthKeeps
  <2>6. CASE DestroyPool
    BY <1>1, <2>6, DestroyPoolKeeps
  <2> QED
    BY <1>1, <2>1, <2>2, <2>3, <2>4, <2>5, <2>6 DEF ConnectionNext
<1>2. ConnectionInv => PoolBooksAgree
  BY DEF ConnectionInv
<1> QED
  BY <1>1, <1>2, ConnectionInitSound, PTL DEF ConnectionSpec
=============================================================================
