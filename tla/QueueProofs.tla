---------------------------- MODULE QueueProofs -----------------------------
(***************************************************************************)
(* The queues of a client, for every number of calls and every bound: a    *)
(* payment made offline is neither executed twice nor forgotten, the serial*)
(* queue runs one operation at a time, the persistent queue keeps what it  *)
(* accepted through every crash, buffered requests drain by priority, and  *)
(* the heap of the priority queue does what a queue by priority does.      *)
(***************************************************************************)
EXTENDS PriorityQueue, OfflineQueue, TxQueue, PersistentQueue, OperationQueue, BasicLemmas,
        FiniteSetTheorems

(* The offline queue.                                                       *)

Unanswered == {"idle", "checking", "submitting"}
Awaitable == {"nothing", "invoice", "health", "submission"}

(* The operations that may still be executed by a sync.                     *)
Queued == ToSet(queue)
Left == ToSet(sync.todo)

(* The ranges the steps rely on.                                            *)
OfflineRanges ==
    /\ call \in [Calls -> CallStates]
    /\ queue \in Seq(Calls) /\ stored \in Seq(Calls)
    /\ sync.todo \in Seq(Calls) /\ sync.awaits \in Awaitable
    /\ sync = [draining |-> sync.draining, todo |-> sync.todo, awaits |-> sync.awaits]
    /\ executed \in [Calls -> Nat]
    /\ became \in [Calls -> Fates]

(* An operation is in one place once.                                       *)
InOnePlace ==
    /\ NoRepetition(queue) /\ NoRepetition(sync.todo)
    /\ Queued \cap Left = {}

(* The loop of sync() has an operation whenever it awaits something, and    *)
(* holds none when it has ended.                                            *)
LoopHasOperation ==
    /\ sync.awaits # "nothing" => sync.todo # <<>>
    /\ sync.todo # <<>> => sync.draining = TRUE

(* What is still to be executed has not been, nor has what is unanswered,   *)
(* which is not queued either.                                              *)
Unexecuted ==
    /\ \A c \in Calls : executed[c] <= 1
    /\ \A c \in Queued \cup Left : executed[c] = 0 /\ call[c] \notin Unanswered
    /\ \A c \in Calls : call[c] \in Unanswered => executed[c] = 0

(* The copy is the queue.                                                   *)
CopyIsQueue == setting.persist => stored = queue

(* What waits is in the queue or in the running sync.                       *)
WaitingIsKept ==
    ~crashed /\ ~setting.throwing => \A c \in Calls : became[c] = "waiting" => c \in Queued \cup Left

(* The inductive invariant.                                                 *)
OfflineInv ==
    OfflineRanges /\ InOnePlace /\ LoopHasOperation /\ Unexecuted /\ CopyIsQueue /\ WaitingIsKept

(* The queue and the copy begin empty.                                      *)
LEMMA OfflineInvInitially == OfflineInit => OfflineInv
<1> SUFFICES ASSUME OfflineInit PROVE OfflineInv
  OBVIOUS
<1> USE DEF OfflineInit, Stopped
<1>1. Queued = {} /\ Left = {}
  BY DEF Queued, Left, ToSet
<1>2. OfflineRanges
  BY DEF OfflineRanges, CallStates, Fates, Awaitable
<1>3. InOnePlace /\ LoopHasOperation
  BY <1>1 DEF InOnePlace, LoopHasOperation, NoRepetition
<1>4. Unexecuted
  BY <1>1 DEF Unexecuted, Unanswered
<1>5. CopyIsQueue
  BY DEF CopyIsQueue
<1>6. WaitingIsKept
  BY DEF WaitingIsKept
<1> QED
  BY <1>2, <1>3, <1>4, <1>5, <1>6 DEF OfflineInv

(* The facts every step keeps by leaving what they speak of alone.          *)
LEMMA CopyStays ==
    ASSUME CopyIsQueue, setting' = setting, stored' = stored, queue' = queue
    PROVE  CopyIsQueue'
BY Zenon DEF CopyIsQueue

LEMMA WaitingStays ==
    ASSUME WaitingIsKept, setting' = setting, crashed' = crashed,
           \/ setting.throwing
           \/ \A c \in Calls : became'[c] = "waiting" =>
                 \/ c \in Queued' \cup Left'
                 \/ became[c] = "waiting" /\ (c \in Queued \cup Left => c \in Queued' \cup Left')
    PROVE  WaitingIsKept'
BY Zenon DEF WaitingIsKept

(* A change of the queue is saved.                                          *)
LEMMA BecomingSaves ==
    ASSUME stored \in Seq(Calls), setting' = setting, NEW q \in Seq(Calls), Becomes(q)
    PROVE  queue' = q /\ stored' \in Seq(Calls) /\ CopyIsQueue'
<1>1. queue' = q /\ (stored' = q \/ stored' = stored)
  BY Zenon DEF Becomes
<1>2. setting.persist => stored' = q
  BY Zenon DEF Becomes
<1>3. CopyIsQueue'
  BY Zenon, <1>1, <1>2 DEF CopyIsQueue
<1> QED
  BY <1>1, <1>3

(* enqueue() takes one operation in and may drop the oldest.                *)
LEMMA EnqueueingTakesOne ==
    ASSUME OfflineRanges, NoRepetition(queue), setting' = setting,
           NEW c \in Calls, c \notin Queued, EnqueueOffline(c)
    PROVE  /\ queue' \in Seq(Calls) /\ stored' \in Seq(Calls) /\ became' \in [Calls -> Fates]
           /\ NoRepetition(queue') /\ CopyIsQueue'
           /\ c \in Queued' /\ Queued' \subseteq Queued \cup {c}
           /\ \A d \in Calls : d # c /\ became'[d] = "waiting" =>
                 became[d] = "waiting" /\ (d \in Queued => d \in Queued')
<1> USE DEF OfflineRanges
<1>1. CASE Len(queue) >= MaxQueueSize
  <2>1. Len(queue) > 0 /\ queue # <<>>
    BY <1>1, QueueBounded
  <2> DEFINE rest == Tail(queue)
             oldest == Head(queue)
  <2>2. /\ rest \in Seq(Calls) /\ oldest \in Calls /\ oldest \in Queued
        /\ Queued = ToSet(rest) \cup {oldest}
        /\ NoRepetition(rest) /\ oldest \notin ToSet(rest)
    BY <2>1, DroppingFirst DEF Queued
  <2>3. Becomes(Append(rest, c)) /\ became' = [became EXCEPT ![oldest] = "evicted", ![c] = "waiting"]
    BY <1>1 DEF EnqueueOffline
  <2> HIDE DEF rest, oldest
  <2>4. /\ Append(rest, c) \in Seq(Calls)
        /\ ToSet(Append(rest, c)) = ToSet(rest) \cup {c}
        /\ NoRepetition(Append(rest, c))
    BY <2>2, AppendingOne
  <2>5. queue' = Append(rest, c) /\ stored' \in Seq(Calls) /\ CopyIsQueue'
    BY <2>3, <2>4, BecomingSaves
  <2>6. Queued' = ToSet(rest) \cup {c}
    BY <2>4, <2>5 DEF Queued
  <2>7. became' \in [Calls -> Fates]
    BY <2>2, <2>3 DEF Fates
  <2>8. \A d \in Calls : d # c /\ became'[d] = "waiting" => became[d] = "waiting" /\ d # oldest
    BY <2>2, <2>3
  <2> QED
    BY <2>2, <2>4, <2>5, <2>6, <2>7, <2>8
<1>2. CASE ~(Len(queue) >= MaxQueueSize)
  <2>1. Becomes(Append(queue, c)) /\ became' = [became EXCEPT ![c] = "waiting"]
    BY <1>2 DEF EnqueueOffline
  <2>2. /\ Append(queue, c) \in Seq(Calls)
        /\ ToSet(Append(queue, c)) = Queued \cup {c}
        /\ NoRepetition(Append(queue, c))
    BY AppendingOne DEF Queued
  <2>3. queue' = Append(queue, c) /\ stored' \in Seq(Calls) /\ CopyIsQueue'
    BY <2>1, <2>2, BecomingSaves
  <2>4. Queued' = Queued \cup {c}
    BY <2>2, <2>3 DEF Queued
  <2>5. became' \in [Calls -> Fates]
    BY <2>1 DEF Fates
  <2>6. \A d \in Calls : d # c => became'[d] = became[d]
    BY <2>1
  <2> QED
    BY <2>2, <2>3, <2>4, <2>5, <2>6
<1> QED
  BY <1>1, <1>2

(* What holds of sync whatever a step does with it.                         *)
SyncIsSound ==
    /\ sync.todo \in Seq(Calls) /\ sync.awaits \in Awaitable
    /\ sync = [draining |-> sync.draining, todo |-> sync.todo, awaits |-> sync.awaits]
    /\ LoopHasOperation
    /\ NoRepetition(sync.todo)

(* A loop that has ended, in either way.                                    *)
LEMMA EndedIsSound ==
    ASSUME NEW d, sync' = [draining |-> d, todo |-> <<>>, awaits |-> "nothing"]
    PROVE  SyncIsSound' /\ Left' = {}
BY DEF SyncIsSound, LoopHasOperation, NoRepetition, Awaitable, Left, ToSet

(* A listener that throws ends the loop.                                    *)
LEMMA DyingEmpties ==
    ASSUME SyncDies
    PROVE  SyncIsSound' /\ Left' = {} /\ setting.throwing
<1>1. sync' = [draining |-> TRUE, todo |-> <<>>, awaits |-> "nothing"] /\ setting.throwing
  BY DEF SyncDies
<1> QED
  BY <1>1, EndedIsSound

(* The loop goes on without the operation it was at, or ends.               *)
LEMMA NextOperationDrops ==
    ASSUME SyncIsSound, sync.todo # <<>>, NextOperation
    PROVE  /\ SyncIsSound'
           /\ Left' \subseteq Left \ {Current}
           /\ setting.throwing \/ Left' = Left \ {Current}
<1> USE DEF SyncIsSound
<1> DEFINE rest == Tail(sync.todo)
<1>1. /\ rest \in Seq(Calls) /\ Current \in Left
      /\ Left = ToSet(rest) \cup {Current}
      /\ Len(sync.todo) = 1 => rest = <<>>
      /\ Len(sync.todo) # 1 => rest # <<>>
      /\ NoRepetition(rest) /\ Current \notin ToSet(rest)
  BY DroppingFirst DEF Left, Current
<1>2. CASE Len(sync.todo) = 1
  <2>1. ToSet(rest) = {}
    BY <1>1, <1>2 DEF ToSet
  <2>2. CASE sync' = Stopped
    <3>1. SyncIsSound' /\ Left' = {}
      BY <2>2, EndedIsSound DEF Stopped
    <3> QED
      BY <1>1, <2>1, <3>1
  <2>3. CASE SyncDies
    BY <2>3, DyingEmpties
  <2> QED
    BY <1>2, <2>2, <2>3 DEF NextOperation
<1>3. CASE Len(sync.todo) # 1
  <2>1. sync' = [draining |-> TRUE, todo |-> rest, awaits |-> "invoice"]
    BY <1>3 DEF NextOperation
  <2>2. sync'.todo = rest /\ sync'.awaits = "invoice" /\ sync'.draining = TRUE
    BY <2>1
  <2> HIDE DEF rest
  <2>3. SyncIsSound'
    BY <1>1, <1>3, <2>1, <2>2 DEF LoopHasOperation, Awaitable
  <2>4. Left' = ToSet(rest)
    BY <2>2 DEF Left
  <2> QED
    BY <1>1, <2>3, <2>4
<1> QED
  BY <1>2, <1>3

(* sync() moves the queue into its loop.                                    *)
LEMMA StartingMoves ==
    ASSUME OfflineInv, setting' = setting, CanSync, StartSync
    PROVE  /\ SyncIsSound' /\ queue' \in Seq(Calls) /\ stored' \in Seq(Calls) /\ CopyIsQueue'
           /\ NoRepetition(queue')
           /\ Queued' = {} /\ Left' = Queued /\ Left = {}
<1> USE DEF OfflineInv, OfflineRanges
<1>1. sync.todo = <<>> /\ queue # <<>>
  BY Zenon DEF CanSync, LoopHasOperation
<1>2. sync' = [draining |-> TRUE, todo |-> queue, awaits |-> "invoice"] /\ Becomes(<<>>)
  BY DEF StartSync
<1>3. sync'.todo = queue /\ sync'.awaits = "invoice" /\ sync'.draining = TRUE
  BY <1>2
<1>4. SyncIsSound'
  BY <1>1, <1>2, <1>3 DEF SyncIsSound, LoopHasOperation, Awaitable, InOnePlace
<1>5. <<>> \in Seq(Calls)
  OBVIOUS
<1>6. queue' = <<>> /\ stored' \in Seq(Calls) /\ CopyIsQueue'
  BY <1>2, <1>5, BecomingSaves
<1>7. NoRepetition(queue') /\ Queued' = {} /\ Left = {} /\ Left' = Queued
  BY <1>1, <1>3, <1>6 DEF NoRepetition, Queued, Left, ToSet
<1> QED
  BY <1>4, <1>5, <1>6, <1>7

(* The invariant from its parts, after a step.                              *)
LEMMA PartsMakeInv ==
    ASSUME SyncIsSound', Unexecuted', CopyIsQueue', WaitingIsKept',
           call' \in [Calls -> CallStates], queue' \in Seq(Calls), stored' \in Seq(Calls),
           executed' \in [Calls -> Nat], became' \in [Calls -> Fates],
           NoRepetition(queue'), Queued' \cap Left' = {}
    PROVE  OfflineInv'
BY DEF OfflineInv, OfflineRanges, InOnePlace, SyncIsSound

LEMMA InvMakesSound == OfflineInv => SyncIsSound
BY DEF OfflineInv, OfflineRanges, InOnePlace, SyncIsSound

(* Steps of the callers.                                                    *)
LEMMA CallerStepsKeep ==
    ASSUME OfflineInv, NEW c \in Calls,
           Pay(c) \/ PayFindsHealthy(c) \/ PayIsQueued(c) \/ PaySubmits(c)
    PROVE  OfflineInv'
<1> USE DEF OfflineInv, OfflineRanges
<1>1. SyncIsSound
  BY InvMakesSound
<1>2. CASE Pay(c)
  <2> USE <1>2 DEF Pay, world, queueVars
  <2>1. /\ call' = [call EXCEPT ![c] = "checking"] /\ call[c] = "idle"
        /\ UNCHANGED <<sync, executed, became, crashed, setting, queue, stored>>
    OBVIOUS
  <2>2. SyncIsSound' /\ Queued' = Queued /\ Left' = Left
    BY <1>1, <2>1 DEF SyncIsSound, LoopHasOperation, Queued, Left
  <2>3. call' \in [Calls -> CallStates] /\ Unexecuted'
    BY <2>1, <2>2 DEF CallStates, Unexecuted, Unanswered
  <2>4. CopyIsQueue' /\ WaitingIsKept'
    BY <2>1, <2>2, CopyStays, WaitingStays
  <2> QED
    BY <2>1, <2>2, <2>3, <2>4, PartsMakeInv DEF InOnePlace
<1>3. CASE PayFindsHealthy(c)
  <2>1. /\ call' = [call EXCEPT ![c] = "submitting"] /\ call[c] = "checking"
        /\ UNCHANGED <<executed, became, crashed, setting>>
        /\ Drain
    BY <1>3 DEF PayFindsHealthy, world
  <2>2. call' \in [Calls -> CallStates]
    BY <2>1 DEF CallStates
  <2>3. CASE CanSync
    <3>1. StartSync
      BY <2>1, <2>3 DEF Drain
    <3>2. /\ SyncIsSound' /\ queue' \in Seq(Calls) /\ stored' \in Seq(Calls) /\ CopyIsQueue'
          /\ NoRepetition(queue')
          /\ Queued' = {} /\ Left' = Queued /\ Left = {}
      BY <2>1, <2>3, <3>1, StartingMoves
    <3>3. Unexecuted'
      BY <2>1, <3>2 DEF Unexecuted, Unanswered
    <3>4. WaitingIsKept'
      BY <2>1, <3>2, WaitingStays
    <3> QED
      BY <2>1, <2>2, <3>2, <3>3, <3>4, PartsMakeInv
  <2>4. CASE ~CanSync
    <3>1. UNCHANGED <<sync, queue, stored>>
      BY <2>1, <2>4 DEF Drain
    <3>2. SyncIsSound' /\ Queued' = Queued /\ Left' = Left
      BY <1>1, <3>1 DEF SyncIsSound, LoopHasOperation, Queued, Left
    <3>3. Unexecuted'
      BY <2>1, <3>2 DEF Unexecuted, Unanswered
    <3>4. CopyIsQueue' /\ WaitingIsKept'
      BY <2>1, <3>1, <3>2, CopyStays, WaitingStays
    <3> QED
      BY <2>1, <2>2, <3>1, <3>2, <3>3, <3>4, PartsMakeInv DEF InOnePlace
  <2> QED
    BY <2>3, <2>4
<1>4. CASE PayIsQueued(c)
  <2>1. /\ call' = [call EXCEPT ![c] = "queued"] /\ call[c] = "checking"
        /\ UNCHANGED <<sync, executed, crashed, setting>>
        /\ EnqueueOffline(c)
    BY <1>4 DEF PayIsQueued, world
  <2>2. c \notin Queued /\ c \notin Left /\ executed[c] = 0
    BY <2>1 DEF Unexecuted, Unanswered
  <2>3. /\ queue' \in Seq(Calls) /\ stored' \in Seq(Calls) /\ became' \in [Calls -> Fates]
        /\ NoRepetition(queue') /\ CopyIsQueue'
        /\ c \in Queued' /\ Queued' \subseteq Queued \cup {c}
        /\ \A d \in Calls : d # c /\ became'[d] = "waiting" =>
              became[d] = "waiting" /\ (d \in Queued => d \in Queued')
    BY <2>1, <2>2, EnqueueingTakesOne DEF InOnePlace
  <2>4. SyncIsSound' /\ Left' = Left
    BY <1>1, <2>1 DEF SyncIsSound, LoopHasOperation, Left
  <2>5. call' \in [Calls -> CallStates] /\ Unexecuted'
    BY <2>1, <2>2, <2>3, <2>4 DEF CallStates, Unexecuted, Unanswered
  <2>6. WaitingIsKept'
    BY <2>1, <2>3, <2>4, WaitingStays
  <2>7. Queued' \cap Left' = {}
    BY <2>2, <2>3, <2>4 DEF InOnePlace
  <2> QED
    BY <2>1, <2>3, <2>4, <2>5, <2>6, <2>7, PartsMakeInv
<1>5. CASE PaySubmits(c)
  <2>1. /\ call[c] = "submitting"
        /\ UNCHANGED <<sync, became, crashed, setting, queue, stored>>
        /\ \E answer \in {"paid", "failed"} : call' = [call EXCEPT ![c] = answer]
        /\ executed' = [executed EXCEPT ![c] = @ + 1] \/ executed' = executed
    BY <1>5 DEF PaySubmits, world, queueVars, Executes
  <2>2. c \notin Queued /\ c \notin Left /\ executed[c] = 0
    BY <2>1 DEF Unexecuted, Unanswered
  <2>3. SyncIsSound' /\ Queued' = Queued /\ Left' = Left
    BY <1>1, <2>1 DEF SyncIsSound, LoopHasOperation, Queued, Left
  <2>4. call' \in [Calls -> CallStates] /\ executed' \in [Calls -> Nat]
    <3>1. call' \in [Calls -> CallStates]
      BY <2>1 DEF CallStates
    <3>2. executed[c] + 1 \in Nat
      BY <2>2
    <3>3. executed' \in [Calls -> Nat]
      BY <2>1, <3>2
    <3> QED
      BY <3>1, <3>3
  <2>5. /\ executed'[c] \in {0, 1} /\ call'[c] \notin Unanswered
        /\ \A d \in Calls : d # c => executed'[d] = executed[d] /\ call'[d] = call[d]
    BY <2>1, <2>2 DEF Unanswered
  <2>6. Unexecuted'
    <3>1. ASSUME NEW d \in Calls PROVE executed'[d] <= 1
      <4>1. CASE d = c
        BY <2>5, <4>1
      <4>2. CASE d # c
        BY <2>5, <4>2 DEF Unexecuted
      <4> QED
        BY <4>1, <4>2
    <3>2. \A d \in Queued' \cup Left' : executed'[d] = 0 /\ call'[d] \notin Unanswered
      <4>1. \A d \in Queued \cup Left : d \in Calls /\ d # c
        BY <2>2 DEF Queued, Left, ToSet
      <4> QED
        BY <2>3, <2>5, <4>1 DEF Unexecuted
    <3>3. \A d \in Calls : call'[d] \in Unanswered => executed'[d] = 0
      BY <2>5 DEF Unexecuted
    <3> QED
      BY <3>1, <3>2, <3>3 DEF Unexecuted
  <2>7. CopyIsQueue' /\ WaitingIsKept'
    BY <2>1, <2>3, CopyStays, WaitingStays
  <2> QED
    BY <2>1, <2>3, <2>4, <2>6, <2>7, PartsMakeInv DEF InOnePlace
<1> QED
  BY <1>2, <1>3, <1>4, <1>5

(* Steps of the loop of sync().                                             *)
LEMMA SyncStepsKeep ==
    ASSUME OfflineInv, SyncStep
    PROVE  OfflineInv'
<1> USE DEF OfflineInv, OfflineRanges
<1>1. SyncIsSound
  BY InvMakesSound
<1>2. ASSUME NEW a \in Awaitable, sync.awaits # "nothing", sync' = [sync EXCEPT !.awaits = a],
             UNCHANGED <<call, executed, became, crashed, setting, queue, stored>>
      PROVE  OfflineInv'
  <2>1. sync' = [draining |-> sync.draining, todo |-> sync.todo, awaits |-> a]
    BY <1>2
  <2>2. sync'.todo = sync.todo /\ sync'.awaits = a /\ sync'.draining = sync.draining
    BY <2>1
  <2>3. Queued' = Queued /\ Left' = Left
    BY <1>2, <2>2 DEF Queued, Left
  <2>4. SyncIsSound'
    BY <1>1, <1>2, <2>1, <2>2 DEF SyncIsSound, LoopHasOperation
  <2>5. Unexecuted'
    BY <1>2, <2>3 DEF Unexecuted
  <2>6. CopyIsQueue' /\ WaitingIsKept'
    BY <1>2, <2>3, CopyStays, WaitingStays
  <2> QED
    BY <1>2, <2>3, <2>4, <2>5, <2>6, PartsMakeInv DEF InOnePlace
<1>3. ASSUME sync.awaits # "nothing"
      PROVE  sync.todo # <<>> /\ Current \in Left /\ Current \in Calls
  <2>1. sync.todo # <<>>
    BY <1>3 DEF LoopHasOperation
  <2> QED
    BY <2>1, DroppingFirst DEF Current, Left
<1>4. ASSUME sync.awaits # "nothing", NextOperation \/ SyncDies
      PROVE  SyncIsSound' /\ Left' \subseteq Left \ {Current}
             /\ (setting.throwing \/ Left' = Left \ {Current})
  BY <1>1, <1>3, <1>4, NextOperationDrops, DyingEmpties
<1>5. CASE SyncReadsInvoice \/ SyncCannotRead
  BY <1>2, <1>5 DEF SyncReadsInvoice, SyncCannotRead, world, queueVars, Awaitable
<1>6. CASE SyncFindsHealthy
  BY <1>2, <1>6 DEF SyncFindsHealthy, world, queueVars, Awaitable
<1>7. ASSUME NEW f \in Fates, f # "waiting", sync.awaits # "nothing",
             NextOperation \/ SyncDies,
             became' = [became EXCEPT ![Current] = f],
             executed' = [executed EXCEPT ![Current] = @ + 1] \/ executed' = executed,
             UNCHANGED <<call, crashed, setting, queue, stored>>
      PROVE  OfflineInv'
  <2>1. /\ SyncIsSound' /\ Left' \subseteq Left \ {Current}
        /\ setting.throwing \/ Left' = Left \ {Current}
        /\ Current \in Left /\ Current \in Calls
    BY <1>3, <1>4, <1>7
  <2>2. Queued' = Queued /\ Current \notin Queued
    BY <1>7, <2>1 DEF Queued, InOnePlace
  <2>3. executed[Current] = 0 /\ call[Current] \notin Unanswered
    BY <2>1 DEF Unexecuted
  <2>4. /\ executed' \in [Calls -> Nat] /\ executed'[Current] \in {0, 1}
        /\ \A d \in Calls : d # Current => executed'[d] = executed[d]
    <3>1. executed[Current] + 1 \in Nat /\ executed[Current] + 1 = 1
      BY <2>3
    <3> DEFINE o == Current
    <3> HIDE DEF o
    <3>2. o \in Calls /\ executed[o] = 0 /\ executed[o] + 1 \in Nat
      BY <2>1, <2>3, <3>1 DEF o
    <3>3. executed' = [executed EXCEPT ![o] = @ + 1] \/ executed' = executed
      BY <1>7 DEF o
    <3>4. executed' \in [Calls -> Nat] /\ executed'[o] \in {0, 1}
      <4>1. CASE executed' = [executed EXCEPT ![o] = @ + 1]
        BY <3>2, <4>1
      <4>2. CASE executed' = executed
        BY <3>2, <4>2
      <4> QED
        BY <3>3, <4>1, <4>2
    <3>5. \A d \in Calls : d # o => executed'[d] = executed[d]
      BY <3>3
    <3> QED
      BY <3>4, <3>5 DEF o
  <2>5. /\ became' \in [Calls -> Fates] /\ became'[Current] # "waiting"
        /\ \A d \in Calls : d # Current => became'[d] = became[d]
    BY <1>7, <2>1
  <2>6. Unexecuted'
    <3>1. ASSUME NEW d \in Calls PROVE executed'[d] <= 1
      <4>1. CASE d = Current
        BY <2>4, <4>1
      <4>2. CASE d # Current
        BY <2>4, <4>2 DEF Unexecuted
      <4> QED
        BY <4>1, <4>2
    <3>2. \A d \in Queued' \cup Left' : d \in Queued \cup Left /\ d \in Calls /\ d # Current
      <4>1. \A d \in Queued \cup Left : d \in Calls
        BY DEF Queued, Left, ToSet
      <4> QED
        BY <2>1, <2>2, <4>1
    <3>3. \A d \in Queued' \cup Left' : executed'[d] = 0 /\ call'[d] \notin Unanswered
      BY <1>7, <2>4, <3>2 DEF Unexecuted
    <3>4. \A d \in Calls : call'[d] \in Unanswered => executed'[d] = 0
      BY <1>7, <2>3, <2>4 DEF Unexecuted
    <3> QED
      BY <3>1, <3>3, <3>4 DEF Unexecuted
  <2>7. setting.throwing \/ \A d \in Calls : became'[d] = "waiting" =>
            became[d] = "waiting" /\ (d \in Queued \cup Left => d \in Queued' \cup Left')
    BY <2>1, <2>2, <2>5
  <2>8. CopyIsQueue' /\ WaitingIsKept'
    BY <1>7, <2>7, CopyStays, WaitingStays
  <2> QED
    BY <1>7, <2>1, <2>2, <2>4, <2>5, <2>6, <2>8, PartsMakeInv DEF InOnePlace
<1>8. CASE SyncFindsConflict
  <2>1. sync.awaits = "invoice" /\ UNCHANGED <<call, executed, crashed, setting, queue, stored>>
    BY <1>8 DEF SyncFindsConflict, world, queueVars
  <2>2. CASE became' = [became EXCEPT ![Current] = "conflict"] /\ NextOperation
    BY <1>7, <2>1, <2>2 DEF Fates
  <2>3. CASE sync' = [sync EXCEPT !.awaits = "health"] /\ UNCHANGED became
    BY <1>2, <2>1, <2>3 DEF Awaitable
  <2> QED
    BY <1>8, <2>2, <2>3 DEF SyncFindsConflict
<1>9. CASE SyncQueuesAgain
  <2>1. /\ sync.awaits = "health" /\ EnqueueOffline(Current) /\ NextOperation
        /\ UNCHANGED <<call, executed, crashed, setting>>
    BY <1>9 DEF SyncQueuesAgain, world
  <2>2. /\ SyncIsSound' /\ Left' \subseteq Left \ {Current}
        /\ setting.throwing \/ Left' = Left \ {Current}
        /\ Current \in Left /\ Current \in Calls
    BY <1>3, <1>4, <2>1
  <2>3. Current \notin Queued
    BY <2>2 DEF InOnePlace
  <2>4. /\ queue' \in Seq(Calls) /\ stored' \in Seq(Calls) /\ became' \in [Calls -> Fates]
        /\ NoRepetition(queue') /\ CopyIsQueue'
        /\ Current \in Queued' /\ Queued' \subseteq Queued \cup {Current}
        /\ \A d \in Calls : d # Current /\ became'[d] = "waiting" =>
              became[d] = "waiting" /\ (d \in Queued => d \in Queued')
    BY <2>1, <2>2, <2>3, EnqueueingTakesOne DEF InOnePlace
  <2>5. Unexecuted'
    BY <2>1, <2>2, <2>4 DEF Unexecuted
  <2>6. WaitingIsKept'
    BY <2>1, <2>2, <2>4, WaitingStays
  <2>7. Queued' \cap Left' = {}
    BY <2>2, <2>4 DEF InOnePlace
  <2> QED
    BY <2>1, <2>2, <2>4, <2>5, <2>6, <2>7, PartsMakeInv
<1>10. CASE SyncExecutes
  <2>1. /\ sync.awaits = "submission" /\ NextOperation
        /\ became' = [became EXCEPT ![Current] = "executed"]
        /\ executed' = [executed EXCEPT ![Current] = @ + 1]
        /\ UNCHANGED <<call, crashed, setting, queue, stored>>
    BY <1>10 DEF SyncExecutes, Executes, world, queueVars
  <2> QED
    BY <1>7, <2>1 DEF Fates
<1>11. CASE SyncFails
  <2>1. /\ sync.awaits = "submission" /\ (NextOperation \/ SyncDies)
        /\ became' = [became EXCEPT ![Current] = "failed"]
        /\ executed' = [executed EXCEPT ![Current] = @ + 1] \/ executed' = executed
        /\ UNCHANGED <<call, crashed, setting, queue, stored>>
    BY <1>11 DEF SyncFails, Executes, world, queueVars
  <2> QED
    BY <1>7, <2>1 DEF Fates
<1> QED
  BY <1>5, <1>6, <1>8, <1>9, <1>10, <1>11 DEF SyncStep

(* Steps of the application and the world.                                  *)
LEMMA OtherStepsKeep ==
    ASSUME OfflineInv,
           AppSyncs \/ ClearOfflineQueue \/ Crash \/ EndpointChanges \/ InvoiceCloses
              \/ UNCHANGED offlineVars
    PROVE  OfflineInv'
<1> USE DEF OfflineInv, OfflineRanges
<1>1. SyncIsSound
  BY InvMakesSound
<1>2. CASE AppSyncs
  <2>1. CanSync /\ StartSync /\ UNCHANGED <<call, executed, became, crashed, setting>>
    BY <1>2 DEF AppSyncs, world
  <2>2. /\ SyncIsSound' /\ queue' \in Seq(Calls) /\ stored' \in Seq(Calls) /\ CopyIsQueue'
        /\ NoRepetition(queue')
        /\ Queued' = {} /\ Left' = Queued /\ Left = {}
    BY <2>1, StartingMoves
  <2>3. Unexecuted'
    BY <2>1, <2>2 DEF Unexecuted
  <2>4. WaitingIsKept'
    BY <2>1, <2>2, WaitingStays
  <2> QED
    BY <2>1, <2>2, <2>3, <2>4, PartsMakeInv
<1>3. CASE ClearOfflineQueue
  <2>1. /\ Becomes(<<>>) /\ UNCHANGED <<call, sync, executed, crashed, setting>>
        /\ became' = [c \in Calls |-> IF c \in Queued THEN "cleared" ELSE became[c]]
    BY <1>3 DEF ClearOfflineQueue, world, Queued
  <2>2. <<>> \in Seq(Calls)
    OBVIOUS
  <2>3. queue' = <<>> /\ stored' \in Seq(Calls) /\ CopyIsQueue'
    BY <2>1, <2>2, BecomingSaves
  <2>4. NoRepetition(queue') /\ Queued' = {} /\ Left' = Left
    BY <2>1, <2>3 DEF NoRepetition, Queued, Left, ToSet
  <2>5. SyncIsSound'
    BY <1>1, <2>1 DEF SyncIsSound, LoopHasOperation
  <2>6. became' \in [Calls -> Fates]
    BY <2>1 DEF Fates
  <2>7. Unexecuted'
    BY <2>1, <2>4 DEF Unexecuted
  <2>8. \A c \in Calls : became'[c] = "waiting" => became[c] = "waiting" /\ c \notin Queued
    BY <2>1
  <2>9. WaitingIsKept'
    BY <2>1, <2>4, <2>8, WaitingStays
  <2> QED
    BY <2>1, <2>2, <2>3, <2>4, <2>5, <2>6, <2>7, <2>9, PartsMakeInv
<1>4. CASE Crash
  <2>1. /\ crashed' = TRUE /\ sync' = Stopped
        /\ call' = [c \in Calls |-> IF call[c] \in {"checking", "submitting"} THEN "lost" ELSE call[c]]
        /\ UNCHANGED <<setting, stored, executed, became>>
    BY <1>4 DEF Crash
  <2>2. (queue' = queue \/ queue' = <<>>) /\ CopyIsQueue'
    <3>1. CASE setting.persist
      <4>1. queue' = stored /\ stored = queue
        BY Zenon, <1>4, <3>1 DEF Crash, CopyIsQueue
      <4> QED
        BY Zenon, <2>1, <4>1 DEF CopyIsQueue
    <3>2. CASE ~setting.persist
      <4>1. queue' = <<>>
        BY Zenon, <1>4, <3>2 DEF Crash
      <4>2. CopyIsQueue'
        BY Zenon, <2>1, <3>2 DEF CopyIsQueue
      <4> QED
        BY <4>1, <4>2
    <3> QED
      BY Zenon, <3>1, <3>2
  <2>3. NoRepetition(queue') /\ queue' \in Seq(Calls) /\ Queued' \subseteq Queued
    <3>1. CASE queue' = queue
      BY <3>1 DEF NoRepetition, Queued, InOnePlace
    <3>2. CASE queue' = <<>>
      BY <3>2 DEF NoRepetition, Queued, ToSet
    <3> QED
      BY <2>2, <3>1, <3>2
  <2>4. SyncIsSound' /\ Left' = {}
    BY <2>1, EndedIsSound DEF Stopped
  <2>5. call' \in [Calls -> CallStates]
    BY <2>1 DEF CallStates
  <2>6. Unexecuted'
    <3>1. \A c \in Calls : call'[c] \in Unanswered => call[c] \in Unanswered
      BY <2>1 DEF Unanswered
    <3>2. \A c \in Queued : c \in Calls
      BY DEF Queued, ToSet
    <3> QED
      BY <2>1, <2>3, <2>4, <3>1, <3>2 DEF Unexecuted
  <2>7. WaitingIsKept'
    BY <2>1, Zenon DEF WaitingIsKept
  <2> QED
    BY <2>1, <2>2, <2>3, <2>4, <2>5, <2>6, <2>7, PartsMakeInv
<1>5. CASE EndpointChanges \/ InvoiceCloses \/ UNCHANGED offlineVars
  <2>1. UNCHANGED <<call, sync, executed, became, crashed, setting, queue, stored>>
    BY <1>5 DEF EndpointChanges, InvoiceCloses, offlineVars, queueVars
  <2>2. SyncIsSound' /\ Queued' = Queued /\ Left' = Left
    BY <1>1, <2>1 DEF SyncIsSound, LoopHasOperation, Queued, Left
  <2>3. Unexecuted'
    BY <2>1, <2>2 DEF Unexecuted
  <2>4. CopyIsQueue' /\ WaitingIsKept'
    BY <2>1, <2>2, CopyStays, WaitingStays
  <2> QED
    BY <2>1, <2>2, <2>3, <2>4, PartsMakeInv DEF InOnePlace
<1> QED
  BY <1>2, <1>3, <1>4, <1>5

(* Every step keeps the invariant.                                          *)
LEMMA OfflineInvKept == OfflineInv /\ [OfflineNext]_offlineVars => OfflineInv'
BY CallerStepsKeep, SyncStepsKeep, OtherStepsKeep DEF OfflineNext

(* An operation of src/offlineQueue.ts is never executed twice, whatever    *)
(* health checks, syncs, evictions and crashes interleave.                  *)
THEOREM NeverExecutedTwice == OfflineSpec => []ExecutedAtMostOnce
<1>1. OfflineInv /\ [OfflineNext]_offlineVars => OfflineInv'
  BY OfflineInvKept
<1>2. OfflineInv => ExecutedAtMostOnce
  BY DEF OfflineInv, Unexecuted, ExecutedAtMostOnce
<1> QED
  BY OfflineInvInitially, <1>1, <1>2, PTL DEF OfflineSpec

(* Local storage is the queue, and what was answered "queued" stays in the  *)
(* queue or the sync until something becomes of it.                         *)
THEOREM NothingIsForgotten == OfflineSpec => []NothingForgotten
<1>1. OfflineInv /\ [OfflineNext]_offlineVars => OfflineInv'
  BY OfflineInvKept
<1>2. OfflineInv => NothingForgotten
  BY Zenon DEF OfflineInv, CopyIsQueue, WaitingIsKept, NothingForgotten, Queued, Left
<1> QED
  BY OfflineInvInitially, <1>1, <1>2, PTL DEF OfflineSpec

-----------------------------------------------------------------------------
(* The serial queue.  Whatever waits has an operation that runs before it;  *)
(* a loop at work means that one runs, and, unless clear() interrupts one,  *)
(* the converse.                                                            *)
QueuedItems == [op : Operations, priority : Nat, seq : Nat]

TxqInv ==
    /\ items \in Seq(QueuedItems) /\ nextSeq \in Nat
    /\ DOMAIN op = Operations /\ (draining \/ draining = FALSE)
    /\ failed => items = <<>>
    /\ draining \/ items # <<>> => \E o \in Operations : op[o] = "running"
    /\ ~clears => /\ \A o, p \in Operations : op[o] = "running" /\ op[p] = "running" => o = p
                  /\ (\E o \in Operations : op[o] = "running") => draining

(* A loop that takes the next operation, with none other at work.           *)
LEMMA LoopKeeps ==
    ASSUME NEW list \in Seq(QueuedItems), NEW ends, DOMAIN ends = Operations,
           ~clears => \A o \in Operations : ends[o] # "running",
           failed => list = <<>>,
           LoopGoesOn(list, ends), nextSeq' \in Nat, UNCHANGED <<failed, clears>>
    PROVE  TxqInv'
<1>1. CASE list # <<>> /\ ~failed
  <2>1. /\ items' = Tail(list) /\ draining' = TRUE
        /\ op' = [ends EXCEPT ![Head(list).op] = "running"]
    BY <1>1 DEF LoopGoesOn
  <2>2. Tail(list) \in Seq(QueuedItems) /\ Head(list).op \in Operations
    <3>1. Tail(list) \in Seq(QueuedItems) /\ Head(list) \in QueuedItems
      BY <1>1
    <3> QED
      BY <3>1 DEF QueuedItems
  <2>3. /\ DOMAIN op' = Operations /\ op'[Head(list).op] = "running"
        /\ \A o \in Operations : o # Head(list).op => op'[o] = ends[o]
    BY <2>1, <2>2
  <2> QED
    BY <1>1, <2>1, <2>2, <2>3 DEF TxqInv
<1>2. CASE ~(list # <<>> /\ ~failed)
  <2>1. items' = list /\ list = <<>> /\ op' = ends /\ draining' = FALSE
    BY <1>2 DEF LoopGoesOn
  <2> QED
    BY <2>1 DEF TxqInv
<1> QED
  BY <1>1, <1>2

(* The binary search finds a place in the list.                             *)
LEMMA InsertionKeepsItems ==
    ASSUME NEW list \in Seq(QueuedItems), NEW e \in QueuedItems
    PROVE  InsertSorted(list, e) \in Seq(QueuedItems) /\ InsertSorted(list, e) # <<>>
<1> DEFINE before == {i \in DOMAIN list : GoesFirst(list[i], e)}
<1>1. DOMAIN list = 1 .. Len(list) /\ Len(list) \in Nat
  OBVIOUS
<1>2. IsFiniteSet(1 .. Len(list)) /\ Cardinality(1 .. Len(list)) = Len(list)
  BY <1>1, FS_Interval
<1>3. Cardinality(before) \in Nat /\ Cardinality(before) <= Len(list)
  BY <1>1, <1>2, FS_Subset, FS_CardinalityType
<1>4. Cardinality(before) + 1 \in 1 .. Len(list) + 1
  BY <1>1, <1>3
<1> HIDE DEF before
<1>5. /\ InsertAt(list, Cardinality(before) + 1, e) \in Seq(QueuedItems)
      /\ InsertAt(list, Cardinality(before) + 1, e) # <<>>
  BY <1>4, InsertingOne
<1> QED
  BY <1>5 DEF InsertSorted, before

LEMMA EnqueueTxKeeps ==
    ASSUME TxqInv, NEW o \in Operations, NEW priority \in TxPriorities, EnqueueTx(o, priority)
    PROVE  TxqInv'
<1> DEFINE e == [op |-> o, priority |-> priority, seq |-> nextSeq]
           list == InsertSorted(items, e)
           ends == [op EXCEPT ![o] = "waiting"]
<1>1. list \in Seq(QueuedItems) /\ list # <<>>
  <2>1. e \in QueuedItems
    BY TxQueueSettings DEF TxqInv, QueuedItems
  <2> QED
    BY <2>1, InsertionKeepsItems DEF TxqInv
<1> HIDE DEF list
<1>2. CASE failed
  BY <1>2 DEF EnqueueTx, TxqInv
<1>3. CASE ~failed /\ draining
  <2>1. /\ items' = list /\ nextSeq' = nextSeq + 1 /\ op' = ends /\ op[o] = "new"
        /\ UNCHANGED <<draining, failed, clears>>
    BY <1>3 DEF EnqueueTx, list
  <2> QED
    BY <1>1, <1>3, <2>1 DEF TxqInv
<1>4. CASE ~failed /\ ~draining
  <2>1. /\ nextSeq' = nextSeq + 1 /\ LoopGoesOn(list, ends) /\ UNCHANGED <<failed, clears>>
    BY <1>4 DEF EnqueueTx, list
  <2>2. DOMAIN ends = Operations /\ (~clears => \A p \in Operations : ends[p] # "running")
    BY <1>4 DEF TxqInv
  <2>3. nextSeq' \in Nat
    BY <2>1 DEF TxqInv
  <2> HIDE DEF ends
  <2> QED
    BY <1>1, <1>4, <2>1, <2>2, <2>3, LoopKeeps
<1> QED
  BY <1>2, <1>3, <1>4

LEMMA TxqStepKeeps == TxqInv /\ [TxqNext]_txqVars => TxqInv'
<1> SUFFICES ASSUME TxqInv, [TxqNext]_txqVars PROVE TxqInv'
  OBVIOUS
<1>1. ASSUME NEW o \in Operations, OperationSucceeds(o) PROVE TxqInv'
  <2> DEFINE ends == [op EXCEPT ![o] = "resolved"]
  <2>1. DOMAIN ends = Operations /\ (~clears => \A p \in Operations : ends[p] # "running")
    BY <1>1 DEF OperationSucceeds, TxqInv
  <2>2. LoopGoesOn(items, ends) /\ UNCHANGED <<nextSeq, failed, clears>>
    BY <1>1 DEF OperationSucceeds
  <2>3. items \in Seq(QueuedItems) /\ (failed => items = <<>>) /\ nextSeq' \in Nat
    BY <2>2 DEF TxqInv
  <2> HIDE DEF ends
  <2> QED
    BY <2>1, <2>2, <2>3, LoopKeeps
<1>2. ASSUME NEW o \in Operations, OperationFails(o) PROVE TxqInv'
  <2>1. /\ items' = <<>> /\ draining' = FALSE /\ UNCHANGED <<nextSeq, clears>> /\ op[o] = "running"
        /\ op' = [p \in Operations |-> IF p = o \/ op[p] = "waiting" THEN "rejected" ELSE op[p]]
    BY <1>2 DEF OperationFails
  <2>2. \A p \in Operations : op'[p] = "running" => op[p] = "running" /\ p # o
    BY <2>1
  <2> QED
    BY <2>1, <2>2 DEF TxqInv
<1>3. CASE ClearTxQueue
  <2>1. /\ items' = <<>> /\ draining' = FALSE /\ failed' = FALSE /\ UNCHANGED <<nextSeq, clears>>
        /\ clears \/ Running = {}
        /\ op' = [p \in Operations |-> IF op[p] = "waiting" THEN "rejected" ELSE op[p]]
    BY <1>3 DEF ClearTxQueue
  <2>2. \A p \in Operations : op'[p] = "running" => op[p] = "running"
    BY <2>1
  <2> QED
    BY <2>1, <2>2 DEF TxqInv, Running
<1>4. CASE UNCHANGED txqVars
  BY <1>4 DEF txqVars, TxqInv
<1> QED
  BY <1>1, <1>2, <1>3, <1>4, EnqueueTxKeeps DEF TxqNext, OperationEnds

(* The operations of an account are executed one after another and none     *)
(* waits without a loop that comes to it, for every number of operations,   *)
(* whatever fails and is cleared.                                           *)
THEOREM OperationsNeverOverlap == TxqSpec => []OneOperationAtATime
<1>1. TxqInit => TxqInv
  BY DEF TxqInit, TxqInv
<1>2. TxqInv => OneOperationAtATime
  <2> SUFFICES ASSUME TxqInv PROVE OneOperationAtATime
    OBVIOUS
  <2>1. items # <<>> => Running # {}
    BY DEF TxqInv, Running
  <2>2. ASSUME ~clears PROVE Cardinality(Running) <= 1
    <3>1. CASE Running = {}
      BY <3>1, FS_EmptySet
    <3>2. CASE Running # {}
      <4>1. PICK o \in Running : TRUE
        BY <3>2
      <4>2. Running = {o}
        BY <2>2, <4>1 DEF TxqInv, Running
      <4>3. Cardinality({o}) = 1
        BY FS_Singleton
      <4> QED
        BY <4>2, <4>3
    <3> QED
      BY <3>1, <3>2
  <2>3. ~clears => draining = (Running # {})
    BY DEF TxqInv, Running
  <2> QED
    BY <2>1, <2>2, <2>3 DEF OneOperationAtATime
<1> QED
  BY <1>1, <1>2, TxqStepKeeps, PTL DEF TxqSpec

-----------------------------------------------------------------------------
(* The persistent queue.                                                    *)
WriteKinds == {"put", "delete", "remove"}
StoreWrites == WriteKinds \X PItems
PersistentItemStates == {"new", "pending", "accepted", "processed", "removed", "lost"}
CrashesSoFar == MaxCrashes - left.crashes

PersistentRanges ==
    /\ memory \in Seq(PItems) /\ store \in SUBSET PItems
    /\ writes \in Seq(StoreWrites)
    /\ round \in Seq(PItems) /\ step \in {"idle", "called", "deleting", "broken"}
    /\ pitem \in [PItems -> PersistentItemStates]
    /\ handled \in [PItems -> Nat]
    /\ left \in [rounds : Nat, crashes : 0 .. MaxCrashes]

(* A round at work has an item, and no copy holds an item twice.            *)
RoundIsSound ==
    /\ step \in {"called", "deleting"} => round # <<>>
    /\ NoRepetition(memory) /\ NoRepetition(round)

(* Nothing that is waiting or accepted is about to leave the store.         *)
DeletionsAreDue ==
    \A w \in ToSet(writes) : w[1] # "put" => pitem[w[2]] \in {"processed", "removed"}

KeptInMemory ==
    \A i \in PItems : pitem[i] \in {"pending", "accepted"} => i \in ToSet(memory)

(* What the rounds under way and to come may hand to fn has been handled    *)
(* once for each crash at most.                                             *)
ToHandle == IF step = "called" THEN ToSet(round)
            ELSE IF step = "deleting" THEN ToSet(Tail(round)) ELSE {}
NeverHandledYet ==
    \A i \in PItems : pitem[i] = "new" => handled[i] = 0 /\ i \notin ToSet(memory)
HandledBefore(i) == handled[i] <= CrashesSoFar
WaitingHandledBefore ==
    /\ \A i \in ToSet(memory) : HandledBefore(i)
    /\ \A i \in ToHandle : HandledBefore(i)

PersistentInv ==
    /\ PersistentRanges /\ RoundIsSound /\ DeletionsAreDue /\ KeptInMemory
    /\ NeverHandledYet /\ WaitingHandledBefore /\ AcceptedSurvives /\ ProcessedOncePerLife

(* Forgetting an item takes out that item only.                             *)
LEMMA RemovingFirst ==
    ASSUME NEW S, NEW s \in Seq(S), NEW e, NoRepetition(s)
    PROVE  /\ RemoveFirst(s, e) \in Seq(S) /\ NoRepetition(RemoveFirst(s, e))
           /\ ToSet(RemoveFirst(s, e)) = ToSet(s) \ {e}
<1> DEFINE I == {i \in 1 .. Len(s) : s[i] = e}
           first == SelectInSeq(s, LAMBDA v : v = e)
<1>1. DOMAIN s = 1 .. Len(s) /\ Len(s) \in Nat
  OBVIOUS
<1>2. CASE I = {}
  <2>1. RemoveFirst(s, e) = s
    BY <1>2 DEF RemoveFirst
  <2>2. e \notin ToSet(s)
    BY <1>1, <1>2 DEF ToSet
  <2> QED
    BY <2>1, <2>2
<1>3. CASE I # {}
  <2>1. I \in SUBSET Nat
    BY <1>1
  <2>2. \E i \in I : \A j \in I : i <= j
    BY <1>3, <2>1, LeastOfNaturals
  <2>3. first = CHOOSE i \in I : \A j \in I : i <= j
    BY <1>3 DEF SelectInSeq, Min
  <2> HIDE DEF first
  <2>4. first \in I
    BY <2>2, <2>3
  <2>5. RemoveFirst(s, e) = RemoveAt(s, first)
    BY <1>3 DEF RemoveFirst, first
  <2>6. first \in DOMAIN s /\ s[first] = e
    BY <1>1, <2>4
  <2> QED
    BY <2>5, <2>6, RemovingOne
<1> QED
  BY <1>2, <1>3

LEMMA PersistentInitSound == PersistentInit => PersistentInv
<1> SUFFICES ASSUME PersistentInit PROVE PersistentInv
  OBVIOUS
<1>1. MaxRounds \in Nat /\ MaxCrashes \in Nat
  BY PersistentBounds
<1>2. left \in [rounds : Nat, crashes : 0 .. MaxCrashes] /\ CrashesSoFar = 0
  BY <1>1 DEF PersistentInit, CrashesSoFar
<1>3. ToSet(<<>>) = {} /\ NoRepetition(<<>>) /\ DOMAIN <<>> = {}
  BY DEF ToSet, NoRepetition
<1>4. PersistentRanges /\ RoundIsSound /\ DeletionsAreDue
  BY <1>2, <1>3 DEF PersistentInit, PersistentRanges, PersistentItemStates, RoundIsSound, DeletionsAreDue
<1>5. KeptInMemory /\ NeverHandledYet /\ WaitingHandledBefore /\ AcceptedSurvives
  BY <1>3 DEF PersistentInit, KeptInMemory, NeverHandledYet, WaitingHandledBefore, ToHandle,
              AcceptedSurvives
<1>6. ProcessedOncePerLife
  BY <1>2 DEF PersistentInit, ProcessedOncePerLife, CrashesSoFar
<1> QED
  BY <1>4, <1>5, <1>6 DEF PersistentInv

LEMMA AddingWrite ==
    ASSUME PersistentRanges, NEW w \in StoreWrites, writes' = Append(writes, w)
    PROVE  writes' \in Seq(StoreWrites) /\ ToSet(writes') = ToSet(writes) \cup {w}
<1>1. writes \in Seq(StoreWrites)
  BY DEF PersistentRanges
<1>2. /\ Append(writes, w) \in Seq(StoreWrites)
      /\ ToSet(Append(writes, w)) = ToSet(writes) \cup {w}
  BY <1>1, AppendingOne
<1> QED
  BY <1>2

LEMMA EnqueuePersistentKeeps ==
    ASSUME PersistentInv, NEW i \in PItems, EnqueuePersistent(i)
    PROVE  PersistentInv'
<1>1. /\ pitem[i] = "new" /\ memory' = Append(memory, i) /\ writes' = Append(writes, <<"put", i>>)
      /\ pitem' = [pitem EXCEPT ![i] = "pending"]
      /\ UNCHANGED <<store, round, step, queued, handled, left>>
  BY DEF EnqueuePersistent
<1>2. /\ PersistentRanges /\ RoundIsSound /\ DeletionsAreDue /\ KeptInMemory
      /\ NeverHandledYet /\ WaitingHandledBefore /\ AcceptedSurvives /\ ProcessedOncePerLife
  BY DEF PersistentInv
<1>3. handled[i] = 0 /\ i \notin ToSet(memory)
  BY <1>1, <1>2 DEF NeverHandledYet
<1>4. /\ memory' \in Seq(PItems) /\ ToSet(memory') = ToSet(memory) \cup {i}
      /\ NoRepetition(memory')
  BY <1>1, <1>2, <1>3, AppendingOne DEF PersistentRanges, RoundIsSound
<1>5. <<"put", i>> \in StoreWrites
  BY DEF StoreWrites, WriteKinds
<1>6. /\ writes' \in Seq(StoreWrites)
      /\ ToSet(writes') = ToSet(writes) \cup {<<"put", i>>}
  BY <1>1, <1>2, <1>5, AddingWrite
<1>7. \A j \in PItems : pitem'[j] = IF j = i THEN "pending" ELSE pitem[j]
  BY <1>1, <1>2 DEF PersistentRanges
<1>8. PersistentRanges'
  BY <1>1, <1>2, <1>4, <1>6 DEF PersistentRanges, PersistentItemStates
<1>9. DeletionsAreDue'
  <2> SUFFICES ASSUME NEW w \in ToSet(writes'), w[1] # "put"
               PROVE  pitem'[w[2]] \in {"processed", "removed"}
    BY DEF DeletionsAreDue
  <2>1. w \in ToSet(writes)
    BY <1>6
  <2>2. w[2] \in PItems
    BY <1>2, <2>1 DEF PersistentRanges, StoreWrites, ToSet
  <2>3. pitem[w[2]] \in {"processed", "removed"}
    BY <1>2, <2>1 DEF DeletionsAreDue
  <2> QED
    BY <1>1, <1>7, <2>2, <2>3
<1>10. KeptInMemory' /\ NeverHandledYet' /\ AcceptedSurvives'
  BY <1>1, <1>2, <1>4, <1>7 DEF KeptInMemory, NeverHandledYet, AcceptedSurvives
<1>11. CrashesSoFar \in Nat /\ CrashesSoFar' = CrashesSoFar
  BY <1>1, <1>2, PersistentBounds DEF PersistentRanges, CrashesSoFar
<1>12. WaitingHandledBefore'
  <2>1. ToHandle' = ToHandle
    BY <1>1 DEF ToHandle
  <2>2. HandledBefore(i)
    BY <1>3, <1>11 DEF HandledBefore
  <2>3. \A j : HandledBefore(j)' <=> HandledBefore(j)
    BY <1>1, <1>11 DEF HandledBefore
  <2> QED
    BY <1>2, <1>4, <2>1, <2>2, <2>3 DEF WaitingHandledBefore
<1>13. RoundIsSound' /\ ProcessedOncePerLife'
  BY <1>1, <1>2, <1>4 DEF RoundIsSound, ProcessedOncePerLife
<1> QED
  BY <1>8, <1>9, <1>10, <1>12, <1>13 DEF PersistentInv

LEMMA RemoveItemKeeps ==
    ASSUME PersistentInv, NEW i \in PItems, RemoveItem(i)
    PROVE  PersistentInv'
<1>1. /\ pitem[i] \in {"pending", "accepted"} /\ memory' = RemoveFirst(memory, i)
      /\ writes' = Append(writes, <<"remove", i>>)
      /\ pitem' = [pitem EXCEPT ![i] = "removed"]
      /\ UNCHANGED <<store, round, step, queued, handled, left>>
  BY DEF RemoveItem
<1>2. /\ PersistentRanges /\ RoundIsSound /\ DeletionsAreDue /\ KeptInMemory
      /\ NeverHandledYet /\ WaitingHandledBefore /\ AcceptedSurvives /\ ProcessedOncePerLife
  BY DEF PersistentInv
<1>3. /\ memory' \in Seq(PItems) /\ ToSet(memory') = ToSet(memory) \ {i} /\ NoRepetition(memory')
  BY <1>1, <1>2, RemovingFirst DEF PersistentRanges, RoundIsSound
<1>4. <<"remove", i>> \in StoreWrites
  BY DEF StoreWrites, WriteKinds
<1>5. /\ writes' \in Seq(StoreWrites)
      /\ ToSet(writes') = ToSet(writes) \cup {<<"remove", i>>}
  BY <1>1, <1>2, <1>4, AddingWrite
<1>6. \A j \in PItems : pitem'[j] = IF j = i THEN "removed" ELSE pitem[j]
  BY <1>1, <1>2 DEF PersistentRanges
<1>7. PersistentRanges'
  BY <1>1, <1>2, <1>3, <1>5 DEF PersistentRanges, PersistentItemStates
<1>8. DeletionsAreDue'
  <2> SUFFICES ASSUME NEW w \in ToSet(writes')
               PROVE  w[1] # "put" => pitem'[w[2]] \in {"processed", "removed"}
    BY DEF DeletionsAreDue
  <2>1. CASE w \in ToSet(writes)
    <3>1. w[2] \in PItems
      BY <1>2, <2>1 DEF PersistentRanges, StoreWrites, ToSet
    <3> QED
      BY <1>2, <1>6, <2>1, <3>1 DEF DeletionsAreDue
  <2>2. CASE w = <<"remove", i>>
    BY <1>6, <2>2
  <2> QED
    BY <1>5, <2>1, <2>2
<1>9. KeptInMemory' /\ NeverHandledYet' /\ AcceptedSurvives'
  BY <1>1, <1>2, <1>3, <1>6 DEF KeptInMemory, NeverHandledYet, AcceptedSurvives
<1>10. WaitingHandledBefore'
  <2>1. ToHandle' = ToHandle
    BY <1>1 DEF ToHandle
  <2>2. \A j : HandledBefore(j)' <=> HandledBefore(j)
    BY <1>1 DEF HandledBefore, CrashesSoFar
  <2> QED
    BY <1>2, <1>3, <2>1, <2>2 DEF WaitingHandledBefore
<1>11. RoundIsSound' /\ ProcessedOncePerLife'
  BY <1>1, <1>2, <1>3 DEF RoundIsSound, ProcessedOncePerLife
<1> QED
  BY <1>7, <1>8, <1>9, <1>10, <1>11 DEF PersistentInv

(* A round that begins copies the memory.                                   *)
LEMMA ProcessQueueKeeps ==
    ASSUME PersistentInv, ProcessQueue
    PROVE  PersistentInv'
<1>1. /\ left.rounds > 0 /\ left' = [left EXCEPT !.rounds = @ - 1]
      /\ UNCHANGED <<memory, store, writes, pitem, handled>>
  BY DEF ProcessQueue
<1>2. /\ PersistentRanges /\ RoundIsSound /\ DeletionsAreDue /\ KeptInMemory
      /\ NeverHandledYet /\ WaitingHandledBefore /\ AcceptedSurvives /\ ProcessedOncePerLife
  BY DEF PersistentInv
<1>3. \/ step = "idle" /\ Begins(memory)
      \/ UNCHANGED <<round, step>>
  <2>1. CASE step = "idle"
    BY <2>1 DEF ProcessQueue
  <2>2. CASE step = "broken"
    BY <2>2 DEF ProcessQueue
  <2>3. CASE step # "idle" /\ step # "broken"
    BY <2>3 DEF ProcessQueue
  <2> QED
    BY <2>1, <2>2, <2>3
<1>4. left' \in [rounds : Nat, crashes : 0 .. MaxCrashes] /\ left'.crashes = left.crashes
  <2>1. left \in [rounds : Nat, crashes : 0 .. MaxCrashes]
    BY <1>2 DEF PersistentRanges
  <2>2. left.rounds - 1 \in Nat
    BY <1>1, <2>1
  <2> QED
    BY <1>1, <2>1, <2>2
<1>5. CASE Begins(memory)
  <2>1. round' = memory /\ step' = IF memory = <<>> THEN "idle" ELSE "called"
    BY <1>5 DEF Begins
  <2>2. PersistentRanges' /\ RoundIsSound'
    BY <1>1, <1>2, <1>4, <2>1 DEF PersistentRanges, RoundIsSound
  <2>3. ToHandle' \subseteq ToSet(memory)
    BY <2>1 DEF ToHandle
  <2>4. \A j : HandledBefore(j)' <=> HandledBefore(j)
    BY <1>1, <1>4 DEF HandledBefore, CrashesSoFar
  <2>5. WaitingHandledBefore'
    BY <1>1, <1>2, <2>3, <2>4 DEF WaitingHandledBefore
  <2> QED
    BY <1>1, <1>2, <1>4, <2>2, <2>5 DEF PersistentInv, DeletionsAreDue, KeptInMemory,
        NeverHandledYet, AcceptedSurvives, ProcessedOncePerLife
<1>6. CASE UNCHANGED <<round, step>>
  <2>1. PersistentRanges' /\ RoundIsSound'
    BY <1>1, <1>2, <1>4, <1>6 DEF PersistentRanges, RoundIsSound
  <2>2. ToHandle' = ToHandle
    BY <1>6 DEF ToHandle
  <2>3. \A j : HandledBefore(j)' <=> HandledBefore(j)
    BY <1>1, <1>4 DEF HandledBefore, CrashesSoFar
  <2>4. WaitingHandledBefore'
    BY <1>1, <1>2, <2>2, <2>3 DEF WaitingHandledBefore
  <2> QED
    BY <1>1, <1>2, <1>4, <2>1, <2>4 DEF PersistentInv, DeletionsAreDue, KeptInMemory,
        NeverHandledYet, AcceptedSurvives, ProcessedOncePerLife
<1> QED
  BY <1>3, <1>5, <1>6

(* The item just handled is in no copy any more.                            *)
LEMMA FnSucceedsKeeps ==
    ASSUME PersistentInv, FnSucceeds
    PROVE  PersistentInv'
<1> DEFINE i == Head(round)
<1>1. /\ step = "called" /\ handled' = [handled EXCEPT ![i] = @ + 1]
      /\ pitem' = [pitem EXCEPT ![i] = "processed"] /\ memory' = RemoveFirst(memory, i)
      /\ writes' = Append(writes, <<"delete", i>>) /\ step' = "deleting"
      /\ UNCHANGED <<store, round, queued, left>>
  BY DEF FnSucceeds
<1>2. /\ PersistentRanges /\ RoundIsSound /\ DeletionsAreDue /\ KeptInMemory
      /\ NeverHandledYet /\ WaitingHandledBefore /\ AcceptedSurvives /\ ProcessedOncePerLife
  BY DEF PersistentInv
<1>3. /\ i \in PItems /\ i \in ToSet(round) /\ i \notin ToSet(Tail(round))
      /\ ToSet(round) = ToSet(Tail(round)) \cup {i}
  BY <1>1, <1>2, DroppingFirst DEF PersistentRanges, RoundIsSound
<1> HIDE DEF i
<1>4. /\ memory' \in Seq(PItems) /\ ToSet(memory') = ToSet(memory) \ {i} /\ NoRepetition(memory')
  BY <1>1, <1>2, RemovingFirst DEF PersistentRanges, RoundIsSound
<1>5. <<"delete", i>> \in StoreWrites
  BY <1>3 DEF StoreWrites, WriteKinds
<1>6. /\ writes' \in Seq(StoreWrites)
      /\ ToSet(writes') = ToSet(writes) \cup {<<"delete", i>>}
  BY <1>1, <1>2, <1>5, AddingWrite
<1>7. /\ \A j \in PItems : pitem'[j] = IF j = i THEN "processed" ELSE pitem[j]
      /\ \A j \in PItems : handled'[j] = IF j = i THEN handled[i] + 1 ELSE handled[j]
  BY <1>1, <1>2, <1>3 DEF PersistentRanges
<1>8. PersistentRanges'
  <2>1. handled[i] + 1 \in Nat
    BY <1>2, <1>3 DEF PersistentRanges
  <2>2. handled' \in [PItems -> Nat]
    BY <1>1, <1>2, <2>1 DEF PersistentRanges
  <2> QED
    BY <1>1, <1>2, <1>4, <1>6, <2>2 DEF PersistentRanges, PersistentItemStates
<1>9. DeletionsAreDue'
  <2> SUFFICES ASSUME NEW w \in ToSet(writes')
               PROVE  w[1] # "put" => pitem'[w[2]] \in {"processed", "removed"}
    BY DEF DeletionsAreDue
  <2>1. CASE w \in ToSet(writes)
    <3>1. w[2] \in PItems
      BY <1>2, <2>1 DEF PersistentRanges, StoreWrites, ToSet
    <3> QED
      BY <1>2, <1>7, <2>1, <3>1 DEF DeletionsAreDue
  <2>2. CASE w = <<"delete", i>>
    BY <1>3, <1>7, <2>2
  <2> QED
    BY <1>6, <2>1, <2>2
<1>10. KeptInMemory' /\ NeverHandledYet' /\ AcceptedSurvives'
  BY <1>1, <1>2, <1>4, <1>7 DEF KeptInMemory, NeverHandledYet, AcceptedSurvives
<1>11. CrashesSoFar' = CrashesSoFar /\ CrashesSoFar \in Nat
  BY <1>1, <1>2, PersistentBounds DEF PersistentRanges, CrashesSoFar
<1>12. \A j \in PItems : j # i /\ HandledBefore(j) => HandledBefore(j)'
  BY <1>7, <1>11 DEF HandledBefore
<1>13. WaitingHandledBefore'
  <2>1. ToHandle' = ToSet(Tail(round)) /\ ToHandle = ToSet(round)
    BY <1>1 DEF ToHandle
  <2>2. \A j \in ToHandle' : j # i /\ j \in ToHandle
    BY <1>3, <2>1
  <2>3. \A j \in ToSet(memory') : j # i /\ j \in ToSet(memory)
    BY <1>4
  <2>4. \A j \in ToSet(memory) \cup ToHandle : j \in PItems
    BY <1>2, <2>1 DEF PersistentRanges, ToSet
  <2> QED
    BY <1>2, <1>12, <2>2, <2>3, <2>4 DEF WaitingHandledBefore
<1>14. ProcessedOncePerLife'
  <2>1. handled[i] <= CrashesSoFar /\ handled[i] \in Nat
    <3>1. i \in ToHandle
      BY <1>1, <1>3 DEF ToHandle
    <3> QED
      BY <1>2, <1>3, <3>1 DEF WaitingHandledBefore, HandledBefore, PersistentRanges
  <2>2. handled'[i] <= 1 + CrashesSoFar
    BY <1>3, <1>7, <1>11, <2>1
  <2>3. \A j \in PItems : handled[j] <= 1 + CrashesSoFar
    BY <1>2 DEF ProcessedOncePerLife, CrashesSoFar
  <2>4. \A j \in PItems : handled'[j] <= 1 + CrashesSoFar'
    BY <1>7, <1>11, <2>2, <2>3
  <2> QED
    BY <2>4 DEF ProcessedOncePerLife, CrashesSoFar
<1>15. RoundIsSound'
  BY <1>1, <1>2, <1>4 DEF RoundIsSound
<1> QED
  BY <1>8, <1>9, <1>10, <1>13, <1>14, <1>15 DEF PersistentInv

LEMMA FnFailsKeeps ==
    ASSUME PersistentInv, FnFails
    PROVE  PersistentInv'
<1>1. /\ step' = "broken" /\ round' = <<>>
      /\ UNCHANGED <<memory, store, writes, pitem, handled, left>>
  BY DEF FnFails
<1>2. NoRepetition(<<>>) /\ ToHandle' = {}
  BY <1>1 DEF NoRepetition, ToHandle
<1>3. \A j : HandledBefore(j)' <=> HandledBefore(j)
  BY <1>1 DEF HandledBefore, CrashesSoFar
<1>4. WaitingHandledBefore'
  BY <1>1, <1>2, <1>3 DEF PersistentInv, WaitingHandledBefore
<1> QED
  BY <1>1, <1>2, <1>4 DEF PersistentInv, PersistentRanges, RoundIsSound, DeletionsAreDue,
      KeptInMemory, NeverHandledYet, AcceptedSurvives, ProcessedOncePerLife

(* A round goes on with an item of its copy, or a new round with one of the *)
(* memory.                                                                  *)
LEMMA RoundGoesOnKeeps ==
    ASSUME PersistentInv, step = "deleting", RoundGoesOn
    PROVE  /\ round' \in Seq(PItems) /\ step' \in {"idle", "called"}
           /\ step' = "called" => round' # <<>>
           /\ NoRepetition(round')
           /\ step' = "called" => ToSet(round') \subseteq ToSet(memory) \cup ToHandle
<1>1. /\ memory \in Seq(PItems) /\ round \in Seq(PItems) /\ round # <<>>
      /\ NoRepetition(memory) /\ NoRepetition(round)
  BY DEF PersistentInv, PersistentRanges, RoundIsSound
<1>2. /\ Tail(round) \in Seq(PItems) /\ NoRepetition(Tail(round))
      /\ Len(round) # 1 => Tail(round) # <<>>
  BY <1>1, DroppingFirst
<1>3. CASE Len(round) > 1
  <2>1. round' = Tail(round) /\ step' = "called"
    BY <1>3 DEF RoundGoesOn
  <2>2. Len(round) # 1
    BY <1>3
  <2> QED
    BY <1>2, <2>1, <2>2 DEF ToHandle
<1>4. CASE ~(Len(round) > 1) /\ queued > 0
  <2>1. round' = memory /\ step' = IF memory = <<>> THEN "idle" ELSE "called"
    BY <1>4 DEF RoundGoesOn, Begins
  <2> QED
    BY <1>1, <2>1
<1>5. CASE ~(Len(round) > 1) /\ ~(queued > 0)
  <2>1. round' = <<>> /\ step' = "idle"
    BY <1>5 DEF RoundGoesOn
  <2>2. NoRepetition(<<>>)
    BY DEF NoRepetition
  <2> QED
    BY <2>1, <2>2
<1> QED
  BY <1>3, <1>4, <1>5

LEMMA WriteCompletesKeeps ==
    ASSUME PersistentInv, WriteCompletes
    PROVE  PersistentInv'
<1> DEFINE w == Head(writes)
           kind == w[1]
           i == w[2]
<1>1. /\ writes # <<>> /\ writes' = Tail(writes)
      /\ store' = IF kind = "put" THEN store \cup {i} ELSE store \ {i}
      /\ pitem' = IF kind = "put" /\ pitem[i] = "pending"
                  THEN [pitem EXCEPT ![i] = "accepted"] ELSE pitem
      /\ \/ step = "deleting" /\ RoundGoesOn
         \/ UNCHANGED <<round, step, queued>>
      /\ UNCHANGED <<memory, handled, left>>
  BY DEF WriteCompletes
<1>2. /\ PersistentRanges /\ RoundIsSound /\ DeletionsAreDue /\ KeptInMemory
      /\ NeverHandledYet /\ WaitingHandledBefore /\ AcceptedSurvives /\ ProcessedOncePerLife
  BY DEF PersistentInv
<1>3. /\ w \in StoreWrites /\ w \in ToSet(writes) /\ Tail(writes) \in Seq(StoreWrites)
      /\ ToSet(Tail(writes)) \subseteq ToSet(writes)
  <2>1. writes \in Seq(StoreWrites)
    BY <1>2 DEF PersistentRanges
  <2> QED
    BY <1>1, <2>1, DroppingFirst
<1>4. i \in PItems /\ kind \in WriteKinds
  BY <1>3 DEF StoreWrites
<1>5. kind # "put" => pitem[i] \in {"processed", "removed"}
  BY <1>2, <1>3 DEF DeletionsAreDue
<1> HIDE DEF w, kind, i
<1>6. \A j \in PItems : \/ pitem'[j] = pitem[j]
                        \/ /\ j = i /\ kind = "put"
                           /\ pitem[j] = "pending" /\ pitem'[j] = "accepted"
  BY <1>1, <1>2, <1>4 DEF PersistentRanges
<1>7. /\ round' \in Seq(PItems) /\ step' \in {"idle", "called", "deleting", "broken"}
      /\ step' \in {"called", "deleting"} => round' # <<>>
      /\ NoRepetition(round')
      /\ ToHandle' \subseteq ToSet(memory) \cup ToHandle
  <2>1. CASE step = "deleting" /\ RoundGoesOn
    <3>1. /\ round' \in Seq(PItems) /\ step' \in {"idle", "called"}
          /\ step' = "called" => round' # <<>>
          /\ NoRepetition(round')
          /\ step' = "called" => ToSet(round') \subseteq ToSet(memory) \cup ToHandle
      BY <2>1, RoundGoesOnKeeps
    <3>2. ToHandle' = IF step' = "called" THEN ToSet(round') ELSE {}
      BY <3>1 DEF ToHandle
    <3> QED
      BY <3>1, <3>2
  <2>2. CASE UNCHANGED <<round, step, queued>>
    <3>1. ToHandle' = ToHandle
      BY <2>2 DEF ToHandle
    <3> QED
      BY <1>2, <2>2, <3>1 DEF PersistentRanges, RoundIsSound
  <2> QED
    BY <1>1, <2>1, <2>2
<1>8. PersistentRanges'
  <2>1. pitem' \in [PItems -> PersistentItemStates]
    BY <1>1, <1>2, <1>4 DEF PersistentRanges, PersistentItemStates
  <2> QED
    BY <1>1, <1>2, <1>3, <1>4, <1>7, <2>1 DEF PersistentRanges
<1>9. RoundIsSound'
  BY <1>1, <1>2, <1>7 DEF RoundIsSound
<1>10. DeletionsAreDue'
  <2> SUFFICES ASSUME NEW v \in ToSet(writes'), v[1] # "put"
               PROVE  pitem'[v[2]] \in {"processed", "removed"}
    BY DEF DeletionsAreDue
  <2>1. v \in ToSet(writes)
    BY <1>1, <1>3
  <2>2. v[2] \in PItems
    BY <1>2, <2>1 DEF PersistentRanges, StoreWrites, ToSet
  <2>3. pitem[v[2]] \in {"processed", "removed"}
    BY <1>2, <2>1 DEF DeletionsAreDue
  <2> QED
    BY <1>6, <2>2, <2>3
<1>11. KeptInMemory' /\ NeverHandledYet'
  BY <1>1, <1>2, <1>6 DEF KeptInMemory, NeverHandledYet
<1>12. AcceptedSurvives'
  <2> SUFFICES ASSUME NEW j \in PItems, pitem'[j] = "accepted"
               PROVE  j \in store' /\ j \in ToSet(memory')
    BY DEF AcceptedSurvives
  <2>1. CASE pitem[j] = "accepted"
    <3>1. j \in store /\ j \in ToSet(memory)
      BY <1>2, <2>1 DEF AcceptedSurvives
    <3>2. kind # "put" => j # i
      BY <1>5, <2>1
    <3> QED
      BY <1>1, <3>1, <3>2
  <2>2. CASE j = i /\ kind = "put" /\ pitem[j] = "pending"
    BY <1>1, <1>2, <2>2 DEF KeptInMemory
  <2> QED
    BY <1>6, <2>1, <2>2
<1>13. WaitingHandledBefore'
  <2>1. \A j : HandledBefore(j)' <=> HandledBefore(j)
    BY <1>1 DEF HandledBefore, CrashesSoFar
  <2> QED
    BY <1>1, <1>2, <1>7, <2>1 DEF WaitingHandledBefore
<1>14. ProcessedOncePerLife'
  BY <1>1, <1>2 DEF ProcessedOncePerLife
<1> QED
  BY <1>8, <1>9, <1>10, <1>11, <1>12, <1>13, <1>14 DEF PersistentInv

(* What the store holds is all that is left, and one more crash is counted. *)
LEMMA RestartKeeps ==
    ASSUME PersistentInv, Restart
    PROVE  PersistentInv'
<1>1. /\ left.crashes > 0 /\ left' = [left EXCEPT !.crashes = @ - 1]
      /\ memory' \in InOrder(store) /\ writes' = <<>> /\ round' = <<>> /\ step' = "idle"
      /\ pitem' = [j \in PItems |-> IF j \in store THEN "accepted"
                                    ELSE IF pitem[j] = "pending" THEN "lost" ELSE pitem[j]]
      /\ UNCHANGED <<store, handled>>
  BY DEF Restart
<1>2. PersistentRanges /\ NeverHandledYet /\ AcceptedSurvives /\ ProcessedOncePerLife
  BY DEF PersistentInv
<1>3. /\ memory' \in Seq(PItems) /\ ToSet(memory') = store /\ NoRepetition(memory')
  <2>1. store \in SUBSET Nat /\ store \in SUBSET PItems
    BY <1>2 DEF PersistentRanges, PItems
  <2>2. Cardinality(store) \in Nat
    <3>1. IsFiniteSet(PItems)
      BY FS_Interval, PersistentBounds DEF PItems
    <3> QED
      BY <2>1, <3>1, FS_Subset, FS_CardinalityType
  <2> DEFINE n == Cardinality(store)
  <2>3. /\ memory' \in [1 .. n -> store] /\ ToSet(memory') = store
        /\ \A j, k \in DOMAIN memory' : j < k => memory'[j] < memory'[k]
    BY <1>1 DEF InOrder
  <2> HIDE DEF n
  <2>4. n \in Nat
    BY <2>2 DEF n
  <2>5. memory' \in [1 .. n -> PItems]
    BY <2>1, <2>3
  <2>6. memory' \in Seq(PItems) /\ DOMAIN memory' = 1 .. n /\ Len(memory') = n
    BY <2>4, <2>5
  <2>7. ASSUME NEW j \in 1 .. n, NEW k \in 1 .. n, memory'[j] = memory'[k]
        PROVE  j = k
    <3>1. /\ j < k => memory'[j] < memory'[k]
          /\ k < j => memory'[k] < memory'[j]
      BY <2>3, <2>6
    <3>2. memory'[j] \in Nat /\ memory'[k] \in Nat
      BY <2>1, <2>3, <2>6
    <3>3. ~(j < k) /\ ~(k < j)
      BY <2>7, <3>1, <3>2
    <3> QED
      BY <2>4, <3>3
  <2> QED
    BY <2>3, <2>6, <2>7 DEF NoRepetition
<1>4. left' \in [rounds : Nat, crashes : 0 .. MaxCrashes] /\ left'.crashes = left.crashes - 1
  <2>1. left \in [rounds : Nat, crashes : 0 .. MaxCrashes]
    BY <1>2 DEF PersistentRanges
  <2>2. left.crashes - 1 \in 0 .. MaxCrashes
    BY <1>1, <2>1, PersistentBounds
  <2> QED
    BY <1>1, <2>1, <2>2
<1>5. \A j \in PItems : /\ j \in store <=> pitem'[j] = "accepted"
                        /\ pitem'[j] # "pending"
                        /\ pitem'[j] = "new" => pitem[j] = "new" /\ j \notin store
  BY <1>1, <1>2 DEF AcceptedSurvives
<1>6. pitem' \in [PItems -> PersistentItemStates]
  BY <1>1, <1>2 DEF PersistentRanges, PersistentItemStates
<1>7. ToSet(<<>>) = {} /\ NoRepetition(<<>>)
  BY DEF ToSet, NoRepetition
<1>8. PersistentRanges' /\ RoundIsSound' /\ DeletionsAreDue'
  <2>1. writes' \in Seq(StoreWrites) /\ round' \in Seq(PItems)
    BY <1>1
  <2> QED
    BY <1>1, <1>2, <1>3, <1>4, <1>6, <1>7, <2>1 DEF PersistentRanges, RoundIsSound, DeletionsAreDue
<1>9. KeptInMemory' /\ NeverHandledYet' /\ AcceptedSurvives'
  BY <1>1, <1>2, <1>3, <1>5 DEF KeptInMemory, NeverHandledYet, AcceptedSurvives
<1>10. /\ CrashesSoFar' = CrashesSoFar + 1 /\ CrashesSoFar \in Nat
       /\ \A j \in PItems : handled[j] \in Nat /\ handled[j] <= 1 + CrashesSoFar
  BY <1>2, <1>4, PersistentBounds DEF PersistentRanges, CrashesSoFar, ProcessedOncePerLife
<1>11. \A j \in PItems : HandledBefore(j)'
  BY <1>1, <1>10 DEF HandledBefore
<1>12. WaitingHandledBefore'
  <2>1. ToHandle' = {}
    BY <1>1 DEF ToHandle
  <2>2. ToSet(memory') \subseteq PItems
    BY <1>2, <1>3 DEF PersistentRanges
  <2> QED
    BY <1>11, <2>1, <2>2 DEF WaitingHandledBefore
<1>13. ProcessedOncePerLife'
  <2>1. \A j \in PItems : handled'[j] <= 1 + CrashesSoFar'
    BY <1>1, <1>10
  <2> QED
    BY <2>1 DEF ProcessedOncePerLife, CrashesSoFar
<1> QED
  BY <1>8, <1>9, <1>12, <1>13 DEF PersistentInv

(* An item whose enqueue() has resolved (src/persistentQueue.ts) stays in   *)
(* memory and in the store until it is processed or removed, and fn is done *)
(* with it once, and once more for each crash: for every number of items,   *)
(* of overlapping calls of process() and of restarts.                       *)
THEOREM AcceptedItemsPersist == PersistentSpec => []ItemsPersist
<1>1. ASSUME PersistentInv, [PersistentNext]_persistentVars PROVE PersistentInv'
  <2>1. CASE UNCHANGED persistentVars
    BY <1>1, <2>1 DEF PersistentInv, PersistentRanges, RoundIsSound, DeletionsAreDue, KeptInMemory,
        NeverHandledYet, WaitingHandledBefore, ToHandle, HandledBefore, CrashesSoFar,
        AcceptedSurvives, ProcessedOncePerLife, persistentVars
  <2>2. ASSUME NEW i \in PItems, EnqueuePersistent(i) PROVE PersistentInv'
    BY <1>1, <2>2, EnqueuePersistentKeeps
  <2>3. ASSUME NEW i \in PItems, RemoveItem(i) PROVE PersistentInv'
    BY <1>1, <2>3, RemoveItemKeeps
  <2>4. CASE ProcessQueue
    BY <1>1, <2>4, ProcessQueueKeeps
  <2>5. CASE FnSucceeds
    BY <1>1, <2>5, FnSucceedsKeeps
  <2>6. CASE FnFails
    BY <1>1, <2>6, FnFailsKeeps
  <2>7. CASE WriteCompletes
    BY <1>1, <2>7, WriteCompletesKeeps
  <2>8. CASE Restart
    BY <1>1, <2>8, RestartKeeps
  <2> QED
    BY <1>1, <2>1, <2>2, <2>3, <2>4, <2>5, <2>6, <2>7, <2>8 DEF PersistentNext
<1>2. PersistentInv => ItemsPersist
  BY DEF PersistentInv, ItemsPersist
<1> QED
  BY <1>1, <1>2, PersistentInitSound, PTL DEF PersistentSpec

-----------------------------------------------------------------------------
(* The operation queue.                                                     *)
RequestStates == {"new", "direct", "buffered", "drained", "resolved", "rejected"}
BufferedRequests == Requests \X RequestPriorities

RequestRanges ==
    /\ buffer \in Seq(BufferedRequests)
    /\ request \in [Requests -> RequestStates]
    /\ connected \in BOOLEAN

DrainedInv == RequestRanges /\ DrainedByPriority

UrgentFirst(list) == \A i, j \in DOMAIN list : i < j => list[i][2] >= list[j][2]

LEMMA DrainedInitSound == OpqInit => DrainedInv
<1> SUFFICES ASSUME OpqInit PROVE DrainedInv
  OBVIOUS
<1>1. RequestRanges
  BY DEF OpqInit, RequestRanges, RequestStates
<1>2. buffer = <<>> /\ DOMAIN <<>> = {}
  BY DEF OpqInit
<1> QED
  BY <1>1, <1>2 DEF DrainedInv, DrainedByPriority

(* The sort gives a list of the same requests, the most urgent first.       *)
LEMMA SortedIsUrgentFirst ==
    ASSUME NEW list \in Seq(BufferedRequests), NEW sorted \in ByPriority(list)
    PROVE  sorted \in Seq(BufferedRequests) /\ UrgentFirst(sorted)
<1>1. Len(list) \in Nat /\ DOMAIN list = 1 .. Len(list)
  OBVIOUS
<1>2. PICK order \in Bijection(DOMAIN list, DOMAIN list) :
         /\ sorted = [i \in DOMAIN list |-> list[order[i]]]
         /\ \A i, j \in DOMAIN list : i < j =>
               \/ list[order[i]][2] > list[order[j]][2]
               \/ list[order[i]][2] = list[order[j]][2] /\ order[i] < order[j]
  BY DEF ByPriority
<1>3. \A i \in DOMAIN list : order[i] \in DOMAIN list
  BY DEF Bijection, Injection
<1>4. \A i \in DOMAIN list : list[i] \in BufferedRequests
  OBVIOUS
<1>5. sorted \in [1 .. Len(list) -> BufferedRequests]
  BY <1>1, <1>2, <1>3, <1>4
<1>6. sorted \in Seq(BufferedRequests) /\ DOMAIN sorted = DOMAIN list
  BY <1>1, <1>5
<1>7. \A i \in DOMAIN list : list[order[i]][2] \in Nat
  BY <1>3, <1>4, OperationQueueSettings DEF BufferedRequests, OperationQueueSettings
<1>8. \A i \in DOMAIN list : sorted[i] = list[order[i]]
  BY <1>2
<1>9. ASSUME NEW i \in DOMAIN list, NEW j \in DOMAIN list, i < j
      PROVE  sorted[i][2] >= sorted[j][2]
  BY <1>2, <1>7, <1>8, <1>9
<1> QED
  BY <1>6, <1>9 DEF UrgentFirst

(* A drain that goes on with an ordered list leaves it ordered, and is at   *)
(* work unless nothing is left.                                             *)
LEMMA DrainKeepsOrder ==
    ASSUME NEW list \in Seq(BufferedRequests), UrgentFirst(list),
           NEW requests \in [Requests -> RequestStates], DrainGoesOn(list, requests)
    PROVE  /\ buffer' \in Seq(BufferedRequests) /\ UrgentFirst(buffer')
           /\ request' \in [Requests -> RequestStates]
           /\ buffer' # <<>> => Drained' # {}
<1>1. CASE list = <<>>
  <2>1. buffer' = list /\ request' = requests
    BY <1>1 DEF DrainGoesOn
  <2> QED
    BY <1>1, <2>1
<1>2. CASE list # <<>>
  <2>1. buffer' = Tail(list) /\ request' = [requests EXCEPT ![Head(list)[1]] = "drained"]
    BY <1>2 DEF DrainGoesOn
  <2>2. /\ Tail(list) \in Seq(BufferedRequests) /\ Head(list) \in BufferedRequests
        /\ DOMAIN Tail(list) = 1 .. Len(list) - 1
        /\ \A i \in 1 .. Len(list) - 1 : Tail(list)[i] = list[i + 1]
        /\ DOMAIN list = 1 .. Len(list) /\ Len(list) \in Nat
    BY <1>2
  <2>3. \A i \in 1 .. Len(list) - 1 : i + 1 \in DOMAIN list
    BY <2>2
  <2>4. \A i, j \in 1 .. Len(list) - 1 : i < j => i + 1 < j + 1
    BY <2>2
  <2>5. UrgentFirst(Tail(list))
    BY <2>2, <2>3, <2>4 DEF UrgentFirst
  <2>6. Head(list)[1] \in Requests
    BY <2>2 DEF BufferedRequests
  <2>7. request' \in [Requests -> RequestStates] /\ request'[Head(list)[1]] = "drained"
    BY <2>1, <2>6 DEF RequestStates
  <2>8. Drained' # {}
    BY <2>6, <2>7 DEF Drained
  <2> QED
    BY <2>1, <2>2, <2>5, <2>7, <2>8
<1> QED
  BY <1>1, <1>2

LEMMA SetOnlineKeeps ==
    ASSUME DrainedInv, NEW value \in BOOLEAN, SetOnline(value)
    PROVE  DrainedInv'
<1>1. /\ buffer \in Seq(BufferedRequests) /\ request \in [Requests -> RequestStates]
      /\ connected' = value
  BY DEF DrainedInv, RequestRanges, SetOnline
<1>2. CASE value /\ ~connected
  <2>1. PICK list \in ByPriority(buffer) : DrainGoesOn(list, request)
    BY <1>2 DEF SetOnline
  <2>2. list \in Seq(BufferedRequests) /\ UrgentFirst(list)
    BY <1>1, SortedIsUrgentFirst
  <2>3. /\ buffer' \in Seq(BufferedRequests) /\ UrgentFirst(buffer')
        /\ request' \in [Requests -> RequestStates]
        /\ buffer' # <<>> => Drained' # {}
    BY <1>1, <2>1, <2>2, DrainKeepsOrder
  <2> QED
    BY <1>1, <2>3 DEF DrainedInv, RequestRanges, DrainedByPriority, UrgentFirst
<1>3. CASE ~(value /\ ~connected)
  <2>1. UNCHANGED <<buffer, request>>
    BY <1>3 DEF SetOnline
  <2> QED
    BY <1>1, <1>3, <2>1 DEF DrainedInv, RequestRanges, DrainedByPriority, Drained
<1> QED
  BY <1>2, <1>3

LEMMA EnqueueRequestKeeps ==
    ASSUME DrainedInv, NEW r \in Requests, NEW priority \in RequestPriorities,
           EnqueueRequest(r, priority)
    PROVE  DrainedInv'
<1>1. /\ buffer \in Seq(BufferedRequests) /\ request \in [Requests -> RequestStates]
      /\ connected \in BOOLEAN /\ connected' = connected /\ request[r] = "new"
  BY DEF DrainedInv, RequestRanges, EnqueueRequest
<1>2. CASE connected
  <2>1. request' = [request EXCEPT ![r] = "direct"] /\ UNCHANGED buffer
    BY <1>2 DEF EnqueueRequest
  <2>2. Drained' = Drained
    BY <1>1, <2>1 DEF Drained
  <2> QED
    BY <1>1, <2>1, <2>2 DEF DrainedInv, RequestRanges, RequestStates, DrainedByPriority
<1>3. CASE ~connected
  <2>1. /\ request' = [request EXCEPT ![r] = "buffered"]
        /\ buffer' = Append(buffer, <<r, priority>>)
    BY <1>3 DEF EnqueueRequest
  <2>2. <<r, priority>> \in BufferedRequests
    BY DEF BufferedRequests
  <2>3. buffer' \in Seq(BufferedRequests)
    BY <1>1, <2>1, <2>2, AppendingOne
  <2> QED
    BY <1>1, <1>3, <2>1, <2>3 DEF DrainedInv, RequestRanges, RequestStates, DrainedByPriority
<1> QED
  BY <1>2, <1>3

(* A request that was drained ends, and its drain goes on with the next.    *)
LEMMA RequestSettlesKeeps ==
    ASSUME DrainedInv, NEW r \in Requests, NEW outcome \in {"resolved", "rejected"},
           RequestSettles(r, outcome)
    PROVE  DrainedInv'
<1>1. /\ buffer \in Seq(BufferedRequests) /\ request \in [Requests -> RequestStates]
      /\ connected \in BOOLEAN /\ connected' = connected
  BY DEF DrainedInv, RequestRanges, RequestSettles
<1> DEFINE settled == [request EXCEPT ![r] = outcome]
<1>2. settled \in [Requests -> RequestStates]
  BY <1>1 DEF RequestStates
<1>3. CASE request[r] = "drained" /\ DrainGoesOn(buffer, settled)
  <2> HIDE DEF settled
  <2>1. CASE connected
    <3>1. UrgentFirst(buffer)
      BY <2>1 DEF DrainedInv, DrainedByPriority, UrgentFirst
    <3>2. /\ buffer' \in Seq(BufferedRequests) /\ UrgentFirst(buffer')
          /\ request' \in [Requests -> RequestStates]
          /\ buffer' # <<>> => Drained' # {}
      BY <1>1, <1>2, <1>3, <3>1, DrainKeepsOrder
    <3> QED
      BY <1>1, <3>2 DEF DrainedInv, RequestRanges, DrainedByPriority, UrgentFirst
  <2>2. CASE ~connected
    <3>1. buffer' \in Seq(BufferedRequests) /\ request' \in [Requests -> RequestStates]
      <4>1. CASE buffer = <<>>
        BY <1>1, <1>2, <1>3, <4>1 DEF DrainGoesOn
      <4>2. CASE buffer # <<>>
        <5>1. Tail(buffer) \in Seq(BufferedRequests)
          BY <1>1, <4>2, DroppingFirst
        <5>2. buffer' = Tail(buffer) /\ request' = [settled EXCEPT ![Head(buffer)[1]] = "drained"]
          BY <1>3, <4>2 DEF DrainGoesOn
        <5> QED
          BY <1>2, <5>1, <5>2 DEF RequestStates
      <4> QED
        BY <4>1, <4>2
    <3> QED
      BY <1>1, <2>2, <3>1 DEF DrainedInv, RequestRanges, DrainedByPriority
  <2> QED
    BY <1>1, <2>1, <2>2
<1>4. CASE request[r] = "direct" /\ request' = settled /\ UNCHANGED buffer
  <2>1. Drained' = Drained
    BY <1>1, <1>4 DEF Drained
  <2> QED
    BY <1>1, <1>2, <1>4, <2>1 DEF DrainedInv, RequestRanges, DrainedByPriority
<1> QED
  BY <1>3, <1>4 DEF RequestSettles

(* Requests made offline (src/operationQueue.ts), for every number of them  *)
(* and any priorities: while the client is online what is still buffered is *)
(* ordered by priority and some drain is at work on it, however often the   *)
(* connection comes and goes, polls answer late and drains overlap.         *)
THEOREM BufferDrainsByPriority == OpqSpec => []DrainedByPriority
<1>1. ASSUME DrainedInv, [OpqNext]_opqVars PROVE DrainedInv'
  <2>1. CASE UNCHANGED opqVars
    BY <1>1, <2>1 DEF DrainedInv, RequestRanges, DrainedByPriority, Drained, opqVars
  <2>2. ASSUME NEW r \in Requests, NEW priority \in RequestPriorities, EnqueueRequest(r, priority)
        PROVE  DrainedInv'
    BY <1>1, <2>2, EnqueueRequestKeeps
  <2>3. CASE ApplicationSetsOnline
    BY <1>1, <2>3, SetOnlineKeeps DEF ApplicationSetsOnline
  <2>4. CASE StartOrStopPolling \/ PollBegins
    BY <1>1, <2>4 DEF DrainedInv, RequestRanges, DrainedByPriority, Drained,
       StartOrStopPolling, PollBegins
  <2>5. CASE PollAnswers
    BY <1>1, <2>5, SetOnlineKeeps DEF PollAnswers
  <2>6. ASSUME NEW r \in Requests, RequestEnds(r) PROVE DrainedInv'
    BY <1>1, <2>6, RequestSettlesKeeps DEF RequestEnds
  <2> QED
    BY <1>1, <2>1, <2>2, <2>3, <2>4, <2>5, <2>6 DEF OpqNext
<1>2. DrainedInv => DrainedByPriority
  BY DEF DrainedInv
<1> QED
  BY <1>1, <1>2, DrainedInitSound, PTL DEF OpqSpec

-----------------------------------------------------------------------------
(* The priority queue.  First the order of its items: a may stand above b   *)
(* in the heap when b does not come before it.                              *)
Ordered(a, b) == ~(Compare(b, a) < 0)

LEMMA CompareOrders ==
    ASSUME NEW a \in Item, NEW b \in Item
    PROVE  /\ Compare(a, b) < 0 => Ordered(a, b)
           /\ \A c \in Item : Ordered(a, b) /\ Ordered(b, c) => Ordered(a, c)
           /\ Ordered(a, b) /\ a.seq # b.seq => Abstract!Precedes(a, b)
<1>1. /\ a.priority \in 0 .. 2 /\ b.priority \in 0 .. 2 /\ a.seq \in Nat /\ b.seq \in Nat
      /\ \A c \in Item : c.priority \in 0 .. 2 /\ c.seq \in Nat
  BY DEF Item
<1> QED
  BY <1>1 DEF Ordered, Compare, Abstract!Precedes

(* A loop whose turns stay in S, all alike, makes a run of them.            *)
RunsOf(S, Turn, s, N) ==
    {f \in [0 .. N -> S] : f[0] = s /\ \A n \in 1 .. N : f[n] = Turn[f[n - 1]]}

LEMMA RunExists ==
    ASSUME NEW S, NEW Turn \in [S -> S], NEW s \in S, NEW N \in Nat
    PROVE  \E f : f \in RunsOf(S, Turn, s, N)
<1> DEFINE turns == [n \in 1 .. N |-> Turn]
<1>1. turns \in [1 .. N -> [S -> S]] /\ \A n \in 1 .. N : turns[n] = Turn
  OBVIOUS
<1> HIDE DEF turns
<1>2. PICK f \in [0 .. N -> S] : Turns(f, s, turns, N)
  BY <1>1, TurnsExist
<1> QED
  BY <1>1, <1>2 DEF Turns, RunsOf

-----------------------------------------------------------------------------
(* Heaps of N items, one of which is on its way.                            *)
Arrays(N) == [1 .. N -> Item]
SeqsDiffer(g) == \A i, k \in DOMAIN g : g[i].seq = g[k].seq => i = k

HeapStates(X, N) ==
    {st \in [heap : Arrays(N), at : 1 .. N] : ToSet(st.heap) = X /\ SeqsDiffer(st.heap)}

HeapOrdered(g, N) == \A k \in 2 .. N : Ordered(g[k \div 2], g[k])

(* They are states of the loops, whose turns are functions of them.        *)
LEMMA HeapStatesOfLoops ==
    ASSUME NEW X, NEW N \in Nat, NEW st \in HeapStates(X, N)
    PROVE  /\ st \in LoopStates
           /\ Up[st] = IF st.at > 1 /\ Compare(st.heap[st.at], st.heap[st.at \div 2]) < 0
                       THEN [heap |-> Exchange(st.heap, st.at, st.at \div 2), at |-> st.at \div 2]
                       ELSE st
           /\ Down[st] = IF Smallest(st.heap, st.at) = st.at THEN st
                         ELSE [heap |-> Exchange(st.heap, st.at, Smallest(st.heap, st.at)),
                               at |-> Smallest(st.heap, st.at)]
<1>1. st \in [heap : [1 .. N -> Item], at : 1 .. N]
  BY DEF HeapStates, Arrays
<1>2. st.heap \in Seq(Item) /\ st.at \in Nat \ {0} /\ st = [heap |-> st.heap, at |-> st.at]
  BY <1>1
<1>3. st \in LoopStates
  BY <1>2 DEF LoopStates
<1> QED
  BY <1>3 DEF Up, Down

LEMMA Exchanging ==
    ASSUME NEW N \in Nat, NEW g \in Arrays(N), NEW i \in 1 .. N, NEW k \in 1 .. N
    PROVE  /\ Exchange(g, i, k) \in Arrays(N)
           /\ \A j \in 1 .. N : Exchange(g, i, k)[j] =
                 IF j = i THEN g[k] ELSE IF j = k THEN g[i] ELSE g[j]
           /\ ToSet(Exchange(g, i, k)) = ToSet(g)
           /\ SeqsDiffer(g) => SeqsDiffer(Exchange(g, i, k))
<1> DEFINE x == Exchange(g, i, k)
<1>1. g[i] \in Item /\ g[k] \in Item /\ DOMAIN g = 1 .. N
  BY DEF Arrays
<1>2. x \in Arrays(N)
  BY <1>1 DEF Arrays, Exchange
<1>3. \A j \in 1 .. N : x[j] = IF j = i THEN g[k] ELSE IF j = k THEN g[i] ELSE g[j]
  BY <1>1 DEF Arrays, Exchange
<1>4. DOMAIN x = 1 .. N
  BY <1>2 DEF Arrays
<1> HIDE DEF x
<1> DEFINE other(j) == IF j = i THEN k ELSE IF j = k THEN i ELSE j
<1>5. \A j \in 1 .. N : other(j) \in 1 .. N /\ x[j] = g[other(j)] /\ g[j] = x[other(j)]
  BY <1>3
<1>6. \A j, l \in 1 .. N : other(j) = other(l) => j = l
  OBVIOUS
<1> HIDE DEF other
<1>7. ToSet(x) = ToSet(g)
  <2>1. \A j \in 1 .. N : x[j] \in ToSet(g)
    BY <1>1, <1>5 DEF ToSet
  <2>2. \A j \in 1 .. N : g[j] \in ToSet(x)
    BY <1>4, <1>5 DEF ToSet
  <2>3. ToSet(x) \subseteq ToSet(g)
    BY <1>4, <2>1 DEF ToSet
  <2>4. ToSet(g) \subseteq ToSet(x)
    BY <1>1, <2>2 DEF ToSet
  <2> QED
    BY <2>3, <2>4
<1>8. ASSUME SeqsDiffer(g) PROVE SeqsDiffer(x)
  <2> SUFFICES ASSUME NEW j \in 1 .. N, NEW l \in 1 .. N, x[j].seq = x[l].seq
               PROVE  j = l
    BY <1>4 DEF SeqsDiffer
  <2>1. g[other(j)].seq = g[other(l)].seq /\ other(j) \in DOMAIN g /\ other(l) \in DOMAIN g
    BY <1>1, <1>5
  <2>2. other(j) = other(l)
    BY <1>8, <2>1 DEF SeqsDiffer
  <2> QED
    BY <1>6, <2>2
<1> QED
  BY <1>2, <1>3, <1>7, <1>8 DEF x

LEMMA Halves ==
    ASSUME NEW N \in Nat, NEW k \in 2 .. N
    PROVE  k \div 2 \in 1 .. N /\ k \div 2 < k /\ (k = 2 * (k \div 2) \/ k = 2 * (k \div 2) + 1)
OBVIOUS

(* On its way up an item may only be out of place with its parent, and its  *)
(* parent is in place with its children.                                    *)
Climbing(st, N) ==
    /\ \A k \in 2 .. N : k # st.at => Ordered(st.heap[k \div 2], st.heap[k])
    /\ \A k \in 2 .. N : k \div 2 = st.at /\ st.at > 1 =>
          Ordered(st.heap[st.at \div 2], st.heap[k])

Climbs(X, N) == {st \in HeapStates(X, N) : Climbing(st, N)}

LEMMA UpClimbs ==
    ASSUME NEW X, NEW N \in Nat, NEW st \in Climbs(X, N)
    PROVE  /\ Up[st] \in Climbs(X, N)
           /\ \/ Up[st] = st /\ HeapOrdered(st.heap, N)
              \/ Up[st].at < st.at
<1> DEFINE g == st.heap
           i == st.at
           p == i \div 2
<1>1. /\ st = [heap |-> g, at |-> i] /\ g \in Arrays(N) /\ i \in 1 .. N
      /\ ToSet(g) = X /\ SeqsDiffer(g)
      /\ \A k \in 2 .. N : k # i => Ordered(g[k \div 2], g[k])
      /\ \A k \in 2 .. N : k \div 2 = i /\ i > 1 => Ordered(g[p], g[k])
  BY DEF Climbs, Climbing, HeapStates
<1>2. \A k \in 1 .. N : g[k] \in Item
  BY <1>1 DEF Arrays
<1>3. CASE i > 1 /\ Compare(g[i], g[p]) < 0
  <2> DEFINE x == Exchange(g, i, p)
  <2>1. Up[st] = [heap |-> x, at |-> p]
    BY <1>3, HeapStatesOfLoops DEF Climbs
  <2>2. i \in 2 .. N /\ p \in 1 .. N /\ p < i /\ i \in Nat /\ p \in Nat
    <3>1. i \in 2 .. N
      BY <1>1, <1>3
    <3> HIDE DEF i
    <3> QED
      BY <3>1, Halves
  <2>3. /\ x \in Arrays(N) /\ ToSet(x) = X /\ SeqsDiffer(x)
        /\ \A j \in 1 .. N : x[j] = IF j = i THEN g[p] ELSE IF j = p THEN g[i] ELSE g[j]
    BY <1>1, <2>2, Exchanging
  <2> HIDE DEF x, g, i
  <2>4. Ordered(g[i], g[p])
    BY <1>2, <1>3, <2>2, CompareOrders
  <2>5. ASSUME NEW k \in 2 .. N, k # p
        PROVE  Ordered(x[k \div 2], x[k])
    <3>1. k \div 2 \in 1 .. N /\ k \div 2 < k /\ k \in 1 .. N /\ k \div 2 \in Nat
      BY Halves
    <3>2. CASE k = i
      BY <2>2, <2>3, <2>4, <3>1, <3>2
    <3>3. CASE k # i /\ k \div 2 = i
      <4>1. x[k] = g[k] /\ x[k \div 2] = g[p]
        BY <2>3, <2>5, <3>1, <3>3
      <4> QED
        BY <1>1, <1>3, <3>3, <4>1
    <3>4. CASE k # i /\ k \div 2 = p
      <4>1. x[k] = g[k] /\ x[k \div 2] = g[i]
        BY <2>2, <2>3, <2>5, <3>1, <3>4
      <4>2. Ordered(g[p], g[k])
        BY <1>1, <3>4
      <4>3. g[i] \in Item /\ g[p] \in Item /\ g[k] \in Item
        BY <1>2, <2>2, <3>1
      <4> QED
        BY <2>4, <4>1, <4>2, <4>3, CompareOrders
    <3>5. CASE k # i /\ k \div 2 # i /\ k \div 2 # p
      <4>1. x[k] = g[k] /\ x[k \div 2] = g[k \div 2]
        BY <2>3, <2>5, <3>1, <3>5
      <4> QED
        BY <1>1, <3>5, <4>1
    <3> QED
      BY <3>2, <3>3, <3>4, <3>5
  <2>6. ASSUME NEW k \in 2 .. N, k \div 2 = p, p > 1
        PROVE  Ordered(x[p \div 2], x[k])
    <3>1. p \in 2 .. N
      BY <2>2, <2>6
    <3> HIDE DEF p
    <3>2. p \div 2 \in 1 .. N /\ p \div 2 < p /\ k \in 1 .. N /\ k # p /\ p \div 2 \in Nat
      BY <2>6, <3>1, Halves
    <3>3. x[p \div 2] = g[p \div 2]
      BY <2>2, <2>3, <3>2
    <3>4. Ordered(g[p \div 2], g[p])
      BY <1>1, <2>2, <3>1
    <3>5. CASE k = i
      BY <2>2, <2>3, <3>3, <3>4, <3>5
    <3>6. CASE k # i
      <4>1. x[k] = g[k] /\ Ordered(g[p], g[k])
        BY <1>1, <2>3, <2>6, <3>2, <3>6
      <4>2. g[p \div 2] \in Item /\ g[p] \in Item /\ g[k] \in Item
        BY <1>2, <2>2, <3>2
      <4> QED
        BY <3>3, <3>4, <4>1, <4>2, CompareOrders
    <3> QED
      BY <3>5, <3>6
  <2>7. Climbing([heap |-> x, at |-> p], N)
    BY <2>5, <2>6 DEF Climbing
  <2>8. [heap |-> x, at |-> p] \in Climbs(X, N)
    BY <2>2, <2>3, <2>7 DEF Climbs, HeapStates
  <2> QED
    BY <2>1, <2>2, <2>8 DEF i
<1>4. CASE ~(i > 1 /\ Compare(g[i], g[p]) < 0)
  <2>1. Up[st] = st
    BY <1>4, HeapStatesOfLoops DEF Climbs
  <2>2. \A k \in 2 .. N : Ordered(g[k \div 2], g[k])
    <3> SUFFICES ASSUME NEW k \in 2 .. N PROVE Ordered(g[k \div 2], g[k])
      OBVIOUS
    <3>1. CASE k = i
      <4>1. i > 1
        BY <3>1
      <4> QED
        BY <1>4, <3>1, <4>1 DEF Ordered
    <3> QED
      BY <1>1, <3>1
  <2> QED
    BY <2>1, <2>2 DEF HeapOrdered
<1> QED
  BY <1>3, <1>4

(* What a heap of the items X is, as an array.                              *)
Heaps(X, N) == {g \in Arrays(N) : ToSet(g) = X /\ SeqsDiffer(g) /\ HeapOrdered(g, N)}

LEMMA SiftUpOrders ==
    ASSUME NEW X, NEW N \in Nat, NEW h, NEW i \in 1 .. N, [heap |-> h, at |-> i] \in Climbs(X, N)
    PROVE  SiftUp(h, i) \in Heaps(X, N)
<1> DEFINE s == [heap |-> h, at |-> i]
           Turn == [st \in Climbs(X, N) |-> Up[st]]
<1>1. Turn \in [Climbs(X, N) -> Climbs(X, N)] /\ s \in Climbs(X, N) /\ i \in Nat
  BY UpClimbs
<1>u. \A st \in Climbs(X, N) : Turn[st] = Up[st]
  OBVIOUS
<1>2. \E f : f = [n \in 0 .. i |-> IF n = 0 THEN s ELSE Up[f[n - 1]]]
  <2> DEFINE C == Climbs(X, N)
  <2>0. Turn \in [C -> C] /\ s \in C /\ \A st \in C : Turn[st] = Up[st]
    BY <1>1, <1>u
  <2> HIDE DEF s, Turn, C
  <2>a. PICK f : f \in RunsOf(C, Turn, s, i)
    BY <1>1, <2>0, RunExists
  <2>1. f \in [0 .. i -> C] /\ f[0] = s /\ \A n \in 1 .. i : f[n] = Turn[f[n - 1]]
    BY <2>a DEF RunsOf
  <2>2. \A n \in 0 .. i : n # 0 => n \in 1 .. i /\ n - 1 \in 0 .. i
    BY <1>1
  <2>3. ASSUME NEW n \in 0 .. i PROVE f[n] = IF n = 0 THEN s ELSE Up[f[n - 1]]
    <3>1. CASE n = 0
      BY <2>1, <3>1
    <3>2. CASE n # 0
      <4>1. f[n] = Turn[f[n - 1]] /\ f[n - 1] \in C
        BY <2>1, <2>2, <3>2
      <4> QED
        BY <2>0, <3>2, <4>1
    <3> QED
      BY <3>1, <3>2
  <2>4. f = [n \in 0 .. i |-> f[n]]
    BY <2>1
  <2>5. f = [n \in 0 .. i |-> IF n = 0 THEN s ELSE Up[f[n - 1]]]
    BY <2>3, <2>4
  <2> QED
    BY <2>5
<1>3. PICK turn : /\ turn = [n \in 0 .. i |-> IF n = 0 THEN s ELSE Up[turn[n - 1]]]
                  /\ SiftUp(h, i) = turn[i].heap
  BY <1>2 DEF SiftUp
<1> HIDE DEF s
<1>4. /\ \A n \in 0 .. i : turn[n] = IF n = 0 THEN s ELSE Up[turn[n - 1]]
  BY <1>3
<1> DEFINE Settled(st) == Up[st] = st /\ HeapOrdered(st.heap, N)
           T == {n \in Nat : n <= i => /\ turn[n] \in Climbs(X, N)
                                       /\ Settled(turn[n]) \/ turn[n].at <= i - n}
<1>5. 0 \in T
  BY <1>1, <1>4 DEF s
<1>6. ASSUME NEW n \in T PROVE n + 1 \in T
  <2> SUFFICES ASSUME n + 1 <= i
               PROVE  /\ turn[n + 1] \in Climbs(X, N)
                      /\ Settled(turn[n + 1]) \/ turn[n + 1].at <= i - (n + 1)
    OBVIOUS
  <2>1. /\ n \in Nat /\ turn[n] \in Climbs(X, N)
        /\ Settled(turn[n]) \/ turn[n].at <= i - n
    BY <1>1, <1>6
  <2>2. turn[n + 1] = Up[turn[n]]
    <3>1. n + 1 \in 0 .. i /\ n + 1 # 0 /\ n + 1 - 1 = n
      BY <1>1, <2>1
    <3> QED
      BY <1>4, <3>1
  <2>3. /\ Up[turn[n]] \in Climbs(X, N)
        /\ Settled(turn[n]) \/ Up[turn[n]].at < turn[n].at
    BY <2>1, UpClimbs
  <2>4. CASE Settled(turn[n])
    BY <2>2, <2>3, <2>4
  <2>5. CASE ~Settled(turn[n])
    <3>1. Up[turn[n]].at \in Nat /\ turn[n].at \in Nat
      BY <2>1, <2>3 DEF Climbs, HeapStates
    <3>2. turn[n].at <= i - n /\ Up[turn[n]].at < turn[n].at
      BY <2>1, <2>3, <2>5
    <3>3. Up[turn[n]].at <= i - (n + 1)
      BY <1>1, <2>1, <3>1, <3>2
    <3> QED
      BY <2>2, <2>3, <3>3
  <2> QED
    BY <2>4, <2>5
<1>7. i \in T
  <2> HIDE DEF T
  <2>1. T \in SUBSET Nat
    BY DEF T
  <2> QED
    BY <1>1, <1>5, <1>6, <2>1, AllNaturals
<1>8. turn[i] \in Climbs(X, N) /\ HeapOrdered(turn[i].heap, N)
  <2>1. turn[i] \in Climbs(X, N) /\ (Settled(turn[i]) \/ turn[i].at <= i - i)
    BY <1>1, <1>7
  <2>2. turn[i].at \in Nat /\ turn[i].at > 0 /\ i - i = 0
    BY <1>1, <2>1 DEF Climbs, HeapStates
  <2> QED
    BY <1>1, <2>1, <2>2
<1> QED
  BY <1>3, <1>8 DEF Climbs, HeapStates, Heaps

(* The child that is exchanged comes before its parent and its sibling.     *)
LEMMA SmallestIs ==
    ASSUME NEW N \in Nat, NEW g \in Arrays(N), NEW i \in 1 .. N
    PROVE  /\ Smallest(g, i) \in 1 .. N
           /\ Smallest(g, i) # i =>
                 /\ Smallest(g, i) \div 2 = i /\ Smallest(g, i) > i
                 /\ Ordered(g[Smallest(g, i)], g[i])
           /\ \A k \in 2 .. N : k \div 2 = i => Ordered(g[Smallest(g, i)], g[k])
<1> DEFINE l == 2 * i
           r == 2 * i + 1
           m == IF l <= N /\ Compare(g[l], g[i]) < 0 THEN l ELSE i
           n == IF r <= N /\ Compare(g[r], g[m]) < 0 THEN r ELSE m
<1>1. Len(g) = N
  BY DEF Arrays
<1>2. Smallest(g, i) = n
  BY <1>1 DEF Smallest
<1>3. /\ i \in Nat /\ l \in Nat /\ r \in Nat /\ l > i /\ r > i /\ l \div 2 = i /\ r \div 2 = i
      /\ \A k \in 2 .. N : k \div 2 = i => k = l \/ k = r
      /\ i \in 1 .. N /\ i <= N /\ (l <= N => l \in 1 .. N) /\ (r <= N => r \in 1 .. N)
  OBVIOUS
<1>4. \A k \in 1 .. N : g[k] \in Item
  BY DEF Arrays
<1> HIDE DEF l, r
<1>5. \A a, b \in 1 .. N : /\ Compare(g[a], g[b]) < 0 => Ordered(g[a], g[b])
                           /\ ~(Compare(g[a], g[b]) < 0) => Ordered(g[b], g[a])
                           /\ \A c \in 1 .. N :
                                 Ordered(g[a], g[b]) /\ Ordered(g[b], g[c]) => Ordered(g[a], g[c])
  BY <1>4, CompareOrders DEF Ordered
<1>6. \A a \in 1 .. N : Ordered(g[a], g[a])
  BY <1>5
<1>7. /\ m \in 1 .. N /\ Ordered(g[m], g[i]) /\ m \in {i, l}
      /\ l <= N => Ordered(g[m], g[l])
  BY <1>3, <1>5, <1>6
<1> HIDE DEF m
<1>8. /\ n \in 1 .. N /\ Ordered(g[n], g[m]) /\ n \in {m, r}
      /\ r <= N => Ordered(g[n], g[r])
  BY <1>3, <1>5, <1>6, <1>7
<1> HIDE DEF n
<1>9. Ordered(g[n], g[i])
  BY <1>3, <1>5, <1>7, <1>8
<1>10. ASSUME NEW k \in 2 .. N, k \div 2 = i
       PROVE  Ordered(g[n], g[k])
  <2>1. CASE k = l
    <3>1. l <= N /\ l \in 1 .. N
      BY <1>3, <2>1
    <3> QED
      BY <1>5, <1>7, <1>8, <2>1, <3>1
  <2>2. CASE k = r
    BY <1>8, <2>2
  <2> QED
    BY <1>3, <1>10, <2>1, <2>2
<1> QED
  BY <1>2, <1>3, <1>7, <1>8, <1>9, <1>10

(* On its way down an item may only be out of place with its children, and  *)
(* they are in place with its parent.                                       *)
Sinking(st, N) ==
    /\ \A k \in 2 .. N : k \div 2 # st.at => Ordered(st.heap[k \div 2], st.heap[k])
    /\ \A k \in 2 .. N : k \div 2 = st.at /\ st.at > 1 =>
          Ordered(st.heap[st.at \div 2], st.heap[k])

Sinks(X, N) == {st \in HeapStates(X, N) : Sinking(st, N)}

LEMMA DownSinks ==
    ASSUME NEW X, NEW N \in Nat, NEW st \in Sinks(X, N)
    PROVE  /\ Down[st] \in Sinks(X, N)
           /\ \/ Down[st] = st /\ HeapOrdered(st.heap, N)
              \/ Down[st].at > st.at
<1> DEFINE g == st.heap
           i == st.at
           m == Smallest(g, i)
<1>1. /\ st = [heap |-> g, at |-> i] /\ g \in Arrays(N) /\ i \in 1 .. N
      /\ ToSet(g) = X /\ SeqsDiffer(g)
      /\ \A k \in 2 .. N : k \div 2 # i => Ordered(g[k \div 2], g[k])
      /\ \A k \in 2 .. N : k \div 2 = i /\ i > 1 => Ordered(g[i \div 2], g[k])
  BY DEF Sinks, Sinking, HeapStates
<1>2. \A k \in 1 .. N : g[k] \in Item
  BY <1>1 DEF Arrays
<1>3. /\ m \in 1 .. N
      /\ m # i => m \div 2 = i /\ m > i /\ Ordered(g[m], g[i])
      /\ \A k \in 2 .. N : k \div 2 = i => Ordered(g[m], g[k])
  BY <1>1, SmallestIs
<1>4. CASE m # i
  <2> DEFINE x == Exchange(g, i, m)
  <2>1. Down[st] = [heap |-> x, at |-> m]
    BY <1>4, HeapStatesOfLoops DEF Sinks
  <2> HIDE DEF m
  <2>2. m \in 2 .. N /\ m \div 2 = i /\ m > i /\ i \in Nat /\ m \in Nat /\ Ordered(g[m], g[i])
    BY <1>1, <1>3, <1>4
  <2>3. /\ x \in Arrays(N) /\ ToSet(x) = X /\ SeqsDiffer(x)
        /\ \A j \in 1 .. N : x[j] = IF j = i THEN g[m] ELSE IF j = m THEN g[i] ELSE g[j]
    BY <1>1, <1>3, Exchanging
  <2> HIDE DEF x, g, i
  <2>4. ASSUME NEW k \in 2 .. N, k \div 2 # m
        PROVE  Ordered(x[k \div 2], x[k])
    <3>1. k \div 2 \in 1 .. N /\ k \div 2 < k /\ k \in 1 .. N /\ k \div 2 \in Nat
      BY Halves
    <3>2. CASE k \div 2 = i
      <4>1. x[k \div 2] = g[m]
        BY <1>1, <2>3, <3>2
      <4>2. CASE k = m
        BY <2>2, <2>3, <3>1, <4>1, <4>2
      <4>3. CASE k # m
        <5>1. x[k] = g[k]
          BY <2>3, <3>1, <3>2, <4>3
        <5> QED
          BY <1>3, <3>2, <4>1, <5>1
      <4> QED
        BY <4>2, <4>3
    <3>3. CASE k = i
      <4>1. i > 1 /\ x[k] = g[m]
        BY <2>3, <3>1, <3>3
      <4>2. x[k \div 2] = g[k \div 2]
        BY <2>3, <2>4, <3>1, <3>3
      <4>3. Ordered(g[i \div 2], g[m])
        BY <1>1, <2>2, <4>1
      <4> QED
        BY <3>3, <4>1, <4>2, <4>3
    <3>4. CASE k # i /\ k \div 2 # i
      <4>1. k # m
        BY <2>2, <3>4
      <4>2. x[k] = g[k] /\ x[k \div 2] = g[k \div 2]
        BY <2>3, <2>4, <3>1, <3>4, <4>1
      <4> QED
        BY <1>1, <3>4, <4>2
    <3> QED
      BY <3>2, <3>3, <3>4
  <2>5. ASSUME NEW k \in 2 .. N, k \div 2 = m
        PROVE  Ordered(x[m \div 2], x[k])
    <3>1. k \in 1 .. N /\ k # m /\ k # i /\ m # i
      <4>1. k \div 2 < k /\ k \in 1 .. N
        BY Halves
      <4> QED
        BY <2>2, <2>5, <4>1
    <3>2. x[m \div 2] = g[m] /\ x[k] = g[k]
      BY <1>1, <2>2, <2>3, <3>1
    <3>3. Ordered(g[k \div 2], g[k])
      BY <1>1, <2>5, <3>1
    <3> QED
      BY <2>5, <3>2, <3>3
  <2>6. Sinking([heap |-> x, at |-> m], N)
    BY <2>4, <2>5 DEF Sinking
  <2>7. [heap |-> x, at |-> m] \in Sinks(X, N)
    BY <1>3, <2>3, <2>6 DEF Sinks, HeapStates
  <2> QED
    BY <2>1, <2>2, <2>7 DEF i
<1>5. CASE m = i
  <2>1. Down[st] = st
    BY <1>5, HeapStatesOfLoops DEF Sinks
  <2>2. \A k \in 2 .. N : Ordered(g[k \div 2], g[k])
    BY <1>1, <1>3, <1>5
  <2> QED
    BY <2>1, <2>2 DEF HeapOrdered
<1> QED
  BY <1>4, <1>5

LEMMA SiftDownOrders ==
    ASSUME NEW X, NEW N \in Nat, NEW h \in Arrays(N), NEW i \in 1 .. N,
           [heap |-> h, at |-> i] \in Sinks(X, N)
    PROVE  SiftDown(h, i) \in Heaps(X, N)
<1> DEFINE s == [heap |-> h, at |-> i]
           Turn == [st \in Sinks(X, N) |-> Down[st]]
<1>1. Turn \in [Sinks(X, N) -> Sinks(X, N)] /\ s \in Sinks(X, N) /\ i \in Nat
  BY DownSinks
<1>u. \A st \in Sinks(X, N) : Turn[st] = Down[st]
  OBVIOUS
<1>l. Len(h) = N
  BY DEF Arrays
<1>2. \E f : f = [n \in 0 .. N |-> IF n = 0 THEN s ELSE Down[f[n - 1]]]
  <2> DEFINE C == Sinks(X, N)
  <2>0. Turn \in [C -> C] /\ s \in C /\ \A st \in C : Turn[st] = Down[st]
    BY <1>1, <1>u
  <2> HIDE DEF s, Turn, C
  <2>a. PICK f : f \in RunsOf(C, Turn, s, N)
    BY <1>1, <2>0, RunExists
  <2>1. f \in [0 .. N -> C] /\ f[0] = s /\ \A n \in 1 .. N : f[n] = Turn[f[n - 1]]
    BY <2>a DEF RunsOf
  <2>2. \A n \in 0 .. N : n # 0 => n \in 1 .. N /\ n - 1 \in 0 .. N
    OBVIOUS
  <2>3. ASSUME NEW n \in 0 .. N PROVE f[n] = IF n = 0 THEN s ELSE Down[f[n - 1]]
    <3>1. CASE n = 0
      BY <2>1, <3>1
    <3>2. CASE n # 0
      <4>1. f[n] = Turn[f[n - 1]] /\ f[n - 1] \in C
        BY <2>1, <2>2, <3>2
      <4> QED
        BY <2>0, <3>2, <4>1
    <3> QED
      BY <3>1, <3>2
  <2>4. f = [n \in 0 .. N |-> f[n]]
    BY <2>1
  <2>5. f = [n \in 0 .. N |-> IF n = 0 THEN s ELSE Down[f[n - 1]]]
    BY <2>3, <2>4
  <2> QED
    BY <2>5
<1>3. PICK turn : /\ turn = [n \in 0 .. N |-> IF n = 0 THEN s ELSE Down[turn[n - 1]]]
                  /\ SiftDown(h, i) = turn[N].heap
  BY <1>2, <1>l DEF SiftDown
<1> HIDE DEF s
<1>4. /\ \A n \in 0 .. N : turn[n] = IF n = 0 THEN s ELSE Down[turn[n - 1]]
  BY <1>3
<1> DEFINE Settled(st) == Down[st] = st /\ HeapOrdered(st.heap, N)
           T == {n \in Nat : n <= N => /\ turn[n] \in Sinks(X, N)
                                       /\ Settled(turn[n]) \/ turn[n].at > n}
<1>5. 0 \in T
  BY <1>1, <1>4 DEF s
<1>6. ASSUME NEW n \in T PROVE n + 1 \in T
  <2> SUFFICES ASSUME n + 1 <= N
               PROVE  /\ turn[n + 1] \in Sinks(X, N)
                      /\ Settled(turn[n + 1]) \/ turn[n + 1].at > n + 1
    OBVIOUS
  <2>1. /\ n \in Nat /\ turn[n] \in Sinks(X, N)
        /\ Settled(turn[n]) \/ turn[n].at > n
    BY <1>6
  <2>2. turn[n + 1] = Down[turn[n]]
    <3>1. n + 1 \in 0 .. N /\ n + 1 # 0 /\ n + 1 - 1 = n
      BY <2>1
    <3> QED
      BY <1>4, <3>1
  <2>3. /\ Down[turn[n]] \in Sinks(X, N)
        /\ Settled(turn[n]) \/ Down[turn[n]].at > turn[n].at
    BY <2>1, DownSinks
  <2>4. CASE Settled(turn[n])
    BY <2>2, <2>3, <2>4
  <2>5. CASE ~Settled(turn[n])
    <3>1. Down[turn[n]].at \in Nat /\ turn[n].at \in Nat
      BY <2>1, <2>3 DEF Sinks, HeapStates
    <3>2. turn[n].at > n /\ Down[turn[n]].at > turn[n].at
      BY <2>1, <2>3, <2>5
    <3>3. Down[turn[n]].at > n + 1
      BY <2>1, <3>1, <3>2
    <3> QED
      BY <2>2, <2>3, <3>3
  <2> QED
    BY <2>4, <2>5
<1>7. N \in T
  <2> HIDE DEF T
  <2>1. T \in SUBSET Nat
    BY DEF T
  <2> QED
    BY <1>5, <1>6, <2>1, AllNaturals
<1>8. turn[N] \in Sinks(X, N) /\ HeapOrdered(turn[N].heap, N)
  <2>1. turn[N] \in Sinks(X, N) /\ (Settled(turn[N]) \/ turn[N].at > N)
    BY <1>7
  <2>2. turn[N].at \in Nat /\ turn[N].at <= N
    BY <2>1 DEF Sinks, HeapStates
  <2> QED
    BY <2>1, <2>2
<1> QED
  BY <1>3, <1>8 DEF Sinks, HeapStates, Heaps

-----------------------------------------------------------------------------
(* What the heap gives the queue: insertion adds the item, and what is      *)
(* taken out precedes all that is left.                                     *)
IsHeap(h) == h \in Seq(Item) /\ SeqsDiffer(h) /\ HeapOrdered(h, Len(h))

LEMMA HeapsAreHeaps ==
    ASSUME NEW X, NEW N \in Nat, NEW g \in Heaps(X, N)
    PROVE  IsHeap(g) /\ ToSet(g) = X
<1>1. g \in [1 .. N -> Item] /\ ToSet(g) = X /\ SeqsDiffer(g) /\ HeapOrdered(g, N)
  BY DEF Heaps, Arrays
<1>2. g \in Seq(Item) /\ Len(g) = N
  BY <1>1
<1> QED
  BY <1>1, <1>2 DEF IsHeap

LEMMA InsertKeepsHeap ==
    ASSUME NEW h, IsHeap(h), NEW item \in Item, \A e \in ToSet(h) : e.seq # item.seq
    PROVE  IsHeap(Insert(h, item)) /\ ToSet(Insert(h, item)) = ToSet(h) \cup {item}
<1> DEFINE g == Append(h, item)
           N == Len(h) + 1
           X == ToSet(h) \cup {item}
<1>1. h \in Seq(Item) /\ SeqsDiffer(h) /\ HeapOrdered(h, Len(h)) /\ Len(h) \in Nat
  BY DEF IsHeap
<1>2. g \in Seq(Item) /\ ToSet(g) = X
  BY <1>1, AppendingOne
<1>3. /\ DOMAIN g = 1 .. N /\ g[N] = item /\ DOMAIN h = 1 .. Len(h)
      /\ \A k \in 1 .. Len(h) : g[k] = h[k]
      /\ N \in 1 .. N /\ N \in Nat /\ \A k \in 1 .. N : k # N => k \in 1 .. Len(h)
  <2>1. /\ Len(Append(h, item)) = Len(h) + 1 /\ Append(h, item)[Len(h) + 1] = item
        /\ \A k \in 1 .. Len(h) : Append(h, item)[k] = h[k]
    BY <1>1
  <2>2. DOMAIN h = 1 .. Len(h)
    BY <1>1
  <2>3. DOMAIN g = 1 .. Len(g)
    BY <1>2
  <2>4. N \in 1 .. N /\ N \in Nat /\ \A k \in 1 .. N : k # N => k \in 1 .. Len(h)
    BY <1>1
  <2>5. DOMAIN g = 1 .. N /\ g[N] = item /\ \A k \in 1 .. Len(h) : g[k] = h[k]
    BY <2>1, <2>3
  <2> HIDE DEF g, N
  <2> QED
    BY <2>2, <2>4, <2>5
<1>4. g \in Arrays(N)
  <2> HIDE DEF g, N
  <2>1. \A k \in DOMAIN g : g[k] \in Item
    BY <1>2
  <2>2. g = [k \in DOMAIN g |-> g[k]]
    BY <1>2
  <2> QED
    BY <1>3, <2>1, <2>2 DEF Arrays
<1> HIDE DEF g, X
<1>5. SeqsDiffer(g)
  <2> SUFFICES ASSUME NEW i \in 1 .. N, NEW k \in 1 .. N, g[i].seq = g[k].seq PROVE i = k
    BY <1>3 DEF SeqsDiffer
  <2> HIDE DEF N
  <2>1. \A j \in 1 .. N : j # N => j \in DOMAIN h /\ g[j] = h[j] /\ h[j] \in ToSet(h)
    BY <1>3 DEF ToSet
  <2>2. CASE i = N \/ k = N
    BY <1>3, <2>1, <2>2
  <2>3. CASE i # N /\ k # N
    BY <1>1, <2>1, <2>3 DEF SeqsDiffer
  <2> QED
    BY <2>2, <2>3
<1>6. Climbing([heap |-> g, at |-> N], N)
  <2>1. ASSUME NEW k \in 2 .. N, k # N PROVE Ordered(g[k \div 2], g[k])
    <3>1. k \in 2 .. Len(h)
      BY <1>1, <2>1
    <3>2. k \div 2 \in 1 .. Len(h) /\ k \in 1 .. Len(h)
      BY <1>1, <3>1, Halves
    <3> QED
      BY <1>1, <1>3, <3>1, <3>2 DEF HeapOrdered
  <2>2. ASSUME NEW k \in 2 .. N, k \div 2 = N PROVE FALSE
    <3>1. k \div 2 < k /\ k <= N /\ k \in Nat /\ N \in Nat
      BY <1>1
    <3> QED
      BY <2>2, <3>1
  <2> QED
    BY <2>1, <2>2 DEF Climbing
<1>7. [heap |-> g, at |-> N] \in Climbs(X, N)
  BY <1>2, <1>3, <1>4, <1>5, <1>6 DEF Climbs, HeapStates
<1>8. SiftUp(g, N) \in Heaps(X, N)
  <2> HIDE DEF N
  <2> QED
    BY <1>3, <1>7, SiftUpOrders
<1>9. Insert(h, item) = SiftUp(g, N)
  BY DEF Insert, g
<1>10. IsHeap(SiftUp(g, N)) /\ ToSet(SiftUp(g, N)) = X
  <2> HIDE DEF N
  <2> QED
    BY <1>3, <1>8, HeapsAreHeaps
<1> QED
  BY <1>9, <1>10 DEF X

LEMMA RootIsFirst ==
    ASSUME NEW h, IsHeap(h), NEW k \in 1 .. Len(h)
    PROVE  Ordered(h[1], h[k])
<1> DEFINE Bad == {j \in 1 .. Len(h) : ~Ordered(h[1], h[j])}
<1>1. /\ h \in Seq(Item) /\ HeapOrdered(h, Len(h)) /\ Len(h) \in Nat
      /\ \A j \in 1 .. Len(h) : h[j] \in Item
  BY DEF IsHeap
<1>2. SUFFICES ASSUME Bad # {} PROVE FALSE
  OBVIOUS
<1>3. Bad \in SUBSET Nat
  BY <1>1
<1>4. PICK j \in Bad : \A l \in Bad : j <= l
  BY <1>2, <1>3, LeastOfNaturals
<1>5. 1 \in 1 .. Len(h) /\ h[1] \in Item /\ Ordered(h[1], h[1])
  <2>1. 1 \in 1 .. Len(h)
    BY <1>1
  <2>2. h[1] \in Item
    BY <1>1, <2>1
  <2> QED
    BY <2>1, <2>2, CompareOrders DEF Ordered
<1>6. j \in 2 .. Len(h)
  BY <1>1, <1>4, <1>5
<1>7. j \div 2 \in 1 .. Len(h) /\ j \div 2 < j /\ j \div 2 \in Nat /\ j \in Nat
  BY <1>1, <1>6, Halves
<1>8. Ordered(h[1], h[j \div 2])
  BY <1>4, <1>7
<1>9. Ordered(h[j \div 2], h[j])
  BY <1>1, <1>6 DEF HeapOrdered
<1>10. Ordered(h[1], h[j])
  <2>1. h[j \div 2] \in Item /\ h[j] \in Item
    BY <1>1, <1>4, <1>7
  <2> QED
    BY <1>5, <1>8, <1>9, <2>1, CompareOrders
<1> QED
  BY <1>4, <1>10

LEMMA WithoutMinKeepsHeap ==
    ASSUME NEW h, IsHeap(h), h # <<>>
    PROVE  /\ IsHeap(WithoutMin(h)) /\ ToSet(WithoutMin(h)) = ToSet(h) \ {h[1]}
           /\ h[1] \in ToSet(h)
           /\ \A e \in ToSet(h) \ {h[1]} : Abstract!Precedes(h[1], e)
<1> DEFINE L == Len(h)
<1>1. /\ h \in Seq(Item) /\ SeqsDiffer(h) /\ HeapOrdered(h, L) /\ L \in Nat /\ L >= 1
      /\ DOMAIN h = 1 .. L /\ \A k \in 1 .. L : h[k] \in Item
  BY DEF IsHeap
<1>2. 1 \in 1 .. L /\ h[1] \in ToSet(h) /\ h[1] \in Item
  BY <1>1 DEF ToSet
<1>3. ASSUME NEW e \in ToSet(h) \ {h[1]} PROVE Abstract!Precedes(h[1], e)
  <2>1. PICK k \in 1 .. L : e = h[k]
    BY <1>1 DEF ToSet
  <2>2. k # 1 /\ h[k].seq # h[1].seq
    BY <1>1, <1>2, <1>3, <2>1 DEF SeqsDiffer
  <2>3. Ordered(h[1], h[k])
    BY RootIsFirst
  <2> QED
    BY <1>1, <1>2, <2>1, <2>2, <2>3, CompareOrders
<1>4. CASE L = 1
  <2>1. WithoutMin(h) = <<>>
    BY <1>4 DEF WithoutMin
  <2>2. ToSet(h) = {h[1]}
    BY <1>1, <1>4 DEF ToSet
  <2>3. IsHeap(<<>>) /\ ToSet(<<>>) = {}
    BY DEF IsHeap, SeqsDiffer, HeapOrdered, ToSet
  <2> QED
    BY <1>2, <1>3, <2>1, <2>2, <2>3
<1>5. CASE L # 1
  <2> DEFINE N == L - 1
             g == [Front(h) EXCEPT ![1] = Last(h)]
             X == ToSet(h) \ {h[1]}
  <2> HIDE DEF L, g, X
  <2>1. N \in Nat /\ N >= 1 /\ 1 \in 1 .. N /\ 1 .. N \subseteq 1 .. L /\ L \in 1 .. L /\ L \notin 1 .. N
        /\ \A k \in 1 .. L : k # L => k \in 1 .. N
    BY <1>1, <1>5
  <2> USE DEF g, X
  <2>2. /\ Front(h) \in Seq(Item) /\ DOMAIN Front(h) = 1 .. N
        /\ \A k \in 1 .. N : Front(h)[k] = h[k]
        /\ Last(h) = h[L]
    <3>1. /\ SubSeq(h, 1, N) \in Seq(Item) /\ DOMAIN SubSeq(h, 1, N) = 1 .. N
          /\ \A k \in 1 .. N : SubSeq(h, 1, N)[k] = h[k]
      <4> HIDE DEF N
      <4>1. \A k \in 1 .. N : h[k] \in Item
        BY <1>1, <2>1
      <4>2. N - 1 + 1 = N /\ N \in Int /\ \A k \in 1 .. N : 1 + k - 1 = k
        BY <2>1
      <4>3. SubSeq(h, 1, N) = [k \in 1 .. N |-> h[k]]
        BY <2>1, <4>2
      <4> QED
        BY <2>1, <4>1, <4>3
    <3> QED
      BY <3>1 DEF Front, Last, L
  <2>3. /\ DOMAIN g = 1 .. N /\ g[1] = h[L] /\ \A k \in 1 .. N : k # 1 => g[k] = h[k]
    BY <2>1, <2>2
  <2>4. g \in Arrays(N)
    <3>1. g = [k \in 1 .. N |-> g[k]]
      BY <2>2
    <3>2. \A k \in 1 .. N : g[k] \in Item
      BY <1>1, <2>1, <2>3
    <3> HIDE DEF g
    <3> QED
      BY <2>3, <3>1, <3>2 DEF Arrays
  <2>g. WithoutMin(h) = SiftDown(g, 1)
    BY <1>5 DEF WithoutMin, L
  <2> HIDE DEF g, N
  <2> DEFINE from(k) == IF k = 1 THEN L ELSE k
  <2>5. \A k \in 1 .. N : from(k) \in 1 .. L /\ from(k) # 1 /\ g[k] = h[from(k)]
    BY <1>5, <2>1, <2>3
  <2>6. \A i, k \in 1 .. N : from(i) = from(k) => i = k
    BY <2>1
  <2>7. SeqsDiffer(g)
    <3> SUFFICES ASSUME NEW i \in 1 .. N, NEW k \in 1 .. N, g[i].seq = g[k].seq PROVE i = k
      BY <2>3 DEF SeqsDiffer
    <3> HIDE DEF from
    <3>1. from(i) = from(k)
      BY <1>1, <2>5 DEF SeqsDiffer
    <3> QED
      BY <2>6, <3>1
  <2>8. ToSet(g) = X
    <3>1. ASSUME NEW k \in 1 .. N PROVE g[k] \in X
      <4>1. g[k] = h[from(k)] /\ from(k) \in DOMAIN h /\ from(k) # 1
        BY <1>1, <2>5
      <4> HIDE DEF from
      <4>2. h[from(k)] # h[1]
        BY <1>1, <1>2, <4>1 DEF SeqsDiffer
      <4> QED
        BY <4>1, <4>2 DEF ToSet
    <3>2. ASSUME NEW e \in X PROVE e \in ToSet(g)
      <4>1. PICK k \in 1 .. L : e = h[k] /\ k # 1
        BY <1>1 DEF ToSet
      <4>2. CASE k = L
        BY <2>1, <2>3, <4>1, <4>2 DEF ToSet
      <4>3. CASE k # L
        BY <2>1, <2>3, <4>1, <4>3 DEF ToSet
      <4> QED
        BY <4>2, <4>3
    <3> HIDE DEF X
    <3>3. ToSet(g) \subseteq X
      BY <2>3, <3>1 DEF ToSet
    <3> QED
      BY <3>2, <3>3
  <2>9. Sinking([heap |-> g, at |-> 1], N)
    <3>1. ASSUME NEW k \in 2 .. N, k \div 2 # 1 PROVE Ordered(g[k \div 2], g[k])
      <4>1. k \div 2 \in 1 .. N /\ k \in 1 .. N /\ k # 1
        BY <2>1, Halves
      <4>2. k \in 2 .. L
        BY <2>1
      <4>3. g[k \div 2] = h[k \div 2] /\ g[k] = h[k]
        BY <2>3, <3>1, <4>1
      <4> QED
        BY <1>1, <4>2, <4>3 DEF HeapOrdered
    <3> QED
      BY <3>1 DEF Sinking
  <2> HIDE DEF X
  <2>10. [heap |-> g, at |-> 1] \in Sinks(X, N)
    BY <2>1, <2>4, <2>7, <2>8, <2>9 DEF Sinks, HeapStates
  <2>11. SiftDown(g, 1) \in Heaps(X, N)
    BY <2>1, <2>4, <2>10, SiftDownOrders
  <2>12. IsHeap(SiftDown(g, 1)) /\ ToSet(SiftDown(g, 1)) = X
    BY <2>1, <2>11, HeapsAreHeaps
  <2> QED
    BY <1>2, <1>3, <2>g, <2>12 DEF X
<1> QED
  BY <1>4, <1>5

LEMMA EmptyHeaps ==
    ASSUME NEW h \in Seq(Item)
    PROVE  ToSet(h) = {} <=> h = <<>>
<1>1. Len(h) \in Nat /\ DOMAIN h = 1 .. Len(h) /\ (Len(h) = 0 <=> h = <<>>)
  OBVIOUS
<1>2. ToSet(h) = {h[k] : k \in 1 .. Len(h)}
  BY <1>1 DEF ToSet
<1>3. Len(h) # 0 => 1 \in 1 .. Len(h)
  BY <1>1
<1>4. Len(h) = 0 => \A k \in 1 .. Len(h) : FALSE
  BY <1>1
<1> QED
  BY <1>1, <1>2, <1>3, <1>4

-----------------------------------------------------------------------------
(* The heap is a heap of items numbered before, and is empty while no job   *)
(* is awaited.                                                              *)
NumberedBefore(h, n) == \A e \in ToSet(h) : e.seq < n

HeapInv ==
    /\ IsHeap(heap) /\ seq \in Nat /\ NumberedBefore(heap, seq)
    /\ current \in Jobs \cup {NoJob} /\ closed \in BOOLEAN
    /\ fate \in [Jobs -> {"new", "waiting", "running", "resolved", "rejected", "refused"}]
    /\ drain \in [Drainers -> {"idle", "waiting", "done"}]
    /\ current = NoJob => heap = <<>>

LEMMA HeapInitSound == Init => HeapInv /\ Abstract!QInit
<1> SUFFICES ASSUME Init PROVE HeapInv /\ Abstract!QInit
  OBVIOUS
<1>1. ToSet(<<>>) = {} /\ IsHeap(<<>>)
  BY DEF IsHeap, SeqsDiffer, HeapOrdered, ToSet
<1>2. HeapInv
  BY <1>1 DEF Init, HeapInv, NumberedBefore
<1> QED
  BY <1>1, <1>2 DEF Init, Abstract!QInit

LEMMA EnqueueImplements ==
    ASSUME HeapInv, NEW j \in Jobs, NEW priority \in Urgencies, Enqueue(j, priority)
    PROVE  /\ HeapInv'
           /\ Abstract!Refuse(j) \/ Abstract!Accept(j, priority)
<1> DEFINE item == [job |-> j, priority |-> priority, seq |-> seq]
           h == Insert(heap, item)
<1>1. /\ IsHeap(heap) /\ seq \in Nat /\ NumberedBefore(heap, seq) /\ item \in Item
      /\ item.job = j /\ item.seq = seq
  BY UrgenciesAreValues DEF HeapInv, Item
<1>2. CASE closed
  <2>1. UNCHANGED <<heap, seq, current, closed, drain>> /\ fate' = [fate EXCEPT ![j] = "refused"]
        /\ fate[j] = "new"
    BY <1>2 DEF Enqueue
  <2>2. HeapInv'
    BY <2>1 DEF HeapInv
  <2>3. Abstract!Refuse(j)
    BY <1>2, <2>1 DEF Abstract!Refuse
  <2> QED
    BY <2>2, <2>3
<1>3. IsHeap(h) /\ ToSet(h) = ToSet(heap) \cup {item} /\ NumberedBefore(h, seq + 1)
  <2>1. \A e \in ToSet(heap) : e \in Item /\ e.seq < seq
    BY <1>1 DEF NumberedBefore, IsHeap, ToSet
  <2>2. \A e \in ToSet(heap) : e.seq \in Nat /\ e.seq # seq /\ e.seq < seq + 1
    BY <1>1, <2>1 DEF Item
  <2> HIDE DEF item
  <2>3. IsHeap(h) /\ ToSet(h) = ToSet(heap) \cup {item}
    BY <1>1, <2>2, InsertKeepsHeap
  <2> HIDE DEF h
  <2>4. item.seq < seq + 1
    BY <1>1
  <2> QED
    BY <2>2, <2>3, <2>4 DEF NumberedBefore
<1>4. ASSUME ~closed
      PROVE  /\ seq' = seq + 1 /\ UNCHANGED <<closed, drain>> /\ fate[j] = "new"
             /\ current = NoJob => /\ current' = h[1].job /\ heap' = WithoutMin(h)
                                   /\ fate' = [fate EXCEPT ![h[1].job] = "running"]
             /\ current # NoJob => /\ heap' = h /\ current' = current
                                   /\ fate' = [fate EXCEPT ![j] = "waiting"]
  BY <1>4 DEF Enqueue
<1>5. CASE ~closed /\ current = NoJob
  <2> HIDE DEF h, item
  <2>1. heap = <<>> /\ ToSet(heap) = {}
    BY <1>1, <1>5, EmptyHeaps DEF HeapInv, IsHeap
  <2>2. ToSet(h) = {item} /\ h # <<>>
    BY <1>3, <2>1, EmptyHeaps DEF IsHeap
  <2>3. IsHeap(WithoutMin(h)) /\ ToSet(WithoutMin(h)) = ToSet(h) \ {h[1]} /\ h[1] \in ToSet(h)
    BY <1>3, <2>2, WithoutMinKeepsHeap
  <2>4. h[1] = item /\ ToSet(WithoutMin(h)) = {}
    BY <2>2, <2>3
  <2>5. WithoutMin(h) = <<>>
    BY <2>3, <2>4, EmptyHeaps DEF IsHeap
  <2>6. /\ seq' = seq + 1 /\ closed' = closed /\ drain' = drain /\ fate[j] = "new"
        /\ current' = j /\ heap' = heap /\ fate' = [fate EXCEPT ![j] = "running"]
    BY <1>1, <1>4, <1>5, <2>1, <2>4, <2>5
  <2>7. NumberedBefore(heap, seq')
    BY <2>1 DEF NumberedBefore
  <2>8. HeapInv'
    <3>1. j # NoJob
      BY NoJobIsNone
    <3> QED
      BY <2>1, <2>6, <2>7, <3>1 DEF HeapInv, NumberedBefore
  <2>9. Abstract!Accept(j, priority)
    BY <1>5, <2>6 DEF Abstract!Accept
  <2> QED
    BY <2>8, <2>9
<1>6. CASE ~closed /\ current # NoJob
  <2>1. /\ seq' = seq + 1 /\ closed' = closed /\ drain' = drain /\ fate[j] = "new"
        /\ current' = current /\ heap' = h /\ fate' = [fate EXCEPT ![j] = "waiting"]
    BY <1>4, <1>6
  <2>2. Abstract!Accept(j, priority)
    BY <1>3, <1>6, <2>1 DEF Abstract!Accept
  <2> HIDE DEF h, item
  <2>3. NumberedBefore(heap', seq') /\ IsHeap(heap') /\ seq' \in Nat
    BY <1>1, <1>3, <2>1
  <2>4. HeapInv'
    BY <1>6, <2>1, <2>3 DEF HeapInv, NumberedBefore, IsHeap, SeqsDiffer, HeapOrdered
  <2> QED
    BY <2>2, <2>4
<1> QED
  BY <1>2, <1>5, <1>6

LEMMA JobEndsImplements ==
    ASSUME HeapInv, NEW outcome \in {"resolved", "rejected"}, JobEnds(outcome)
    PROVE  HeapInv' /\ current \in Jobs /\ Abstract!Settle(current, outcome)
<1>1. /\ current # NoJob /\ current \in Jobs /\ UNCHANGED <<seq, closed>>
      /\ IsHeap(heap) /\ heap \in Seq(Item)
  BY DEF JobEnds, HeapInv, IsHeap
<1>2. CASE heap = <<>>
  <2>1. /\ current' = NoJob /\ fate' = [fate EXCEPT ![current] = outcome] /\ heap' = heap
        /\ drain' = [d \in Drainers |-> IF drain[d] = "waiting" THEN "done" ELSE drain[d]]
    BY <1>2 DEF JobEnds
  <2>2. HeapInv'
    BY <1>1, <1>2, <2>1 DEF HeapInv
  <2>3. ToSet(heap) = {}
    BY <1>1, <1>2, EmptyHeaps
  <2>4. Abstract!Settle(current, outcome)
    BY <1>1, <2>1, <2>3 DEF Abstract!Settle
  <2> QED
    BY <1>1, <2>2, <2>4
<1>3. CASE heap # <<>>
  <2>1. /\ current' = heap[1].job /\ heap' = WithoutMin(heap) /\ drain' = drain
        /\ fate' = [fate EXCEPT ![current] = outcome, ![heap[1].job] = "running"]
    BY <1>3 DEF JobEnds
  <2>2. /\ IsHeap(WithoutMin(heap)) /\ ToSet(WithoutMin(heap)) = ToSet(heap) \ {heap[1]}
        /\ heap[1] \in ToSet(heap)
        /\ \A e \in ToSet(heap) \ {heap[1]} : Abstract!Precedes(heap[1], e)
    BY <1>1, <1>3, WithoutMinKeepsHeap
  <2>3. heap[1].job \in Jobs
    <3>1. heap[1] \in Item
      BY <1>1, <2>2 DEF ToSet
    <3> QED
      BY <3>1 DEF Item
  <2>4. HeapInv'
    <3>1. NumberedBefore(heap', seq')
      BY <1>1, <2>1, <2>2 DEF HeapInv, NumberedBefore
    <3>2. heap[1].job # NoJob
      BY <2>3, NoJobIsNone
    <3>3. current' \in Jobs /\ current' # NoJob
      BY <2>1, <2>3, <3>2
    <3>4. fate' \in [Jobs -> {"new", "waiting", "running", "resolved", "rejected", "refused"}]
      BY <1>1, <2>1, <2>3 DEF HeapInv
    <3>5. IsHeap(heap')
      BY <2>1, <2>2
    <3> QED
      BY <1>1, <2>1, <3>1, <3>3, <3>4, <3>5 DEF HeapInv, NumberedBefore, IsHeap, SeqsDiffer,
         HeapOrdered
  <2>5. Abstract!Settle(current, outcome)
    <3>1. ToSet(heap) # {}
      BY <2>2
    <3> QED
      BY <1>1, <2>1, <2>2, <3>1 DEF Abstract!Settle
  <2> QED
    BY <1>1, <2>4, <2>5
<1> QED
  BY <1>2, <1>3

LEMMA DrainImplements ==
    ASSUME HeapInv, NEW d \in Drainers, DrainCall(d) \/ ShutdownCall(d)
    PROVE  HeapInv' /\ \E closes \in BOOLEAN : Abstract!AwaitDrain(d, closes)
<1>1. /\ drain[d] = "idle" /\ UNCHANGED <<heap, seq, current, fate>>
      /\ drain' = [drain EXCEPT ![d] = IF current = NoJob /\ heap = <<>> THEN "done" ELSE "waiting"]
      /\ closed' = closed \/ closed' = TRUE
  BY DEF DrainCall, ShutdownCall
<1>2. current = NoJob => heap = <<>>
  BY DEF HeapInv
<1>3. drain' = [drain EXCEPT ![d] = IF current = NoJob THEN "done" ELSE "waiting"]
  BY <1>1, <1>2
<1>4. HeapInv'
  BY <1>1 DEF HeapInv
<1>5. closed' = (closed \/ FALSE) \/ closed' = (closed \/ TRUE)
  BY <1>1 DEF HeapInv
<1>6. Abstract!AwaitDrain(d, FALSE) \/ Abstract!AwaitDrain(d, TRUE)
  BY <1>1, <1>3, <1>5 DEF Abstract!AwaitDrain
<1> QED
  BY <1>4, <1>6

LEMMA HeapStepImplements == HeapInv /\ [Next]_vars => HeapInv' /\ [Abstract!QNext]_(Abstract!queueVars)
<1> SUFFICES ASSUME HeapInv, [Next]_vars
             PROVE  HeapInv' /\ [Abstract!QNext]_(Abstract!queueVars)
  OBVIOUS
<1>1. ASSUME NEW j \in Jobs, NEW priority \in Urgencies, Enqueue(j, priority)
      PROVE  HeapInv' /\ Abstract!QNext
  <2>1. priority \in 0 .. 2
    BY UrgenciesAreValues
  <2> QED
    BY <1>1, <2>1, EnqueueImplements DEF Abstract!QNext, Abstract!Priorities
<1>2. ASSUME NEW outcome \in {"resolved", "rejected"}, JobEnds(outcome)
      PROVE  HeapInv' /\ Abstract!QNext
  BY <1>2, JobEndsImplements DEF Abstract!QNext
<1>3. ASSUME NEW d \in Drainers, DrainCall(d) \/ ShutdownCall(d)
      PROVE  HeapInv' /\ Abstract!QNext
  BY <1>3, DrainImplements DEF Abstract!QNext
<1>4. CASE UNCHANGED vars
  BY <1>4 DEF vars, HeapInv, Abstract!queueVars
<1> QED
  BY <1>1, <1>2, <1>3, <1>4 DEF Next

(* The binary heap and the drain loop of src/priorityQueue.ts are a queue   *)
(* that runs one job at a time, always the most urgent and among equals the *)
(* oldest, refuses what comes after shutdown() and answers drain() when     *)
(* nothing is left.                                                         *)
THEOREM HeapImplementsQueue == Spec => ImplementsQueue
<1>1. Init => HeapInv /\ Abstract!QInit
  BY HeapInitSound
<1>2. HeapInv /\ [Next]_vars => HeapInv' /\ [Abstract!QNext]_(Abstract!queueVars)
  BY HeapStepImplements
<1> QED
  BY <1>1, <1>2, PTL DEF Spec, ImplementsQueue, Abstract!QSpec
=============================================================================
