------------------------- MODULE SubscriptionProofs -------------------------
(***************************************************************************)
(* What subscriptions and streams tell a client of the ledger, for every   *)
(* number of ledgers, events, loops and records: nothing is given to a     *)
(* handler twice, and nothing is left out.                                 *)
(***************************************************************************)
EXTENDS Subscriptions, InvoicePolling, HorizonStream, BasicLemmas, FiniteSetTheorems

(* Event subscriptions.  Up to the position of the subscription that is     *)
(* under way, or of the stored cursor when none is, the events from `since` *)
(* on were delivered; from there on none was.                               *)
SubscriptionRecords ==
    [at : SubStages, next : 0 .. MaxLedger + 1, retries : 0 .. MaxPollRetries,
     stopped : BOOLEAN, answer : 0 .. MaxLedger]

SubsRanges ==
    /\ latest \in Ledgers
    /\ sub \in [Starts -> SubscriptionRecords]
    /\ savedAt \in 0 .. latest + 1 /\ since \in 0 .. latest
    /\ delivered \in [Ledgers -> Nat]
    /\ ledger \in [Ledgers -> {"open", "quiet", "other", "ours"}]

OneAtATime == \A i, k \in Starts : UnderWay(i) /\ UnderWay(k) => i = k

StagesAgree ==
    \A i \in Starts : UnderWay(i) =>
        /\ savedAt <= sub[i].next /\ sub[i].next <= latest + 1
        /\ sub[i].next = 0 => sub[i].at \in {"locating", "pausing"}
        /\ sub[i].at = "answered" => sub[i].next <= sub[i].answer /\ sub[i].answer <= latest
        /\ sub[i].at = "locating" => sub[i].next = 0

(* Everything ours from `since` to before p was delivered, each event once, *)
(* and nothing from p on.                                                   *)
DeliveredUpTo(p) ==
    /\ \A l \in Ledgers : delivered[l] <= 1 /\ (delivered[l] > 0 => l < p)
    /\ since # 0 => \A l \in Ledgers : since <= l /\ l < p /\ ledger[l] = "ours" => delivered[l] > 0

PositionAgrees ==
    \A p \in 0 .. MaxLedger + 1 :
        /\ p = savedAt => DeliveredUpTo(p)
        /\ \A i \in Starts : UnderWay(i) /\ p = sub[i].next /\ p # 0 => DeliveredUpTo(p)

SubsInv == SubsRanges /\ OneAtATime /\ StagesAgree /\ PositionAgrees

LEMMA SubsNumbers ==
    SubsRanges => /\ latest \in Nat /\ savedAt \in Nat /\ since \in Nat /\ MaxLedger \in Nat
                  /\ savedAt \in 0 .. MaxLedger + 1
                  /\ \A l \in Ledgers : l \in Nat /\ l > 0 /\ l <= MaxLedger /\ delivered[l] \in Nat
                  /\ \A i \in Starts : /\ sub[i].next \in 0 .. MaxLedger + 1 /\ sub[i].next \in Nat
                                       /\ sub[i].answer \in 0 .. MaxLedger /\ sub[i].answer \in Nat
                                       /\ sub[i] \in SubscriptionRecords
BY SubscriptionBounds DEF SubsRanges, SubscriptionRecords, Ledgers

(* A subscription moves on where it is: the position stays.                 *)
LEMMA StageKeeps ==
    ASSUME SubsInv, NEW i \in Starts, UnderWay(i), NEW s \in SubscriptionRecords,
           sub' = [sub EXCEPT ![i] = s], s.next = sub[i].next,
           s.at \in {"locating", "asking", "answered", "pausing", "over"},
           s.next = 0 => s.at \in {"locating", "pausing", "over"},
           s.at = "answered" => s.next <= s.answer /\ s.answer <= latest,
           s.at = "locating" => s.next = 0,
           UNCHANGED <<ledger, latest, savedAt, delivered, since>>
    PROVE  SubsInv'
<1>1. /\ sub \in [Starts -> SubscriptionRecords] /\ sub' \in [Starts -> SubscriptionRecords]
      /\ sub'[i] = s /\ \A k \in Starts : k # i => sub'[k] = sub[k]
  <2>1. sub \in [Starts -> SubscriptionRecords]
    BY DEF SubsInv, SubsRanges
  <2> HIDE DEF SubscriptionRecords
  <2> QED
    BY <2>1
<1>2. SubsRanges'
  BY <1>1 DEF SubsInv, SubsRanges
<1>3. /\ \A k \in Starts : k # i => (UnderWay(k)' <=> UnderWay(k))
      /\ \A k \in Starts : UnderWay(k)' => UnderWay(k)
  BY <1>1 DEF UnderWay
<1>4. OneAtATime'
  BY <1>3 DEF SubsInv, OneAtATime
<1>5. StagesAgree'
  <2> SUFFICES ASSUME NEW k \in Starts, UnderWay(k)'
               PROVE  /\ savedAt' <= sub'[k].next /\ sub'[k].next <= latest' + 1
                      /\ sub'[k].next = 0 => sub'[k].at \in {"locating", "pausing"}
                      /\ sub'[k].at = "answered" =>
                            sub'[k].next <= sub'[k].answer /\ sub'[k].answer <= latest'
                      /\ sub'[k].at = "locating" => sub'[k].next = 0
    BY DEF StagesAgree
  <2>1. k = i
    BY <1>3 DEF SubsInv, OneAtATime
  <2>2. s.at # "over"
    BY <1>1, <2>1 DEF UnderWay
  <2> QED
    BY <1>1, <2>1, <2>2 DEF SubsInv, StagesAgree
<1>6. PositionAgrees'
  <2>1. \A p \in 0 .. MaxLedger + 1 : DeliveredUpTo(p)' <=> DeliveredUpTo(p)
    BY DEF DeliveredUpTo
  <2>2. \A k \in Starts : UnderWay(k)' => UnderWay(k) /\ sub'[k].next = sub[k].next
    BY <1>1, <1>3
  <2> QED
    BY <2>1, <2>2 DEF SubsInv, PositionAgrees
<1> QED
  BY <1>2, <1>4, <1>5, <1>6 DEF SubsInv

(* The position moves to p, and everything before it was delivered.         *)
LEMMA PositionKeeps ==
    ASSUME SubsInv, SubsRanges', NEW i \in Starts, \A k \in Starts : UnderWay(k)' => k = i,
           NEW s \in SubscriptionRecords, sub' = [sub EXCEPT ![i] = s],
           s.at \in {"locating", "asking", "pausing", "over"},
           s.at = "locating" <=> s.next = 0,
           savedAt' <= s.next, s.next <= latest' + 1,
           s.next # 0 => \A p \in 0 .. MaxLedger + 1 : p = s.next => DeliveredUpTo(p)',
           \A p \in 0 .. MaxLedger + 1 : p = savedAt' => DeliveredUpTo(p)'
    PROVE  SubsInv'
<1>1. sub'[i] = s
  BY DEF SubsInv, SubsRanges
<1>2. OneAtATime'
  BY DEF OneAtATime
<1>3. StagesAgree'
  BY <1>1 DEF StagesAgree
<1>4. PositionAgrees'
  BY <1>1 DEF PositionAgrees
<1> QED
  BY <1>2, <1>3, <1>4 DEF SubsInv

LEMMA LedgerClosesKeeps ==
    ASSUME SubsInv, LedgerCloses PROVE SubsInv'
<1>1. /\ latest' = latest + 1 /\ latest < MaxLedger
      /\ UNCHANGED <<sub, savedAt, delivered, since>>
      /\ \E what \in {"quiet", "other", "ours"} : ledger' = [ledger EXCEPT ![latest + 1] = what]
  BY DEF LedgerCloses
<1>2. latest \in Nat /\ savedAt \in Nat /\ since \in Nat /\ latest' \in Ledgers /\ MaxLedger \in Nat
  BY <1>1, SubscriptionBounds DEF SubsInv, SubsRanges, Ledgers
<1>3. /\ ledger' \in [Ledgers -> {"open", "quiet", "other", "ours"}]
      /\ \A l \in Ledgers : l <= latest => ledger'[l] = ledger[l]
  BY <1>1, <1>2 DEF SubsInv, SubsRanges, Ledgers
<1>4. SubsRanges'
  BY <1>1, <1>2, <1>3 DEF SubsInv, SubsRanges
<1>5. \A k \in Starts : UnderWay(k)' <=> UnderWay(k)
  BY <1>1 DEF UnderWay
<1>6. OneAtATime'
  BY <1>5 DEF SubsInv, OneAtATime
<1>7. StagesAgree'
  <2>1. \A k \in Starts : sub[k].next \in Nat /\ sub[k].answer \in Nat
    BY SubsNumbers DEF SubsInv
  <2>2. SUFFICES ASSUME NEW k \in Starts, UnderWay(k)
        PROVE  /\ savedAt <= sub[k].next /\ sub[k].next <= latest' + 1
               /\ sub[k].next = 0 => sub[k].at \in {"locating", "pausing"}
               /\ sub[k].at = "answered" => sub[k].next <= sub[k].answer /\ sub[k].answer <= latest'
               /\ sub[k].at = "locating" => sub[k].next = 0
    BY <1>1, <1>5 DEF StagesAgree
  <2> QED
    BY <1>1, <1>2, <2>1, <2>2 DEF SubsInv, StagesAgree
<1>8. \A p \in 0 .. latest + 1 : DeliveredUpTo(p) => DeliveredUpTo(p)'
  <2> SUFFICES ASSUME NEW p \in 0 .. latest + 1, DeliveredUpTo(p) PROVE DeliveredUpTo(p)'
    OBVIOUS
  <2>1. \A l \in Ledgers : l < p => l <= latest
    BY <1>2 DEF Ledgers
  <2> QED
    BY <1>1, <1>3, <2>1 DEF DeliveredUpTo
<1>9. PositionAgrees'
  <2>1. savedAt \in 0 .. latest + 1 /\ \A k \in Starts : UnderWay(k) => sub[k].next \in 0 .. latest + 1
    BY <1>2, SubsNumbers DEF SubsInv, SubsRanges, StagesAgree
  <2> QED
    BY <1>1, <1>5, <1>8, <2>1 DEF SubsInv, PositionAgrees
<1> QED
  BY <1>4, <1>6, <1>7, <1>9 DEF SubsInv

LEMMA SubscribeKeeps ==
    ASSUME SubsInv, NEW i \in Starts, Subscribe(i) PROVE SubsInv'
<1> DEFINE s == Polls([sub[i] EXCEPT !.next = savedAt])
<1>1. /\ \A k \in Starts : ~UnderWay(k)
      /\ sub' = [sub EXCEPT ![i] = s]
      /\ since' = IF savedAt = 0 THEN 0 ELSE since
      /\ UNCHANGED <<ledger, latest, savedAt, delivered>>
  BY DEF Subscribe, SubsInv, SubsRanges
<1>2. /\ s \in SubscriptionRecords /\ s.next = savedAt /\ s.at \in {"locating", "asking"}
      /\ s.at = "locating" <=> s.next = 0
  <2>1. sub[i] \in SubscriptionRecords /\ savedAt \in 0 .. MaxLedger + 1
    BY SubsNumbers DEF SubsInv
  <2> QED
    BY <2>1 DEF SubscriptionRecords, SubStages, Polls
<1> HIDE DEF s
<1>3. SubsRanges'
  <2>1. sub' \in [Starts -> SubscriptionRecords]
    <3>1. sub \in [Starts -> SubscriptionRecords]
      BY DEF SubsInv, SubsRanges
    <3> HIDE DEF SubscriptionRecords
    <3> QED
      BY <1>1, <1>2, <3>1
  <2>2. since' \in 0 .. latest
    BY <1>1, SubsNumbers DEF SubsInv, SubsRanges
  <2> QED
    BY <1>1, <2>1, <2>2 DEF SubsInv, SubsRanges
<1>4. \A k \in Starts : UnderWay(k)' => k = i
  BY <1>1 DEF UnderWay, SubsInv, SubsRanges
<1>5. \A p \in 0 .. MaxLedger + 1 : p = savedAt => DeliveredUpTo(p)'
  <2> SUFFICES ASSUME NEW p \in 0 .. MaxLedger + 1, p = savedAt PROVE DeliveredUpTo(p)'
    OBVIOUS
  <2>1. DeliveredUpTo(p)
    BY DEF SubsInv, PositionAgrees
  <2> QED
    BY <1>1, <2>1 DEF DeliveredUpTo
<1>6. savedAt' <= s.next /\ s.next <= latest' + 1
  BY <1>1, <1>2, SubsNumbers DEF SubsInv, SubsRanges
<1> HIDE DEF SubscriptionRecords
<1> QED
  BY <1>1, <1>2, <1>3, <1>4, <1>5, <1>6, PositionKeeps

LEMMA LocatesKeeps ==
    ASSUME SubsInv, NEW i \in Starts, Locates(i) PROVE SubsInv'
<1> DEFINE s == [sub[i] EXCEPT !.at = "asking", !.next = latest]
<1>1. /\ sub[i].at = "locating" /\ UnderWay(i) /\ sub' = [sub EXCEPT ![i] = s]
      /\ since' = latest /\ UNCHANGED <<ledger, latest, savedAt, delivered>>
  BY DEF Locates, UnderWay, SubsInv, SubsRanges
<1>2. s \in SubscriptionRecords /\ s.next = latest /\ s.at = "asking"
  <2>1. sub[i] \in SubscriptionRecords /\ latest \in 0 .. MaxLedger + 1
    BY SubsNumbers DEF SubsInv, SubsRanges, Ledgers
  <2> QED
    BY <2>1 DEF SubscriptionRecords, SubStages
<1> HIDE DEF s
<1>3. SubsRanges'
  <2>1. sub' \in [Starts -> SubscriptionRecords]
    <3>1. sub \in [Starts -> SubscriptionRecords]
      BY DEF SubsInv, SubsRanges
    <3> HIDE DEF SubscriptionRecords
    <3> QED
      BY <1>1, <1>2, <3>1
  <2> QED
    BY <1>1, <2>1, SubsNumbers DEF SubsInv, SubsRanges
<1>4. \A k \in Starts : UnderWay(k)' => k = i
  BY <1>1 DEF UnderWay, SubsInv, SubsRanges, OneAtATime
<1>5. savedAt = 0 /\ latest \in Nat /\ latest > 0
  BY <1>1, SubsNumbers DEF SubsInv, StagesAgree, SubsRanges, Ledgers
<1>6. \A p \in 0 .. MaxLedger + 1 : p <= latest => DeliveredUpTo(p)'
  <2> SUFFICES ASSUME NEW p \in 0 .. MaxLedger + 1, p <= latest PROVE DeliveredUpTo(p)'
    OBVIOUS
  <2>1. DeliveredUpTo(0)
    BY <1>5, SubscriptionBounds DEF SubsInv, PositionAgrees
  <2>2. \A l \in Ledgers : delivered[l] <= 1 /\ delivered[l] \in Nat /\ ~(delivered[l] > 0)
    BY <2>1, SubsNumbers DEF SubsInv, DeliveredUpTo
  <2>3. \A l \in Ledgers : ~(latest <= l /\ l < p)
    BY <1>5 DEF Ledgers
  <2> QED
    BY <1>1, <2>2, <2>3 DEF DeliveredUpTo
<1>7. savedAt' <= s.next /\ s.next <= latest' + 1 /\ (s.at = "locating" <=> s.next = 0)
  BY <1>1, <1>2, <1>5
<1>8. /\ \A p \in 0 .. MaxLedger + 1 : p = s.next => DeliveredUpTo(p)'
      /\ \A p \in 0 .. MaxLedger + 1 : p = savedAt' => DeliveredUpTo(p)'
  BY <1>1, <1>2, <1>5, <1>6
<1> HIDE DEF SubscriptionRecords
<1> QED
  BY <1>1, <1>2, <1>3, <1>4, <1>7, <1>8, PositionKeeps

(* The newest event found is the end of what the poll has covered.          *)
LEMMA NewestFound ==
    ASSUME SubsInv, NEW i \in Starts, sub[i].at = "answered"
    PROVE  /\ Newest(i) \in Nat /\ sub[i].next <= Newest(i) /\ Newest(i) <= sub[i].answer
           /\ \A l \in Found(i) : l <= Newest(i)
           /\ sub[i].next \in Nat \ {0} /\ sub[i].answer \in Nat /\ sub[i].answer <= latest
<1>1. /\ sub[i].next \in Nat \ {0} /\ sub[i].answer \in Nat
      /\ sub[i].next <= sub[i].answer /\ sub[i].answer <= latest
  <2>1. UnderWay(i)
    BY DEF UnderWay
  <2> QED
    BY <2>1, SubsNumbers DEF SubsInv, StagesAgree
<1> DEFINE T == Found(i) \cup {sub[i].next}
<1>2. /\ T \in SUBSET Nat /\ T # {} /\ \A t \in T : sub[i].next <= t /\ t <= sub[i].answer
  BY <1>1 DEF Found
<1>3. Newest(i) = CHOOSE l \in T : \A k \in Found(i) : k <= l
  BY DEF Newest
<1>4. \A l \in Found(i) : l \in T
  OBVIOUS
<1> HIDE DEF T
<1>5. \E l \in T : \A k \in T : k <= l
  BY <1>1, <1>2, GreatestOfNaturals
<1>6. \E l \in T : \A k \in Found(i) : k <= l
  BY <1>4, <1>5
<1>7. Newest(i) \in T /\ \A k \in Found(i) : k <= Newest(i)
  BY <1>3, <1>6
<1> QED
  BY <1>1, <1>2, <1>7

LEMMA PollDeliversKeeps ==
    ASSUME SubsInv, NEW i \in Starts, PollDelivers(i) PROVE SubsInv'
<1> DEFINE top == Newest(i)
           next == sub[i].next
           found == Found(i)
           s == [sub[i] EXCEPT !.at = IF sub[i].stopped THEN "over" ELSE "pausing",
                               !.next = top + 1, !.retries = 0, !.answer = 0]
<1>1. /\ sub[i].at = "answered" /\ UnderWay(i) /\ sub' = [sub EXCEPT ![i] = s]
      /\ delivered' = [l \in Ledgers |-> IF l \in found /\ ledger[l] = "ours"
                                         THEN delivered[l] + 1 ELSE delivered[l]]
      /\ savedAt' = IF \E l \in found : ledger[l] = "ours" THEN top + 1 ELSE savedAt
      /\ UNCHANGED <<ledger, latest, since>>
  <2>1. sub[i].at = "answered" /\ UnderWay(i) /\ sub' = [sub EXCEPT ![i] = s]
    BY DEF PollDelivers, Goes, UnderWay, SubsInv, SubsRanges
  <2> QED
    BY <2>1 DEF PollDelivers, HandsOver
<1>2. /\ top \in Nat /\ next <= top /\ top <= sub[i].answer /\ \A l \in found : l <= top
      /\ next \in Nat \ {0} /\ sub[i].answer \in Nat /\ sub[i].answer <= latest
  BY <1>1, NewestFound
<1>3. /\ latest \in Nat /\ savedAt \in Nat /\ since \in Nat /\ MaxLedger \in Nat /\ latest <= MaxLedger
      /\ \A l \in Ledgers : l \in Nat /\ delivered[l] \in Nat
      /\ savedAt <= next /\ DeliveredUpTo(next) /\ savedAt \in 0 .. MaxLedger + 1
      /\ savedAt \in 0 .. latest + 1 /\ sub[i] \in SubscriptionRecords
  <2>1. next \in 0 .. MaxLedger + 1
    BY SubsNumbers DEF SubsInv
  <2>2. DeliveredUpTo(next)
    BY <1>1, <1>2, <2>1 DEF SubsInv, PositionAgrees
  <2> QED
    BY <1>1, <2>2, SubsNumbers DEF SubsInv, SubsRanges, StagesAgree, Ledgers
<1>4. \A l \in Ledgers : /\ l \in found => next <= l
                         /\ next <= l /\ l <= top /\ ledger[l] = "ours" => l \in found
  BY <1>2, <1>3 DEF Found
<1>5. s \in SubscriptionRecords /\ s.next = top + 1 /\ s.at \in {"pausing", "over"}
  <2>1. top + 1 \in 0 .. MaxLedger + 1 /\ 0 \in 0 .. MaxPollRetries /\ 0 \in 0 .. MaxLedger
    BY <1>2, <1>3, SubscriptionBounds
  <2> HIDE DEF top
  <2> QED
    BY <1>3, <2>1 DEF SubscriptionRecords, SubStages
<1> HIDE DEF s, top, next, found
<1>6. SubsRanges'
  <2>1. sub' \in [Starts -> SubscriptionRecords]
    <3>1. sub \in [Starts -> SubscriptionRecords]
      BY DEF SubsInv, SubsRanges
    <3> HIDE DEF SubscriptionRecords
    <3> QED
      BY <1>1, <1>5, <3>1
  <2>2. savedAt' \in 0 .. latest + 1
    BY <1>1, <1>2, <1>3
  <2>3. delivered' \in [Ledgers -> Nat]
    BY <1>1, <1>3
  <2> QED
    BY <1>1, <2>1, <2>2, <2>3 DEF SubsInv, SubsRanges
<1>7. \A k \in Starts : UnderWay(k)' => k = i
  BY <1>1 DEF UnderWay, SubsInv, SubsRanges, OneAtATime
<1>8. /\ \A l \in Ledgers : delivered'[l] <= 1 /\ (delivered'[l] > 0 => l < top + 1)
      /\ since # 0 => \A l \in Ledgers : since <= l /\ l < top + 1 /\ ledger[l] = "ours" => delivered'[l] > 0
  <2>1. ASSUME NEW l \in Ledgers
        PROVE  delivered'[l] <= 1 /\ (delivered'[l] > 0 => l < top + 1)
    <3>1. delivered[l] \in Nat /\ delivered[l] <= 1 /\ (delivered[l] > 0 => l < next) /\ l \in Nat
      BY <1>3 DEF DeliveredUpTo
    <3>2. CASE l \in found /\ ledger[l] = "ours"
      <4>1. delivered[l] = 0 /\ l <= top
        BY <1>2, <1>4, <3>1, <3>2
      <4>2. delivered'[l] = 1
        BY <1>1, <3>2, <4>1
      <4> QED
        BY <1>2, <3>1, <4>1, <4>2
    <3>3. CASE ~(l \in found /\ ledger[l] = "ours")
      BY <1>1, <1>2, <3>1, <3>3
    <3> QED
      BY <3>2, <3>3
  <2>2. ASSUME since # 0, NEW l \in Ledgers, since <= l, l < top + 1, ledger[l] = "ours"
        PROVE  delivered'[l] > 0
    <3>1. delivered[l] \in Nat /\ l \in Nat
      BY <1>3
    <3>2. CASE l < next
      <4>1. delivered[l] > 0
        BY <1>3, <2>2, <3>2 DEF DeliveredUpTo
      <4> QED
        BY <1>1, <3>1, <4>1
    <3>3. CASE ~(l < next)
      <4>1. l \in found
        BY <1>2, <1>4, <2>2, <3>1, <3>3
      <4> QED
        BY <1>1, <2>2, <3>1, <4>1
    <3> QED
      BY <3>2, <3>3
  <2> QED
    BY <2>1, <2>2
<1>9. \A p \in 0 .. MaxLedger + 1 : p = s.next => DeliveredUpTo(p)'
  BY <1>1, <1>5, <1>8 DEF DeliveredUpTo
<1>10. \A p \in 0 .. MaxLedger + 1 : p = savedAt' => DeliveredUpTo(p)'
  <2>1. CASE \E l \in found : ledger[l] = "ours"
    BY <1>1, <1>5, <1>9, <2>1
  <2>2. CASE ~\E l \in found : ledger[l] = "ours"
    <3>1. savedAt' = savedAt /\ DeliveredUpTo(savedAt)
      BY <1>1, <1>3, <2>2 DEF SubsInv, PositionAgrees
    <3>2. \A l \in Ledgers : delivered'[l] = delivered[l]
      BY <1>1, <2>2
    <3> QED
      BY <1>1, <3>1, <3>2 DEF DeliveredUpTo
  <2> QED
    BY <2>1, <2>2
<1>11. savedAt' <= s.next /\ s.next <= latest' + 1 /\ s.next # 0
  BY <1>1, <1>2, <1>3, <1>5
<1> HIDE DEF SubscriptionRecords
<1> QED
  BY <1>1, <1>5, <1>6, <1>7, <1>9, <1>10, <1>11, PositionKeeps

LEMMA ProcessDiesKeeps ==
    ASSUME SubsInv, ProcessDies PROVE SubsInv'
<1>1. /\ sub' = [i \in Starts |-> IF UnderWay(i) THEN [sub[i] EXCEPT !.at = "over", !.answer = 0] ELSE sub[i]]
      /\ UNCHANGED <<ledger, latest, savedAt, delivered, since>>
  BY DEF ProcessDies
<1>2. \A i \in Starts : sub[i] \in SubscriptionRecords
  BY DEF SubsInv, SubsRanges
<1>3. \A i \in Starts : sub'[i] \in SubscriptionRecords /\ ~UnderWay(i)'
  <2> TAKE i \in Starts
  <2>1. CASE UnderWay(i)
    <3>1. sub'[i] = [sub[i] EXCEPT !.at = "over", !.answer = 0]
      BY <1>1, <2>1
    <3>0. 0 \in 0 .. MaxLedger
      BY SubscriptionBounds
    <3>2. sub'[i] \in SubscriptionRecords /\ sub'[i].at = "over"
      BY <1>2, <3>0, <3>1 DEF SubscriptionRecords, SubStages
    <3> QED
      BY <3>2 DEF UnderWay
  <2>2. CASE ~UnderWay(i)
    BY <1>1, <1>2, <2>2 DEF UnderWay
  <2> QED
    BY <2>1, <2>2
<1>4. SubsRanges'
  <2>1. sub' \in [Starts -> SubscriptionRecords]
    <3> HIDE DEF SubscriptionRecords
    <3> QED
      BY <1>1, <1>3
  <2> QED
    BY <1>1, <2>1 DEF SubsInv, SubsRanges
<1>5. \A p \in 0 .. MaxLedger + 1 : DeliveredUpTo(p)' <=> DeliveredUpTo(p)
  BY <1>1 DEF DeliveredUpTo
<1> QED
  BY <1>1, <1>3, <1>4, <1>5 DEF SubsInv, OneAtATime, StagesAgree, PositionAgrees

LEMMA SubsStepKeeps == SubsInv /\ [SubsNext]_subsVars => SubsInv'
<1> SUFFICES ASSUME SubsInv, [SubsNext]_subsVars PROVE SubsInv'
  OBVIOUS
<1>r. \A i \in Starts : /\ sub[i] \in SubscriptionRecords
                        /\ sub[i].next \in Nat /\ sub[i].next \in 0 .. MaxLedger + 1
                        /\ latest \in Nat /\ latest \in 0 .. MaxLedger
  BY SubsNumbers DEF SubsInv, SubsRanges, Ledgers
<1>f. sub \in [Starts -> SubscriptionRecords]
  BY DEF SubsInv, SubsRanges
<1>1. ASSUME NEW i \in Starts, EventsRead(i) PROVE SubsInv'
  <2> DEFINE s == [sub[i] EXCEPT !.at = "answered", !.answer = latest]
  <2>1. /\ UnderWay(i) /\ sub' = [sub EXCEPT ![i] = s] /\ sub[i].next <= latest
        /\ sub[i].at = "asking"
        /\ UNCHANGED <<ledger, latest, savedAt, delivered, since>>
    BY <1>1, <1>f DEF EventsRead, UnderWay
  <2>2. s \in SubscriptionRecords /\ s.at = "answered" /\ s.next = sub[i].next /\ s.answer = latest
    BY <1>r DEF SubscriptionRecords, SubStages
  <2>3. sub[i].next # 0
    BY <2>1 DEF SubsInv, StagesAgree
  <2>4. s.next <= s.answer /\ s.answer <= latest /\ latest \in Nat
    BY <1>r, <2>1, <2>2
  <2> HIDE DEF s, SubscriptionRecords
  <2> QED
    BY <2>1, <2>2, <2>3, <2>4, StageKeeps
<1>2. ASSUME NEW i \in Starts, PollFails(i) PROVE SubsInv'
  <2> DEFINE ends == [sub[i] EXCEPT !.at = "over", !.answer = 0]
             pauses == [sub[i] EXCEPT !.at = "pausing", !.retries = sub[i].retries + 1, !.answer = 0]
  <2>1. UnderWay(i) /\ UNCHANGED <<ledger, latest, savedAt, delivered, since>>
    BY <1>2 DEF PollFails, UnderWay
  <2>2. sub[i].retries \in 0 .. MaxPollRetries /\ 0 \in 0 .. MaxLedger /\ MaxPollRetries \in Nat
    BY <1>r, SubscriptionBounds DEF SubscriptionRecords
  <2>3. ends \in SubscriptionRecords /\ ends.at = "over" /\ ends.next = sub[i].next
    BY <1>r, <2>2 DEF SubscriptionRecords, SubStages
  <2>4. ASSUME sub[i].retries # MaxPollRetries
        PROVE  pauses \in SubscriptionRecords /\ pauses.at = "pausing" /\ pauses.next = sub[i].next
    <3>1. sub[i].retries + 1 \in 0 .. MaxPollRetries
      BY <2>2, <2>4
    <3> QED
      BY <1>r, <2>2, <3>1 DEF SubscriptionRecords, SubStages
  <2>5. CASE sub[i].stopped \/ sub[i].retries = MaxPollRetries
    <3>1. sub' = [sub EXCEPT ![i] = ends]
      BY <1>2, <1>f, <2>5 DEF PollFails
    <3> HIDE DEF ends, SubscriptionRecords
    <3> QED
      BY <2>1, <2>3, <3>1, StageKeeps
  <2>6. CASE ~(sub[i].stopped \/ sub[i].retries = MaxPollRetries)
    <3>1. sub' = [sub EXCEPT ![i] = pauses]
      BY <1>2, <1>f, <2>6 DEF PollFails
    <3>2. pauses \in SubscriptionRecords /\ pauses.at = "pausing" /\ pauses.next = sub[i].next
      BY <2>4, <2>6
    <3> HIDE DEF pauses, SubscriptionRecords
    <3> QED
      BY <2>1, <3>1, <3>2, StageKeeps
  <2> QED
    BY <2>5, <2>6
<1>3. ASSUME NEW i \in Starts, TimerPolls(i) PROVE SubsInv'
  <2> DEFINE s == Polls(sub[i])
  <2>1. /\ UnderWay(i) /\ sub' = [sub EXCEPT ![i] = s]
        /\ UNCHANGED <<ledger, latest, savedAt, delivered, since>>
    BY <1>3, <1>f DEF TimerPolls, UnderWay
  <2>2. /\ s \in SubscriptionRecords /\ s.at \in {"locating", "asking"} /\ s.next = sub[i].next
        /\ s.at = "locating" <=> s.next = 0
    BY <1>r DEF SubscriptionRecords, SubStages, Polls
  <2> HIDE DEF s, SubscriptionRecords
  <2> QED
    BY <1>r, <2>1, <2>2, StageKeeps
<1>4. ASSUME NEW i \in Starts, Unsubscribe(i) PROVE SubsInv'
  <2> DEFINE s == IF sub[i].at = "pausing" THEN [sub[i] EXCEPT !.at = "over"]
                  ELSE [sub[i] EXCEPT !.stopped = TRUE]
  <2>1. /\ UnderWay(i) /\ sub' = [sub EXCEPT ![i] = s]
        /\ UNCHANGED <<ledger, latest, savedAt, delivered, since>>
    BY <1>4, <1>f DEF Unsubscribe, Watching
  <2>2. /\ s \in SubscriptionRecords /\ s.next = sub[i].next /\ s.answer = sub[i].answer
        /\ s.at = "over" \/ s.at = sub[i].at
    BY <1>r DEF SubscriptionRecords, SubStages
  <2>3. /\ sub[i].at \in {"locating", "asking", "answered", "pausing"}
        /\ sub[i].next = 0 => sub[i].at \in {"locating", "pausing"}
        /\ sub[i].at = "answered" => sub[i].next <= sub[i].answer /\ sub[i].answer <= latest
        /\ sub[i].at = "locating" => sub[i].next = 0
    BY <2>1 DEF SubsInv, StagesAgree, UnderWay
  <2> HIDE DEF s, SubscriptionRecords
  <2> QED
    BY <2>1, <2>2, <2>3, StageKeeps
<1>5. CASE UNCHANGED subsVars
  BY <1>5 DEF subsVars, SubsInv, SubsRanges, OneAtATime, StagesAgree, PositionAgrees,
              DeliveredUpTo, UnderWay
<1> QED
  BY <1>1, <1>2, <1>3, <1>4, <1>5, LedgerClosesKeeps, SubscribeKeeps, LocatesKeeps,
     PollDeliversKeeps, ProcessDiesKeeps DEF SubsNext

(* Every event since the subscriptions began is handed over once and none   *)
(* is skipped, across failed polls, restarts and subscriptions that end.    *)
THEOREM EventsReachHandlers == SubsSpec => []EventsDelivered
<1>1. SubsInit => SubsInv
  <2> SUFFICES ASSUME SubsInit PROVE SubsInv
    OBVIOUS
  <2>1. SubsRanges
    BY SubscriptionBounds DEF SubsInit, SubsRanges, SubscriptionRecords, SubStages, Ledgers
  <2>2. \A i \in Starts : ~UnderWay(i)
    BY DEF SubsInit, UnderWay
  <2> QED
    BY <2>1, <2>2 DEF SubsInit, SubsInv, OneAtATime, StagesAgree, PositionAgrees, DeliveredUpTo
<1>2. SubsInv => EventsDelivered
  <2> SUFFICES ASSUME SubsInv PROVE EventsDelivered
    OBVIOUS
  <2>1. EventDeliveredOnce
    BY SubsNumbers DEF SubsInv, PositionAgrees, DeliveredUpTo, EventDeliveredOnce
  <2>2. ASSUME NEW i \in Starts, Watching(i), since # 0,
               NEW l \in since .. sub[i].next - 1, ledger[l] = "ours"
        PROVE  delivered[l] > 0
    <3>1. /\ UnderWay(i) /\ sub[i].next \in 0 .. MaxLedger + 1 /\ since \in Nat /\ MaxLedger \in Nat
      BY <2>2, SubsNumbers DEF Watching, SubsInv
    <3>2. l \in Ledgers /\ since <= l /\ l < sub[i].next /\ sub[i].next # 0
      BY <2>2, <3>1 DEF Ledgers
    <3>3. DeliveredUpTo(sub[i].next)
      BY <3>1, <3>2 DEF SubsInv, PositionAgrees
    <3> QED
      BY <2>2, <3>2, <3>3 DEF DeliveredUpTo
  <2> QED
    BY <2>1, <2>2 DEF EventsDelivered, NothingSkipped
<1> QED
  BY <1>1, <1>2, SubsStepKeeps, PTL DEF SubsSpec

-----------------------------------------------------------------------------
(* Polling.  An event that was handed over is remembered as seen, or lies   *)
(* before the position and before every poll under way; and while no loop   *)
(* ran beside another the one that polls does so from the position, before  *)
(* which nothing was left behind.                                           *)
LoopRecords == [at : {"none", "ended"} \cup TimerStages \cup Polling, from : Nat, upTo : Nat]

PollRanges ==
    /\ tip \in Nat /\ tip >= 1 /\ tip <= MaxTip
    /\ lastLedger \in Nat /\ cursor \in Nat /\ origin \in Nat
    /\ holds \in [Closed -> {"open", "nothing", "other", "ours"}]
    /\ handed \in [Closed -> Nat]
    /\ loop \in [Loops -> LoopRecords]
    /\ \A l \in seenKeys : l \in Nat /\ l <= tip

LoopsSound ==
    \A i \in Loops : /\ loop[i].at = "locating" => loop[i].from = 0
                     /\ loop[i].at = "answered" => loop[i].from <= loop[i].upTo /\ loop[i].upTo <= tip
                     /\ mode = "off" => loop[i].at = "none"

HandedOnceOf(l) ==
    /\ handed[l] <= 1
    /\ handed[l] > 0 =>
          /\ l < cursor /\ l <= tip
          /\ mode # "off" =>
                /\ l <= lastLedger
                /\ \/ l \in seenKeys
                   \/ l < lastLedger /\ \A i \in Loops : loop[i].at \in Polling => l < loop[i].from
HandedOnce == \A l \in Closed : HandedOnceOf(l)

Awake == mode = "on" => \E i \in Loops : Live(i)

CoveredUpTo(upper) ==
    \A l \in Closed : origin # 0 /\ origin <= l /\ l < upper /\ holds[l] = "ours" => handed[l] > 0

NothingLeft ==
    /\ \A i, j \in Loops : Live(i) /\ Live(j) => i = j
    /\ \A i \in Loops : /\ loop[i].at \in {"asking", "answered"} => loop[i].from = lastLedger /\ origin # 0
                        /\ loop[i].at = "locating" => lastLedger = 0 /\ origin = 0
    /\ \A l \in Closed : l \in seenKeys /\ holds[l] = "ours" => handed[l] > 0
    /\ CoveredUpTo(cursor) /\ cursor <= tip + 1 /\ (origin = 0 => cursor = 0)
    /\ mode # "off" => /\ CoveredUpTo(lastLedger) /\ lastLedger <= tip + 1
                       /\ lastLedger = 0 <=> origin = 0

PollInv ==
    /\ PollRanges /\ LoopsSound /\ HandedOnce /\ Awake
    /\ calm => NothingLeft

LEMMA PollNumbers ==
    ASSUME PollRanges
    PROVE  /\ tip \in Nat /\ lastLedger \in Nat /\ cursor \in Nat /\ origin \in Nat
           /\ \A l \in Closed : l \in Nat /\ l >= 1 /\ l <= MaxTip /\ handed[l] \in Nat
           /\ \A i \in Loops : loop[i].from \in Nat /\ loop[i].upTo \in Nat
           /\ MaxTip \in Nat /\ MaxLoops \in Nat /\ 1 \in Loops
<1>1. \A i \in Loops : loop[i] \in LoopRecords
  BY DEF PollRanges
<1>2. \A i \in Loops : loop[i].from \in Nat /\ loop[i].upTo \in Nat
  BY <1>1 DEF LoopRecords
<1> QED
  BY <1>2, PollingBounds DEF PollRanges, Closed, Loops

(* The newest event, or the position when there is none newer.              *)
LEMMA NewestIsGreatest ==
    ASSUME PollRanges, NEW i \in Loops
    PROVE  /\ NewestOf(i) \in EventsIn(i) \cup {lastLedger} /\ NewestOf(i) \in Nat
           /\ \A k \in EventsIn(i) \cup {lastLedger} : k <= NewestOf(i)
<1> DEFINE T == EventsIn(i) \cup {lastLedger}
<1>1. loop[i].from \in Nat /\ loop[i].upTo \in Nat /\ lastLedger \in Nat
  BY PollNumbers
<1>2. T \in SUBSET Nat /\ T # {} /\ loop[i].upTo + lastLedger \in Nat
      /\ \A t \in T : t <= loop[i].upTo + lastLedger
  BY <1>1 DEF EventsIn
<1>3. NewestOf(i) = CHOOSE l \in T : \A k \in T : k <= l
  BY DEF NewestOf
<1> HIDE DEF T
<1>4. \E l \in T : \A k \in T : k <= l
  BY <1>2, GreatestOfNaturals
<1>5. NewestOf(i) \in T /\ \A k \in T : k <= NewestOf(i)
  BY <1>3, <1>4
<1> QED
  BY <1>2, <1>5 DEF T

(* Steps by which loops end or wait for a timer, and nothing else moves.    *)
LoopsRest ==
    \A j \in Loops : \/ loop'[j] = loop[j]
                     \/ loop'[j].at \in {"ended", "pausing", "retrying"} /\ Live(j)

LEMMA RestingKeeps ==
    ASSUME PollInv, UNCHANGED <<holds, tip, lastLedger, seenKeys, cursor, handed, origin, calm>>,
           loop' \in [Loops -> LoopRecords], LoopsRest,
           mode # "off", mode' # "off", mode' = "on" => \E i \in Loops : Live(i)'
    PROVE  PollInv'
<1>1. \A j \in Loops : /\ Live(j)' => Live(j)
                       /\ loop'[j].at \in Polling => loop'[j] = loop[j]
  BY DEF LoopsRest, Live, Polling, TimerStages
<1>2. PollRanges' /\ Awake'
  BY DEF PollInv, PollRanges, Awake
<1>3. LoopsSound'
  BY <1>1 DEF PollInv, LoopsSound, Polling
<1>4. HandedOnce'
  BY <1>1 DEF PollInv, HandedOnce, HandedOnceOf
<1>5. ASSUME calm PROVE NothingLeft'
  <2>1. NothingLeft
    BY <1>5 DEF PollInv
  <2> QED
    BY <1>1, <2>1 DEF NothingLeft, CoveredUpTo, Polling
<1> QED
  BY <1>2, <1>3, <1>4, <1>5 DEF PollInv

(* An answer is taken: what the callback is given was not given before.     *)
LEMMA TakingKeeps ==
    ASSUME PollInv, NEW i \in Loops, TakesAnswer(i), NEW S \in SUBSET Fresh(i), GivesToCallback(S),
           loop' \in [Loops -> LoopRecords], LoopsRest,
           loop'[i].at \in {"ended", "pausing", "retrying"},
           mode' # "off", mode' = "on" => \E j \in Loops : Live(j)',
           calm' => calm /\ S = Fresh(i)
    PROVE  PollInv'
<1> DEFINE n == NewestOf(i)
<1>1. /\ loop[i].at = "answered" /\ UNCHANGED <<holds, tip, origin>>
      /\ seenKeys' = seenKeys \cup EventsIn(i) /\ lastLedger' = n + 1
      /\ cursor' = IF Fresh(i) # {} THEN n + 1 ELSE cursor
      /\ handed' = [l \in Closed |-> IF l \in S THEN handed[l] + 1 ELSE handed[l]]
  BY DEF TakesAnswer, GivesToCallback, ledgerVars
<1>2. n \in EventsIn(i) \cup {lastLedger} /\ n \in Nat /\ \A k \in EventsIn(i) \cup {lastLedger} : k <= n
  BY NewestIsGreatest DEF PollInv
<1> HIDE DEF n
<1>3. /\ tip \in Nat /\ lastLedger \in Nat /\ cursor \in Nat /\ origin \in Nat
      /\ \A l \in Closed : l \in Nat /\ l >= 1 /\ l <= MaxTip /\ handed[l] \in Nat
      /\ loop[i].from \in Nat /\ loop[i].upTo \in Nat /\ MaxTip \in Nat
      /\ loop[i].from <= loop[i].upTo /\ loop[i].upTo <= tip /\ tip <= MaxTip
  BY <1>1, PollNumbers DEF PollInv, PollRanges, LoopsSound
<1>4. /\ \A l \in EventsIn(i) : l \in Nat /\ l >= loop[i].from /\ l <= loop[i].upTo /\ l <= tip /\ l <= n
      /\ \A l \in S : l \in EventsIn(i) /\ l \notin seenKeys
      /\ \A l \in Closed : l >= loop[i].from /\ l <= loop[i].upTo /\ holds[l] = "ours" => l \in EventsIn(i)
      /\ lastLedger <= n
  BY <1>2, <1>3 DEF EventsIn, Fresh
<1>5. mode # "off" /\ loop[i].at \in Polling
  BY <1>1 DEF PollInv, LoopsSound, Polling
<1>6. \A j \in Loops : /\ Live(j)' => Live(j)
                       /\ loop'[j].at \in Polling => loop'[j] = loop[j] /\ j # i
  BY DEF LoopsRest, Live, Polling, TimerStages
<1>7. \A l \in S : l \in Closed => handed[l] = 0
  <2> TAKE l \in S
  <2> SUFFICES ASSUME l \in Closed, handed[l] # 0 PROVE FALSE
    OBVIOUS
  <2>1. handed[l] > 0 /\ l \in Nat
    BY <1>3
  <2>2. l < loop[i].from
    BY <1>4, <1>5, <2>1 DEF PollInv, HandedOnce, HandedOnceOf
  <2> QED
    BY <1>3, <1>4, <2>1, <2>2
<1>8. handed' \in [Closed -> Nat] /\ \A l \in Closed : handed'[l] = IF l \in S THEN 1 ELSE handed[l]
  BY <1>1, <1>3, <1>7
<1>9. PollRanges'
  <2>1. cursor' \in Nat /\ lastLedger' \in Nat
    BY <1>1, <1>2, <1>3
  <2>2. \A l \in seenKeys' : l \in Nat /\ l <= tip
    BY <1>1, <1>4 DEF PollInv, PollRanges
  <2> QED
    BY <1>1, <1>8, <2>1, <2>2 DEF PollInv, PollRanges
<1>10. LoopsSound'
  BY <1>1, <1>6 DEF PollInv, LoopsSound, Polling
<1>11. HandedOnce'
  <2> SUFFICES ASSUME NEW l \in Closed PROVE HandedOnceOf(l)'
    BY DEF HandedOnce, HandedOnceOf
  <2>1. CASE l \in S
    <3>1. l < cursor' /\ l <= tip /\ l <= lastLedger' /\ l \in seenKeys' /\ handed'[l] = 1
      BY <1>1, <1>2, <1>4, <1>8, <2>1
    <3> QED
      BY <1>1, <3>1 DEF HandedOnceOf
  <2>2. CASE l \notin S
    <3>1. handed'[l] = handed[l] /\ handed[l] <= 1
      BY <1>8, <2>2 DEF PollInv, HandedOnce, HandedOnceOf
    <3>2. ASSUME handed[l] > 0
          PROVE  /\ l < cursor' /\ l <= tip /\ l <= lastLedger'
                 /\ \/ l \in seenKeys'
                    \/ l < lastLedger' /\ \A j \in Loops : loop'[j].at \in Polling => l < loop'[j].from
      <4>1. /\ l < cursor /\ l <= tip /\ l <= lastLedger
            /\ \/ l \in seenKeys
               \/ l < lastLedger /\ \A j \in Loops : loop[j].at \in Polling => l < loop[j].from
        BY <1>5, <3>2 DEF PollInv, HandedOnce, HandedOnceOf
      <4>2. l < cursor' /\ l < lastLedger' /\ l <= lastLedger'
        BY <1>1, <1>2, <1>3, <1>4, <4>1
      <4> QED
        BY <1>1, <1>6, <4>1, <4>2
    <3> QED
      BY <1>1, <3>1, <3>2 DEF HandedOnceOf
  <2> QED
    BY <2>1, <2>2
<1>12. Awake'
  BY DEF Awake
<1>13. ASSUME calm' PROVE NothingLeft'
  <2>1. NothingLeft /\ calm /\ S = Fresh(i)
    BY <1>13 DEF PollInv
  <2>2. loop[i].from = lastLedger /\ origin # 0
    BY <1>1, <2>1 DEF NothingLeft
  <2>3. \A j \in Loops : ~(loop'[j].at \in Polling)
    <3> SUFFICES ASSUME NEW j \in Loops, loop'[j].at \in Polling PROVE FALSE
      OBVIOUS
    <3>1. Live(j) /\ Live(i) /\ j # i
      BY <1>5, <1>6 DEF Live
    <3> QED
      BY <2>1, <3>1 DEF NothingLeft
  <2>4. \A l \in Closed : l \in EventsIn(i) /\ holds[l] = "ours" => handed'[l] > 0
    <3> TAKE l \in Closed
    <3>1. CASE l \in seenKeys
      BY <1>3, <1>8, <2>1, <3>1 DEF NothingLeft
    <3>2. CASE l \notin seenKeys
      BY <1>8, <2>1, <3>2 DEF Fresh
    <3> QED
      BY <3>1, <3>2
  <2>5. \A l \in Closed : handed[l] > 0 => handed'[l] > 0
    BY <1>3, <1>8
  <2>6. \A l \in Closed : l \in seenKeys' /\ holds'[l] = "ours" => handed'[l] > 0
    BY <1>1, <2>1, <2>4, <2>5 DEF NothingLeft
  <2>7. n <= tip /\ n <= loop[i].upTo
    BY <1>2, <1>3, <1>4, <2>2
  <2>8. CoveredUpTo(lastLedger)'
    <3> SUFFICES ASSUME NEW l \in Closed, origin <= l, l < n + 1, holds[l] = "ours"
                 PROVE  handed'[l] > 0
      BY <1>1, <2>2 DEF CoveredUpTo
    <3>1. CASE l < lastLedger
      BY <1>5, <2>1, <2>2, <2>5, <3>1 DEF NothingLeft, CoveredUpTo
    <3>2. CASE ~(l < lastLedger)
      <4>1. l >= loop[i].from /\ l <= loop[i].upTo
        BY <1>2, <1>3, <2>2, <2>7, <3>2
      <4> QED
        BY <1>4, <2>4, <4>1
    <3> QED
      BY <3>1, <3>2
  <2>9. CoveredUpTo(cursor)' /\ cursor' <= tip + 1
    <3>1. CASE Fresh(i) # {}
      <4>1. cursor' = lastLedger'
        BY <1>1, <3>1
      <4> QED
        BY <1>1, <1>2, <1>3, <2>7, <2>8, <4>1 DEF CoveredUpTo
    <3>2. CASE Fresh(i) = {}
      BY <1>1, <2>1, <2>5, <3>2 DEF NothingLeft, CoveredUpTo
    <3> QED
      BY <3>1, <3>2
  <2>10. lastLedger' <= tip + 1 /\ lastLedger' # 0
    BY <1>1, <1>2, <1>3, <2>7
  <2>11. \A j, k \in Loops : Live(j)' /\ Live(k)' => j = k
    BY <1>6, <2>1 DEF NothingLeft
  <2> QED
    BY <1>1, <2>2, <2>3, <2>6, <2>8, <2>9, <2>10, <2>11 DEF NothingLeft, Polling
<1> QED
  BY <1>9, <1>10, <1>11, <1>12, <1>13 DEF PollInv

(* clearTimers() ends loops that wait for a timer, and no others.           *)
LEMMA ClearingEnds ==
    ASSUME NEW L \in [Loops -> LoopRecords]
    PROVE  /\ Cleared(L) \in [Loops -> LoopRecords]
           /\ \A j \in Loops : \/ Cleared(L)[j] = L[j]
                               \/ Cleared(L)[j].at = "ended" /\ L[j].at \in TimerStages
<1>1. \A j \in Loops : /\ L[j] \in LoopRecords
                       /\ [L[j] EXCEPT !.at = "ended"] \in LoopRecords
                       /\ [L[j] EXCEPT !.at = "ended"].at = "ended"
  <2>1. \A j \in Loops : L[j] \in LoopRecords
    OBVIOUS
  <2> QED
    BY <2>1 DEF LoopRecords
<1> QED
  BY <1>1 DEF Cleared

LEMMA ClearingRests ==
    ASSUME PollRanges, loop' = Cleared(loop)
    PROVE  loop' \in [Loops -> LoopRecords] /\ LoopsRest
<1>1. /\ Cleared(loop) \in [Loops -> LoopRecords]
      /\ \A j \in Loops : \/ Cleared(loop)[j] = loop[j]
                          \/ Cleared(loop)[j].at = "ended" /\ loop[j].at \in TimerStages
  BY ClearingEnds DEF PollRanges
<1> QED
  BY <1>1 DEF LoopsRest, Live

(* A loop whose poll failed ends or waits for a timer.                      *)
LEMMA ReconnectingRests ==
    ASSUME PollRanges, NEW i \in Loops, loop[i].at \in Polling, mode # "off",
           NEW failures, Reconnects(i, failures)
    PROVE  /\ loop' \in [Loops -> LoopRecords] /\ LoopsRest
           /\ loop'[i].at \in {"ended", "pausing", "retrying"}
           /\ mode' # "off" /\ (mode' = "on" => \E j \in Loops : Live(j)')
<1>1. /\ loop[i] \in LoopRecords /\ Live(i)
      /\ \A at \in {"ended", "retrying"} : /\ [loop[i] EXCEPT !.at = at] \in LoopRecords
                                           /\ [loop[i] EXCEPT !.at = at].at = at
  <2>1. loop[i] \in LoopRecords
    BY DEF PollRanges
  <2> QED
    BY <2>1 DEF LoopRecords, TimerStages, Live
<1>2. CASE mode = "stopped" /\ loop' = [loop EXCEPT ![i].at = "ended"] /\ UNCHANGED mode
  BY <1>1, <1>2 DEF PollRanges, LoopsRest
<1>3. CASE mode' = "stopped" /\ loop' = Cleared([loop EXCEPT ![i].at = "ended"])
  <2> DEFINE L == [loop EXCEPT ![i].at = "ended"]
  <2>1. L \in [Loops -> LoopRecords] /\ L[i].at = "ended" /\ \A j \in Loops : j # i => L[j] = loop[j]
    BY <1>1 DEF PollRanges
  <2> HIDE DEF L
  <2>2. /\ Cleared(L) \in [Loops -> LoopRecords]
        /\ \A j \in Loops : \/ Cleared(L)[j] = L[j]
                            \/ Cleared(L)[j].at = "ended" /\ L[j].at \in TimerStages
    BY <2>1, ClearingEnds
  <2>3. loop' = Cleared(L)
    BY <1>3 DEF L
  <2>4. \A j \in Loops : \/ loop'[j] = L[j]
                         \/ loop'[j].at = "ended" /\ L[j].at \in TimerStages
    BY <2>2, <2>3
  <2>5. LoopsRest
    <3>1. \A j \in Loops : j # i => \/ loop'[j] = loop[j]
                                    \/ loop'[j].at = "ended" /\ Live(j)
      BY <2>1, <2>4 DEF Live
    <3>2. loop'[i].at = "ended"
      BY <2>1, <2>4
    <3> QED
      BY <1>1, <3>1, <3>2 DEF LoopsRest
  <2> QED
    BY <1>3, <2>1, <2>2, <2>3, <2>4, <2>5
<1>4. CASE mode # "stopped" /\ loop' = [loop EXCEPT ![i].at = "retrying"] /\ UNCHANGED mode
  <2>1. /\ loop' \in [Loops -> LoopRecords] /\ loop'[i].at = "retrying"
        /\ \A j \in Loops : j # i => loop'[j] = loop[j]
    BY <1>1, <1>4 DEF PollRanges
  <2> QED
    BY <1>1, <1>4, <2>1 DEF LoopsRest, Live, TimerStages
<1> QED
  BY <1>2, <1>3, <1>4 DEF Reconnects

(* A loop that begins does so from the position.                            *)
LEMMA BeginningKeeps ==
    ASSUME PollInv, NEW i \in Loops, loop' = [loop EXCEPT ![i] = Begun(mode', lastLedger)],
           UNCHANGED <<holds, tip, lastLedger, seenKeys, cursor, handed, origin>>,
           mode # "off", mode' # "off",
           mode' = "on" \/ mode' = mode,
           calm' => calm /\ \A j \in Loops : j # i => ~Live(j)
    PROVE  PollInv'
<1> DEFINE b == Begun(mode', lastLedger)
<1>0. lastLedger \in Nat /\ \A l \in Closed : l \in Nat /\ handed[l] \in Nat
  BY PollNumbers DEF PollInv
<1>1. /\ b \in LoopRecords /\ b.from = lastLedger
      /\ b.at \in {"ended", "locating", "asking"}
      /\ mode' = "on" => b.at \in Polling
      /\ b.at = "locating" => lastLedger = 0
      /\ b.at = "asking" => lastLedger # 0
  <2>1. CASE mode' # "on"
    BY <1>0, <2>1 DEF Begun, LoopRecords
  <2>2. CASE mode' = "on" /\ lastLedger = 0
    BY <1>0, <2>2 DEF Begun, LoopRecords, Polling
  <2>3. CASE mode' = "on" /\ lastLedger # 0
    BY <1>0, <2>3 DEF Begun, LoopRecords, Polling
  <2> QED
    BY <2>1, <2>2, <2>3
<1> HIDE DEF b
<1>2. /\ loop' \in [Loops -> LoopRecords] /\ loop'[i] = b
      /\ \A j \in Loops : j # i => loop'[j] = loop[j]
  <2>1. loop' = [loop EXCEPT ![i] = b]
    BY DEF b
  <2> QED
    BY <1>1, <2>1 DEF PollInv, PollRanges
<1>3. PollRanges'
  BY <1>2 DEF PollInv, PollRanges
<1>4. LoopsSound'
  <2>1. \A j \in Loops : /\ loop'[j].at = "locating" => loop'[j].from = 0
                         /\ loop'[j].at = "answered" => loop'[j].from <= loop'[j].upTo /\ loop'[j].upTo <= tip
    <3> TAKE j \in Loops
    <3>1. CASE j = i
      BY <1>1, <1>2, <3>1
    <3>2. CASE j # i
      BY <1>2, <3>2 DEF PollInv, LoopsSound
    <3> QED
      BY <3>1, <3>2
  <2> QED
    BY <2>1 DEF LoopsSound
<1>5. HandedOnce'
  <2> SUFFICES ASSUME NEW l \in Closed PROVE HandedOnceOf(l)'
    BY DEF HandedOnce
  <2>1. HandedOnceOf(l)
    BY DEF PollInv, HandedOnce
  <2>2. ASSUME handed[l] > 0, l \notin seenKeys
        PROVE  l < lastLedger /\ \A j \in Loops : loop'[j].at \in Polling => l < loop'[j].from
    <3>1. l < lastLedger /\ \A j \in Loops : loop[j].at \in Polling => l < loop[j].from
      BY <2>1, <2>2 DEF HandedOnceOf
    <3> QED
      BY <1>1, <1>2, <3>1
  <2> QED
    BY <2>1, <2>2 DEF HandedOnceOf
<1>6. Awake'
  BY <1>1, <1>2 DEF Awake, Live
<1>7. ASSUME calm' PROVE NothingLeft'
  <2>1. NothingLeft /\ \A j \in Loops : j # i => ~Live(j)
    BY <1>7 DEF PollInv
  <2>2. \A j \in Loops : Live(j)' => j = i
    BY <1>2, <2>1 DEF Live
  <2>3. \A j \in Loops : loop'[j].at \in Polling => j = i
    BY <2>2 DEF Live
  <2>4. \A j \in Loops : /\ loop'[j].at \in {"asking", "answered"} => loop'[j].from = lastLedger /\ origin # 0
                         /\ loop'[j].at = "locating" => lastLedger = 0 /\ origin = 0
    BY <1>1, <1>2, <2>1, <2>3 DEF NothingLeft, Polling
  <2> QED
    BY <2>1, <2>2, <2>4 DEF NothingLeft, CoveredUpTo
<1> QED
  BY <1>3, <1>4, <1>5, <1>6, <1>7 DEF PollInv

LEMMA PollStepKeeps == PollInv /\ [PollingNext]_pollingVars => PollInv'
<1> SUFFICES ASSUME PollInv, [PollingNext]_pollingVars PROVE PollInv'
  OBVIOUS
<1> USE DEF ledgerVars
<1>0. /\ tip \in Nat /\ lastLedger \in Nat /\ cursor \in Nat /\ origin \in Nat
      /\ \A l \in Closed : l \in Nat /\ l >= 1 /\ l <= MaxTip /\ handed[l] \in Nat
      /\ \A i \in Loops : loop[i].from \in Nat /\ loop[i].upTo \in Nat /\ loop[i] \in LoopRecords
      /\ MaxTip \in Nat /\ 1 \in Loops /\ tip >= 1 /\ tip <= MaxTip
  BY PollNumbers DEF PollInv, PollRanges
<1>1. CASE TipMoves
  <2>1. /\ tip < MaxTip /\ tip' = tip + 1
        /\ UNCHANGED <<mode, lastLedger, seenKeys, loop, cursor, handed, origin, calm>>
        /\ \E what \in {"nothing", "other", "ours"} : holds' = [holds EXCEPT ![tip + 1] = what]
    BY <1>1 DEF TipMoves
  <2>2. /\ holds' \in [Closed -> {"open", "nothing", "other", "ours"}]
        /\ \A l \in Closed : l <= tip => holds'[l] = holds[l]
    <3>1. PICK what \in {"nothing", "other", "ours"} : holds' = [holds EXCEPT ![tip + 1] = what]
      BY <2>1
    <3>2. \A l \in Closed : l <= tip => l # tip + 1
      BY <1>0
    <3>3. holds \in [Closed -> {"open", "nothing", "other", "ours"}]
      BY DEF PollInv, PollRanges
    <3> QED
      BY <3>1, <3>2, <3>3
  <2>3. PollRanges'
    <3>1. \A l \in seenKeys : l \in Nat /\ l <= tip'
      BY <1>0, <2>1 DEF PollInv, PollRanges
    <3>2. tip' \in Nat /\ tip' >= 1 /\ tip' <= MaxTip
      BY <1>0, <2>1
    <3> QED
      BY <2>1, <2>2, <3>1, <3>2 DEF PollInv, PollRanges
  <2>4. LoopsSound'
    BY <1>0, <2>1 DEF PollInv, LoopsSound
  <2>5. HandedOnce'
    <3>1. \A l \in Closed : l <= tip => l <= tip'
      BY <1>0, <2>1
    <3> QED
      BY <2>1, <3>1 DEF PollInv, HandedOnce, HandedOnceOf
  <2>6. Awake'
    BY <2>1 DEF PollInv, Awake, Live
  <2>7. ASSUME calm' PROVE NothingLeft'
    <3>1. NothingLeft
      BY <2>1, <2>7 DEF PollInv
    <3>2. \A l \in Closed : l \in seenKeys => holds'[l] = holds[l]
      BY <2>2 DEF PollInv, PollRanges
    <3>3. CoveredUpTo(cursor)' /\ cursor' <= tip' + 1
      <4>1. \A l \in Closed : l < cursor => holds'[l] = holds[l]
        BY <1>0, <2>2, <3>1 DEF NothingLeft
      <4> QED
        BY <1>0, <2>1, <3>1, <4>1 DEF NothingLeft, CoveredUpTo
    <3>4. mode # "off" => CoveredUpTo(lastLedger)' /\ lastLedger' <= tip' + 1
      <4> SUFFICES ASSUME mode # "off" PROVE CoveredUpTo(lastLedger)' /\ lastLedger' <= tip' + 1
        OBVIOUS
      <4>1. \A l \in Closed : l < lastLedger => holds'[l] = holds[l]
        BY <1>0, <2>2, <3>1 DEF NothingLeft
      <4> QED
        BY <1>0, <2>1, <3>1, <4>1 DEF NothingLeft, CoveredUpTo
    <3> QED
      BY <2>1, <3>1, <3>2, <3>3, <3>4 DEF NothingLeft, Live
  <2> QED
    BY <2>3, <2>4, <2>5, <2>6, <2>7 DEF PollInv
<1>2. CASE CreateSubscription
  <2> DEFINE b == Begun("on", cursor)
  <2>1. /\ mode = "off" /\ mode' = "on" /\ lastLedger' = cursor /\ seenKeys' = {}
        /\ loop' = [Unused EXCEPT ![1] = b]
        /\ origin' = IF cursor = 0 THEN 0 ELSE origin
        /\ UNCHANGED <<holds, tip, cursor, handed, calm>>
    BY <1>2 DEF CreateSubscription
  <2>2. /\ b \in LoopRecords /\ b.from = cursor /\ b.at \in {"locating", "asking"}
        /\ b.at = "locating" <=> cursor = 0
    <3>1. CASE cursor = 0
      BY <1>0, <3>1 DEF Begun, LoopRecords, Polling
    <3>2. CASE cursor # 0
      BY <1>0, <3>2 DEF Begun, LoopRecords, Polling
    <3> QED
      BY <3>1, <3>2
  <2> HIDE DEF b
  <2>3. /\ loop' \in [Loops -> LoopRecords] /\ loop'[1] = b
        /\ \A j \in Loops : j # 1 => loop'[j].at = "none"
    <3>1. Unused \in [Loops -> LoopRecords] /\ \A j \in Loops : Unused[j].at = "none"
      BY DEF Unused, LoopRecords
    <3> QED
      BY <1>0, <2>1, <2>2, <3>1
  <2>4. PollRanges'
    <3>1. origin' \in Nat
      BY <1>0, <2>1
    <3> QED
      BY <1>0, <2>1, <2>3, <3>1 DEF PollInv, PollRanges
  <2>5. LoopsSound'
    BY <2>1, <2>2, <2>3 DEF LoopsSound
  <2>6. HandedOnce'
    <3> SUFFICES ASSUME NEW l \in Closed PROVE HandedOnceOf(l)'
      BY DEF HandedOnce
    <3>1. HandedOnceOf(l) /\ l \in Nat
      BY <1>0 DEF PollInv, HandedOnce
    <3>2. \A j \in Loops : loop'[j].at \in Polling => loop'[j].from = cursor
      BY <2>2, <2>3 DEF Polling
    <3> QED
      BY <1>0, <2>1, <3>1, <3>2 DEF HandedOnceOf
  <2>7. Awake'
    BY <1>0, <2>2, <2>3 DEF Awake, Live, Polling
  <2>8. ASSUME calm' PROVE NothingLeft'
    <3>1. NothingLeft
      BY <2>1, <2>8 DEF PollInv
    <3>2. \A j \in Loops : Live(j)' => j = 1
      BY <2>3 DEF Live, TimerStages, Polling
    <3>3. CoveredUpTo(cursor)' /\ CoveredUpTo(lastLedger)'
      BY <2>1, <3>1 DEF NothingLeft, CoveredUpTo
    <3>4. \A j \in Loops : /\ loop'[j].at \in {"asking", "answered"} => loop'[j].from = lastLedger' /\ origin' # 0
                           /\ loop'[j].at = "locating" => lastLedger' = 0 /\ origin' = 0
      BY <2>1, <2>2, <2>3, <3>1 DEF NothingLeft
    <3>5. (origin' = 0 => cursor' = 0) /\ (lastLedger' = 0 <=> origin' = 0)
      BY <2>1, <3>1 DEF NothingLeft
    <3> QED
      BY <2>1, <3>1, <3>2, <3>3, <3>4, <3>5 DEF NothingLeft
  <2> QED
    BY <2>4, <2>5, <2>6, <2>7, <2>8 DEF PollInv
<1>3. CASE ProcessRestarts
  <2>1. /\ mode' = "off" /\ loop' = Unused
        /\ UNCHANGED <<holds, tip, lastLedger, seenKeys, cursor, handed, origin, calm>>
    BY <1>3 DEF ProcessRestarts
  <2>2. loop' \in [Loops -> LoopRecords] /\ \A j \in Loops : loop'[j].at = "none"
    BY <2>1 DEF Unused, LoopRecords
  <2>3. PollRanges' /\ LoopsSound' /\ HandedOnce' /\ Awake'
    BY <2>1, <2>2 DEF PollInv, PollRanges, LoopsSound, HandedOnce, HandedOnceOf, Awake
  <2>4. ASSUME calm' PROVE NothingLeft'
    <3>1. NothingLeft
      BY <2>1, <2>4 DEF PollInv
    <3>2. \A j \in Loops : ~Live(j)'
      BY <2>2 DEF Live, TimerStages, Polling
    <3> QED
      BY <2>1, <2>2, <3>1, <3>2 DEF NothingLeft, CoveredUpTo
  <2> QED
    BY <2>3, <2>4 DEF PollInv
<1>4. ASSUME NEW i \in Loops, LearnsTip(i) PROVE PollInv'
  <2> DEFINE new == [at |-> "asking", from |-> tip, upTo |-> 0]
  <2>1. /\ loop[i].at = "locating" /\ lastLedger' = tip
        /\ loop' = [loop EXCEPT ![i] = new]
        /\ origin' = IF origin = 0 THEN tip ELSE origin
        /\ UNCHANGED <<holds, tip, mode, seenKeys, cursor, handed, calm>>
    BY <1>4 DEF LearnsTip
  <2>2. new \in LoopRecords /\ new.at = "asking" /\ new.from = tip
    BY <1>0 DEF LoopRecords, Polling
  <2> HIDE DEF new
  <2>3. /\ loop' \in [Loops -> LoopRecords] /\ loop'[i] = new
        /\ \A j \in Loops : j # i => loop'[j] = loop[j]
    BY <2>1, <2>2 DEF PollInv, PollRanges
  <2>4. mode # "off" /\ loop[i].at \in Polling /\ loop[i].from = 0
    BY <2>1 DEF PollInv, LoopsSound, Polling
  <2>5. PollRanges'
    <3>1. origin' \in Nat
      BY <1>0, <2>1
    <3> QED
      BY <1>0, <2>1, <2>3, <3>1 DEF PollInv, PollRanges
  <2>6. LoopsSound'
    <3>1. \A j \in Loops : /\ loop'[j].at = "locating" => loop'[j].from = 0
                           /\ loop'[j].at = "answered" => loop'[j].from <= loop'[j].upTo /\ loop'[j].upTo <= tip
      BY <2>2, <2>3 DEF PollInv, LoopsSound
    <3> QED
      BY <2>1, <2>4, <3>1 DEF LoopsSound
  <2>7. HandedOnce'
    <3> SUFFICES ASSUME NEW l \in Closed PROVE HandedOnceOf(l)'
      BY DEF HandedOnce
    <3>1. HandedOnceOf(l) /\ l \in Nat
      BY <1>0 DEF PollInv, HandedOnce
    <3>2. handed[l] > 0 => l \in seenKeys
      BY <2>4, <3>1 DEF HandedOnceOf
    <3> QED
      BY <2>1, <3>1, <3>2 DEF HandedOnceOf
  <2>8. Awake'
    BY <2>2, <2>3 DEF Awake, Live, Polling
  <2>9. ASSUME calm' PROVE NothingLeft'
    <3>1. NothingLeft
      BY <2>1, <2>9 DEF PollInv
    <3>2. origin = 0 /\ lastLedger = 0 /\ cursor = 0 /\ origin' = tip
      BY <2>1, <3>1 DEF NothingLeft
    <3>3. \A j \in Loops : Live(j) => j = i
      BY <2>4, <3>1 DEF NothingLeft, Live
    <3>4. \A j \in Loops : Live(j)' => j = i
      BY <2>3, <3>3 DEF Live
    <3>5. CoveredUpTo(cursor)' /\ CoveredUpTo(lastLedger)'
      BY <1>0, <2>1, <3>2 DEF CoveredUpTo
    <3>6. \A j \in Loops : /\ loop'[j].at \in {"asking", "answered"} => loop'[j].from = lastLedger' /\ origin' # 0
                           /\ loop'[j].at # "locating"
      <4> TAKE j \in Loops
      <4>1. CASE j = i
        BY <1>0, <2>1, <2>2, <2>3, <3>2, <4>1
      <4>2. CASE j # i
        BY <3>4, <4>2 DEF Live, Polling
      <4> QED
        BY <4>1, <4>2
    <3> QED
      BY <1>0, <2>1, <3>1, <3>2, <3>4, <3>5, <3>6 DEF NothingLeft
  <2> QED
    BY <2>5, <2>6, <2>7, <2>8, <2>9 DEF PollInv
<1>5. ASSUME NEW i \in Loops, NodeAnswers(i) PROVE PollInv'
  <2> DEFINE new == [loop[i] EXCEPT !.at = "answered", !.upTo = tip]
  <2>1. /\ loop[i].at = "asking" /\ loop[i].from <= tip
        /\ loop' = [loop EXCEPT ![i] = new]
        /\ UNCHANGED <<holds, tip, mode, lastLedger, seenKeys, cursor, handed, origin, calm>>
    BY <1>5 DEF NodeAnswers, PollInv, PollRanges
  <2>2. new \in LoopRecords /\ new.at = "answered" /\ new.from = loop[i].from /\ new.upTo = tip
    BY <1>0 DEF LoopRecords, Polling
  <2> HIDE DEF new
  <2>3. /\ loop' \in [Loops -> LoopRecords] /\ loop'[i] = new
        /\ \A j \in Loops : j # i => loop'[j] = loop[j]
    BY <2>1, <2>2 DEF PollInv, PollRanges
  <2>4. \A j \in Loops : /\ Live(j)' <=> Live(j)
                         /\ loop'[j].at \in Polling => loop[j].at \in Polling /\ loop'[j].from = loop[j].from
    BY <2>1, <2>2, <2>3 DEF Live, Polling
  <2>5. PollRanges'
    BY <2>1, <2>3 DEF PollInv, PollRanges
  <2>6. LoopsSound'
    <3>1. \A j \in Loops : /\ loop'[j].at = "locating" => loop'[j].from = 0
                           /\ loop'[j].at = "answered" => loop'[j].from <= loop'[j].upTo /\ loop'[j].upTo <= tip
      <4> TAKE j \in Loops
      <4>1. CASE j = i
        BY <1>0, <2>1, <2>2, <2>3, <4>1
      <4>2. CASE j # i
        BY <2>3, <4>2 DEF PollInv, LoopsSound
      <4> QED
        BY <4>1, <4>2
    <3>2. mode # "off"
      BY <2>1 DEF PollInv, LoopsSound
    <3> QED
      BY <2>1, <3>1, <3>2 DEF LoopsSound
  <2>7. HandedOnce'
    BY <2>1, <2>4 DEF PollInv, HandedOnce, HandedOnceOf
  <2>8. Awake'
    BY <2>1, <2>4 DEF PollInv, Awake
  <2>9. ASSUME calm' PROVE NothingLeft'
    <3>1. NothingLeft
      BY <2>1, <2>9 DEF PollInv
    <3> QED
      BY <2>1, <2>2, <2>3, <2>4, <3>1 DEF NothingLeft, CoveredUpTo
  <2> QED
    BY <2>5, <2>6, <2>7, <2>8, <2>9 DEF PollInv
<1>6. ASSUME NEW i \in Loops, DeliversEvents(i) PROVE PollInv'
  <2> DEFINE at == IF mode = "on" THEN "pausing" ELSE "ended"
  <2>1. /\ TakesAnswer(i) /\ GivesToCallback(Fresh(i)) /\ loop' = [loop EXCEPT ![i].at = at]
        /\ UNCHANGED <<mode, calm>> /\ loop[i].at = "answered"
    BY <1>6 DEF DeliversEvents, TakesAnswer
  <2>2. at \in {"ended", "pausing"} /\ (mode = "on" => at = "pausing")
    OBVIOUS
  <2> HIDE DEF at
  <2>3. [loop[i] EXCEPT !.at = at] \in LoopRecords /\ [loop[i] EXCEPT !.at = at].at = at
    BY <1>0, <2>2 DEF LoopRecords, TimerStages
  <2>4. /\ loop' \in [Loops -> LoopRecords] /\ loop'[i].at = at
        /\ \A j \in Loops : j # i => loop'[j] = loop[j]
    BY <2>1, <2>3 DEF PollInv, PollRanges
  <2>5. LoopsRest
    BY <2>1, <2>2, <2>4 DEF LoopsRest, Live, Polling
  <2>6. mode' # "off" /\ (mode' = "on" => \E j \in Loops : Live(j)')
    BY <2>1, <2>2, <2>4 DEF Live, TimerStages, PollInv, LoopsSound
  <2>7. loop'[i].at \in {"ended", "pausing", "retrying"} /\ Fresh(i) \in SUBSET Fresh(i)
    BY <2>2, <2>4
  <2> QED
    BY <2>1, <2>4, <2>5, <2>6, <2>7, TakingKeeps
<1>7. ASSUME NEW i \in Loops, CallbackThrows(i) PROVE PollInv'
  <2>1. TakesAnswer(i) /\ Reconnects(i, 0) /\ calm' = FALSE /\ loop[i].at \in Polling
    BY <1>7 DEF CallbackThrows, TakesAnswer, Polling
  <2>2. PICK S \in SUBSET Fresh(i) : GivesToCallback(S)
    BY <1>7 DEF CallbackThrows
  <2>3. mode # "off"
    BY <2>1 DEF PollInv, LoopsSound, Polling
  <2>4. /\ loop' \in [Loops -> LoopRecords] /\ LoopsRest
        /\ loop'[i].at \in {"ended", "pausing", "retrying"}
        /\ mode' # "off" /\ (mode' = "on" => \E j \in Loops : Live(j)')
    BY <2>1, <2>3, ReconnectingRests DEF PollInv
  <2> QED
    BY <2>1, <2>2, <2>4, TakingKeeps
<1>8. ASSUME NEW i \in Loops, RequestFails(i) PROVE PollInv'
  <2>1. /\ Reconnects(i, retryCount) /\ loop[i].at \in Polling
        /\ UNCHANGED <<holds, tip, lastLedger, seenKeys, cursor, handed, origin, calm>>
    BY <1>8 DEF RequestFails
  <2>2. mode # "off"
    BY <2>1 DEF PollInv, LoopsSound, Polling
  <2>3. /\ loop' \in [Loops -> LoopRecords] /\ LoopsRest
        /\ mode' # "off" /\ (mode' = "on" => \E j \in Loops : Live(j)')
    BY <2>1, <2>2, ReconnectingRests DEF PollInv
  <2> QED
    BY <2>1, <2>2, <2>3, RestingKeeps
<1>9. ASSUME NEW i \in Loops, LoopTimerFires(i) PROVE PollInv'
  <2>1. /\ loop[i].at \in TimerStages /\ loop' = [loop EXCEPT ![i] = Begun(mode', lastLedger)]
        /\ UNCHANGED <<holds, tip, mode, lastLedger, seenKeys, cursor, handed, origin, calm>>
    BY <1>9 DEF LoopTimerFires
  <2>2. mode # "off" /\ Live(i)
    BY <2>1 DEF PollInv, LoopsSound, TimerStages, Live
  <2>3. calm' => calm /\ \A j \in Loops : j # i => ~Live(j)
    BY <2>1, <2>2 DEF PollInv, NothingLeft
  <2> QED
    BY <2>1, <2>2, <2>3, BeginningKeeps
<1>10. CASE PauseSubscription \/ StopSubscription
  <2>1. /\ mode # "off" /\ mode' # "off" /\ mode' # "on" /\ loop' = Cleared(loop)
        /\ UNCHANGED <<holds, tip, lastLedger, seenKeys, cursor, handed, origin, calm>>
    BY <1>10 DEF PauseSubscription, StopSubscription
  <2>2. loop' \in [Loops -> LoopRecords] /\ LoopsRest
    BY <2>1, ClearingRests DEF PollInv
  <2> QED
    BY <2>1, <2>2, RestingKeeps
<1>11. CASE ResumeSubscription
  <2>1. PICK i \in Loops : loop' = [loop EXCEPT ![i] = Begun("on", lastLedger)]
    BY <1>11 DEF ResumeSubscription
  <2>2. /\ mode # "off" /\ mode' = "on" /\ calm' = (calm /\ \A j \in Loops : ~Live(j))
        /\ UNCHANGED <<holds, tip, lastLedger, seenKeys, cursor, handed, origin>>
    BY <1>11 DEF ResumeSubscription
  <2>3. calm' => calm /\ \A j \in Loops : j # i => ~Live(j)
    BY <2>2
  <2> QED
    BY <2>1, <2>2, <2>3, BeginningKeeps
<1>12. CASE UNCHANGED pollingVars
  BY <1>12 DEF pollingVars, PollInv, PollRanges, LoopsSound, HandedOnce, HandedOnceOf, Awake, NothingLeft,
               CoveredUpTo, Live
<1> QED
  BY <1>1, <1>2, <1>3, <1>4, <1>5, <1>6, <1>7, <1>8, <1>9, <1>10, <1>11, <1>12 DEF PollingNext

(* However the loops of a subscription overlap and wherever the process is  *)
(* restarted, the callback is given an event at most once; an active        *)
(* subscription has a loop that polls or will; and while no loop began      *)
(* beside another and no callback threw, no event is left behind.           *)
THEOREM PollingAlwaysOnceAndAwake == PollingSpec => []PolledOnceAndAwake
<1>1. PollingInit => PollInv
  <2> SUFFICES ASSUME PollingInit PROVE PollInv
    OBVIOUS
  <2>1. MaxTip \in Nat /\ MaxTip >= 1
    BY PollingBounds
  <2>2. loop \in [Loops -> LoopRecords] /\ \A i \in Loops : loop[i].at = "none"
    BY DEF PollingInit, Unused, LoopRecords
  <2>3. PollRanges
    BY <2>1, <2>2 DEF PollingInit, PollRanges, Closed
  <2>4. \A l \in Closed : handed[l] = 0
    BY DEF PollingInit
  <2>5. \A i \in Loops : ~Live(i)
    BY <2>2 DEF Live, TimerStages, Polling
  <2>6. LoopsSound /\ HandedOnce /\ Awake
    BY <2>2, <2>4 DEF PollingInit, LoopsSound, HandedOnce, HandedOnceOf, Awake
  <2>7. NothingLeft
    BY <2>2, <2>5 DEF PollingInit, NothingLeft, CoveredUpTo
  <2> QED
    BY <2>3, <2>6, <2>7 DEF PollInv
<1>2. PollInv => PolledOnceAndAwake
  <2> SUFFICES ASSUME PollInv PROVE PolledOnceAndAwake
    OBVIOUS
  <2>1. ASSUME calm, NEW l \in LeftBehind PROVE FALSE
    <3>1. /\ l \in Closed /\ mode # "off" /\ origin # 0 /\ l \in origin .. lastLedger - 1
          /\ holds[l] = "ours" /\ handed[l] = 0
      BY <2>1 DEF LeftBehind
    <3>2. origin <= l /\ l < lastLedger
      BY <3>1, PollNumbers DEF PollInv
    <3> QED
      BY <2>1, <3>1, <3>2 DEF PollInv, NothingLeft, CoveredUpTo
  <2>2. calm => LeftBehind = {}
    BY <2>1
  <2> QED
    BY <2>2 DEF PollInv, HandedOnce, HandedOnceOf, Awake, PolledOnceAndAwake
<1> QED
  BY <1>1, <1>2, PollStepKeeps, PTL DEF PollingSpec

-----------------------------------------------------------------------------
(* The stream of records.  A record that the handler was given and that the *)
(* server may still send again is in the ring buffer, and those remembered  *)
(* after it are different records that lie less than Overlap away from it:  *)
(* too few to push it out, if the buffer is nearly twice as long.           *)
BufferCovers == 2 * Overlap <= DedupeSize + 1

KeptAt(s, f, i) ==
    /\ s[i] = f
    /\ \A j \in i .. Len(s) : f - Overlap < s[j] /\ s[j] < f + Overlap
    /\ \A j, k \in i .. Len(s) : s[j] = s[k] => j = k
Kept(s, f) == \E i \in 1 .. Len(s) : KeptAt(s, f, i)

HorizonRanges ==
    /\ limit \in Nat /\ tries \in Nat
    /\ published \in 0 .. MaxRecords /\ aged \in 0 .. published
    /\ sent \in 0 .. published /\ bookmark \in 0 .. published /\ floor \in 0 .. published
    /\ stored = bookmark
    /\ ring \in Seq(Records) /\ Len(ring) <= DedupeSize
    /\ received \in [Records -> 0 .. 2] /\ excused \in SUBSET Records
    /\ overrides \in 0 .. MaxOverrides

Handled(t) == received[t] > 0 \/ t \in excused

HandledSoFar ==
    /\ \A t \in Records : t <= sent \/ t <= bookmark => Handled(t)
    /\ \A i \in 1 .. Len(ring) : Handled(ring[i])

OnceSoFar ==
    /\ \A t \in Records : /\ received[t] <= 1
                          /\ received[t] > 0 => t <= bookmark
                          /\ t \in excused => t <= aged
    /\ floor <= sent /\ floor <= bookmark /\ bookmark <= sent + Overlap
    /\ \A f \in Records : floor < f /\ f <= bookmark /\ aged < f /\ bookmark < f + Overlap => Kept(ring, f)

InReach == stream # "none" \/ ringing \/ idle \/ tries > limit

HorizonInv ==
    /\ HorizonRanges /\ HandledSoFar /\ InReach
    /\ overrides = MaxOverrides /\ BufferCovers => OnceSoFar

LEMMA HorizonNumbers ==
    HorizonRanges => /\ published \in Nat /\ aged \in Nat /\ sent \in Nat /\ bookmark \in Nat
                     /\ floor \in Nat /\ overrides \in Nat /\ DedupeSize \in Nat /\ Overlap \in Nat
                     /\ MaxRecords \in Nat /\ MaxOverrides \in Nat /\ published <= MaxRecords
                     /\ \A t \in Records : t \in Nat /\ t > 0 /\ t <= MaxRecords /\ received[t] \in Nat
BY HorizonBounds DEF HorizonRanges, Records

(* What the ring buffer holds after one more record: the oldest goes when   *)
(* it is full.                                                              *)
LEMMA Remembers ==
    ASSUME ring \in Seq(Records), Len(ring) <= DedupeSize, NEW t \in Records
    PROVE  /\ Remember(t) \in Seq(Records) /\ Len(Remember(t)) <= DedupeSize
           /\ \E d \in {0, 1} :
                 /\ Len(Remember(t)) = Len(ring) + 1 - d
                 /\ d = 1 => Len(ring) = DedupeSize
                 /\ \A k \in 1 .. Len(Remember(t)) :
                       Remember(t)[k] = IF k + d = Len(ring) + 1 THEN t ELSE ring[k + d]
<1> DEFINE longer == Append(ring, t)
<1>1. /\ Len(ring) \in Nat /\ DedupeSize \in Nat
      /\ longer \in Seq(Records) /\ Len(longer) = Len(ring) + 1
      /\ \A k \in 1 .. Len(ring) + 1 : longer[k] = IF k = Len(ring) + 1 THEN t ELSE ring[k]
  BY HorizonBounds
<1> HIDE DEF longer
<1>2. CASE Len(ring) < DedupeSize
  <2>1. Remember(t) = longer
    BY <1>2 DEF Remember, longer
  <2>2. \A k \in 1 .. Len(longer) : longer[k] = IF k + 0 = Len(ring) + 1 THEN t ELSE ring[k + 0]
    BY <1>1
  <2>3. Len(longer) <= DedupeSize /\ Len(longer) = Len(ring) + 1 - 0
    BY <1>1, <1>2
  <2> QED
    BY <1>1, <2>1, <2>2, <2>3
<1>3. CASE ~(Len(ring) < DedupeSize)
  <2>1. Remember(t) = Tail(longer) /\ longer # <<>>
    BY <1>1, <1>3 DEF Remember, longer
  <2>2. /\ Tail(longer) \in Seq(Records) /\ Len(Tail(longer)) = Len(ring)
        /\ \A k \in 1 .. Len(ring) : Tail(longer)[k] = longer[k + 1]
    BY <1>1, <2>1
  <2>3. \A k \in 1 .. Len(ring) : Tail(longer)[k] = IF k + 1 = Len(ring) + 1 THEN t ELSE ring[k + 1]
    BY <1>1, <2>2
  <2>4. Len(ring) = DedupeSize /\ Len(ring) = Len(ring) + 1 - 1
    BY <1>1, <1>3
  <2> QED
    BY <1>1, <2>1, <2>2, <2>3, <2>4
<1> QED
  BY <1>2, <1>3

(* The window has room for fewer records than the buffer holds.             *)
LEMMA WindowIsSmall ==
    ASSUME BufferCovers, ring \in Seq(Records), Len(ring) = DedupeSize, NEW t \in Records,
           \A j \in 1 .. Len(ring) : ring[j] # t,
           NEW f \in Records, f - Overlap < t, t < f + Overlap, Len(ring) >= 1
    PROVE  ~KeptAt(ring, f, 1)
<1> SUFFICES ASSUME KeptAt(ring, f, 1) PROVE FALSE
  OBVIOUS
<1>0. DedupeSize \in Nat /\ Overlap \in Nat /\ f \in Nat /\ t \in Nat /\ 2 * Overlap <= DedupeSize + 1
  BY HorizonBounds DEF Records, BufferCovers
<1> DEFINE S == 1 .. DedupeSize + 1
           T == f - Overlap + 1 .. f + Overlap - 1
           g == [k \in S |-> IF k = DedupeSize + 1 THEN t ELSE ring[k]]
<1>1. \A k \in 1 .. DedupeSize : ring[k] \in Nat /\ f - Overlap < ring[k] /\ ring[k] < f + Overlap
  <2>1. \A k \in 1 .. Len(ring) : ring[k] \in Records
    OBVIOUS
  <2>2. \A k \in Records : k \in Nat
    BY DEF Records
  <2> QED
    BY <2>1, <2>2 DEF KeptAt
<1>2. g \in [S -> T]
  <2>1. t \in T
    BY <1>0
  <2>2. \A k \in S : k # DedupeSize + 1 => k \in 1 .. DedupeSize
    BY <1>0
  <2>3. \A k \in 1 .. DedupeSize : ring[k] \in T
    BY <1>0, <1>1
  <2> QED
    BY <2>1, <2>2, <2>3
<1>3. IsFiniteSet(S) /\ IsFiniteSet(T) /\ Cardinality(T) < Cardinality(S)
  <2>1. IsFiniteSet(S) /\ Cardinality(S) = DedupeSize + 1
    <3>1. 1 \in Int /\ DedupeSize + 1 \in Int /\ ~(1 > DedupeSize + 1)
      BY <1>0
    <3>2. IsFiniteSet(S) /\ Cardinality(S) = (DedupeSize + 1) - 1 + 1
      BY <3>1, FS_Interval
    <3> QED
      BY <1>0, <3>2
  <2>2. IsFiniteSet(T) /\ Cardinality(T) = 2 * Overlap - 1
    <3> DEFINE a == f - Overlap + 1
               b == f + Overlap - 1
    <3>1. a \in Int /\ b \in Int /\ ~(a > b) /\ b - a + 1 = 2 * Overlap - 1
      BY <1>0
    <3>2. T = a .. b
      OBVIOUS
    <3> HIDE DEF a, b, T
    <3>3. IsFiniteSet(T) /\ Cardinality(T) = b - a + 1
      BY <3>1, <3>2, FS_Interval
    <3> QED
      BY <3>1, <3>3
  <2> QED
    BY <1>0, <2>1, <2>2
<1> HIDE DEF S, T
<1>4. \E x, y \in S : x # y /\ g[x] = g[y]
  <2> HIDE DEF g
  <2> QED
    BY <1>2, <1>3, FS_PigeonHole
<1>5. \A k \in S : k = DedupeSize + 1 \/ k \in 1 .. Len(ring)
  BY <1>0 DEF S
<1>6. PICK x, y \in S : x # y /\ g[x] = g[y]
  BY <1>4
<1> QED
  BY <1>5, <1>6 DEF KeptAt

(* A record stays in the buffer while others from its window come in.       *)
LEMMA StaysKept ==
    ASSUME BufferCovers, ring \in Seq(Records), Len(ring) <= DedupeSize, NEW t \in Records,
           ~Contains(ring, t), NEW f \in Records, Kept(ring, f),
           f - Overlap < t, t < f + Overlap
    PROVE  Kept(Remember(t), f)
<1>0. /\ Len(ring) \in Nat /\ \A j \in 1 .. Len(ring) : ring[j] # t
      /\ f \in Nat /\ t \in Nat /\ Overlap \in Nat
      /\ \A j \in 1 .. Len(ring) : ring[j] \in Nat
  BY HorizonBounds DEF Contains, Records
<1>1. PICK i \in 1 .. Len(ring) : KeptAt(ring, f, i)
  BY DEF Kept
<1> DEFINE new == Remember(t)
<1>2. new \in Seq(Records)
  BY Remembers
<1>3. PICK d \in {0, 1} :
         /\ Len(new) = Len(ring) + 1 - d
         /\ d = 1 => Len(ring) = DedupeSize
         /\ \A k \in 1 .. Len(new) : new[k] = IF k + d = Len(ring) + 1 THEN t ELSE ring[k + d]
  BY Remembers
<1> HIDE DEF new
<1>4. d = 1 => i # 1
  BY <1>0, <1>1, <1>3, WindowIsSmall
<1>5. i - d \in 1 .. Len(new) /\ i - d + d = i /\ i <= Len(ring) /\ i \in Nat
  BY <1>0, <1>3, <1>4
<1>6. \A k \in (i - d) .. Len(new) : /\ k \in 1 .. Len(new) /\ k + d \in i .. Len(ring) + 1
                                     /\ k + d # Len(ring) + 1 => k + d \in i .. Len(ring)
  <2>1. d \in Nat /\ d <= 1 /\ i - d >= 1 /\ Len(new) + d = Len(ring) + 1 /\ Len(new) \in Nat
    BY <1>0, <1>3, <1>5
  <2> SUFFICES ASSUME NEW k \in (i - d) .. Len(new)
               PROVE  /\ k \in 1 .. Len(new) /\ k + d \in i .. Len(ring) + 1
                      /\ k + d # Len(ring) + 1 => k + d \in i .. Len(ring)
    OBVIOUS
  <2>2. k \in Nat /\ i - d <= k /\ k <= Len(new)
    BY <1>5, <2>1
  <2> QED
    BY <1>0, <1>5, <2>1, <2>2
<1>7. \A k \in (i - d) .. Len(new) : new[k] = IF k + d = Len(ring) + 1 THEN t ELSE ring[k + d]
  BY <1>3, <1>6
<1>8. new[i - d] = f
  <2>1. new[i - d] = ring[i]
    BY <1>0, <1>3, <1>5
  <2> QED
    BY <1>1, <2>1 DEF KeptAt
<1>9. \A k \in (i - d) .. Len(new) : f - Overlap < new[k] /\ new[k] < f + Overlap
  BY <1>1, <1>6, <1>7 DEF KeptAt
<1>10. \A j, k \in (i - d) .. Len(new) : new[j] = new[k] => j = k
  <2> SUFFICES ASSUME NEW j \in (i - d) .. Len(new), NEW k \in (i - d) .. Len(new), new[j] = new[k]
               PROVE  j = k
    OBVIOUS
  <2>1. j \in Nat /\ k \in Nat /\ i .. Len(ring) \subseteq 1 .. Len(ring)
    BY <1>0, <1>6
  <2>2. CASE j + d = Len(ring) + 1 /\ k + d = Len(ring) + 1
    BY <1>0, <2>1, <2>2
  <2>3. CASE j + d # Len(ring) + 1 /\ k + d # Len(ring) + 1
    <3>1. j + d = k + d
      BY <1>1, <1>6, <1>7, <2>3 DEF KeptAt
    <3> QED
      BY <2>1, <3>1
  <2>4. CASE j + d = Len(ring) + 1 /\ k + d # Len(ring) + 1
    BY <1>0, <1>6, <1>7, <2>1, <2>4
  <2>5. CASE j + d # Len(ring) + 1 /\ k + d = Len(ring) + 1
    BY <1>0, <1>6, <1>7, <2>1, <2>5
  <2> QED
    BY <2>2, <2>3, <2>4, <2>5
<1>11. KeptAt(new, f, i - d)
  BY <1>8, <1>9, <1>10 DEF KeptAt
<1> QED
  BY <1>5, <1>11 DEF Kept, new

(* The newest record is kept.                                               *)
LEMMA NewestKept ==
    ASSUME BufferCovers, ring \in Seq(Records), Len(ring) <= DedupeSize, NEW t \in Records, Overlap > 0
    PROVE  Kept(Remember(t), t)
<1> DEFINE new == Remember(t)
           n == Len(new)
<1>1. new \in Seq(Records) /\ Overlap \in Nat /\ DedupeSize \in Nat /\ DedupeSize > 0 /\ t \in Nat
      /\ Len(ring) \in Nat
  BY Remembers, HorizonBounds DEF Records, BufferCovers
<1>2. n \in Nat /\ n > 0 /\ new[n] = t
  <2>1. PICK d \in {0, 1} :
         /\ Len(new) = Len(ring) + 1 - d
         /\ d = 1 => Len(ring) = DedupeSize
         /\ \A k \in 1 .. Len(new) : new[k] = IF k + d = Len(ring) + 1 THEN t ELSE ring[k + d]
    BY Remembers
  <2> HIDE DEF new
  <2>2. n \in 1 .. Len(new) /\ n + d = Len(ring) + 1 /\ n \in Nat /\ n > 0
    BY <1>1, <2>1
  <2> QED
    BY <2>1, <2>2
<1> HIDE DEF new, n
<1>3. \A j \in n .. n : j = n
  BY <1>2
<1>4. KeptAt(new, t, n)
  BY <1>1, <1>2, <1>3 DEF KeptAt, n
<1> QED
  BY <1>2, <1>4 DEF Kept, new, n

LEMMA OnMessageKeeps ==
    ASSUME HorizonInv, OnMessage PROVE HorizonInv'
<1> DEFINE t == sent + 1
<1>1. /\ stream = "open" /\ sent < published /\ sent' = t
      /\ UNCHANGED <<limit, published, aged, stream, ringing, idle, tries, floor, overrides>>
  BY DEF OnMessage
<1>2. /\ t \in Records /\ t \in Nat /\ t \in 0 .. published /\ t <= published
      /\ ring \in Seq(Records) /\ Len(ring) <= DedupeSize /\ Len(ring) \in Nat
      /\ received \in [Records -> 0 .. 2] /\ stored = bookmark
  BY <1>1, HorizonNumbers DEF HorizonInv, HorizonRanges, Records
<1>3. InReach'
  BY <1>1 DEF InReach
<1> HIDE DEF t
<1>4. CASE Contains(ring, t)
  <2>1. UNCHANGED <<ring, bookmark, stored, received, excused>>
    BY <1>1, <1>4 DEF OnMessage, t
  <2>2. HorizonRanges'
    BY <1>1, <1>2, <2>1 DEF HorizonInv, HorizonRanges
  <2>3. Handled(t)
    BY <1>2, <1>4 DEF Contains, HorizonInv, HandledSoFar
  <2>4. HandledSoFar'
    <3>1. \A u \in Records : u <= sent' => u = t \/ u <= sent
      BY <1>1, HorizonNumbers DEF HorizonInv, t
    <3> QED
      BY <2>1, <2>3, <3>1 DEF HorizonInv, HandledSoFar, Handled
  <2>5. ASSUME overrides = MaxOverrides, BufferCovers PROVE OnceSoFar'
    <3>1. floor <= sent' /\ bookmark <= sent' + Overlap
      BY <1>1, <2>5, HorizonNumbers DEF HorizonInv, OnceSoFar, t
    <3> QED
      BY <1>1, <2>1, <2>5, <3>1 DEF HorizonInv, OnceSoFar, Kept, KeptAt
  <2> QED
    BY <1>1, <1>3, <2>2, <2>4, <2>5 DEF HorizonInv
<1>5. CASE ~Contains(ring, t)
  <2> DEFINE new == Remember(t)
  <2>1. /\ ring' = new
        /\ \/ t <= aged /\ excused' = excused \cup {t} /\ UNCHANGED <<bookmark, stored, received>>
           \/ /\ t > aged /\ bookmark' = t /\ stored' = t /\ UNCHANGED excused
              /\ received' = [received EXCEPT ![t] = IF received[t] < 2 THEN received[t] + 1 ELSE 2]
    <3>1. aged \in Nat
      BY HorizonNumbers DEF HorizonInv
    <3> QED
      BY <1>1, <1>2, <1>5, <3>1 DEF OnMessage, t
  <2>2. new \in Seq(Records) /\ Len(new) <= DedupeSize
    BY <1>2, Remembers
  <2>3. \A k \in 1 .. Len(new) : new[k] = t \/ \E j \in 1 .. Len(ring) : new[k] = ring[j]
    <3>1. PICK d \in {0, 1} :
             /\ Len(new) = Len(ring) + 1 - d
             /\ \A k \in 1 .. Len(new) : new[k] = IF k + d = Len(ring) + 1 THEN t ELSE ring[k + d]
      BY <1>2, Remembers
    <3> HIDE DEF new
    <3>2. \A k \in 1 .. Len(new) : k + d = Len(ring) + 1 \/ k + d \in 1 .. Len(ring)
      BY <1>2, <3>1
    <3> QED
      BY <3>1, <3>2
  <2> HIDE DEF new
  <2>4. /\ received' \in [Records -> 0 .. 2] /\ excused' \in SUBSET Records
        /\ \A u \in Records : Handled(u) => Handled(u)'
        /\ \A u \in Records : u # t => received'[u] = received[u]
        /\ \A u \in Records : received'[u] > 0 \/ u \in excused' \/ u # t
    <3>1. received[t] \in 0 .. 2 /\ excused \in SUBSET Records
      BY <1>2 DEF HorizonInv, HorizonRanges
    <3>2. CASE t <= aged /\ excused' = excused \cup {t} /\ UNCHANGED <<bookmark, stored, received>>
      BY <1>2, <3>1, <3>2 DEF Handled
    <3>3. CASE /\ t > aged /\ bookmark' = t /\ stored' = t /\ UNCHANGED excused
               /\ received' = [received EXCEPT ![t] = IF received[t] < 2 THEN received[t] + 1 ELSE 2]
      <4>1. (IF received[t] < 2 THEN received[t] + 1 ELSE 2) \in 1 .. 2
        BY <3>1
      <4>2. /\ received' \in [Records -> 0 .. 2] /\ received'[t] \in 1 .. 2
            /\ \A u \in Records : u # t => received'[u] = received[u]
        BY <1>2, <3>3, <4>1
      <4> QED
        BY <3>1, <3>3, <4>2 DEF Handled
    <3> QED
      BY <2>1, <3>2, <3>3
  <2>5. HorizonRanges'
    <3>1. bookmark' \in 0 .. published /\ stored' = bookmark'
      BY <1>2, <2>1 DEF HorizonInv, HorizonRanges
    <3> QED
      BY <1>1, <1>2, <2>1, <2>2, <2>4, <3>1 DEF HorizonInv, HorizonRanges
  <2>6. HandledSoFar'
    <3>1. \A u \in Records : u <= sent' \/ u <= bookmark' => u = t \/ u <= sent \/ u <= bookmark
      <4>1. \A u \in Records : u <= t => u = t \/ u <= sent
        BY HorizonNumbers DEF HorizonInv, t
      <4> QED
        BY <1>1, <2>1, <4>1
    <3>2. \A u \in Records : Handled(u)' \/ u # t
      BY <2>4 DEF Handled
    <3>3. \A u \in Records : u <= sent' \/ u <= bookmark' => Handled(u)'
      BY <2>4, <3>1, <3>2 DEF HorizonInv, HandledSoFar
    <3>4. \A j \in 1 .. Len(ring) : ring[j] \in Records /\ Handled(ring[j])
      BY <1>2 DEF HorizonInv, HandledSoFar
    <3>5. \A k \in 1 .. Len(new) : \E u \in Records : new[k] = u /\ Handled(u)'
      BY <1>2, <2>3, <2>4, <3>2, <3>4
    <3> QED
      BY <2>1, <3>3, <3>5 DEF HandledSoFar, Handled
  <2>7. ASSUME overrides = MaxOverrides, BufferCovers PROVE OnceSoFar'
    <3>0. /\ OnceSoFar /\ aged \in Nat /\ bookmark \in Nat /\ sent \in Nat /\ Overlap \in Nat
          /\ floor \in Nat /\ \A u \in Records : u \in Nat /\ received[u] \in Nat
      BY <2>7, HorizonNumbers DEF HorizonInv
    <3>1. floor < t /\ bookmark < t + Overlap /\ floor <= sent' /\ t <= sent' + Overlap
      BY <1>1, <3>0 DEF OnceSoFar, t
    <3>2. CASE t <= aged /\ excused' = excused \cup {t} /\ UNCHANGED <<bookmark, stored, received>>
      <4>1. \A f \in Records : floor < f /\ f <= bookmark /\ aged < f /\ bookmark < f + Overlap
                               => Kept(ring', f)
        <5> SUFFICES ASSUME NEW f \in Records, floor < f, f <= bookmark, aged < f, bookmark < f + Overlap
                     PROVE  Kept(new, f)
          BY <2>1
        <5>1. Kept(ring, f)
          BY <3>0 DEF OnceSoFar
        <5>2. f - Overlap < t /\ t < f + Overlap
          BY <1>2, <3>0, <3>1, <3>2
        <5> QED
          BY <1>2, <1>5, <2>7, <5>1, <5>2, StaysKept DEF new
      <4>2. bookmark <= sent' + Overlap /\ floor <= bookmark
        BY <1>1, <1>2, <3>0, <3>1 DEF OnceSoFar
      <4>3. \A u \in Records : /\ received'[u] <= 1 /\ (received'[u] > 0 => u <= bookmark')
                               /\ u \in excused' => u <= aged'
        BY <1>1, <3>0, <3>2 DEF OnceSoFar
      <4>4. floor' <= sent' /\ floor' <= bookmark' /\ bookmark' <= sent' + Overlap
        BY <1>1, <3>1, <3>2, <4>2
      <4>5. \A f \in Records : floor' < f /\ f <= bookmark' /\ aged' < f /\ bookmark' < f + Overlap
                               => Kept(ring', f)
        BY <1>1, <3>2, <4>1
      <4> QED
        BY <4>3, <4>4, <4>5 DEF OnceSoFar
    <3>3. CASE /\ t > aged /\ bookmark' = t /\ stored' = t /\ UNCHANGED excused
               /\ received' = [received EXCEPT ![t] = IF received[t] < 2 THEN received[t] + 1 ELSE 2]
      <4>1. ~(t <= bookmark)
        <5> SUFFICES ASSUME t <= bookmark PROVE FALSE
          OBVIOUS
        <5>1. Kept(ring, t)
          BY <1>2, <3>0, <3>1, <3>3 DEF OnceSoFar
        <5> QED
          BY <1>5, <5>1 DEF Kept, KeptAt, Contains
      <4>2. bookmark < t /\ received[t] = 0 /\ received'[t] = 1
        <5>1. bookmark < t /\ received[t] = 0
          BY <1>2, <3>0, <4>1 DEF OnceSoFar
        <5> QED
          BY <1>2, <3>3, <5>1
      <4>3. \A u \in Records : /\ received'[u] <= 1 /\ (received'[u] > 0 => u <= bookmark')
                               /\ u \in excused' => u <= aged'
        <5> TAKE u \in Records
        <5>1. CASE u = t
          BY <1>1, <1>2, <3>0, <3>3, <4>2, <5>1 DEF OnceSoFar
        <5>2. CASE u # t
          <6>1. received'[u] = received[u] /\ received[u] <= 1 /\ (received[u] > 0 => u <= bookmark)
            BY <2>4, <3>0, <5>2 DEF OnceSoFar
          <6>2. u <= bookmark => u <= t
            BY <1>2, <3>0, <4>2
          <6> QED
            BY <1>1, <3>0, <3>3, <6>1, <6>2 DEF OnceSoFar
        <5> QED
          BY <5>1, <5>2
      <4>4. \A f \in Records : floor < f /\ f <= t /\ aged < f /\ t < f + Overlap => Kept(ring', f)
        <5> SUFFICES ASSUME NEW f \in Records, floor < f, f <= t, aged < f, t < f + Overlap
                     PROVE  Kept(new, f)
          BY <2>1
        <5>1. CASE f = t
          <6>1. Overlap > 0
            BY <1>2, <3>0, <5>1
          <6> QED
            BY <1>2, <2>7, <5>1, <6>1, NewestKept DEF new
        <5>2. CASE f # t
          <6>1. f <= sent
            BY <3>0, <5>2 DEF t
          <6>2. received[f] > 0
            <7>1. Handled(f)
              BY <6>1 DEF HorizonInv, HandledSoFar
            <7>2. f \notin excused
              BY <3>0 DEF OnceSoFar
            <7> QED
              BY <7>1, <7>2 DEF Handled
          <6>3. f <= bookmark /\ bookmark < f + Overlap
            BY <1>2, <3>0, <4>2, <6>2 DEF OnceSoFar
          <6>4. Kept(ring, f)
            BY <3>0, <6>3 DEF OnceSoFar
          <6>5. f - Overlap < t
            BY <1>2, <3>0
          <6> QED
            BY <1>2, <1>5, <2>7, <6>4, <6>5, StaysKept DEF new
        <5> QED
          BY <5>1, <5>2
      <4> QED
        BY <1>1, <3>1, <3>3, <4>3, <4>4 DEF OnceSoFar
    <3> QED
      BY <2>1, <3>2, <3>3
  <2> QED
    BY <1>1, <1>3, <2>5, <2>6, <2>7 DEF HorizonInv
<1> QED
  BY <1>4, <1>5

(* The steps that leave the buffer and what was received as they are.       *)
LEMMA QuietKeeps ==
    ASSUME HorizonInv, UNCHANGED <<limit, bookmark, stored, ring, floor, received, excused, overrides>>,
           published' \in 0 .. MaxRecords, published' >= published,
           aged' \in 0 .. published', aged' >= aged, tries' \in Nat,
           sent' \in 0 .. published', sent' <= sent \/ sent' = bookmark,
           overrides = MaxOverrides /\ BufferCovers => floor <= sent' /\ bookmark <= sent' + Overlap, InReach'
    PROVE  HorizonInv'
<1>0. /\ published \in Nat /\ aged \in Nat /\ bookmark \in Nat /\ sent \in Nat /\ Overlap \in Nat
      /\ floor \in Nat /\ \A u \in Records : u \in Nat
  BY HorizonNumbers DEF HorizonInv
<1>1. HorizonRanges'
  BY <1>0, HorizonNumbers DEF HorizonInv, HorizonRanges
<1>2. HandledSoFar'
  <2>1. \A u \in Records : u <= sent' => u <= sent \/ u <= bookmark
    BY <1>0, HorizonNumbers DEF HorizonInv
  <2> QED
    BY <2>1 DEF HorizonInv, HandledSoFar, Handled
<1>3. ASSUME overrides = MaxOverrides, BufferCovers PROVE OnceSoFar'
  <2>1. \A u \in Records : (u <= aged => u <= aged') /\ (aged' < u => aged < u)
    BY <1>0, HorizonNumbers DEF HorizonInv
  <2> QED
    BY <1>3, <2>1 DEF HorizonInv, OnceSoFar, Kept, KeptAt
<1> QED
  BY <1>1, <1>2, <1>3 DEF HorizonInv

LEMMA HorizonStepKeeps == HorizonInv /\ [HorizonNext]_horizonVars => HorizonInv'
<1> SUFFICES ASSUME HorizonInv, [HorizonNext]_horizonVars PROVE HorizonInv'
  OBVIOUS
<1>0. /\ published \in Nat /\ aged \in Nat /\ bookmark \in Nat /\ sent \in Nat /\ Overlap \in Nat
      /\ floor \in Nat /\ overrides \in Nat /\ tries \in Nat /\ limit \in Nat /\ MaxRecords \in Nat
      /\ MaxOverrides \in Nat /\ published <= MaxRecords
      /\ \A u \in Records : u \in Nat /\ u > 0
      /\ aged <= published /\ sent <= published /\ bookmark <= published /\ floor <= published
  BY HorizonNumbers DEF HorizonInv, HorizonRanges
<1>a. overrides = MaxOverrides /\ BufferCovers => floor <= sent /\ bookmark <= sent + Overlap
  BY DEF HorizonInv, OnceSoFar
<1>b. HorizonRanges /\ InReach
  BY DEF HorizonInv
<1>1. CASE RecordPublished \/ RecordAges
  <2>1. /\ UNCHANGED <<limit, stream, sent, bookmark, stored, ring, ringing, idle, tries,
                       floor, received, excused, overrides>>
        /\ published' \in 0 .. MaxRecords /\ published' >= published
        /\ aged' \in 0 .. published' /\ aged' >= aged
    BY <1>0, <1>1 DEF RecordPublished, RecordAges, historyVars
  <2>2. InReach'
    BY <1>b, <2>1 DEF InReach
  <2> QED
    BY <1>0, <1>a, <2>1, <2>2, QuietKeeps
<1>2. CASE StopStream
  <2>1. /\ idle' = TRUE
        /\ UNCHANGED <<limit, published, aged, sent, bookmark, stored, ring, tries,
                       floor, received, excused, overrides>>
    BY <1>2 DEF StopStream, historyVars
  <2>2. InReach'
    BY <2>1 DEF InReach
  <2> QED
    BY <1>0, <1>a, <2>1, <2>2, QuietKeeps
<1>3. CASE StreamOpens
  <2>1. /\ stream' = "open"
        /\ UNCHANGED <<limit, published, aged, sent, bookmark, stored, ring, tries,
                       floor, received, excused, overrides>>
    BY <1>3 DEF StreamOpens, historyVars
  <2>2. InReach'
    BY <2>1 DEF InReach
  <2> QED
    BY <1>0, <1>a, <2>1, <2>2, QuietKeeps
<1>4. CASE ServerRepeats
  <2>1. /\ stream' = "open"
        /\ UNCHANGED <<limit, published, aged, bookmark, stored, ring, tries,
                       floor, received, excused, overrides>>
    BY <1>4 DEF ServerRepeats, historyVars
  <2>2. InReach'
    BY <2>1 DEF InReach
  <2>3. PICK p \in floor .. sent : sent' = p /\ p < sent /\ bookmark <= p + Overlap
    BY <1>4 DEF ServerRepeats
  <2>4. p \in Nat /\ floor <= p /\ p <= sent /\ p <= published
    BY <1>0, <2>3
  <2>5. /\ sent' \in 0 .. published' /\ sent' <= sent
        /\ floor <= sent' /\ bookmark <= sent' + Overlap
    BY <1>0, <2>1, <2>3, <2>4
  <2>6. /\ published' \in 0 .. MaxRecords /\ published' >= published
        /\ aged' \in 0 .. published' /\ aged' >= aged /\ tries' \in Nat
    BY <1>0, <2>1
  <2>7. UNCHANGED <<limit, bookmark, stored, ring, floor, received, excused, overrides>>
    BY <2>1
  <2> QED
    BY <2>2, <2>5, <2>6, <2>7, QuietKeeps
<1>5. CASE OnError
  <2>1. /\ tries' = tries + 1 /\ ringing' = (tries' <= limit)
        /\ UNCHANGED <<limit, published, aged, sent, bookmark, stored, ring,
                       floor, received, excused, overrides>>
    BY <1>5 DEF OnError, historyVars
  <2>2. InReach'
    <3>1. CASE tries' <= limit
      BY <2>1, <3>1 DEF InReach
    <3>2. CASE ~(tries' <= limit)
      BY <1>0, <2>1, <3>2 DEF InReach
    <3> QED
      BY <3>1, <3>2
  <2> QED
    BY <1>0, <1>a, <2>1, <2>2, QuietKeeps
<1>6. CASE Reconnect
  <2>1. /\ stream' = "connecting" /\ sent' = bookmark /\ tries' = 0
        /\ UNCHANGED <<limit, published, aged, bookmark, stored, ring,
                       floor, received, excused, overrides>>
    BY <1>6 DEF Reconnect, historyVars
  <2>2. InReach'
    BY <2>1 DEF InReach
  <2>3. overrides = MaxOverrides /\ BufferCovers => floor <= bookmark /\ bookmark <= bookmark + Overlap
    <3>1. CASE overrides = MaxOverrides /\ BufferCovers
      <4>1. floor <= bookmark
        BY <3>1 DEF HorizonInv, OnceSoFar
      <4> QED
        BY <1>0, <4>1
    <3> QED
      BY <3>1
  <2> QED
    BY <1>0, <2>1, <2>2, <2>3, QuietKeeps
<1>7. CASE StartStream
  <2>1. /\ bookmark' = stored /\ ring' = <<>> /\ stream' = "connecting" /\ sent' = stored
        /\ floor' = stored /\ tries' = 0 /\ stored = bookmark
        /\ UNCHANGED <<limit, published, aged, stored, received, excused, overrides>>
    BY <1>b, <1>7 DEF StartStream, HorizonRanges
  <2>2. ring' \in Seq(Records) /\ Len(ring') = 0
    BY <2>1
  <2>3. HorizonRanges'
    BY <1>0, <1>b, <2>1, <2>2, HorizonBounds DEF HorizonRanges
  <2>4. HandledSoFar'
    BY <2>1, <2>2 DEF HorizonInv, HandledSoFar, Handled
  <2>5. InReach'
    BY <2>1 DEF InReach
  <2>6. ASSUME overrides = MaxOverrides, BufferCovers PROVE OnceSoFar'
    <3>1. floor' <= sent' /\ bookmark' <= sent' + Overlap /\ bookmark' = bookmark
      BY <1>0, <2>1
    <3>2. \A f \in Records : ~(floor' < f /\ f <= bookmark')
      BY <1>0, <2>1
    <3>3. \A u \in Records : /\ received[u] <= 1 /\ (received[u] > 0 => u <= bookmark)
                             /\ u \in excused => u <= aged
      BY <2>6 DEF HorizonInv, OnceSoFar
    <3> QED
      BY <2>1, <3>1, <3>2, <3>3 DEF OnceSoFar
  <2> QED
    BY <2>1, <2>3, <2>4, <2>5, <2>6 DEF HorizonInv
<1>8. ASSUME NEW t \in 0 .. published, OverrideCursor(t) PROVE HorizonInv'
  <2>1. /\ bookmark' = t /\ stored' = t /\ excused' = excused \cup 1 .. t /\ overrides' = overrides - 1
        /\ overrides > 0
        /\ UNCHANGED <<limit, published, aged, stream, sent, ring, ringing, idle, tries, floor, received>>
    BY <1>8 DEF OverrideCursor
  <2>2. t \in Nat /\ 1 .. t \subseteq Records
    BY <1>0 DEF Records
  <2>3. HorizonRanges'
    BY <1>0, <1>b, <2>1, <2>2 DEF HorizonRanges
  <2>4. HandledSoFar'
    <3>1. \A u \in Records : Handled(u) \/ u <= t => Handled(u)'
      BY <1>0, <2>1, <2>2 DEF Handled
    <3>2. \A i \in 1 .. Len(ring) : ring[i] \in Records
      BY <1>b DEF HorizonRanges
    <3>3. \A u \in Records : u <= sent \/ u <= t => Handled(u)'
      BY <3>1 DEF HorizonInv, HandledSoFar
    <3>4. \A i \in 1 .. Len(ring) : \E u \in Records : u = ring[i] /\ Handled(u)'
      BY <3>1, <3>2 DEF HorizonInv, HandledSoFar
    <3> QED
      BY <2>1, <3>3, <3>4 DEF HandledSoFar, Handled
  <2>5. InReach'
    BY <1>b, <2>1 DEF InReach
  <2>6. overrides' # MaxOverrides
    BY <1>0, <1>b, <2>1 DEF HorizonRanges
  <2> QED
    BY <2>1, <2>3, <2>4, <2>5, <2>6 DEF HorizonInv
<1>9. CASE UNCHANGED horizonVars
  BY <1>9 DEF horizonVars, HorizonInv, HorizonRanges, HandledSoFar, Handled, OnceSoFar, Kept, KeptAt, InReach
<1> QED
  BY <1>1, <1>2, <1>3, <1>4, <1>5, <1>6, <1>7, <1>8, <1>9, OnMessageKeeps DEF HorizonNext

LEMMA HorizonInvAlways == HorizonSpec => []HorizonInv
<1>1. HorizonInit => HorizonInv
  <2> SUFFICES ASSUME HorizonInit PROVE HorizonInv
    OBVIOUS
  <2>1. ring \in Seq(Records) /\ Len(ring) = 0
    BY DEF HorizonInit
  <2>2. HorizonRanges
    BY <2>1, HorizonBounds DEF HorizonInit, HorizonRanges
  <2>3. \A u \in Records : u \in Nat /\ u > 0
    BY DEF Records
  <2> QED
    BY <2>1, <2>2, <2>3, HorizonBounds DEF HorizonInit, HorizonInv, HandledSoFar, OnceSoFar, InReach
<1> QED
  BY <1>1, HorizonStepKeeps, PTL DEF HorizonSpec

(* However far back the server goes and whatever setCursor() is told: what  *)
(* lies behind the stream was given to the handler or dropped for its age,  *)
(* or jumped over by setCursor(); and the manager never loses its stream    *)
(* for good without stopping or giving up.                                  *)
THEOREM RecordsNeverLost == HorizonSpec => [](HandledSoFar /\ InReach)
<1>1. HorizonInv => HandledSoFar /\ InReach
  BY DEF HorizonInv
<1> QED
  BY <1>1, HorizonInvAlways, PTL

(* Until setCursor() is called, moreover, no record is given to the handler *)
(* twice, as long as the server goes back no further than the buffer can    *)
(* cover.                                                                   *)
THEOREM RecordsReachHandlerOnce == BufferCovers => (HorizonSpec => []RecordsOnceInReach)
<1> SUFFICES ASSUME BufferCovers PROVE HorizonSpec => []RecordsOnceInReach
  OBVIOUS
<1>1. HorizonInv => RecordsOnceInReach
  <2> SUFFICES ASSUME HorizonInv PROVE RecordsOnceInReach
    OBVIOUS
  <2>1. ASSUME NEW u \in 1 .. bookmark PROVE received[u] > 0 \/ u \in excused
    <3>1. u \in Records /\ u <= bookmark
      BY HorizonNumbers DEF HorizonInv, HorizonRanges, Records
    <3> QED
      BY <3>1 DEF HorizonInv, HandledSoFar, Handled
  <2> QED
    BY <2>1 DEF HorizonInv, OnceSoFar, InReach, RecordsOnceInReach
<1> QED
  BY <1>1, HorizonInvAlways, PTL
=============================================================================
