--------------------------- MODULE LimiterProofs ---------------------------
(***************************************************************************)
(* Proofs about the rate limiter: what the bucket and the counters say of  *)
(* the requests granted so far, for any rate, budget, window and number of *)
(* callers, and whom a round through the queue may pass over.              *)
(***************************************************************************)
EXTENDS RateLimiter, BasicLemmas, FiniteSetTheorems

(* A log says of each request where it stands; the variable calls is one,   *)
(* and a round through the queue builds others on its way.                  *)
Logs == [Callers -> [pc : CallStates, key : Ids, ago : 0 .. Window]]
IsGranted(log, c) == log[c].pc = "granted"
GrantedIn(log, ks, ticks) ==
    {c \in Callers : IsGranted(log, c) /\ log[c].key \in ks /\ log[c].ago < ticks}
GrantsIn(log, ks, ticks) == Cardinality(GrantedIn(log, ks, ticks))
Grant(log, c, k) == [log EXCEPT ![c] = [pc |-> "granted", key |-> k, ago |-> 0]]

(* The bucket's side of the books.  In the window that began with the last  *)
(* refill the requests granted took the units that are missing, and those   *)
(* granted in the last Window ticks took at most as many again as the       *)
(* bucket holds.  A bucket whose window is over has granted nothing since.  *)
TokensAgree(tokens, age, log) ==
    /\ age < Window =>
          /\ GrantsIn(log, Ids, age + 1) * Cost <= setting.max - tokens
          /\ GrantsIn(log, Ids, Window) * Cost <= 2 * setting.max - tokens
    /\ age >= Window =>
          /\ GrantsIn(log, Ids, Window) * Cost <= setting.max - tokens
          /\ \A c \in Callers : IsGranted(log, c) => log[c].ago > age - Window \/ log[c].ago = Window

(* The counters' side: a counter in its window has counted what was granted *)
(* to its key since the window began, and less than one budget before; a    *)
(* key whose counter lapsed or was pruned was granted at most one budget,   *)
(* and nothing in this tick.                                                *)
Current(store, k, log) ==
    \E i \in DOMAIN store :
        /\ store[i].key = k /\ store[i].age < Window
        /\ GrantsIn(log, {k}, store[i].age + 1) <= store[i].count
        /\ GrantsIn(log, {k}, Window) <= setting.perKey + store[i].count

Lapsed(store, k, log) ==
    /\ \A i \in DOMAIN store : store[i].key = k => store[i].age = Window
    /\ GrantsIn(log, {k}, 1) = 0
    /\ GrantsIn(log, {k}, Window) <= setting.perKey

KeysAgree(store, log) ==
    CountersKept /\ setting.perKey > 0 =>
        \A k \in Keys : Current(store, k, log) \/ Lapsed(store, k, log)

(* The store: one counter for a key, no more counters than may be tracked.  *)
KeysDiffer(store) ==
    \A i, j \in 1 .. Len(store) : store[i].key = store[j].key => i = j

Stores ==
    {store \in Seq(Counters) :
        /\ Len(store) <= setting.tracked
        /\ KeysDiffer(store)
        /\ \A i \in 1 .. Len(store) : store[i].count <= setting.perKey}

Buckets == [tokens : (1 - Cost) .. setting.max, age : 0 .. (MaxIdle + 1) * Window, store : Stores]

(* Requests wait in the queue, once each, and not elsewhere.                *)
QueueAgrees ==
    /\ NoRepetition(requestQueue)
    /\ ToSet(requestQueue) = {c \in Callers : calls[c].pc = "waiting"}
    /\ \A c \in Callers : calls[c].pc # "granted" => calls[c].ago = 0

LimiterInv ==
    /\ setting \in Settings /\ bucket \in Buckets /\ calls \in Logs
    /\ requestQueue \in Seq(Callers) /\ timer \in {NoTimer} \cup 0 .. Window
    /\ TokensAgree(bucket.tokens, bucket.age, calls)
    /\ KeysAgree(bucket.store, calls)
    /\ QueueAgrees

-----------------------------------------------------------------------------
(* Counting the granted requests.                                           *)
LEMMA GrantsAreCounted ==
    ASSUME NEW log, NEW ks, NEW ticks
    PROVE  /\ IsFiniteSet(GrantedIn(log, ks, ticks))
           /\ GrantsIn(log, ks, ticks) \in Nat
           /\ GrantsIn(log, ks, ticks) = 0 <=> GrantedIn(log, ks, ticks) = {}
<1>1. IsFiniteSet(Callers)
  BY RequestsNatural, FS_Interval DEF Callers
<1>2. GrantedIn(log, ks, ticks) \in SUBSET Callers
  BY DEF GrantedIn
<1>3. IsFiniteSet(GrantedIn(log, ks, ticks))
  BY <1>1, <1>2, FS_Subset
<1> QED
  BY <1>3, FS_CardinalityType, FS_EmptySet DEF GrantsIn

LEMMA GrantsOfFewer ==
    ASSUME NEW log1, NEW ks1, NEW ticks1, NEW log2, NEW ks2, NEW ticks2,
           GrantedIn(log1, ks1, ticks1) \subseteq GrantedIn(log2, ks2, ticks2)
    PROVE  GrantsIn(log1, ks1, ticks1) <= GrantsIn(log2, ks2, ticks2)
BY GrantsAreCounted, FS_Subset DEF GrantsIn

(* A grant counts once for its key, in every interval, and not for others.  *)
LEMMA GrantIsOne ==
    ASSUME NEW log \in Logs, NEW c \in Callers, NEW k \in Ids, ~IsGranted(log, c),
           NEW ks, NEW ticks \in Nat \ {0}
    PROVE  /\ Grant(log, c, k) \in Logs
           /\ k \in ks => GrantsIn(Grant(log, c, k), ks, ticks) = GrantsIn(log, ks, ticks) + 1
           /\ k \notin ks => GrantsIn(Grant(log, c, k), ks, ticks) = GrantsIn(log, ks, ticks)
<1> DEFINE after == Grant(log, c, k)
<1>1. 0 \in 0 .. Window /\ "granted" \in CallStates
  BY LimiterSizes DEF CallStates
<1>2. after \in Logs
  BY <1>1 DEF Grant, Logs
<1>3. /\ after[c] = [pc |-> "granted", key |-> k, ago |-> 0]
      /\ \A d \in Callers : d # c => after[d] = log[d]
  BY DEF Grant, Logs
<1> HIDE DEF after
<1>4. c \notin GrantedIn(log, ks, ticks)
  BY DEF GrantedIn
<1>5. CASE k \in ks
  <2>1. GrantedIn(after, ks, ticks) = GrantedIn(log, ks, ticks) \cup {c}
    BY <1>3, <1>5 DEF GrantedIn, IsGranted
  <2> QED
    BY <1>2, <1>4, <1>5, <2>1, GrantsAreCounted, FS_AddElement DEF GrantsIn, after
<1>6. CASE k \notin ks
  <2>1. GrantedIn(after, ks, ticks) = GrantedIn(log, ks, ticks)
    BY <1>3, <1>4, <1>6 DEF GrantedIn, IsGranted
  <2> QED
    BY <1>2, <1>6, <2>1 DEF GrantsIn, after
<1> QED
  BY <1>5, <1>6

(* A tick makes every grant one tick older.                                 *)
LogAged(log) ==
    [c \in Callers |-> IF IsGranted(log, c) THEN [log[c] EXCEPT !.ago = Lesser(Window, @ + 1)]
                       ELSE log[c]]

LEMMA GrantsAge ==
    ASSUME NEW log \in Logs, NEW ks
    PROVE  /\ LogAged(log) \in Logs
           /\ \A ticks \in Nat : ticks < Window =>
                 GrantsIn(LogAged(log), ks, ticks + 1) <= GrantsIn(log, ks, ticks)
           /\ GrantsIn(LogAged(log), ks, 1) = 0
           /\ GrantsIn(LogAged(log), ks, Window) <= GrantsIn(log, ks, Window)
           /\ \A c \in Callers : /\ LogAged(log)[c].pc = log[c].pc
                                 /\ LogAged(log)[c].key = log[c].key
                                 /\ LogAged(log)[c].ago =
                                       IF IsGranted(log, c) THEN Lesser(Window, log[c].ago + 1)
                                       ELSE log[c].ago
<1> DEFINE after == LogAged(log)
<1>1. \A c \in Callers : /\ log[c] \in [pc : CallStates, key : Ids, ago : 0 .. Window]
                         /\ log[c].ago \in 0 .. Window
  BY DEF Logs
<1>2. \A c \in Callers : /\ after[c].pc = log[c].pc /\ after[c].key = log[c].key
                         /\ after[c].ago = IF IsGranted(log, c) THEN Lesser(Window, log[c].ago + 1)
                                           ELSE log[c].ago
  BY <1>1 DEF LogAged
<1>3. \A n \in 0 .. Window : Lesser(Window, n + 1) \in 0 .. Window
  BY LimiterSizes DEF Lesser
<1>4. after \in Logs
  BY <1>1, <1>3 DEF LogAged, Logs
<1> HIDE DEF after
<1>5. ASSUME NEW ticks \in Nat, ticks < Window
      PROVE  GrantedIn(after, ks, ticks + 1) \subseteq GrantedIn(log, ks, ticks)
  BY <1>1, <1>2, <1>5, LimiterSizes DEF GrantedIn, IsGranted, Lesser
<1>6. GrantedIn(after, ks, Window) \subseteq GrantedIn(log, ks, Window)
  BY <1>1, <1>2, LimiterSizes DEF GrantedIn, IsGranted, Lesser
<1>7. GrantedIn(after, ks, 1) = {}
  <2>1. GrantedIn(log, ks, 0) = {}
    BY <1>1 DEF GrantedIn
  <2>2. 0 < Window /\ 0 + 1 = 1
    BY LimiterSizes
  <2> QED
    BY <1>5, <2>1, <2>2
<1>8. \A ticks \in Nat : ticks < Window =>
          GrantsIn(after, ks, ticks + 1) <= GrantsIn(log, ks, ticks)
  BY <1>5, GrantsOfFewer
<1>9. GrantsIn(after, ks, Window) <= GrantsIn(log, ks, Window)
  BY <1>6, GrantsOfFewer
<1>10. GrantsIn(after, ks, 1) = 0
  BY <1>7, GrantsAreCounted
<1> QED
  BY <1>2, <1>4, <1>8, <1>9, <1>10 DEF after

-----------------------------------------------------------------------------
(* The bucket.  Refilling it when its window is over leaves the books in    *)
(* agreement: what was owed is subtracted from the new window's units.      *)
LEMMA Windows ==
    ASSUME NEW age \in Nat
    PROVE  /\ age % Window \in 0 .. Window - 1 /\ age \div Window \in Nat
           /\ age < Window => age % Window = age /\ age \div Window = 0
           /\ age >= Window => age \div Window >= 1 /\ age % Window <= age - Window
           /\ age >= 2 * Window => age \div Window >= 2
           /\ age >= Window /\ age < 2 * Window => age \div Window = 1
<1> DEFINE q == age \div Window
           r == age % Window
<1>1. Window \in Nat /\ Window > 0
  BY LimiterSizes
<1>2. q \in Int /\ r \in 0 .. Window - 1 /\ age = Window * q + r
  BY <1>1
<1> HIDE DEF q, r
<1>3. q \in Nat
  BY <1>1, <1>2
<1>4. age >= Window => q >= 1
  BY <1>1, <1>2, <1>3
<1>5. age >= 2 * Window => q >= 2
  BY <1>1, <1>2, <1>3
<1>6. age < Window => q = 0 /\ r = age
  BY <1>1, <1>2, <1>3
<1>7. q >= 1 => Window * q >= Window
  BY <1>1, <1>3
<1>8. age < 2 * Window => q < 2
  BY <1>1, <1>2, <1>3
<1> QED
  BY <1>1, <1>2, <1>3, <1>4, <1>5, <1>6, <1>7, <1>8 DEF q, r

LEMMA SettingIs ==
    ASSUME setting \in Settings
    PROVE  /\ setting.max \in Nat \ {0} /\ setting.perKey \in Nat
           /\ setting.tracked \in Nat \ {0} /\ setting.clears \in BOOLEAN
BY ValidSettings

LEMMA BucketIs ==
    ASSUME NEW b \in Buckets
    PROVE  /\ b.tokens \in (1 - Cost) .. setting.max /\ b.age \in 0 .. (MaxIdle + 1) * Window
           /\ b.age \in Nat /\ b.store \in Stores
           /\ \A t \in (1 - Cost) .. setting.max : [b EXCEPT !.tokens = t] \in Buckets
           /\ \A store \in Stores : [b EXCEPT !.store = store] \in Buckets
<1>1. MaxIdle \in Nat /\ Window \in Nat /\ (MaxIdle + 1) * Window \in Nat
  BY LimiterSizes
<1> QED
  BY <1>1 DEF Buckets

LEMMA TokensRefilled ==
    ASSUME setting \in Settings, NEW b \in Buckets
    PROVE  /\ Refilled(b) \in Buckets /\ Refilled(b).store = b.store
           /\ Refilled(b).age = b.age % Window /\ Refilled(b).age < Window
           /\ b.age < Window => Refilled(b) = b
           /\ b.age >= Window /\ b.age < 2 * Window => Refilled(b).tokens <= b.tokens + setting.max
<1> DEFINE tokens == Lesser(setting.max, b.tokens + (b.age \div Window) * setting.max)
           age == b.age % Window
<1>1. /\ setting.max \in Nat \ {0} /\ b.tokens \in (1 - Cost) .. setting.max /\ b.age \in Nat
      /\ Cost \in Nat \ {0} /\ Window \in Nat \ {0} /\ MaxIdle \in Nat \ {0}
  BY SettingIs, BucketIs, LimiterSizes
<1>2. /\ age \in 0 .. Window - 1 /\ b.age \div Window \in Nat
      /\ b.age < Window => age = b.age /\ b.age \div Window = 0
      /\ b.age >= Window /\ b.age < 2 * Window => b.age \div Window = 1
  BY <1>1, Windows
<1>3. (b.age \div Window) * setting.max \in Nat
  BY <1>1, <1>2
<1>4. tokens \in (1 - Cost) .. setting.max /\ tokens <= b.tokens + (b.age \div Window) * setting.max
  BY <1>1, <1>3 DEF Lesser
<1>5. b.age < Window => tokens = b.tokens
  BY <1>1, <1>2 DEF Lesser
<1>6. Refilled(b) = [b EXCEPT !.tokens = tokens, !.age = age]
  BY DEF Refilled
<1> HIDE DEF tokens, age
<1>7. age \in 0 .. (MaxIdle + 1) * Window
  <2>1. (MaxIdle + 1) * Window = MaxIdle * Window + Window /\ MaxIdle * Window \in Nat
    BY <1>1
  <2> QED
    BY <1>1, <1>2, <2>1
<1>8. Refilled(b) \in Buckets /\ Refilled(b).store = b.store /\ Refilled(b).age = age
      /\ Refilled(b).tokens = tokens
  BY <1>4, <1>6, <1>7 DEF Buckets
<1>9. b.age < Window => Refilled(b) = b
  BY <1>2, <1>5, <1>6 DEF Buckets
<1>10. b.age >= Window /\ b.age < 2 * Window => tokens <= b.tokens + setting.max
  BY <1>1, <1>2, <1>4
<1> QED
  BY <1>1, <1>2, <1>8, <1>9, <1>10 DEF age

LEMMA RefillKeepsBooks ==
    ASSUME setting \in Settings, NEW b \in Buckets, NEW log \in Logs,
           TokensAgree(b.tokens, b.age, log)
    PROVE  TokensAgree(Refilled(b).tokens, Refilled(b).age, log)
<1> DEFINE full == Refilled(b)
           used == GrantsIn(log, Ids, Window)
           now == GrantsIn(log, Ids, full.age + 1)
<1>1. CASE b.age < Window
  BY <1>1, TokensRefilled
<1>2. CASE b.age >= Window
  <2>1. /\ setting.max \in Nat \ {0} /\ b.tokens \in (1 - Cost) .. setting.max /\ b.age \in Nat
        /\ Cost \in Nat \ {0} /\ Window \in Nat \ {0}
    BY SettingIs, BucketIs, LimiterSizes
  <2>2. /\ full \in Buckets /\ full.age = b.age % Window /\ full.age < Window
        /\ b.age < 2 * Window => full.tokens <= b.tokens + setting.max
    BY <1>2, TokensRefilled
  <2>3. full.tokens \in (1 - Cost) .. setting.max /\ full.age \in Nat
    BY <2>2, BucketIs
  <2>4. full.age <= b.age - Window
    BY <1>2, <2>1, <2>2, Windows
  <2>5. \A c \in Callers : IsGranted(log, c) => log[c].ago > b.age - Window \/ log[c].ago = Window
    BY <1>2 DEF TokensAgree
  <2>6. \A c \in Callers : log[c].ago \in 0 .. Window
    BY DEF Logs
  <2>7. now = 0
    <3>1. GrantedIn(log, Ids, full.age + 1) = {}
      BY <2>1, <2>2, <2>3, <2>4, <2>5, <2>6 DEF GrantedIn
    <3> QED
      BY <3>1, GrantsAreCounted
  <2>8. used * Cost <= 2 * setting.max - full.tokens
    <3>1. CASE b.age < 2 * Window
      <4>1. used * Cost <= setting.max - b.tokens /\ used \in Nat
        BY <1>2, GrantsAreCounted DEF TokensAgree
      <4>2. used * Cost \in Int
        BY <2>1, <4>1
      <4> HIDE DEF used
      <4> QED
        BY <2>1, <2>2, <2>3, <3>1, <4>1, <4>2
    <3>2. CASE b.age >= 2 * Window
      <4>1. GrantedIn(log, Ids, Window) = {}
        BY <2>1, <2>5, <2>6, <3>2 DEF GrantedIn
      <4>2. used = 0
        BY <4>1, GrantsAreCounted
      <4> QED
        BY <2>1, <2>3, <4>2
    <3> QED
      BY <2>1, <3>1, <3>2
  <2>9. now * Cost <= setting.max - full.tokens
    BY <2>1, <2>3, <2>7
  <2> QED
    BY <2>1, <2>2, <2>3, <2>8, <2>9 DEF TokensAgree
<1> QED
  BY <1>1, <1>2, BucketIs, LimiterSizes

LEMMA FewerCostLess ==
    ASSUME NEW m \in Nat, NEW n \in Nat
    PROVE  /\ m * Cost \in Nat /\ n * Cost \in Nat
           /\ m <= n => m * Cost <= n * Cost
           /\ (m + 1) * Cost = m * Cost + Cost
BY LimiterSizes

(* A grant takes its cost.                                                  *)
LEMMA TakingKeepsBooks ==
    ASSUME setting \in Settings, NEW tokens \in Int, NEW age \in Nat, age < Window, NEW log \in Logs,
           TokensAgree(tokens, age, log), NEW c \in Callers, NEW k \in Ids, ~IsGranted(log, c)
    PROVE  TokensAgree(tokens - Cost, age, Grant(log, c, k))
<1> DEFINE now == GrantsIn(log, Ids, age + 1)
           used == GrantsIn(log, Ids, Window)
<1>1. /\ GrantsIn(Grant(log, c, k), Ids, age + 1) = now + 1
      /\ GrantsIn(Grant(log, c, k), Ids, Window) = used + 1
  <2>1. age + 1 \in Nat \ {0} /\ Window \in Nat \ {0}
    BY LimiterSizes
  <2> QED
    BY <2>1, GrantIsOne
<1>2. now \in Nat /\ used \in Nat
  BY GrantsAreCounted
<1>3. now * Cost <= setting.max - tokens /\ used * Cost <= 2 * setting.max - tokens
  BY DEF TokensAgree
<1> HIDE DEF now, used
<1>4. setting.max \in Nat /\ Cost \in Nat /\ Window \in Nat
  BY SettingIs, LimiterSizes
<1>5. /\ (now + 1) * Cost <= setting.max - (tokens - Cost)
      /\ (used + 1) * Cost <= 2 * setting.max - (tokens - Cost)
  BY <1>2, <1>3, <1>4, FewerCostLess
<1> QED
  BY <1>1, <1>4, <1>5 DEF TokensAgree

(* Time passes.                                                             *)
LEMMA TickKeepsBooks ==
    ASSUME setting \in Settings, NEW b \in Buckets, NEW log \in Logs,
           TokensAgree(b.tokens, b.age, log)
    PROVE  /\ Aged(b.age) \in 0 .. (MaxIdle + 1) * Window
           /\ TokensAgree(b.tokens, Aged(b.age), LogAged(log))
<1> DEFINE used == GrantsIn(log, Ids, Window)
           usedLater == GrantsIn(LogAged(log), Ids, Window)
           now == GrantsIn(log, Ids, b.age + 1)
           nowLater == GrantsIn(LogAged(log), Ids, Aged(b.age) + 1)
           limit == (MaxIdle + 1) * Window
<1>1. /\ setting.max \in Nat \ {0} /\ b.tokens \in Int /\ b.age \in 0 .. limit
      /\ Cost \in Nat \ {0} /\ Window \in Nat \ {0}
  BY SettingIs, BucketIs, LimiterSizes
<1>2. limit \in Nat /\ limit >= 2 * Window
  <2>1. MaxIdle \in Nat /\ MaxIdle >= 1
    BY LimiterSizes
  <2>2. MaxIdle * Window >= Window /\ MaxIdle * Window \in Nat
    BY <1>1, <2>1
  <2>3. limit = MaxIdle * Window + Window
    BY <1>1, <2>1
  <2> QED
    BY <1>1, <2>2, <2>3
<1> HIDE DEF limit
<1>3. Aged(b.age) = IF b.age + 1 < limit THEN b.age + 1 ELSE b.age + 1 - Window
  BY DEF Aged, limit
<1>4. Aged(b.age) \in 0 .. limit
  BY <1>1, <1>2, <1>3
<1> SUFFICES TokensAgree(b.tokens, Aged(b.age), LogAged(log))
  BY <1>4 DEF limit
<1>5. usedLater <= used /\ used \in Nat /\ usedLater \in Nat /\ now \in Nat /\ nowLater \in Nat
  BY GrantsAge, GrantsAreCounted
<1>6. usedLater * Cost <= used * Cost /\ usedLater * Cost \in Nat /\ used * Cost \in Nat
  BY <1>5, FewerCostLess
<1>7. \A c \in Callers : /\ IsGranted(LogAged(log), c) <=> IsGranted(log, c)
                         /\ IsGranted(log, c) => LogAged(log)[c].ago = Lesser(Window, log[c].ago + 1)
                         /\ log[c].ago \in 0 .. Window
  BY GrantsAge DEF IsGranted, Logs
<1>8. CASE b.age < Window
  <2>1. now * Cost <= setting.max - b.tokens /\ used * Cost <= 2 * setting.max - b.tokens
    BY <1>8 DEF TokensAgree
  <2>2. Aged(b.age) = b.age + 1
    BY <1>1, <1>2, <1>3, <1>8
  <2>3. CASE b.age + 1 < Window
    <3>1. nowLater <= now
      BY <1>1, <2>2, <2>3, GrantsAge
    <3>2. nowLater * Cost <= now * Cost /\ nowLater * Cost \in Nat /\ now * Cost \in Nat
      BY <1>5, <3>1, FewerCostLess
    <3>3. nowLater * Cost <= setting.max - b.tokens /\ usedLater * Cost <= 2 * setting.max - b.tokens
      <4> HIDE DEF now, used, nowLater, usedLater
      <4> QED
        BY <1>1, <1>6, <2>1, <3>2
    <3>4. Aged(b.age) < Window
      BY <2>2, <2>3
    <3> QED
      BY <1>1, <1>2, <1>4, <3>3, <3>4 DEF TokensAgree
  <2>4. CASE b.age + 1 = Window
    <3>1. now = used
      BY <2>4
    <3>2. usedLater * Cost <= setting.max - b.tokens
      <4> HIDE DEF now, used, nowLater, usedLater
      <4> QED
        BY <1>1, <1>6, <2>1, <3>1
    <3>3. \A c \in Callers : IsGranted(LogAged(log), c) => LogAged(log)[c].ago > Aged(b.age) - Window
      BY <1>1, <1>7, <2>2, <2>4 DEF Lesser
    <3> QED
      BY <1>1, <1>2, <1>4, <2>2, <2>4, <3>2, <3>3 DEF TokensAgree
  <2> QED
    BY <1>1, <1>8, <2>3, <2>4
<1>9. CASE b.age >= Window
  <2>1. used * Cost <= setting.max - b.tokens
    BY <1>9 DEF TokensAgree
  <2>2. \A c \in Callers : IsGranted(log, c) => log[c].ago > b.age - Window \/ log[c].ago = Window
    BY <1>9 DEF TokensAgree
  <2>3. usedLater * Cost <= setting.max - b.tokens
    <3> HIDE DEF used, usedLater
    <3> QED
      BY <1>1, <1>6, <2>1
  <2>4. Aged(b.age) >= Window
    BY <1>1, <1>2, <1>3, <1>9
  <2>5. \A c \in Callers : IsGranted(LogAged(log), c) =>
           LogAged(log)[c].ago > Aged(b.age) - Window \/ LogAged(log)[c].ago = Window
    <3>1. CASE b.age + 1 < limit
      BY <1>1, <1>3, <1>7, <2>2, <3>1 DEF Lesser
    <3>2. CASE b.age + 1 >= limit
      <4> TAKE c \in Callers
      <4> HAVE IsGranted(LogAged(log), c)
      <4>1. log[c].ago \in 0 .. Window /\ (log[c].ago > b.age - Window \/ log[c].ago = Window)
        BY <1>7, <2>2
      <4>2. log[c].ago = Window
        BY <1>1, <1>2, <1>7, <3>2, <4>1
      <4>3. LogAged(log)[c].ago = Lesser(Window, Window + 1)
        BY <1>7, <4>2
      <4> QED
        BY <1>1, <4>3 DEF Lesser
    <3> QED
      BY <1>1, <1>2, <3>1, <3>2
  <2> QED
    BY <1>1, <1>2, <1>4, <2>3, <2>4, <2>5 DEF TokensAgree
<1> QED
  BY <1>1, <1>8, <1>9

-----------------------------------------------------------------------------
(* The store of counters.                                                   *)
LEMMA StoreIs ==
    ASSUME NEW store \in Stores
    PROVE  /\ store \in Seq(Counters) /\ Len(store) \in Nat /\ DOMAIN store = 1 .. Len(store)
           /\ Len(store) <= setting.tracked /\ KeysDiffer(store)
           /\ \A i \in 1 .. Len(store) :
                 /\ store[i] \in Counters /\ store[i].key \in Keys /\ store[i].age \in 0 .. Window
                 /\ store[i].count \in Nat /\ store[i].count <= setting.perKey
                 /\ store[i] = [key |-> store[i].key, age |-> store[i].age, count |-> store[i].count]
<1>1. store \in Seq(Counters) /\ Len(store) \in Nat /\ DOMAIN store = 1 .. Len(store)
  BY DEF Stores
<1>2. \A i \in 1 .. Len(store) : store[i] \in Counters
  BY <1>1
<1> QED
  BY <1>1, <1>2 DEF Stores, Counters

LEMMA FreshIs ==
    ASSUME setting \in Settings, NEW k \in Keys
    PROVE  /\ Fresh(k) \in Counters /\ Fresh(k).key = k /\ Fresh(k).age = 0 /\ Fresh(k).count = 0
           /\ Fresh(k).age < Window
BY LimiterSizes, SettingIs DEF Fresh, Counters

(* When counters are kept there is room for one more key.                   *)
LEMMA RoomForKey ==
    ASSUME setting \in Settings, NEW store \in Stores, CountersKept, NEW k \in Keys,
           ~Tracked(store, k)
    PROVE  Len(store) < setting.tracked
<1> DEFINE keyAt == [i \in 1 .. Len(store) |-> store[i].key]
           rest == Keys \ {k}
<1>1. \A i \in 1 .. Len(store) : store[i].key \in rest
  BY StoreIs DEF Tracked
<1>2. keyAt \in Injection(1 .. Len(store), rest)
  <2>1. keyAt \in [1 .. Len(store) -> rest]
    BY <1>1
  <2>2. \A i, j \in 1 .. Len(store) : keyAt[i] = keyAt[j] => i = j
    BY StoreIs DEF KeysDiffer
  <2> HIDE DEF keyAt
  <2> QED
    BY <2>1, <2>2 DEF Injection, IsInjective
<1>3. IsFiniteSet(Keys) /\ IsFiniteSet(rest) /\ Cardinality(rest) = Cardinality(Keys) - 1
      /\ Cardinality(Keys) \in Nat
  BY KeysDistinct, FS_RemoveElement, FS_CardinalityType
<1>4. Cardinality(1 .. Len(store)) <= Cardinality(rest)
  BY <1>2, <1>3, FS_Injection
<1>5. Cardinality(1 .. Len(store)) = Len(store) /\ Len(store) \in Nat
  BY StoreIs, FS_Interval
<1> HIDE DEF rest
<1>6. setting.tracked >= Cardinality(Keys) /\ setting.tracked \in Nat
  BY SettingIs DEF CountersKept
<1> QED
  BY <1>3, <1>4, <1>5, <1>6

(* A counter that was there, and where.                                     *)
LEMMA CounterIs ==
    ASSUME NEW store \in Stores, NEW k \in Keys, Tracked(store, k)
    PROVE  CounterOf(store, k) \in 1 .. Len(store) /\ store[CounterOf(store, k)].key = k
BY StoreIs DEF Tracked, CounterOf

(* Touching a key puts its counter last, rolled over or fresh, and leaves   *)
(* the others as they were; all of them, when counters are kept.            *)
NowTouched(new, store, k) ==
    /\ new \in Stores /\ Len(new) \in Nat \ {0} /\ Last(new).key = k
    /\ \/ /\ Last(new) = Fresh(k)
          /\ \A i \in 1 .. Len(store) : store[i].key = k => store[i].age = Window
       \/ \E i \in 1 .. Len(store) :
             store[i].key = k /\ store[i].age < Window /\ Last(new) = store[i]
    /\ \A j \in 1 .. Len(new) - 1 : \E i \in 1 .. Len(store) :
          store[i].key # k /\ new[j] = store[i]
    /\ CountersKept => \A i \in 1 .. Len(store) : store[i].key # k =>
          \E j \in 1 .. Len(new) - 1 : new[j] = store[i]

(* A counter is put behind some of the others.                              *)
LEMMA PuttingLast ==
    ASSUME setting \in Settings, NEW store \in Stores, NEW k \in Keys,
           NEW kept \in Seq(Counters), Len(kept) < setting.tracked, KeysDiffer(kept),
           \A j \in 1 .. Len(kept) : \E i \in 1 .. Len(store) :
              store[i].key # k /\ kept[j] = store[i],
           NEW e \in Counters, e.key = k, e.count <= setting.perKey
    PROVE  /\ Append(kept, e) \in Stores /\ Len(Append(kept, e)) = Len(kept) + 1
           /\ Len(kept) \in Nat /\ Last(Append(kept, e)) = e
           /\ \A j \in 1 .. Len(kept) : Append(kept, e)[j] = kept[j]
<1> DEFINE new == Append(kept, e)
<1>1. /\ new \in Seq(Counters) /\ Len(new) = Len(kept) + 1 /\ Len(kept) \in Nat
      /\ new[Len(kept) + 1] = e /\ \A j \in 1 .. Len(kept) : new[j] = kept[j]
  OBVIOUS
<1> HIDE DEF new
<1>2. \A j \in 1 .. Len(new) : j \in 1 .. Len(kept) \/ j = Len(kept) + 1
  BY <1>1
<1>3. \A j \in 1 .. Len(kept) : kept[j].key # k /\ kept[j].count <= setting.perKey
  BY StoreIs
<1>4. KeysDiffer(new)
  BY <1>1, <1>2, <1>3 DEF KeysDiffer
<1>5. Len(new) <= setting.tracked
  BY <1>1, SettingIs
<1>6. \A j \in 1 .. Len(new) : new[j].count <= setting.perKey
  BY <1>1, <1>2, <1>3
<1>7. new \in Stores
  BY <1>1, <1>4, <1>5, <1>6 DEF Stores
<1> QED
  BY <1>1, <1>7 DEF new, Last

LEMMA Touching ==
    ASSUME setting \in Settings, NEW store \in Stores, NEW k \in Keys
    PROVE  NowTouched(Touched(store, k), store, k)
<1> DEFINE L == Len(store)
<1>1. /\ store \in Seq(Counters) /\ L \in Nat /\ DOMAIN store = 1 .. L /\ L <= setting.tracked
      /\ setting.tracked \in Nat \ {0} /\ setting.perKey \in Nat
      /\ \A i, j \in 1 .. L : store[i].key = store[j].key => i = j
  BY StoreIs, SettingIs DEF KeysDiffer
<1>2. CASE Tracked(store, k)
  <2> DEFINE p == CounterOf(store, k)
             kept == RemoveAt(store, p)
             e == Rolled(store[p])
  <2>1. Touched(store, k) = Append(kept, e)
    BY <1>2 DEF Touched
  <2>2. p \in 1 .. L /\ store[p].key = k
    BY <1>2, CounterIs
  <2> HIDE DEF p
  <2>3. /\ kept \in Seq(Counters) /\ Len(kept) = L - 1
        /\ \A j \in 1 .. Len(kept) : kept[j] = store[IF j < p THEN j ELSE j + 1]
    BY <1>1, <2>2, RemovingShifts
  <2> HIDE DEF kept
  <2>4. \A j \in 1 .. L - 1 : /\ (IF j < p THEN j ELSE j + 1) \in 1 .. L
                              /\ (IF j < p THEN j ELSE j + 1) # p
    BY <1>1, <2>2
  <2>5. \A j \in 1 .. Len(kept) : \E i \in 1 .. L : store[i].key # k /\ kept[j] = store[i]
    <3> TAKE j \in 1 .. Len(kept)
    <3> DEFINE i == IF j < p THEN j ELSE j + 1
    <3>1. i \in 1 .. L /\ i # p /\ kept[j] = store[i]
      BY <2>3, <2>4
    <3> HIDE DEF i
    <3>2. store[i].key # k
      BY <1>1, <2>2, <3>1
    <3> QED
      BY <3>1, <3>2
  <2>6. KeysDiffer(kept)
    <3> SUFFICES ASSUME NEW i \in 1 .. L - 1, NEW j \in 1 .. L - 1, kept[i].key = kept[j].key
                 PROVE  i = j
      BY <2>3 DEF KeysDiffer
    <3> DEFINE a == IF i < p THEN i ELSE i + 1
               b == IF j < p THEN j ELSE j + 1
    <3>1. a \in 1 .. L /\ b \in 1 .. L /\ kept[i] = store[a] /\ kept[j] = store[b]
      BY <2>3, <2>4
    <3>2. a = b => i = j
      BY <1>1, <2>2
    <3> HIDE DEF a, b
    <3> QED
      BY <1>1, <3>1, <3>2
  <2>7. Len(kept) < setting.tracked
    BY <1>1, <2>3
  <2>8. /\ e \in Counters /\ e.key = k /\ e.count <= setting.perKey
        /\ \/ e = Fresh(k) /\ store[p].age = Window
           \/ e = store[p] /\ store[p].age < Window
    <3>1. /\ store[p] \in Counters /\ store[p].age \in 0 .. Window
          /\ store[p].count \in Nat /\ store[p].count <= setting.perKey
      BY <2>2, StoreIs
    <3>2. e = IF store[p].age = Window THEN Fresh(k) ELSE store[p]
      BY <2>2 DEF Rolled
    <3> HIDE DEF e
    <3>3. CASE store[p].age = Window
      BY <1>1, <3>2, <3>3, FreshIs
    <3>4. CASE store[p].age # Window
      <4>1. store[p].age < Window
        BY <3>1, <3>4, LimiterSizes
      <4> QED
        BY <2>2, <3>1, <3>2, <3>4, <4>1
    <3> QED
      BY <3>3, <3>4
  <2> HIDE DEF e
  <2>9. /\ Append(kept, e) \in Stores /\ Len(Append(kept, e)) = Len(kept) + 1
        /\ Len(kept) \in Nat /\ Last(Append(kept, e)) = e
        /\ \A j \in 1 .. Len(kept) : Append(kept, e)[j] = kept[j]
    BY <2>3, <2>5, <2>6, <2>7, <2>8, PuttingLast
  <2> DEFINE new == Append(kept, e)
  <2> HIDE DEF new
  <2>10. /\ new \in Stores /\ Len(new) = Len(kept) + 1 /\ Last(new) = e
         /\ \A j \in 1 .. Len(kept) : new[j] = kept[j]
         /\ Len(new) - 1 = Len(kept) /\ Len(new) \in Nat \ {0}
    BY <2>9 DEF new
  <2>11. ASSUME NEW i \in 1 .. L, store[i].key # k PROVE \E j \in 1 .. Len(kept) : kept[j] = store[i]
    <3> DEFINE j == IF i < p THEN i ELSE i - 1
    <3>1. i # p
      BY <2>2, <2>11
    <3>2. j \in 1 .. L - 1 /\ (IF j < p THEN j ELSE j + 1) = i
      BY <1>1, <2>2, <3>1
    <3> HIDE DEF j
    <3> QED
      BY <2>3, <3>2
  <2>12. \/ /\ Last(new) = Fresh(k)
            /\ \A i \in 1 .. L : store[i].key = k => store[i].age = Window
         \/ \E i \in 1 .. L : store[i].key = k /\ store[i].age < Window /\ Last(new) = store[i]
    BY <1>1, <2>2, <2>8, <2>10
  <2>13. NowTouched(new, store, k)
    <3>1. \A j \in 1 .. Len(new) - 1 : \E i \in 1 .. L : store[i].key # k /\ new[j] = store[i]
      <4> TAKE j \in 1 .. Len(new) - 1
      <4>1. j \in 1 .. Len(kept) /\ new[j] = kept[j]
        BY <2>10
      <4> QED
        BY <2>5, <4>1
    <3>2. \A i \in 1 .. L : store[i].key # k => \E j \in 1 .. Len(new) - 1 : new[j] = store[i]
      <4> TAKE i \in 1 .. L
      <4> HAVE store[i].key # k
      <4>1. PICK j \in 1 .. Len(kept) : kept[j] = store[i]
        BY <2>11
      <4>2. j \in 1 .. Len(new) - 1 /\ new[j] = kept[j]
        BY <2>10, <4>1
      <4> QED
        BY <4>1, <4>2
    <3>3. Last(new).key = k
      BY <2>8, <2>10
    <3> QED
      BY <2>10, <2>12, <3>1, <3>2, <3>3 DEF NowTouched
  <2> QED
    BY <2>1, <2>13 DEF new
<1>3. CASE ~Tracked(store, k)
  <2> DEFINE kept == IF L = setting.tracked THEN Tail(store) ELSE store
             new == Append(kept, Fresh(k))
  <2>1. Touched(store, k) = new
    BY <1>3 DEF Touched
  <2>2. \A i \in 1 .. L : store[i].key # k
    BY <1>1, <1>3 DEF Tracked
  <2>3. kept \in Seq(Counters) /\ Len(kept) < setting.tracked /\ KeysDiffer(kept)
        /\ \A j \in 1 .. Len(kept) : \E i \in 1 .. L : store[i].key # k /\ kept[j] = store[i]
    <3>1. CASE L = setting.tracked
      <4>1. /\ kept \in Seq(Counters) /\ Len(kept) = L - 1
            /\ \A j \in 1 .. Len(kept) : kept[j] = store[j + 1]
        BY <1>1, <3>1
      <4> HIDE DEF kept
      <4>2. \A j \in 1 .. Len(kept) : j + 1 \in 1 .. L
        BY <1>1, <4>1
      <4>3. \A i, j \in 1 .. Len(kept) : kept[i].key = kept[j].key => i = j
        <5> TAKE i, j \in 1 .. Len(kept)
        <5> HAVE kept[i].key = kept[j].key
        <5>1. i + 1 = j + 1
          BY <1>1, <4>1, <4>2
        <5> QED
          BY <1>1, <4>1, <5>1
      <4>4. Len(kept) < setting.tracked
        BY <1>1, <4>1
      <4>5. \A j \in 1 .. Len(kept) : \E i \in 1 .. L : store[i].key # k /\ kept[j] = store[i]
        BY <2>2, <4>1, <4>2
      <4> QED
        BY <4>1, <4>3, <4>4, <4>5 DEF KeysDiffer
    <3>2. CASE L # setting.tracked
      BY <1>1, <2>2, <3>2 DEF KeysDiffer
    <3> QED
      BY <3>1, <3>2
  <2>4. CountersKept => kept = store
    <3> SUFFICES ASSUME CountersKept PROVE kept = store
      OBVIOUS
    <3>1. L < setting.tracked
      BY <1>3, RoomForKey
    <3>2. L # setting.tracked
      BY <1>1, <3>1
    <3> QED
      BY <3>2
  <2> HIDE DEF kept
  <2>5. /\ Fresh(k) \in Counters /\ Fresh(k).key = k /\ Fresh(k).count <= setting.perKey
    BY <1>1, FreshIs
  <2>6. /\ new \in Stores /\ Len(new) = Len(kept) + 1 /\ Len(kept) \in Nat /\ Last(new) = Fresh(k)
        /\ \A j \in 1 .. Len(kept) : new[j] = kept[j]
    BY <2>3, <2>5, PuttingLast
  <2> HIDE DEF new
  <2>7. Len(new) - 1 = Len(kept) /\ Len(new) \in Nat \ {0}
    BY <2>6
  <2>8. NowTouched(new, store, k)
    BY <2>2, <2>3, <2>4, <2>5, <2>6, <2>7 DEF NowTouched
  <2> QED
    BY <2>1, <2>8
<1> QED
  BY <1>2, <1>3

LEMMA Places ==
    ASSUME NEW n \in Nat \ {0}
    PROVE  /\ n \in 1 .. n /\ n - 1 \in Nat
           /\ \A j \in 1 .. n : j \in 1 .. n - 1 \/ j = n
           /\ \A j \in 1 .. n - 1 : j \in 1 .. n /\ j # n
OBVIOUS

(* The books of the keys, through each change of the store.                 *)
LEMMA TouchKeepsBooks ==
    ASSUME setting \in Settings, NEW store \in Stores, NEW k \in Keys, NEW log \in Logs,
           KeysAgree(store, log), NEW new, NowTouched(new, store, k)
    PROVE  KeysAgree(new, log)
<1> SUFFICES ASSUME CountersKept, setting.perKey > 0, NEW q \in Keys
             PROVE  Current(new, q, log) \/ Lapsed(new, q, log)
  BY DEF KeysAgree
<1>1. Current(store, q, log) \/ Lapsed(store, q, log)
  BY DEF KeysAgree
<1>2. /\ DOMAIN store = 1 .. Len(store) /\ Len(store) \in Nat /\ KeysDiffer(store)
      /\ new \in Stores /\ DOMAIN new = 1 .. Len(new) /\ Len(new) \in Nat \ {0}
  BY StoreIs DEF NowTouched
<1>3. /\ Len(new) \in 1 .. Len(new)
      /\ \A j \in 1 .. Len(new) : j \in 1 .. Len(new) - 1 \/ j = Len(new)
      /\ \A j \in 1 .. Len(new) - 1 : j \in 1 .. Len(new)
  BY <1>2, Places
<1>4. CASE q # k
  <2>1. CASE Current(store, q, log)
    <3>1. PICK i \in 1 .. Len(store) :
             /\ store[i].key = q /\ store[i].age < Window
             /\ GrantsIn(log, {q}, store[i].age + 1) <= store[i].count
             /\ GrantsIn(log, {q}, Window) <= setting.perKey + store[i].count
      BY <1>2, <2>1 DEF Current
    <3>2. PICK j \in 1 .. Len(new) - 1 : new[j] = store[i]
      BY <1>4, <3>1 DEF NowTouched
    <3>3. j \in DOMAIN new
      BY <1>2, <1>3
    <3> QED
      BY <3>1, <3>2, <3>3 DEF Current
  <2>2. CASE Lapsed(store, q, log)
    <3>1. \A i \in 1 .. Len(store) : store[i].key = q => store[i].age = Window
      BY <1>2, <2>2 DEF Lapsed
    <3>2. ASSUME NEW j \in 1 .. Len(new), new[j].key = q PROVE new[j].age = Window
      <4>1. j \in 1 .. Len(new) - 1
        BY <1>3, <1>4, <3>2 DEF NowTouched, Last
      <4>2. PICK i \in 1 .. Len(store) : new[j] = store[i]
        BY <4>1 DEF NowTouched
      <4> QED
        BY <3>1, <3>2, <4>2
    <3> QED
      BY <1>2, <2>2, <3>2 DEF Lapsed
  <2> QED
    BY <1>1, <2>1, <2>2
<1>5. CASE q = k
  <2>1. Last(new) = new[Len(new)] /\ new[Len(new)].key = k /\ Len(new) \in DOMAIN new
    BY <1>2, <1>3 DEF NowTouched, Last
  <2>2. CASE /\ Last(new) = Fresh(k)
             /\ \A i \in 1 .. Len(store) : store[i].key = k => store[i].age = Window
    <3>1. Lapsed(store, k, log)
      BY <1>1, <1>2, <1>5, <2>2, LimiterSizes DEF Current
    <3>2. new[Len(new)].age = 0 /\ new[Len(new)].count = 0
      BY <2>1, <2>2, FreshIs
    <3>3. GrantsIn(log, {k}, 0 + 1) <= 0 /\ GrantsIn(log, {k}, Window) <= setting.perKey + 0
      BY <3>1, SettingIs DEF Lapsed
    <3>4. 0 < Window
      BY LimiterSizes
    <3> QED
      BY <1>5, <2>1, <3>2, <3>3, <3>4 DEF Current
  <2>3. CASE \E i \in 1 .. Len(store) :
                store[i].key = k /\ store[i].age < Window /\ Last(new) = store[i]
    <3>1. PICK i \in 1 .. Len(store) :
                  store[i].key = k /\ store[i].age < Window /\ Last(new) = store[i]
      BY <2>3
    <3>2. Current(store, k, log)
      BY <1>1, <1>2, <1>5, <3>1, LimiterSizes DEF Lapsed
    <3>3. PICK j \in 1 .. Len(store) :
             /\ store[j].key = k /\ store[j].age < Window
             /\ GrantsIn(log, {k}, store[j].age + 1) <= store[j].count
             /\ GrantsIn(log, {k}, Window) <= setting.perKey + store[j].count
      BY <1>2, <3>2 DEF Current
    <3>4. j = i
      BY <1>2, <3>1, <3>3 DEF KeysDiffer
    <3> QED
      BY <1>5, <2>1, <3>1, <3>3, <3>4 DEF Current
  <2> QED
    BY <2>2, <2>3 DEF NowTouched
<1> QED
  BY <1>4, <1>5

(* Counting changes the last counter's count alone.                         *)
LEMMA CountedIs ==
    ASSUME NEW store \in Stores, Len(store) # 0
    PROVE  LET L == Len(store)
               new == Counted(store)
           IN  /\ new \in Seq(Counters) /\ Len(new) = L /\ DOMAIN new = 1 .. L
               /\ \A i \in 1 .. L : i # L => new[i] = store[i]
               /\ new[L].key = Last(store).key /\ new[L].age = store[L].age
               /\ new[L].count = store[L].count + 1
<1> DEFINE L == Len(store)
           new == Counted(store)
<1>1. /\ DOMAIN store = 1 .. L /\ L \in Nat /\ L \in 1 .. L /\ store \in Seq(Counters)
      /\ store[L] \in Counters
  <2>1. L \in Nat \ {0}
    BY StoreIs
  <2> QED
    BY <2>1, StoreIs, Places
<1>2. new = [store EXCEPT ![L] = [store[L] EXCEPT !.count = store[L].count + 1]]
  BY DEF Counted
<1> DEFINE e == [store[L] EXCEPT !.count = store[L].count + 1]
<1>3. e \in Counters /\ e.key = store[L].key /\ e.age = store[L].age /\ e.count = store[L].count + 1
  BY <1>1 DEF Counters
<1> HIDE DEF e
<1>4. new = [store EXCEPT ![L] = e]
  BY <1>2 DEF e
<1> HIDE DEF new
<1>5. /\ new \in Seq(Counters) /\ Len(new) = L /\ DOMAIN new = 1 .. L
      /\ \A i \in 1 .. L : i # L => new[i] = store[i]
      /\ new[L] = e
  <2>1. new \in Seq(Counters)
    BY <1>1, <1>3, <1>4
  <2>2. DOMAIN new = DOMAIN store
    BY <1>4
  <2>3. Len(new) = L
    BY <1>1, <1>4
  <2>4. \A i \in 1 .. L : i # L => new[i] = store[i]
    BY <1>1, <1>4
  <2>5. new[L] = e
    BY <1>1, <1>4
  <2> QED
    BY <1>1, <2>1, <2>2, <2>3, <2>4, <2>5
<1>6. Last(store) = store[L]
  BY DEF Last
<1> QED
  BY <1>3, <1>5, <1>6 DEF new

(* A granted request is counted by its key's counter, the last one.         *)
LEMMA CountingKeepsBooks ==
    ASSUME setting \in Settings, NEW store \in Stores, NEW k \in Keys, NEW log \in Logs,
           KeysAgree(store, log), Len(store) # 0, Last(store).key = k, Last(store).age < Window,
           Last(store).count < setting.perKey, NEW c \in Callers, ~IsGranted(log, c)
    PROVE  Counted(store) \in Stores /\ KeysAgree(Counted(store), Grant(log, c, k))
<1> DEFINE L == Len(store)
           new == Counted(store)
           after == Grant(log, c, k)
<1>1. /\ DOMAIN store = 1 .. L /\ L \in 1 .. L /\ store \in Seq(Counters) /\ KeysDiffer(store)
      /\ setting.perKey \in Nat /\ L \in Nat /\ L <= setting.tracked
      /\ \A i \in 1 .. L : /\ store[i] \in Counters /\ store[i].key \in Keys
                           /\ store[i].age \in 0 .. Window
                           /\ store[i].count \in Nat /\ store[i].count <= setting.perKey
  <2>1. L \in Nat \ {0}
    BY StoreIs
  <2> QED
    BY <2>1, StoreIs, SettingIs, Places
<1>2. Last(store) = store[L]
  BY DEF Last
<1>3. /\ new \in Seq(Counters) /\ Len(new) = L /\ DOMAIN new = 1 .. L
      /\ \A i \in 1 .. L : i # L => new[i] = store[i]
      /\ new[L].key = k /\ new[L].age = store[L].age /\ new[L].count = store[L].count + 1
  BY <1>1, <1>2, CountedIs
<1> HIDE DEF new
<1>4. new \in Stores
  <2>1. KeysDiffer(new)
    <3>1. \A i \in 1 .. L : new[i].key = store[i].key
      BY <1>2, <1>3
    <3> QED
      BY <1>1, <1>3, <3>1 DEF KeysDiffer
  <2>2. ASSUME NEW i \in 1 .. L PROVE new[i].count <= setting.perKey
    <3>1. CASE i # L
      BY <1>1, <1>3, <3>1
    <3>2. CASE i = L
      <4>1. store[L].count \in Nat /\ store[L].count < setting.perKey
        BY <1>1, <1>2
      <4>2. new[i].count = store[L].count + 1
        BY <1>3, <3>2
      <4> QED
        BY <1>1, <4>1, <4>2
    <3> QED
      BY <3>1, <3>2
  <2> QED
    BY <1>1, <1>3, <2>1, <2>2 DEF Stores
<1>5. KeysAgree(new, after)
  <2> SUFFICES ASSUME CountersKept, setting.perKey > 0, NEW q \in Keys
               PROVE  Current(new, q, after) \/ Lapsed(new, q, after)
    BY DEF KeysAgree
  <2>1. Current(store, q, log) \/ Lapsed(store, q, log)
    BY DEF KeysAgree
  <2>2. CASE q = k
    <3>1. Current(store, k, log)
      BY <1>1, <1>2, <2>1, <2>2, LimiterSizes DEF Lapsed
    <3>2. PICK j \in 1 .. L :
             /\ store[j].key = k /\ store[j].age < Window
             /\ GrantsIn(log, {k}, store[j].age + 1) <= store[j].count
             /\ GrantsIn(log, {k}, Window) <= setting.perKey + store[j].count
      BY <1>1, <3>1 DEF Current
    <3>3. j = L
      BY <1>1, <1>2, <3>2 DEF KeysDiffer
    <3>4. k \in Ids /\ k \in {k} /\ store[L].age + 1 \in Nat \ {0} /\ Window \in Nat \ {0}
      BY <1>1, LimiterSizes DEF Ids
    <3>5. /\ GrantsIn(after, {k}, store[L].age + 1) = GrantsIn(log, {k}, store[L].age + 1) + 1
          /\ GrantsIn(after, {k}, Window) = GrantsIn(log, {k}, Window) + 1
      BY <3>4, GrantIsOne
    <3>6. GrantsIn(log, {k}, store[L].age + 1) \in Nat /\ GrantsIn(log, {k}, Window) \in Nat
      BY GrantsAreCounted
    <3>7. /\ GrantsIn(after, {k}, new[L].age + 1) <= new[L].count
          /\ GrantsIn(after, {k}, Window) <= setting.perKey + new[L].count
      <4> DEFINE counted == store[L].count
                 now == GrantsIn(log, {k}, store[L].age + 1)
                 used == GrantsIn(log, {k}, Window)
      <4>1. /\ counted \in Nat /\ setting.perKey \in Nat /\ now <= counted
            /\ used <= setting.perKey + counted /\ now \in Nat /\ used \in Nat
        BY <1>1, <3>2, <3>3, <3>6
      <4> HIDE DEF counted, now, used
      <4>2. now + 1 <= counted + 1 /\ used + 1 <= setting.perKey + (counted + 1)
        BY <4>1
      <4>3. /\ new[L].age = store[L].age /\ new[L].count = counted + 1
            /\ GrantsIn(after, {k}, store[L].age + 1) = now + 1
            /\ GrantsIn(after, {k}, Window) = used + 1
        BY <1>3, <3>5 DEF counted, now, used
      <4> QED
        BY <4>2, <4>3
    <3> QED
      BY <1>1, <1>2, <1>3, <2>2, <3>7 DEF Current
  <2>3. CASE q # k
    <3>1. \A ticks \in Nat \ {0} : GrantsIn(after, {q}, ticks) = GrantsIn(log, {q}, ticks)
      BY <2>3, GrantIsOne DEF Ids
    <3>2. \A i \in 1 .. L : store[i].key = q \/ new[i].key = q => i # L /\ new[i] = store[i]
      BY <1>2, <1>3, <2>3
    <3>3. Window \in Nat \ {0} /\ 1 \in Nat \ {0} /\ \A i \in 1 .. L : store[i].age + 1 \in Nat \ {0}
      BY <1>1, LimiterSizes
    <3>4. CASE Current(store, q, log)
      BY <1>1, <1>3, <3>1, <3>2, <3>3, <3>4 DEF Current
    <3>5. CASE Lapsed(store, q, log)
      BY <1>1, <1>3, <3>1, <3>2, <3>3, <3>5 DEF Lapsed
    <3> QED
      BY <2>1, <3>4, <3>5
  <2> QED
    BY <2>2, <2>3
<1> QED
  BY <1>4, <1>5 DEF new

(* A request without a budget of its own is no concern of the keys.         *)
LEMMA UnkeyedKeepsBooks ==
    ASSUME setting \in Settings, NEW store, NEW k \in Ids, k = NoKey \/ ~(setting.perKey > 0),
           NEW log \in Logs, KeysAgree(store, log), NEW c \in Callers, ~IsGranted(log, c),
           store \in Stores
    PROVE  KeysAgree(store, Grant(log, c, k))
<1> SUFFICES ASSUME CountersKept, setting.perKey > 0, NEW q \in Keys
             PROVE  Current(store, q, Grant(log, c, k)) \/ Lapsed(store, q, Grant(log, c, k))
  BY DEF KeysAgree
<1>1. Current(store, q, log) \/ Lapsed(store, q, log)
  BY DEF KeysAgree
<1>2. k \notin {q}
  BY KeysDistinct
<1>3. \A ticks \in Nat \ {0} : GrantsIn(Grant(log, c, k), {q}, ticks) = GrantsIn(log, {q}, ticks)
  BY <1>2, GrantIsOne
<1>4. /\ Window \in Nat \ {0} /\ 1 \in Nat \ {0} /\ DOMAIN store = 1 .. Len(store)
      /\ \A i \in 1 .. Len(store) : store[i].age + 1 \in Nat \ {0}
  <2>1. \A i \in 1 .. Len(store) : store[i].age \in 0 .. Window
    BY StoreIs
  <2> QED
    BY <2>1, StoreIs, LimiterSizes
<1> QED
  BY <1>1, <1>3, <1>4 DEF Current, Lapsed

(* Time passes for the counters too.                                        *)
LEMMA AgeingKeepsBooks ==
    ASSUME setting \in Settings, NEW store \in Stores, NEW log \in Logs, KeysAgree(store, log)
    PROVE  StoreAged(store) \in Stores /\ KeysAgree(StoreAged(store), LogAged(log))
<1> DEFINE L == Len(store)
           new == StoreAged(store)
           after == LogAged(log)
<1>1. /\ store \in Seq(Counters) /\ DOMAIN store = 1 .. L /\ KeysDiffer(store) /\ L <= setting.tracked
      /\ setting.perKey \in Nat /\ L \in Nat /\ Window \in Nat \ {0}
      /\ \A i \in 1 .. L : /\ store[i] \in Counters /\ store[i].age \in 0 .. Window
                           /\ store[i].count \in Nat /\ store[i].count <= setting.perKey
  BY StoreIs, SettingIs, LimiterSizes
<1>2. /\ DOMAIN new = 1 .. L
      /\ \A i \in 1 .. L : /\ new[i] \in Counters /\ new[i].key = store[i].key
                           /\ new[i].age = Lesser(Window, store[i].age + 1)
                           /\ new[i].count = store[i].count
  <2>1. \A i \in 1 .. L : Lesser(Window, store[i].age + 1) \in 0 .. Window
    BY <1>1 DEF Lesser
  <2>2. DOMAIN new = 1 .. L
        /\ \A i \in 1 .. L : new[i] = [store[i] EXCEPT !.age = Lesser(Window, store[i].age + 1)]
    BY <1>1 DEF StoreAged
  <2> QED
    BY <1>1, <2>1, <2>2 DEF Counters
<1>3. new \in Seq(Counters) /\ Len(new) = L
  <2>1. new \in [1 .. L -> Counters]
    BY <1>1, <1>2 DEF StoreAged
  <2> QED
    BY <1>1, <2>1, IsASeq
<1> HIDE DEF new
<1>4. new \in Stores
  BY <1>1, <1>2, <1>3 DEF Stores, KeysDiffer
<1>5. KeysAgree(new, after)
  <2> SUFFICES ASSUME CountersKept, setting.perKey > 0, NEW q \in Keys
               PROVE  Current(new, q, after) \/ Lapsed(new, q, after)
    BY DEF KeysAgree
  <2>1. Current(store, q, log) \/ Lapsed(store, q, log)
    BY DEF KeysAgree
  <2>2. /\ GrantsIn(after, {q}, 1) = 0 /\ GrantsIn(after, {q}, Window) <= GrantsIn(log, {q}, Window)
        /\ GrantsIn(after, {q}, Window) \in Nat /\ GrantsIn(log, {q}, Window) \in Nat
    BY GrantsAge, GrantsAreCounted
  <2>3. CASE Current(store, q, log)
    <3>1. PICK i \in 1 .. L :
             /\ store[i].key = q /\ store[i].age < Window
             /\ GrantsIn(log, {q}, store[i].age + 1) <= store[i].count
             /\ GrantsIn(log, {q}, Window) <= setting.perKey + store[i].count
      BY <1>1, <2>3 DEF Current
    <3>2. store[i].age \in Nat /\ store[i].count \in Nat /\ store[i].count <= setting.perKey
      BY <1>1
    <3>3. CASE store[i].age + 1 < Window
      <4>1. new[i].age = store[i].age + 1 /\ new[i].key = q /\ new[i].count = store[i].count
        BY <1>1, <1>2, <3>1, <3>2, <3>3 DEF Lesser
      <4>2. GrantsIn(after, {q}, (store[i].age + 1) + 1) <= GrantsIn(log, {q}, store[i].age + 1)
        <5> DEFINE ticks == store[i].age + 1
        <5>1. ticks \in Nat /\ ticks < Window
          BY <3>2, <3>3
        <5> HIDE DEF ticks
        <5>2. GrantsIn(after, {q}, ticks + 1) <= GrantsIn(log, {q}, ticks)
          BY <5>1, GrantsAge
        <5> QED
          BY <5>2 DEF ticks
      <4>3. GrantsIn(after, {q}, (store[i].age + 1) + 1) \in Nat
            /\ GrantsIn(log, {q}, store[i].age + 1) \in Nat
        BY GrantsAreCounted
      <4>4. GrantsIn(after, {q}, new[i].age + 1) <= new[i].count
        BY <3>1, <3>2, <4>1, <4>2, <4>3
      <4>5. GrantsIn(after, {q}, Window) <= setting.perKey + new[i].count
        BY <1>1, <2>2, <3>1, <3>2, <4>1
      <4>6. i \in DOMAIN new /\ new[i].age < Window
        BY <1>2, <3>3, <4>1
      <4> QED
        BY <4>1, <4>4, <4>5, <4>6 DEF Current
    <3>4. CASE store[i].age + 1 = Window
      <4>1. ASSUME NEW j \in 1 .. L, new[j].key = q PROVE new[j].age = Window
        <5>1. j = i
          BY <1>1, <1>2, <3>1, <4>1 DEF KeysDiffer
        <5> QED
          BY <1>1, <1>2, <3>4, <5>1 DEF Lesser
      <4>2. GrantsIn(after, {q}, Window) <= setting.perKey
        BY <1>1, <2>2, <3>1, <3>2, <3>4
      <4> QED
        BY <1>2, <2>2, <4>1, <4>2 DEF Lapsed
    <3> QED
      BY <1>1, <3>1, <3>2, <3>3, <3>4
  <2>4. CASE Lapsed(store, q, log)
    <3>1. ASSUME NEW j \in 1 .. L, new[j].key = q PROVE new[j].age = Window
      <4>1. store[j].age = Window
        BY <1>1, <1>2, <2>4, <3>1 DEF Lapsed
      <4> QED
        BY <1>1, <1>2, <4>1 DEF Lesser
    <3>2. GrantsIn(after, {q}, Window) <= setting.perKey
      BY <1>1, <2>2, <2>4 DEF Lapsed
    <3> QED
      BY <1>2, <2>2, <3>1, <3>2 DEF Lapsed
  <2> QED
    BY <2>1, <2>3, <2>4
<1> QED
  BY <1>4, <1>5 DEF new

(* Pruning drops the counters that lapsed, and keeps the others.            *)
Keeping(kept, store, k) ==
    /\ kept \in Seq(Counters) /\ Len(kept) <= k /\ KeysDiffer(kept)
    /\ \A j \in 1 .. Len(kept) : \E i \in 1 .. k : kept[j] = store[i] /\ store[i].age < Window
    /\ \A i \in 1 .. k : store[i].age < Window => \E j \in 1 .. Len(kept) : kept[j] = store[i]

LEMMA KeepingOneMore ==
    ASSUME NEW store \in Stores, NEW k \in 0 .. Len(store) - 1, NEW kept, Keeping(kept, store, k)
    PROVE  /\ store[k + 1].age < Window => Keeping(Append(kept, store[k + 1]), store, k + 1)
           /\ ~(store[k + 1].age < Window) => Keeping(kept, store, k + 1)
<1> DEFINE e == store[k + 1]
           new == Append(kept, e)
<1>1. /\ k \in Nat /\ k + 1 \in 1 .. Len(store) /\ Len(store) \in Nat /\ KeysDiffer(store)
      /\ \A i \in 1 .. k : i \in 1 .. Len(store) /\ i \in 1 .. k + 1 /\ i # k + 1
      /\ \A i \in 1 .. k + 1 : i \in 1 .. k \/ i = k + 1
      /\ k + 1 \in 1 .. k + 1 /\ e \in Counters
  BY StoreIs
<1>2. /\ kept \in Seq(Counters) /\ Len(kept) <= k /\ KeysDiffer(kept) /\ Len(kept) \in Nat
      /\ \A j \in 1 .. Len(kept) : \E i \in 1 .. k : kept[j] = store[i] /\ store[i].age < Window
      /\ \A i \in 1 .. k : store[i].age < Window => \E j \in 1 .. Len(kept) : kept[j] = store[i]
  BY DEF Keeping
<1>3. CASE e.age < Window
  <2>1. \A j \in 1 .. Len(kept) : kept[j].key # e.key
    <3> TAKE j \in 1 .. Len(kept)
    <3>1. PICK i \in 1 .. k : kept[j] = store[i]
      BY <1>2
    <3> QED
      BY <1>1, <3>1 DEF KeysDiffer
  <2>2. /\ new \in Seq(Counters) /\ Len(new) = Len(kept) + 1 /\ new[Len(kept) + 1] = e
        /\ \A j \in 1 .. Len(kept) : new[j] = kept[j]
    BY <1>1, <1>2
  <2> HIDE DEF new
  <2>3. /\ \A j \in 1 .. Len(new) : j \in 1 .. Len(kept) \/ j = Len(kept) + 1
        /\ \A j \in 1 .. Len(kept) : j \in 1 .. Len(new)
        /\ Len(kept) + 1 \in 1 .. Len(new) /\ Len(new) <= k + 1
    BY <1>1, <1>2, <2>2
  <2>4. KeysDiffer(new)
    BY <1>2, <2>1, <2>2, <2>3 DEF KeysDiffer
  <2>5. ASSUME NEW j \in 1 .. Len(new)
        PROVE  \E i \in 1 .. k + 1 : new[j] = store[i] /\ store[i].age < Window
    <3>1. CASE j = Len(kept) + 1
      BY <1>1, <1>3, <2>2, <3>1
    <3>2. CASE j # Len(kept) + 1
      <4>1. j \in 1 .. Len(kept)
        BY <2>3, <3>2
      <4>2. PICK i \in 1 .. k : kept[j] = store[i] /\ store[i].age < Window
        BY <1>2, <4>1
      <4> QED
        BY <1>1, <2>2, <4>1, <4>2
    <3> QED
      BY <3>1, <3>2
  <2>6. ASSUME NEW i \in 1 .. k + 1, store[i].age < Window
        PROVE  \E j \in 1 .. Len(new) : new[j] = store[i]
    <3>1. CASE i = k + 1
      BY <2>2, <2>3, <3>1
    <3>2. CASE i # k + 1
      <4>1. PICK j \in 1 .. Len(kept) : kept[j] = store[i]
        BY <1>1, <1>2, <2>6, <3>2
      <4> QED
        BY <2>2, <2>3, <4>1
    <3> QED
      BY <3>1, <3>2
  <2>7. Keeping(new, store, k + 1)
    BY <2>2, <2>3, <2>4, <2>5, <2>6 DEF Keeping
  <2> QED
    BY <1>3, <2>7 DEF new
<1>4. CASE ~(e.age < Window)
  <2>1. Len(kept) <= k + 1
    BY <1>1, <1>2
  <2>2. \A i \in 1 .. k + 1 : store[i].age < Window => i \in 1 .. k
    BY <1>1, <1>4
  <2> HIDE DEF e
  <2>3. Keeping(kept, store, k + 1)
    BY <1>1, <1>2, <2>1, <2>2 DEF Keeping
  <2> QED
    BY <1>4, <2>3 DEF e
<1> QED
  BY <1>3, <1>4

LEMMA Pruning ==
    ASSUME setting \in Settings, NEW store \in Stores
    PROVE  Keeping(Pruned(store), store, Len(store))
<1> DEFINE L == Len(store)
           V == Seq(Counters)
           turn(k, kept) == IF store[k].age < Window THEN Append(kept, store[k]) ELSE kept
           step == [k \in 1 .. L |-> [kept \in V |-> turn(k, kept)]]
           Solves(f) == f = [k \in 0 .. L |-> IF k = 0 THEN <<>> ELSE turn(k, f[k - 1])]
           upTo == CHOOSE f : Solves(f)
<1>1. L \in Nat /\ <<>> \in V /\ \A k \in 1 .. L : store[k] \in Counters
  BY StoreIs
<1>2. step \in [1 .. L -> [V -> V]]
  <2>1. \A k \in 1 .. L, kept \in V : turn(k, kept) \in V
    BY <1>1
  <2> HIDE DEF turn, V
  <2> QED
    BY <2>1
<1>3. PICK f \in [0 .. L -> V] : Turns(f, <<>>, step, L)
  <2> HIDE DEF V, step, L
  <2> QED
    BY <1>1, <1>2, TurnsExist
<1>4. Solves(f)
  <2>1. ASSUME NEW k \in 0 .. L PROVE f[k] = IF k = 0 THEN <<>> ELSE turn(k, f[k - 1])
    <3>1. CASE k = 0
      BY <1>3, <3>1 DEF Turns
    <3>2. CASE k # 0
      <4>1. k \in 1 .. L /\ k - 1 \in 0 .. L
        BY <1>1, <3>2
      <4>2. f[k] = step[k][f[k - 1]] /\ f[k - 1] \in V
        BY <1>3, <4>1 DEF Turns
      <4>3. step[k][f[k - 1]] = turn(k, f[k - 1])
        BY <4>1, <4>2
      <4> QED
        BY <3>2, <4>2, <4>3
    <3> QED
      BY <3>1, <3>2
  <2> HIDE DEF turn
  <2>2. f = [k \in 0 .. L |-> f[k]]
    OBVIOUS
  <2> QED
    BY <2>1, <2>2
<1>5. Pruned(store) = upTo[L]
  BY DEF Pruned
<1>6. Solves(upTo)
  <2> HIDE DEF Solves
  <2> QED
    BY <1>4
<1> HIDE DEF upTo, step, V
<1>7. upTo[0] = <<>> /\ \A k \in 1 .. L : upTo[k] = turn(k, upTo[k - 1])
  <2>1. \A k \in 0 .. L : upTo[k] = IF k = 0 THEN <<>> ELSE turn(k, upTo[k - 1])
    <3> HIDE DEF turn
    <3> QED
      BY <1>6
  <2>2. 0 \in 0 .. L /\ \A k \in 1 .. L : k \in 0 .. L /\ k # 0
    BY <1>1
  <2> HIDE DEF turn
  <2> QED
    BY <2>1, <2>2
<1> DEFINE N == {k \in Nat : k <= L => Keeping(upTo[k], store, k)}
<1>8. 0 \in N
  <2>1. Keeping(<<>>, store, 0)
    BY DEF Keeping, KeysDiffer
  <2> QED
    BY <1>7, <2>1
<1>9. ASSUME NEW k \in N PROVE k + 1 \in N
  <2> SUFFICES ASSUME k + 1 <= L PROVE Keeping(upTo[k + 1], store, k + 1)
    OBVIOUS
  <2>1. k \in Nat /\ k <= L /\ k \in 0 .. L - 1 /\ k + 1 \in 1 .. L /\ (k + 1) - 1 = k
    BY <1>1
  <2>2. Keeping(upTo[k], store, k)
    BY <2>1
  <2>3. upTo[k + 1] = turn(k + 1, upTo[k])
    BY <1>7, <2>1
  <2> QED
    BY <2>1, <2>2, <2>3, KeepingOneMore
<1>10. L \in N
  <2>1. N \in SUBSET Nat
    OBVIOUS
  <2> HIDE DEF N
  <2> QED
    BY <1>1, <1>8, <1>9, <2>1, AllNaturals
<1> QED
  BY <1>5, <1>10

LEMMA PruneKeepsBooks ==
    ASSUME setting \in Settings, NEW store \in Stores, NEW log \in Logs, KeysAgree(store, log)
    PROVE  Pruned(store) \in Stores /\ KeysAgree(Pruned(store), log)
<1> DEFINE new == Pruned(store)
<1>1. Keeping(new, store, Len(store))
  BY Pruning
<1> HIDE DEF new
<1>2. /\ new \in Seq(Counters) /\ DOMAIN new = 1 .. Len(new) /\ Len(new) \in Nat
      /\ Len(new) <= Len(store) /\ KeysDiffer(new)
      /\ \A j \in 1 .. Len(new) : \E i \in 1 .. Len(store) : new[j] = store[i] /\ store[i].age < Window
      /\ \A i \in 1 .. Len(store) : store[i].age < Window => \E j \in 1 .. Len(new) : new[j] = store[i]
  BY <1>1 DEF Keeping
<1>3. /\ Len(store) \in Nat /\ DOMAIN store = 1 .. Len(store) /\ Len(store) <= setting.tracked
      /\ setting.tracked \in Nat
      /\ \A i \in 1 .. Len(store) : store[i].age \in 0 .. Window /\ store[i].count <= setting.perKey
  BY StoreIs, SettingIs
<1>4. new \in Stores
  <2>1. Len(new) <= setting.tracked
    BY <1>2, <1>3
  <2>2. \A j \in 1 .. Len(new) : new[j].count <= setting.perKey
    BY <1>2, <1>3
  <2> QED
    BY <1>2, <2>1, <2>2 DEF Stores
<1>5. KeysAgree(new, log)
  <2> SUFFICES ASSUME CountersKept, setting.perKey > 0, NEW q \in Keys
               PROVE  Current(new, q, log) \/ Lapsed(new, q, log)
    BY DEF KeysAgree
  <2>1. Current(store, q, log) \/ Lapsed(store, q, log)
    BY DEF KeysAgree
  <2>2. CASE Current(store, q, log)
    <3>1. PICK i \in 1 .. Len(store) :
             /\ store[i].key = q /\ store[i].age < Window
             /\ GrantsIn(log, {q}, store[i].age + 1) <= store[i].count
             /\ GrantsIn(log, {q}, Window) <= setting.perKey + store[i].count
      BY <1>3, <2>2 DEF Current
    <3>2. PICK j \in 1 .. Len(new) : new[j] = store[i]
      BY <1>2, <3>1
    <3>3. j \in DOMAIN new
      BY <1>2
    <3> QED
      BY <3>1, <3>2, <3>3 DEF Current
  <2>3. CASE Lapsed(store, q, log)
    <3>1. \A j \in 1 .. Len(new) : new[j].key # q
      <4> TAKE j \in 1 .. Len(new)
      <4>1. PICK i \in 1 .. Len(store) : new[j] = store[i] /\ store[i].age < Window
        BY <1>2
      <4>2. store[i].key = q => store[i].age = Window
        BY <1>3, <2>3 DEF Lapsed
      <4> QED
        BY <4>1, <4>2, LimiterSizes
    <3> QED
      BY <1>2, <2>3, <3>1 DEF Lapsed
  <2> QED
    BY <2>1, <2>2, <2>3
<1> QED
  BY <1>4, <1>5 DEF new

-----------------------------------------------------------------------------
(* The bucket's and the counters' books together, and the answer to a       *)
(* request: which of four it is.                                            *)
Books(b, log) ==
    b \in Buckets /\ TokensAgree(b.tokens, b.age, log) /\ KeysAgree(b.store, log)

Budgeted(k) == k # NoKey /\ setting.perKey > 0

Answered(full, k, taken, touched, counted, answer) ==
    \/ full.tokens <= 0 /\ answer = [allowed |-> FALSE, bucket |-> full]
    \/ /\ full.tokens > 0 /\ ~Budgeted(k)
       /\ answer = [allowed |-> TRUE, bucket |-> [full EXCEPT !.tokens = taken]]
    \/ /\ full.tokens > 0 /\ Budgeted(k) /\ Last(touched).count >= setting.perKey
       /\ answer = [allowed |-> FALSE, bucket |-> [full EXCEPT !.store = touched]]
    \/ /\ full.tokens > 0 /\ Budgeted(k) /\ ~(Last(touched).count >= setting.perKey)
       /\ answer = [allowed |-> TRUE, bucket |-> [full EXCEPT !.tokens = taken, !.store = counted]]

LEMMA FourAnswers ==
    ASSUME setting \in Settings, NEW b \in Buckets, NEW k
    PROVE  LET full == Refilled(b)
               touched == Touched(full.store, k)
           IN  /\ Answered(full, k, full.tokens - Cost, touched, Counted(touched), Evaluate(b, k, TRUE))
               /\ Answered(full, k, full.tokens, touched, touched, Evaluate(b, k, FALSE))
<1> DEFINE full == Refilled(b)
           touched == Touched(full.store, k)
<1>1. Refilled(b).tokens \in Int
  BY TokensRefilled, BucketIs
<1>2. (full.tokens > 0 <=> ~(full.tokens <= 0)) /\ full.tokens - 0 = full.tokens
  BY <1>1
<1>3. Answered(full, k, full.tokens - Cost, touched, Counted(touched), Evaluate(b, k, TRUE))
  BY <1>2 DEF Evaluate, Answered, Budgeted
<1>4. Answered(full, k, full.tokens - 0, touched, touched, Evaluate(b, k, FALSE))
  BY <1>2 DEF Evaluate, Answered, Budgeted
<1> QED
  BY <1>2, <1>3, <1>4

LEMMA WithTokens ==
    ASSUME NEW b \in Buckets, NEW t \in (1 - Cost) .. setting.max
    PROVE  LET new == [b EXCEPT !.tokens = t]
           IN  new \in Buckets /\ new.tokens = t /\ new.age = b.age /\ new.store = b.store
  BY DEF Buckets

LEMMA WithStore ==
    ASSUME NEW b \in Buckets, NEW s \in Stores
    PROVE  LET new == [b EXCEPT !.store = s]
           IN  new \in Buckets /\ new.tokens = b.tokens /\ new.age = b.age /\ new.store = s
  BY DEF Buckets

LEMMA TouchedIs ==
    ASSUME setting \in Settings, NEW store \in Stores, NEW k \in Keys, NEW log \in Logs,
           KeysAgree(store, log)
    PROVE  LET touched == Touched(store, k)
           IN  /\ touched \in Stores /\ Len(touched) # 0 /\ KeysAgree(touched, log)
               /\ Last(touched).key = k /\ Last(touched).age < Window /\ Last(touched).count \in Nat
<1> DEFINE touched == Touched(store, k)
<1>1. NowTouched(touched, store, k)
  BY Touching
<1> HIDE DEF touched
<1>2. touched \in Stores /\ Len(touched) \in Nat \ {0} /\ Last(touched).key = k
  BY <1>1 DEF NowTouched
<1>3. KeysAgree(touched, log)
  BY <1>1, TouchKeepsBooks
<1>4. Last(touched).age < Window
  BY <1>1, FreshIs DEF NowTouched
<1>5. Last(touched).count \in Nat
  <2>1. Len(touched) \in 1 .. Len(touched)
    BY <1>2, Places
  <2> QED
    BY <1>2, <2>1, StoreIs DEF Last
<1> QED
  BY <1>2, <1>3, <1>4, <1>5 DEF touched

LEMMA EvaluateKeepsBooks ==
    ASSUME setting \in Settings, NEW b, NEW log \in Logs, Books(b, log),
           NEW c \in Callers, NEW k \in Ids, ~IsGranted(log, c)
    PROVE  LET answer == Evaluate(b, k, TRUE)
           IN  /\ answer.allowed \in BOOLEAN /\ answer.bucket.age < Window
               /\ answer.allowed => Books(answer.bucket, Grant(log, c, k))
               /\ ~answer.allowed => Books(answer.bucket, log)
<1> DEFINE full == Refilled(b)
           touched == Touched(full.store, k)
           answer == Evaluate(b, k, TRUE)
           after == Grant(log, c, k)
<1>1. b \in Buckets /\ TokensAgree(b.tokens, b.age, log) /\ KeysAgree(b.store, log)
  BY DEF Books
<1>2. /\ full \in Buckets /\ full.store = b.store /\ full.age < Window /\ full.age \in Nat
      /\ full.tokens \in (1 - Cost) .. setting.max /\ full.store \in Stores
      /\ setting.max \in Nat /\ Cost \in Nat \ {0} /\ setting.perKey \in Nat
  BY <1>1, TokensRefilled, BucketIs, SettingIs, LimiterSizes
<1>3. TokensAgree(full.tokens, full.age, log) /\ KeysAgree(full.store, log)
  BY <1>1, <1>2, RefillKeepsBooks
<1>4. Answered(full, k, full.tokens - Cost, touched, Counted(touched), answer)
  BY <1>1, FourAnswers
<1>5. Budgeted(k) => k \in Keys
  BY DEF Budgeted, Ids
<1>6. Budgeted(k) => /\ touched \in Stores /\ Len(touched) # 0 /\ KeysAgree(touched, log)
                     /\ Last(touched).key = k /\ Last(touched).age < Window
                     /\ Last(touched).count \in Nat
  BY <1>2, <1>3, <1>5, TouchedIs
<1>7. TokensAgree(full.tokens - Cost, full.age, after)
  BY <1>2, <1>3, TakingKeepsBooks
<1>8. full.tokens > 0 => full.tokens - Cost \in (1 - Cost) .. setting.max
  BY <1>2
<1> HIDE DEF full, touched, answer, after
<1> USE DEF Books
<1>10. CASE full.tokens <= 0 /\ answer = [allowed |-> FALSE, bucket |-> full]
  <2>1. Books(full, log) /\ answer.allowed = FALSE /\ answer.bucket = full
    BY <1>2, <1>3, <1>10
  <2> QED
    BY <1>2, <2>1 DEF answer
<1>11. CASE /\ full.tokens > 0 /\ ~Budgeted(k)
            /\ answer = [allowed |-> TRUE, bucket |-> [full EXCEPT !.tokens = full.tokens - Cost]]
  <2> DEFINE new == [full EXCEPT !.tokens = full.tokens - Cost]
  <2>1. /\ new \in Buckets /\ new.tokens = full.tokens - Cost /\ new.age = full.age
        /\ new.store = full.store
    BY <1>2, <1>8, <1>11, WithTokens
  <2>2. KeysAgree(full.store, after)
    BY <1>2, <1>3, <1>11, UnkeyedKeepsBooks DEF Budgeted, after
  <2> HIDE DEF new
  <2>3. Books(new, after)
    BY <1>7, <2>1, <2>2
  <2>4. answer.allowed = TRUE /\ answer.bucket = new
    BY <1>11 DEF new
  <2> QED
    BY <1>2, <2>1, <2>3, <2>4 DEF answer, after
<1>12. CASE /\ full.tokens > 0 /\ Budgeted(k) /\ Last(touched).count >= setting.perKey
            /\ answer = [allowed |-> FALSE, bucket |-> [full EXCEPT !.store = touched]]
  <2> DEFINE new == [full EXCEPT !.store = touched]
  <2>1. /\ new \in Buckets /\ new.tokens = full.tokens /\ new.age = full.age /\ new.store = touched
    BY <1>2, <1>6, <1>12, WithStore
  <2> HIDE DEF new
  <2>2. Books(new, log)
    BY <1>3, <1>6, <1>12, <2>1
  <2>3. answer.allowed = FALSE /\ answer.bucket = new
    BY <1>12 DEF new
  <2> QED
    BY <1>2, <2>1, <2>2, <2>3 DEF answer
<1>13. CASE /\ full.tokens > 0 /\ Budgeted(k) /\ ~(Last(touched).count >= setting.perKey)
            /\ answer = [allowed |-> TRUE,
                         bucket |-> [full EXCEPT !.tokens = full.tokens - Cost,
                                       !.store = Counted(touched)]]
  <2> DEFINE new == [full EXCEPT !.tokens = full.tokens - Cost, !.store = Counted(touched)]
  <2>1. Last(touched).count < setting.perKey
    BY <1>2, <1>6, <1>13
  <2>2. Counted(touched) \in Stores /\ KeysAgree(Counted(touched), after)
    BY <1>5, <1>6, <1>13, <2>1, CountingKeepsBooks DEF after
  <2>3. /\ new \in Buckets /\ new.tokens = full.tokens - Cost /\ new.age = full.age
        /\ new.store = Counted(touched)
    <3> DEFINE mid == [full EXCEPT !.tokens = full.tokens - Cost]
    <3>1. new = [mid EXCEPT !.store = Counted(touched)]
      BY <1>2 DEF Buckets
    <3>2. mid \in Buckets /\ mid.tokens = full.tokens - Cost /\ mid.age = full.age
      BY <1>2, <1>8, <1>13, WithTokens
    <3> HIDE DEF mid, new
    <3> QED
      BY <2>2, <3>1, <3>2, WithStore
  <2> HIDE DEF new
  <2>4. Books(new, after)
    BY <1>7, <2>2, <2>3
  <2>5. answer.allowed = TRUE /\ answer.bucket = new
    BY <1>13 DEF new
  <2> QED
    BY <1>2, <2>3, <2>4, <2>5 DEF answer, after
<1> QED
  BY <1>4, <1>10, <1>11, <1>12, <1>13 DEF Answered

LEMMA CheckKeepsBooks ==
    ASSUME setting \in Settings, NEW b, NEW log \in Logs, Books(b, log), NEW k \in Ids
    PROVE  Books(Evaluate(b, k, FALSE).bucket, log)
<1> DEFINE full == Refilled(b)
           touched == Touched(full.store, k)
           answer == Evaluate(b, k, FALSE)
<1>1. b \in Buckets /\ TokensAgree(b.tokens, b.age, log) /\ KeysAgree(b.store, log)
  BY DEF Books
<1>2. full \in Buckets /\ full.store = b.store /\ full.tokens \in Int /\ full.store \in Stores
  BY <1>1, TokensRefilled, BucketIs
<1>3. TokensAgree(full.tokens, full.age, log) /\ KeysAgree(full.store, log)
  BY <1>1, <1>2, RefillKeepsBooks
<1>4. Answered(full, k, full.tokens, touched, touched, answer)
  BY <1>1, FourAnswers
<1>5. Budgeted(k) => touched \in Stores /\ KeysAgree(touched, log)
  BY <1>2, <1>3, TouchedIs DEF Budgeted, Ids
<1> HIDE DEF full, touched, answer
<1>6. [full EXCEPT !.tokens = full.tokens] = full
  BY <1>2 DEF Buckets
<1>7. [full EXCEPT !.tokens = full.tokens, !.store = touched] = [full EXCEPT !.store = touched]
  <2>1. [full EXCEPT !.tokens = full.tokens, !.store = touched]
          = [[full EXCEPT !.tokens = full.tokens] EXCEPT !.store = touched]
    BY <1>2 DEF Buckets
  <2> QED
    BY <1>6, <2>1
<1> DEFINE new == [full EXCEPT !.store = touched]
<1>8. Budgeted(k) => /\ new \in Buckets /\ new.tokens = full.tokens
                     /\ new.age = full.age /\ new.store = touched
  BY <1>2, <1>5, WithStore
<1>9. ASSUME answer.bucket = full PROVE Books(answer.bucket, log)
  BY <1>2, <1>3, <1>9 DEF Books
<1>10. ASSUME Budgeted(k), answer.bucket = new PROVE Books(answer.bucket, log)
  <2> HIDE DEF new
  <2>1. Books(new, log)
    BY <1>3, <1>5, <1>8, <1>10 DEF Books
  <2> QED
    BY <1>10, <2>1
<1>11. CASE full.tokens <= 0 /\ answer = [allowed |-> FALSE, bucket |-> full]
  <2>1. answer.bucket = full
    BY <1>11
  <2> QED
    BY <1>9, <2>1 DEF answer
<1>12. CASE answer = [allowed |-> TRUE, bucket |-> [full EXCEPT !.tokens = full.tokens]]
  <2>1. answer.bucket = full
    BY <1>6, <1>12
  <2> QED
    BY <1>9, <2>1 DEF answer
<1>13. CASE Budgeted(k) /\ answer = [allowed |-> FALSE, bucket |-> new]
  <2> HIDE DEF new
  <2>1. answer.bucket = new
    BY <1>13
  <2> QED
    BY <1>10, <1>13, <2>1 DEF answer
<1>14. CASE Budgeted(k) /\ answer = [allowed |-> TRUE, bucket |->
                   [full EXCEPT !.tokens = full.tokens, !.store = touched]]
  <2>1. answer = [allowed |-> TRUE, bucket |-> new]
    BY <1>7, <1>14
  <2> HIDE DEF new
  <2>2. answer.bucket = new
    BY <2>1
  <2> QED
    BY <1>10, <1>14, <2>2 DEF answer
<1> QED
  BY <1>4, <1>11, <1>12, <1>13, <1>14 DEF Answered

-----------------------------------------------------------------------------
(* Whom a round may pass over: requests that cannot be granted any more.    *)
SpentFor(b, k) ==
    \/ b.tokens <= 0
    \/ /\ Budgeted(k)
       /\ \E i \in 1 .. Len(b.store) :
             b.store[i].key = k /\ b.store[i].age < Window /\ b.store[i].count >= setting.perKey

LEMMA AnswerIs ==
    ASSUME setting \in Settings, NEW b \in Buckets, b.age < Window, NEW k \in Ids
    PROVE  LET answer == Evaluate(b, k, TRUE)
               touched == Touched(b.store, k)
           IN  \/ b.tokens <= 0 /\ answer.allowed = FALSE /\ answer.bucket = b
               \/ /\ b.tokens > 0 /\ ~Budgeted(k) /\ answer.allowed = TRUE
                  /\ answer.bucket.store = b.store
               \/ /\ b.tokens > 0 /\ Budgeted(k) /\ Last(touched).count >= setting.perKey
                  /\ answer.allowed = FALSE /\ answer.bucket.store = touched
               \/ /\ b.tokens > 0 /\ Budgeted(k) /\ ~(Last(touched).count >= setting.perKey)
                  /\ answer.allowed = TRUE /\ answer.bucket.store = Counted(touched)
<1> DEFINE touched == Touched(b.store, k)
           answer == Evaluate(b, k, TRUE)
           counted == Counted(touched)
           taken == b.tokens - Cost
<1>1. Answered(b, k, taken, touched, counted, answer)
  <2>1. Refilled(b) = b
    BY TokensRefilled
  <2> QED
    BY <2>1, FourAnswers
<1> HIDE DEF touched, answer, counted, taken
<1>2. /\ [b EXCEPT !.tokens = taken].store = b.store
      /\ [b EXCEPT !.store = touched].store = touched
  BY DEF Buckets
<1>3. [b EXCEPT !.tokens = taken, !.store = counted].store = counted
  BY DEF Buckets
<1> DEFINE b1 == [b EXCEPT !.tokens = taken]
           b2 == [b EXCEPT !.store = touched]
           b3 == [b EXCEPT !.tokens = taken, !.store = counted]
<1>4. /\ b1.store = b.store /\ b2.store = touched /\ b3.store = counted
  BY <1>2, <1>3
<1>5. \/ b.tokens <= 0 /\ answer = [allowed |-> FALSE, bucket |-> b]
      \/ /\ b.tokens > 0 /\ ~Budgeted(k) /\ answer = [allowed |-> TRUE, bucket |-> b1]
      \/ /\ b.tokens > 0 /\ Budgeted(k) /\ Last(touched).count >= setting.perKey
         /\ answer = [allowed |-> FALSE, bucket |-> b2]
      \/ /\ b.tokens > 0 /\ Budgeted(k) /\ ~(Last(touched).count >= setting.perKey)
         /\ answer = [allowed |-> TRUE, bucket |-> b3]
  BY <1>1 DEF Answered
<1> HIDE DEF b1, b2, b3
<1>6. \/ b.tokens <= 0 /\ answer.allowed = FALSE /\ answer.bucket = b
      \/ /\ b.tokens > 0 /\ ~Budgeted(k) /\ answer.allowed = TRUE /\ answer.bucket = b1
      \/ /\ b.tokens > 0 /\ Budgeted(k) /\ Last(touched).count >= setting.perKey
         /\ answer.allowed = FALSE /\ answer.bucket = b2
      \/ /\ b.tokens > 0 /\ Budgeted(k) /\ ~(Last(touched).count >= setting.perKey)
         /\ answer.allowed = TRUE /\ answer.bucket = b3
  BY <1>5
<1> QED
  BY <1>4, <1>6 DEF touched, answer, counted

(* One request evaluated: a spent one is denied, a denied one is spent, and *)
(* what was spent before is spent afterwards.                               *)
LEMMA EvaluateSpends ==
    ASSUME setting \in Settings, NEW b \in Buckets, b.age < Window, NEW k \in Ids
    PROVE  LET answer == Evaluate(b, k, TRUE)
           IN  /\ SpentFor(b, k) => ~answer.allowed
               /\ ~answer.allowed => SpentFor(answer.bucket, k)
               /\ CountersKept => \A q \in Ids : SpentFor(b, q) => SpentFor(answer.bucket, q)
<1> DEFINE touched == Touched(b.store, k)
           answer == Evaluate(b, k, TRUE)
           L == Len(touched)
<1>1. b.tokens \in Int /\ b.store \in Stores /\ setting.perKey \in Nat
  BY BucketIs, SettingIs
<1>2. \/ b.tokens <= 0 /\ answer.allowed = FALSE /\ answer.bucket = b
      \/ /\ b.tokens > 0 /\ ~Budgeted(k) /\ answer.allowed = TRUE
         /\ answer.bucket.store = b.store
      \/ /\ b.tokens > 0 /\ Budgeted(k) /\ Last(touched).count >= setting.perKey
         /\ answer.allowed = FALSE /\ answer.bucket.store = touched
      \/ /\ b.tokens > 0 /\ Budgeted(k) /\ ~(Last(touched).count >= setting.perKey)
         /\ answer.allowed = TRUE /\ answer.bucket.store = Counted(touched)
  BY AnswerIs
<1>3. Budgeted(k) => k \in Keys
  BY DEF Budgeted, Ids
<1>4. Budgeted(k) => NowTouched(touched, b.store, k)
  BY <1>1, <1>3, Touching
<1> HIDE DEF touched, answer
<1>5. Budgeted(k) =>
         /\ touched \in Stores /\ L \in Nat \ {0} /\ L \in 1 .. L /\ Last(touched).key = k
         /\ Last(touched) = touched[L] /\ touched[L].key = k
         /\ \A j \in 1 .. L - 1 : j \in 1 .. L /\ j # L
  BY <1>4, Places DEF NowTouched, Last
<1>6. SpentFor(b, k) => ~answer.allowed
  <2> SUFFICES ASSUME Budgeted(k), b.tokens > 0,
                      NEW i \in 1 .. Len(b.store),
                      b.store[i].key = k, b.store[i].age < Window,
                      b.store[i].count >= setting.perKey
               PROVE  ~answer.allowed
    BY <1>1, <1>2 DEF SpentFor
  <2>1. Last(touched) = b.store[i]
    <3>1. KeysDiffer(b.store) /\ b.store[i].age # Window
      BY <1>1, StoreIs, LimiterSizes
    <3> QED
      BY <1>4, <3>1 DEF NowTouched, KeysDiffer
  <2> QED
    BY <1>2, <2>1
<1>7. ~answer.allowed => SpentFor(answer.bucket, k)
  <2> SUFFICES ASSUME Budgeted(k), Last(touched).count >= setting.perKey,
                      answer.bucket.store = touched
               PROVE  SpentFor(answer.bucket, k)
    BY <1>2 DEF SpentFor
  <2>1. Last(touched).age < Window
    BY <1>3, <1>4, FreshIs DEF NowTouched
  <2> QED
    BY <1>5, <2>1 DEF SpentFor
<1>8. ASSUME CountersKept, NEW q \in Ids, SpentFor(b, q) PROVE SpentFor(answer.bucket, q)
  <2>1. CASE b.tokens <= 0
    BY <1>1, <1>2, <2>1 DEF SpentFor
  <2>2. CASE q = k
    BY <1>6, <1>7, <1>8, <2>2
  <2>3. CASE b.tokens > 0 /\ q # k
    <3>1. PICK i \in 1 .. Len(b.store) :
             /\ Budgeted(q) /\ b.store[i].key = q /\ b.store[i].age < Window
             /\ b.store[i].count >= setting.perKey
      BY <1>1, <1>8, <2>3 DEF SpentFor
    <3>2. CASE ~Budgeted(k)
      BY <1>2, <2>3, <3>1, <3>2 DEF SpentFor
    <3>3. CASE Budgeted(k)
      <4>1. PICK j \in 1 .. L - 1 : touched[j] = b.store[i]
        BY <1>4, <1>8, <2>3, <3>1, <3>3 DEF NowTouched
      <4>2. j \in 1 .. L /\ j # L
        BY <1>5, <3>3, <4>1
      <4>3. CASE answer.bucket.store = touched
        BY <3>1, <4>1, <4>2, <4>3 DEF SpentFor
      <4>4. CASE answer.bucket.store = Counted(touched)
        <5>1. Len(Counted(touched)) = L /\ Counted(touched)[j] = touched[j]
          BY <1>5, <3>3, <4>2, CountedIs
        <5> QED
          BY <3>1, <4>1, <4>2, <4>4, <5>1 DEF SpentFor
      <4> QED
        BY <1>1, <1>2, <2>3, <3>3, <4>3, <4>4
    <3> QED
      BY <3>2, <3>3
  <2> QED
    BY <1>1, <2>1, <2>2, <2>3
<1> QED
  BY <1>6, <1>7, <1>8 DEF answer

(* Whatever a bucket says, it agrees with a log in which nothing is granted.*)
LEMMA EvaluateKeepsType ==
    ASSUME setting \in Settings, NEW b \in Buckets, NEW c \in Callers, NEW k \in Ids
    PROVE  LET answer == Evaluate(b, k, TRUE)
           IN  answer.allowed \in BOOLEAN /\ answer.bucket \in Buckets /\ answer.bucket.age < Window
<1> DEFINE log == [d \in Callers |-> [pc |-> "idle", key |-> NoKey, ago |-> 0]]
<1>1. log \in Logs /\ \A d \in Callers : ~IsGranted(log, d)
  BY LimiterSizes DEF Logs, CallStates, Ids, IsGranted
<1> HIDE DEF log
<1>2. \A ks, ticks : GrantsIn(log, ks, ticks) = 0
  <2> TAKE ks, ticks
  <2>1. GrantedIn(log, ks, ticks) = {}
    BY <1>1 DEF GrantedIn
  <2> QED
    BY <2>1, GrantsAreCounted
<1>3. /\ b.tokens \in Int /\ b.tokens <= setting.max /\ setting.max \in Nat /\ Cost \in Nat
      /\ setting.perKey \in Nat /\ b.store \in Stores
  BY BucketIs, SettingIs, LimiterSizes
<1>4. TokensAgree(b.tokens, b.age, log)
  BY <1>1, <1>2, <1>3 DEF TokensAgree
<1>5. KeysAgree(b.store, log)
  <2> SUFFICES ASSUME NEW q \in Keys PROVE Current(b.store, q, log) \/ Lapsed(b.store, q, log)
    BY DEF KeysAgree
  <2>1. CASE \E i \in DOMAIN b.store : b.store[i].key = q /\ b.store[i].age < Window
    <3>1. PICK i \in 1 .. Len(b.store) : b.store[i].key = q /\ b.store[i].age < Window
      BY <1>3, <2>1, StoreIs
    <3>2. i \in DOMAIN b.store /\ b.store[i].count \in Nat
      BY <1>3, StoreIs
    <3>3. 0 <= b.store[i].count /\ 0 <= setting.perKey + b.store[i].count
      BY <1>3, <3>2
    <3>4. /\ GrantsIn(log, {q}, b.store[i].age + 1) <= b.store[i].count
          /\ GrantsIn(log, {q}, Window) <= setting.perKey + b.store[i].count
      BY <1>2, <3>3
    <3> QED
      BY <3>1, <3>2, <3>4 DEF Current
  <2>2. CASE ~ \E i \in DOMAIN b.store : b.store[i].key = q /\ b.store[i].age < Window
    <3>1. ASSUME NEW i \in DOMAIN b.store, b.store[i].key = q PROVE b.store[i].age = Window
      <4>1. b.store[i].age \in 0 .. Window /\ ~(b.store[i].age < Window)
        BY <1>3, <2>2, <3>1, StoreIs
      <4> QED
        BY <4>1, LimiterSizes
    <3> QED
      BY <1>2, <1>3, <3>1 DEF Lapsed
  <2> QED
    BY <2>1, <2>2
<1>6. ~IsGranted(log, c) /\ Books(b, log)
  BY <1>1, <1>4, <1>5 DEF Books
<1> QED
  BY <1>1, <1>6, EvaluateKeepsBooks DEF Books

-----------------------------------------------------------------------------
(* A round through the queue.                                               *)
States == [bucket : Buckets, left : Seq(Callers)]

RoundFrom(upTo, b, waiting) ==
    /\ \A k \in 0 .. Len(waiting) : upTo[k] \in States
    /\ upTo[0] = [bucket |-> Refilled(b), left |-> <<>>]
    /\ \A k \in 1 .. Len(waiting) : upTo[k] = Served(upTo[k - 1], waiting[k])

LEMMA ServedIs ==
    ASSUME setting \in Settings, calls \in Logs, NEW soFar \in States, NEW c \in Callers
    PROVE  LET answer == Evaluate(soFar.bucket, calls[c].key, TRUE)
           IN  /\ Served(soFar, c) \in States
               /\ Served(soFar, c).bucket = answer.bucket
               /\ answer.allowed => Served(soFar, c).left = soFar.left
               /\ ~answer.allowed => Served(soFar, c).left = Append(soFar.left, c)
<1> DEFINE answer == Evaluate(soFar.bucket, calls[c].key, TRUE)
<1>1. soFar.bucket \in Buckets /\ soFar.left \in Seq(Callers) /\ calls[c].key \in Ids
  BY DEF States, Logs
<1>2. answer.allowed \in BOOLEAN /\ answer.bucket \in Buckets
  BY <1>1, EvaluateKeepsType
<1>3. Served(soFar, c) = [bucket |-> answer.bucket,
         left |-> IF answer.allowed THEN soFar.left ELSE Append(soFar.left, c)]
  BY DEF Served
<1> HIDE DEF answer
<1>4. (IF answer.allowed THEN soFar.left ELSE Append(soFar.left, c)) \in Seq(Callers)
  BY <1>1
<1> DEFINE left == IF answer.allowed THEN soFar.left ELSE Append(soFar.left, c)
<1>5. Served(soFar, c) = [bucket |-> answer.bucket, left |-> left] /\ left \in Seq(Callers)
      /\ (answer.allowed => left = soFar.left)
      /\ (~answer.allowed => left = Append(soFar.left, c))
  BY <1>3, <1>4
<1> HIDE DEF left
<1>6. Served(soFar, c) \in States
  BY <1>2, <1>5 DEF States
<1>7. Served(soFar, c).bucket = answer.bucket /\ Served(soFar, c).left = left
  BY <1>5
<1> QED
  BY <1>5, <1>6, <1>7 DEF answer

LEMMA Rounds ==
    ASSUME setting \in Settings, calls \in Logs, NEW b \in Buckets, NEW waiting \in Seq(Callers)
    PROVE  \E upTo : RoundFrom(upTo, b, waiting) /\ Round(b, waiting) = upTo[Len(waiting)]
<1> DEFINE L == Len(waiting)
           V == States
           v0 == [bucket |-> Refilled(b), left |-> <<>>]
           step == [k \in 1 .. L |-> [soFar \in V |-> Served(soFar, waiting[k])]]
           Solves(f) == f = [i \in 0 .. L |->
              IF i = 0 THEN [bucket |-> Refilled(b), left |-> <<>>]
              ELSE Served(f[i - 1], waiting[i])]
           upTo == CHOOSE f : Solves(f)
<1>1. L \in Nat /\ v0 \in V /\ \A k \in 1 .. L : waiting[k] \in Callers
  BY TokensRefilled DEF States
<1>2. step \in [1 .. L -> [V -> V]]
  <2>1. \A k \in 1 .. L, soFar \in V : Served(soFar, waiting[k]) \in V
    BY <1>1, ServedIs
  <2> HIDE DEF V
  <2> QED
    BY <2>1
<1>3. PICK f \in [0 .. L -> V] : Turns(f, v0, step, L)
  <2> HIDE DEF V, step, L, v0
  <2> QED
    BY <1>1, <1>2, TurnsExist
<1>4. ASSUME NEW k \in 1 .. L PROVE f[k] = Served(f[k - 1], waiting[k])
  <2>1. k - 1 \in 0 .. L
    BY <1>1
  <2>2. f[k] = step[k][f[k - 1]] /\ f[k - 1] \in V
    BY <1>3, <2>1 DEF Turns
  <2>3. step[k][f[k - 1]] = Served(f[k - 1], waiting[k])
    BY <2>2
  <2> QED
    BY <2>2, <2>3
<1>5. f[0] = v0
  BY <1>3 DEF Turns
<1>6. Solves(f)
  <2>1. ASSUME NEW k \in 0 .. L
        PROVE f[k] = IF k = 0 THEN v0 ELSE Served(f[k - 1], waiting[k])
    BY <1>1, <1>4, <1>5
  <2> QED
    BY <1>3, <2>1
<1>7. Solves(upTo)
  <2> HIDE DEF Solves
  <2> QED
    BY <1>6
<1>8. Round(b, waiting) = upTo[L]
  BY DEF Round
<1> HIDE DEF upTo, step
<1>9. upTo[0] = v0 /\ \A k \in 1 .. L : upTo[k] = Served(upTo[k - 1], waiting[k])
  <2>1. \A k \in 0 .. L : upTo[k] = IF k = 0 THEN v0 ELSE Served(upTo[k - 1], waiting[k])
    BY <1>7
  <2>2. 0 \in 0 .. L /\ \A k \in 1 .. L : k \in 0 .. L /\ k # 0
    BY <1>1
  <2> HIDE DEF v0
  <2> QED
    BY <2>1, <2>2
<1> DEFINE N == {k \in Nat : k <= L => upTo[k] \in V}
<1>10. 0 \in N
  BY <1>1, <1>9
<1>11. ASSUME NEW k \in N PROVE k + 1 \in N
  <2> SUFFICES ASSUME k + 1 <= L PROVE upTo[k + 1] \in V
    OBVIOUS
  <2>1. k \in Nat /\ k <= L /\ k + 1 \in 1 .. L /\ (k + 1) - 1 = k
    BY <1>1
  <2>2. upTo[k] \in V /\ upTo[k + 1] = Served(upTo[k], waiting[k + 1])
    BY <1>9, <2>1
  <2> QED
    BY <1>1, <2>1, <2>2, ServedIs
<1>12. N = Nat
  <2>1. N \in SUBSET Nat
    OBVIOUS
  <2> HIDE DEF N
  <2> QED
    BY <1>10, <1>11, <2>1, AllNaturals
<1>13. \A k \in 0 .. L : upTo[k] \in V
  BY <1>1, <1>12
<1> QED
  BY <1>8, <1>9, <1>13 DEF RoundFrom

(* The first n in the queue have been served: the log has the granted ones  *)
(* of them, the books agree with it, and whoever is left is left rightly.   *)
FirstIn(waiting, n) == {waiting[j] : j \in 1 .. n}
LogOf(granted) ==
    [c \in Callers |-> IF c \in granted THEN [calls[c] EXCEPT !.pc = "granted"] ELSE calls[c]]

LeftRightly(soFar, waiting, n, i) ==
    waiting[i] \in ToSet(soFar.left) =>
        /\ SpentFor(soFar.bucket, calls[waiting[i]].key)
        /\ \A j \in i + 1 .. n :
              calls[waiting[j]].key = calls[waiting[i]].key => waiting[j] \in ToSet(soFar.left)

RoundSoFar(soFar, waiting, n) ==
    /\ soFar \in States /\ soFar.bucket.age < Window
    /\ NoRepetition(soFar.left) /\ ToSet(soFar.left) \subseteq FirstIn(waiting, n)
    /\ Books(soFar.bucket, LogOf(FirstIn(waiting, n) \ ToSet(soFar.left)))
    /\ CountersKept => \A i \in 1 .. n : LeftRightly(soFar, waiting, n, i)

Waiting(c) == c \in Callers /\ calls[c].pc = "waiting" /\ calls[c].ago = 0

LEMMA GrantingWaiters ==
    ASSUME calls \in Logs, NEW granted, \A c \in granted : Waiting(c)
    PROVE  /\ LogOf(granted) \in Logs
           /\ \A c \in Callers : c \notin granted => LogOf(granted)[c] = calls[c]
           /\ \A c \in granted : LogOf(granted)[c] = [pc |-> "granted", key |-> calls[c].key, ago |-> 0]
<1>1. "granted" \in CallStates
  BY DEF CallStates
<1>2. \A c \in granted : [calls[c] EXCEPT !.pc = "granted"]
                            = [pc |-> "granted", key |-> calls[c].key, ago |-> 0]
  BY DEF Waiting, Logs
<1>3. \A c \in granted : c \in Callers /\ calls[c].key \in Ids
  BY DEF Waiting, Logs
<1>4. \A c \in granted : LogOf(granted)[c] = [pc |-> "granted", key |-> calls[c].key, ago |-> 0]
  BY <1>2, <1>3 DEF LogOf
<1>5. \A c \in Callers : c \notin granted => LogOf(granted)[c] = calls[c]
  BY DEF LogOf
<1>6. ASSUME NEW c \in Callers
      PROVE  LogOf(granted)[c] \in [pc : CallStates, key : Ids, ago : 0 .. Window]
  <2>1. CASE c \in granted
    <3>1. 0 \in 0 .. Window /\ calls[c].key \in Ids
      BY <1>3, <2>1, LimiterSizes
    <3>2. LogOf(granted)[c] = [pc |-> "granted", key |-> calls[c].key, ago |-> 0]
      BY <1>4, <2>1
    <3> QED
      BY <1>1, <3>1, <3>2
  <2>2. CASE c \notin granted
    BY <1>5, <2>2 DEF Logs
  <2> QED
    BY <2>1, <2>2
<1>7. LogOf(granted) \in Logs
  BY <1>6 DEF Logs, LogOf
<1> QED
  BY <1>4, <1>5, <1>7

LEMMA GrantingOneMore ==
    ASSUME calls \in Logs, NEW granted, \A d \in granted : Waiting(d),
           NEW c, Waiting(c), c \notin granted
    PROVE  /\ ~IsGranted(LogOf(granted), c)
           /\ LogOf(granted \cup {c}) = Grant(LogOf(granted), c, calls[c].key)
<1> DEFINE before == LogOf(granted)
           after == LogOf(granted \cup {c})
           more == Grant(before, c, calls[c].key)
<1>1. c \in Callers /\ before \in Logs /\ before[c] = calls[c] /\ calls[c].pc = "waiting"
  BY GrantingWaiters DEF Waiting
<1>2. /\ after \in Logs
      /\ after[c] = [pc |-> "granted", key |-> calls[c].key, ago |-> 0]
      /\ \A d \in Callers : d # c => after[d] = before[d]
  <2>1. \A d \in granted \cup {c} : Waiting(d)
    OBVIOUS
  <2>2. /\ after \in Logs
        /\ after[c] = [pc |-> "granted", key |-> calls[c].key, ago |-> 0]
    BY <2>1, GrantingWaiters
  <2>3. \A d \in Callers : d # c => after[d] = before[d]
    BY DEF LogOf
  <2> QED
    BY <2>2, <2>3
<1>3. /\ more \in [Callers -> [pc : {"granted"} \cup CallStates, key : {calls[c].key} \cup Ids,
                               ago : {0} \cup 0 .. Window]]
      /\ more[c] = [pc |-> "granted", key |-> calls[c].key, ago |-> 0]
      /\ \A d \in Callers : d # c => more[d] = before[d]
  BY <1>1 DEF Grant, Logs
<1> HIDE DEF before, after, more
<1>4. after = more
  BY <1>2, <1>3 DEF Logs
<1> QED
  BY <1>1, <1>4 DEF IsGranted, before, after, more

(* The next in the queue is served.                                         *)
LEMMA ServingOneMore ==
    ASSUME setting \in Settings, calls \in Logs, NEW waiting \in Seq(Callers),
           NoRepetition(waiting), \A i \in 1 .. Len(waiting) : Waiting(waiting[i]),
           NEW n \in 0 .. Len(waiting) - 1, NEW soFar, RoundSoFar(soFar, waiting, n)
    PROVE  RoundSoFar(Served(soFar, waiting[n + 1]), waiting, n + 1)
<1> DEFINE c == waiting[n + 1]
           k == calls[c].key
           b == soFar.bucket
           left == soFar.left
           granted == FirstIn(waiting, n) \ ToSet(left)
           answer == Evaluate(b, k, TRUE)
           next == Served(soFar, c)
<1>1. /\ n \in Nat /\ n + 1 \in 1 .. Len(waiting) /\ c \in Callers /\ k \in Ids /\ Waiting(c)
      /\ \A i \in 1 .. n : i \in 1 .. Len(waiting) /\ i \in 1 .. n + 1 /\ i # n + 1
      /\ \A i \in 1 .. n + 1 : i \in 1 .. n \/ i = n + 1
      /\ \A i \in 1 .. n : \A j \in i + 1 .. n + 1 : j \in i + 1 .. n \/ j = n + 1
      /\ (n + 1) + 1 .. n + 1 = {}
  BY DEF Logs
<1>2. /\ soFar \in States /\ b \in Buckets /\ left \in Seq(Callers) /\ b.age < Window
      /\ NoRepetition(left) /\ ToSet(left) \subseteq FirstIn(waiting, n) /\ Books(b, LogOf(granted))
  BY DEF RoundSoFar, States
<1>3. FirstIn(waiting, n + 1) = FirstIn(waiting, n) \cup {c} /\ c \notin FirstIn(waiting, n)
  BY <1>1 DEF FirstIn, NoRepetition
<1>4. (\A d \in granted : Waiting(d)) /\ c \notin granted /\ c \notin ToSet(left)
  BY <1>1, <1>2, <1>3 DEF FirstIn
<1>5. /\ LogOf(granted) \in Logs /\ ~IsGranted(LogOf(granted), c)
      /\ LogOf(granted \cup {c}) = Grant(LogOf(granted), c, k)
  <2> HIDE DEF c, granted
  <2>1. LogOf(granted) \in Logs
    BY <1>4, GrantingWaiters
  <2> QED
    BY <1>1, <1>4, <2>1, GrantingOneMore DEF k
<1>6. /\ answer.allowed \in BOOLEAN /\ answer.bucket.age < Window
      /\ answer.allowed => Books(answer.bucket, LogOf(granted \cup {c}))
      /\ ~answer.allowed => Books(answer.bucket, LogOf(granted))
  <2> HIDE DEF c, k, b, granted
  <2> QED
    BY <1>1, <1>2, <1>5, EvaluateKeepsBooks
<1>7. /\ SpentFor(b, k) => ~answer.allowed
      /\ ~answer.allowed => SpentFor(answer.bucket, k)
      /\ CountersKept => \A q \in Ids : SpentFor(b, q) => SpentFor(answer.bucket, q)
  <2> HIDE DEF k, b
  <2> QED
    BY <1>1, <1>2, EvaluateSpends
<1>8. /\ next \in States /\ next.bucket = answer.bucket
      /\ answer.allowed => next.left = left
      /\ ~answer.allowed => next.left = Append(left, c)
  BY <1>1, <1>2, ServedIs
<1>9. /\ ToSet(Append(left, c)) = ToSet(left) \cup {c}
      /\ NoRepetition(Append(left, c))
  BY <1>1, <1>2, <1>4, AppendingOne
<1>10. CountersKept => \A i \in 1 .. n : LeftRightly(soFar, waiting, n, i)
  BY DEF RoundSoFar
<1>11. \A i \in 1 .. n : waiting[i] # c /\ waiting[i] \in Callers /\ calls[waiting[i]].key \in Ids
  BY <1>1 DEF NoRepetition, Logs
<1> HIDE DEF c, k, answer, next, b, left
<1>12. CASE answer.allowed
  <2>1. FirstIn(waiting, n + 1) \ ToSet(next.left) = granted \cup {c}
    BY <1>3, <1>4, <1>8, <1>12
  <2>2. ASSUME CountersKept, NEW i \in 1 .. n + 1 PROVE LeftRightly(next, waiting, n + 1, i)
    <3>1. CASE i = n + 1
      BY <1>4, <1>8, <1>12, <3>1 DEF LeftRightly, c
    <3>2. CASE i \in 1 .. n
      <4> SUFFICES ASSUME waiting[i] \in ToSet(left)
                   PROVE  /\ SpentFor(next.bucket, calls[waiting[i]].key)
                          /\ \A j \in i + 1 .. n + 1 : calls[waiting[j]].key = calls[waiting[i]].key =>
                                waiting[j] \in ToSet(left)
        BY <1>8, <1>12 DEF LeftRightly
      <4>1. /\ SpentFor(b, calls[waiting[i]].key)
            /\ \A j \in i + 1 .. n : calls[waiting[j]].key = calls[waiting[i]].key =>
                  waiting[j] \in ToSet(left)
        BY <1>10, <2>2, <3>2 DEF LeftRightly, b, left
      <4>2. SpentFor(next.bucket, calls[waiting[i]].key)
        BY <1>7, <1>8, <1>11, <2>2, <3>2, <4>1
      <4>3. k # calls[waiting[i]].key
        BY <1>7, <1>12, <4>1
      <4> QED
        BY <1>1, <3>2, <4>1, <4>2, <4>3 DEF c, k
    <3> QED
      BY <1>1, <3>1, <3>2
  <2>3. Books(next.bucket, LogOf(FirstIn(waiting, n + 1) \ ToSet(next.left)))
    BY <1>6, <1>8, <1>12, <2>1
  <2> QED
    BY <1>2, <1>3, <1>6, <1>8, <1>12, <2>2, <2>3 DEF RoundSoFar, left, next, c
<1>13. CASE ~answer.allowed
  <2>1. FirstIn(waiting, n + 1) \ ToSet(next.left) = granted
    BY <1>3, <1>4, <1>8, <1>9, <1>13
  <2>2. ASSUME CountersKept, NEW i \in 1 .. n + 1 PROVE LeftRightly(next, waiting, n + 1, i)
    <3>1. CASE i = n + 1
      <4>1. SpentFor(next.bucket, calls[waiting[i]].key)
        BY <1>7, <1>8, <1>13, <3>1 DEF c, k
      <4> QED
        BY <1>1, <3>1, <4>1 DEF LeftRightly
    <3>2. CASE i \in 1 .. n
      <4> SUFFICES ASSUME waiting[i] \in ToSet(left)
                   PROVE  /\ SpentFor(next.bucket, calls[waiting[i]].key)
                          /\ \A j \in i + 1 .. n + 1 : calls[waiting[j]].key = calls[waiting[i]].key =>
                                waiting[j] \in ToSet(next.left)
        BY <1>8, <1>9, <1>11, <1>13, <3>2 DEF LeftRightly
      <4>1. /\ SpentFor(b, calls[waiting[i]].key)
            /\ \A j \in i + 1 .. n : calls[waiting[j]].key = calls[waiting[i]].key =>
                  waiting[j] \in ToSet(left)
        BY <1>10, <2>2, <3>2 DEF LeftRightly, b, left
      <4>2. SpentFor(next.bucket, calls[waiting[i]].key)
        BY <1>7, <1>8, <1>11, <2>2, <3>2, <4>1
      <4>3. c \in ToSet(next.left) /\ ToSet(left) \subseteq ToSet(next.left)
        BY <1>8, <1>9, <1>13
      <4> QED
        BY <1>1, <3>2, <4>1, <4>2, <4>3 DEF c
    <3> QED
      BY <1>1, <3>1, <3>2
  <2>3. Books(next.bucket, LogOf(FirstIn(waiting, n + 1) \ ToSet(next.left)))
    BY <1>6, <1>8, <1>13, <2>1
  <2>4. NoRepetition(next.left) /\ ToSet(next.left) \subseteq FirstIn(waiting, n + 1)
    BY <1>2, <1>3, <1>8, <1>9, <1>13
  <2> QED
    BY <1>6, <1>8, <2>2, <2>3, <2>4 DEF RoundSoFar, next, c
<1> QED
  BY <1>6, <1>12, <1>13

LEMMA RoundKeepsBooks ==
    ASSUME setting \in Settings, calls \in Logs, NEW b, Books(b, calls),
           NEW waiting \in Seq(Callers), NoRepetition(waiting),
           \A i \in 1 .. Len(waiting) : Waiting(waiting[i])
    PROVE  RoundSoFar(Round(b, waiting), waiting, Len(waiting))
<1> DEFINE L == Len(waiting)
<1>1. b \in Buckets /\ TokensAgree(b.tokens, b.age, calls) /\ KeysAgree(b.store, calls) /\ L \in Nat
  BY DEF Books
<1>2. PICK upTo : RoundFrom(upTo, b, waiting) /\ Round(b, waiting) = upTo[L]
  BY <1>1, Rounds
<1> DEFINE N == {k \in Nat : k <= L => RoundSoFar(upTo[k], waiting, k)}
<1>3. 0 \in N
  <2> DEFINE full == Refilled(b)
             start == upTo[0]
  <2>1. full \in Buckets /\ full.age < Window /\ full.store = b.store
    BY <1>1, TokensRefilled
  <2>2. TokensAgree(full.tokens, full.age, calls)
    BY <1>1, RefillKeepsBooks
  <2>3. LogOf({}) = calls
    BY DEF LogOf, Logs
  <2>4. start = [bucket |-> full, left |-> <<>>] /\ start \in States
    BY <1>1, <1>2 DEF RoundFrom
  <2> HIDE DEF full, start
  <2>5. start.bucket = full /\ start.left = <<>>
    BY <2>4
  <2>6. ToSet(<<>>) = {} /\ NoRepetition(<<>>) /\ FirstIn(waiting, 0) = {}
    BY DEF ToSet, NoRepetition, FirstIn
  <2>7. Books(start.bucket, LogOf(FirstIn(waiting, 0) \ ToSet(start.left)))
    <3>1. FirstIn(waiting, 0) \ ToSet(start.left) = {}
      BY <2>6
    <3>2. Books(full, calls)
      BY <1>1, <2>1, <2>2 DEF Books
    <3> QED
      BY <2>3, <2>5, <3>1, <3>2
  <2>8. RoundSoFar(start, waiting, 0)
    BY <2>1, <2>4, <2>5, <2>6, <2>7 DEF RoundSoFar
  <2> QED
    BY <2>8 DEF start
<1>4. ASSUME NEW k \in N PROVE k + 1 \in N
  <2> SUFFICES ASSUME k + 1 <= L PROVE RoundSoFar(upTo[k + 1], waiting, k + 1)
    OBVIOUS
  <2>1. k \in 0 .. L - 1 /\ k + 1 \in 1 .. L /\ (k + 1) - 1 = k /\ k <= L
    BY <1>1
  <2>2. RoundSoFar(upTo[k], waiting, k)
    BY <2>1
  <2>3. upTo[k + 1] = Served(upTo[k], waiting[k + 1])
    BY <1>2, <2>1 DEF RoundFrom
  <2> QED
    BY <2>1, <2>2, <2>3, ServingOneMore
<1>5. L \in N
  <2>1. N \in SUBSET Nat
    OBVIOUS
  <2> HIDE DEF N
  <2> QED
    BY <1>1, <1>3, <1>4, <2>1, AllNaturals
<1> QED
  BY <1>1, <1>2, <1>5

-----------------------------------------------------------------------------
(* The invariant, through every action.                                     *)
LEMMA InvIs ==
    ASSUME LimiterInv
    PROVE  /\ setting \in Settings /\ calls \in Logs /\ bucket \in Buckets
           /\ requestQueue \in Seq(Callers) /\ NoRepetition(requestQueue)
           /\ Books(bucket, calls)
           /\ \A i \in 1 .. Len(requestQueue) : Waiting(requestQueue[i])
           /\ \A c \in Callers : c \in ToSet(requestQueue) <=> calls[c].pc = "waiting"
<1>1. ToSet(requestQueue) = {requestQueue[i] : i \in 1 .. Len(requestQueue)}
  BY DEF LimiterInv, ToSet
<1> QED
  BY <1>1 DEF LimiterInv, Books, QueueAgrees, Waiting

LEMMA RefillIn ==
    ASSUME setting \in Settings, NEW b \in Buckets
    PROVE  MsUntilRefill(b) \in 0 .. Window
BY BucketIs, LimiterSizes DEF MsUntilRefill

(* What an action leaves: the same setting, a bucket whose books agree with *)
(* the calls, and a queue of the waiting ones.                              *)
LEMMA InvAfter ==
    ASSUME LimiterInv, setting' = setting, Books(bucket', calls'), calls' \in Logs,
           requestQueue' \in Seq(Callers), timer' \in {NoTimer} \cup 0 .. Window,
           NoRepetition(requestQueue'),
           ToSet(requestQueue') = {c \in Callers : calls'[c].pc = "waiting"},
           \A c \in Callers : calls'[c].pc # "granted" => calls'[c].ago = 0
    PROVE  LimiterInv'
<1>1. Stores' = Stores /\ Buckets' = Buckets
  BY DEF Stores, Buckets
<1>2. setting' \in Settings
  BY DEF LimiterInv
<1>3. TokensAgree(bucket.tokens, bucket.age, calls)'
  BY DEF Books, TokensAgree, GrantsIn, GrantedIn, IsGranted
<1>4. KeysAgree(bucket.store, calls)'
  BY DEF Books, KeysAgree, CountersKept, Current, Lapsed, GrantsIn, GrantedIn, IsGranted
<1>5. QueueAgrees'
  BY DEF QueueAgrees, NoRepetition
<1> QED
  BY <1>1, <1>2, <1>3, <1>4, <1>5 DEF LimiterInv, Books, Logs

LEMMA InitInv ==
    ASSUME LimiterInit PROVE LimiterInv
<1>1. setting.max \in Nat \ {0} /\ setting.perKey \in Nat /\ setting.tracked \in Nat \ {0}
      /\ Window \in Nat \ {0} /\ Cost \in Nat \ {0} /\ MaxIdle \in Nat \ {0} /\ setting \in Settings
  BY SettingIs, LimiterSizes DEF LimiterInit
<1>2. calls \in Logs /\ \A c \in Callers : calls[c].pc = "idle" /\ calls[c].ago = 0
  BY <1>1 DEF LimiterInit, Logs, CallStates, Ids
<1>3. \A ks, ticks : GrantsIn(calls, ks, ticks) = 0
  <2> TAKE ks, ticks
  <2>1. GrantedIn(calls, ks, ticks) = {}
    BY <1>2 DEF GrantedIn, IsGranted
  <2> QED
    BY <2>1, GrantsAreCounted
<1>4. bucket = [tokens |-> setting.max, age |-> 0, store |-> <<>>]
  BY DEF LimiterInit
<1>5. 0 \in 0 .. (MaxIdle + 1) * Window
  <2>1. (MaxIdle + 1) * Window \in Nat
    BY <1>1
  <2> QED
    BY <2>1
<1>6. <<>> \in Stores
  BY <1>1 DEF Stores, KeysDiffer
<1>7. setting.max \in (1 - Cost) .. setting.max
  BY <1>1
<1>8. bucket \in Buckets
  BY <1>4, <1>5, <1>6, <1>7 DEF Buckets
<1>9. bucket.tokens = setting.max /\ bucket.age = 0 /\ bucket.store = <<>>
  BY <1>4
<1>10. TokensAgree(bucket.tokens, bucket.age, calls)
  BY <1>1, <1>2, <1>3, <1>9 DEF TokensAgree
<1>11. KeysAgree(bucket.store, calls)
  BY <1>1, <1>3, <1>9 DEF KeysAgree, Lapsed
<1>12. QueueAgrees
  <2>1. requestQueue = <<>> /\ ToSet(<<>>) = {}
    BY DEF LimiterInit, ToSet
  <2> QED
    BY <1>2, <2>1 DEF QueueAgrees, NoRepetition
<1> QED
  BY <1>1, <1>2, <1>8, <1>10, <1>11, <1>12 DEF LimiterInv, LimiterInit

(* A request that asks joins the log where it was told to stand.            *)
LEMMA Asking ==
    ASSUME calls \in Logs, NEW c \in Callers, NEW k \in Ids, NotAsked(c), NEW pc \in CallStates,
           Asks(c, k, pc)
    PROVE  /\ calls' \in Logs /\ calls'[c] = [pc |-> pc, key |-> k, ago |-> 0]
           /\ \A d \in Callers : d # c => calls'[d] = calls[d]
           /\ pc = "granted" => calls' = Grant(calls, c, k)
           /\ pc # "granted" => \A ks, ticks : GrantsIn(calls', ks, ticks) = GrantsIn(calls, ks, ticks)
           /\ ~IsGranted(calls, c)
<1>1. 0 \in 0 .. Window
  BY LimiterSizes
<1>2. /\ calls' \in Logs /\ calls'[c] = [pc |-> pc, key |-> k, ago |-> 0]
      /\ \A d \in Callers : d # c => calls'[d] = calls[d]
  BY <1>1 DEF Asks, Logs
<1>3. ~IsGranted(calls, c)
  BY DEF NotAsked, IsGranted
<1>4. pc = "granted" => calls' = Grant(calls, c, k)
  BY DEF Asks, Grant
<1>5. ASSUME pc # "granted", NEW ks, NEW ticks
      PROVE  GrantsIn(calls', ks, ticks) = GrantsIn(calls, ks, ticks)
  <2>1. calls'[c].pc = pc
    BY <1>2
  <2>2. GrantedIn(calls', ks, ticks) = GrantedIn(calls, ks, ticks)
    BY <1>2, <1>3, <1>5, <2>1 DEF GrantedIn, IsGranted
  <2> QED
    BY <2>2 DEF GrantsIn
<1> QED
  BY <1>2, <1>3, <1>4, <1>5

(* A log that says the same of the granted ones keeps the books.            *)
LEMMA SameGrantsKeepBooks ==
    ASSUME NEW b, NEW log, NEW log2, Books(b, log),
           \A ks, ticks : GrantsIn(log2, ks, ticks) = GrantsIn(log, ks, ticks),
           \A c \in Callers : IsGranted(log2, c) => IsGranted(log, c) /\ log2[c] = log[c]
    PROVE  Books(b, log2)
<1>1. TokensAgree(b.tokens, b.age, log2)
  BY DEF Books, TokensAgree
<1>2. KeysAgree(b.store, log2)
  BY DEF Books, KeysAgree, Current, Lapsed
<1> QED
  BY <1>1, <1>2 DEF Books

(* What a request is told, at once.                                         *)
LEMMA AskingKeepsBooks ==
    ASSUME LimiterInv, NEW c \in Callers, NEW k \in Ids, NotAsked(c), NEW denied \in CallStates,
           denied # "granted",
           bucket' = Evaluate(bucket, k, TRUE).bucket,
           Asks(c, k, IF Evaluate(bucket, k, TRUE).allowed THEN "granted" ELSE denied)
    PROVE  Books(bucket', calls') /\ calls' \in Logs /\ bucket' \in Buckets
<1> DEFINE answer == Evaluate(bucket, k, TRUE)
<1>1. setting \in Settings /\ calls \in Logs /\ Books(bucket, calls)
  BY InvIs
<1>2. ~IsGranted(calls, c)
  BY DEF NotAsked, IsGranted
<1>3. /\ answer.allowed \in BOOLEAN
      /\ answer.allowed => Books(answer.bucket, Grant(calls, c, k))
      /\ ~answer.allowed => Books(answer.bucket, calls)
  BY <1>1, <1>2, EvaluateKeepsBooks
<1>4. bucket' = answer.bucket /\ Asks(c, k, IF answer.allowed THEN "granted" ELSE denied)
  OBVIOUS
<1> HIDE DEF answer
<1>5. CASE answer.allowed
  <2>1. Asks(c, k, "granted") /\ "granted" \in CallStates
    BY <1>4, <1>5 DEF CallStates
  <2>2. calls' = Grant(calls, c, k) /\ calls' \in Logs
    BY <1>1, <2>1, Asking
  <2> QED
    BY <1>3, <1>4, <1>5, <2>2 DEF Books
<1>6. CASE ~answer.allowed
  <2>1. Asks(c, k, denied)
    BY <1>4, <1>6
  <2>2. /\ calls' \in Logs /\ calls'[c] = [pc |-> denied, key |-> k, ago |-> 0]
        /\ \A d \in Callers : d # c => calls'[d] = calls[d]
        /\ \A ks, ticks : GrantsIn(calls', ks, ticks) = GrantsIn(calls, ks, ticks)
    BY <1>1, <2>1, Asking
  <2>3. ASSUME NEW d \in Callers, IsGranted(calls', d)
        PROVE  IsGranted(calls, d) /\ calls'[d] = calls[d]
    <3>1. calls'[c].pc = denied
      BY <2>2
    <3> QED
      BY <2>2, <2>3, <3>1 DEF IsGranted
  <2>4. Books(answer.bucket, calls')
    BY <1>3, <1>6, <2>2, <2>3, SameGrantsKeepBooks
  <2> QED
    BY <1>4, <2>2, <2>4 DEF Books
<1> QED
  BY <1>3, <1>5, <1>6

LEMMA TryAcquireKeepsInv ==
    ASSUME LimiterInv, NEW c \in Callers, NEW k \in Ids, TryAcquire(c, k)
    PROVE  LimiterInv'
<1> DEFINE pc == IF Evaluate(bucket, k, TRUE).allowed THEN "granted" ELSE "denied"
<1>1. NotAsked(c) /\ Asks(c, k, pc) /\ bucket' = Evaluate(bucket, k, TRUE).bucket
      /\ UNCHANGED <<setting, requestQueue, timer>>
  BY DEF TryAcquire, IsNext
<1>2. "denied" \in CallStates /\ "granted" \in CallStates
  BY DEF CallStates
<1>3. Books(bucket', calls') /\ calls' \in Logs
  BY <1>1, <1>2, AskingKeepsBooks
<1>4. calls \in Logs /\ QueueAgrees /\ calls[c].pc = "idle"
  BY <1>1 DEF LimiterInv, NotAsked
<1>5. pc \in {"granted", "denied"} /\ pc \in CallStates
  BY <1>2
<1> HIDE DEF pc
<1>6. calls'[c].pc = pc /\ calls'[c].ago = 0 /\ \A d \in Callers : d # c => calls'[d] = calls[d]
  <2>1. /\ calls'[c] = [pc |-> pc, key |-> k, ago |-> 0]
        /\ \A d \in Callers : d # c => calls'[d] = calls[d]
    BY <1>1, <1>4, <1>5, Asking
  <2> QED
    BY <2>1
<1>7. /\ \A d \in Callers : calls'[d].pc = "waiting" <=> calls[d].pc = "waiting"
      /\ \A d \in Callers : calls'[d].pc # "granted" => calls'[d].ago = 0
  BY <1>4, <1>5, <1>6 DEF QueueAgrees
<1>8. NoRepetition(requestQueue) /\ ToSet(requestQueue) = {d \in Callers : calls'[d].pc = "waiting"}
  BY <1>4, <1>7 DEF QueueAgrees
<1>9. requestQueue' = requestQueue /\ timer' = timer /\ setting' = setting
  BY <1>1
<1>10. requestQueue \in Seq(Callers) /\ timer \in {NoTimer} \cup 0 .. Window
  BY DEF LimiterInv
<1> QED
  BY <1>3, <1>7, <1>8, <1>9, <1>10, InvAfter

LEMMA AcquireKeepsInv ==
    ASSUME LimiterInv, NEW c \in Callers, NEW k \in Ids, Acquire(c, k)
    PROVE  LimiterInv'
<1> DEFINE answer == Evaluate(bucket, k, TRUE)
           pc == IF answer.allowed THEN "granted" ELSE "waiting"
<1>1. /\ NotAsked(c) /\ Asks(c, k, pc) /\ bucket' = answer.bucket /\ setting' = setting
      /\ answer.allowed => requestQueue' = requestQueue /\ timer' = timer
      /\ ~answer.allowed => /\ requestQueue' = Append(requestQueue, c)
                            /\ timer' = IF timer = NoTimer THEN MsUntilRefill(bucket') ELSE timer
  BY DEF Acquire, IsNext
<1>2. "waiting" \in CallStates /\ "granted" \in CallStates
  BY DEF CallStates
<1>3. Books(bucket', calls') /\ calls' \in Logs /\ bucket' \in Buckets
  BY <1>1, <1>2, AskingKeepsBooks
<1>4. /\ setting \in Settings /\ calls \in Logs /\ QueueAgrees /\ calls[c].pc = "idle"
      /\ requestQueue \in Seq(Callers) /\ timer \in {NoTimer} \cup 0 .. Window
      /\ NoRepetition(requestQueue)
      /\ ToSet(requestQueue) = {d \in Callers : calls[d].pc = "waiting"}
      /\ \A d \in Callers : calls[d].pc # "granted" => calls[d].ago = 0
  BY <1>1 DEF LimiterInv, NotAsked, QueueAgrees
<1>5. /\ answer.allowed => pc = "granted"
      /\ ~answer.allowed => pc = "waiting"
      /\ pc \in CallStates
  BY <1>2
<1> HIDE DEF answer, pc
<1>6. calls'[c].pc = pc /\ calls'[c].ago = 0 /\ \A d \in Callers : d # c => calls'[d] = calls[d]
  <2>1. /\ calls'[c] = [pc |-> pc, key |-> k, ago |-> 0]
        /\ \A d \in Callers : d # c => calls'[d] = calls[d]
    BY <1>1, <1>4, <1>5, Asking
  <2> QED
    BY <2>1
<1>7. \A d \in Callers : calls'[d].pc # "granted" => calls'[d].ago = 0
  BY <1>4, <1>6
<1>8. timer' \in {NoTimer} \cup 0 .. Window
  BY <1>1, <1>3, <1>4, RefillIn
<1>9. /\ requestQueue' \in Seq(Callers) /\ NoRepetition(requestQueue')
      /\ ToSet(requestQueue') = {d \in Callers : calls'[d].pc = "waiting"}
  <2>1. CASE answer.allowed
    <3>1. \A d \in Callers : calls'[d].pc = "waiting" <=> calls[d].pc = "waiting"
      BY <1>4, <1>5, <1>6, <2>1
    <3>2. {d \in Callers : calls'[d].pc = "waiting"} = {d \in Callers : calls[d].pc = "waiting"}
      BY <3>1
    <3> QED
      BY <1>1, <1>4, <2>1, <3>2
  <2>2. CASE ~answer.allowed
    <3>1. c \notin ToSet(requestQueue)
      BY <1>4
    <3>2. /\ requestQueue' \in Seq(Callers) /\ NoRepetition(requestQueue')
          /\ ToSet(requestQueue') = ToSet(requestQueue) \cup {c}
      <4>1. requestQueue' = Append(requestQueue, c)
        BY <1>1, <2>2
      <4> QED
        BY <1>4, <3>1, <4>1, AppendingOne
    <3>3. \A d \in Callers : calls'[d].pc = "waiting" <=> calls[d].pc = "waiting" \/ d = c
      BY <1>5, <1>6, <2>2
    <3> QED
      BY <1>4, <3>2, <3>3
  <2> QED
    BY <2>1, <2>2
<1> QED
  BY <1>1, <1>3, <1>7, <1>8, <1>9, InvAfter

(* Actions that leave the calls alone.                                      *)
LEMMA StoreKeepsInv ==
    ASSUME LimiterInv, Books(bucket', calls), UNCHANGED <<setting, calls, requestQueue, timer>>
    PROVE  LimiterInv'
<1>1. /\ calls \in Logs /\ QueueAgrees /\ requestQueue \in Seq(Callers)
      /\ timer \in {NoTimer} \cup 0 .. Window
  BY DEF LimiterInv
<1> QED
  BY <1>1, InvAfter DEF QueueAgrees

LEMMA CheckKeepsInv ==
    ASSUME LimiterInv, NEW k \in Ids, Check(k)
    PROVE  LimiterInv'
BY InvIs, CheckKeepsBooks, StoreKeepsInv DEF Check

LEMMA WithStoreKeepsInv ==
    ASSUME LimiterInv, NEW store \in Stores, KeysAgree(store, calls),
           bucket' = [bucket EXCEPT !.store = store], UNCHANGED <<setting, calls, requestQueue, timer>>
    PROVE  LimiterInv'
<1>1. bucket \in Buckets /\ TokensAgree(bucket.tokens, bucket.age, calls)
  BY DEF LimiterInv
<1>2. /\ bucket' \in Buckets /\ bucket'.tokens = bucket.tokens
      /\ bucket'.age = bucket.age /\ bucket'.store = store
  BY <1>1, WithStore
<1>3. Books(bucket', calls)
  BY <1>1, <1>2 DEF Books
<1> QED
  BY <1>3, StoreKeepsInv

LEMMA PruneKeepsInv ==
    ASSUME LimiterInv, Prune
    PROVE  LimiterInv'
<1>1. bucket' = [bucket EXCEPT !.store = Pruned(bucket.store)]
  BY DEF Prune
<1>2. setting \in Settings /\ calls \in Logs /\ bucket.store \in Stores /\ KeysAgree(bucket.store, calls)
  BY InvIs, BucketIs DEF Books
<1>3. Pruned(bucket.store) \in Stores /\ KeysAgree(Pruned(bucket.store), calls)
  BY <1>2, PruneKeepsBooks
<1> QED
  BY <1>1, <1>3, WithStoreKeepsInv DEF Prune

LEMMA ClearKeepsInv ==
    ASSUME LimiterInv, Clear
    PROVE  LimiterInv'
<1>1. <<>> \in Stores
  BY InvIs, SettingIs DEF Stores, KeysDiffer
<1>2. KeysAgree(<<>>, calls)
  BY DEF Clear, KeysAgree, CountersKept
<1> QED
  BY <1>1, <1>2, WithStoreKeepsInv DEF Clear

LEMMA TickKeepsInv ==
    ASSUME LimiterInv, Tick
    PROVE  LimiterInv'
<1> DEFINE aged == [bucket EXCEPT !.age = Aged(bucket.age)]
<1>1. /\ setting \in Settings /\ calls \in Logs /\ bucket \in Buckets /\ bucket.store \in Stores
      /\ TokensAgree(bucket.tokens, bucket.age, calls) /\ KeysAgree(bucket.store, calls)
      /\ requestQueue \in Seq(Callers) /\ timer \in {NoTimer} \cup 0 .. Window /\ QueueAgrees
  BY BucketIs DEF LimiterInv
<1>2. calls' = LogAged(calls)
  BY DEF Tick, LogAged, IsGranted
<1>3. /\ bucket' = [bucket EXCEPT !.age = Aged(bucket.age), !.store = StoreAged(bucket.store)]
      /\ setting' = setting /\ requestQueue' = requestQueue
  BY DEF Tick
<1>4. timer' = IF timer > 0 THEN timer - 1 ELSE timer
  BY DEF Tick
<1>5. /\ Aged(bucket.age) \in 0 .. (MaxIdle + 1) * Window
      /\ TokensAgree(bucket.tokens, Aged(bucket.age), LogAged(calls))
  BY <1>1, TickKeepsBooks
<1>6. StoreAged(bucket.store) \in Stores /\ KeysAgree(StoreAged(bucket.store), LogAged(calls))
  BY <1>1, AgeingKeepsBooks
<1>7. aged \in Buckets /\ aged.tokens = bucket.tokens /\ aged.age = Aged(bucket.age)
  BY <1>1, <1>5 DEF Buckets
<1>8. bucket' = [aged EXCEPT !.store = StoreAged(bucket.store)]
  BY <1>1, <1>3 DEF Buckets
<1> HIDE DEF aged
<1>9. /\ bucket' \in Buckets /\ bucket'.tokens = bucket.tokens /\ bucket'.age = Aged(bucket.age)
      /\ bucket'.store = StoreAged(bucket.store)
  BY <1>6, <1>7, <1>8, WithStore
<1>10. Books(bucket', calls')
  BY <1>2, <1>5, <1>6, <1>9 DEF Books
<1>11. /\ calls' \in Logs
       /\ \A c \in Callers : calls'[c].pc = calls[c].pc
       /\ \A c \in Callers : calls[c].pc # "granted" => calls'[c] = calls[c]
  <2>1. LogAged(calls) \in Logs /\ \A c \in Callers : LogAged(calls)[c].pc = calls[c].pc
    BY <1>1, GrantsAge
  <2>2. \A c \in Callers : calls[c].pc # "granted" => LogAged(calls)[c] = calls[c]
    BY DEF LogAged, IsGranted
  <2> QED
    BY <1>2, <2>1, <2>2
<1>12. timer' \in {NoTimer} \cup 0 .. Window
  BY <1>1, <1>4, LimiterSizes DEF NoTimer
<1>13. {c \in Callers : calls'[c].pc = "waiting"} = {c \in Callers : calls[c].pc = "waiting"}
  BY <1>11
<1>14. \A c \in Callers : calls'[c].pc # "granted" => calls'[c].ago = 0
  BY <1>1, <1>11 DEF QueueAgrees
<1>15. NoRepetition(requestQueue) /\ ToSet(requestQueue) = {c \in Callers : calls'[c].pc = "waiting"}
  BY <1>1, <1>13 DEF QueueAgrees
<1> QED
  BY <1>1, <1>3, <1>10, <1>11, <1>12, <1>14, <1>15, InvAfter

(* The timer's round.                                                       *)
LEMMA ProcessQueueIs ==
    ASSUME LimiterInv, ProcessQueue
    PROVE  \E round :
              /\ RoundSoFar(round, requestQueue, Len(requestQueue))
              /\ bucket' = round.bucket /\ requestQueue' = round.left /\ setting' = setting
              /\ calls' = LogOf(ToSet(requestQueue) \ ToSet(round.left))
              /\ timer' = IF round.left # <<>> THEN MsUntilRefill(round.bucket) ELSE NoTimer
<1> DEFINE round == Round(bucket, requestQueue)
<1>1. RoundSoFar(round, requestQueue, Len(requestQueue))
  BY InvIs, RoundKeepsBooks
<1>2. /\ bucket' = round.bucket /\ requestQueue' = round.left /\ setting' = setting
      /\ calls' = LogOf(ToSet(requestQueue) \ ToSet(round.left))
      /\ timer' = IF round.left # <<>> THEN MsUntilRefill(round.bucket) ELSE NoTimer
  BY DEF ProcessQueue, LogOf
<1> QED
  BY <1>1, <1>2

LEMMA ProcessQueueKeepsInv ==
    ASSUME LimiterInv, ProcessQueue
    PROVE  LimiterInv'
<1>1. PICK round :
         /\ RoundSoFar(round, requestQueue, Len(requestQueue))
         /\ bucket' = round.bucket /\ requestQueue' = round.left /\ setting' = setting
         /\ calls' = LogOf(ToSet(requestQueue) \ ToSet(round.left))
         /\ timer' = IF round.left # <<>> THEN MsUntilRefill(round.bucket) ELSE NoTimer
  BY ProcessQueueIs
<1> DEFINE granted == ToSet(requestQueue) \ ToSet(round.left)
<1>2. FirstIn(requestQueue, Len(requestQueue)) = ToSet(requestQueue)
  BY InvIs DEF FirstIn, ToSet
<1>3. /\ round.bucket \in Buckets /\ round.left \in Seq(Callers) /\ NoRepetition(round.left)
      /\ ToSet(round.left) \subseteq ToSet(requestQueue)
      /\ Books(round.bucket, LogOf(granted))
  BY <1>1, <1>2 DEF RoundSoFar, States
<1>4. /\ setting \in Settings /\ calls \in Logs /\ QueueAgrees
      /\ ToSet(requestQueue) = {c \in Callers : calls[c].pc = "waiting"}
      /\ \A c \in Callers : calls[c].pc # "granted" => calls[c].ago = 0
  BY DEF LimiterInv, QueueAgrees
<1>5. \A c \in granted : Waiting(c)
  BY <1>4 DEF Waiting
<1> HIDE DEF granted
<1>6. /\ LogOf(granted) \in Logs
      /\ \A c \in Callers : c \notin granted => LogOf(granted)[c] = calls[c]
      /\ \A c \in granted : LogOf(granted)[c].pc = "granted"
  <2>1. /\ LogOf(granted) \in Logs
        /\ \A c \in Callers : c \notin granted => LogOf(granted)[c] = calls[c]
        /\ \A c \in granted : LogOf(granted)[c] = [pc |-> "granted", key |-> calls[c].key, ago |-> 0]
    BY <1>4, <1>5, GrantingWaiters
  <2>2. ASSUME NEW c \in granted PROVE LogOf(granted)[c].pc = "granted"
    <3>1. LogOf(granted)[c] = [pc |-> "granted", key |-> calls[c].key, ago |-> 0]
      BY <2>1
    <3> QED
      BY <3>1
  <2> QED
    BY <2>1, <2>2
<1>7. calls' = LogOf(granted)
  BY <1>1 DEF granted
<1>8. \A c \in Callers : calls'[c].pc # "granted" => calls'[c].ago = 0
  BY <1>4, <1>6, <1>7
<1>9. ToSet(round.left) = {c \in Callers : calls'[c].pc = "waiting"}
  <2>1. ASSUME NEW c \in Callers PROVE calls'[c].pc = "waiting" <=> c \in ToSet(round.left)
    BY <1>3, <1>4, <1>6, <1>7 DEF granted
  <2>2. ToSet(round.left) \subseteq Callers
    BY <1>3, <1>4
  <2> QED
    BY <2>1, <2>2
<1>10. timer' \in {NoTimer} \cup 0 .. Window
  BY <1>1, <1>3, <1>4, RefillIn
<1>11. Books(bucket', calls') /\ calls' \in Logs
  BY <1>1, <1>3, <1>6, <1>7
<1> QED
  BY <1>1, <1>3, <1>8, <1>9, <1>10, <1>11, InvAfter

LEMMA NextKeepsInv ==
    ASSUME LimiterInv, [LimiterNext]_limiterVars
    PROVE  LimiterInv'
<1>1. ASSUME NEW c \in Callers, NEW k \in Ids, Acquire(c, k) PROVE LimiterInv'
  BY <1>1, AcquireKeepsInv
<1>2. ASSUME NEW c \in Callers, NEW k \in Ids, TryAcquire(c, k) PROVE LimiterInv'
  BY <1>2, TryAcquireKeepsInv
<1>3. ASSUME NEW k \in Ids, Check(k) PROVE LimiterInv'
  BY <1>3, CheckKeepsInv
<1>4. CASE ProcessQueue
  BY <1>4, ProcessQueueKeepsInv
<1>5. CASE Prune
  BY <1>5, PruneKeepsInv
<1>6. CASE Clear
  BY <1>6, ClearKeepsInv
<1>7. CASE Tick
  BY <1>7, TickKeepsInv
<1>8. CASE UNCHANGED limiterVars
  <2>1. UNCHANGED <<setting, calls, requestQueue, timer>> /\ bucket' = bucket
    BY <1>8 DEF limiterVars
  <2>2. Books(bucket', calls)
    BY <2>1, InvIs
  <2> QED
    BY <2>1, <2>2, StoreKeepsInv
<1> QED
  BY <1>1, <1>2, <1>3, <1>4, <1>5, <1>6, <1>7, <1>8 DEF LimiterNext

LEMMA InvAlways == LimiterSpec => []LimiterInv
<1>1. LimiterInit => LimiterInv
  BY InitInv
<1>2. LimiterInv /\ [LimiterNext]_limiterVars => LimiterInv'
  BY NextKeepsInv
<1> QED
  BY <1>1, <1>2, PTL DEF LimiterSpec

-----------------------------------------------------------------------------
(* The budgets.                                                             *)
LEMMA InvKeepsBudgets ==
    ASSUME LimiterInv
    PROVE  WithinBudgets
<1>1. /\ setting \in Settings /\ calls \in Logs /\ bucket \in Buckets
      /\ TokensAgree(bucket.tokens, bucket.age, calls) /\ KeysAgree(bucket.store, calls)
  BY DEF LimiterInv
<1>2. /\ setting.max \in Nat \ {0} /\ setting.perKey \in Nat /\ Cost \in Nat \ {0}
      /\ Window \in Nat \ {0} /\ bucket.tokens \in (1 - Cost) .. setting.max /\ bucket.age \in Nat
      /\ bucket.store \in Stores
  BY <1>1, SettingIs, BucketIs, LimiterSizes
<1>3. \A ks, ticks : Grants(ks, ticks) = GrantsIn(calls, ks, ticks)
  BY DEF Grants, GrantsIn, GrantedIn, IsGranted
<1>4. \A ks, ticks : GrantsIn(calls, ks, ticks) \in Nat
  BY GrantsAreCounted
<1> DEFINE start == bucket.age % Window
           now == GrantsIn(calls, Ids, start + 1)
           all == GrantsIn(calls, Ids, Window)
<1>5. start \in 0 .. Window - 1 /\ (bucket.age < Window => start = bucket.age)
      /\ (bucket.age >= Window => start <= bucket.age - Window)
  BY <1>2, Windows
<1>6. now \in Nat /\ all \in Nat
  BY <1>4
<1>7. now * Cost \in Nat /\ all * Cost \in Nat
  BY <1>2, <1>6
<1>8. now * Cost < setting.max + Cost
  <2>1. CASE bucket.age < Window
    <3>1. now * Cost <= setting.max - bucket.tokens
      BY <1>1, <1>5, <2>1 DEF TokensAgree
    <3> HIDE DEF now
    <3> QED
      BY <1>2, <1>7, <3>1
  <2>2. CASE bucket.age >= Window
    <3>1. GrantedIn(calls, Ids, start + 1) = {}
      <4> SUFFICES ASSUME NEW c \in Callers, IsGranted(calls, c), calls[c].ago < start + 1
                   PROVE  FALSE
        BY DEF GrantedIn
      <4>1. calls[c].ago > bucket.age - Window \/ calls[c].ago = Window
        BY <1>1, <2>2 DEF TokensAgree
      <4>2. calls[c].ago \in 0 .. Window
        BY <1>1 DEF Logs
      <4> QED
        BY <1>2, <1>5, <2>2, <4>1, <4>2
    <3>2. now = 0
      BY <3>1, GrantsAreCounted
    <3> HIDE DEF now
    <3> QED
      BY <1>2, <3>2
  <2> QED
    BY <1>2, <2>1, <2>2
<1>9. all * Cost < 2 * setting.max + Cost
  <2>1. all * Cost <= 2 * setting.max - bucket.tokens
    <3>1. bucket.age < Window => all * Cost <= 2 * setting.max - bucket.tokens
      BY <1>1 DEF TokensAgree
    <3>2. bucket.age >= Window => all * Cost <= setting.max - bucket.tokens
      BY <1>1 DEF TokensAgree
    <3> HIDE DEF all
    <3> QED
      BY <1>2, <1>7, <3>1, <3>2
  <2> HIDE DEF all
  <2> QED
    BY <1>2, <1>7, <2>1
<1>10. ASSUME CountersKept, setting.perKey > 0, NEW k \in Keys
       PROVE  Grants({k}, Window) <= 2 * setting.perKey
  <2> DEFINE granted == GrantsIn(calls, {k}, Window)
  <2>1. granted \in Nat
    BY <1>4
  <2>2. Current(bucket.store, k, calls) \/ Lapsed(bucket.store, k, calls)
    BY <1>1, <1>10 DEF KeysAgree
  <2>3. CASE Lapsed(bucket.store, k, calls)
    <3>1. granted <= setting.perKey
      BY <2>3 DEF Lapsed
    <3> HIDE DEF granted
    <3>2. granted <= 2 * setting.perKey
      BY <1>2, <2>1, <3>1
    <3> QED
      BY <1>3, <3>2 DEF granted
  <2>4. CASE Current(bucket.store, k, calls)
    <3>1. PICK i \in DOMAIN bucket.store : granted <= setting.perKey + bucket.store[i].count
      BY <2>4 DEF Current
    <3>2. bucket.store[i].count \in Nat /\ bucket.store[i].count <= setting.perKey
      BY <1>2, StoreIs
    <3> HIDE DEF granted
    <3>3. granted <= 2 * setting.perKey
      BY <1>2, <2>1, <3>1, <3>2
    <3> QED
      BY <1>3, <3>3 DEF granted
  <2> QED
    BY <2>2, <2>3, <2>4
<1> QED
  BY <1>3, <1>8, <1>9, <1>10 DEF WithinBudgets

(* The round.                                                               *)
LEMMA RoundPassesOverRightly ==
    ASSUME LimiterInv, ProcessQueue, CountersKept, NEW i \in 1 .. Len(requestQueue)
    PROVE  PassedOverRightly(i)
<1>1. PICK round :
         /\ RoundSoFar(round, requestQueue, Len(requestQueue))
         /\ bucket' = round.bucket /\ requestQueue' = round.left
  BY ProcessQueueIs
<1>2. LeftRightly(round, requestQueue, Len(requestQueue), i)
  BY <1>1 DEF RoundSoFar
<1>3. \A k : SpentFor(bucket', k) => Spent(bucket', k)
  BY DEF SpentFor, Spent
<1> QED
  BY <1>1, <1>2, <1>3 DEF LeftRightly, PassedOverRightly

LEMMA OnlyRoundsEndTheWait ==
    ASSUME LimiterNext, timer = 0, timer' # 0
    PROVE  ProcessQueue
<1>1. timer # NoTimer /\ ~(timer > 0)
  BY DEF NoTimer
<1>2. ASSUME NEW c \in Callers, NEW k \in Ids, Acquire(c, k) PROVE FALSE
  <2>1. timer' = timer \/ timer' = IF timer = NoTimer THEN MsUntilRefill(bucket') ELSE timer
    BY <1>2 DEF Acquire
  <2> QED
    BY <1>1, <2>1
<1>3. ASSUME NEW c \in Callers, NEW k \in Ids, TryAcquire(c, k) PROVE FALSE
  BY <1>3 DEF TryAcquire
<1>4. ASSUME NEW k \in Ids, Check(k) PROVE FALSE
  BY <1>4 DEF Check
<1>5. ~Prune /\ ~Clear
  BY DEF Prune, Clear
<1>6. ~Tick
  BY <1>1 DEF Tick
<1> QED
  BY <1>2, <1>3, <1>4, <1>5, <1>6 DEF LimiterNext

-----------------------------------------------------------------------------
(* No interval of one window holds more granted requests than twice the     *)
(* rate, rounded up, and no window more than the rate, whatever is asked,   *)
(* checked, pruned or denied and however late the timer is: _refill() in    *)
(* whole windows never gives back what the requests of this window took.    *)
(* As long as no counter is lost no key gets more than twice its budget.    *)
THEOREM BudgetsAlwaysKept == LimiterSpec => []WithinBudgets
<1>1. LimiterInv => WithinBudgets
  BY InvKeepsBudgets
<1> QED
  BY <1>1, InvAlways, PTL

(* A round through the queue (_processQueue()) passes over a request only   *)
(* when the bucket is empty or its key's budget used up, and then serves no *)
(* later request of that key, for any queue and any order of keys in it.    *)
THEOREM RoundsAlwaysFair == LimiterSpec => RoundIsFair
<1>1. LimiterInv /\ [LimiterNext]_limiterVars =>
         [CountersKept /\ timer = 0 /\ timer' # 0 =>
            \A i \in 1 .. Len(requestQueue) : PassedOverRightly(i)]_limiterVars
  <2> SUFFICES ASSUME LimiterInv, LimiterNext, CountersKept, timer = 0, timer' # 0,
                      NEW i \in 1 .. Len(requestQueue)
               PROVE  PassedOverRightly(i)
    OBVIOUS
  <2> QED
    BY OnlyRoundsEndTheWait, RoundPassesOverRightly
<1> QED
  BY <1>1, InvAlways, PTL DEF LimiterSpec, RoundIsFair

(* Every state has the shape LimiterTypeOK gives it: a key has one counter, *)
(* the store never outgrows maxTrackedKeys, and no count passes the limit.  *)
THEOREM LimiterTypeCorrect == LimiterSpec => []LimiterTypeOK
<1>1. LimiterInv => LimiterTypeOK
  BY BucketIs, StoreIs DEF LimiterInv, LimiterTypeOK, Logs, KeysDiffer
<1> QED
  BY <1>1, InvAlways, PTL

=============================================================================
