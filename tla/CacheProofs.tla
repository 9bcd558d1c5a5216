---------------------------- MODULE CacheProofs -----------------------------
(***************************************************************************)
(* The caches between a client and the ledger, for every number of calls,  *)
(* mutations and tabs: none brings back what a caller has seen the end of, *)
(* and none keeps what it was told to forget.                              *)
(***************************************************************************)
EXTENDS InvoiceReads, OptimisticCache, TabSync, BasicLemmas

(* Invoice reads.  When calls share the fetch of an invoice, the cache has  *)
(* no entry for it while the fetch is under way; an entry is what was       *)
(* returned last, and no answer is older.                                   *)
AnyInvoices == Invoices \cup {CHOOSE i \in Invoices : TRUE}
ReadRecords == [pc : {"idle", "waiting", "done"}, of : AnyInvoices, on : Fetches \cup AnyInvoices,
                value : Nat, floor : Nat]
FetchRecords == [stage : {"idle", "asked", "answered"}, of : AnyInvoices, got : Nat]
CacheEntries == [key : Keys, value : Nat]

ReadsRanges ==
    /\ version \in [Invoices -> Nat] /\ seen \in [Invoices -> Nat]
    /\ cache \in Seq(CacheEntries)
    /\ fetches \in [Fetches -> FetchRecords] /\ read \in [Reads -> ReadRecords]

EntryIsGood(e) ==
    \A i \in Invoices : e.key = ReadKey(i) => fetches[i].stage = "idle" /\ e.value = seen[i]

CacheIsGood == \A n \in 1 .. Len(cache) : EntryIsGood(cache[n])

FetchIsGood(f) ==
    /\ fetches[f].stage # "idle" => f \in Invoices /\ fetches[f].of = f
    /\ fetches[f].stage = "answered" => seen[f] <= fetches[f].got /\ fetches[f].got <= version[f]

ReadIsGood(r) ==
    /\ read[r].pc = "waiting" =>
          /\ read[r].on \in Invoices /\ read[r].on = read[r].of
          /\ fetches[read[r].on].stage # "idle" /\ read[r].floor <= seen[read[r].of]
    /\ read[r].pc = "done" => read[r].value >= read[r].floor

ReadsInv ==
    /\ ReadsRanges /\ CacheIsGood
    /\ \A i \in Invoices : seen[i] <= version[i]
    /\ \A f \in Fetches : FetchIsGood(f)
    /\ \A r \in Reads : ReadIsGood(r)

(* Dropping a key from the cache leaves the other entries.                  *)
LEMMA WithoutKeeps ==
    ASSUME cache \in Seq(CacheEntries), NEW key
    PROVE  /\ Without(key) \in Seq(CacheEntries)
           /\ \A n \in 1 .. Len(Without(key)) : \E m \in 1 .. Len(cache) : Without(key)[n] = cache[m]
<1>1. CASE Holds(key)
  <2>1. Place(key) \in DOMAIN cache
    BY <1>1 DEF Holds, Place
  <2> DEFINE at == Place(key)
             left == RemoveAt(cache, at)
  <2>2. at \in DOMAIN cache
    BY <2>1
  <2> HIDE DEF at
  <2>3. left \in Seq(CacheEntries) /\ \A n \in DOMAIN left : \E m \in DOMAIN cache : left[n] = cache[m]
    BY <2>2, RemovingKeepsOthers
  <2> HIDE DEF left
  <2>4. DOMAIN left = 1 .. Len(left) /\ DOMAIN cache = 1 .. Len(cache)
    BY <2>3
  <2>5. Without(key) = left
    BY <1>1 DEF Without, left, at
  <2> QED
    BY <2>3, <2>4, <2>5
<1>2. CASE ~Holds(key)
  BY <1>2 DEF Without
<1> QED
  BY <1>1, <1>2

(* Storing an entry leaves others, but those of its key.                    *)
LEMMA StoredKeeps ==
    ASSUME cache \in Seq(CacheEntries), NEW key \in Keys, NEW v \in Nat
    PROVE  /\ Stored(key, v) \in Seq(CacheEntries)
           /\ \A n \in 1 .. Len(Stored(key, v)) :
                 \/ Stored(key, v)[n] = [key |-> key, value |-> v]
                 \/ \E m \in 1 .. Len(cache) : Stored(key, v)[n] = cache[m]
<1> DEFINE e == [key |-> key, value |-> v]
<1>1. e \in CacheEntries
  BY DEF CacheEntries
<1>2. CASE Holds(key)
  <2> DEFINE new == [n \in 1 .. Len(cache) |-> IF cache[n].key = key THEN e ELSE cache[n]]
  <2>1. \A n \in 1 .. Len(cache) : cache[n] \in CacheEntries
    OBVIOUS
  <2>2. Stored(key, v) = new
    BY <1>2 DEF Stored
  <2> HIDE DEF e
  <2>3. new \in [1 .. Len(cache) -> CacheEntries] /\ Len(cache) \in Nat
    BY <1>1, <2>1
  <2>4. new \in Seq(CacheEntries) /\ Len(new) = Len(cache)
    BY <2>3
  <2>5. \A n \in 1 .. Len(cache) : new[n] = e \/ new[n] = cache[n]
    OBVIOUS
  <2> HIDE DEF new
  <2> QED
    BY <2>2, <2>4, <2>5 DEF e
<1>3. CASE ~Holds(key) /\ Len(cache) >= MaxEntries
  <2>1. cache # <<>> /\ Len(cache) >= 1
    BY <1>3, Capacity
  <2>2. Stored(key, v) = Append(Tail(cache), e)
    BY <1>3 DEF Stored
  <2> HIDE DEF e
  <2>3. /\ Tail(cache) \in Seq(CacheEntries) /\ Len(Tail(cache)) = Len(cache) - 1
        /\ \A n \in 1 .. Len(cache) - 1 : Tail(cache)[n] = cache[n + 1] /\ n + 1 \in 1 .. Len(cache)
    BY <2>1
  <2> DEFINE rest == Tail(cache)
             new == Append(rest, e)
  <2> HIDE DEF rest
  <2>4. rest \in Seq(CacheEntries) /\ Len(rest) = Len(cache) - 1 /\ Len(rest) \in Nat
    BY <2>1, <2>3 DEF rest
  <2>5. new \in Seq(CacheEntries) /\ Len(new) = Len(cache)
    BY <1>1, <2>1, <2>4
  <2>6. \A n \in 1 .. Len(cache) : new[n] = e \/ (n \in 1 .. Len(cache) - 1 /\ new[n] = rest[n])
    BY <1>1, <2>4
  <2> HIDE DEF new
  <2>7. \A n \in 1 .. Len(new) : new[n] = e \/ \E m \in 1 .. Len(cache) : new[n] = cache[m]
    BY <2>3, <2>5, <2>6 DEF rest
  <2>8. Stored(key, v) = new
    BY <2>2 DEF new, rest
  <2> QED
    BY <2>5, <2>7, <2>8 DEF e
<1>4. CASE ~Holds(key) /\ ~(Len(cache) >= MaxEntries)
  <2>1. Stored(key, v) = Append(cache, e)
    BY <1>4 DEF Stored
  <2> HIDE DEF e
  <2>2. /\ Append(cache, e) \in Seq(CacheEntries) /\ Len(Append(cache, e)) = Len(cache) + 1
        /\ \A n \in 1 .. Len(cache) + 1 :
              Append(cache, e)[n] = e \/ (n \in 1 .. Len(cache) /\ Append(cache, e)[n] = cache[n])
    BY <1>1
  <2> QED
    BY <2>1, <2>2 DEF e
<1> QED
  BY <1>2, <1>3, <1>4

(* Steps that leave the entries of invoices, or add none, and change        *)
(* nothing else.                                                            *)
LEMMA ReadsCacheStep ==
    ASSUME ReadsInv, UNCHANGED <<version, seen, fetches, read>>, cache' \in Seq(CacheEntries),
           \A n \in 1 .. Len(cache') : EntryIsGood(cache'[n])
    PROVE  ReadsInv'
BY DEF ReadsInv, ReadsRanges, CacheIsGood, EntryIsGood, FetchIsGood, ReadIsGood

LEMMA DroppingKeepsReads ==
    ASSUME ReadsInv, NEW key, cache' = Without(key), UNCHANGED <<version, seen, fetches, read>>
    PROVE  ReadsInv'
<1> DEFINE left == Without(key)
<1>1. left \in Seq(CacheEntries) /\ \A n \in 1 .. Len(left) : \E m \in 1 .. Len(cache) : left[n] = cache[m]
  BY WithoutKeeps DEF ReadsInv, ReadsRanges
<1> HIDE DEF left
<1>2. \A n \in 1 .. Len(left) : EntryIsGood(left[n])
  <2> TAKE n \in 1 .. Len(left)
  <2>1. PICK m \in 1 .. Len(cache) : left[n] = cache[m]
    BY <1>1
  <2> QED
    BY <2>1 DEF ReadsInv, CacheIsGood
<1>3. cache' = left
  BY DEF left
<1> QED
  BY <1>1, <1>2, <1>3, ReadsCacheStep

LEMMA ReadsStepKeeps ==
    ASSUME Dedupe, ReadsInv, [ReadsNext]_readsVars
    PROVE  ReadsInv'
<1> USE DEF ReadsInv
<1>0. /\ \A i \in Invoices : seen[i] \in Nat /\ version[i] \in Nat /\ i \in Fetches /\ ReadKey(i) \in Keys
      /\ \A f \in Fetches : /\ fetches[f].got \in Nat
                            /\ fetches[f].stage \in {"idle", "asked", "answered"}
      /\ \A r \in Reads : read[r].value \in Nat /\ read[r].floor \in Nat
  <2>1. \A f \in Fetches : fetches[f] \in FetchRecords
    BY DEF ReadsRanges
  <2>2. \A r \in Reads : read[r] \in ReadRecords
    BY DEF ReadsRanges
  <2>3. \A i \in Invoices : seen[i] \in Nat /\ version[i] \in Nat
    BY DEF ReadsRanges
  <2> QED
    BY <2>1, <2>2, <2>3 DEF Fetches, ReadKey, Keys, FetchRecords, ReadRecords
<1>1. ASSUME NEW r \in Reads, NEW i \in Invoices, ReadHits(r, i) PROVE ReadsInv'
  <2> DEFINE k == Place(ReadKey(i))
  <2>1. k \in 1 .. Len(cache) /\ cache[k].key = ReadKey(i)
    BY <1>1 DEF ReadHits, Holds, Place
  <2> DEFINE e == Entry(ReadKey(i))
  <2>2. e = cache[k]
    BY DEF Entry
  <2> HIDE DEF k, e
  <2>3. e \in CacheEntries /\ e.value = seen[i] /\ e.value \in Nat /\ EntryIsGood(e)
    <3>1. e \in CacheEntries /\ EntryIsGood(e)
      BY <2>1, <2>2 DEF ReadsRanges, CacheIsGood
    <3> QED
      BY <2>1, <2>2, <3>1 DEF EntryIsGood, CacheEntries
  <2>4. seen' = [seen EXCEPT ![i] = IF e.value > seen[i] THEN e.value ELSE seen[i]] /\ UNCHANGED <<version, fetches>>
    BY <1>1 DEF ReadHits, Returned, e
  <2>5. seen' = seen
    BY <1>0, <2>3, <2>4 DEF ReadsRanges
  <2>6. read' = [read EXCEPT ![r] = [pc |-> "done", of |-> i, on |-> read[r].on,
                                     value |-> seen[i], floor |-> seen[i]]]
    BY <1>1, <2>3 DEF ReadHits, e
  <2>7. cache' \in Seq(CacheEntries) /\ \A n \in 1 .. Len(cache') : EntryIsGood(cache'[n])
    <3> DEFINE left == Without(ReadKey(i))
    <3>1. left \in Seq(CacheEntries) /\ \A n \in 1 .. Len(left) : \E m \in 1 .. Len(cache) : left[n] = cache[m]
      BY WithoutKeeps DEF ReadsRanges
    <3>2. cache' = Append(left, e)
      BY <1>1 DEF ReadHits, Touched, e
    <3> HIDE DEF left
    <3>3. /\ cache' \in Seq(CacheEntries) /\ Len(cache') = Len(left) + 1
          /\ \A n \in 1 .. Len(cache') : cache'[n] = e \/ (n \in 1 .. Len(left) /\ cache'[n] = left[n])
      BY <2>3, <3>1, <3>2
    <3>4. ASSUME NEW n \in 1 .. Len(left) PROVE EntryIsGood(left[n])
      <4>1. PICK m \in 1 .. Len(cache) : left[n] = cache[m]
        BY <3>1
      <4> QED
        BY <4>1 DEF CacheIsGood
    <3> QED
      BY <2>3, <3>3, <3>4
  <2>8. read' \in [Reads -> ReadRecords]
    <3>1. read[r] \in ReadRecords
      BY DEF ReadsRanges
    <3>2. [pc |-> "done", of |-> i, on |-> read[r].on, value |-> seen[i], floor |-> seen[i]] \in ReadRecords
      BY <1>0, <3>1 DEF ReadRecords, AnyInvoices
    <3> QED
      BY <2>6, <3>2 DEF ReadsRanges
  <2>9. ReadsRanges'
    BY <2>4, <2>5, <2>7, <2>8 DEF ReadsRanges
  <2>10. CacheIsGood'
    BY <2>4, <2>5, <2>7 DEF CacheIsGood, EntryIsGood
  <2>11. \A f \in Fetches : FetchIsGood(f)'
    BY <2>4, <2>5 DEF FetchIsGood
  <2>12. \A q \in Reads : ReadIsGood(q)'
    <3>1. read'[r].pc = "done" /\ read'[r].value >= read'[r].floor
      BY <1>0, <2>6 DEF ReadsRanges
    <3>2. \A q \in Reads : q # r => read'[q] = read[q]
      BY <2>6 DEF ReadsRanges
    <3> QED
      BY <2>4, <2>5, <3>1, <3>2 DEF ReadIsGood
  <2> QED
    BY <2>4, <2>5, <2>9, <2>10, <2>11, <2>12
<1>2. ASSUME NEW r \in Reads, NEW i \in Invoices, ReadMisses(r, i) PROVE ReadsInv'
  <2>1. /\ JoinedFetch(r, i) = i /\ i \in Fetches /\ i \in AnyInvoices
        /\ \A f \in Fetches : fetches[f] \in FetchRecords
    BY <1>2 DEF JoinedFetch, Fetches, ReadsRanges, AnyInvoices
  <2>2. /\ ~Holds(ReadKey(i)) /\ UNCHANGED <<version, seen, cache>>
        /\ fetches' = IF fetches[i].stage = "idle"
                      THEN [fetches EXCEPT ![i] = [stage |-> "asked", of |-> i, got |-> 0]] ELSE fetches
        /\ read' = [read EXCEPT ![r] = [pc |-> "waiting", of |-> i, on |-> i,
                                        value |-> 0, floor |-> seen[i]]]
    BY <1>2, <2>1 DEF ReadMisses
  <2>3. \A f \in Fetches : f # i \/ fetches[f].stage # "idle" => fetches'[f] = fetches[f]
    BY <2>1, <2>2 DEF ReadsRanges
  <2>4. fetches'[i].stage # "idle" /\ fetches'[i].of = i /\ fetches' \in [Fetches -> FetchRecords]
        /\ (fetches'[i].stage = "answered" => fetches'[i] = fetches[i])
    <3>1. CASE fetches[i].stage = "idle"
      <4>1. [stage |-> "asked", of |-> i, got |-> 0] \in FetchRecords
        BY <2>1 DEF FetchRecords
      <4> QED
        BY <2>1, <2>2, <3>1, <4>1 DEF ReadsRanges
    <3>2. CASE fetches[i].stage # "idle"
      BY <2>1, <2>2, <3>2 DEF ReadsRanges, FetchIsGood
    <3> QED
      BY <3>1, <3>2
  <2>5. read' \in [Reads -> ReadRecords]
    <3>1. [pc |-> "waiting", of |-> i, on |-> i, value |-> 0, floor |-> seen[i]] \in ReadRecords
      BY <1>0, <2>1 DEF ReadRecords
    <3> QED
      BY <2>2, <3>1 DEF ReadsRanges
  <2>6. ReadsRanges'
    BY <2>2, <2>4, <2>5 DEF ReadsRanges
  <2>7. CacheIsGood'
    <3>1. ASSUME NEW n \in 1 .. Len(cache), NEW j \in Invoices, cache[n].key = ReadKey(j)
          PROVE  fetches'[j].stage = "idle" /\ cache[n].value = seen[j]
      <4>1. j # i
        BY <2>2, <3>1 DEF Holds
      <4> QED
        BY <1>0, <2>3, <3>1, <4>1 DEF CacheIsGood, EntryIsGood
    <3> QED
      BY <2>2, <3>1 DEF CacheIsGood, EntryIsGood
  <2>8. \A f \in Fetches : FetchIsGood(f)'
    <3> TAKE f \in Fetches
    <3>1. CASE fetches'[f] = fetches[f]
      BY <2>2, <3>1 DEF FetchIsGood
    <3>2. CASE f = i /\ fetches'[f] # fetches[f]
      BY <2>1, <2>2, <2>4, <3>2 DEF FetchIsGood
    <3> QED
      BY <2>3, <3>1, <3>2
  <2>9. \A q \in Reads : ReadIsGood(q)'
    <3>1. read'[r] = [pc |-> "waiting", of |-> i, on |-> i, value |-> 0, floor |-> seen[i]]
      BY <2>2 DEF ReadsRanges
    <3>2. ReadIsGood(r)'
      BY <1>0, <2>2, <2>4, <3>1 DEF ReadIsGood
    <3>3. ASSUME NEW q \in Reads, q # r PROVE ReadIsGood(q)'
      <4>1. read'[q] = read[q]
        BY <2>2, <3>3 DEF ReadsRanges
      <4>2. read[q].pc = "waiting" => fetches'[read[q].on].stage # "idle"
        BY <1>0, <2>3 DEF ReadIsGood
      <4> QED
        BY <2>2, <4>1, <4>2 DEF ReadIsGood
    <3> QED
      BY <3>2, <3>3
  <2> QED
    BY <2>2, <2>6, <2>7, <2>8, <2>9
<1>3. ASSUME NEW r \in Reads, ReadAgain(r) PROVE ReadsInv'
  <2>1. read' = [read EXCEPT ![r].pc = "idle"] /\ UNCHANGED <<version, seen, cache, fetches>>
    BY <1>3 DEF ReadAgain
  <2>2. /\ read'[r].pc = "idle" /\ \A q \in Reads : q # r => read'[q] = read[q]
        /\ read' \in [Reads -> ReadRecords]
    <3>1. read[r] \in ReadRecords
      BY DEF ReadsRanges
    <3>2. [read[r] EXCEPT !.pc = "idle"] \in ReadRecords /\ [read[r] EXCEPT !.pc = "idle"].pc = "idle"
      BY <3>1 DEF ReadRecords
    <3> QED
      BY <2>1, <3>2 DEF ReadsRanges
  <2> QED
    BY <2>1, <2>2 DEF ReadsRanges, CacheIsGood, EntryIsGood, FetchIsGood, ReadIsGood
<1>4. ASSUME NEW f \in Fetches, FetchAnswered(f) PROVE ReadsInv'
  <2>1. /\ fetches[f].stage = "asked" /\ UNCHANGED <<version, seen, cache, read>>
        /\ f \in Invoices /\ fetches[f].of = f /\ fetches[f] \in FetchRecords
        /\ fetches' = [fetches EXCEPT ![f].stage = "answered", ![f].got = version[f]]
    BY <1>4 DEF FetchAnswered, FetchIsGood, ReadsRanges
  <2> DEFINE new == [fetches[f] EXCEPT !.stage = "answered", !.got = version[f]]
  <2>2. new \in FetchRecords /\ new.stage = "answered" /\ new.of = f /\ new.got = version[f]
    BY <1>0, <2>1 DEF FetchRecords
  <2>3. fetches' = [fetches EXCEPT ![f] = new]
    BY <2>1 DEF ReadsRanges
  <2> HIDE DEF new
  <2>4. /\ fetches' \in [Fetches -> FetchRecords]
        /\ fetches'[f] = new /\ \A g \in Fetches : g # f => fetches'[g] = fetches[g]
    BY <2>2, <2>3 DEF ReadsRanges
  <2>5. ReadsRanges'
    BY <2>1, <2>4 DEF ReadsRanges
  <2>6. \A i \in Invoices : fetches'[i].stage = "idle" <=> fetches[i].stage = "idle"
    BY <1>0, <2>1, <2>2, <2>4
  <2>7. CacheIsGood'
    BY <2>1, <2>6 DEF CacheIsGood, EntryIsGood
  <2>8. \A g \in Fetches : FetchIsGood(g)'
    BY <1>0, <2>1, <2>2, <2>4 DEF FetchIsGood
  <2>9. \A q \in Reads : ReadIsGood(q)'
    BY <2>1, <2>6 DEF ReadIsGood
  <2> QED
    BY <2>1, <2>5, <2>7, <2>8, <2>9
<1>5. ASSUME NEW f \in Fetches, FetchResolves(f) PROVE ReadsInv'
  <2> DEFINE v == fetches[f].got
  <2>1. /\ fetches[f].stage = "answered" /\ version' = version
        /\ f \in Invoices /\ fetches[f].of = f /\ fetches[f] \in FetchRecords /\ v \in Nat
        /\ seen[f] <= v /\ v <= version[f]
    BY <1>0, <1>5 DEF FetchResolves, FetchIsGood, ReadsRanges
  <2>2. /\ fetches' = [fetches EXCEPT ![f].stage = "idle"]
        /\ read' = [r \in Reads |-> IF read[r].pc = "waiting" /\ read[r].on = f
                                    THEN [read[r] EXCEPT !.pc = "done", !.value = v] ELSE read[r]]
        /\ cache' = Stored(ReadKey(f), v)
        /\ seen' = [seen EXCEPT ![f] = IF v > seen[f] THEN v ELSE seen[f]]
    BY <1>5, <2>1 DEF FetchResolves, Returned
  <2> HIDE DEF v
  <2>3. seen' \in [Invoices -> Nat] /\ seen'[f] = v /\ \A i \in Invoices : i # f => seen'[i] = seen[i]
    <3>1. (IF v > seen[f] THEN v ELSE seen[f]) = v
      BY <1>0, <2>1
    <3>2. seen' = [seen EXCEPT ![f] = v]
      BY <2>2, <3>1
    <3> QED
      BY <2>1, <3>2 DEF ReadsRanges
  <2>4. /\ fetches' \in [Fetches -> FetchRecords] /\ fetches'[f].stage = "idle"
        /\ \A g \in Fetches : g # f => fetches'[g] = fetches[g]
    <3>1. [fetches[f] EXCEPT !.stage = "idle"] \in FetchRecords /\ [fetches[f] EXCEPT !.stage = "idle"].stage = "idle"
      BY <2>1 DEF FetchRecords
    <3> QED
      BY <2>2, <3>1 DEF ReadsRanges
  <2>5. /\ cache' \in Seq(CacheEntries)
        /\ \A n \in 1 .. Len(cache') : \/ cache'[n] = [key |-> ReadKey(f), value |-> v]
                                       \/ \E m \in 1 .. Len(cache) : cache'[n] = cache[m]
    BY <1>0, <2>1, <2>2, StoredKeeps DEF ReadsRanges
  <2>6. CacheIsGood'
    <3>1. ASSUME NEW n \in 1 .. Len(cache'), NEW i \in Invoices, cache'[n].key = ReadKey(i)
          PROVE  fetches'[i].stage = "idle" /\ cache'[n].value = seen'[i]
      <4>1. CASE cache'[n] = [key |-> ReadKey(f), value |-> v]
        <5>1. i = f
          BY <2>1, <3>1, <4>1 DEF ReadKey
        <5> QED
          BY <2>3, <2>4, <4>1, <5>1
      <4>2. ASSUME NEW m \in 1 .. Len(cache), cache'[n] = cache[m]
            PROVE  fetches'[i].stage = "idle" /\ cache'[n].value = seen'[i]
        <5>1. fetches[i].stage = "idle" /\ cache[m].value = seen[i]
          BY <3>1, <4>2 DEF CacheIsGood, EntryIsGood
        <5>2. i # f
          BY <2>1, <5>1
        <5> QED
          BY <1>0, <2>3, <2>4, <4>2, <5>1, <5>2
      <4> QED
        BY <2>5, <4>1, <4>2
    <3> QED
      BY <3>1 DEF CacheIsGood, EntryIsGood
  <2>7. read' \in [Reads -> ReadRecords]
    <3>1. ASSUME NEW r \in Reads PROVE [read[r] EXCEPT !.pc = "done", !.value = v] \in ReadRecords
      <4>1. read[r] \in ReadRecords
        BY DEF ReadsRanges
      <4> QED
        BY <2>1, <4>1 DEF ReadRecords
    <3> QED
      BY <2>2, <3>1 DEF ReadsRanges
  <2>8. ReadsRanges'
    BY <2>1, <2>3, <2>4, <2>5, <2>7 DEF ReadsRanges
  <2>9. \A g \in Fetches : FetchIsGood(g)'
    <3>1. FetchIsGood(f)'
      BY <2>4 DEF FetchIsGood
    <3>2. ASSUME NEW g \in Fetches, g # f PROVE FetchIsGood(g)'
      <4>1. g \in Invoices => seen'[g] = seen[g]
        BY <2>3, <3>2
      <4> QED
        BY <1>0, <2>1, <2>4, <3>2, <4>1 DEF FetchIsGood
    <3> QED
      BY <3>1, <3>2
  <2>10. \A i \in Invoices : seen'[i] <= version'[i] /\ seen[i] <= seen'[i] /\ seen'[i] \in Nat
    BY <1>0, <2>1, <2>3
  <2>11. \A q \in Reads : ReadIsGood(q)'
    <3> TAKE q \in Reads
    <3>0. read[q] \in ReadRecords /\ read[q].floor \in Nat
      BY <1>0 DEF ReadsRanges
    <3>1. CASE read[q].pc = "waiting" /\ read[q].on = f
      <4>1. read'[q] = [read[q] EXCEPT !.pc = "done", !.value = v]
        BY <2>2, <3>1
      <4>2. read'[q].pc = "done" /\ read'[q].value = v /\ read'[q].floor = read[q].floor
        BY <3>0, <4>1 DEF ReadRecords
      <4>3. read[q].floor <= seen[f] /\ seen[f] \in Nat
        BY <1>0, <2>1, <3>1 DEF ReadIsGood
      <4> QED
        BY <2>1, <3>0, <4>2, <4>3 DEF ReadIsGood
    <3>2. CASE ~(read[q].pc = "waiting" /\ read[q].on = f)
      <4>1. read'[q] = read[q]
        BY <2>2, <3>2
      <4>2. ASSUME read[q].pc = "waiting"
            PROVE  /\ read[q].on \in Invoices /\ read[q].on = read[q].of
                   /\ fetches'[read[q].on].stage # "idle" /\ read[q].floor <= seen'[read[q].of]
        <5>1. /\ read[q].on \in Invoices /\ read[q].on = read[q].of /\ read[q].on # f
              /\ fetches[read[q].on].stage # "idle" /\ read[q].floor <= seen[read[q].of]
          BY <3>2, <4>2 DEF ReadIsGood
        <5> QED
          BY <1>0, <2>3, <2>4, <5>1
      <4> QED
        BY <4>1, <4>2 DEF ReadIsGood
    <3> QED
      BY <3>1, <3>2
  <2> QED
    BY <2>6, <2>8, <2>9, <2>10, <2>11
<1>6. ASSUME NEW f \in Fetches, FetchRejects(f) PROVE ReadsInv'
  <2>1. /\ fetches[f].stage # "idle" /\ UNCHANGED <<version, seen, cache>> /\ fetches[f] \in FetchRecords
        /\ fetches' = [fetches EXCEPT ![f].stage = "idle"]
        /\ read' = [r \in Reads |-> IF read[r].pc = "waiting" /\ read[r].on = f
                                    THEN [read[r] EXCEPT !.pc = "idle"] ELSE read[r]]
    BY <1>6 DEF FetchRejects, ReadsRanges
  <2>2. /\ fetches' \in [Fetches -> FetchRecords] /\ fetches'[f].stage = "idle"
        /\ \A g \in Fetches : g # f => fetches'[g] = fetches[g]
    <3>1. [fetches[f] EXCEPT !.stage = "idle"] \in FetchRecords /\ [fetches[f] EXCEPT !.stage = "idle"].stage = "idle"
      BY <2>1 DEF FetchRecords
    <3> QED
      BY <2>1, <3>1 DEF ReadsRanges
  <2>3. /\ read' \in [Reads -> ReadRecords]
        /\ \A q \in Reads : IF read[q].pc = "waiting" /\ read[q].on = f
                            THEN read'[q].pc = "idle" ELSE read'[q] = read[q]
    <3>1. ASSUME NEW r \in Reads
          PROVE  [read[r] EXCEPT !.pc = "idle"] \in ReadRecords /\ [read[r] EXCEPT !.pc = "idle"].pc = "idle"
      <4>1. read[r] \in ReadRecords
        BY DEF ReadsRanges
      <4> QED
        BY <4>1 DEF ReadRecords
    <3> QED
      BY <2>1, <3>1 DEF ReadsRanges
  <2>4. ReadsRanges'
    BY <2>1, <2>2, <2>3 DEF ReadsRanges
  <2>5. CacheIsGood'
    BY <1>0, <2>1, <2>2 DEF CacheIsGood, EntryIsGood
  <2>6. \A g \in Fetches : FetchIsGood(g)'
    BY <2>1, <2>2 DEF FetchIsGood
  <2>7. \A q \in Reads : ReadIsGood(q)'
    <3> TAKE q \in Reads
    <3>1. CASE read[q].pc = "waiting" /\ read[q].on = f
      BY <2>3, <3>1 DEF ReadIsGood
    <3>2. CASE ~(read[q].pc = "waiting" /\ read[q].on = f)
      <4>1. read'[q] = read[q]
        BY <2>3, <3>2
      <4>2. read[q].pc = "waiting" => /\ read[q].on \in Fetches /\ read[q].on # f
                                      /\ fetches'[read[q].on] = fetches[read[q].on]
        BY <1>0, <2>2, <3>2 DEF ReadIsGood
      <4> QED
        BY <2>1, <4>1, <4>2 DEF ReadIsGood
    <3> QED
      BY <3>1, <3>2
  <2> QED
    BY <2>1, <2>4, <2>5, <2>6, <2>7
<1>7. ASSUME NEW i \in Invoices, LedgerChanges(i) PROVE ReadsInv'
  <2>1. version' = [version EXCEPT ![i] = version[i] + 1] /\ UNCHANGED <<seen, cache, fetches, read>>
    BY <1>7 DEF LedgerChanges
  <2>2. version' \in [Invoices -> Nat] /\ \A j \in Invoices : version[j] <= version'[j] /\ version'[j] \in Nat
    BY <1>0, <2>1 DEF ReadsRanges
  <2>3. \A f \in Fetches : FetchIsGood(f)'
    BY <1>0, <2>1, <2>2 DEF FetchIsGood
  <2>4. \A j \in Invoices : seen'[j] <= version'[j]
    BY <1>0, <2>1, <2>2
  <2>5. \A q \in Reads : ReadIsGood(q)'
    BY <2>1 DEF ReadIsGood
  <2> QED
    BY <2>1, <2>2, <2>3, <2>4, <2>5 DEF ReadsRanges, CacheIsGood, EntryIsGood
<1>8. ASSUME NEW i \in Invoices, PayReports(i) PROVE ReadsInv'
  BY <1>8, DroppingKeepsReads DEF PayReports
<1>9. ASSUME NEW i \in Invoices, CloneReports(i) PROVE ReadsInv'
  <2>1. cache' = Stored(<<"id", i>>, 0) /\ UNCHANGED <<version, seen, fetches, read>>
    BY <1>9 DEF CloneReports
  <2>2. <<"id", i>> \in Keys /\ \A j \in Invoices : ReadKey(j) # <<"id", i>>
    BY DEF Keys, ReadKey
  <2>3. /\ cache' \in Seq(CacheEntries)
        /\ \A n \in 1 .. Len(cache') : \/ cache'[n] = [key |-> <<"id", i>>, value |-> 0]
                                       \/ \E m \in 1 .. Len(cache) : cache'[n] = cache[m]
    <3> DEFINE key == <<"id", i>>
    <3>1. key \in Keys /\ 0 \in Nat /\ cache \in Seq(CacheEntries) /\ cache' = Stored(key, 0)
      BY <2>1, <2>2 DEF ReadsRanges
    <3> HIDE DEF key
    <3>2. /\ cache' \in Seq(CacheEntries)
          /\ \A n \in 1 .. Len(cache') : \/ cache'[n] = [key |-> key, value |-> 0]
                                         \/ \E m \in 1 .. Len(cache) : cache'[n] = cache[m]
      BY <3>1, StoredKeeps
    <3> QED
      BY <3>2 DEF key
  <2>4. \A n \in 1 .. Len(cache') : EntryIsGood(cache'[n])
    <3> TAKE n \in 1 .. Len(cache')
    <3>1. CASE cache'[n] = [key |-> <<"id", i>>, value |-> 0]
      BY <2>2, <3>1 DEF EntryIsGood
    <3>2. CASE \E m \in 1 .. Len(cache) : cache'[n] = cache[m]
      BY <3>2 DEF CacheIsGood
    <3> QED
      BY <2>3, <3>1, <3>2
  <2> QED
    BY <2>1, <2>3, <2>4, ReadsCacheStep
<1>10. CASE Expire
  BY <1>10, DroppingKeepsReads DEF Expire
<1>11. CASE InvalidateCache
  <2>1. CASE cache' = <<>>
    <3>1. cache' \in Seq(CacheEntries) /\ Len(cache') = 0
      BY <2>1
    <3> QED
      BY <1>11, <3>1, ReadsCacheStep DEF InvalidateCache
  <2>2. CASE \E i \in Invoices : cache' = Without(ReadKey(i))
    BY <1>11, <2>2, DroppingKeepsReads DEF InvalidateCache
  <2> QED
    BY <1>11, <2>1, <2>2 DEF InvalidateCache
<1>12. CASE UNCHANGED readsVars
  BY <1>12 DEF readsVars, ReadsRanges, CacheIsGood, EntryIsGood, FetchIsGood, ReadIsGood
<1> QED
  BY <1>1, <1>2, <1>3, <1>4, <1>5, <1>6, <1>7, <1>8, <1>9, <1>10, <1>11, <1>12 DEF ReadsNext

(* As long as calls share fetches, a call of getInvoice() never returns an  *)
(* older invoice than one that ended before it began, and none waits for a  *)
(* fetch that has ended; for every number of calls and every size of the    *)
(* read cache.                                                              *)
THEOREM ReadsNeverGoBack == Dedupe => (ReadsSpec => []MonotonicReads)
<1> SUFFICES ASSUME Dedupe PROVE ReadsSpec => []MonotonicReads
  OBVIOUS
<1>1. ReadsInit => ReadsInv
  <2> SUFFICES ASSUME ReadsInit PROVE ReadsInv
    OBVIOUS
  <2> DEFINE any == CHOOSE i \in Invoices : TRUE
  <2>1. any \in AnyInvoices
    BY DEF AnyInvoices
  <2>2. /\ fetches = [f \in Fetches |-> [stage |-> "idle", of |-> any, got |-> 0]]
        /\ read = [r \in Reads |-> [pc |-> "idle", of |-> any, on |-> any, value |-> 0, floor |-> 0]]
        /\ version = [i \in Invoices |-> 0] /\ seen = [i \in Invoices |-> 0] /\ cache = <<>>
    BY DEF ReadsInit
  <2> HIDE DEF any
  <2>3. ReadsRanges
    BY <2>1, <2>2 DEF ReadsRanges, FetchRecords, ReadRecords
  <2>4. Len(cache) = 0
    BY <2>2
  <2> QED
    BY <2>2, <2>3, <2>4 DEF ReadsInv, CacheIsGood, FetchIsGood, ReadIsGood
<1>2. ReadsInv => MonotonicReads
  BY DEF ReadsInv, ReadIsGood, MonotonicReads, WaitingIsServed, FetchIsGood, Fetches
<1>3. ReadsInv /\ [ReadsNext]_readsVars => ReadsInv'
  BY ReadsStepKeeps
<1> QED
  BY <1>1, <1>2, <1>3, PTL DEF ReadsSpec

-----------------------------------------------------------------------------
(* The optimistic cache.  The queue holds what is not settled; and what a   *)
(* caller sees that applies one mutation at a time follows the ledger: the  *)
(* value saved for a rollback or the prediction is the truth, and with      *)
(* nothing unsettled the committed value is.                                *)
MutationRecords == [state : {"idle", "pending", "committed", "rolledBack"},
                    predicted : Values, rollback : Values]

OptRanges ==
    /\ truth \in Values /\ readCache \in Cached
    /\ mutation \in [Mutations -> MutationRecords]
    /\ pending \in Seq(Mutations) /\ base \in Cached
    /\ fetch \in [Readers -> Flights] /\ reval \in [Slots -> Flights]

QueueIsUnsettled ==
    /\ \A m \in ToSet(pending) : mutation[m].state = "pending"
    /\ ~usage.invalidating => \A m \in Mutations : mutation[m].state = "pending" => m \in ToSet(pending)
    /\ NoRepetition(pending)

Careful == usage.oneAtATime /\ ~usage.paying /\ ~usage.reading

FollowsTruth ==
    /\ \A r \in Readers : fetch[r].stage = "idle"
    /\ \A i \in Slots : reval[i].stage = "idle"
    /\ \A m, n \in Mutations : mutation[m].state = "pending" /\ mutation[n].state = "pending" => m = n
    /\ \A m \in Mutations : mutation[m].state = "pending" =>
          /\ mutation[m].predicted = mutation[m].rollback \cup {m}
          /\ truth = mutation[m].rollback \/ truth = mutation[m].predicted
    /\ Unsettled = {} /\ base # NoValue => base = truth

OptInv == OptRanges /\ QueueIsUnsettled /\ (Careful => FollowsTruth)

(* What an entry is removed from, as far as the steps need it.              *)
LEMMA RemovingFromQueue ==
    ASSUME pending \in Seq(Mutations), NEW m \in Mutations, RemoveEntry(m)
    PROVE  /\ pending' \in Seq(Mutations)
           /\ NoRepetition(pending) => /\ NoRepetition(pending') /\ ToSet(pending') = ToSet(pending) \ {m}
           /\ pending # <<>> /\ Last(pending) # m => pending' # <<>> /\ Last(pending') = Last(pending)
<1>1. CASE m \in ToSet(pending)
  <2> DEFINE at == CHOOSE n \in 1 .. Len(pending) : pending[n] = m
  <2>1. DOMAIN pending = 1 .. Len(pending)
    OBVIOUS
  <2>2. at \in DOMAIN pending /\ pending[at] = m
    BY <1>1, <2>1 DEF ToSet
  <2>3. pending' = RemoveAt(pending, at)
    BY <1>1 DEF RemoveEntry
  <2> HIDE DEF at
  <2>4. /\ RemoveAt(pending, at) \in Seq(Mutations)
        /\ NoRepetition(pending) => /\ NoRepetition(RemoveAt(pending, at))
                                    /\ ToSet(RemoveAt(pending, at)) = ToSet(pending) \ {pending[at]}
        /\ pending[Len(pending)] # pending[at] =>
              /\ RemoveAt(pending, at) # <<>>
              /\ RemoveAt(pending, at)[Len(RemoveAt(pending, at))] = pending[Len(pending)]
    BY <2>2, RemovingOne
  <2> DEFINE left == RemoveAt(pending, at)
  <2> HIDE DEF left
  <2>5. /\ left \in Seq(Mutations) /\ pending' = left
        /\ NoRepetition(pending) => NoRepetition(left) /\ ToSet(left) = ToSet(pending) \ {m}
        /\ pending[Len(pending)] # m => left # <<>> /\ left[Len(left)] = pending[Len(pending)]
    BY <2>2, <2>3, <2>4 DEF left
  <2> QED
    BY <2>5 DEF Last
<1>2. CASE m \notin ToSet(pending)
  <2>1. pending' = pending
    BY <1>2 DEF RemoveEntry
  <2> QED
    BY <1>2, <2>1
<1> QED
  BY <1>1, <1>2

(* Steps that change nothing of the mutations.                              *)
LEMMA StoreStepKeeps ==
    ASSUME OptInv, UNCHANGED <<truth, mutation, pending, usage>>,
           readCache' \in Cached, base' \in Cached, fetch' \in [Readers -> Flights],
           reval' \in [Slots -> Flights],
           Careful => /\ UNCHANGED <<fetch, reval>>
                      /\ base' = base \/ base' = NoValue
    PROVE  OptInv'
<1>1. OptRanges' /\ QueueIsUnsettled'
  BY DEF OptInv, OptRanges, QueueIsUnsettled, ToSet, NoRepetition
<1>2. ASSUME Careful PROVE FollowsTruth'
  <2>1. base' # NoValue => base' = base
    BY <1>2
  <2> QED
    BY <1>2, <2>1 DEF OptInv, FollowsTruth, Unsettled
<1>3. Careful' => Careful
  BY DEF Careful
<1> QED
  BY <1>1, <1>2, <1>3 DEF OptInv

(* A mutation that settles leaves the queue.                                *)
LEMMA SettlingKeeps ==
    ASSUME OptInv, NEW m \in Mutations, NEW ending \in {"committed", "rolledBack"},
           mutation[m].state = "pending", mutation' = [mutation EXCEPT ![m].state = ending],
           RemoveEntry(m), UNCHANGED <<truth, readCache, fetch, reval, usage>>,
           base' \in Cached, Careful => base' = truth
    PROVE  OptInv'
<1>1. /\ mutation' \in [Mutations -> MutationRecords] /\ mutation'[m].state = ending
      /\ \A n \in Mutations : n # m => mutation'[n] = mutation[n]
  <2>1. mutation[m] \in MutationRecords
    BY DEF OptInv, OptRanges
  <2>2. [mutation[m] EXCEPT !.state = ending] \in MutationRecords /\ [mutation[m] EXCEPT !.state = ending].state = ending
    BY <2>1 DEF MutationRecords
  <2> QED
    BY <2>2 DEF OptInv, OptRanges
<1>2. /\ pending' \in Seq(Mutations) /\ NoRepetition(pending')
      /\ ToSet(pending') = ToSet(pending) \ {m}
  BY RemovingFromQueue DEF OptInv, OptRanges, QueueIsUnsettled
<1>3. OptRanges'
  BY <1>1, <1>2 DEF OptInv, OptRanges
<1>4. QueueIsUnsettled'
  <2>1. \A n \in ToSet(pending) : n \in Mutations
    BY DEF OptInv, OptRanges, ToSet
  <2>2. \A n \in ToSet(pending') : mutation'[n].state = "pending"
    BY <1>1, <1>2, <2>1 DEF OptInv, QueueIsUnsettled
  <2>3. ASSUME ~usage.invalidating, NEW n \in Mutations, mutation'[n].state = "pending"
        PROVE  n \in ToSet(pending')
    <3>1. n # m
      BY <1>1, <2>3
    <3> QED
      BY <1>1, <1>2, <2>3, <3>1 DEF OptInv, QueueIsUnsettled
  <2>4. ~usage'.invalidating => ~usage.invalidating
    OBVIOUS
  <2> QED
    BY <1>2, <2>2, <2>3, <2>4 DEF QueueIsUnsettled
<1>5. ASSUME Careful PROVE FollowsTruth'
  <2>1. \A n \in Mutations : mutation'[n].state # "pending"
    BY <1>1, <1>5 DEF OptInv, FollowsTruth
  <2> QED
    BY <1>5, <2>1 DEF OptInv, FollowsTruth
<1>6. Careful' => Careful
  BY DEF Careful
<1> QED
  BY <1>3, <1>4, <1>5, <1>6 DEF OptInv

LEMMA OptStepKeeps == OptInv /\ [Next]_vars => OptInv'
<1> SUFFICES ASSUME OptInv, [Next]_vars PROVE OptInv'
  OBVIOUS
<1>0. /\ OptRanges /\ NoValue \in Cached /\ \A v \in Values : v \in Cached
      /\ Idle \in Flights /\ Idle.stage = "idle"
      /\ \A m \in Mutations : mutation[m].predicted \in Values /\ mutation[m].rollback \in Values
  <2>1. \A m \in Mutations : mutation[m] \in MutationRecords
    BY DEF OptInv, OptRanges
  <2>2. \A m \in Mutations : mutation[m].predicted \in Values /\ mutation[m].rollback \in Values
    BY <2>1 DEF MutationRecords
  <2>3. Idle \in Flights /\ Idle.stage = "idle"
    BY DEF Idle, Flights, Values
  <2> QED
    BY <2>2, <2>3 DEF OptInv, Cached
<1> USE DEF optVars, storeVars, readVars
<1>1. CASE Get
  BY <1>0, <1>1, StoreStepKeeps DEF Get, OptRanges
<1>2. CASE Age
  BY <1>0, <1>2, StoreStepKeeps DEF Age, OptRanges
<1>3. CASE Invalidate
  <2>1. /\ pending' = <<>> /\ base' = NoValue /\ usage.invalidating
        /\ UNCHANGED <<truth, readCache, mutation, fetch, reval, usage>>
    BY <1>3 DEF Invalidate
  <2>2. pending' \in Seq(Mutations) /\ ToSet(pending') = {} /\ NoRepetition(pending')
    <3>1. Len(pending') = 0 /\ DOMAIN pending' = {}
      BY <2>1
    <3> QED
      BY <2>1, <3>1 DEF ToSet, NoRepetition
  <2>3. usage'.invalidating
    BY <2>1
  <2>4. OptRanges' /\ QueueIsUnsettled'
    BY <1>0, <2>1, <2>2, <2>3 DEF OptRanges, QueueIsUnsettled
  <2>5. Careful => FollowsTruth'
    BY <2>1 DEF OptInv, FollowsTruth, Unsettled
  <2>6. Careful' => Careful
    BY <2>1 DEF Careful
  <2> QED
    BY <2>4, <2>5, <2>6 DEF OptInv
<1>4. ASSUME NEW m \in Mutations, ApplyOptimistic(m) PROVE OptInv'
  <2> DEFINE v == Current
             new == [state |-> "pending", predicted |-> v \cup {m}, rollback |-> v]
  <2>1. /\ mutation[m].state = "idle" /\ v # NoValue
        /\ usage.oneAtATime => \A n \in Mutations : mutation[n].state # "pending"
        /\ mutation' = [mutation EXCEPT ![m] = new] /\ pending' = Append(pending, m)
        /\ UNCHANGED <<truth, readCache, base, fetch, reval, usage>>
    BY <1>4 DEF ApplyOptimistic
  <2>2. v \in Values
    <3>1. pending # <<>> => Last(pending) \in Mutations
      BY <1>0 DEF OptRanges, Last
    <3>2. Shown \in Cached
      BY <1>0, <3>1 DEF Shown, OptRanges
    <3>3. v \in Cached
      BY <1>0, <3>2 DEF Current, OptRanges
    <3> QED
      BY <2>1, <3>3 DEF Cached
  <2>3. Careful => v = truth
    <3> SUFFICES ASSUME Careful PROVE v = truth
      OBVIOUS
    <3>1. \A n \in Mutations : mutation[n].state # "pending"
      BY <2>1 DEF Careful
    <3>2. pending = <<>>
      <4> SUFFICES ASSUME pending # <<>> PROVE FALSE
        OBVIOUS
      <4>1. pending[1] \in Mutations /\ pending[1] \in ToSet(pending)
        BY <1>0 DEF OptRanges, ToSet
      <4> QED
        BY <3>1, <4>1 DEF OptInv, QueueIsUnsettled
    <3>3. base # NoValue => base = truth
      BY <3>1 DEF OptInv, FollowsTruth, Unsettled
    <3>4. Shown = NoValue \/ Shown = truth
      BY <3>2, <3>3 DEF Shown
    <3>5. Current = IF Shown = NoValue THEN truth ELSE Shown
      BY DEF Current, Careful
    <3> QED
      BY <3>4, <3>5
  <2> HIDE DEF v
  <2>4. new \in MutationRecords /\ new.state = "pending" /\ new.predicted = new.rollback \cup {m} /\ new.rollback = v
    BY <2>2 DEF MutationRecords, Values
  <2> HIDE DEF new
  <2>5. /\ mutation' \in [Mutations -> MutationRecords] /\ mutation'[m] = new
        /\ \A n \in Mutations : n # m => mutation'[n] = mutation[n]
    BY <1>0, <2>1, <2>4 DEF OptRanges
  <2>6. m \notin ToSet(pending)
    BY <2>1 DEF OptInv, QueueIsUnsettled
  <2>7. pending' \in Seq(Mutations) /\ ToSet(pending') = ToSet(pending) \cup {m} /\ NoRepetition(pending')
    BY <1>0, <2>1, <2>6, AppendingOne DEF OptInv, OptRanges, QueueIsUnsettled
  <2>8. OptRanges'
    BY <1>0, <2>1, <2>5, <2>7 DEF OptRanges
  <2>9. QueueIsUnsettled'
    <3>1. \A n \in ToSet(pending) : n \in Mutations
      BY <1>0 DEF OptRanges, ToSet
    <3>2. \A n \in ToSet(pending') : mutation'[n].state = "pending"
      BY <2>4, <2>5, <2>6, <2>7, <3>1 DEF OptInv, QueueIsUnsettled
    <3>3. ASSUME ~usage.invalidating, NEW n \in Mutations, mutation'[n].state = "pending"
          PROVE  n \in ToSet(pending')
      BY <2>5, <2>7, <3>3 DEF OptInv, QueueIsUnsettled
    <3>4. ~usage'.invalidating => ~usage.invalidating
      BY <2>1
    <3> QED
      BY <2>7, <3>2, <3>3, <3>4 DEF QueueIsUnsettled
  <2>10. ASSUME Careful PROVE FollowsTruth'
    <3>1. \A n \in Mutations : n # m => mutation'[n].state # "pending"
      BY <2>1, <2>5, <2>10 DEF Careful
    <3>2. m \in Unsettled'
      BY <2>4, <2>5 DEF Unsettled
    <3> QED
      BY <2>1, <2>3, <2>4, <2>5, <2>10, <3>1, <3>2 DEF OptInv, FollowsTruth
  <2>11. Careful' => Careful
    BY <2>1 DEF Careful
  <2> QED
    BY <2>8, <2>9, <2>10, <2>11 DEF OptInv
<1>5. ASSUME NEW m \in Mutations, Apply(m) PROVE OptInv'
  <2>1. /\ mutation[m].state = "pending" /\ m \notin truth /\ truth' = truth \cup {m}
        /\ UNCHANGED <<readCache, mutation, pending, base, fetch, reval, usage>>
    BY <1>5 DEF Apply
  <2>2. OptRanges' /\ QueueIsUnsettled'
    BY <1>0, <2>1 DEF OptInv, OptRanges, QueueIsUnsettled, ToSet, NoRepetition, Values
  <2>3. ASSUME Careful PROVE FollowsTruth'
    <3>1. \A n \in Mutations : mutation[n].state = "pending" => n = m
      BY <2>1, <2>3 DEF OptInv, FollowsTruth
    <3>2. mutation[m].predicted = mutation[m].rollback \cup {m} /\ truth' = mutation[m].predicted
      BY <2>1, <2>3 DEF OptInv, FollowsTruth
    <3>3. m \in Unsettled'
      BY <2>1 DEF Unsettled
    <3> QED
      BY <2>1, <2>3, <3>1, <3>2, <3>3 DEF OptInv, FollowsTruth
  <2>4. Careful' => Careful
    BY <2>1 DEF Careful
  <2> QED
    BY <2>2, <2>3, <2>4 DEF OptInv
<1>6. ASSUME NEW m \in Mutations, Commit(m) PROVE OptInv'
  <2>1. /\ mutation[m].state = "pending" /\ m \in truth /\ base' = mutation[m].predicted
        /\ mutation' = [mutation EXCEPT ![m].state = "committed"] /\ RemoveEntry(m)
        /\ UNCHANGED <<truth, readCache, fetch, reval, usage>>
    BY <1>6 DEF Commit, Set
  <2>2. ASSUME Careful PROVE base' = truth
    <3>1. /\ mutation[m].predicted = mutation[m].rollback \cup {m}
          /\ truth = mutation[m].rollback \/ truth = mutation[m].predicted
      BY <2>1, <2>2 DEF OptInv, FollowsTruth
    <3>2. CASE truth = mutation[m].rollback
      <4>1. truth \cup {m} = truth
        BY <2>1
      <4> QED
        BY <2>1, <3>1, <3>2, <4>1
    <3> QED
      BY <2>1, <3>1, <3>2
  <2>3. base' \in Cached
    BY <1>0, <2>1
  <2> QED
    BY <2>1, <2>2, <2>3, SettlingKeeps
<1>7. ASSUME NEW m \in Mutations, Rollback(m) PROVE OptInv'
  <2>1. /\ mutation[m].state = "pending" /\ m \notin truth /\ Restored(m)
        /\ mutation' = [mutation EXCEPT ![m].state = "rolledBack"] /\ RemoveEntry(m)
        /\ UNCHANGED <<truth, readCache, fetch, reval, usage>>
    BY <1>7 DEF Rollback
  <2>2. base' = base \/ base' = mutation[m].rollback
    BY <2>1 DEF Restored, Set
  <2>3. ASSUME Careful PROVE base' = truth
    <3>1. \A i \in 1 .. Len(pending) : pending[i] = m
      <4> TAKE i \in 1 .. Len(pending)
      <4>1. pending[i] \in Mutations /\ pending[i] \in ToSet(pending)
        BY <1>0 DEF OptRanges, ToSet
      <4> QED
        BY <2>1, <2>3, <4>1 DEF OptInv, QueueIsUnsettled, FollowsTruth
    <3>2. base' = mutation[m].rollback
      BY <2>1, <3>1 DEF Restored, Set
    <3>3. m \in mutation[m].predicted /\ (truth = mutation[m].rollback \/ truth = mutation[m].predicted)
      BY <2>1, <2>3 DEF OptInv, FollowsTruth
    <3> QED
      BY <2>1, <3>2, <3>3
  <2>4. base' \in Cached
    BY <1>0, <2>2 DEF OptRanges
  <2> QED
    BY <2>1, <2>3, <2>4, SettlingKeeps
<1>8. CASE FillReadCache
  BY <1>0, <1>8, StoreStepKeeps DEF FillReadCache, OptRanges
<1>9. CASE Reading
  <2>1. ASSUME NEW r \in Readers, ReadFetches(r) \/ FetchStores(r) \/ FetchFails(r) PROVE OptInv'
    <3>1. fetch[r] \in Flights /\ fetch[r].got \in Values
      BY <1>0 DEF OptRanges, Flights
    <3>2. [fetch[r] EXCEPT !.stage = "asked"] \in Flights
      BY <3>1 DEF Flights
    <3>3. fetch' \in [Readers -> Flights]
      BY <1>0, <2>1, <3>2 DEF ReadFetches, FetchStores, FetchFails, OptRanges
    <3>4. /\ UNCHANGED <<truth, mutation, pending, usage, readCache, reval>>
          /\ base' = base \/ base' = fetch[r].got
      BY <2>1 DEF ReadFetches, FetchStores, FetchFails, Set
    <3>5. ~Careful
      BY <2>1 DEF ReadFetches, FetchStores, FetchFails, OptInv, FollowsTruth, Careful
    <3> QED
      BY <1>0, <3>1, <3>3, <3>4, <3>5, StoreStepKeeps DEF OptRanges
  <2>2. CASE ReadRevalidates
    <3>1. \A i \in Slots : [reval[i] EXCEPT !.stage = "asked"] \in Flights
      <4>1. \A i \in Slots : reval[i] \in Flights
        BY <1>0 DEF OptRanges
      <4> QED
        BY <4>1 DEF Flights
    <3>2. reval' \in [Slots -> Flights]
      BY <1>0, <2>2, <3>1 DEF ReadRevalidates, OptRanges
    <3>3. ~Careful /\ UNCHANGED <<truth, mutation, pending, usage, readCache, fetch, base>>
      BY <2>2 DEF ReadRevalidates, Careful
    <3> QED
      BY <1>0, <3>2, <3>3, StoreStepKeeps DEF OptRanges
  <2>3. ASSUME NEW i \in Slots, RevalStores(i) \/ RevalFails(i) PROVE OptInv'
    <3>1. reval[i] \in Flights /\ reval[i].got \in Values
      BY <1>0 DEF OptRanges, Flights
    <3>2. reval' \in [Slots -> Flights]
      BY <1>0, <2>3 DEF RevalStores, RevalFails, RevalEnds, OptRanges
    <3>3. /\ UNCHANGED <<truth, mutation, pending, usage, readCache, fetch>>
          /\ base' = base \/ base' = reval[i].got
      BY <2>3 DEF RevalStores, RevalFails, RevalEnds, Set
    <3>4. ~Careful
      BY <2>3 DEF RevalStores, RevalFails, OptInv, FollowsTruth
    <3> QED
      BY <1>0, <3>1, <3>2, <3>3, <3>4, StoreStepKeeps DEF OptRanges
  <2> QED
    BY <1>9, <2>1, <2>2, <2>3 DEF Reading
<1>10. CASE Answer
  <2>1. [stage |-> "answered", got |-> truth] \in Flights
    BY <1>0 DEF OptRanges, Flights
  <2>2. fetch' \in [Readers -> Flights] /\ reval' \in [Slots -> Flights]
    BY <1>0, <1>10, <2>1 DEF Answer, OptRanges
  <2>3. ~Careful /\ UNCHANGED <<truth, mutation, pending, usage, readCache, base>>
    BY <1>10 DEF Answer, OptInv, FollowsTruth
  <2> QED
    BY <1>0, <2>2, <2>3, StoreStepKeeps DEF OptRanges
<1>11. CASE UNCHANGED vars
  BY <1>0, <1>11, StoreStepKeeps DEF vars, OptRanges
<1> QED
  BY <1>1, <1>2, <1>3, <1>4, <1>5, <1>6, <1>7, <1>8, <1>9, <1>10, <1>11 DEF Next

LEMMA OptInvInitially == Init => OptInv
<1> SUFFICES ASSUME Init PROVE OptInv
  OBVIOUS
<1>1. /\ truth = {} /\ readCache = NoValue /\ pending = <<>> /\ base = NoValue
      /\ mutation = [m \in Mutations |-> [state |-> "idle", predicted |-> {}, rollback |-> {}]]
      /\ fetch = [r \in Readers |-> Idle] /\ reval = [i \in Slots |-> Idle]
  BY DEF Init
<1>2. OptRanges
  BY <1>1 DEF OptRanges, Values, Cached, MutationRecords, Flights, Idle
<1>3. Len(pending) = 0 /\ ToSet(pending) = {}
  BY <1>1 DEF ToSet
<1>4. QueueIsUnsettled
  BY <1>1, <1>3 DEF QueueIsUnsettled, NoRepetition
<1>5. FollowsTruth
  BY <1>1 DEF FollowsTruth, Idle
<1> QED
  BY <1>2, <1>4, <1>5 DEF OptInv

(* Whatever order mutations settle in, the queue holds exactly those that   *)
(* have not; and who applies one at a time, from what is shown, and does    *)
(* not read() meanwhile is shown the truth once all have settled.           *)
THEOREM SettledAlwaysShowsTruth == Spec => []SettledShowsTruth
<1>1. OptInv => SettledShowsTruth
  <2> SUFFICES ASSUME OptInv PROVE SettledShowsTruth
    OBVIOUS
  <2>1. QueueHoldsUnsettled
    <3>1. ToSet(pending) \subseteq Mutations /\ DOMAIN pending = 1 .. Len(pending)
      BY DEF OptInv, OptRanges, ToSet
    <3>2. ToSet(pending) \subseteq Unsettled
      BY <3>1 DEF OptInv, QueueIsUnsettled, Unsettled
    <3>3. ~usage.invalidating => Unsettled \subseteq ToSet(pending)
      BY DEF OptInv, QueueIsUnsettled, Unsettled
    <3>4. IsInjective(pending)
      BY <3>1 DEF OptInv, QueueIsUnsettled, NoRepetition, IsInjective
    <3> QED
      BY <3>2, <3>3, <3>4 DEF QueueHoldsUnsettled
  <2>2. ASSUME Careful, Unsettled = {}, Shown # NoValue PROVE Shown = truth
    <3>1. pending = <<>>
      <4> SUFFICES ASSUME pending # <<>> PROVE FALSE
        OBVIOUS
      <4>1. pending[1] \in Mutations /\ pending[1] \in ToSet(pending)
        BY DEF OptInv, OptRanges, ToSet
      <4> QED
        BY <2>2, <4>1 DEF OptInv, QueueIsUnsettled, Unsettled
    <3> QED
      BY <2>2, <3>1 DEF Shown, OptInv, FollowsTruth
  <2> QED
    BY <2>1, <2>2 DEF SettledShowsTruth, Careful
<1> QED
  BY <1>1, OptInvInitially, OptStepKeeps, PTL DEF Spec

(* Rolling back a mutation changes nothing of what is shown while a later   *)
(* one is still pending.                                                    *)
THEOREM RollbackAlwaysKeepsLater == Spec => RollbackKeepsLater
<1>1. ASSUME OptInv, [Next]_vars, NEW m \in Mutations, mutation[m].state = "pending",
             mutation'[m].state = "rolledBack", pending # <<>>, Last(pending) # m
      PROVE  Shown' = Shown
  <2>1. mutation \in [Mutations -> MutationRecords] /\ pending \in Seq(Mutations)
    BY <1>1 DEF OptInv, OptRanges
  <2>2. CASE \E n \in Mutations : ApplyOptimistic(n)
    BY <1>1, <2>1, <2>2 DEF ApplyOptimistic
  <2>3. CASE \E n \in Mutations : Commit(n)
    BY <1>1, <2>1, <2>3 DEF Commit
  <2>4. CASE UNCHANGED mutation
    BY <1>1, <2>4
  <2>5. CASE \E n \in Mutations : Rollback(n)
    <3>1. PICK n \in Mutations : Rollback(n)
      BY <2>5
    <3>2. mutation' = [mutation EXCEPT ![n].state = "rolledBack"] /\ RemoveEntry(n)
      BY <3>1 DEF Rollback
    <3>3. n = m
      BY <1>1, <2>1, <3>2
    <3>4. pending' # <<>> /\ Last(pending') = Last(pending) /\ Last(pending) \in Mutations
      <4>1. Last(pending) \in Mutations
        BY <1>1, <2>1 DEF Last
      <4> QED
        BY <1>1, <2>1, <3>2, <3>3, <4>1, RemovingFromQueue
    <3>5. mutation'[Last(pending)] = mutation[Last(pending)]
      BY <1>1, <2>1, <3>2, <3>3, <3>4
    <3> QED
      BY <1>1, <3>4, <3>5 DEF Shown
  <2>6. \/ \E n \in Mutations : ApplyOptimistic(n) \/ Commit(n) \/ Rollback(n)
        \/ UNCHANGED mutation
    BY <1>1 DEF Next, vars, Get, Age, Invalidate, Apply, FillReadCache, Reading, ReadFetches, FetchStores,
                FetchFails, ReadRevalidates, RevalStores, RevalFails, RevalEnds, Answer, optVars
  <2> QED
    BY <2>2, <2>3, <2>4, <2>5, <2>6
<1>2. OptInv /\ [Next]_vars
      => [\A m \in Mutations :
            mutation[m].state = "pending" /\ mutation'[m].state = "rolledBack"
              /\ pending # <<>> /\ Last(pending) # m
            => Shown' = Shown]_vars
  BY <1>1
<1> QED
  BY <1>2, OptInvInitially, OptStepKeeps, PTL DEF Spec, RollbackKeepsLater

-----------------------------------------------------------------------------
(* Cache invalidation across tabs.  What another tab has invalidated waits  *)
(* in the inbox, for any number of tabs; and between two tabs the messages  *)
(* on their way are no more than requests were made, since the one tab that *)
(* handles a message posts it to one.                                       *)
Message == MessageKinds \X Arguments

EvictionPending ==
    ~ByInvoice => \A t \in Tabs : \A k \in outdated[t] :
        \E n \in 1 .. Len(inbox[t]) : k \in Evicted(inbox[t][n][2])

TwoTabs == \E t, u \in Tabs : Tabs = {t, u}

FewMessages ==
    /\ \A t \in Tabs : Len(inbox[t]) <= requests
    /\ \A t, u \in Tabs : t # u => Len(inbox[t]) + Len(inbox[u]) <= requests

TabInv ==
    /\ inbox \in [Tabs -> Seq(Message)]
    /\ outdated \in [Tabs -> SUBSET CacheKeys]
    /\ requests \in Nat
    /\ TwoTabs => FewMessages
    /\ EvictionPending

LEMMA OnlyOneOther == TwoTabs => \A t, u, v \in Tabs : t # u /\ t # v => u = v
BY DEF TwoTabs

(* A message that is posted comes last in the inbox of the other tab.       *)
LEMMA PostingAppends ==
    ASSUME TabInv, NEW t \in Tabs, NEW m \in Message
    PROVE  /\ Posted(t, m) \in [Tabs -> Seq(Message)]
           /\ Posted(t, m)[t] = inbox[t]
           /\ \A u \in Tabs :
                 /\ {t, u} \subseteq connected /\ u # t => Posted(t, m)[u] = Append(inbox[u], m)
                 /\ Posted(t, m)[u] = inbox[u] \/ Posted(t, m)[u] = Append(inbox[u], m)
<1>1. \A u \in Tabs : inbox[u] \in Seq(Message) /\ Append(inbox[u], m) \in Seq(Message)
  BY DEF TabInv
<1> QED
  BY <1>1 DEF Posted

LEMMA Appended ==
    ASSUME NEW s \in Seq(Message), NEW m \in Message
    PROVE  /\ Len(Append(s, m)) = Len(s) + 1 /\ Len(s) \in Nat
           /\ Append(s, m)[Len(s) + 1] = m
           /\ \A n \in 1 .. Len(s) : Append(s, m)[n] = s[n]
OBVIOUS

(* Without requests for one invoice, a request evicts what it means.        *)
LEMMA MeansWhatItEvicts ==
    ASSUME ~ByInvoice, NEW what \in Arguments PROVE Meant(what) = Evicted(what)
<1>1. what \in {"all", "getInvoice"}
  BY DEF Arguments
<1>2. what \notin TabInvoices
  BY <1>1, TabBounds
<1> QED
  BY <1>2 DEF Meant

LEMMA AskKeeps ==
    ASSUME TabInv, NEW t \in Tabs, NEW kind \in MessageKinds, NEW what \in Arguments,
           AskInvalidate(t, kind, what)
    PROVE  TabInv'
<1> DEFINE m == <<kind, what>>
<1>1. /\ requests' = requests + 1 /\ inbox' = Posted(t, m) /\ m \in Message /\ m[2] = what
      /\ outdated' = [u \in Tabs |->
                        IF u = t THEN outdated[u] \ Evicted(what)
                        ELSE IF {t, u} \subseteq connected
                             THEN outdated[u] \cup (Meant(what) \cap tabCache[u]) ELSE outdated[u]]
  BY DEF AskInvalidate, Message
<1> HIDE DEF m
<1>2. \A u \in Tabs :
         /\ inbox[u] \in Seq(Message) /\ inbox'[u] \in Seq(Message)
         /\ inbox'[u] = inbox[u] \/ inbox'[u] = Append(inbox[u], m)
         /\ {t, u} \subseteq connected /\ u # t => inbox'[u] = Append(inbox[u], m)
  BY <1>1, PostingAppends DEF TabInv
<1>3. /\ inbox' \in [Tabs -> Seq(Message)] /\ inbox'[t] = inbox[t]
      /\ outdated' \in [Tabs -> SUBSET CacheKeys]
  <2>1. Evicted(what) \cap CacheKeys \subseteq CacheKeys /\ Meant(what) \cap CacheKeys \subseteq CacheKeys
    OBVIOUS
  <2>2. \A u \in Tabs : tabCache[u] \cap Meant(what) \subseteq CacheKeys
    BY TabBounds DEF Meant, Evicted, CacheKeys, Arguments
  <2> QED
    BY <1>1, <2>2, PostingAppends DEF TabInv
<1>4. \A u \in Tabs : /\ Len(inbox[u]) \in Nat /\ Len(inbox'[u]) \in Nat
                      /\ Len(inbox'[u]) <= Len(inbox[u]) + 1
                      /\ inbox'[u] = Append(inbox[u], m) => inbox'[u][Len(inbox[u]) + 1] = m
                                                           /\ Len(inbox'[u]) = Len(inbox[u]) + 1
                      /\ \A n \in 1 .. Len(inbox[u]) : inbox'[u][n] = inbox[u][n] /\ n \in 1 .. Len(inbox'[u])
  <2> SUFFICES ASSUME NEW u \in Tabs
               PROVE  /\ Len(inbox[u]) \in Nat /\ Len(inbox'[u]) \in Nat
                      /\ Len(inbox'[u]) <= Len(inbox[u]) + 1
                      /\ inbox'[u] = Append(inbox[u], m) => inbox'[u][Len(inbox[u]) + 1] = m
                                                           /\ Len(inbox'[u]) = Len(inbox[u]) + 1
                      /\ \A n \in 1 .. Len(inbox[u]) : inbox'[u][n] = inbox[u][n] /\ n \in 1 .. Len(inbox'[u])
    OBVIOUS
  <2>1. inbox[u] \in Seq(Message) /\ m \in Message /\ (inbox'[u] = inbox[u] \/ inbox'[u] = Append(inbox[u], m))
    BY <1>1, <1>2
  <2>2. /\ Append(inbox[u], m) \in Seq(Message) /\ Len(Append(inbox[u], m)) = Len(inbox[u]) + 1
        /\ Append(inbox[u], m)[Len(inbox[u]) + 1] = m
        /\ \A n \in 1 .. Len(inbox[u]) : Append(inbox[u], m)[n] = inbox[u][n]
    BY <2>1, Appended
  <2>3. Len(inbox[u]) \in Nat
    BY <2>1
  <2>4. CASE inbox'[u] = inbox[u]
    BY <2>2, <2>3, <2>4
  <2>5. CASE inbox'[u] = Append(inbox[u], m)
    BY <2>2, <2>3, <2>5
  <2> QED
    BY <2>1, <2>4, <2>5
<1>5. ASSUME TwoTabs PROVE FewMessages'
  <2>1. requests \in Nat /\ \A u \in Tabs : Len(inbox[u]) <= requests
    BY <1>5 DEF TabInv, FewMessages
  <2>2. \A u, v \in Tabs : u # v => Len(inbox[u]) + Len(inbox[v]) <= requests
    BY <1>5 DEF TabInv, FewMessages
  <2>3. Len(inbox'[t]) = Len(inbox[t])
    BY <1>3
  <2>4. \A u \in Tabs : Len(inbox'[u]) <= requests'
    <3> TAKE u \in Tabs
    <3>1. Len(inbox[u]) \in Nat /\ Len(inbox'[u]) \in Nat /\ Len(inbox'[u]) <= Len(inbox[u]) + 1
      BY <1>4
    <3>2. Len(inbox[u]) <= requests /\ requests' = requests + 1
      BY <1>1, <2>1
    <3> QED
      BY <2>1, <3>1, <3>2
  <2>5. \A v \in Tabs : v # t => Len(inbox'[t]) + Len(inbox'[v]) <= requests'
                               /\ Len(inbox'[v]) + Len(inbox'[t]) <= requests'
    <3> SUFFICES ASSUME NEW v \in Tabs, v # t
                 PROVE  /\ Len(inbox'[t]) + Len(inbox'[v]) <= requests'
                        /\ Len(inbox'[v]) + Len(inbox'[t]) <= requests'
      OBVIOUS
    <3> DEFINE a == Len(inbox[t])
               b == Len(inbox[v])
               c == Len(inbox'[v])
    <3>1. b \in Nat /\ c \in Nat /\ c <= b + 1
      BY <1>4
    <3>2. a + b <= requests /\ requests' = requests + 1 /\ a \in Nat /\ requests \in Nat
      BY <1>1, <1>4, <2>1, <2>2
    <3>3. Len(inbox'[t]) = a /\ Len(inbox'[v]) = c
      BY <2>3
    <3> HIDE DEF a, b, c
    <3>4. a + c <= requests' /\ c + a <= requests'
      BY <3>1, <3>2
    <3> QED
      BY <3>3, <3>4
  <2>6. \A u, v \in Tabs : u # v => u = t \/ v = t
    BY <1>5, OnlyOneOther
  <2> QED
    BY <2>4, <2>5, <2>6 DEF FewMessages
<1>6. EvictionPending'
  <2> SUFFICES ASSUME ~ByInvoice, NEW u \in Tabs, NEW k \in outdated'[u]
               PROVE  \E n \in 1 .. Len(inbox'[u]) : k \in Evicted(inbox'[u][n][2])
    BY DEF EvictionPending
  <2>1. CASE k \in outdated[u]
    <3>1. PICK n \in 1 .. Len(inbox[u]) : k \in Evicted(inbox[u][n][2])
      BY <2>1 DEF TabInv, EvictionPending
    <3> QED
      BY <1>4, <3>1
  <2>2. CASE k \notin outdated[u]
    <3>1. u # t /\ {t, u} \subseteq connected /\ k \in Evicted(what)
      BY <1>1, <2>2, MeansWhatItEvicts
    <3>2. inbox'[u][Len(inbox[u]) + 1] = m /\ Len(inbox[u]) + 1 \in 1 .. Len(inbox'[u])
      BY <1>2, <1>4, <3>1
    <3> QED
      BY <1>1, <3>1, <3>2
  <2> QED
    BY <2>1, <2>2
<1>7. requests' \in Nat
  BY <1>1 DEF TabInv
<1> QED
  BY <1>3, <1>5, <1>6, <1>7 DEF TabInv

(* A tab that handles a message evicts what it names and passes it on.      *)
LEMMA HandleKeeps ==
    ASSUME TabInv, NEW t \in Tabs, HandleEvent(t)
    PROVE  TabInv'
<1> DEFINE m == Head(inbox[t])
<1>1. inbox[t] \in Seq(Message) /\ inbox[t] # <<>>
  BY DEF TabInv, HandleEvent
<1>2. /\ m \in Message /\ m = inbox[t][1] /\ m = <<m[1], m[2]>>
      /\ Tail(inbox[t]) \in Seq(Message) /\ Len(inbox[t]) \in Nat /\ Len(inbox[t]) > 0
      /\ Len(Tail(inbox[t])) = Len(inbox[t]) - 1
      /\ \A n \in 2 .. Len(inbox[t]) : Tail(inbox[t])[n - 1] = inbox[t][n]
                                       /\ n - 1 \in 1 .. Len(Tail(inbox[t]))
  BY <1>1 DEF Message
<1>3. /\ inbox' = [Posted(t, m) EXCEPT ![t] = Tail(@)]
      /\ outdated' = [outdated EXCEPT ![t] = @ \ Evicted(m[2])]
      /\ UNCHANGED requests
  BY <1>2 DEF HandleEvent
<1> HIDE DEF m
<1>4. /\ inbox'[t] = Tail(inbox[t])
      /\ \A u \in Tabs : u # t => inbox'[u] = inbox[u] \/ inbox'[u] = Append(inbox[u], m)
      /\ inbox' \in [Tabs -> Seq(Message)]
  <2> DEFINE posted == Posted(t, m)
  <2>1. /\ posted \in [Tabs -> Seq(Message)] /\ posted[t] = inbox[t]
        /\ \A u \in Tabs : posted[u] = inbox[u] \/ posted[u] = Append(inbox[u], m)
    BY <1>2, PostingAppends
  <2>2. inbox' = [posted EXCEPT ![t] = Tail(posted[t])]
    BY <1>3
  <2> HIDE DEF posted
  <2> QED
    BY <1>2, <2>1, <2>2
<1>5. /\ outdated' \in [Tabs -> SUBSET CacheKeys] /\ outdated'[t] = outdated[t] \ Evicted(m[2])
      /\ \A u \in Tabs : u # t => outdated'[u] = outdated[u]
  BY <1>3 DEF TabInv
<1>6. /\ Len(inbox[t]) \in Nat /\ Len(inbox'[t]) \in Nat /\ Len(inbox'[t]) = Len(inbox[t]) - 1
      /\ \A u \in Tabs : u # t => /\ Len(inbox[u]) \in Nat /\ Len(inbox'[u]) \in Nat
                                  /\ Len(inbox'[u]) <= Len(inbox[u]) + 1
                                  /\ \A n \in 1 .. Len(inbox[u]) : inbox'[u][n] = inbox[u][n]
                                                                   /\ n \in 1 .. Len(inbox'[u])
  <2>1. \A u \in Tabs : inbox[u] \in Seq(Message) /\ inbox'[u] \in Seq(Message)
    BY <1>4 DEF TabInv
  <2>2. Len(inbox[t]) \in Nat /\ Len(inbox'[t]) \in Nat /\ Len(inbox'[t]) = Len(inbox[t]) - 1
    BY <1>2, <1>4, <2>1
  <2>3. ASSUME NEW u \in Tabs, u # t
        PROVE  /\ Len(inbox[u]) \in Nat /\ Len(inbox'[u]) \in Nat
               /\ Len(inbox'[u]) <= Len(inbox[u]) + 1
               /\ \A n \in 1 .. Len(inbox[u]) : inbox'[u][n] = inbox[u][n]
                                                /\ n \in 1 .. Len(inbox'[u])
    <3>1. inbox[u] \in Seq(Message) /\ m \in Message
      BY <1>2, <2>1
    <3>2. CASE inbox'[u] = inbox[u]
      BY <3>1, <3>2
    <3>3. CASE inbox'[u] = Append(inbox[u], m)
      <4>1. /\ Len(inbox'[u]) = Len(inbox[u]) + 1 /\ Len(inbox[u]) \in Nat
            /\ \A n \in 1 .. Len(inbox[u]) : inbox'[u][n] = inbox[u][n]
        BY <3>1, <3>3, Appended
      <4> QED
        BY <4>1
    <3> QED
      BY <1>4, <2>3, <3>2, <3>3
  <2> QED
    BY <2>2, <2>3
<1>7. ASSUME TwoTabs PROVE FewMessages'
  <2>1. requests \in Nat /\ \A u \in Tabs : Len(inbox[u]) <= requests
    BY <1>7 DEF TabInv, FewMessages
  <2>2. \A u, v \in Tabs : u # v => Len(inbox[u]) + Len(inbox[v]) <= requests
    BY <1>7 DEF TabInv, FewMessages
  <2>3. \A v \in Tabs : v # t => /\ Len(inbox'[t]) + Len(inbox'[v]) <= requests
                               /\ Len(inbox'[v]) + Len(inbox'[t]) <= requests
                               /\ Len(inbox'[v]) <= requests
    <3> SUFFICES ASSUME NEW v \in Tabs, v # t
                 PROVE  /\ Len(inbox'[t]) + Len(inbox'[v]) <= requests
                        /\ Len(inbox'[v]) + Len(inbox'[t]) <= requests
                        /\ Len(inbox'[v]) <= requests
      OBVIOUS
    <3> DEFINE a == Len(inbox[t])
               b == Len(inbox[v])
               c == Len(inbox'[v])
    <3>1. b \in Nat /\ c \in Nat /\ c <= b + 1
      BY <1>6
    <3>2. a + b <= requests /\ requests \in Nat
      BY <2>1, <2>2
    <3>3. a > 0 /\ a \in Nat /\ Len(inbox'[t]) = a - 1 /\ Len(inbox'[v]) = c
      BY <1>2, <1>6
    <3> HIDE DEF a, b, c
    <3>4. (a - 1) + c <= requests /\ c + (a - 1) <= requests /\ c <= requests
      BY <3>1, <3>2, <3>3
    <3> QED
      BY <3>3, <3>4
  <2>4. Len(inbox'[t]) <= requests
    <3>1. Len(inbox[t]) <= requests
      BY <2>1
    <3> QED
      BY <1>6, <2>1, <3>1
  <2>5. \A u, v \in Tabs : u # v => u = t \/ v = t
    BY <1>7, OnlyOneOther
  <2> QED
    BY <1>3, <2>3, <2>4, <2>5 DEF FewMessages
<1>8. EvictionPending'
  <2> SUFFICES ASSUME ~ByInvoice, NEW u \in Tabs, NEW k \in outdated'[u]
               PROVE  \E n \in 1 .. Len(inbox'[u]) : k \in Evicted(inbox'[u][n][2])
    BY DEF EvictionPending
  <2>1. k \in outdated[u] /\ (u = t => k \notin Evicted(m[2]))
    BY <1>5
  <2>2. PICK n \in 1 .. Len(inbox[u]) : k \in Evicted(inbox[u][n][2])
    BY <2>1 DEF TabInv, EvictionPending
  <2>3. CASE u = t
    <3>1. n # 1
      BY <1>2, <2>1, <2>2, <2>3
    <3>2. n \in 2 .. Len(inbox[t])
      BY <1>2, <2>2, <2>3, <3>1
    <3>3. inbox'[t][n - 1] = inbox[t][n] /\ n - 1 \in 1 .. Len(inbox'[t])
      BY <1>2, <1>4, <3>2
    <3> QED
      BY <2>2, <2>3, <3>3
  <2>4. CASE u # t
    BY <1>6, <2>2, <2>4
  <2> QED
    BY <2>3, <2>4
<1> QED
  BY <1>3, <1>4, <1>5, <1>7, <1>8 DEF TabInv

LEMMA TabStepKeeps == TabInv /\ [TabNext]_tabVars => TabInv'
<1> SUFFICES ASSUME TabInv, [TabNext]_tabVars PROVE TabInv'
  OBVIOUS
<1>1. ASSUME NEW t \in Tabs, NEW k \in CacheKeys, FillTab(t, k) PROVE TabInv'
  BY <1>1 DEF FillTab, TabInv, EvictionPending, FewMessages
<1>2. ASSUME NEW t \in Tabs, Disconnect(t) PROVE TabInv'
  <2>1. /\ inbox' = [inbox EXCEPT ![t] = <<>>] /\ outdated' = [outdated EXCEPT ![t] = {}]
        /\ UNCHANGED requests
    BY <1>2 DEF Disconnect
  <2>2. <<>> \in Seq(Message) /\ Len(<<>>) = 0
    OBVIOUS
  <2>3. inbox' \in [Tabs -> Seq(Message)] /\ outdated' \in [Tabs -> SUBSET CacheKeys]
    BY <2>1, <2>2 DEF TabInv
  <2>4. /\ inbox'[t] = <<>> /\ outdated'[t] = {}
        /\ \A u \in Tabs : u # t => inbox'[u] = inbox[u] /\ outdated'[u] = outdated[u]
    BY <2>1 DEF TabInv
  <2>5. \A u \in Tabs : Len(inbox[u]) \in Nat
    BY DEF TabInv
  <2>6. ASSUME TwoTabs PROVE FewMessages'
    <3>1. /\ requests \in Nat /\ \A u \in Tabs : Len(inbox[u]) <= requests
          /\ \A u, v \in Tabs : u # v => Len(inbox[u]) + Len(inbox[v]) <= requests
      BY <2>6 DEF TabInv, FewMessages
    <3>2. Len(inbox'[t]) = 0 /\ \A u \in Tabs : u # t => Len(inbox'[u]) = Len(inbox[u])
      BY <2>2, <2>4
    <3>3. \A u \in Tabs : Len(inbox'[u]) \in Nat /\ Len(inbox'[u]) <= Len(inbox[u])
      BY <2>5, <3>2
    <3>4. ASSUME NEW u \in Tabs PROVE Len(inbox'[u]) <= requests
      <4>1. Len(inbox[u]) <= requests /\ Len(inbox[u]) \in Nat
        BY <2>5, <3>1
      <4> QED
        BY <3>1, <3>3, <4>1
    <3>5. ASSUME NEW u \in Tabs, NEW v \in Tabs, u # v
          PROVE  Len(inbox'[u]) + Len(inbox'[v]) <= requests
      <4> DEFINE a == Len(inbox[u])
                 b == Len(inbox[v])
                 c == Len(inbox'[u])
                 d == Len(inbox'[v])
      <4>1. a + b <= requests /\ a \in Nat /\ b \in Nat
        BY <2>5, <3>1, <3>5
      <4>2. c <= a /\ d <= b /\ c \in Nat /\ d \in Nat
        BY <3>3
      <4> HIDE DEF a, b, c, d
      <4>3. c + d <= requests
        BY <3>1, <4>1, <4>2
      <4> QED
        BY <4>3 DEF c, d
    <3> QED
      BY <2>1, <3>4, <3>5 DEF FewMessages
  <2>7. EvictionPending'
    BY <2>4 DEF TabInv, EvictionPending
  <2> QED
    BY <2>1, <2>3, <2>6, <2>7 DEF TabInv
<1>3. CASE UNCHANGED tabVars
  BY <1>3 DEF tabVars, TabInv, EvictionPending, FewMessages
<1> QED
  BY <1>1, <1>2, <1>3, AskKeeps, HandleKeeps DEF TabNext

LEMMA TabInvAlways == TabSpec => []TabInv
<1>1. TabInit => TabInv
  <2> SUFFICES ASSUME TabInit PROVE TabInv
    OBVIOUS
  <2>1. <<>> \in Seq(Message) /\ Len(<<>>) = 0
    OBVIOUS
  <2> QED
    BY <2>1 DEF TabInit, TabInv, EvictionPending, FewMessages
<1> QED
  BY <1>1, TabStepKeeps, PTL DEF TabSpec

(* What a tab has invalidated elsewhere, by its method or with everything,  *)
(* is gone there or its eviction is on the way, in any number of tabs.      *)
THEOREM EvictionAlwaysPending == TabSpec => []EvictionPending
<1>1. TabInv => EvictionPending
  BY DEF TabInv
<1> QED
  BY <1>1, TabInvAlways, PTL

(* Between two tabs, moreover, a request keeps one message going, however   *)
(* many requests cross: _handleEvent() posts what it handles, once.         *)
THEOREM EvictionNeverLost == TwoTabs => (TabSpec => []EvictionOnItsWay)
<1> SUFFICES ASSUME TwoTabs PROVE TabSpec => []EvictionOnItsWay
  OBVIOUS
<1>1. TabInv => EvictionOnItsWay
  <2> SUFFICES ASSUME TabInv PROVE EvictionOnItsWay
    OBVIOUS
  <2>1. \A t \in Tabs : DOMAIN inbox[t] = 1 .. Len(inbox[t])
    BY DEF TabInv
  <2> QED
    BY <2>1 DEF TabInv, EvictionPending, EvictionOnItsWay, FewMessages
<1> QED
  BY <1>1, TabInvAlways, PTL
=============================================================================
