---------------------------- MODULE InvoiceReads ----------------------------
(***************************************************************************)
(* How the client reads invoices: getInvoice() through the read cache      *)
(* (src/cache.ts, SimpleCache: TTL and LRU with a bound) and the           *)
(* deduplicator of concurrent fetches (src/dedup.ts), while pay() changes  *)
(* invoices on the ledger and invalidates cache entries.                   *)
(*                                                                         *)
(* An invoice is abstracted to the number of changes it has gone through.  *)
(***************************************************************************)
EXTENDS Naturals, Sequences, FiniteSets, SequencesExt

CONSTANTS
    Invoices,
    Reads,        \* calls of getInvoice(), each repeated
    MaxEntries,   \* capacity of the read cache
    Dedupe,       \* calls leave `dedupe` at its default
    MaxVersion    \* bound: changes of an invoice

ASSUME Capacity == MaxEntries \in Nat \ {0} /\ MaxVersion \in Nat /\ Dedupe \in BOOLEAN

VARIABLES
    version,   \* version of each invoice on the ledger
    seen,      \* history: newest version a read of it has returned
    cache,     \* the read cache, least recently used entry first
    fetches,   \* fetches under way
    read       \* calls of getInvoice()

readsVars == <<version, seen, cache, fetches, read>>

(* The keys of the cache: "getInvoice:[id]" of the reads, and the plain id  *)
(* that cloneInvoice() writes and pay() invalidates.                        *)
Keys == {"getInvoice", "id"} \X Invoices
ReadKey(i) == <<"getInvoice", i>>
Versions == 0 .. MaxVersion
Entries == [key : Keys, value : Versions]

(* A call that is not deduplicated runs a fetch of its own; the others      *)
(* share one per invoice.                                                   *)
Fetches == Invoices \cup Reads

ReadsTypeOK ==
    /\ version \in [Invoices -> Versions] /\ seen \in [Invoices -> Versions]
    /\ cache \in Seq(Entries) /\ Len(cache) <= MaxEntries
    /\ \A m, n \in 1 .. Len(cache) : cache[m].key = cache[n].key => m = n
    /\ fetches \in [Fetches -> [stage : {"idle", "asked", "answered"}, of : Invoices, got : Versions]]
    /\ read \in [Reads -> [pc : {"idle", "waiting", "done"}, of : Invoices, on : Fetches,
                           value : Versions, floor : Versions]]  \* floor: seen when it began

ReadsInit ==
    LET any == CHOOSE i \in Invoices : TRUE IN
    /\ version = [i \in Invoices |-> 0] /\ seen = [i \in Invoices |-> 0]
    /\ cache = <<>>
    /\ fetches = [f \in Fetches |-> [stage |-> "idle", of |-> any, got |-> 0]]
    /\ read = [r \in Reads |-> [pc |-> "idle", of |-> any, on |-> any, value |-> 0, floor |-> 0]]

-----------------------------------------------------------------------------
(* SimpleCache.                                                             *)

Holds(key) == \E n \in 1 .. Len(cache) : cache[n].key = key
Place(key) == CHOOSE n \in 1 .. Len(cache) : cache[n].key = key
Entry(key) == cache[Place(key)]
Without(key) == IF Holds(key) THEN RemoveAt(cache, Place(key)) ELSE cache

(* get(): a hit becomes the most recently used entry.                       *)
Touched(key) == Append(Without(key), Entry(key))

(* set(): a new key evicts the oldest entry of a full cache; the entry of a *)
(* key that is there keeps its place.                                       *)
Stored(key, v) ==
    IF Holds(key)
    THEN [n \in 1 .. Len(cache) |->
            IF cache[n].key = key THEN [key |-> key, value |-> v] ELSE cache[n]]
    ELSE IF Len(cache) >= MaxEntries
         THEN Append(Tail(cache), [key |-> key, value |-> v])
         ELSE Append(cache, [key |-> key, value |-> v])

(* The TTL of an entry passes: it is dropped when it is next looked at.     *)
Expire ==
    /\ \E key \in Keys : Holds(key) /\ cache' = Without(key)
    /\ UNCHANGED <<version, seen, fetches, read>>

-----------------------------------------------------------------------------
(* getInvoice().                                                            *)

Returned(i, v) == seen' = [seen EXCEPT ![i] = IF v > @ THEN v ELSE @]

ReadHits(r, i) ==
    /\ read[r].pc = "idle"
    /\ Holds(ReadKey(i))
    /\ cache' = Touched(ReadKey(i))
    /\ read' = [read EXCEPT ![r] = [pc |-> "done", of |-> i, on |-> @.on,
                                    value |-> Entry(ReadKey(i)).value, floor |-> seen[i]]]
    /\ Returned(i, Entry(ReadKey(i)).value)
    /\ UNCHANGED <<version, fetches>>

(* dedupe(): join the fetch that is under way, or start it.                 *)
JoinedFetch_Own(r, i) == r
JoinedFetch(r, i) == IF Dedupe THEN i ELSE r

ReadMisses(r, i) ==
    LET f == JoinedFetch(r, i) IN
    /\ read[r].pc = "idle"
    /\ ~Holds(ReadKey(i))
    /\ fetches' = IF fetches[f].stage = "idle"
                THEN [fetches EXCEPT ![f] = [stage |-> "asked", of |-> i, got |-> 0]]
                ELSE fetches
    /\ read' = [read EXCEPT ![r] = [pc |-> "waiting", of |-> i, on |-> f,
                                    value |-> 0, floor |-> seen[i]]]
    /\ UNCHANGED <<version, seen, cache>>

(* The node reads the invoice (external); the answer is then on its way.    *)
FetchAnswered(f) ==
    /\ fetches[f].stage = "asked"
    /\ fetches' = [fetches EXCEPT ![f].stage = "answered", ![f].got = version[fetches[f].of]]
    /\ UNCHANGED <<version, seen, cache, read>>

(* Everyone who waits for the fetch stores the invoice and returns it.      *)
FetchResolves(f) ==
    /\ fetches[f].stage = "answered"
    /\ fetches' = [fetches EXCEPT ![f].stage = "idle"]
    /\ read' = [r \in Reads |-> IF read[r].pc = "waiting" /\ read[r].on = f
                                THEN [read[r] EXCEPT !.pc = "done", !.value = fetches[f].got]
                                ELSE read[r]]
    /\ cache' = Stored(ReadKey(fetches[f].of), fetches[f].got)
    /\ Returned(fetches[f].of, fetches[f].got)
    /\ UNCHANGED version

FetchRejects(f) ==
    /\ fetches[f].stage \in {"asked", "answered"}
    /\ fetches' = [fetches EXCEPT ![f].stage = "idle"]
    /\ read' = [r \in Reads |-> IF read[r].pc = "waiting" /\ read[r].on = f
                                THEN [read[r] EXCEPT !.pc = "idle"] ELSE read[r]]
    /\ UNCHANGED <<version, seen, cache>>

(* The caller reads again later.                                            *)
ReadAgain(r) ==
    /\ read[r].pc = "done"
    /\ read' = [read EXCEPT ![r].pc = "idle"]
    /\ UNCHANGED <<version, seen, cache, fetches>>

-----------------------------------------------------------------------------
(* Changes of invoices.                                                     *)

(* A payment is applied, by this client or by anyone (external).            *)
LedgerChanges(i) ==
    /\ version[i] < MaxVersion
    /\ version' = [version EXCEPT ![i] = @ + 1]
    /\ UNCHANGED <<seen, cache, fetches, read>>

(* pay() returns: it invalidates the key that is the plain id; the entry of *)
(* the reads stays.                                                         *)
PayReports(i) ==
    /\ version[i] > 0
    /\ cache' = Without(<<"id", i>>)
    /\ UNCHANGED <<version, seen, fetches, read>>

(* cloneInvoice() stores the new invoice under its plain id.                *)
CloneReports(i) ==
    /\ version[i] = 0
    /\ cache' = Stored(<<"id", i>>, 0)
    /\ UNCHANGED <<version, seen, fetches, read>>

(* invalidateCache("getInvoice", [id]), and invalidateCache().              *)
InvalidateCache ==
    /\ cache # <<>>
    /\ cache' = <<>> \/ \E i \in Invoices : cache' = Without(ReadKey(i))
    /\ UNCHANGED <<version, seen, fetches, read>>

ReadsNext ==
    \/ \E r \in Reads, i \in Invoices : ReadHits(r, i) \/ ReadMisses(r, i)
    \/ \E r \in Reads : ReadAgain(r)
    \/ \E f \in Fetches : FetchAnswered(f) \/ FetchResolves(f) \/ FetchRejects(f)
    \/ \E i \in Invoices : LedgerChanges(i) \/ PayReports(i) \/ CloneReports(i)
    \/ Expire \/ InvalidateCache

ReadsSpec == ReadsInit /\ [][ReadsNext]_readsVars

-----------------------------------------------------------------------------
(* Properties.                                                              *)

(* A waiting read has a fetch of its invoice under way, which will answer   *)
(* it: joining a fetch as it ends strands nobody.                           *)
WaitingIsServed ==
    \A r \in Reads : read[r].pc = "waiting" =>
        /\ fetches[read[r].on].stage # "idle"
        /\ fetches[read[r].on].of = read[r].of

(* Reads are monotonic: a read never returns an older invoice than a read   *)
(* that ended before it began.  The fetches of an invoice are deduplicated, *)
(* so their answers cannot cross, and neither expiry, eviction nor          *)
(* invalidation brings an older answer back.                                *)
MonotonicReads ==
    /\ WaitingIsServed
    /\ \A r \in Reads : read[r].pc = "done" => read[r].value >= read[r].floor
=============================================================================
