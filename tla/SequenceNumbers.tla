-------------------------- MODULE SequenceNumbers --------------------------
(***************************************************************************)
(* src/sequenceCache.ts, for one account.  An entry is an object that the  *)
(* cache and the calls that await a fetch share; a fetch makes a new one.  *)
(* A caller builds a transaction with the number it is given, and the      *)
(* ledger applies it or it is given up.                                    *)
(***************************************************************************)
EXTENDS Naturals, Sequences

CONSTANTS
    SeqCallers,      \* callers, one number at a time
    MaxEntriesMade,  \* bound: entries made by fetches
    MaxSequence,     \* bound: numbers given out
    HasteSettings    \* settings: may callers act while others are under way?

ASSUME SequenceBounds ==
    MaxEntriesMade \in Nat /\ MaxSequence \in Nat /\ HasteSettings \subseteq BOOLEAN

VARIABLES
    entries,   \* all entries made: [base, offset, state]
    cached,    \* the entry in the cache, 0 for none
    caller,    \* [at, old, number]: where a caller stands, the entry it refreshes,
               \* the number it was given or, when answered, the account's
    onLedger,  \* external: the account's sequence number
    hasty      \* the setting of this behaviour

sequenceVars == <<entries, cached, caller, onLedger, hasty>>

Resting == [at |-> "idle", old |-> 0, number |-> 0]

SequenceTypeOK ==
    /\ entries \in Seq([base : Nat, offset : Nat, state : {"valid", "invalidated", "refreshing"}])
    /\ cached \in 0 .. Len(entries)
    /\ caller \in [SeqCallers -> [at : {"idle", "get", "refresh", "gotten", "refreshed", "holds"},
                                  old : 0 .. Len(entries), number : Nat]]

SequenceInit ==
    /\ entries = <<>> /\ cached = 0
    /\ caller = [c \in SeqCallers |-> Resting]
    /\ onLedger = 1
    /\ hasty \in HasteSettings

Fetching(c) == caller[c].at \in {"get", "refresh", "gotten", "refreshed"}
Quiet == hasty \/ \A c \in SeqCallers : ~Fetching(c)
NothingHeld == hasty \/ \A c \in SeqCallers : caller[c].at = "idle"

(* fetchAndCache() up to its await: an existing entry is marked.            *)
Fetch(c, why) ==
    /\ caller' = [caller EXCEPT ![c] = [at |-> why, old |-> cached, number |-> 0]]
    /\ entries' = IF cached = 0 THEN entries ELSE [entries EXCEPT ![cached].state = "refreshing"]
    /\ UNCHANGED <<cached, onLedger, hasty>>

(* getSequence().  An entry that is being refreshed still gives numbers.    *)
GetFromEntry(c) ==
    /\ caller[c].at = "idle" /\ Quiet
    /\ cached # 0
    /\ entries[cached].state # "invalidated"
    /\ entries[cached].base + entries[cached].offset <= MaxSequence
    /\ caller' = [caller EXCEPT ![c] = [at |-> "holds", old |-> 0,
                                        number |-> entries[cached].base + entries[cached].offset]]
    /\ entries' = [entries EXCEPT ![cached].offset = @ + 1]
    /\ UNCHANGED <<cached, onLedger, hasty>>

GetFetches(c) ==
    /\ caller[c].at = "idle" /\ Quiet
    /\ cached # 0 => entries[cached].state = "invalidated"
    /\ Fetch(c, "get")

(* invalidate() and refresh(), meant for a number that came too late.       *)
Refresh(c) ==
    /\ caller[c].at = "idle" /\ NothingHeld
    /\ Fetch(c, "refresh")

(* Horizon reads the account; the answer is on its way.                     *)
AccountRead(c) ==
    /\ caller[c].at \in {"get", "refresh"}
    /\ caller' = [caller EXCEPT ![c].at = IF @ = "get" THEN "gotten" ELSE "refreshed",
                                ![c].number = onLedger]
    /\ UNCHANGED <<entries, cached, onLedger, hasty>>

(* The answer: a new entry, whose first number getSequence() returns.       *)
FetchEnds_OffsetKept(c) ==
    LET base == caller[c].number IN
    /\ caller[c].at \in {"gotten", "refreshed"} /\ Len(entries) < MaxEntriesMade
    /\ cached' = Len(entries) + 1
    /\ entries' = Append(entries, [base |-> base, offset |-> 1, state |-> "valid"])
    /\ caller' = [caller EXCEPT ![c] = IF @.at = "gotten"
                     THEN [at |-> "holds", old |-> 0, number |-> base + 1] ELSE Resting]
    /\ UNCHANGED <<onLedger, hasty>>
FetchEnds(c) ==
    LET base == caller[c].number
        gets == caller[c].at = "gotten"
    IN  /\ caller[c].at \in {"gotten", "refreshed"} /\ Len(entries) < MaxEntriesMade
        /\ cached' = Len(entries) + 1
        /\ entries' = Append(entries, [base |-> base, offset |-> IF gets THEN 2 ELSE 1,
                                       state |-> "valid"])
        /\ caller' = [caller EXCEPT ![c] = IF gets
                         THEN [at |-> "holds", old |-> 0, number |-> base + 1] ELSE Resting]
        /\ UNCHANGED <<onLedger, hasty>>

FetchFails(c) ==
    /\ Fetching(c)
    /\ entries' = IF caller[c].old # 0 /\ entries[caller[c].old].state = "refreshing"
                  THEN [entries EXCEPT ![caller[c].old].state = "invalidated"] ELSE entries
    /\ caller' = [caller EXCEPT ![c] = Resting]
    /\ UNCHANGED <<cached, onLedger, hasty>>

(* The entry's time to live passes, or clear() drops it.                    *)
EntryExpires ==
    /\ NothingHeld /\ cached # 0
    /\ cached' = 0
    /\ UNCHANGED <<entries, caller, onLedger, hasty>>

(* The ledger applies the transaction with the next number; any other is    *)
(* given up sooner or later.                                                *)
TransactionEnds(c) ==
    /\ caller[c].at = "holds"
    /\ caller' = [caller EXCEPT ![c] = Resting]
    /\ onLedger' \in {onLedger} \cup {n \in {caller[c].number} : n = onLedger + 1}
    /\ UNCHANGED <<entries, cached, hasty>>

SequenceNext ==
    \/ \E c \in SeqCallers :
          \/ GetFromEntry(c) \/ GetFetches(c) \/ Refresh(c)
          \/ AccountRead(c) \/ FetchEnds(c) \/ FetchFails(c)
          \/ TransactionEnds(c)
    \/ EntryExpires

SequenceSpec == SequenceInit /\ [][SequenceNext]_sequenceVars

-----------------------------------------------------------------------------
(* Callers that leave each other's fetch alone, and let nothing expire or   *)
(* be refreshed while a number is in use, never share a number.  Whatever   *)
(* callers do, an entry that is marked as being refreshed is being          *)
(* refreshed: it does not give out old numbers for ever.                    *)
NumberGivenOnce ==
    /\ ~hasty => \A c, d \in SeqCallers :
          caller[c].at = "holds" /\ caller[d].at = "holds" /\ caller[c].number = caller[d].number
            => c = d
    /\ cached # 0 /\ entries[cached].state = "refreshing" =>
          \E c \in SeqCallers : Fetching(c) /\ caller[c].old = cached
=============================================================================
