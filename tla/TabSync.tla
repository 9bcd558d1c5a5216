------------------------------ MODULE TabSync ------------------------------
(***************************************************************************)
(* src/tabSync.ts: the caches of the clients in several browser tabs, kept *)
(* together by messages on a BroadcastChannel.  As a plugin it wraps       *)
(* invalidateCache() and clearCache(), so that each call also posts a      *)
(* message; a tab that receives one calls the wrapped method of its own    *)
(* client, which posts the message again (README, observations).           *)
(***************************************************************************)
EXTENDS Sequences, Naturals, SequencesExt

CONSTANTS
    Tabs,         \* tabs; with more than two, the messages multiply without end
    TabInvoices,
    MaxRequests,  \* bound: invalidations the applications ask for
    ByInvoice     \* do applications invalidate one invoice by its id?

ASSUME TabBounds ==
    /\ {"all", "getInvoice"} \cap TabInvoices = {}   \* ids are numbers
    /\ MaxRequests \in Nat /\ ByInvoice \in BOOLEAN

VARIABLES
    tabCache,   \* the keys in the read cache of each tab
    inbox,      \* messages of the channel on their way to each tab
    connected,  \* the tabs that have the channel open
    outdated,   \* history: keys that another tab has meant to invalidate here
    requests    \* requests made so far

tabVars == <<tabCache, inbox, connected, outdated, requests>>

(* Reads are cached under getInvoice:[id], other entries under the plain id.*)
CacheKeys == {"getInvoice", "id"} \X TabInvoices

(* What invalidateCache() can be asked for: everything, the calls of one    *)
(* method, or an invoice.                                                   *)
Arguments == {"all", "getInvoice"} \cup (IF ByInvoice THEN TabInvoices ELSE {})
MessageKinds == {"invalidated", "cleared"}

TabTypeOK ==
    /\ tabCache \in [Tabs -> SUBSET CacheKeys] /\ outdated \in [Tabs -> SUBSET CacheKeys]
    /\ connected \in SUBSET Tabs
    /\ \A t \in Tabs : inbox[t] \in Seq(MessageKinds \X Arguments)

TabInit ==
    /\ tabCache = [t \in Tabs |-> {}]
    /\ inbox = [t \in Tabs |-> <<>>]
    /\ connected = Tabs
    /\ outdated = [t \in Tabs |-> {}]
    /\ requests = 0

-----------------------------------------------------------------------------
(* SimpleCache.invalidate(): everything, or the exact key and the keys that *)
(* have it for a method.                                                    *)
Evicted(what) ==
    CASE what = "all" -> CacheKeys
      [] what = "getInvoice" -> {k \in CacheKeys : k[1] = "getInvoice"}
      [] OTHER -> {<<"id", what>>}

(* What a request means: an invoice is out of date however it was cached.   *)
Meant(what) ==
    IF what \in TabInvoices THEN {k \in CacheKeys : k[2] = what} ELSE Evicted(what)

Posted(t, message) ==
    [u \in Tabs |-> IF t \in connected /\ u \in connected \ {t}
                    THEN Append(inbox[u], message) ELSE inbox[u]]

(* A read stores its answer.                                                *)
FillTab(t, k) ==
    /\ k \notin tabCache[t]
    /\ tabCache' = [tabCache EXCEPT ![t] = @ \cup {k}]
    /\ UNCHANGED <<inbox, connected, outdated, requests>>

(* The wrapped invalidateCache() and clearCache(), called by the            *)
(* application of a tab.                                                    *)
AskInvalidate(t, kind, what) ==
    /\ requests < MaxRequests
    /\ kind = "cleared" => what = "all"
    /\ requests' = requests + 1
    /\ tabCache' = [tabCache EXCEPT ![t] = @ \ Evicted(what)]
    /\ inbox' = Posted(t, <<kind, what>>)
    /\ outdated' = [u \in Tabs |->
                      IF u = t THEN outdated[u] \ Evicted(what)
                      ELSE IF {t, u} \subseteq connected
                           THEN outdated[u] \cup (Meant(what) \cap tabCache[u]) ELSE outdated[u]]
    /\ UNCHANGED connected

(* _handleEvent(): the client's own method, which is the wrapped one.       *)
HandleEvent_OnlyUpdates(t) ==
    /\ inbox[t] # <<>>
    /\ LET kind == Head(inbox[t])[1]
           what == Head(inbox[t])[2]
           gone == IF kind = "cleared" THEN {} ELSE Evicted(what)
       IN  /\ tabCache' = [tabCache EXCEPT ![t] = @ \ gone]
           /\ outdated' = [outdated EXCEPT ![t] = @ \ gone]
           /\ inbox' = [Posted(t, <<kind, what>>) EXCEPT ![t] = Tail(@)]
    /\ UNCHANGED <<connected, requests>>
HandleEvent(t) ==
    /\ inbox[t] # <<>>
    /\ LET kind == Head(inbox[t])[1]
           what == Head(inbox[t])[2]
       IN  /\ tabCache' = [tabCache EXCEPT ![t] = @ \ Evicted(what)]
           /\ outdated' = [outdated EXCEPT ![t] = @ \ Evicted(what)]
           /\ inbox' = [Posted(t, <<kind, what>>) EXCEPT ![t] = Tail(@)]
    /\ UNCHANGED <<connected, requests>>

(* disconnect(), when the client is destroyed: the tab hears nothing more.  *)
Disconnect(t) ==
    /\ t \in connected
    /\ connected' = connected \ {t}
    /\ inbox' = [inbox EXCEPT ![t] = <<>>]
    /\ outdated' = [outdated EXCEPT ![t] = {}]
    /\ UNCHANGED <<tabCache, requests>>

TabNext ==
    \E t \in Tabs :
        \/ \E k \in CacheKeys : FillTab(t, k)
        \/ \E kind \in MessageKinds, what \in Arguments : AskInvalidate(t, kind, what)
        \/ HandleEvent(t)
        \/ Disconnect(t)

TabSpec == TabInit /\ [][TabNext]_tabVars

-----------------------------------------------------------------------------
(* An entry that another tab has invalidated, by its method or with all the *)
(* others, is gone or its eviction is on its way, however the requests of   *)
(* the tabs cross; and each request keeps one message going, not more, when *)
(* there are two tabs.                                                      *)
EvictionOnItsWay ==
    /\ ~ByInvoice => \A t \in Tabs : \A k \in outdated[t] :
          \E n \in DOMAIN inbox[t] : k \in Evicted(inbox[t][n][2])
    /\ \A t \in Tabs : Len(inbox[t]) <= requests

(* "When one browser tab invalidates or updates a cached invoice, all other *)
(* tabs [...] evict their local cache entry", as the comment of the file    *)
(* says: once the messages have arrived no tab holds an outdated entry.     *)
OtherTabsEvict == \A t \in Tabs : inbox[t] = <<>> => outdated[t] = {}
=============================================================================
