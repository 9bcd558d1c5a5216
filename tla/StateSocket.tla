---------------------------- MODULE StateSocket ----------------------------
(***************************************************************************)
(* InvoiceStateSubscriber (src/invoiceStateSubscription.ts): subscriptions *)
(* that share one WebSocket.  The server forgets what it was told when a   *)
(* socket ends.  A socket that ends is first closing and reports it later, *)
(* and the application subscribes, changes filters and unsubscribes in     *)
(* every state of it.                                                      *)
(***************************************************************************)
EXTENDS Naturals, FiniteSets

CONSTANTS
    Watchers,        \* calls of subscribe()
    SocketAttempts,  \* reconnect.maxAttempts
    MaxFilters,      \* bound: filters one subscription has one after another
    MaxOpens         \* bound: sockets opened

ASSUME SocketBounds ==
    SocketAttempts \in Nat /\ MaxFilters \in Nat \ {0} /\ MaxOpens \in Nat

VARIABLES
    watcher,    \* each subscription: [at, filter]
    socket,     \* ws and its readyState: "none", "connecting", "open", "closing"
    connected,  \* connected
    replaced,   \* sockets that were replaced while closing, whose onclose is to come
    attempts,   \* reconnectAttempts
    timers,     \* reconnect timers that run
    timerKnown, \* reconnectTimer refers to one of them
    stopped,    \* stopped
    told,       \* the filter of each subscription the server has, 0 for none
    opens       \* bound: sockets that may still open

socketVars ==
    <<watcher, socket, connected, replaced, attempts, timers, timerKnown, stopped, told, opens>>

SocketTypeOK ==
    /\ watcher \in [Watchers -> [at : {"new", "active", "gone"}, filter : 1 .. MaxFilters]]
    /\ socket \in {"none", "connecting", "open", "closing"}
    /\ connected \in BOOLEAN /\ timerKnown \in BOOLEAN /\ stopped \in BOOLEAN
    /\ replaced \in Nat /\ attempts \in Nat /\ timers \in Nat /\ opens \in 0 .. MaxOpens
    /\ told \in [Watchers -> 0 .. MaxFilters]

NothingTold == [w \in Watchers |-> 0]

SocketInit ==
    /\ watcher = [w \in Watchers |-> [at |-> "new", filter |-> 1]]
    /\ socket = "none" /\ connected = FALSE /\ replaced = 0
    /\ attempts = 0 /\ timers = 0 /\ timerKnown = FALSE
    /\ stopped = FALSE /\ told = NothingTold /\ opens = MaxOpens

Active == {w \in Watchers : watcher[w].at = "active"}
GivenUp == attempts > SocketAttempts

-----------------------------------------------------------------------------
(* scheduleReconnect().                                                     *)
ScheduleReconnect ==
    IF stopped THEN UNCHANGED <<attempts, timers, timerKnown>>
    ELSE /\ attempts' = attempts + 1
         /\ timers' = IF attempts' > SocketAttempts THEN timers ELSE timers + 1
         /\ timerKnown' = (timerKnown \/ attempts' <= SocketAttempts)

(* connect(): nothing while there is a connection or one being made.  A     *)
(* closing socket that was never connected is replaced, and keeps its       *)
(* handlers.  Where there is no WebSocket, making one throws.               *)
Connect ==
    \/ /\ stopped \/ connected \/ socket = "connecting"
       /\ UNCHANGED <<socket, replaced, attempts, timers, timerKnown>>
    \/ /\ ~stopped /\ ~connected /\ socket # "connecting"
       /\ socket' = "connecting"
       /\ replaced' = IF socket = "closing" THEN replaced + 1 ELSE replaced
       /\ UNCHANGED <<attempts, timers, timerKnown>>
    \/ /\ ~stopped /\ ~connected /\ socket # "connecting"
       /\ ScheduleReconnect
       /\ UNCHANGED <<socket, replaced>>

CanSend == connected /\ socket = "open"

Subscribe(w) ==
    /\ watcher[w].at = "new"
    /\ watcher' = [watcher EXCEPT ![w].at = "active"]
    /\ told' = IF CanSend THEN [told EXCEPT ![w] = watcher[w].filter] ELSE told
    /\ IF ~connected /\ socket = "none" THEN Connect
       ELSE UNCHANGED <<socket, replaced, attempts, timers, timerKnown>>
    /\ UNCHANGED <<connected, stopped, opens>>

UpdateFilter(w) ==
    /\ w \in Active /\ watcher[w].filter < MaxFilters
    /\ watcher' = [watcher EXCEPT ![w].filter = @ + 1]
    /\ told' = IF CanSend THEN [told EXCEPT ![w] = watcher[w].filter + 1] ELSE told
    /\ UNCHANGED <<socket, connected, replaced, attempts, timers, timerKnown, stopped, opens>>

(* disconnect() stops the subscriber, for good.                             *)
Disconnect ==
    /\ stopped' = TRUE
    /\ timers' = IF timerKnown THEN timers - 1 ELSE timers
    /\ timerKnown' = FALSE
    /\ socket' = "none" /\ connected' = FALSE /\ told' = NothingTold
    /\ UNCHANGED <<replaced, attempts, opens>>

(* unsubscribe(); the last one disconnects.                                 *)
Unsubscribe(w) ==
    /\ w \in Active
    /\ watcher' = [watcher EXCEPT ![w].at = "gone"]
    /\ \/ Active = {w} /\ Disconnect
       \/ /\ Active # {w}
          /\ told' = IF CanSend THEN [told EXCEPT ![w] = 0] ELSE told
          /\ UNCHANGED <<socket, connected, replaced, attempts, timers, timerKnown,
                         stopped, opens>>

(* The application connects or disconnects by itself.  Bound: it does not   *)
(* insist once the subscriber has given up, or a socket was replaced.       *)
ApplicationConnects ==
    /\ ~GivenUp /\ replaced = 0 /\ Connect
    /\ UNCHANGED <<watcher, connected, stopped, told, opens>>

ApplicationDisconnects == ~stopped /\ Disconnect /\ UNCHANGED watcher

-----------------------------------------------------------------------------
(* onopen: everybody who is subscribed is made known again.                 *)
SocketOpens_TellsNobody ==
    /\ socket = "connecting" /\ opens > 0
    /\ socket' = "open" /\ connected' = TRUE /\ attempts' = 0
    /\ opens' = opens - 1
    /\ UNCHANGED <<watcher, replaced, timers, timerKnown, stopped, told>>
SocketOpens ==
    /\ socket = "connecting" /\ opens > 0
    /\ socket' = "open" /\ connected' = TRUE /\ attempts' = 0
    /\ told' = [w \in Watchers |-> IF w \in Active THEN watcher[w].filter ELSE 0]
    /\ opens' = opens - 1
    /\ UNCHANGED <<watcher, replaced, timers, timerKnown, stopped>>

(* External: the connection is lost or refused.                             *)
SocketBreaks ==
    /\ socket \in {"connecting", "open"}
    /\ socket' = "closing" /\ told' = NothingTold
    /\ UNCHANGED <<watcher, connected, replaced, attempts, timers, timerKnown, stopped, opens>>

(* onclose: cleanupSocket() drops the current socket, whichever reported.   *)
CleansUp ==
    /\ socket' = "none" /\ connected' = FALSE /\ told' = NothingTold
    /\ ScheduleReconnect
    /\ UNCHANGED <<watcher, stopped, opens>>

SocketCloses == socket = "closing" /\ CleansUp /\ UNCHANGED replaced

ReplacedCloses == replaced > 0 /\ replaced' = replaced - 1 /\ CleansUp

(* The timer's callback forgets the timer that is known, not only itself.   *)
TimerConnects ==
    /\ timers > 0
    /\ \/ /\ stopped \/ connected \/ socket = "connecting"
          /\ timers' = timers - 1 /\ timerKnown' = FALSE
          /\ UNCHANGED <<socket, replaced, attempts>>
       \/ /\ ~stopped /\ ~connected /\ socket # "connecting"
          /\ socket' = "connecting"
          /\ replaced' = IF socket = "closing" THEN replaced + 1 ELSE replaced
          /\ timers' = timers - 1 /\ timerKnown' = FALSE
          /\ UNCHANGED attempts
       \/ /\ ~stopped /\ ~connected /\ socket # "connecting"
          /\ attempts' = attempts + 1
          /\ timers' = IF attempts' > SocketAttempts THEN timers - 1 ELSE timers
          /\ timerKnown' = (attempts' <= SocketAttempts)
          /\ UNCHANGED <<socket, replaced>>
    /\ UNCHANGED <<watcher, connected, stopped, told, opens>>

SocketNext ==
    \/ \E w \in Watchers : Subscribe(w) \/ UpdateFilter(w) \/ Unsubscribe(w)
    \/ ApplicationConnects \/ ApplicationDisconnects
    \/ SocketOpens \/ SocketBreaks \/ SocketCloses \/ ReplacedCloses \/ TimerConnects

(* Timers fire, a socket that is being made opens or breaks, and one that   *)
(* is closing reports it: at least one of them goes on.                     *)
SocketFairness ==
    WF_socketVars(\/ TimerConnects \/ SocketCloses
                  \/ socket = "connecting" /\ (SocketOpens \/ SocketBreaks))

SocketSpec == SocketInit /\ [][SocketNext]_socketVars /\ SocketFairness

-----------------------------------------------------------------------------
(* An open connection serves exactly the present filters of those who are   *)
(* subscribed; as long as somebody is, there is a connection, or one in the *)
(* making, or the subscriber has given up or was stopped; and unless it is, *)
(* whoever subscribes is served.                                            *)
SubscribersServed ==
    /\ [](CanSend => \A w \in Watchers : told[w] = IF w \in Active THEN watcher[w].filter ELSE 0)
    /\ [](Active # {} => socket # "none" \/ timers > 0 \/ GivenUp \/ stopped)
    /\ \A w \in Watchers :
          w \in Active ~> w \notin Active \/ told[w] = watcher[w].filter \/ GivenUp \/ stopped
=============================================================================
