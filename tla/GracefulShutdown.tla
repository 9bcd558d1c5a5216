-------------------------- MODULE GracefulShutdown --------------------------
(***************************************************************************)
(* src/lifecycle/GracefulShutdownHandler.ts and the methods of a client    *)
(* that it calls: refuse new writes, wait for those under way, tear down.  *)
(*                                                                         *)
(* The handler works on any object with these methods.  A "tracking"       *)
(* client registers its writes and refuses new ones, as the helpers        *)
(* _assertWritable() and _trackInFlightRequest() of StellarSplitClient     *)
(* do; the "sdk" client is StellarSplitClient, none of whose methods calls *)
(* these helpers.                                                          *)
(***************************************************************************)
CONSTANTS
    Writes,          \* transactions submitted through the client
    Clients,         \* the kinds of clients to check
    TimeoutActions   \* options.onTimeout: "force" or "error"

ASSUME ShutdownSettings ==
    Clients \subseteq {"tracking", "sdk"} /\ TimeoutActions \subseteq {"force", "error"}

VARIABLES
    client,      \* the kind of client
    onTimeout,   \* options.onTimeout
    closing,     \* _shutdownInProgress
    write,       \* where each write stands
    awaited,     \* the writes the drain waits for
    teardown,    \* how far _executeShutdown() is
    shutdownPromise,  \* shutdownPromise: what shutdown() has returned
    overran      \* the drain has timed out

shutdownVars == <<client, onTimeout, closing, write, awaited, teardown, shutdownPromise, overran>>

ShutdownTypeOK ==
    /\ write \in [Writes -> {"idle", "sending", "done", "refused"}]
    /\ awaited \in SUBSET Writes
    /\ teardown \in {"idle", "draining", "destroying", "ended"}
    /\ shutdownPromise \in {"none", "pending", "resolved", "rejected"}

ShutdownInit ==
    /\ client \in Clients /\ onTimeout \in TimeoutActions
    /\ closing = FALSE /\ overran = FALSE
    /\ write = [w \in Writes |-> "idle"]
    /\ awaited = {}
    /\ teardown = "idle"
    /\ shutdownPromise = "none"

(* _inFlightRequests: what the client says is under way.                    *)
InFlight == {w \in Writes : client = "tracking" /\ write[w] = "sending"}

SubmitWrite(w) ==
    /\ write[w] = "idle"
    /\ write' = [write EXCEPT ![w] = IF client = "tracking" /\ closing THEN "refused" ELSE "sending"]
    /\ UNCHANGED <<client, onTimeout, closing, awaited, teardown, shutdownPromise, overran>>

WriteEnds(w) ==
    /\ write[w] = "sending"
    /\ write' = [write EXCEPT ![w] = "done"]
    /\ UNCHANGED <<client, onTimeout, closing, awaited, teardown, shutdownPromise, overran>>

(* shutdown(), by a signal or the application; a second call is given the   *)
(* first one's promise.  beginGracefulShutdown() and the list of writes to  *)
(* wait for belong to the same turn.                                        *)
BeginShutdown_KeepsAccepting ==
    /\ shutdownPromise = "none"
    /\ shutdownPromise' = "pending"
    /\ awaited' = InFlight
    /\ teardown' = "draining"
    /\ UNCHANGED <<client, onTimeout, closing, write, overran>>
BeginShutdown ==
    /\ shutdownPromise = "none"
    /\ shutdownPromise' = "pending"
    /\ closing' = TRUE
    /\ awaited' = InFlight
    /\ teardown' = "draining"
    /\ UNCHANGED <<client, onTimeout, write, overran>>

DrainCompletes ==
    /\ teardown = "draining"
    /\ \A w \in awaited : write[w] = "done"
    /\ teardown' = "destroying"
    /\ UNCHANGED <<client, onTimeout, closing, write, awaited, shutdownPromise, overran>>

DrainTimesOut ==
    /\ teardown = "draining"
    /\ \E w \in awaited : write[w] # "done"
    /\ overran' = TRUE
    /\ IF onTimeout = "error"
       THEN teardown' = "ended" /\ shutdownPromise' = "rejected"
       ELSE teardown' = "destroying" /\ UNCHANGED shutdownPromise
    /\ UNCHANGED <<client, onTimeout, closing, write, awaited>>

(* finalizeShutdown() ends, or rejects: a cache cannot be saved.            *)
TeardownEnds ==
    /\ teardown = "destroying"
    /\ teardown' = "ended"
    /\ shutdownPromise' \in {"resolved", "rejected"}
    /\ UNCHANGED <<client, onTimeout, closing, write, awaited, overran>>

ShutdownNext ==
    \/ \E w \in Writes : SubmitWrite(w) \/ WriteEnds(w)
    \/ BeginShutdown \/ DrainCompletes \/ DrainTimesOut \/ TeardownEnds

ShutdownSpec == ShutdownInit /\ [][ShutdownNext]_shutdownVars

-----------------------------------------------------------------------------
(* Resources are torn down under no write of a tracking client, unless the  *)
(* drain ran into its timeout: no write slips in between the list of what   *)
(* is awaited and the teardown.                                             *)
DrainedBeforeTeardown ==
    teardown \in {"destroying", "ended"} /\ client = "tracking" /\ ~overran =>
        \A w \in Writes : write[w] # "sending"

(* "New transaction submissions throw ShutdownInProgressError after         *)
(* shutdown is initiated", as the comment of the handler says.              *)
NoWriteAfterShutdown ==
    [][shutdownPromise # "none" => \A w \in Writes : write[w] = "idle" => write'[w] # "sending"]_shutdownVars
=============================================================================
