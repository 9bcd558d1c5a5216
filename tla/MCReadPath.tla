----------------------------- MODULE MCReadPath -----------------------------
(* How a client comes to know of invoices and their changes: reads through  *)
(* the read cache, the optimistic cache, event subscriptions, the polling   *)
(* of one invoice, a stream of records, and the messages that keep the      *)
(* caches of browser tabs together.  They share nothing in the code: a      *)
(* behaviour is one of `part`, the others stay as they are.                 *)
EXTENDS MCOptimisticCache, InvoiceReads, Subscriptions, TabSync,
        InvoicePolling, HorizonStream

VARIABLE part

ReadPathInit ==
    /\ part \in {"optimistic", "reads", "events", "tabs", "polling", "horizon"}
    /\ Init /\ ReadsInit /\ SubsInit /\ TabInit /\ PollingInit /\ HorizonInit
    /\ part # "optimistic" => usage = Paying
    /\ part # "horizon" => limit = 1

(* Every part but p stays as it is.                                         *)
OthersStay(p) ==
    /\ p # "optimistic" => UNCHANGED vars
    /\ p # "reads" => UNCHANGED readsVars
    /\ p # "events" => UNCHANGED subsVars
    /\ p # "tabs" => UNCHANGED tabVars
    /\ p # "polling" => UNCHANGED pollingVars
    /\ p # "horizon" => UNCHANGED horizonVars

ReadPathNext ==
    /\ UNCHANGED part
    /\ \/ part = "optimistic" /\ Next /\ OthersStay("optimistic")
       \/ part = "reads" /\ ReadsNext /\ OthersStay("reads")
       \/ part = "events" /\ SubsNext /\ OthersStay("events")
       \/ part = "tabs" /\ TabNext /\ OthersStay("tabs")
       \/ part = "polling" /\ PollingNext /\ OthersStay("polling")
       \/ part = "horizon" /\ HorizonNext /\ OthersStay("horizon")

ReadPathSpec ==
    /\ ReadPathInit
    /\ [][ReadPathNext]_<<part, vars, readsVars, subsVars, tabVars, pollingVars, horizonVars>>
=============================================================================
