\* Two tabs, one invalidation of one invoice by its id.
SPECIFICATION TabSpec
CONSTANTS
    Tabs = {t1, t2}
    TabInvoices = {i1}
    MaxRequests = 1
    ByInvoice = TRUE
INVARIANTS
    OtherTabsEvict
CHECK_DEADLOCK FALSE
