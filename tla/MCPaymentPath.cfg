\* One payment with three attempts, four requests at the limiter, three at the
\* throttle, three invoices, three lines, two rollback attempts,
\* two scheduled payments within and beyond the reach of a timer, with a restart or
\* a second tab.
SPECIFICATION PathSpec
CONSTANTS
  p1 = p1
  opA = opA
  Pays = {p1}
  NoPay = NoPay
  Ops = {opA}
  OpOf <- OnePay
  MaxAttempts = 3
  Idempotent = TRUE
  KeysExpire = FALSE
  Standby = FALSE
  RpcLags = FALSE
  MaxForeign = 0
  FailureThreshold = 1
  SuccessThreshold = 1
  ProbeCount = 1
  MaxFailureCount = 8
  RetriesOpenCircuit = TRUE
  Requests = 4
  Keys = {k1, k2}
  NoKey = NoKey
  Settings <- MCSettings
  Cost = 2
  Window = 2
  MaxIdle = 2
  Dispatches = {d1, d2, d3}
  MaxLimit = 2
  Unlimited = Unlimited
  MaxHeaders = 2
  MaxBreaches = 2
  Invoices = {1, 2, 3}
  MaxBudget = 6
  MaxNeed = 3
  MaxWeight = 3
  MaxPasses = 1024
  Recipients = {r1, r2, r3}
  Lines = {1, 2, 3}
  Parts = 4
  MaxAmount = 5
  MaxScore = 2
  Legs = {l1, l2}
  Attempts = {a1, a2}
  MaxBegins = 2
  RollbackKeysExpire = TRUE
  Payments = {s1, s2}
  Tabs = {t1, t2}
  FirstTab = t1
  Delays = {1, 2}
  MaxTimer = 1
  MaxNow = 2
  MaxStarts = 2
  Storages <- AllStorages
INVARIANTS
  BreakerMatchesQueue
  WithinBudgets
  AllocationIsComplete
  
  RollbackAnnouncedOnce
  
PROPERTIES
  RoundIsFair
  WaitersGetThrough
CHECK_DEADLOCK FALSE
