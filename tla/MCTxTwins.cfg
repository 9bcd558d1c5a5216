\* Two equal payments, retried, with an idempotency store that never forgets.
SPECIFICATION FairSpec
CONSTANTS
  p1 = p1
  p2 = p2
  opA = opA
  Pays = {p1, p2}
  NoPay = NoPay
  Ops = {opA}
  OpOf <- TwinPays
  MaxAttempts = 2
  Idempotent = TRUE
  KeysExpire = FALSE
  Standby = FALSE
  RpcLags = FALSE
  MaxForeign = 0
INVARIANTS
  ResolvedIsApplied
  StoredIsApplied
  TwinsAreSerialised
  BumpExcludesInner
PROPERTIES
  NoSendOnceClaimed
  EveryPaySettles
CHECK_DEADLOCK FALSE
