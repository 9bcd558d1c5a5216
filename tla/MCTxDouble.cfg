\* One payment, one retry, an idempotency store that never forgets.
SPECIFICATION Spec
CONSTANTS
  p1 = p1
  p2 = p2
  opA = opA
  Pays = {p1}
  NoPay = NoPay
  Ops = {opA}
  OpOf <- OnePay
  MaxAttempts = 2
  Idempotent = TRUE
  KeysExpire = FALSE
  Standby = FALSE
  RpcLags = FALSE
  MaxForeign = 0
INVARIANTS
  AppliedAtMostOnce
CHECK_DEADLOCK FALSE
