\* Two payments with failover to a standby; keys expire, the node lags behind the
\* ledger, and others use the account.
SPECIFICATION Spec
CONSTANTS
  p1 = p1
  p2 = p2
  opA = opA
  Pays = {p1, p2}
  NoPay = NoPay
  Ops = {opA}
  OpOf <- TwinPays
  MaxAttempts = 1
  Idempotent = TRUE
  KeysExpire = TRUE
  Standby = TRUE
  RpcLags = TRUE
  MaxForeign = 1
PROPERTIES
  ImplementsPromise
CHECK_DEADLOCK FALSE
