\* One failed read of the ledger replaces the settlement line.
SPECIFICATION Spec
CONSTANTS
  None = None
  Refs = {r1}
  Providers = {p1}
  Keys = {k1}
  Quotes = {q1}
  HookStatuses = {"success", "failed"}
  GatewayStatuses = {"created"}
  Workers = {w1}
  MaxAttempts = 2
  Faults = {"GetLedger"}
PROPERTIES SettlementLineImmutable
