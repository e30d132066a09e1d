\* Two handlers race over one order: redeliveries, conflicting statuses,
\* replays, failing reads and saves, and crashes.
SPECIFICATION Spec
CONSTANTS
  None = None
  Refs = {r1}
  Providers = {p1, p2}
  Keys = {k1, k2}
  Quotes = {q1, q2}
  HookStatuses = {"success", "expired"}
  GatewayStatuses = {"", "success"}
  Workers = {w1, w2}
  MaxAttempts = 3
  Faults = {"GetOrder", "SaveOrder"}
SYMMETRY Symmetry
INVARIANTS TypeOK AckMeansSettled TracesAgree
PROPERTIES OrdersOnlySettle AckIsStable ImplementsLifecycle HandlersProgress
