\* Two handlers, one order, signatures by secrets that may or may not be its host's, replays.
SPECIFICATION DeliverySpec
CONSTANTS
  None = None
  r1 = r1
  p1 = p1
  k1 = k1
  h1 = h1
  Refs = {r1}
  Providers = {p1}
  Keys = {k1}
  Quotes = {q1}
  HookStatuses = {"success", "failed"}
  GatewayStatuses = {"created"}
  Workers = {w1, w2}
  MaxAttempts = 1
  Faults = {"GetOrder"}
  Hosts = {h1}
  HostOf <- TheHost
  Secrets = {s1, s2}
  Ages = {1}
  Window = 1
  MaxLogs = 1
  Typed <- OneTyped
INVARIANTS DeliveryTypeOK AuthenticOutcomes LogTruthful
PROPERTIES SuccessReplays VerdictJustified
SYMMETRY DeliverySymmetry
