\* Redelivery under the fairness of FairDeliverySpec; no symmetry, which liveness does not allow.
SPECIFICATION FairDeliverySpec
CONSTANTS
  None = None
  r1 = r1
  p1 = p1
  k1 = k1
  h1 = h1
  Refs = {r1}
  Providers = {p1}
  Keys = {k1}
  Quotes = {q1}
  HookStatuses = {"success", "failed"}
  GatewayStatuses = {"created"}
  Workers = {w1}
  MaxAttempts = 2
  Faults = {"GetOrder"}
  Hosts = {h1}
  HostOf <- TheHost
  Secrets = {s1, s2}
  Ages <- SomeAges
  Window = 1
  MaxLogs = 1
  Typed <- NoneTyped
PROPERTIES EveryRequestAnswered EventuallySettled
