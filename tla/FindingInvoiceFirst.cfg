\* A crash between the provider call and SaveOrder.
SPECIFICATION Spec
CONSTANTS
  None = None
  Refs = {r1}
  Providers = {p1}
  Keys = {k1}
  Quotes = {q1}
  HookStatuses = {"success"}
  GatewayStatuses = {"created"}
  Workers = {w1}
  MaxAttempts = 2
  Faults = {}
INVARIANTS InvoiceHasOrder
