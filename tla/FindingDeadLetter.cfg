\* Two failing saves use up the attempts of a webhook about an order, and
\* nothing keeps it.
SPECIFICATION Spec
CONSTANTS
  None = None
  Refs = {r1}
  Providers = {p1}
  Keys = {k1}
  Quotes = {q1}
  HookStatuses = {"success"}
  GatewayStatuses = {"created"}
  Workers = {w1}
  MaxAttempts = 2
  Faults = {"SaveOrder"}
PROPERTIES FailedWebhookKept
