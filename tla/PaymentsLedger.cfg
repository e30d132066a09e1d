\* Two orders in one ledger table that cannot always be read, and webhooks
\* that carry the keys of their creations.
SPECIFICATION Spec
CONSTANTS
  None = None
  Refs = {r1, r2}
  Providers = {p1}
  Keys = {r1, r2}
  Quotes = {q1, q2}
  HookStatuses = {"success", "paid"}
  GatewayStatuses = {""}
  Workers = {w1}
  MaxAttempts = 1
  Faults = {"SaveOrder", "GetLedger"}
SYMMETRY Symmetry
INVARIANTS OrderHasInvoice LedgerMatchesOrder LinesAccountable
