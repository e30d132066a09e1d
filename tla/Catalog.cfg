\* Two hosts share one product id while an administrator deletes and a
\* client registers, seeds and pays; with and without foreign keys.
SPECIFICATION Spec
CONSTANTS
  None = None
  Free = Free
  Hosts = {h1, h2}
  Products = {g1}
  Providers = {v1}
  Envs = {"sandbox", "production"}
  Secrets = {s1}
  Policies = {f1}
  Refs = {r1}
  Clients = {c1}
  DemoHost = h1
  DemoProduct = g1
  DemoProvider = v1
  DemoPolicy = f1
  Faults = {"GetHost", "GetHostPolicy"}
SYMMETRY Symmetry
INVARIANTS TypeOK OrdersHaveHost Integrity
