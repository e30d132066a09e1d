\* A production order goes to a sandbox account.
SPECIFICATION Spec
CONSTANTS
  None = None
  Free = Free
  Hosts = {h1}
  Products = {g1}
  Providers = {v1}
  Envs = {"sandbox", "production"}
  Secrets = {s1}
  Policies = {f1}
  Refs = {r1}
  Clients = {c1}
  DemoHost = h1
  DemoProduct = g1
  DemoProvider = v1
  DemoPolicy = f1
  Faults = {}
PROPERTIES EnvironmentsSeparate
