\* The silo tier: withTenant opens no transaction.
CONSTANTS
  a = a
  b = b
  e1 = e1
  e2 = e2
  e3 = e3
  e4 = e4
  e5 = e5
  u1 = u1
  u2 = u2
  u3 = u3
  h1 = h1
  h2 = h2
  h3 = h3
  None = None
  Tenants = {a}
  CreatedAt <- OneTenantOrder
  Events = {e1, e2}
  TenantOf <- OneTenant
  Users = {u1, u2}
  RecipientsOf <- TwoAndOne
  Subscribed = {e1, e2}
  UnknownUsers = {}
  Passes = {1}
  Requests = {h1, h2}
  Tier = "silo"
  TimeLimit = 2
  MaxBegun = 2
  MaxOpen = 2
SPECIFICATION Spec
INVARIANT ClaimIsWhole
