\* One relay pass at a time over two tenants, and a time limit that the backlog of the
\* older one and one of its events do not fit in; another is for an unknown user.
CONSTANTS
  a = a
  b = b
  e1 = e1
  e2 = e2
  e3 = e3
  e4 = e4
  e5 = e5
  u1 = u1
  u2 = u2
  u3 = u3
  h1 = h1
  h2 = h2
  h3 = h3
  None = None
  Tenants = {a, b}
  CreatedAt <- TwoTenantOrder
  Events = {e1, e2, e3, e4, e5}
  TenantOf <- TwoTenants
  Users = {u1, u2, u3}
  RecipientsOf <- OneWide
  Subscribed = {e1, e2, e3, e4, e5}
  UnknownUsers = {u2}
  Passes = {1}
  Requests = {h1}
  Tier = "pool"
  TimeLimit = 1
  MaxBegun = 3
  MaxOpen = 1
SPECIFICATION FairSpec
PROPERTIES
  EventuallyNotified
  EventuallyStamped
