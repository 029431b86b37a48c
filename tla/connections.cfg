SPECIFICATION Spec
CONSTANTS
    s1 = s1  s2 = s2  mine = mine  other = other
    i1 = i1  i2 = i2  j1 = j1  v1 = v1  h1 = h1
    Session = {s1, s2}
    Shop = {mine, other}
    Integration = {i1, i2, j1}
    ShopOf <- MCShopOf
    Vendor = {v1}
    Webhook = {h1}
    None = None
SYMMETRY Symmetric
INVARIANTS ConnectedOnce OneOpen WebhooksAreKnown
PROPERTY KeepsRegistry
CHECK_DEADLOCK FALSE
