CONSTANTS
    r1 = r1  r2 = r2  a = a  b = b  o1 = o1  o2 = o2  o3 = o3
    Run = {r1, r2}
    Integration = {a, b}
    Order = {o1, o2, o3}
    ShopOf <- MCShopOf
    Refused = {o3}
    Moving = {o1}
    PageSize = 1
    MaxFaults = 1
SPECIFICATION FairSpec
INVARIANTS TypeOK NoDuplicates EventsAgree
PROPERTIES OrdersArrive StatusFollows
