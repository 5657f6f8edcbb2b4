SPECIFICATION Spec
CONSTANTS
    Requests = {r1, r2, r3}
    Users = {boss, buyer, clerk, root}
    Admins = {root}
    Agents = {clerk}
    Orgs = {a, b}
    NoOrg = NoOrg
    Codes = {gold, iron}
    NoCode = NoCode
    Seeds = {s1, s2}
    NoRow = NoRow
    NoAnswer = NoAnswer
    boss = boss
    buyer = buyer
    clerk = clerk
    root = root
    a = a
    b = b
    gold = gold
    iron = iron
    s1 = s1
    s2 = s2
    Bodies <- MCBodies
    InitialMembers <- MCMembers
    InitialDocs <- MCDocs
    InitialCoupons <- MCCoupons
INVARIANTS ManagersOnly OrdersAreMembers RemovedStaysRemoved
SYMMETRY Symmetry
CHECK_DEADLOCK FALSE
