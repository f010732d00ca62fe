SPECIFICATION Spec
CONSTANTS
    None = None
    s = s
    t = t
    x1 = x1
    x2 = x2
    x3 = x3
    y = y
    p = p
    q = q
    Sessions = {s, t}
    Sources = {x1, x2, x3, y}
    Namespace <- MCNamespace
    Audited <- MCAudited
    Fragile = {x1}
    Local = {"x"}
    Paths = {p, q}
    Tree <- MCTree
    Indexed = {{p, q}}
    TotalFiles = 1
    NamespaceFiles = 1
    LoadBudget = 3
INVARIANTS TypeOK CapsBounded EntriesWhole LoadFits
PROPERTY CallsReturn
