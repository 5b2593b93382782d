SPECIFICATION Spec
CONSTANTS
    x1 = x1
    x2 = x2
    y1 = y1
    y2 = y2
    h1 = h1
    h2 = h2
    k1 = k1
    k2 = k2
    w1 = w1
    w2 = w2
    t1 = t1
    p1 = p1
    p2 = p2
    j1 = j1
    j2 = j2
    e1 = e1
    e2 = e2
    u1 = u1
    u2 = u2
    Customers = {x1, x2}
    Handlers = {h1, h2}
    Checkouts = {k1, k2}
    MaxEvents = 3
    Workspaces = {w1, w2}
    Repos = {y1, y2}
    Flows = {x1, x2}
    Tasks = {t1}
    MaxSyncRetries = 1
    ExportRequests = {p1, p2}
    Jobs = {j1, j2}
    MaxExportRetries = 2
    MaxLost = 1
    Subs = {x1, x2}
    Emails = {e1, e2}
    BootEmail = e1
    Rows = {u1, u2}
    Seed = u1
    AccountRequests = {y1, y2}
    MaxHomes = 2
    Posts = {"a", "b", "c"}
    Bodies = {"this", "that"}
SYMMETRY Symmetry
CHECK_DEADLOCK FALSE
INVARIANTS  CallbackMatchesFlow  BlockedOnlyByWork ApprovalHolds TakesEffectOnce
