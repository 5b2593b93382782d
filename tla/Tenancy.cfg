SPECIFICATION Spec
CONSTANTS
    u1 = u1
    u2 = u2
    u3 = u3
    w1 = w1
    p1 = p1
    p2 = p2
    i1 = i1
    i2 = i2
    Staff = Staff
    Users = {u1, u2, u3}
    Workspaces = {w1}
    Requests = {p1, p2}
    Invites = {i1, i2}
SYMMETRY Symmetry
INVARIANTS KeepsAnAdmin OnePendingInvitation
