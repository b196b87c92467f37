\* Two requests that change roles at the same time.
SPECIFICATION AccountSpec
CONSTANTS
    u1 = u1
    u2 = u2
    u3 = u3
    i1 = i1
    i2 = i2
    r1 = r1
    r2 = r2
    s1 = s1
    s2 = s2
    d1 = d1
    d2 = d2
    Areas = {"team"}
    Users <- MCUsers
    Founder = u1
    Invites <- MCInvites
    Requests <- MCRequests
    Limits <- MCLimits
    None = None
    Subs <- MCSubs
    Deliveries <- MCDeliveries
    Paid = {"pro"}
    Statuses = {"active", "unpaid"}
    MaxEvents = 5
    MaxFaults = 1
    NoSub = NoSub
SYMMETRY Symmetry
INVARIANTS
    TeamHasOwner
