CONSTANTS
    o = o
    p = p
    q = q
    r1 = r1
    r2 = r2
    r3 = r3
    m1 = m1
    m2 = m2
    Anchor = Anchor
    NULL = NULL
    Owner = o
    Holder = {p, q}
    Remote = {r1, r2, r3}
    Msg = {m1, m2}
    Src <- MCSrc
    Dst <- MCDst
    MaxCalls = 5
SPECIFICATION Spec
INVARIANTS RefsExact CountsExact ReleaseNotified OneHandlePerPeer ChargesExact NoWarn
CHECK_DEADLOCK FALSE
