SPECIFICATION Spec
CONSTANTS
    k1 = k1
    k2 = k2
    k3 = k3
    p1 = p1
    p2 = p2
    e1 = e1
    e2 = e2
    None = None
    Conns = {k1, k2, k3}
    Profiles = {p1, p2}
    Endpoints = {e1, e2}
    NeedsPassphrase = {e1}
    HostKeys = {a, b}
    Reinstalled = {e1}
    Clients = {c1, c2}
    Bundles <- MCBundles
    Starts <- MCStarts
    MaxRequests = 2
SYMMETRY ClientSymmetry
INVARIANTS
    TablesAreSound
    TunnelsAreNotLost
    SessionsAreConfirmed
PROPERTIES
    KeysChangeOnPurpose
\* Requests are bounded: a behaviour ends.
CHECK_DEADLOCK FALSE
