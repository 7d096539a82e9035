CONSTANTS
    h1 = h1
    h2 = h2
    c1 = c1
    c2 = c2
    c3 = c3
    p1 = p1
    p2 = p2
    v1 = v1
    v2 = v2
    None = None
    Hashes = {h1, h2}
    WorkerCalls = {c1}
    WebCalls = {c2}
    Polls = {p1, p2}
    WorkerReviews = {v1}
    WebReviews = {v2}
    BrokerExists = TRUE
SYMMETRY Symmetry
SPECIFICATION Spec
CHECK_DEADLOCK FALSE
INVARIANTS
    CredentialInv
    OneCredentialPerRow
    WorkerFailsClosed
    EscalationIsQueued
    OneResolution
PROPERTIES
    TerminalStands
