\* Two nodes, two NodeRuns, one Attempt.
SPECIFICATION Spec
CONSTANTS
    r1 = r1
    x = x
    y = y
    z = z
    Runs = {r1}
    Nodes = {x, y, z}
    GraphOf <- GraphWithoutZ
    NodeRuns = {1, 2}
    Attempts = {1}
    Evidence = {"e"}
    Ttl = 1
    ReclaimLimit = 1
INVARIANTS
    TypeOK
    ClosedRunIsSettled
    SuccessIsEarned
    AcceptanceIsEvidenced
\* The pools of ids run out.
CHECK_DEADLOCK FALSE
