\* Two flows, two clients with one key, two executions.
SPECIFICATION Spec
CONSTANTS
    f1 = f1
    f2 = f2
    s1 = s1
    s2 = s2
    x1 = x1
    x2 = x2
    c1 = c1
    c2 = c2
    k1 = k1
    Flows = {f1, f2}
    Snapshots = {s1, s2}
    Executions = {x1, x2}
    Clients = {c1, c2}
    Keys = {k1}
    NoFlow = NoFlow
    NoSnapshot = NoSnapshot
    NoExecution = NoExecution
    NoKey = NoKey
SYMMETRY MCSymmetry
INVARIANTS RetryRunsSameGraph SerialKeyRunsOnce
\* All ids issued, all flows deprecated, all runs closed.
CHECK_DEADLOCK FALSE
