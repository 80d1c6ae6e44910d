SPECIFICATION Spec
CONSTANTS
    Runtimes = {r1, r2}
    Launchers = {c1, c2}
    Sandboxed = {c2}
    Builds = {b1, v10}
    FirstBuild = b1
    Released = {v10}
    NoOne = NoOne
    MaxInstalls = 1
    MaxCommands = 2
    MaxMishaps = 1
CHECK_DEADLOCK FALSE
INVARIANTS
    OneManager
    MarkerIsTrue
PROPERTIES
    LatchedRuntimeLeaves
