\* Two operations that follow each other closely.
CONSTANTS
    s1 = s1
    s2 = s2
    c1 = c1
    c2 = c2
    r1 = r1
    r2 = r2
    r3 = r3
    Sessions = {s1}
    Comps = {c1}
    Configs = {{}}
    Requests = {r1, r2, r3}
    Main = Main
    NoThread = NoThread
    NoComp = NoComp
    EntryNode = TRUE
    AutoSuspend = FALSE
SPECIFICATION Spec
SYMMETRY Symmetry
INVARIANTS
    OperationThreadIsProtected
