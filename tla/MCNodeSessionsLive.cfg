\* Liveness: one session, one computation, two requests.
CONSTANTS
    s1 = s1
    s2 = s2
    c1 = c1
    c2 = c2
    r1 = r1
    r2 = r2
    r3 = r3
    Sessions = {s1}
    Comps = {c1}
    Configs = {{c1}}
    Requests = {r1, r2}
    Main = Main
    NoThread = NoThread
    NoComp = NoComp
    EntryNode = FALSE
    AutoSuspend = TRUE
SPECIFICATION FairSpec
PROPERTIES
    EverythingEnds
