SPECIFICATION LiveSpec
CONSTANTS
    s1 = s1  s2 = s2  n1 = n1  n2 = n2  c1 = c1  c2 = c2  r1 = r1  h1 = h1
    Slots = {s1, s2}
    Nids = {n1, n2}
    Conns = {c1, c2}
    Resources = {r1}
    Administered = {r1}
    Hosts = {h1}
    Home <- OneHost
    Main = Main
    Null = Null
INVARIANTS TypeOK TcpAlive RunningAnnounced
PROPERTIES EveryResourceAnnounced
CHECK_DEADLOCK FALSE
