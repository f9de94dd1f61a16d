SPECIFICATION FairSpec
CONSTANTS
    Hosts = {h1}
    Conns = {c1, c2}
    Null = Null
    Blank = Blank
    Junk = Junk
INVARIANTS ListedServersExist HandlerServerExists
PROPERTIES ConnectedGetsListed GoneGetsDelisted
