SPECIFICATION FairSpec
CONSTANTS
    a = a  b = b  c = c  board = board  r1 = r1  r2 = r2
    Services = {"discovery", "mirror", "serving"}
    Loads = {r1, r2}  Requests = {r1}
    Deployment = 1  Tip = 5  Budget = 0  Backoff = 1  MaxShort = 1
    Wallets = {a}
    Named <- MCNamedServed
    Held <- MCHeldServed
    LogChunk = 4  LogLimit = 1  MaxSplits = 4  MaxParticipants = 1  MaxDrops = 0
    Owners = {a, b}
    Asker <- MCAskerOne
    Board = board
    From = 2
    Changes <- MCChanges
    RateOf <- MCRateOf
    Chunk = 2  ZeroGrid = 2  MaxChunks = 1  MaxLag = 0  MaxGen = 2
    RankWallets = {}
    Venues = {}
    RankFloor = 1
    EarnsBy = {}
    MaxPoints = 0  MaxRows = 0
    Settings = {}
    Clients = {r1, r2}
    Fresh = 1  StaleIfError = 4  EdgeFresh = 2  EdgeSwr = 2  EdgeStale = 1
INVARIANTS VisibleAgeBounded
PROPERTIES EveryoneAnswered Converges
