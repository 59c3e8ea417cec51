SPECIFICATION Spec
CONSTANTS
    a = a  b = b  c = c  board = board  r1 = r1  r2 = r2
    Services = {"discovery", "mirror", "ranking"}
    Loads = {r1, r2}  Requests = {r1, r2}
    Deployment = 1  Tip = 4  Budget = 0  Backoff = 1  MaxShort = 1
    Wallets = {a, b, c}
    Named <- MCNamed
    Held <- MCHeld
    LogChunk = 3  LogLimit = 2  MaxSplits = 2  MaxParticipants = 3  MaxDrops = 1
    Owners = {a, b}
    Asker <- MCAskerEach
    Board = board
    From = 2
    Changes <- MCChanges
    RateOf <- MCRateOf
    Chunk = 2  ZeroGrid = 2  MaxChunks = 2  MaxLag = 1  MaxGen = 2
    RankWallets = {1, 2, 3, 4}
    Venues = {4}
    RankFloor = 2
    EarnsBy <- MCEarnsBy
    MaxPoints = 2  MaxRows = 2
    Settings <- MCSettings
    Clients = {}
    Fresh = 1  StaleIfError = 4  EdgeFresh = 2  EdgeSwr = 2  EdgeStale = 1
INVARIANTS NoOneMissed NeverOverAwards ExactWhenHonest NothingLost RelayAgrees
PROPERTIES ScansAreProgressive SnapshotsAdvance NewerSurvives
CHECK_DEADLOCK FALSE
