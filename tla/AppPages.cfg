SPECIFICATION Spec
CONSTANTS
    Pages <- MCPages
    AppNode <- MCApp
    Expected = 1
    DriftLimit = 1
    ExactTip = FALSE
    Fork = 2
    OneWallet = {"A"}
    TwoWallets = {"A", "B"}
    OneSlot = {1}
    MaxTxs = 1
    MaxMoves = 1
    CardMoves = 2
    BuyNodes <- MCBuyNodes
    OneNode <- MCOneNode
    Cooldowns = {"day", "week"}
    Amounts = {1}
    Outs = {10000, 20000}
    Slips = {5, 300}
    DefaultSlip = 5
    Expirations = {1800}
    Unlimited = 9
    CuratorClasses = {1, 2}
    Openings <- MCOpenings
    MaxQuotes = 3
    Prices = {5, 7}
    MaxJobs = 2
    MaxSends = 4
    MaxMishaps = 3
    a = a
    b = b
    Owners <- MCOwners
    Keys = {"k", "l"}
    Founder = "k"
    Appointments <- MCAppointments
    Agreements = {1}
    Month = 2
    Slice = 2
    Rates = {1, 2}
    Terms = {1}
    MaxEpochs = 2
    MaxAhead = 2
    MaxPrincipal = 2
    MaxPool = 1
    MaxTime = 4
    MaxOrders = 2
    Curators = {"A", "B"}
    MaxWrites = 1
    MaxSwitches = 2
    Tabs = {"s", "t"}
    MaxProposals = 3
    MaxNonce = 2
    Books <- MCBooks
    Holders = {"A", "B"}
    Deployment = 1
    MaxHead = 3
    BlockChunk = 2
    MaxFaults = 1
    Forms = {"f", "g"}
    SourceOf <- MCSourceOf
    Retain = 1
    MaxSlot = 3
    MaxTries = 2
    ClassIds = {5}
    LaterClasses = {6}
    DigitalAssets = 5
    Bps = 10
    FeeBps = 3
    LoanRates = {7}
    Ltvs = {6}
    Principals = {2}
    ClientCap = 2
    MaxFacilities = 2
    MaxTicks = 2
    Nonce = 1
    SlippedKeys = {"usdfr", "stable"}
    MaxSlips = 1
    MaxCommits = 2
    MaxBuilds = 2
    Versions = {1, 2}
    MaxHistory = 2
    MaxUpgrades = 1
    MaxEfforts = 4
    Members = {1, 2, 3}
    Visitors = {1, 2}
    Movers = {1}
    CapitalClasses = {1, 2}
    MayFail <- MCMayFail
    Grain = 10
    OnePoint = 40
    ListCap = 2
    RowStep = 1
    DefaultRetries = 1
    MaxBlocks = 2
    MaxAsked = 3
SYMMETRY MCSymmetry
INVARIANTS StatusIsTrue NeverTwice SignedAsReviewed StagedSteps VaultExact MaxHolds CountedOnce
PROPERTIES StepsAsSigned
CHECK_DEADLOCK FALSE
