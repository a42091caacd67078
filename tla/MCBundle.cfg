CONSTANTS
    Orders <- MCOrders
    Tasks <- MCTasks
    Reports <- MCReports
    Pow <- MCPow
    Limit <- MCLimit
    BaseFee = 18
    MaxMeats = 2
    MaxIngredients = 2
    MaxFeeOfParent = 21
    MaxLimit = 7
    MaxShift = 1
    WethUnit = 2
    Stakes = {1, 3}
    Quotes = {0, 13, 39}
    DustGas = 1
    Unit = 10
    Shares = {9}
SPECIFICATION BundleSpec
INVARIANTS
    TipNeverPanics
    Matched
    KeepsDust
    BundleMeats
    IInv
    BidWithinMeans
    FrontFeeExact
    VictimNotRefused
