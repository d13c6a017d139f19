SPECIFICATION NFairSpec
CONSTANTS
    depop = depop
    poshmark = poshmark
    etsy = etsy
    r1 = r1
    r2 = r2
    Markets = {depop, poshmark, etsy}
    Chrome <- MCChrome
    TwoStep <- MCTwoStep
    Boosts <- MCBoosts
    Revs = {r1, r2}
    NoRev = NoRev
    MaxMarkets = 1
    MaxJobs = 2
    MaxCrashes = 1
    MaxDeaths = 1
CHECK_DEADLOCK FALSE
INVARIANTS
    NTypeOK
    OneLive
    RestsWhenNothingIsLive
    ListedIsLive
PROPERTIES
    JobEnds
