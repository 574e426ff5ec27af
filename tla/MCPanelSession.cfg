SPECIFICATION FairSpec
CONSTANTS
    a = a
    b = b
    Sites <- TwoSites
    SiteLists <- Lists
    MaxVersion = 1
    None = None
INVARIANTS
    TypeOK
    NoForgottenSubscription
    OneRequestEndsRefreshing
    ShownSiteIsLive
    CommandsNameTheShownSite
PROPERTIES
    DashboardNeverGoesBack
    AcceptedEventIsShown
    ViewRecovers
