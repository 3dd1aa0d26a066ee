\* One part at a time; every part stops once its bounds are used up.
SPECIFICATION SurfaceSpec
CONSTANTS
    Unset = Unset
    MaxSizes = {0, 1, 3}
    MaxStream = 7
    Scalars <- SomeScalars
    Lists <- SomeLists
    Varied <- Pairs
    Names <- SomeNames
    KindOf <- SomeKinds
    Ports = {80, 443, 8025}
    HostTexts <- SomeHostTexts
    OriginTexts <- SomeOriginTexts
    \* two requests for one message of up to three bytes, two of them read first
    Ids = {"m1"}
    Requests = {"r1", "r2"}
    MaxLen = 3
    HeaderPrefix = 2
    Limits <- SomeLimits
    MaxVer = 1
    \* every text of up to three characters and filter of up to two
    Letters = {"a", "A", "ea", "EA", "percent", "underscore", "backslash"}
    MaxText = 3
    MaxFilter = 2
    Releases = {"r1"}
    Mail <- SomeMail
    ReleaseHosts <- SomeHosts
    PortOf <- SomePorts
    Asked <- SomeBodies
    Good = {"a", "b", "c"}
    NoSender = "none"
    Unreadable = Unreadable
    Builds = {"b1", "b2", "b3"}
    IndexOf <- SomeIndexes
    IconOf <- SomeIcons
    ScriptOf <- SomeScripts
INVARIANTS
    DataIsFramed
    SettingsAreRight
    GuardIsRight
    AnswersAreTrue
    CountedIffItContains
    ReleaseIsTrue
    PagesAreWhole
CHECK_DEADLOCK FALSE
