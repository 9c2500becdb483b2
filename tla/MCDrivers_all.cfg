SPECIFICATION Spec
CONSTANTS
    Modes = {"dumb", "test", "net", "pcnet", "snmplite", "apcsmart", "usb", "modbus"}
    Built = {"dumb", "test", "net", "pcnet", "snmplite", "apcsmart", "usb"}
    Truths <- MCTruths
    GraceOpens = 1
    Cables = {"CUSTOM_SIMPLE", "0119A", "0023A", "0095A", "0095B", "MAM"}
    Masters <- MCMasters
    LossCap = 6
    MaxStamp = 2
    COMMLOST_TIMEOUT = 1
    Mibs <- MCMibs
    ReqIds = 3
    MaxLate = 1
    MaxWire = 2
    PollRetries = 1
    StatusRetries = 1
    LinkPolls = 0
    Garbled <- MCGarbled
    Offers <- MCOffers
    Platforms = {"linux", "bsd", "generic"}
INVARIANTS
    KillLineReleased
    SlaveShutdownJustified
    AnswersAreCurrent
    StatusIsStatus
    IgnoredReportsAreKnown
    SilentMasterEndsSlave
PROPERTIES
    StatusNeverOlder
    DaemonBitsKept
    LossIsSurvived
    ImplementsLinkReport
CHECK_DEADLOCK FALSE
