SPECIFICATION Spec
CONSTANTS
    Procs = {p1, p2, p3}
    Testers = {p3}
    OldPid = p0
    Paths <- MCPaths
    OptionSets <- MCOptionSets
    Configs <- MCConfigs
    Conns = {c1, c2}
    TrayClients = {"tray"}
    WebClients = {"web"}
    Readings <- MCReadings
    NLE = 2
    EventMax = 3
    OldEvents = 3
    MaxLog = 1
    MaxAsks = 2
    Window = 1
    Base = 8
    Objects <- MCObjects
    Rings <- MCRings
    Settings = {"H", "L", "180", "999"}
    MaxFaults = 2
    TestModes = {"apcsmart", "usb", "modbus", "dumb"}
    Wirings = {"CUSTOM_SIMPLE", "0020A", "0023A", "0095A", "MAM"}
    Values = {1, 2, 9}
    Accepted = {1, 2}
    ClearPolls = 2
    TestPolls = 2
    DatePolls = 2
    MaxGlitches = 3
INVARIANTS
    LockIsExclusive
    AnswersAreTrue
    SummaryIsTrue
    RoundTrip
    SettingEndsWell
    ReportsAreTrue
SYMMETRY MCSymmetry
CHECK_DEADLOCK FALSE
