SPECIFICATION HistSpec
CONSTANTS
    onbattdelay = 1
    maxtime = 2
    percent = 1
    runtime = 1
    annoydelay = 1
    annoy = 1
    nologinType = "ALWAYS"
    nologin_time = 1
    killdelay = 2
    kill_on_powerfail = FALSE
    terminate_on_powerfail = FALSE
    Slave = TRUE
    ShareSlave = FALSE
    UPS_Cap = {}
    SelfTestLimit = 2
    ShutTimer = 2
    ReplaceGrace = 1
    ChangemePeriod = 1
    ChangemeMax = 1
    FileWrites = {TRUE, FALSE}
    AgeCap = 3
    CumCap = 0
    polltime = 2
    datatime = 0
    stattime = 0
    Inputs = {"onbatt", "shut_remote", "battpresent", "replacebatt"}
    Always = {}
    Charges = {2}
    Lefts = {2}
    Lapses = {"partial", "stale", "commlost"}
    ReadSecs = {1}
    Watched = {}
    HistCap = 3
    Readings <- MCReadings
INVARIANTS
    BatteryEventsMatch
PROPERTIES
    ShutdownRunsScript
    LoginsComeBack
