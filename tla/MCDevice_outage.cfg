SPECIFICATION HistSpec
CONSTANTS
    onbattdelay = 2
    maxtime = 0
    percent = 1
    runtime = 1
    annoydelay = 1
    annoy = 1
    nologinType = "TIMEOUT"
    nologin_time = 1
    killdelay = 2
    kill_on_powerfail = FALSE
    terminate_on_powerfail = FALSE
    Slave = FALSE
    ShareSlave = FALSE
    UPS_Cap = {}
    SelfTestLimit = 4
    ShutTimer = 2
    ReplaceGrace = 0
    ChangemePeriod = 1
    ChangemeMax = 1
    FileWrites = {TRUE, FALSE}
    AgeCap = 6
    CumCap = 0
    polltime = 3
    datatime = 0
    stattime = 0
    Inputs = {"onbatt", "battlow"}
    Always = {"battpresent"}
    Charges = {2}
    Lefts = {2}
    Lapses = {"stale"}
    ReadSecs = {0, 1}
    Watched = {"onbatt", "battlow"}
    HistCap = 12
    Readings <- MCReadings
INVARIANTS
    ShutdownInTime
    AnnouncedInTime
    KillPowerRepeats
PROPERTIES
    LowBatteryDebounced
    KillPowerWaits
CHECK_DEADLOCK FALSE
