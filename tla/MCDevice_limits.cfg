SPECIFICATION HistSpec
CONSTANTS
    onbattdelay = 1
    maxtime = 8
    percent = 1
    runtime = 1
    annoydelay = 1
    annoy = 1
    nologinType = "PERCENT"
    nologin_time = 1
    killdelay = 0
    kill_on_powerfail = FALSE
    terminate_on_powerfail = FALSE
    Slave = FALSE
    ShareSlave = FALSE
    UPS_Cap = {"BATTLEV", "RUNTIM"}
    SelfTestLimit = 3
    ShutTimer = 2
    ReplaceGrace = 0
    ChangemePeriod = 1
    ChangemeMax = 1
    FileWrites = {TRUE}
    AgeCap = 9
    CumCap = 0
    polltime = 3
    datatime = 0
    stattime = 0
    Inputs = {"onbatt"}
    Always = {"battpresent"}
    Charges = {1, 2}
    Lefts = {1, 2}
    Lapses = {"partial"}
    ReadSecs = {1}
    Watched = {"onbatt", "charge", "runtime"}
    HistCap = 17
    Readings <- MCReadings
INVARIANTS
    ShutdownInTime
