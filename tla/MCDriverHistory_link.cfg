SPECIFICATION HistSpec
CONSTANTS
    onbattdelay = 0
    maxtime = 0
    percent = 1
    runtime = 1
    annoydelay = 0
    annoy = 0
    nologinType = "NEVER"
    nologin_time = 0
    killdelay = 0
    kill_on_powerfail = FALSE
    terminate_on_powerfail = FALSE
    Slave = FALSE
    ShareSlave = FALSE
    UPS_Cap = {"BATTLEV"}
    SelfTestLimit = 0
    ShutTimer = 0
    ReplaceGrace = 0
    ChangemePeriod = 0
    ChangemeMax = 1
    FileWrites = {TRUE}
    AgeCap = 1
    CumCap = 0
    polltime = 2
    datatime = 0
    stattime = 0
    ReadSecs = {0, 1}
    Lapses = {"partial", "stale", "commlost"}
    STATUS_FAIL_THRESHOLD = 2
    VOLATILE_STALE_RECOVERY_SECS = 6
    Links = {"good", "stuck", "down"}
    Noise = FALSE
    ClockCap = 12
    SelfTests = {FALSE}
    Inputs = {"onbatt"}
    Charges = {2}
    Readings <- MCReadings
INVARIANTS
    NoticedInTime
    LostClears
    StuckRecovers
