SPECIFICATION DriverSpec
CONSTANTS
    onbattdelay = 0
    maxtime = 1
    percent = 2
    runtime = 1
    annoydelay = 0
    annoy = 0
    nologinType = "NEVER"
    nologin_time = 0
    killdelay = 0
    kill_on_powerfail = FALSE
    terminate_on_powerfail = FALSE
    Slave = FALSE
    ShareSlave = FALSE
    UPS_Cap = {"BATTLEV"}
    SelfTestLimit = 1
    ShutTimer = 0
    ReplaceGrace = 0
    ChangemePeriod = 0
    ChangemeMax = 1
    FileWrites = {TRUE}
    AgeCap = 2
    CumCap = 0
    polltime = 1
    datatime = 0
    stattime = 0
    ReadSecs = {0}
    Lapses = {"partial", "stale", "commlost"}
    STATUS_FAIL_THRESHOLD = 1
    VOLATILE_STALE_RECOVERY_SECS = 0
    Links = {"good"}
    Noise = TRUE
    ClockCap = 0
    SelfTests = {TRUE, FALSE}
    Inputs = {"onbatt", "calibration"}
    Charges = {2}
    Readings <- MCReadings
INVARIANTS
    CacheMatches
PROPERTIES
    ImplementsLoop
