# A TLA+ model of apcupsd with the hardened MODBUS driver

This directory holds a verification project for the daemon under `src/src`: TLA+
modules of its parts, TLC configurations that check them on small instances, and
TLAPS proofs of what matters most for every instance. `PROJECT.json` lists the
components, the runs, a mutant for every property, the source lines behind every
definition, the hazards the properties are aimed at and the theorems.

## 1. The system

apcupsd watches an uninterruptible power supply (UPS) and shuts the machine down in
an orderly way before the battery is empty. This fork hardens the MODBUS driver
against a USB gateway that loses, delays and repeats responses.

| part | source | state it keeps | operations |
|---|---|---|---|
| power-event state machine | `action.c` | status word, previous status, a dozen time stamps, self-test flag, replace-battery counter, nologin flag; the files nologin and powerfail | `do_action()` with its seven cases, `do_shutdown()`, `generate_event()` |
| device loop | `device.c` | wait time | `do_device()`: do_action, fillUPS, do_action, do_reports, check_state, forever; `initiate_hibernate()`; `open_ups()` |
| MODBUS driver | `drivers/modbus/modbus.cpp` | three cached register blocks with validity, failure counter, time of the last clean read, last transfer reason | `check_state()`, `read_volatile_data()`, `entry_point()`, capability probe, static data |
| MODBUS transactions | `drivers/modbus/ModbusComm.cpp` | ring of recently accepted responses | `SendAndWait()` with retries, time budget and response filters |
| USB and serial transports | `ModbusUsbComm.cpp`, `ModbusRs232Comm.cpp` | port, watchdog deadline and thread | `Open`, `Close`, `WaitIdle`, `ModbusTx`, `ModbusRx`, `WatchdogThreadMain` |
| driver table and calls | `drivers/drivers.c`, `include/drivers.h`, `device.c` | the attached driver | `attach_driver()`, and the order Open, setup, reads, checks, kill, Close |
| simple signalling driver | `drivers/dumb` | the modem lines, in and out | reads the lines, kills by a line |
| smart serial driver | `drivers/apcsmart` | the serial line, mode of the link check | `smart_poll()`, `getline()`, `UPSlinkCheck()`, static and volatile reads, kill |
| USB HID driver | `drivers/usb` on Linux, BSD and libusb | handle, last value of every item, throttle of the polls | polls, interrupt reports, `link_check()`, kill |
| network (slave) driver | `drivers/net/net.c` | last text of the master, loss counter, pause | asks the master, shuts down with it or without it |
| PCNET driver | `drivers/pcnet` | newest reboots and uptime, time of the last broadcast | takes signed broadcasts, kill by a web page |
| SNMP driver | `drivers/snmplite` | MIB strategy, request id, error count | probe, polls, self test, kill; the BER coding of `asn.cpp` |
| test driver | `drivers/test` | none | a UPS that is always there |
| start of the daemon | `apcupsd.c`, `options.c`, `lib/apcconfig.c` | options, configuration, pid file | `main()`, `parse_options()`, `check_for_config()` |
| lock file | `lib/apclock.c` | the file | create, detect stale, delete |
| end of the daemon | `apcupsd.c`, `lib/apcsignal.c` | `shutdown_requested`, `device_thread_stopped`, lock and pid file | signal thread, `apcupsd_terminate()` |
| UPSINFO and its lock | `lib/newups.c` | the shared record, a recursive mutex | `write_lock`, `attach_ups`, `destroy_ups` |
| network information server | `apcnis.c`, `lib/apcstatus.c`, `lib/apcevents.c`, `lib/apclibnis.c` | status buffer and its mutex, one thread per client, the event file | `status` and `events` requests, `trim_eventfile()` |
| its clients | `lib/statmgr.cpp`, `apcaccess.c`, `cgi/upsfetch.c` | a connection, kept or of one question | `GetStatus`, `GetEvents`, `fetch_data` |
| programming of a smart UPS | `smarteeprom.c` and `apctest` | settings in the UPS, each a ring of values | `change_ups_eeprom_item()` |
| apctest | `apctest.c` | what it told the user | self tests, calibrations, settings, kill power test, guess of the cable |
| HID parser, CGI pages, smtp, Windows service and tray, support library | `libusbhid`, `cgi`, `smtp.c`, `win32`, `lib` | none, or a screen | parsing, formatting, user interface |

How they interact. One thread, the process's first, runs the device loop, the state
machine and the driver; it talks to the UPS with blocking transfers, each guarded by a
watchdog thread that shares one unlocked deadline with it. A second thread waits for
SIGTERM and tears the daemon down after a handshake by two flags. Further threads
serve network clients from UPSINFO under its lock. The driver writes UPSINFO, also
when `do_action()` asks it a question in the middle of a pass.

What is hard in it: protocols whose answers do not name their question (MODBUS
responses, the lines of a smart UPS, the values of an EEPROM cycle); three caches of the
same fact, the on-battery bit (the UPS, the register block, UPSINFO), read and written at
different times; a status word in which the driver, a master and the daemon own
different bits; timers started in one state and looked at in another; transfers that
ignore their timeouts; broadcasts out of order; a UPS that goes away at any call of its
driver; a teardown from one thread of what another one uses; a lock file that is read,
judged and removed in separate steps. The full list, each at its line, is `hazards` in
`PROJECT.json`.

What makes each part correct:

- state machine: a lasting outage is announced and a lasting exhaustion of the battery
  shuts the machine down in bounded time; a glitch does not; the script runs once; the
  power is killed only afterwards, and again if need be;
- driver: UPSINFO follows the UPS over a connection that comes and goes; the device
  loop can rely on a simple contract;
- transactions: the value returned is the value asked for; every call ends, unless the
  serial line was hung up;
- transports: a hung transfer is interrupted; nobody is interrupted after `Close`;
- the other drivers: a lost UPS is waited for and announced at most once, and an announced
  loss ends with the announcement of its end; bits of the daemon survive; the status shown
  is one the UPS sent, in answer to the question for it, and never an older one; no line
  that kills the power is left set;
- slave: it shuts down with its master, or when it is on battery and the master is silent,
  and for no other reason;
- start and lock file: one program has the UPS, whatever crashed before;
- information server and clients: an answer taken as complete is one, of one moment; the
  tray shows no state but that of a reading, or an error;
- apctest and EEPROM: what the user is told is so in the UPS;
- termination: the process ends, and nothing is used after it was freed.

## 2. The modules

    Action            the state machine of action.c
      DeviceLoop      do_device() around it, over any driver that keeps the contract
        DeviceHistory   observers and properties            MCDevice
          DeviceProofs
        ModbusDriver    the MODBUS driver in the loop       MCModbusDriver
          DriverHistory   observers and properties          MCDriverHistory
            DriverProofs
    ModbusComm        one MODBUS transaction at a time      MCModbusComm
      ModbusProofs
    UsbWatchdog       USB transfers and the watchdog thread MCUsbWatchdog
      WatchdogProofs
    Shutdown          the end of the daemon                 MCShutdown
      ShutdownProofs
    UpsDriver         the calls of a driver by the daemon
      DumbDriver, TestDriver, NetDriver, PcnetDriver, SnmpDriver, SmartDriver, UsbDriver
        Drivers         all of them under the daemon        MCDrivers
          DriversProofs
    LinkReport        abstract: what communication events tell
    Startup           main(), configuration, lock file
    Nis               the information server and its clients
      NisProofs
    Asn               the coding of SNMP messages
    Eeprom            programming of a smart UPS
    Apctest           the menus of apctest
      ProgramsProofs    of Startup, Eeprom and Apctest
      Programs          the five side by side               MCPrograms

A `...Proofs` module extends the module it is indented under and is read by the prover only.

**Action, DeviceLoop.** `Status` is the set of bits set in the status word; `age[t]` is
the time since stamp `t` was taken, saturating at `AgeCap` (the code compares
differences only). `pc` says where in the loop the thread is: each call of `do_action()`
is an `Enter` step (first call, replace-battery alarm, remote shutdown, battery events,
low-battery timer) and the step of one case (`OnMains`, `PowerFailure`, `SelfTestRuns`,
`OnBattery...`, `MainsBack`, `Calibration`). `events` holds the events generated in the
current pass. `FileWrites` says whether files can be made: without, `powerfail` is missing,
and `ProhibitLogins` sets the flag over a nologin file that is not there, as the code does. The driver is the contract: `fillUPS` may report any member of `Readings`
or leave UPSINFO as it is, and may take any time of `ReadSecs`; `Lapses` adds reads of
which only a part succeeds, a self-test question answered from stale data, and a
connection declared lost. The time literals of the code (40 s self test, 5 s shutdown
timers, 10 minutes and 9 hours of the replace-battery alarm) are constants. Left out:
logging, `num_xfers`, the process ids of scripts, `requested_logoff`; the `EMERGENCY`
event and `powerfail(3)`, which no caller reaches; the branch of
`initiate_hibernate()` for simple signalling UPSes; a share-master's sleep, which
changes no state.

**ModbusDriver.** The UPS (`ups`) and the connection (`link`) change at any time while
the device thread reads or polls. `blockA` and `blockC` hold what was last fetched,
`valid` which blocks are valid. `read_volatile_data` fetches any subset the link allows,
applies it and runs the recovery; the polls of `check_state()` read the UPS itself;
`entry_point` copies the cached blocks into UPSINFO in the middle of `do_action()`.
Online is the negation of on battery (the register's third value, neither, is not
modelled), all capabilities were found by the probe, and the first read succeeded. The
events COMMFAILURE and COMMOK coincide with the changes of the commlost bit.

**ModbusComm.** A frame is its function code, size, content and kind (good, exception,
garbled) with the delay after which it arrives; frames carry whether they answer the
call in progress, which the code cannot see. The UPS gateway answers a request with an
*emission*, a set of delays: none is a lost frame, two a repeated one. Bytes, addresses
and the CRC algorithm are abstracted to the kind; USB frames have no CRC (the transport
fabricates it), so garbled there means a report the transport rejects. Reports that are
not MODBUS do not move the idle target and are stutters. On the serial line the
characters of a frame may come one by one, each within the gap that would end it:
`RxFrame` takes any time of `Trickles` after the first of them, past the response timeout
too, and what comes in that time without a gap is swallowed by the frame. Only the
buffer of `MODBUS_MAX_FRAME_SZ` characters ends it. If the line is hung up (`RxHangsUp`,
a value of `Faults`), `read()` returns nothing after each `select()`, and the call stays
in `ReadsNothing` for good.

**UsbWatchdog.** The steps of the I/O thread around a transfer (arm, start, return,
disarm) interleave with the watchdog's two steps (read the deadline, signal). A transfer
may hang: it then ends only by data or by a signal. A signal outside a transfer is lost.

**Shutdown.** Both threads may run `apcupsd_terminate()`. The flags are volatile and not
atomic: a store becomes visible to the other thread some time later (`storeOf`), and by
the next lock operation at the latest. A call of the driver takes at most `MaxCall`,
or, with `MayWedge`, any time.

**UpsDriver, Drivers.** `phase` is the call of the driver that comes next: `attach_driver`,
`open_ups()` with its retries, setup and capabilities, then fill, act, check in a circle,
`initiate_hibernate()`, kill and Close. `truth` is what the UPS would say of itself and
`link` the connection; `World` changes them between any two steps. `do_action()` appears
only by the bits of the status word it owns (its own behaviour is `DeviceLoop`). `told`
and `news` record the communication events. `Status` is a set of bits as in `Action`.
`Drivers` takes the union of the seven next-state relations; `attach_driver` picks one.

- `DumbDriver` keeps the modem lines as two sets and the six families of cables as the
  code's `switch` has them; the kernel raises DTR and RTS at the open.
- `NetDriver`: a question is a connection of its own, answered by the master's text, by
  an empty text (the master ends while it is asked) or not at all. `net` has the cache of
  a poll, the pause after a failure and the loss counter; `said` and `vain` are history.
- `PcnetDriver`: `packets` are broadcasts the network delivers in any order, any number of
  times or never; a stamp stands for the pair of reboots and uptime, a flag for the hash.
- `SnmpDriver`: answers that come late stay in `late`, with the request id they carry.
- `SmartDriver`: `wire` is the stream of lines and alert characters, `smart` the stack of
  the call in progress. A line has the question it answers, which the code cannot see.
  `getline()` may give up within a line: `CutTo` is what its first characters and the end of
  the answer before, still in the buffer, are taken for, and the `Rest` stays on the wire.
  `Garbled` are the status bytes such an answer may be read as.
- `UsbDriver`: the polls, the reports and the three platforms' ways to notice a lost
  device. `usb.last` are the values by which reports are ignored. A poll reads the items
  one after the other, each of another moment, and `CI_STATUS`, `CI_Discharging` and
  `CI_ACPresent` all set the bits of mains and battery: in a poll in the order of the table, in a
  report in that of the capabilities. `Offers` are
  the sets of items a UPS may have; `CI_ACPresent` is not used beside `CI_Discharging`.

**LinkReport** is the abstract specification of communication events: a failure is
announced at most once per loss; while it is announced the commlost bit stays, and only
CMDCOMMOK ends that; a loss nobody was told of may end in silence. The refinement mapping
is `lost` for the commlost bit, and `told` and `news` for themselves. It is a safety
specification: that CMDCOMMOK comes in the end is not part of it, since a UPS need not come
back and a call of a driver need not end.

**Startup.** Every process walks through `main()`: command line, configuration, stale check
(open, read, judge, unlink as single steps), creation, writing of the process id, pid
file, run, clean-up. It may crash before each. A configuration is a sequence of
directives; of values only what decides about cable, mode and lock path is kept. An
earlier boot may have left a lock file.

**Nis.** The accept loop, one thread per connection (`handle_client()` with the status
buffer under its mutex, `output_status()` reading UPSINFO under the lock, the events of
the file), the device thread that writes readings and events or trims the file, and the
clients with their own program counters. A connection is two queues of bounded length, so
a sender blocks; either side may close. A reading is its status flags and the last transfer;
the lines of an answer carry them, and `GetSummary` is the word the tray makes of its table
of lines (`client[k].got`), with the SELFTEST that overrides the others. An answer cut by
the end of the daemon counts as "cut" where `StatMgr` takes it for a whole one.

**Asn** keeps the two passes of `Marshal()`, long and short lengths, two's complement and
the sub-identifiers of object ids, over octets of `Base` values. A message may be cut
before it is read. It uses recursive operators, so only TLC works on it.

**Eeprom** has the rings of values, one question at a time over a line that loses or
delays answers. **Apctest** has one action per menu function; commands and answers fail
before or after the UPS obeyed, and tests end by themselves. The program sees only the
UPS's register of results; `said` is the message on the screen and `result` the line printed after it.

**Programs** runs one of the last five parts in a behaviour; they share no state. Each has
a specification of its own too (`StartupSpec`, `NisSpec`, `TestSpec`, `EepromSpec`), of which
its theorems speak.

## 3. The runs

| run | what it checks |
|---|---|
| `device_outage` | failures, self tests and low-battery bits in every order: `LowBatteryDebounced`, `ShutdownInTime`, `AnnouncedInTime`; then the shutdown with files that may not be written: `KillPowerWaits`, `KillPowerRepeats` |
| `device_limits` | `ShutdownInTime` for the limits on charge, runtime and time, with readings that glitch |
| `device_slave` | a slave told to shut down at any time, battery events, logins forbidden at once, files that may not be written, all lapses of the driver: `BatteryEventsMatch`, `ShutdownRunsScript`, `LoginsComeBack` |
| `driver_contract` | any subset of the block reads and any poll may fail: `CacheMatches`, and `ImplementsLoop`, the refinement of `DeviceLoop` |
| `driver_link` | a link that goes down, comes back or gets stuck: `NoticedInTime`, `LostClears`, `StuckRecovers` |
| `comm_usb` | lost, delayed and repeated answers: `ResponseIsOwn`, `SendsWhenQuiet` |
| `comm_rs232` | faults, garbage, exceptions, bursts, characters that trickle in and a line that is hung up: `CallIsBounded`, `RetransmitsAfterTimeout`, and the types the proofs start from |
| `wd_hang` | hanging transfers: `TransferEnds`, `RxIsBounded` (and no time left below zero), `NoSignalAfterClose` |
| `shutdown_handshake` | SIGTERM in any cycle, wedged driver calls: `LoopKeepsComm`, `TerminationEnds` |
| `drivers` | all other drivers: `DaemonBitsKept`, `LossIsSurvived` and the refinement `ImplementsLinkReport` for each; `KillLineReleased` (dumb), `SlaveShutdownJustified` and `SilentMasterEndsSlave` (net), `StatusNeverOlder` (PCNET), `AnswersAreCurrent` (SNMP), `StatusIsStatus` (smart), `IgnoredReportsAreKnown` (USB) |
| `programs` | `LockIsExclusive` (start), `AnswersAreTrue` and `SummaryIsTrue` (information server and tray), `RoundTrip` (ASN), `SettingEndsWell` (EEPROM), `ReportsAreTrue` (apctest) |
| `shutdown_startup` | an expected violation, see section 6 |

Bounds, and why they suffice. Times are scaled down to the smallest values that keep
their order and let a poll fall before, on and after each limit (for instance
`SelfTestLimit` = 4 between `ShutTimer` = 2 and the caps, reads of 0 and 1 second).
Ages saturate above every limit they are compared with. The deadlines of the timeliness
properties are sums of named parts: `Gap` is the time between two passes when polling
fast; `AnnounceDeadline` is the later of `onbattdelay` and the self-test limit, plus a
gap and a read; `Settled` is the time in which `STATUS_FAIL_THRESHOLD` polls fail and one
more succeeds; `StuckRecovers` allows the recovery period, one poll period and a gap.
In `ModbusComm` a unit is 500 ms and the timeouts of the USB run are those of the code;
the ring holds three responses instead of six. The re-emissions in that run come while
the ring still remembers the response (up to three units later), and first answers
within the response timeout; outside these limits the protocol cannot tell an old
response from a new one. `result.late` marks responses accepted near the deadline, where
the code gives up the filter on purpose. `UsbWatchdog` uses the code's timeouts in units
of 100 ms. `driver_link` assumes that a poll over a working link succeeds (`Noise` is
FALSE); section 6 says when the layer below breaks that. `shutdown_handshake` lets SIGTERM
come only in a cycle; `shutdown_startup` shows why.

In `drivers` (1.9 million states) counters are as small as their roles allow: one failed
open within the grace period (`GraceOpens`) and one after it; the loss counter of the
slave saturates above the five at which it acts (`LossCap`); two broadcasts of the card
and one forged one (`MaxStamp`), enough for an old, a new and a repeated one; three
request ids with one late answer (`ReqIds`, `MaxLate`), so that an id is not reused while
an answer with it is under way; two lines on the wire (`MaxWire`), one answer late by a
whole question; one retry where the code has two or five (`PollRetries`, `StatusRetries`), and
the second question in vain of `UPSlinkCheck()` is the last before the UPS counts as lost
(`LinkPolls`); one garbled status (`Garbled`: the first digit of a status before the "M" of "SM"); a
Back-UPS, a Smart-UPS and a UPS without `CI_Discharging` (`Offers`). All eight values of
UPSTYPE are configured, one of which was not built; a master is well, is shutting down or has lost its own UPS.

In `programs` (1.5 million states): two daemons and an apctest over one lock file, with
nine configurations and four command lines; two connections, a tray client with two
questions and, while readings are stored, a web client with one, two readings of which one shows a self test over a
lost UPS, a file of events that is trimmed while it is read
(`NLE` below `EventMax`, `MaxLog` lines added) and a connection that holds one message
(`Window`), so that every sender blocks at least once; octets of eight values, with
objects around every width of lengths and integers and sequences two deep; two faults
on the line of an EEPROM, which are enough to bring it out of step and back; three
failing commands in apctest, and two polls where the code waits for ten or forty.
Connections and daemons are symmetric; the run has invariants only.

Fairness. `UsbWatchdog` assumes that both threads are scheduled, that time passes, and
that a transfer that honours its timeout returns; nothing is assumed to arrive.
`Shutdown` assumes scheduling, time and the visibility of stores; a cycle need not end.
The runs `drivers` and `programs` check safety and need none. `CHECK_DEADLOCK` is off
where the process may end (`device_outage`, `Shutdown`, `Drivers`, `Programs`).

## 4. The proofs

Each theorem holds for all values of the constants that satisfy the named assumptions of
its module (types, non-empty sets, caps that exceed what they are compared with) and the
hypothesis in the last column. The runs check the same properties on small instances.

| theorem | states | hypothesis |
|---|---|---|
| `DeviceProofs!TypeCorrect` | the types of the device loop | |
| `DeviceProofs!LowBatteryIsDebounced` | `LowBatteryDebounced` | `HistCap >= ShutTimer` |
| `DeviceProofs!LoginsAlwaysComeBack` | `LoginsComeBack` | |
| `DeviceProofs!ScriptRunsOnce` | `ShutdownRunsScript` | `HibernateNeverAborts` |
| `DeviceProofs!KillPowerAlwaysWaits` | `KillPowerWaits` | `HistCap >= killdelay` |
| `DeviceProofs!BatteryEventsAlwaysMatch` | `BatteryEventsMatch` | |
| `DeviceProofs!AlwaysAnnouncedInTime` | `AnnouncedInTime` | `PlainReadings`, `ShutTimer > 0` |
| `DeviceProofs!ShutdownAlwaysInTime` | `ShutdownInTime` | `PlainReadings`, `ShutTimer > 0` |
| `DeviceProofs!KillPowerAlwaysRepeats` | `KillPowerRepeats` | `PlainReadings`, `ShutTimer > 0` |
| `DriverProofs!CacheAlwaysMatches` | `CacheMatches` | |
| `DriverProofs!DriverImplementsLoop` | `ImplementsLoop` (refinement) | |
| `DriverProofs!LostAlwaysClears` | `LostClears` | `~Noise` |
| `DriverProofs!AlwaysNoticedInTime` | `NoticedInTime` | `~Noise` |
| `DriverProofs!StuckAlwaysRecovers` | `StuckRecovers` | `RecoveryIsLong` |
| `ModbusProofs!CommTypeCorrect` | the types of the transactions | |
| `ModbusProofs!CallAlwaysBounded` | `CallIsBounded` | |
| `ModbusProofs!AlwaysSendsWhenQuiet` | `SendsWhenQuiet` | |
| `ModbusProofs!AlwaysRetransmitsAfterTimeout` | `RetransmitsAfterTimeout` | `Transport = "rs232"` |
| `ModbusProofs!ResponseAlwaysOwn` | `ResponseIsOwn` | `GatewayInTime` |
| `WatchdogProofs!ClosedIsQuiet` | `NoSignalAfterClose` | |
| `WatchdogProofs!RxAlwaysBounded` | `RxIsBounded` | |
| `ShutdownProofs!LoopAlwaysKeepsComm` | `LoopKeepsComm` | `HandshakeFits` |
| `DriversProofs!DaemonBitsAlwaysKept` | `DaemonBitsKept`, all drivers | |
| `DriversProofs!LossAlwaysSurvived` | `LossIsSurvived`, all drivers | |
| `DriversProofs!LinkReportImplemented` | `ImplementsLinkReport` (refinement), all drivers | |
| `DriversProofs!LinesAlwaysReleased` | `KillLineReleased` | |
| `DriversProofs!SlaveAlwaysJustified` | `SlaveShutdownJustified` | |
| `DriversProofs!SilentMasterAlwaysEnds` | `SilentMasterEndsSlave` | |
| `DriversProofs!StatusAlwaysNewer` | `StatusNeverOlder` | |
| `DriversProofs!AnswersAlwaysCurrent` | `AnswersAreCurrent` | |
| `DriversProofs!IgnoredAlwaysKnown` | `IgnoredReportsAreKnown` | |
| `DriversProofs!StatusAlwaysStatus` | `StatusIsStatus` | `OneLate` |
| `NisProofs!AnswersAlwaysTrue` | `AnswersAreTrue` | |
| `ProgramsProofs!LockAlwaysExclusive` | `LockIsExclusive` | |
| `ProgramsProofs!ReportsAlwaysTrue` | `ReportsAreTrue` | |
| `ProgramsProofs!SettingAlwaysEndsWell` | `SettingEndsWell` | `RingsTurn` |

The hypotheses. `HistCap` bounds an observer's clock and must reach the time it is compared
with. `HibernateNeverAborts` excludes `--kill-on-powerfail` on a disk that takes no
powerfail file, where the daemon ends before the script (section 6). `PlainReadings` (defined in `DeviceProofs`): no reading reports a
calibration or a master's shutdown. It is needed: after a calibration that ends on battery
the loop does not poll fast, and with a long POLLTIME `ShutdownInTime` fails (section 6).
The other readings are free, and both runs of the property satisfy it. The code's
`ShutTimer` is 5. `~Noise` is the
promise of the layer below: a poll over a working connection succeeds. `RecoveryIsLong`:
the recovery time is at least the five seconds of a wait while the UPS is lost, for such a
wait may still run when the connection gets stuck (the code has 180). Over USB a response
of an unknown length ends an attempt early, so `RetransmitsAfterTimeout` is a
property of the serial line. `GatewayInTime` (defined in `ModbusProofs`): a response that arrives
at all first does so within the response timeout; repetitions come before the code stops
filtering (80% of the budget), at most one interframe time after that timeout, and before
as many interframe times have passed as the ring has slots; reads of the device do not fail, a frame comes
as a whole (no trickle and no hang-up), there are no exceptions, and garbage only on the serial line, where it does not end the attempt. A request is told from the next
only by the ring, so without each of these some old response passes for a new one. With the
code's values (in units of 500 ms: interframe 1, response 2, budget 6, six slots) it allows a
repetition up to 1.5 s after the request; the emissions of `comm_usb` satisfy it. `OneLate` (in
`DriversProofs`): at most one answer is late when a question is asked (`MaxWire` <= 2, as in
the run); with two, section 6 says what happens. `HandshakeFits`: SIGTERM comes in a cycle and a driver call
is shorter than the wait of the terminating thread; without the first part
`shutdown_startup` refutes the property. `RingsTurn` (defined in `ProgramsProofs`): no value of
a setting reads as "OK" or as silence, and equal values of a ring are neighbours, as the
comment at `smarteeprom.c:400` has it ("twice in a row, i.e. H M L L"); else the loop would take
the second place of the old value for the end of the ring. Among the assumptions,
`ReadsAssumption` says that a read has a longest time, and the names of drivers and processes
are told from "none" and "empty".

The inductive invariants, and why they are needed:

- *Debouncing.* The property speaks of how long the bit was seen (`lowFor`), the code
  compares the age of a stamp. `DebounceInv` ties them: once the rising edge was noticed,
  the age of `start_shut_lbatt` is at most `lowFor`, and while it was not, the previous
  status lacks the bit, so the next pass will stamp. Both are needed since a poll can
  raise the bit between passes.
- *Shutdown of the device loop.* Every step is first shown to have one of three effects on
  the status, the events and the stamp (it keeps up, goes down, or does neither:
  `LoopEffect`). `PassInv` says that before the switch a pass has run none of the scripts,
  so an event found after a case was generated by it; `ShutAgeInv` that the age
  of `ShutDown` does not exceed the time since the script.
- *Timeliness of the device loop.* `LateInv` bounds the clock of a watched condition, at
  every place of the loop, by the stamp the code compares and by the time since the last
  pass. `Slack` is how long ago that may have been (nothing, one read, or a poll and a read),
  `Before` how long before it the one before was. `PollsFast`: on battery the loop
  polls every second, so that `Slack` is that short. Until the announcement a clock is within
  `last_time_on_line` and, in a supposed self test, within `SelfTest` (`SinceOnLine`,
  `SinceTest`, `Unsaid`); the announcement stamps `last_time_on_line` anew, which is why the clock may then
  be ahead of it by all that was waited before (`SinceSaid`). A limit's own timer starts with
  the first pass that looks at it, hence up to `AnnounceDeadline` late (`Crossed`), that of a low
  battery in the pass that sees it, announced or not (`BattLowFor`). A step either resets
  the clock, or passes the same time to clock, stamps and slack (`Elapses`), or is the switch,
  which uses the slack up.
- *Logins.* `LoginsInv`: until the system is shut down, logins count as forbidden only while
  the previous status has the onbatt bit, so that the return of power is still a change to be
  dealt with, and no remote shutdown is pending that would cut the pass short. The nologin
  file (`FileKept`) appears only in the step that sets the flag.
- *Battery events.* `BatteryInv` says what the last event agrees with at each place of the
  pass: the current status inside the switch, the previous one elsewhere, and the two
  have the same bit from a read to its check.
- *The cache.* `CacheMatches` is inductive with the types: a read installs what it
  fetched, the question of `do_action()` re-installs the same blocks, a poll only touches
  onbatt and commlost, and `do_action()` only drops bits.
- *The refinement of the loop* maps the variables to themselves. Each step of the driver
  is a step of `DeviceLoop` or changes none of its variables; the one that needs
  `CacheMatches` is the self-test question, which overwrites the status word from the
  cache: only onbatt can go and only replacebatt can come back.
- *Timeliness of the MODBUS driver.* A clock alone is not inductive. `Account` is what the
  clock may have reached: as many poll periods as polls have failed (`Polls`), and one read
  if the thread is between a read and its poll (`Since`). `LostInv` and `WrongInv` say the
  clocks never run ahead of it; it never exceeds `Settled`. `StuckInv` bounds the clock
  of a stuck connection by `sinceOk`, the code's own, and in a wait by what is left of it.
- *Bounded calls.* `TimeInv` accounts for the time of the attempts used up (`retries` says
  how many) and of the current one: its idle wait is at most the wait plus one interframe
  time, its receive loop at most the budget plus one response timeout and the time in which
  the characters of a full buffer trickle in. A call that is `hung` is exempt, and only that.
- *The response.* `OwnInv`: a good frame in flight is harmless in one of three ways. Its
  content is in the ring and stays there until it has arrived (`Covered`: `Turns` is the number of
  responses that may still be stored before its slot, each of which costs an interframe time
  of silence); or the wait for silence drops it (`Drained`); or it belongs to the attempt
  in progress, and then its content is in the ring or its first copy comes before it
  (`Current`). `SameInv`: the uncovered ones of an attempt have one content, so that the one that is
  accepted covers the others.
- *Silence.* `QuietInv`: what is left of the idle wait and the silence so far always add up
  to at least the interframe time, for a frame that arrives moves the target.
- *The watchdog.* `WatchdogRuns`: only `Close()` lets the thread go, and it joins it.
  `RxClock` says where the time of a receive is spent: until the deadline its clock and the
  time left add up; afterwards it is the watchdog's nap that is left.
- *The handshake.* `ShutdownInv` follows the two flags through their delayed stores:
  `device_thread_stopped` is clear, and seen to be, in every cycle; the time the
  terminating thread has waited was waited after the request could be seen, so within one
  cycle it is at most the time of that cycle's driver call.
- *The drivers.* `DriversInv` has one part per driver, each about the time until a driver
  is attached and about its own: for the slave, how the loss counter relates to what it
  said and to the onbatt bit (`LossCounts`); for SNMP, that no answer under way has the
  number of the next request; for USB, that after every fill the status agrees with one of the last values
  that tell mains from battery (`InStep`, with all of them if they agree with each other) unless
  a poll was missed; for the smart driver, which call is in
  progress in which phase. `Behaves` is the step contract (communication events as in
  `LinkReport`, daemon bits kept, monitoring goes on) that each driver's steps satisfy.
- *Announced losses.* `ToldLost`: a failure that was announced has left the commlost bit. Each
  driver's part says where in its calls this is so; for the slave it needs that who does not know
  yet what it asked for has no connection (`UnknownIsLost`), and that a fresh answer has no
  error.
- *The status.* `WireInv` bounds the lines on the wire (`OneLine` once a call is done) and
  says what they are while the status is to be asked for: `UPSlinkCheck()` has sent "Y" until
  it got an answer to it, so behind such an answer no line of an earlier question remains
  (`NoneBehind`), and after the check none at all (`NoneWrong`). The rest of a line that was cut
  counts as cut, whatever it is read for. `OriginInv` carries it to what is stored. "Q" is the first question of its call, or the check would come too early.
- *The answers.* `ServerInv` has the locks (who is in `Buffering` holds the mutex, who
  looks at UPSINFO its lock) and what they protect: an empty buffer, or the lines of the current
  reading. `FlowInv` joins the ends of a connection: what the client has read, followed by what is under
  way, is a start of the right answer, exactly as long as the handler's counter says
  (`Sending`), or the whole of it and the end mark (`Whole`). For the events `Fetched` and
  `Picked` follow the ring of `output_events()`: counted backwards from its index it holds the
  last lines read, forwards the lines that are still to be sent. The right answer is one of any
  moment since the question, so the device thread, which only adds newer ones, cannot spoil it
  (`Onward`); `SocksInv` says that no two clients own a connection.
- *The lock file.* `StartupInv`: whoever is between creation and naming has an empty file,
  whoever holds has one with its name, who judged a file stale judged well, and there is
  one maker per path, unless the path is in `stolen`. For any number of processes.
- *apctest.* `TestInv`: where the program is in each function, what the register of a UPS in
  a test can say, hence that a final result ends the test, that after a setting was reported nothing else is coming; `BitsInv`: what
  the tests of a simple cable recorded are lines of the cable that is connected, or none.
  `LeastNumber` (a set of numbers has a least element) is taken from the well-foundedness of
  the natural numbers, for the value nearest to a requested one.
- *EEPROM.* `WireInv` says what can be on the line of an item begun with nothing there:
  the values of the item until the UPS was cycled, nothing right after its OK was read and
  only the current value from then on; so what is read twice is in the UPS. `TurnInv`
  counts turns while nothing went wrong: the UPS is as many places further, and all places
  passed were seen not to hold the setting; a value that comes round (`CameBack`) has seen
  them all.

Only model-checked:

- `RoundTrip`: the codec is recursive, and induction over data is beyond the prover.
- `SummaryIsTrue`: the table of the tray keeps lines of earlier answers, of which the
  invariant for `AnswersAreTrue` says nothing.
- `TransferEnds`, `TerminationEnds`: liveness under fairness is beyond the prover.

Neither checked nor proved is that a driver gets back to a UPS that stays: the refinement of
`LinkReport` says how an announced loss ends, and not that it does.

## 5. Not modelled

- MODBUS: the capability probe and the static data at start, `kill_power()`, the
  decoding of single registers. Of the character loop of the serial transport the time and
  the hang-up are modelled, not the bytes: a trickle that mixes two frames is a garbled one.
- Other drivers: units and exponents of HID values and the writes to a USB UPS other than
  the kill; SNMP traps; marshalling into a buffer that is too small; the UPS name and the
  battery date in the EEPROM, written character by character.
- Lines of a smart UPS that are cut by a timeout are modelled in `SmartDriver` only; in `Eeprom`
  and `Apctest` an answer comes whole, late or not at all.
- apctest: functions that only read and print, the alarm tests, the terminal mode.
- UPSINFO's lock is recursive; this is used and not questioned. Of the reports only the
  event log is modelled; nothing in the program reads the status and data files.
- The HID parser, the CGI pages, smtp, the Windows service and the support library:
  pure functions, formatting and user interface without state of the daemon.

`components` in `PROJECT.json` says for each what is left out. The models assume that
`pthread_create()` succeeds and that the clock does not jump. `log_event()` writes its
line in one step, where the code has a write for the date and one for the text.

## 6. Disagreements met while modelling

One is kept as a run that ends in a violation, with the trace as evidence:

- `shutdown_startup`: a SIGTERM during set-up deletes the comm object under
  `do_device()`, since `device_thread_stopped` starts as 1 (`extern.h:34`, `device.c:232`).

Others follow from the modelled code directly and have no run of their own. Where a
property would fail because of one, its definition names the exception.

MODBUS and the daemon:

- `ModbusComm.cpp:245-269`: "we must not spin forever discarding a real, unchanged
  response", yet a prompt response that equals one of the last accepted ones is discarded
  in all three attempts, so reading an unchanged register fails; three such polls and
  the connection counts as lost.
- `ModbusComm.cpp:247-277`: a response that is discarded because its value did not change is not
  remembered anew, so its slot may be overwritten (by the answer to the retransmission, if
  the value changes in between) while a repetition of it is under way; if that comes
  more than a response timeout and an interframe time after its request, the next call
  takes it for its own (outside `GatewayInTime`).
- `modbus.cpp:843`: the self-test question restores the status of the last full read; the
  outage is then noticed, and announced by POWEROUT, a second time (`action.c:441`).
- `apcupsd.c:292`: when `do_device()` returns, `main()` runs `apcupsd_terminate()` too,
  concurrently with the signal thread; both may find `_comm` set and delete it
  (`NeverUsesFreed` covers this as well).
- `modbus.cpp:847`: the transfer reason is taken from the last full read, or from an
  earlier transfer; after a self test the next real outage starts as STARTSELFTEST.
- `ModbusUsbComm.cpp:315`: over USB an exception ("Immediately fatal", `ModbusComm.cpp:202`)
  is never seen by `SendAndWait()` and leads to an immediate retransmission, against the
  comment at `ModbusComm.cpp:160`.
- `ModbusUsbComm.cpp:363`: `WaitIdle()` compares its target, not the time, with "when we
  will give up by"; reads that hang again and again keep it going.
- `ModbusUsbComm.cpp:122-127`: the watchdog may signal a healthy transfer that started
  after it read the deadline, which the comment at 116 excludes.
- `ModbusRs232Comm.cpp:236`: a `read()` of 0 after `select()` (a line that was hung up)
  is logged and tried again at once, without end: the budget is looked at by the caller
  (the exception in `CallIsBounded`). At 220 each character that is read starts the wait for the next
  anew, so characters that trickle in keep `ModbusRx()` past its timeout.
- `action.c:177-199`: `logonfail()` ignores that the nologin file could not be made, and
  `prohibit_logins()` sets the flag all the same: users can log in, and the daemon does
  not try again (`LoginsComeBack` does not promise the contrary).
- `defines.h:405`: `sendsig_terminate()` calls `exit()` right after the signal; the
  signal thread may not get to remove the pid file (`action.c:154`).
- `action.c:618`: an outage that began as a supposed self test ends with MAINSBACK though
  POWEROUT was never generated (`manual.rst:3507`).
- `action.c:637`: a calibration adds the time since the last outage to CUMONBATT
  (`manual.rst:5547`).
- `action.c:437-442`: only a power failure sets fast polling. A calibration that ends while
  on battery goes on as an outage polled every POLLTIME seconds: the announcement and each
  of the limits may be late by that much.
- `action.c:387`: the replace-battery alarm is raised six times ("5 times", line 379).
- `device.c:96`: "Killpower request ignored" ends the daemon before the shutdown script
  if the powerfail file cannot be written under `--kill-on-powerfail`.

Other drivers:

- `smart.c`: `UPSlinkCheck()` takes any "SM" on the wire for the answer to its own "Y". When two
  answers are late, of an earlier "Y" and of a setting, it is content with the first and
  the status is read from the second (with `MaxWire` = 3 `StatusIsStatus` fails).
- `smart.c:198-216`, `320-334`: `getline()` that gives up within a line leaves the characters it
  has over the end of the answer before, not terminated, and `smart_poll()` (156-160) takes this for
  the answer: the "5" of "50" over "SM" is the status "5M", stored as 05 (the exception in
  `StatusIsStatus`); the first "S" of a reason for a transfer over it is taken for "SM" by
  `UPSlinkCheck()`.
- `smart.c:338`: "MUST be called with the UPS write lock held!", which the static reads
  and apctest do not hold: `UPSlinkCheck()` then unlocks a mutex nobody locked.
- `usb.c:804-812`: "If we are not on batteries", but the polls are throttled on batteries.
  A failed read of Discharging clears the on-battery bit. `link_check()` announces the
  return of a UPS whose loss was never announced.
- `usb.c:358-365`: `CI_STATUS` and `CI_ACPresent` set the bits of mains and battery anew after
  `CI_Discharging`. If the power comes back between the two reads of a poll and fails again, the
  report of it repeats the value last seen and is ignored until the next poll (the exception in
  `IgnoredReportsAreKnown`). A UPS with `CI_ACPresent` alone is never seen on battery.
- `linux-usb.c:669`: an `ioctl()` that fails because the device went away again ends the
  daemon, also from the link check (the exception in `LossIsSurvived`).
- `HidUps.cpp`: when there is no UPS collection the report descriptor is disposed of and
  kept; a later `Close()` disposes of it again.
- `net.c:358-365`: "shutdown on the fourth" pass, the code acts on the fifth. A master that
  answers with an empty text at start leaves the slave without capabilities.
- `dumbsetup.c:109-111`: `Close()` leaves the kill lines of a MAM cable as they are
  (the exception in `KillLineReleased`).
- `pcnet.c`: without a password any card with a higher count of reboots keeps the own
  one's broadcasts out; so does a wrap of the uptime until the card reboots.
- `snmplite.cpp:359-370`: the loop over the answers moves on only after valid ones, so the
  rows behind the first invalid one keep their old values.
- `asn.cpp`: an unsigned value of 2^31 or more is written with five octets and refused
  when read; so are an empty string and an empty sequence (`Readable` in `Asn`).
- The killing of the power by RFC 1628 sets three variables and looks at no result.

Programs:

- `apclibnis.c`: `net_recv()` says "Returns -1 on hard end of file", and returns 0, so
  the tray takes an answer cut by the end of the daemon as complete (`SummaryIsTrue` says what
  it then shows); `GetEvents()` leaves its connection open after an error, out of step (both
  exempt in `AnswersAreTrue`).
- `statmgr.cpp:280-285`: on battery after a self test the tray shows SELFTEST, also over
  COMMLOST or SHUTTING DOWN; a slave's own words it does not show.
- `apcnis.c:60`: `status_close()` sends with the status mutex held and no time limit: one
  client that does not read stops the status of all.
- `apcevents.c`: trimming the file races with `log_event()` of another thread.
- `apclock.c`: between the check for a stale lock and its removal another process may have
  made its own (`stolen`); a crash after the creation leaves an empty file that stops all
  later starts; a process id that was used again keeps a stale lock valid. The pid file
  is removed even if it is another's.
- `apcconfig.c` compares `sharenet.type` with a constant of another enumeration; with an
  invalid cable the error exit is taken before the lock path has its file name.
- `reports.c`: the status file is rewound and not truncated.
- `apcexec.c`: the process id of a script is passed by value, so "already running" is
  never found; `clean_threads()` does not cancel the threads of clients.
- `smarteeprom.c`: an answer lost in the middle of a cycle leaves another setting; a late
  answer to an earlier item can be taken for the old value, "remains unchanged".
- `apctest.c:1913`: the self test of a USB UPS "reports the result when the test completes"
  (1884), and says COMPLETED as soon as the register can be read and is not 6, that of a test
  not begun: while the test runs, too. The line printed after it is then "IN PROGRESS".
  Without `CompletedAlone`, the exception in `ReportsAreTrue`, the run `programs` fails here.
- `apctest.c`: a 'D' that is retried after its answer was lost toggles the calibration
  back; the calibration of a USB UPS or a MODBUS one says COMPLETED when the register shows
  no test, without looking whether one began (`apctest.c:2130-2144`);
  `guess()` cannot recognise two of the cables, and an `ioctl()` that fails in `test1()`
  counts as a test without lines; a signal during the kill power test leaves the
  powerfail file behind.

## 7. Plan

All components with state of their own are modelled, and all safety properties but `RoundTrip`
and `SummaryIsTrue` are proved (section 4). What is left, in this order:

1. The parts of the drivers that section 5 lists, beginning with the capability probe and
   `kill_power()` of the MODBUS driver.
2. `SummaryIsTrue`, from an invariant that follows the table of the tray through cut answers;
   `RoundTrip` for single integers and lengths, once the codec is written without recursion.
3. Termination of a transfer and of the daemon from the bounds that are proved
   (`RxAlwaysBounded`, `LoopAlwaysKeepsComm`), for which fairness has to be reasoned about.
