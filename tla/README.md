# Verification of dde-services

`dde-services` is a set of plugins for `deepin-service-manager`, the process
that loads shared objects, puts their objects on D-Bus and calls their
`DSMRegister` and `DSMUnRegister`. This directory holds TLA+ models of the
plugins, TLC configurations that check them on small instances, and TLAPS
proofs of the theorems that matter most. Paths below are relative to
`src/plugin-sdbus/plugin-ipwatchd/` unless they say otherwise.

## Inventory

| Component | State it keeps | Operations | What is hard | What makes it correct |
|---|---|---|---|---|
| ipwatchd, packet analysis (`analyse.c`, `devinfo.c`, `genarp.c`, `service.c`) | the device table with the time of the last handled conflict, the list of conflicts with a countdown each | `ipwd_analyse` for each captured ARP packet; signals `IPConflict`, `IPConflictReslove`; defensive ARPs | packets are judged when analysed, not when sent; addresses, hosts and the wall clock change in between; the loop over the devices is left early | announcements agree with the list, resolutions rest on evidence, the machine does not accuse itself, defences are spaced and come back |
| ipwatchd, threads and requests (`ipwatchd.c`, `plugin.c`) | `mutex`, `h_pcap`, `exit_flag`, `check_context` | the watching loop, `RequestIPConflictCheck`, register, unregister | two threads on one capture handle, an early reply that goes on, a handle that is null, open or closed | exclusion, no use of a dead or half set up handle, an answer that was heard for this request, every request answered |
| ipwatchd, configuration (`config.c`, `devinfo.c`) | `config`, `devices`, which a second start inherits; capture handles opened to look at an interface | reading `/etc/ipwatchd.conf` line by line, filling the device table from the interfaces there are | the order of the lines, what a missing line means, errors after something was stored, interfaces that go away between the listing and the look | a file that is accepted yields the settings and the devices it says, from this file and not from an earlier one |
| ipwatchd, `signal.c` | none | a handler that is never installed | nothing | nothing |
| wallpaper slide show (`src/plugin-qt/wallpaperslideshow/`): `WallpaperLoop` | the images shown, the images there are, their type | the next image, adding one that was shown, a new type | the end of a round falls between two images, the list is emptied and refilled from the file | an image comes back only when the others of its type have been shown |
| wallpaper slide show: `WallpaperScheduler` | the timer, its interval, `stopScheduler`, the time of the last change | setting the interval, stopping, the time-out | starts and stops are posted to the event loop while the flag changes at once; milliseconds cast to int, compared with seconds | the timer ends up as the flag and the interval say, and goes on |
| wallpaper slide show: `SlideshowManager` with `WallpaperLoopConfigManger` | the setting, the current key, the type of the wallpaper, a scheduler and a loop for each key, the file of what was shown | the property and the method that set the setting, wake-up, login, a change of the wallpaper | early returns after something was stored, policies applied to one key only, saves that fail, restarts | the timers that run are those of the setting, loops are of the type of the wallpaper, rotations survive restarts |
| wallpaper slide show: proxies, formats | none of their own | forwarding | nothing | nothing |
| theme manager (`src/plugin-qt/thememanager/thememanager.cpp`) | what it believes to be shown, coordinates, the mode, a timer of a minute, the identifiers of two timers of two seconds | register and unregister, signals of the zone, the setting, the clock and NTP, the timers | signals are handled later than what they tell of, identifiers are overwritten, a failed call is not retried, zones without coordinates | it remembers what is shown, knows where it is, shows the theme of the sun, leaves a theme alone that the user has fixed |
| theme manager, `sunrisesunset.cpp` | none | hours of sunrise and sunset | sentinels for polar day and night, for each of the two events apart, hours on another date | the interval tells day from night |
| demos (`src/demo/`) | | | examples, debug builds only | |
| deepin-service-manager | | loads plugins, runs their bus loops | not in this repository | |

How they interact: the service manager calls `DSMRegister`, which puts a
vtable on the bus and starts the watching thread. D-Bus requests are served
from the thread that runs the bus, and share everything with the watching
thread. `ipwd_analyse` is the callback of `pcap_dispatch` in either thread. The
Qt plugins talk to the appearance daemon and `timedated` over D-Bus and are
driven by their signals and by timers. The slide show runs in one thread: a
timer's time-out calls `autoChangeBg` through the scheduler, which takes an
image from the loop of its key, asks the window manager for the current workspace
and, if the key is of that one, the appearance daemon to show the image, and saves
the loop; the daemon announces every change of the wallpaper, also these. The
theme manager runs in one thread, too: it reads the setting and the clock when a
signal or a timer is handled, and asks the appearance daemon for a theme.

## Modules

    ConflictNotice (abstract)
       |
    ArpAnalyse ----------- ConflictWatch ------- MCConflictWatch
       |    \                   |
       |     ArpAnalyseProofs --+-- ConflictWatchProofs
       |                   \
       |                    `-- IpwatchdProofs
       |                        |
       +------------------ Ipwatchd ------------ MCIpwatchd
                                \__ AddressCheck (abstract)

    CInt ---- IpwdConfig -------------------------------- MCIpwdConfig
      \            \__ IpwdConfigProofs
       \
        WallpaperScheduler, WallpaperLoop -- Slideshow -- MCSlideshow
                                                 \__ SlideshowProofs

    SunriseSunset ----------- ThemeManager -------------- MCThemeManager
                                   \__ ThemeManagerProofs

**ArpAnalyse** is the handler `ipwd_analyse` as one action, `AnalyseHead`, on
the packet at the head of the capture buffer, and the world around it: other
hosts (`SendRemote`, `Rebind`), the local machine (`SendLocal`), the interface
configuration (`Reconfigure`), time (`Tick`) and the wall clock (`ClockStep`).
`record` is the list `ipconflict_dev_info`: a function from the three fields
that identify an entry to its `signal_count`, `NoRecord` for no entry. `age` is
the difference that line 201 computes. `Visited` are the devices that the
second loop acts on: it stops at the first device where a conflict falls within
the defend interval (`LeavesLoop`). `told`, `calm` and `real` are not in the
code: they record what the signals have said, how many packets without a claim
came since, and how much real time has passed since a conflict was handled.
The addresses in `devices.dev` are not kept, as the first loop overwrites them
before the second one reads them. What holds of the list and the signals
wherever the handler is run from is stated here: `ToldIsRecorded`,
`CountIsBacked` and `ImplementsNotice`.

**ConflictWatch** runs the handler from one thread. It states the properties of
the defence.

**ConflictNotice** is what a D-Bus client can rely on: an announcement comes
from a packet in which a foreign card claims the address, a resolution after
enough packets in which it does not. It knows nothing of devices, lists or
intervals. The refinement maps `announced` to `told` and `quiet` to `calm`;
the handler is shown to implement it run from one thread (`watch_hosts`) and
from the two of the plugin (`request_one_device`).

**Ipwatchd** has the two threads. Each has a program counter (`watcher` for
`start_ipwatchd`, `bus` for `ipwd_conflict_check`); a step ends where the other
thread can see it or hold it up: at a lock, an unlock, a look at `exit_flag`, and
at each packet of a dispatch. Because a refused request unlocks twice, the mutex
may fail to keep the threads apart, so their accesses to the check in progress
are steps of their own, too: the watching thread tests `wait_reply` and the
address in `WatcherAnalyse` and stores the card it has in `hand` in
`WatcherStore` (`analyse.c:146-151`); the request replies, frees the card and ends
the check in `BusReply`, `BusClear` and `BusUnlock` (`ipwatchd.c:205-213`). `owner`
is the mutex. It is modelled as glibc has it: unlocking does not ask who holds the
lock, destroying fails while the count of users is not zero, and a destroyed mutex
locks nothing and returns an error that nobody reads.

`handle` is null, raw, open or closed: `pcap_open_live` stores it where the other
thread sees it (`StartUp`, `ipwatchd.c:112`) before the filter is compiled and set
(`SetUp`, 120-131). Any use when it is null or closed sets `fault`, after which the
plugin makes no step, and so does a read of the freed device table. `Race` sets it,
or not, where two threads do what they may not do at once: both at work on the
handle or the check, a dispatch on a raw handle, and a signal that the watching
thread emits on the connection whose messages the other thread serves.
`rejected`, `twice`, `heard` and `answers` are history: `answers` are the replies
to the last call, of which a refused request gets two; `heard` are the cards that
claimed the address asked about, by what it denotes and not by its spelling.
`pcap_set_timeout` on an open handle has no effect and is left out, and so is
`timeout_ms`. A second `DSMRegister` is refused by sd-bus (the object is still
there), so on one connection registration happens once.

**AddressCheck** is what a client that calls `RequestIPConflictCheck` can rely
on: the request is accepted or declined by the interfaces there are at one moment
of the call; a card in the reply has claimed the address during the call; an
empty reply to an accepted request that spells the address as packets do means
that no foreign card has. At some point the service may stop to keep its promises
(`void`): when the mutex has been unlocked twice. It knows
neither locks nor probes nor the second thread. The refinement (`Check`, at the
end of Ipwatchd) maps the call to its first reply, the one the client gets:
`CallPhase` is idle once there is one, and what a refused request goes on to do
(`ipwatchd.c:195-216`) is not visible. `CallClaims` is `heard`, which the handler
fills in whichever thread it runs.

**IpwdConfig** is `ipwd_read_config` with `ipwd_fill_devices`. What a file says is
chosen while it is read: each line is an action, `ReadIgnored` to `ReadIface`, and
`Read` notes it in `lines`, the history that the properties compare with `config`
and `devs`. A line is a record of the words that the code looks at; a value is
supported, one of the values, or `Odd`. `FillNext` is one turn of the loop over
the interfaces that SIOCGIFCONF has listed, so that interfaces come and go
(`IfaceChanges`) between the listing and the look. `handles` counts captures
that were opened to look at an interface and not closed; `Refuse` keeps whatever
was stored before the error. `Start` may come again: `config` is a global, so a
host that registers the plugin on another connection to the bus has the second
file read over what the first one left. `Defaults` resets all but `log_level`,
which `kept` remembers. The table that this module ends with is what `Device`
and `Active` are in the modules above.

**CInt** is what becomes of a number that is stored in an int: `ToInt` keeps its low
bits, as the compilers in use do. It stands in `config.c:248`, where the long of
`strtol` is stored, and in `wallpaperscheduler.cpp:40` and `72`. `IntHalf`, 2^31, is a
constant so that the runs can have numbers beyond it.

**WallpaperLoop** and **WallpaperScheduler** are the classes of these names
(`wallpaperscheduler.cpp`), as records and the operators that change them. A
loop has a type and the set of images shown; `allList` is re-read after every
change of the type, from lists that `Backgrounds` makes once, and is the constant
`Paper`. A scheduler has the flag, the interval in milliseconds, the period its
timer runs with (`Off` when it is off) and `posted`, the starts and stops that wait
in the event loop. `SetInterval` subtracts seconds from milliseconds, as the code
does; `Start` casts the result, and `Period` is what `QTimer` does with a negative
one. `gone` is history: what the first period was made shorter by. The time of the
last change is not kept: `updateWSPolicy` sets it to now before it is used, so it
matters after a restart only, where `Load` takes any number of `Elapsed`, negative
ones among them because UTC is read back as local time.

**Slideshow** is `SlideshowManager` with a loop and a scheduler for each key, the
setting kept in DConfig, and the file. Each handler is one action, from the
D-Bus method, the signal or the time-out to its end: `TimeOutOf`, `WakeUp`,
`SetProperty`, `SetSlideShow`, `OnWallpaperChanged`, and `Load` and `Unload` for
the constructor and for the end of the process, wanted or not. `DeliverTo` is
the event loop, `Desktop`, `SwitchWorkspace` and `Lock` are the world. `Change` is
`autoChangeBg` for a set of keys, the last thing each handler does: an image is
taken, `SetBackground` sets it if the key is of the current workspace
(`slideshowmanager.cpp:195`, the history `wall`), and the loop is saved either way.
`SaveFor` gives every content the file can have afterwards: all keys saved, some,
or a file cut short by a write that failed. A setting gives each key a policy, a
number of seconds or a word; `NotJson` is a text that is no object. `updateWSPolicy`
reads a number as an int and `init` as a uint (`UpdatePolicy`, `ApplyPolicy`), so a
number between stops the timer until the next start and starts one then. A text
that differs from that of the setting may still be the same object, which
`SetProperty` and `SetSlideShow` allow for. `Load` compares `m_wallpaperType`
before anything was assigned to it, so whether it finds a difference is open;
so is which sessions are new. `touched`, `strayed`,
`drawn`, `carried` and `early` are history: `drawn` is the rotation as the user
sees it, and `carried` says that no failed save has torn the loop and the file
apart since it began. `m_curMonitorSpace` starts as a text that is not a key of
the setting. Numbers too large for a uint, an argument of
`SetWallpaperSlideShow` that is itself a JSON object, and images that come and go
are left out.

**SunriseSunset** is the part of `sunrisesunset.cpp` that decides: the steps after
the astronomy, which bring an hour into the local day, the sentinels 100 and
-100, and what `getSunriseSunset` and `autoSetTheme` make of them. The astronomy
is the constant `SunAt`, for each place a rise and a set. The code computes them in
two calls with different declinations (`sunrisesunset.cpp:36,93,95`), so each is an
`Event` of its own, with an hour, without because the sun is down, or without
because it is up. Hours are whole, and the days on which the clocks change, when
`startOfDay().addMSecs` is an hour off, are left out. `SunIsUp` is the reference: it
looks at the circle of hours and knows no dates. `Regular` says when the two can
agree.

**ThemeManager** is `ThemeManager` on Wayland, the only session that makes one. The
world is the clock, the zone, the user's setting and the desktop; `zoneNews` and
`setNews` are signals under way, and the handlers read the setting and the hour
when they run, as the code does. `AutoSetTheme` is the judgement that every
handler may end with, `DoSetGlobalTheme` the call that may fail and whose result
nobody looks at. `FollowSetting` is `enableThemeAuto` with what its callers do
after it. A timer is a number; `HandleTimeUpdate` and `HandleNTPChanged` start one
and forget the one before, which fires on for nothing (`IsMine`). `failed`, `crossed`,
`checked` and `due` are history: the last call to set the theme failed and left
another; the user has fixed another theme and gone back before the manager heard of
it; a judgement since the world last moved; news of the clock since the last
judgement.

**MCConflictWatch**, **MCIpwatchd**, **MCIpwdConfig**, **MCSlideshow** and
**MCThemeManager** hold the values of the constants.

Operators named after another one with a suffix, under a comment that begins
with "Variant", are not part of any behaviour: they are plausible mistakes, kept
to see that the properties notice them.

## Runs

| Run | Configuration | Instance | Shows |
|---|---|---|---|
| watch_devices | `WatchDevices.cfg` | 2 devices, 1 address, 1 host, interval 2, count 1, fairness | announcements equal the list; no configured interface is accused; defences are spaced; a conflict given up is resolved, one that lasts is handled again and again |
| watch_hosts | `WatchHosts.cfg` | 1 device, 2 addresses, 2 hosts, interval 1, count 2 | refinement of ConflictNotice; counts backed by packets; conflicts of an address nobody holds are frozen |
| watch_clock | `WatchClock.cfg` | 1 device, 1 host, interval 2, count 3, clock steps by 1 | the defence outlives steps of the clock |
| request_one_device | `RequestOneDevice.cfg` | 1 device, 1 host, 1 address in two spellings, interval 0, count 1, 2 probes | exclusion, no mutex left locked, the own card never named, no fault in service; until the mutex is unlocked twice answers heard, a clean context and the refinement of AddressCheck by the two threads; refinement of ConflictNotice |
| request_live | `RequestLive.cfg` | 1 device, no host, packets of the machine, an address and none asked about, fairness | if packets keep coming, requests are answered and the watching thread ends |
| used_after_unregister | `UsedAfterUnregister.cfg` | 1 device | violation, below |
| read_config | `ReadConfig.cfg` | 4 interfaces, one a loopback and one not ethernet, every file of up to 3 lines, 2 starts | settings and table of an accepted file are those its lines say; none that could be watched is missed; no capture stays open |
| slideshow_policies | `SlideshowPolicies.cfg` | 1 key, 2 types of 1 image, intervals 0, 1, 9 and 17 seconds of 4 ms with ints of -16 .. 15, all words, -1, 0 or 6 seconds gone, 2 calls waiting | timers follow the flag and, until it is touched, the setting; loops follow the type |
| slideshow_live | `SlideshowLive.cfg` | 1 key, 2 workspaces, a type of 2 images and one of none, 1 call waiting, fairness | no rotation repeats an image early, over restarts and changes of the type, while file and loop agree; a key with an interval goes on setting other backgrounds, also after failed saves |
| set_forgets_others | `SetForgetsOthers.cfg` | 2 keys | violation, below |
| theme | `Theme.cfg` | 3 zones: Auckland, Tromso on a day with a sunrise and no sunset, one that is not listed; 2 hours, 2 timers, 1 signal of the zone and 2 of the setting, fairness | what is remembered is shown and the theme is that of the sun, both unless a call failed or choices crossed; a fixed one is left alone, coordinates follow the zone, news of the clock are heeded, and the theme settles |
| midnight_sun | `MidnightSun.cfg` | Nome in June | violation, below |

Bounds: the capture buffer holds one or two packets, enough for a packet to
wait while the world changes; more only delays what happens. Ages are capped at
the interval, because the code only compares them with it. `signal_count` is
set to 1 or 2 instead of 3 where the state space asks for it; 1 already has an
entry that counts down, one that is refreshed and one that is removed, and the
proofs cover every value. Two addresses are needed for a device to move away
from one, two devices for an address to move between them, two hosts for one
to speak between the packets of another. Two probes (`PCAP_MAX_TIMES` is 5)
have a first, a repeated and a last round. One device of the machine may still
hear its own packets; several are covered by the proof. In the runs of Ipwatchd the device
is passive, the interval 0, the default of `config.c:82`, and the count 1, since
ConflictWatch covers the rest of the handler.

For the slide shows, two calls may wait for one timer where an older stop has to
meet a newer start, one where that does not matter. With one key the current key
is that one or none; the proofs cover any number, malformed keys among them, and
a save for one that meets a failed save for another. Two images of a type are the
least in which a rotation has a middle and an end; the other type of the live run
has none, and the proofs cover the rotations of any. Two workspaces are that of the
key and another. With 4 milliseconds to a second and ints of 32 values, an interval
of 1 second fits, one of 9 (36 ms) wraps to 4, one of 17 (68 ms) to 4 as well and,
cast as a policy by `updateWSPolicy`, is no int at all; 9 with 6 seconds gone (30 ms)
wraps to -2, which `QTimer` refuses. So a period may be what is asked for, a small
positive one, or none, and the first of these is all that is claimed. -1, 0 and 6
seconds gone make the first period of the interval of 1 longer, leave it, and are
over at once.

Three lines are the mode and two about interfaces, a setting said twice with
another between, or the two modes and an interface; every order is tried. Two
starts are one that inherits. Of the four interfaces, as the kernel lists them,
the first and the third are skipped, and one that is entered comes after each.
The numbers of `defend_interval` are the ends of its range, their neighbours and
one that an int cannot hold and that wraps into the range.
The proofs cover any file and any interfaces.

The requests of `request_one_device` leave the choice of the device to the service
or name it, with the two spellings; that the device may be without an address makes
either a refused one. The runs of the requests have `CHECK_DEADLOCK FALSE`, because
a plugin that has met undefined behaviour makes no step.

Of the zones, one has a day that begins on the day before in UTC, one has a sunrise
and no sunset, one no coordinates; each pair of them changes the theme at one of the
two hours. Two timers are one that is known and one that is forgotten, and two
signals of the setting a change there and back. One signal of the zone is under way
at a time in the run, for its time; `CoordinatesFollow` proves the property for any
number.

Fairness: in `ConflictWatch!FairSpec` the watching thread goes on dispatching,
time goes on, and each host goes on sending packets of which some find room in
the buffer; the last is an assumption on the network, without which no conflict
can be noticed. In `Ipwatchd!FairSpec` each thread goes on when it can, and packets keep
coming: pcap does not promise that the read time-out of `ipwatchd.c:112` begins to
run before the first packet, so on a silent network a dispatch may hold the mutex
and keep a request, or the exit of the thread, waiting for ever. A dispatch that is
handed packets ends, and of two dispatches at once, possible only after a double
unlock, each gets some. A thread that waits for the mutex gets it in the end, which
the unfair mutex does not promise by itself and which rests on the `usleep` of
`ipwatchd.c:146`.
In `Slideshow!FairSpec` the event loop delivers what is posted to a timer, and a
timer that is on runs out. Nothing is assumed of users, saves or the daemon; that
the plugin stays loaded on the workspace of the key, the setting and the type are
left alone and there are two images is part of what `ChangesGoOn` supposes.

In `ThemeManager!FairSpec` the event loop handles the signals of the zone and of
the setting, the timer of the minute fires, and so do those of two seconds. The
bound on these timers means that announcements of a new clock do not come faster
than timers fire without end. Nothing is assumed of the user, the clock or the
calls that set a theme; `FollowsTheSun` supposes that the last of them did not fail
(nobody repeats it) and that no fixed choice was taken back unheard.

### Violations

* `ReleasedIsNotUsed`: `DSMUnRegister` leaves the method on the bus; a request
  after it uses the closed handle.
* `SetLeavesOthers`: `slideshowmanager.cpp:37` parses the argument of
  `SetWallpaperSlideShow` where the setting should be, so the new setting has the
  one key alone. `org.deepin.dde.WallpaperSlideshow.xml:7-10` gives the method the
  monitor it is about.
* `ThemeIsRight` at Nome: where the sun sets after local midnight, step 9
  (`sunrisesunset.cpp:79-83`) gives the sunset an early hour of the same date,
  before the sunrise. The interval, which `sunrisesunset.cpp:96` says "用于判断当前是否为白天"
  (is for judging whether it is day), is empty and the theme dark all day.

### Defects without a run of their own

These are met in the models and excepted by the properties, since no text of the
repository that a run could refute says otherwise:

* A wrong theme without a failed call (`thememanager.cpp:159`, `219`): the desktop is
  light by day in automatic mode, the user fixes the dark theme and then goes back
  before the manager handles the first signal. Both signals find the automatic
  setting, the type remembered is still light, and the dark theme stays until the
  type changes. The history `crossed`.
* A failed call to set the theme (`thememanager.cpp:161`) is not repeated until the
  type or the setting changes. The history `failed`.
* After a double unlock (`ipwatchd.c:193` and `213`) both threads may be in a dispatch,
  and a card that the watching thread judged before the check was cleared is stored
  after it, to answer the next request (`analyse.c:146-151`). The history `twice`.
* The capture is there for requests before its filter is set (`ipwatchd.c:112-131`), so
  an early one may dispatch any packet as ARP; where compiling or setting fails, it
  stays so for good. Before that it is NULL. The faults `raw` and `null`.
* Both threads use the connection to the bus: the watching thread emits its signals on
  it (`analyse.c:180`, `230`, `service.c:46-56`) while another serves its messages. The
  fault `bus`.
* An interval or what is left of it that is more milliseconds than an int can hold
  becomes a period that has nothing to do with it, or none
  (`wallpaperscheduler.cpp:40`, `72`): 4294968 seconds become 704 milliseconds.
* The seconds since the last change are taken from the milliseconds of the interval,
  and the time of that change is written as UTC and read back as local time
  (`wallpaperscheduler.cpp:36-43`): the first period after a restart is nearly the
  whole interval, longer, or over at once.
* A number of seconds that is a uint and no int stops the timer when it is set
  (`slideshowmanager.cpp:116`) and starts one when the plugin is loaded (233).
* A key of a workspace that is not the current one uses up the images of its rotation
  and sets none (`slideshowmanager.cpp:181-199`); a key of another form does, too, and
  is not even saved.
* `defend_interval 4294967297` is accepted as 1 (`config.c:248`).

### What holds only in part

The defend interval is measured on the wall clock (`analyse.c:195-204`): with a
clock that is set forward it is not the "Minimum interval between defensive
ARPs" of `ipwatchd.h:118`; while nobody steps the clock it is, which is what
`DefendSpacing` says. "Ignore packets coming from local interfaces"
(`analyse.c:128`) is true of interfaces that are usable when the packet is
analysed: one that an interface sent before its address moved to another is
announced as a conflict. `OwnCardNotAccused` is what does hold. There is no return
after `ipwatchd.c:194`, so a refused request is answered, unlocks, and then
probes, dispatches without the lock, answers and unlocks again.

The second host that claims an address may never be announced: the interval is
per device, and the first host may use up every opportunity. A packet of a host
that claims the address within the interval does not refresh the countdown, so
a resolution may follow a claim that was swallowed. After a first refused request two
dispatches may overlap, and of the requests only `LockHasHolder` and `OwnCardNotNamed`
are claimed from there on. The signals are, too, but with the analyses of two packets
one after the other: where they really race is the fault `race`. A
request that spells an address in another way than `inet_ntoa`, which
`inet_aton` accepts, is compared as text (`analyse.c:147`), never hears of a
conflict and always gets an empty reply, whoever has claimed the address. Once the
watching thread has left its loop it closes the capture and frees the table while a
request may hold the mutex: `ServedAlone` is about the analysis of packets alone.

`log_level` has no default (`config.c:79-82`): until a file names it, it is zero,
and `message.c:41` drops all messages, also those about errors in the file; a
second start keeps the level of the first. `config.c:304` says "Automatic mode
is default", but the table is only filled by a line that asks for it: a file without an
`iface_configuration` line is refused, for lack of devices. Automatic mode, then
manual, then an `iface` line put an interface into the table twice, which
`ManualIsFinal` allows for. Files that are refused may leave what they
assigned, an open capture (`config.c:340-344`) and an open file behind.
SIOCGIFCONF lists only interfaces that have an address: one that gets its
address later is not watched in automatic mode.

`SetWallpaperSlideShow` sets the current key after it has applied the policy
(`slideshowmanager.cpp:48-50`): the first call for a monitor starts no timer, and
the timers of keys that leave the setting go on. So the timers agree with the
setting only until it changes. A key that leaves the setting keeps its loop with
the type it had. The first image of a round may be the last of the one before.
What changed while a save failed may be shown again after a restart, so
`NoEarlyRepeat` follows a rotation only while the file lists what the loop did when
the two meet, and again from its end on. After an `updateWSPolicy` that returned
early (`slideshowmanager.cpp:90`, `95`) loops and timers keep to the policy and the
type before, and `LoopsFollowType` is silent.

The timers of two seconds and the start judge the theme also
without coordinates, from those of `NAN_ANGLE`, which the timer of the minute
refuses; a zone that is not listed leaves the coordinates of the one before. So
`ThemeIsRight` speaks of the zone whose coordinates are known. A theme that the
user fixes may be overwritten by a timer or a signal of the zone that is handled
before the change of the setting; `ManualIsLeftAlone` holds from then on. Where a polar
day begins or ends, a sun that by the reckoning of the morning comes up and by that
of the evening does not set gives light from its hour to midnight, which is right;
one that by the second does not come up does as well, which is not: `RegularIsNeeded`
has both. The
comment at `sunrisesunset.cpp:16-20` speaks of a value below 0 for no sunrise and
above 24 for a sun that is always up; the sentinels are 100 and -100, the other
way round, and the caller knows. On X11 `DSMRegister` makes no manager, but
`DSMUnRegister` uses it.

## Proofs

`ArpAnalyseProofs` has the facts about the handler that any module running it
needs: what the sets of keys contain, that every step keeps the types, and that
every step keeps `ListInv` and maps to a step of ConflictNotice or to a stutter.
`ListInv` is the inductive invariant behind `ToldIsRecorded` and `CountIsBacked`:
types, the agreement of list and announcements, and the backing of counts. The
third is not inductive alone, as the history of a key begins when it is
announced. `KeysDisjoint` is the lemma everything rests on: what a packet raises
it does not calm.

`ConflictWatchProofs` proves `ArpTypeOK`, `ToldIsRecorded`, `CountIsBacked`,
`OwnCardNotAccused`, `StaleConflictsFrozen` and the refinement `ImplementsNotice`
from the assumptions of `ArpAnalyse` alone, and `DefendSpacing` also from
`MaxStep = 0`.

`IpwatchdProofs` proves every safety property of `Ipwatchd` and both of its
refinements. `LockInv` tells from the program counters who holds the mutex; its
fourth conjunct, that a request is not yet refused before it is verified, makes
the early unlock of a refused request an unlock of its own lock. `LockHasHolder`
is part of it and needs no proviso: the second unlock may free the lock of the
other thread, but never leaves it locked by nobody. `FaultInv` says where each
fault can come from; that two dispatches race only after a refused request is
`LockInv`. `AnswerInv` is behind the answers and the clean context, until `twice`: the
check waits only while a request holds the mutex, so the watching thread comes across
no answer and has nothing in `hand`. After a double unlock this fails, and nothing is
claimed.

`PluginNotice` is the refinement of ConflictNotice. The steps of the handler
are those of `ArpAnalyseProofs`; what is new are the steps of the threads, of which
`WatcherFree` throws the list away without a signal. So here the list agrees with
the announcements only until the watching thread has freed it, and the invariant
`NoticeInv` says that afterwards no step analyses a packet.

`CheckRefined` is the refinement of AddressCheck, by one lemma for each kind of
step: those the client does not see (`CheckUnseen`), a packet analysed in either
thread (`CheckHear`), the verification (`CheckVerify`), the reply (`CheckReply`).
`AnswerInv` and `CallInv` tie the call to the history: what is found was heard in this call, and
what was heard from a foreign card, of an address spelled as packets are, is found.
They rest on the mutex, because the card is stored in a step after the test; the
abstract service stops to promise anything (`void`) when it has been unlocked twice.

`SlideshowProofs` proves all the safety properties of `Slideshow` for any keys,
images, intervals and number of waiting calls, from the assumptions of its
constants. For the timers the invariant is that each scheduler is faithful: what
is posted last to it, or its period if nothing is, is what its flag and interval
say (`TimerInv`); each operator of the scheduler has a lemma that keeps it. Periods
are casts all along (`ToIntFact` of `CInt`: a cast ends in the range of an int and
changes nothing that was there); only `FaithfulPeriod`, at the end, speaks of those
that fit. For
the rotations it is `RotationInv`: `NoEarlyRepeat` alone says nothing of the loop
and the file, so the invariant ties what was drawn to the loop while the plugin
is loaded and to the file while it is not, and says that a key without a loop has
no entry in the file. `SaveFact` is the lemma about failed saves, `ChangeFact` the
one about the next image.

`IpwdConfigProofs` proves all the properties of `IpwdConfig`, with `ToIntFact`, for
files of any length, any interfaces and any number of starts. Each property speaks of accepted files only, so
each invariant says the same of a reading that goes on (`Going`): `SettingsInv`,
`ProbesInv`, `TableInv`, and `ModesInv`, which also says what the table and the
list are while the loop of the automatic mode runs: an interface that is still
to be looked at is not in the table. Facts about a line that is appended to
the history (`AboutFact`, `GovernsFact`) are lemmas that all of them use, and a
line about something else keeps each of them.

`ThemeManagerProofs` proves the safety properties of `ThemeManager` for any zones,
suns and hours. `DayIsDay` is the theorem about the algorithm: for a regular sun
the interval of `getSunriseSunset` tells day from night at every hour, whichever of
rise and set have no hour. `IntervalFact` gives the two ends of the interval, each by
itself. `RegularIsNeeded` is the converse: where no event is more than a day behind
local time (what one addition can bring back, step 9), a sun that is not regular is
mistaken at some hour. `LateSunsetIsDark` says how for a sun that sets after local
midnight: it is taken for night at every hour; `midnight_sun` is one such place.
`ThemeFollowsSky` supposes that the listed zones have regular suns. `CoordinatesFollow`
rests on `Announced`: the last announcement under way is that of the zone.
The invariant `IInv` adds to the types
`Settled`, which relates the mode to the setting and to the signals under way,
`Remembered`, that the theme believed shown is shown or the history says why
not, and `Judged`, that a judgement is that of the hour and of the coordinates.
`RemembersShown` alone is not inductive: it says nothing while a signal is under
way, when the user may just have gone back to the automatic setting.

Only model-checked are the properties that need fairness, which is beyond the
prover: `GivenUpIsResolved`, `StandingClaimDefended` and `DefenceOutlivesSteps` of the
handler, `RequestAnswered` and `StopStops` of the plugin, `ChangesGoOn` of the slide
show, `FollowsTheSun` and `ClockNewsIsHeeded` of the theme manager. What can be
proved of them is safety: no mutex stays locked (`LockHasHolder`), a timer
ends up running when it should (`TimerFollowsFlag`), and a theme that was judged is
right (`ThemeIsRight`). That any of it happens in the end is shown on the
instances alone.

## Not modelled

* The clock behind the time of the last change in the slide show: after a restart
  `Load` takes any of a set of elapsed seconds.
* Days on which the clocks change: `startOfDay().addMSecs` (`sunrisesunset.cpp:99-100`)
  is an hour off the hour of the day then.
* What a dispatch on a capture without its filter reads: the fault `raw` ends the
  behaviour, or nothing happens.
* Floating-point astronomy in `sunrisesunset.cpp:25-78`, the parsing of the table of
  zones, of frames (`analyse.c:52-113`) and of words in a line, lines longer
  than the buffer, and the building of packets by libnet: data without control.
* Memory that is leaked: a card per further answer to a check
  (`analyse.c:150`), files and captures of a reading that is refused. `handles`
  is the exception.
* The user script and the log of `ipwatchd`; `signal.c`, which nothing installs.
* Proxies and formats of the slide show (`utils.cpp`, `appearancedbusproxy.cpp`,
  `format.cpp`), which forward calls; images that come and go on the disk.
* The demos, built in debug builds only, and `deepin-service-manager`, which is
  not in this repository: what it does is the environment of the models.
