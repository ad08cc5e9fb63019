# Razer control: TLA+ models and proofs

This directory models the control daemon of razer-control-secureblue, checks the
models with TLC and proves the central properties with TLAPS. Paths below are
relative to the repository, so `daemon.rs` is `src/daemon.rs`.

## The system

| part | state it keeps | operations | talks to |
|---|---|---|---|
| policy (`lib.rs`) | the device table | `validate_operation` | called before every operation, by requests, rules and start-up alike |
| wire protocol (`protocol.rs`) | none | `operation_packets`, `validate_response` | the packets change the registers of the embedded controller (EC) |
| hidraw backend (`backend_hidraw.rs`) | an open node | `apply`, `exchange` | one feature report per packet, a reply per report, bounded retries |
| daemon (`daemon.rs`) | `fan_mode`, `profile` (what it believes the EC is set to), the persisted `state`, `dirty` | `handle_line`, `apply`, `reapply_persisted`, `on_power_change`, `shutdown` | backend, state file |
| serving loop (`daemon_unix.rs`) | last power reading `on_ac`, the signal flag | accept and serve, poll the power source every 5 s, save, stop | clients over a Unix socket, sysfs, the state file |
| state file (`config.rs`) | the file | `render`, `parse`, `factory` | daemon at start and after changes |
| requests (`ipc.rs`) | none | `parse_request`, `describe_*` | clients and daemon |
| telemetry (`telemetry.rs`) | sensor cache | `read`, `on_ac`, `sysinfo` | sysfs |
| desktop GUI (`desktop/`), tray (`tray/`) | widgets, debounce timers, the idle dimmer, rules of its own | one request line per worker thread | daemon, `supergfxctl`, the compositor |
| CLI (`main.rs`) | none | `ctl`, `daemon`, `validate` | daemon |

What is hard about it: an operation is several packets and may stop in the
middle; the EC keeps its registers when the daemon dies; the daemon never reads
the EC back, so all it has is its belief; fan and profile operations share one
register and each must repeat the other's half; settings reach the hardware from
clients, from rules and from a file a user may edit; one thread serves clients,
polls and saves, and a signal may arrive at any point of it. What must hold:
the belief is right, nothing out of policy is written, the fans are never left
manual without a supervisor, the rule of a new power source takes effect, accepted
settings reach the file, and a signal stops the daemon.

`PROJECT.json` lists the hazards line by line with the properties aimed at them.

## Modules

* **RazerPolicy**: the data of `lib.rs` and `config.rs`: fan modes, profiles,
  effects, requested operations, `validate_operation`, the persisted state and
  its factory values. The device table is the constants `MinRpm`, `MaxRpm`,
  `SupportsBho`, `SupportsBoost`, `SupportsLogo`; `DeviceAssumption` is what
  `set_fan_rpm` asserts of the range. A Rust `Option` is a set with at most one
  element.
* **EcProtocol**: `operation_packets`. The EC is a function from registers to
  values: a register per command and target, for example `Power("cpu")` for
  command 0x0d/0x02 of the CPU zone, whose value is the pair of the mode byte
  and the manual flag. A packet writes one register; the casts to `u8` are
  there as `% 256`, the seven-bit threshold as `% 128`. Bytes, checksums and
  transaction ids are not.
* **RazerDaemon**: `daemon.rs` inside the loop of `daemon_unix.rs`.
  `pc` is the place of the thread: `reapply` (start-up), `loop`, `serve` (a
  connection is open), `poll`, `automate` (a rule is being applied), `save`,
  `write`, `failsafe`, `stopped`, `crashed`. `todo` is the list of operations
  the current section still applies. Applying one is `Refuse`, or `BeginApply`
  followed by one `SendPacket` per packet and `ApplyOk`, or `PacketFails` after
  any prefix of them. A packet without an acknowledgement may never have reached
  the EC, may have been executed, or may be executed later (`late`,
  `LateWrite`), until a later packet takes its place; a new process does not make
  the EC forget it (`Start` keeps `late`). `Start` reads the state file: one that is
  not there, cannot be read or is not UTF-8 (`CanRead`, `LoadFails`) gives the factory
  settings. The environment is `Signal`, `Crash`, `Replug`, `LateWrite` and, inside
  the daemon's own steps, unreadable power supplies and state files, failing saves
  and a failing `accept`. The steps of the thread are `OwnStep`, whose calls all
  return, and `ClientStep`, which may wait for a client for ever.
  `known`, `unread` and `saveFailed` are history variables: nothing but
  properties reads them. `known` is the set of registers whose last write was
  part of an operation acknowledged in full in this process; `unread` says that this
  process read no state file and has written none.
* **EcLink**: what the daemon may rely on when it calls `Backend::apply`: the
  packets of a job are executed one after the other, an acknowledged packet has
  been executed and no copy of it is on its way, and the first packet without an
  acknowledgement ends the job. It is the abstract specification between the two
  detailed ones: `RazerDaemon!UsesLink` says that the daemon assumes no more
  (its `job`, `sent`, `ec` and `late` are the link's), `HidExchange!ImplementsLink`
  that the backend delivers it.
* **HidExchange**: `apply` and `exchange` of `backend_hidraw.rs` with
  `validate_response`. The host writes the feature report, reads the reply some
  time later, and writes again once after BUSY and once after a malformed or
  stale reply (`retried` is the set of the two flags). The EC works on its own:
  it holds the last report written to it (`inbox`) and one `reply`, and executes,
  refuses or is busy whenever it likes, also after the host has given up.
  `Replies` are abstracted to what `validate_response` tells apart. In the
  refinement an exchange is one step of the link: until it ends, the link shows
  the registers and the inbox as they were `before` it.
* **SwitchControl**: the fan group (`cooling.rs`) and the battery page
  (`battery.rs`), which are the same control with and without a snap: `on`,
  `value`, the debounce `timer` (`ui.rs`), the `workers` that carry one request
  each (`client.rs`) and may be served in any order, the polls that only decide
  whether the page is `sensitive`, and a daemon reduced to what the request sets,
  which may refuse it. `asked`, the last request sent, is history. `MaxWorkers`
  bounds the requests running before the user waits.
* **KeyboardLight**: the brightness of the keyboard between the two rows and the
  idle dimmer of `lighting.rs` and the daemon's rule (`on_power_change`). A row's
  request is a chain of three calls (rule, telemetry, brightness), and both rows may
  have one under way (`chain` is their set); a tick of the dimmer has up to four
  calls (`ticks`: ask, dim; or source, status, restore; then done). A page opened
  without an answer shows 60 in both rows and cannot be used (`sensitive`).
  `Mishaps` is the list of what may happen between two calls; any that happens
  makes `calm` false, except those the code is built for (an unreachable daemon,
  for the dimmer) and a rule that is refused or fails when the loop applies it, which
  is not tried again: `missed` says so until a brightness is applied. `dark` remembers
  who set the brightness last.
* **ChoiceControl**: one control with a few kinds, one of which may have a detail.
  `PerformanceModes`, `KeyboardEffects`, `Logo`, `FanRules`, `GraphicsModes` and
  `SuperGfxModes` describe the six there are; a behaviour is one of them. The
  graphics mode alone goes back when its tool fails (`applied` is `last_applied`).
  `locked` are kinds a control may report and not offer, such as the Dedicated mode
  of `supergfxctl` (`system.rs:48`).
  `asked` is the last request, `calm` says that no request overtook another or was
  refused and that nobody else set the daemon.
* **RefreshRate**: the rate row, the rule that lowers the rate on battery, the
  poll that feeds it and the compositor. A mode is its place in `modes`;
  `rate_candidates` is the code's, with rates in hundredths of a Hertz: the first
  mode of each rounded rate, in ascending order (there is one such sequence).
* **Telemetry**: the readers of `telemetry.rs` as operators on what the files
  hold: supplies, hwmon, `/proc/stat`, `/proc/meminfo`, cpufreq, PCI power states,
  `nvidia-smi`, DRM. `RefreshRate` and `Dashboard` use it.
* **Dashboard**: the poll's two requests (`FetchStatus`, `FetchTelemetry`) against
  a daemon that may change, stop and start in between, and `overview`, all labels
  of the Overview page. Detail labels keep their text while hidden, so the page has
  state. `told` records what the two answers were read from. `MachineAssumption`
  says what the kernel and `nvidia-smi` may answer: percentages for loads, whole
  units for memory, idle jiffies among all jiffies, and one discrete GPU, which the
  supported laptop has. A machine is a record of what each file and tool says when it
  is asked, and no two of its fields are tied to one another: a GPU that changes
  between the reading of `runtime_status` and the call of `nvidia-smi` is one in
  which the two disagree. That it was woken by the call shows in no answer.
* **Requests**, **StateFile**: the text of `ipc.rs` and `config.rs`. A line is the
  sequence of its words; `Numerals` gives the words that are numbers and
  `parse_int` their width, `Hexes` the colours. `Value` is the loop over the lines of
  the file as what it amounts to: the value of the last line with a key.
* **ClientSession**: request lines, state file and command line end to end: `Start`
  with its arguments, the HID interfaces found and the file, if it can be read
  (`Load`); `Configure`, `Operate`, `Ask`, `Malformed`; `Save`, `SaveFails` and
  `Crash`, which leave any beginning of the text in the file (`Torn`). One step is one
  line, one save or one start; `RazerDaemon` has what happens inside. `synced` is
  history: the file was read, or written whole, and no save has failed since.
* **MC...** and the `.cfg` files: the instances TLC checks.
* **RazerDaemonProofs**, **HidExchangeProofs**, **SwitchControlProofs**,
  **ChoiceControlProofs**, **KeyboardLightProofs**, **RefreshRateProofs**,
  **DashboardProofs**, **ClientSessionProofs**: the theorems.

Operators named after a slip (`FanPacketsOneZone`, `no_failsafe`, ...) are not
part of a specification. They are wrong versions of the definition that follows
them; substituting one must make the property named in `PROJECT.json` fail.

## What the runs show

| run | what it adds | properties |
|---|---|---|
| `daemon_fan` | `PoliteSpec`; fan, profile, battery and rule requests of clients that send one and read the reply, power changes and unreadable polls, stops and restarts, no other faults | `TypeOK`, `BeliefMatchesEc`, `StoppedMeansAutomatic`, `NeitherResetsTheOther`, `AutomationFollows`, `SettingsReachFile` |
| `daemon_faults` | failing and late packets, failing saves, crashes, state files that cannot be read, and one full of out-of-policy values | `IInv`, `FailsafeHolds`, `FileInSync`, `WritesWithinPolicy`, `TargetOnlyWhenManual`, `UsesLink` |
| `daemon_lights` | `LiveSpec`; logo and fan operations, keyboard settings from the file, with and without `--experimental`, failing and late packets, failing saves, clients that send for ever or never finish | `BeliefMatchesEc`, `WritesWithinPolicy`, `SignalStops` |
| `exchange` | fairness of the host; a slow, busy, refusing EC, I/O errors, broken and foreign replies, the process killed | `TypeOK`, `AcknowledgedMeansExecuted`, `TransientsSurvive`, `ImplementsLink`, `OperationEnds` |
| `gui_switch` | the fan's switch and slider, overtaking and failing requests, polls, other clients, restarts of window and daemon | `TypeOK`, `TimerIsShown`, `LastRequestIsShown` |
| `gui_keyboard` | fairness; two rows, dimmer and daemon rule on one keyboard, rules that fail, up to the first mishap | `TypeOK`, `DarkIsRemembered`, `LitAsRuled`, `RowIsKept`, `LightsReturn` |
| `gui_choice` | all six controls, requests in any order, failures, other clients | `TypeOK`, `LastRequestIsShown`, `RestShowsSetting`, `AppliedIsActive` |
| `gui_display` | fairness; two adapters that come, go and cannot be read, a display with twin rates | `TypeOK`, `RestRate`, `RuleFollows` |
| `texts` | 29 request lines at and around every limit, six command lines, two enumerations, three files, each readable or not, saves cut anywhere | `TypeOK`, `FileTellsSettings`, `AcceptedIsShown` |
| `dashboard` | five machines, a daemon that changes, restarts and vanishes between two requests | `TypeOK`, `DashboardTells` |

What the properties about the GUI say, in a sentence each:

* `DarkIsRemembered`: lights the dimmer turned off are never forgotten while the
  window is there; `LightsReturn`: they do come back with the user.
* `LitAsRuled`, `RowIsKept`: at rest, lit keys have the brightness of the current
  source's rule, unless the daemon failed to apply it, and a row of a page that was
  answered shows the rule the daemon keeps.
* `LastRequestIsShown`: the request sent last is the one for what the widgets show.
* `RestShowsSetting`, `AppliedIsActive`: the window shows what is set, and a failed
  mode switch puts the radio back on the mode that is active.
* `RestRate`, `RuleFollows`: the display has the rate shown unless the rule holds it
  at the lowest, and the rule follows the plug.
* `AcceptedIsShown`: an accepted line is one the documentation offers, and status
  then says what was asked. `FileTellsSettings`: a file that was read, or written
  whole, reads back as the settings; one cut short loses settings, or digits of one,
  and invents none.
* `DashboardTells`: the page shows what its last two answers were read from.

Most of them are stated for `calm` behaviours. A mishap is an event after which the
code promises nothing until the next request or the next window; the model has it,
and in `gui_choice`, `gui_display` and `gui_switch` TLC explores what follows, so that
the type invariants and the requests sent are checked there too. `gui_keyboard` takes
the step of every mishap and stops behind it (`CONSTRAINT UntilAMishap`): with two
rows' chains at once there are too many states otherwise. Nothing is lost by it. All
its properties but `TypeOK` say nothing once `calm` is false, which stays false, and
`TypeOK` is proved for what follows as well. Each mishap is listed below or under
`hazards`.

Two runs end in a counterexample, because the code does not do what the
repository says of it. `PROJECT.json` quotes the lines.

* `found_partial_failure`: `SetFan(Manual)` fails after the power packets. The EC
  is manual, `fan_mode` is still `Auto`, and the failsafe, which looks at
  `fan_mode`, does nothing.
* `found_late_slide`: a slide, then the switch turned off within 300 ms: "fan auto"
  is sent at once, and the pending timer sends "fan manual" after it.

### Divergences without a run of their own

Visible in the models, as mishaps or as behaviours a property excepts:

* A crash in manual mode, before the save, then a restart and a clean stop leaves
  the fans manual: a new daemon believes in `Auto` (`daemon.rs:33`); the
  repository's `README.md:60-62` says that a crash can never strand the EC. Set
  `Crashes = TRUE` in `daemon_fan` to see it.
* One unreadable poll counts as a change of the power source: the rule is applied when
  the source becomes readable again (`daemon_unix.rs:89`), over what the user has
  chosen since. `daemon_fan` has such polls (`FlakySupply`), and `AutomationFollows`
  holds across them; no property says that a rule is applied on a change only.
* A state file that is there but cannot be read, or is not UTF-8, starts the daemon on
  the factory settings, and the next save overwrites it (`.ok()?`,
  `daemon_unix.rs:123-126`), where the comment at `daemon_unix.rs:51-54` speaks of "no
  state file yet". `FileInSync` excepts it by `unread`. A restart that meets it believes
  in Balanced, so the next fan operation resets the profile in the EC: set
  `LoadFails = TRUE` in `daemon_fan` and `NeitherResetsTheOther` fails.
* The daemon can be held past its signal: only reading has a timeout
  (`daemon_unix.rs:186`), every byte of an unfinished line starts it anew (`188`), and
  `write_all` (`199-200`) waits for a client that reads no reply. systemd kills it then,
  and the failsafe does not run. `SignalStops` says which case it excepts.
* A restart without `--experimental` refuses the persisted profile, and the next fan
  operation resets the EC to Balanced (`daemon.rs:34`), what `lib.rs:146-149` says
  the context prevents. `ExperimentalModes = {TRUE, FALSE}`.
* On an EC that leaves its previous reply readable, the reply for the CPU zone is
  accepted for the GPU zone, because `matches_response` compares class and id
  (`protocol.rs:295`). `KeepsOldReply = TRUE` in `exchange`.
* The dimmer's flag flips on any reply, `err` included, because `request_blocking`
  returns it as `Ok` (`lighting.rs:317-325`); the comment above says that it flips
  only after the requests succeed (`lighting.rs:290-292`).
* A plug pulled between a chain's telemetry and its brightness sets the brightness of
  the wrong source. `LitAsRuled` without `calm`.
* `rate_candidates` returns the index of the lowest rate, not of the active one
  (`system.rs:267-268`), when the active mode's rate rounds to that of a mode listed
  before it.
* A window closed, or a rule turned off, while the rate is lowered or the lights are
  dark leaves them so.
* A fan rule of any manual speed is shown as "Quiet (2000 RPM)", and as "Do nothing"
  when the window was opened without an answer (`automation.rs:34-41`).
* "dGPU asleep" stands beside the integrated GPU's figures also when `nvidia-smi`
  failed while the dGPU was awake (`overview.rs:151`, `telemetry.rs:293-298`), and
  "Disconnected" may stand beside live figures when only `status` failed.
* The parser takes `+80` and `0080` for 80; a state file cut after a digit reads as
  a smaller number on its last line, which the policy may accept.
* `BatteryHealthOff` always sends threshold 80 (`operation_packets`) where the
  comment above it says that the last threshold is kept. A failed save has cleared
  the dirty flag and is not repeated (`WriteFile`), so `SettingsReachFile` is stated
  where saving works. A rule that is refused, or whose packets fail, when the source
  changes is not tried again (`Automated`, `KeyboardLight!Poll`): the loop has stored
  the source (`daemon_unix.rs:95`). So `AutomationFollows` is checked on a link without
  errors, and `LitAsRuled` excepts the keyboard rule that was `missed`.

### Bounds

The daemon: two or three fan targets, two profiles, one colour, one or two initial
files and one initial EC. They are enough because the code compares settings only for
equality and against the policy's limits, and the targets chosen lie inside, on
and outside the limits (2000; 1999, 65535; limit 255; brightness 200 and 101).
`daemon_faults` has two requests, the fan and the profile operation that share
registers, and starts on an EC the factory settings have been applied to
(`SettledEcs`), so that what a start without a readable file sends, late or not, does
not multiply the states; the out-of-policy values come from the file. It has mains
power only, so that the first poll is the one change; the runs in which the source
changes again and again are `daemon_fan` and, for the keyboard, `gui_keyboard`.
No counter of the daemon needed a bound: its runs explore all reachable states, with
any number of restarts and power changes. `exchange` has one job of four packets in
which two pairs share a command and a job of a single packet; a reply is told apart
by the command it echoes, so nothing longer meets a new case.

The GUI: `MaxWorkers` bounds the requests running before the user acts again, two in
`gui_switch` and `gui_choice`, enough for one to overtake the other, one in
`gui_display`, where the rule adds a second. `gui_switch` has three slider positions,
one of which snaps to another; `gui_choice` two power levels and two swatches.
`gui_keyboard` has two levels, the factory rules, beside 0 and the fallback 60, both
rows in any order with a chain each, and one tick under way (`MaxTicks`): requests end
within the 30 s between two ticks. With `MaxTicks = 2` an overlap is a mishap. `Slide`
moves a row while its timer runs, or when the chain it started has ended: two chains of
one row (a slide while its own last one is still on the way) are left out.

`texts`: one accepted change (`MaxChanges`) between any number of starts, saves,
failed saves and crashes; each line is about one setting and the first files differ
in all others, so a second change meets no new pair of parser and renderer.
`dashboard`: four values of `/proc/stat`, among them falling idle time; five
machines that differ in every file a reader looks at. The proofs do without these
bounds.

### Fairness

`RazerDaemon!LiveSpec` assumes weak fairness of `OwnStep`: what the thread blocks in
there returns (`accept` is non-blocking, the state file is a local write, an operation
ends by `HidExchange!OperationEnds`). It assumes nothing of `ClientStep`, what the thread
does with a connection open: only reading has a timeout (`daemon_unix.rs:186`), which
each byte starts anew, `write_all` has none, and a telemetry query waits for
`nvidia-smi`. Hence the exception in `SignalStops`: a signalled daemon stops unless it
stands at the same connection for ever, with no operation left to apply. A client that
goes on sending whole lines cannot do that, because the flag is read before every line.
`SF_vars(PollPower /\ on_ac' # None)` says that the clock moves, since the loop passes the
poll again and again and 5 s do elapse, and that a power source read again and again can
be read one day. `PoliteSpec`, for `daemon_fan`, adds weak fairness of `ClientStep`: its
clients send one line per connection and read the reply, as `send` in `daemon_unix.rs`
does. With a client that keeps a connection busy, polls and saves can be delayed for
ever, and neither `AutomationFollows` nor `SettingsReachFile` holds. `HidExchange!LiveSpec`
assumes that the host's calls return; nothing is assumed of the EC.

`KeyboardLight!LiveSpec`: the glib timer ticks while the window is there, workers get
their turn (both weak), and a daemon or a session bus that can be reached again and
again is reached one day (strong). `RefreshRate!LiveSpec`: the main loop takes a
finished poll and processes end (weak); a power source that can be read again and
again is read one day (strong). That processes end is an assumption about
`kscreen-doctor`, a tool outside this repository: the code waits for it without a
timeout (`Command::status`), and `RuleFollows` does not hold if it hangs. The user, the plug and the faults are never fair.

## What is proved

`RazerDaemonProofs` proves, for all values of the constants that satisfy
`DeviceAssumption` and `EnvironmentAssumption` (both evaluated by every run):

* `Invariance`: `Spec => []IInv`.
* `TypeCorrect`, `BeliefCorrect`, `FailsafeCorrect`: its consequences
  `TypeOK`, `BeliefMatchesEc`, `FailsafeHolds`.
* `PolicyCorrect`, `TargetCorrect`: the action properties `WritesWithinPolicy`
  and `TargetOnlyWhenManual`. The first says that every value written is within the
  policy, and that what needs `--experimental` is sent only by a process that was given
  it (`OptedIn`). It does not say that only such a process sees it written: a packet a
  killed process has sent may be executed while a later one, without the opt-in, runs.
* `LinkUsed`: `Spec => UsesLink`, every step of the daemon is a step of the
  abstract link or leaves it alone.
* `FileCorrect`: `Spec => []FileInSync`, with an invariant of its own, `FileInv`:
  between the head of a turn and its save the settings are dirty or in the file, or
  they are the factory's and no file was read (`unread`), whatever the file holds;
  and what a start reapplies is among the operations that leave the settings as
  they are (`ReapplySettles`), so that the dirty flag it drops says nothing.

The end of `RazerDaemonProofs` proves what the daemon keeps in some environments only.
Each theorem names its own in its ASSUME, and `daemon_fan` is an instance of both:

* `StopCorrect`: `Spec => []StoppedMeansAutomatic`, under `SoundLink`: no packet goes
  unacknowledged, the daemon is not killed, and the fans are automatic when the first
  daemon starts. `found_partial_failure` shows what a faulty link does to it. `StopInv`:
  whenever no fan operation is running, both zones have the flag the daemon believes in.
* `NeitherResetsCorrect`: `Spec => NeitherResetsTheOther`, under `SoundLink` and
  `SteadyStarts`: all starts have the same `--experimental`, the file can be read and
  written, and the first start finds the mode it assumes. Across restarts the mode byte is right only
  because the file has the profile, the policy accepts it again, and it is the first
  setting a start applies; so `ModeInv` follows the profile from the operation through
  `dirty` and the file to the next start, and rests on `FileInv`.

`HidExchangeProofs` proves, for every set of jobs, every EC state and all noise
that `LinkAssumption` admits (a garbled or foreign reply is not at once whole,
addressed to us and of a fitting checksum):

* `RetriesCorrect` and `TypeCorrect`: `Spec => []TransientsSurvive`,
  `Spec => []TypeOK`, on any EC.
* `ExchangeImplementsLink` and `AcknowledgedCorrect`: `Spec => ImplementsLink` and
  `Spec => []AcknowledgedMeansExecuted`, on an EC whose buffer shows a NEW frame
  once a report has been written (`KeepsOldReply = FALSE`). With
  `KeepsOldReply = TRUE` the run `exchange` refutes them.

`SwitchControlProofs` proves `TypeCorrect`, `TimerCorrect` and
`LastRequestCorrect`, the invariants of `gui_switch`, for every slider and any
`MaxWorkers`. They are inductive together: a slide moves value and timer at once
and is possible only with the switch on, the switch sends the value it shows.

`ChoiceControlProofs` proves the four properties of `gui_choice`, for every set of
controls that satisfies `ChoiceAssumption` and any `MaxWorkers`. `TypeCorrect` holds with
every mishap: requests of closed windows included, all are for settings of the control,
so that taking an answer never shows a choice that is not there. `LastRequestCorrect`
is inductive as it stands and needs nothing of the order in which requests are
served. `RestCorrect` and `AppliedCorrect` (`Spec => []RestShowsSetting`,
`Spec => []AppliedIsActive`) follow from `IInv`, which says what a calm behaviour
keeps while requests run: of those that run the last asks for what is shown
(`InOrder`), and of the graphics mode there is one switch at a time (`Single`), so
that the mode to go back to is the one the switch started from. Requests leave the
middle of the queue, so the proof follows every request to its new place
(`RemoveAtFacts`, `DeliveredStep`).

`KeyboardLightProofs` proves the four safety properties of `gui_keyboard` for all
levels, any shipped rules and any number of ticks, failed rules and mishaps:
`TypeCorrect`, `DarkCorrect`, `LitCorrect`, `RowCorrect`. None of them is inductive; each
speaks of rest, and the steps that lead there are taken by chains and ticks that carry
what they read earlier. `CalmInv` says what these still know: of a chain, that it carries
what its row shows, that the daemon keeps it as the rule once the first call has returned,
and that its source is the current one before the last (`ChainInv`); of a tick, the same
for a restore (`TicksInv`); that dark lights are either on record in the flag or in the
hands of the tick about to record them (`DarkInv`); that lit keys have the rule's
brightness, or a chain is about to set it, or the rule is `missed` (`LitInv`); and of a
row, that it shows the rule kept, or its timer or its chain is about to make it so
(`RowsInv`), never both (`TimerInv`).
With both rows' chains under way each step is followed for the chain that takes it and
for the other (`ChainGoesOn`, `ChainEnds`).

`RefreshRateProofs` proves `TypeCorrect` and `RestCorrect` for every display, any set of
supplies and any `MaxWorkers`. `FollowInv`: the last request sent is the one for the rate
shown, or, while the rule is on and knows of the battery, for the lowest. That
`rate_candidates` exists, is ascending and offers only modes of the display
(`CandidateFacts`) is proved by choosing the least of what is left, again and again
(`Least`, `Ascending`).

`DashboardProofs` proves `TypeCorrect` and `TellsCorrect` for all machines and CPU times
that satisfy `MachineAssumption`, and any sequence of answers and failures. They are
inductive together with the shape of the two labels that can be hidden (`Detailed`). The core of
the first is `cpu_util`: idle jiffies may fall between two reads, and the share is a
percentage because such a pair gives none. With two discrete GPUs `TellsCorrect` would be
false: `nvidia_is_active` looks at the first it meets.

`ClientSessionProofs` proves `TypeCorrect` and `FileCorrect` (`Spec => []TypeOK`,
`Spec => []FileTellsSettings`) for all request and command lines, enumerations and first
files and any number of saves, starts and crashes, under four assumptions that `texts`
evaluates: `TextAssumption` and `ColorAssumption` (a colour is written in one way, has no
proper beginning that is a colour, and no number is a word of the protocol),
`NumeralAssumption` (a number written out reads as itself), `SessionAssumption` (a file is
a sequence of lines). `IInv`: all numbers the daemon holds can be written (`WellWritten`),
the file reads back as the settings when they are clean and `synced`, and what the last
save wrote, whole or cut, tells the settings it was given (`Tells`). The argument has two halves. A
field that was rendered parses to itself (`FieldReadsBack`), and cut anywhere to nothing
or a number that lost digits (`FieldCut`). A torn text is some whole lines of the listing
and at most one cut line (`TornValues`), so that at most one key has another value than
it was given (`OneOdd`); the keys are distinct (`KeysDiffer`), so that no cut line is
taken for another setting.

Together: with such an EC the daemon over hidraw has the properties proved of the
daemon over the link.

The argument. `BeliefMatchesEc` speaks of registers in `known`; it is not
inductive, because the step that adds a register to `known` is the last of an
operation and must be able to say what the earlier packets did. `ApplyInv` keeps
that: while an operation runs, the packets acknowledged so far are in the EC,
none of its registers is in `known`, and the operation has passed the policy.
`Settled` then says that an EC holding all packets of an accepted operation is
set to what the operation asked for, which is where the policy's limits meet
the casts (`NothingIsCutOff`), and `PacketsWellFormed` that no operation writes
a register twice, so that later packets do not undo earlier ones. `QuietInv`
says that no operation is left over between sections. `FailsafeInv` follows the
one operation of the failsafe to the end: it went through, or its registers are
not in `known`. `LateInv` says that what is left of a packet nobody acknowledged
can only write a register outside `known`, a value within the policy, and a fan
target only while both zones are manual, so that executing it later does no
harm. The action properties use the same invariant and the fact that
only the next packet of the running operation changes the EC (`OnlyPackets`).

Only model-checked:

* The liveness properties: `AutomationFollows`, `SettingsReachFile`, `SignalStops`,
  `OperationEnds`, `LightsReturn`, `RuleFollows`. Liveness under fairness is out of the
  prover's reach.
* `AcceptedIsShown` of `ClientSession`: what `FoldLeft` computes over the tokens of a
  reply (`parse_fields`) needs induction over data.
* The two runs that end in a counterexample.

## Not modelled

* `probe`, `device`, `validate` and `udev-rule` of the command line: they print and
  change nothing. `validate` is `parse_operation` and `validate_operation`.
* `kscreen_outputs`, `strip_ansi`, the DDC, brightness and colour rows
  (`display.rs:292-444`): text of external tools, and one process per change with no
  state behind it.
* `sysinfo` beyond whether a dGPU has a name, `simulated`, the mock daemon of
  `--mock`: for display and development.
* The Diagnostics window, the drawing of the pages, the tray's tooltip.
* A second window of the same application (`app.rs:36`): its widgets act as another
  client does.
* Bytes, checksums and transaction ids of a packet; `HidExchange` has the verdicts.
* Packaging and units.

What is left to do: a form of `parse_fields` that can be reasoned about, for
`AcceptedIsShown`.
