# Home Box: a TLA+ verification project

Home Box is a locked-down Home Assistant container that enrolls with an
operator platform (BMS) and publishes read-only appliance status. This
directory holds TLA+ models of its concurrent and stateful parts, the TLC
configurations that check them, and proofs checked by TLAPS. Paths below are
relative to `src/`.

1. [The system](#1-the-system): parts, state, operations, how they interact
2. [Modules](#2-modules): what models what
3. [Runs](#3-runs): what TLC checks, with which bounds, and what it shows
4. [Fairness](#4-fairness)
5. [Proofs](#5-proofs)
6. [Disagreements found](#6-disagreements-found)
7. [What is not modelled](#7-what-is-not-modelled)
8. [Where to go on](#8-where-to-go-on)
9. [Running it](#9-running-it)

## 1. The system

```
   relay board            Home Assistant container                 BMS
  HLK-DIO16 <--TCP--> hlk_dio16 (client, coordinator)               ^
  Tuya devices <----> tuya_local (device, entries, flows) <--+      |
     (SOCKS relay)    home_box_admin (owner, share, token)   | ws   |
                          ^ share file, HTTP                 |      |
      enroll page -> enroll_ui --files--> agent.py ----------|------+
                     enroll_store, wg_store --docker--> WireGuard, proxy
      import page -> tuya_import_ui -------------------------+
```

The containers share a directory: the enroll file, the one-time owner secret,
the WireGuard keys, the runtime cache of BMS flags and the share file. Nothing
locks these files; every reader opens them afresh for every request or turn.

| Component | State | Operations | Talks to | What is hard | What makes it correct |
|---|---|---|---|---|---|
| HLK-DIO16 integration (`image/custom_components/hlk_dio16`) | socket, lock, failure count and backoff, published data, availability | poll, `set_output`, connect, disconnect, handle failure | the board, which serves one TCP client, by a byte stream of acks and state frames | poll connects without the lock, coordinator disconnects without it, replies come late, skipped frames | no reply is taken for another one's by a poll, the lock is always released, grace is kept, it recovers |
| Sensory feed agent (`platform/agent.py` and helpers) | loop counter, last delivered share, age of the last snapshot | subscription, heartbeat, cache, location, batch post, one post per device | BMS, Home Assistant's states, share and enroll files | each file is read at another time than it is used; calls fail after they took effect; a batch is half taken | the household's BMS record follows the share; silence is bounded |
| Enrollment and owner setup (`platform/enroll_ui.py`, `enroll_store.py`, `home_box_admin`) | enroll file, its temporary file, one-time secret, keys, Home Assistant's logins and users | save, clear, bootstrap, owner form, password reset | threads of one HTTP server, files, Home Assistant's views | check and write are far apart; in-place rewrite; unheard answers; restarts of both containers | the owner gets a login, the secret is that household's and goes |
| WireGuard apply (`platform/wg_store.py`) | container and proxy by name | inspect, restart, recreate, remove | docker | two applies at once, commands that fail after they took effect | the last keys are in use and the proxy is in that run's network |
| Enroll page script (`enroll_ui.py:185-747`) | sections shown, wait flag, tasks | refresh, wait, retry, continue, create owner | enroll API | one shared abort flag; timer and buttons at once | no dead countdown; the page arrives |
| Company access page and share view (`image/www/home-box-company-access.js`, `LimitedShareView`) | draft, saved snapshot, dirty, busy; share file; token | load, edit, save, ensure token | Home Assistant, agent (share file) | loads and saves overlap, the token is created before it is stored | pages come to show what is saved; a save leaves a token that works |
| Token for box services (`platform/ha_token.py`) | none of its own | look up a token | secrets file | as above | as above |
| Living room blind (`image/packages/living_room_blind.yaml`) | two relays | open, close and stop scripts | HLK-DIO16 switches | scripts interleave | both relays are never on |
| Tuya import (`platform/tuya_csv.py`, `tuya_import_ui.py`) | list of devices on disk | save, clear, apply | Home Assistant's flows by websocket | two applies at once, time-outs, flows left open | every device configured once, a keyed row succeeds, the list survives |
| Tuya Local: device object (`device.py`) | cached state, pending updates, protocol index | poll, receive, set, retry, rotate | Tuya devices | threads and event loop, failed attempts that reset, reports that cross | commands show until confirmed and reach the device; its version is found |
| Tuya Local: device files (`helpers/device_config.py`) | none | read a value, compute what to set | the device object | conditions on other datapoints, redirects, scaling | setting and reading agree |
| Tuya Local: entries (`__init__.py`, `device.py`) | entry version and data, entity registry, shared buckets, monitor task | migrate, set up, unload, register and remove entities | Home Assistant | stops during a migration, reloads, shared connections of a gateway | ids are kept; one connection; monitored while it has entities |
| Tuya Local: adding a device (`config_flow.py`, `cloud.py`, `discovery.py`) | flows, login cache, scan | user, cloud, local, options steps; scan | Home Assistant's flow manager, import | flows side by side, paused devices | one entry per device, no device stays paused |
| MCP server (`platform/mcp_server.py`, `ha_control.py`, `ha_readonly.py`) | none | request policy | Home Assistant | order of the checks | denied domains stay denied |
| Container start (`image/rootfs/etc/cont-init.d`) | configuration directory, served assets | seed, brand, copy components | files | stops in the middle of a copy | Home Assistant starts with whole components |
| Egress filter (`network/protect-egress.sh`) | iptables chains | flush, rebuild | kernel | order of calls, stops between them | installed at the end, private networks never cut |
| SOCKS relay (`tuya/transparent-socks.py`) | two threads per connection | pipe, close | sockets | half-closed and broken connections | bytes in order, ends in order, handler ends |
| Gateway, dashboard pages, deployment | static files and scripts | | | | |

The hazards, each with the line where it bites and the properties that cover
it, are listed in `PROJECT.json`. Three that it does not list because nothing here
covers them: unloading an HLK entry disconnects without the lock
(`hlk_dio16/__init__.py:52`); a stop between saving the WireGuard keys and the
enrollment leaves keys of an enrollment that never happened
(`enroll_store.py:165`); a call of Stop while the blind's open script has not
switched its relay on yet is followed by movement (`living_room_blind.yaml:33`).

## 2. Modules

| Module | Models | Form |
|---|---|---|
| `ReconnectPolicy` | `reconnect.py` and `_apply_interval` | variables and actions that `HlkDio16` EXTENDS |
| `HlkDio16` | `client.py`, `coordinator.py`, `switch.py`, with the board and the network | state machine |
| `SensoryFeed` | `agent.py`'s loop with `sensor_feed.py`, `bms_fetch.py`, `bms_runtime.py` | state machine |
| `Enrollment` | `enroll_ui.py`'s handlers, `enroll_store.py`, key files of `wg_store.py`, `OwnerCreateView`, `PasswordResetView` | state machine |
| `EnrollPage` | the script of the enroll page with what the box answers | state machine |
| `CompanyAccess` | `home-box-company-access.js`, `LimitedShareView`, its token | state machine |
| `BoxPages` | the two pages, one at a time (EXTENDS `CompanyAccess`, INSTANCE `EnrollPage`) | composition, fairness |
| `Blind` | `living_room_blind.yaml` | state machine |
| `WgApply` | `apply_wireguard`, `ensure_wg_ha_proxy` | state machine |
| `Egress` | `protect-egress.sh` | state machine |
| `ByteStreams` | what a relay promises: two streams in order, ends in order | abstract specification |
| `SocksRelay` | `transparent-socks.py`'s handler and pipes | state machine, implements `ByteStreams` |
| `ContainerStart` | the three scripts of `cont-init.d` | state machine |
| `BoxServices` | `SocksRelay` (EXTENDS), `WgApply`, `Egress`, `ContainerStart` (INSTANCE), one at a time | composition, fairness |
| `TuyaDevice` | `device.py`: cached state, pending updates, receive loop | state machine |
| `TuyaProtocol` | `device.py`: attempts, protocol rotation | state machine |
| `TuyaDps` | `device_config.py`: `get_value` and `get_values_to_set` | operators, with a state machine that sets one value after the other |
| `TuyaObject` | `TuyaDevice` (EXTENDS), `TuyaProtocol` and `TuyaDps` (INSTANCE), one at a time | composition, fairness |
| `TuyaRenames` | the name tables of `__init__.py`'s migrations | operators |
| `TuyaMigration` | `async_migrate_entry`, every version | state machine |
| `TuyaLifecycle` | set-up, unloading, the monitor, entities | state machine |
| `TuyaEntry` | `TuyaMigration` (EXTENDS) and `TuyaLifecycle` (INSTANCE), one at a time | composition |
| `TuyaFlow` | `config_flow.py`, `cloud.py`, `discovery.py` | variables and actions that `TuyaImport` EXTENDS |
| `TuyaImport` | `tuya_import_ui.py`, `tuya_csv.py`, with `TuyaFlow`'s users and scans beside it | state machine |
| `HlkDio16Proofs`, `SensoryFeedProofs`, `EnrollmentProofs`, `BoxPagesProofs`, `BoxServicesProofs`, `TuyaObjectProofs`, `TuyaEntryProofs`, `TuyaImportProofs` | theorems of the module they are named after | proofs |
| `MC*` | sets for TLC | model-checking instances |

Each module ends its definitions with its properties, one comment each. A
definition whose comment starts with `Mutant:` is no part of the model: it is a
plausible mistake in the definition beside it, kept to show that a property
notices it. A section after the properties holds statements of the
documentation that do not hold (section 6).

### Two kinds of composition

Components that interact are composed in one behaviour. `HlkDio16` uses
`ReconnectPolicy`'s actions in its own. In `TuyaImport` the import's requests
drive flows of `TuyaFlow` through its actions while users, scans, deletions and
restarts act on the same flows and entries. `SensoryFeed` and `Enrollment` meet
in files; each takes what the other does as an environment action with more freedom
than the other has: the feed sees a new enrollment between any two of its
steps (`Enrolls`) and a share edit likewise (`SavesShare`), so what holds for
the feed holds beside the enrollment and the company access page as modelled.
`WgApply` takes saved and cleared keys likewise.

`BoxPages`, `BoxServices`, `TuyaObject` and `TuyaEntry` put together parts that
share no variable in the code. A behaviour of theirs is one of one part, chosen
by `part`, while the other parts rest in one initial state: what each part does is
independent of the others, so their product would show nothing more, and TLC
explores the sum of their state spaces instead.

### HlkDio16

A task is the coordinator's poll or a service call that switches a relay. An
action is what one task does between two awaits, so every interleaving that the
event loop allows is explored and no other. The map from state to code:

- `sock` is `_reader` with `_writer`; `conns` are TCP connections, identified by
  recycled numbers, each with what is under way in both directions; `slot` is
  the one connection that the board serves. A connection nobody refers to is
  closed by `StreamWriter.__del__`, which is what makes `connect()`'s clearing
  of the reader and writer drop a socket.
- `lockq` is the `asyncio.Lock` with its queue. The poll's first
  `client.connect()` (coordinator.py:38) is made without it, connects inside
  `_ensure_connected` with it; `disconnect()` after a failure
  (coordinator.py:84) again without.
- The board's sixteen relay states are one number, `ver`, of the controls it
  has executed: a state frame carries the version it was built from, so that
  "shows an older state" is a comparison. What the firmware answers to a
  control (an ack, a state frame, or both, client.py:140-164) is a
  choice made for each control. At most `MaxLate` times a state frame
  comes after the extra 0.4 s read.
- `Errors(t)` are the two exceptions which the client does not expect: the
  assertion or attribute error of a task whose reader has been set to None by
  another one. They pass by every handler: no failure is noted and nothing is
  dropped.
- `disconnect()` takes the socket and forgets it before its first await, so
  dropping is one step and the wait for the close (`drop`, `coordinatorDrop`)
  another, which touches no socket. The coordinator's `force_reset` decides a
  log level only and is left out.
- The failure count and the backoff are `ReconnectPolicy`, in half seconds.
  `aged` says that the last success is more than the grace ago.

That there is one poll at a time is Home Assistant's coordinator, which the
code relies on.

### SensoryFeed

An action is one call to BMS or one reading step of the loop. A share is its
switch, the set of granted sensors and the time it was saved (`at`), which
makes the share's signature. For every household, BMS remembers the last
status it accepted (flag and devices), the last heartbeat's gate and whether it
has a location: `bms[b]`. A call is answered, fails, or takes effect and its
answer is lost; credentials are read afresh for each call, as in
`bms_request`, so one turn may talk to two households. `Rejected` are sensors
whose status BMS refuses, which makes the batch fail and each device be posted
alone. `last_share_sig` survives a new enrollment, as it does in the code. Time
is counted in loop intervals.

### Enrollment

An action is one call to the file system that another thread can see, or what a
view of Home Assistant does between two awaits. `req[r]` is a thread of the
enroll UI together with the view that serves it: requests that scan QR codes
(`Enrollers`), those a page's refresh sends (`Bootstrappers`) and owner forms
(`Forms`).

- `enroll` is `bms_enroll.json`: a document, absent, or `Torn` (truncated, not
  yet written). `tmp` is the one name `save_enroll` writes before its rename.
  `fd` remembers where an open file is now, since another thread may rename
  or unlink it while it is written.
- `wg` and `boot` are the key files and the one-time secret, each named by the
  household whose QR code it came from. Each is written by one rename and is
  atomic here.
- `auth`, `owners`, `others` are Home Assistant's logins and users. It makes
  the first user its owner. A login whose user was never created (a restart
  between both awaits) keeps its name for good.
- `GivesUp` is the proxy's time-out of 20 s, `UiRestarts` and `HaRestarts` the
  container restarts. Home Assistant goes on with a request nobody waits for.
- With `AllowReset` (`ENROLL_ALLOW_RESET`) the page may clear everything, and
  enroll again. Without it a request is refused while a box is enrolled, and
  only then: a DELETE of an unenrolled box is served (enroll_ui.py:1053).
- The server has a thread for each request, so any number of each kind runs at
  once. `hist` notes what the properties except: `mixed`, a request that
  enrolls or clears has been served beside another one, or beside a bootstrap
  that may still clear the secret (`Pending`); `shared`, two have had one file open;
  `cut` and `torn`, a stop of the enroll UI has cut a technician's request short, or
  one that had the enroll file open.

### EnrollPage and CompanyAccess

A step is what the page's script does between two awaits. In `EnrollPage` a task is
one run of `refresh` (timer) or of a button's handler; tasks share the
sections shown and the one `waitAbort`. What a task will go on with after the
refresh it awaits is its `then`. Requests are served in one step and heard in a
later one, or lost. A standby of BMS is acted on like a failure and is not told
apart. In `CompanyAccess` each page has its draft, its saved snapshot and two
kinds of loads (the one a save waits for, and others); the view's POST goes through
the steps of `LimitedShareView.post`: store the share, read `secrets.yaml`, create the
long-lived token, write it back. Home Assistant's auth store is written later
than it is changed, so a stop may lose a token that has been handed out.

### The services

`WgApply` has one action per docker command; a container run has a number, and
the proxy remembers whose network it joined. `Egress` executes the scripts'
calls in order, for IPv4 and IPv6. In `SocksRelay` each pipe
reads, writes and shuts down in its own steps; a side may close one direction,
or be cut off. The destination's socket keeps the 8 s of `create_connection`
(transparent-socks.py:28) as the time-out of every later call: a read from it after
8 s of silence, or a write to it that takes so long, ends that pipe with what it
holds (`TimesOut`). `ContainerStart` copies item by item, and a stop leaves the item
under way partial.

### Tuya Local

- `TuyaDevice`: a thread in the executor sends the updates that were unsent
  when it began and marks them by key afterwards. `crossed` and `dropped` in the
  history are commands that another command's sending overlapped, and those
  a reset forgot. `_set_values` looks at nothing `set_multiple_values` returns, and
  tinytuya returns most errors (device.py:657): a send either reaches the
  board (`Sends`), or does not and is marked all the same (`SendsUnheard`, noted in
  `hist.unheard`), or raises (`SendFails`); only the last is tried again.
  `TuyaProtocol` has the attempts one by one: `index` and `api` may differ because
  `set_version` runs in the executor. A poll that gets an error fails. A command
  succeeds whatever is returned, with a wrong version and no device too, and then
  counts the version as working.
- `TuyaDps` is a translation of both directions of a device file's rules as
  recursive functions over small numbers. The rule in force is one record that
  its conditions and redirects change step by step. Thirteen entities
  stand for the forms that occur: ten follow device files (a blind that
  mirrors, a dehumidifier whose fan depends on its mode, redirects, ranges
  by unit, masks...), one is a thermostat in tenths with half-degree steps, and
  the example of `devices/README.md` stands in both of its variants. A value is
  set when it is offered, one after the other.
- `TuyaMigration`: an entity's unique id is what it is made of (platform, key,
  old or new form, whose id), an entry's data and options are known, automatic
  or removed types. Registry and entry are written to disk at different times; a
  stop goes back to what was written.
- `TuyaLifecycle`: buckets of `hass.data` by device id, Python objects by
  number, one API object and its lock shared by a gateway's devices.
- `TuyaFlow` / `TuyaImport`: see the modules; Home Assistant's flow manager,
  which ends a flow that takes a unique id another flow has, is external.

## 3. Runs

Ten runs pass, two show a disagreement between code and documentation (section
6). Every constant is in its `.cfg`.

| Run | Bounds | Distinct states | What it shows |
|---|---|---|---|
| `hlk` | two setters, 2 controls, 1 fault, fair | 147 k | `LockDiscipline` on every way out, `NoLeakedConnection`, `PollUndisturbed`; `Recovers`: after the last fault polls succeed again, the failure count returns to zero, every service call returns |
| `hlk_frames` | one setter, 4 controls, 2 late frames, 1 fault, 3 connections | 2.0 M | What is left over on a connection harms no poll: `PollShowsEarlierControls` (a poll that ends shows every control executed before it began), `InputsAnswerOwnPoll`, `FailedConnNeverReused`, `GraceHonoured` |
| `feed` | 2 sensors of which BMS refuses one, 2 households, 1 edit, 1 new enrollment, 1 fault, heartbeat and idle snapshot every 2 turns, one household named as the first, fair | 1.4 M | `Delivered`, `SilenceBounded`; `Converges`: the gate and the cache come to be those of the household enrolled last, and once BMS keeps the box open for good the last edit and the location reach it |
| `enroll` | 2 households, 3 usernames, one of each kind of request, 1 fault, fair | 335 k | `SecretIsOwn`, `SecretIsUsed`, `OwnerReached`, `SecretGone` |
| `enroll_reset` | 2 households, one of which has an admin{}, 2 requests that enroll or clear, 1 bootstrap, reset allowed, 1 fault | 2.8 M | `FileWhole`: the enroll file is truncated only while someone is writing it, but for two requests that open one file and a stop with it open |
| `pages` | 2 access pages, 1 edit each, 1 stop; 1 timer and 1 hand on the enroll page, 2 changes of BMS, 1 fault, fair | 305 k | `OkMeansToken`, `PagesSettle`; `CountdownLives`, `Arrives` |
| `services` | 3 requests to apply, 2 saves, 1 failed command; both address families; 2 chunks each way; 2 seeds, 2 stops, fair | 46 k | `AppliesPublish`, `Installed`, `StartsWhole`; `Delivers`: `SocksRelay` implements `ByteStreams`; `HandlerEnds` |
| `tuya_object` | 1 datapoint, 2 values, 2 commands, 2 attempts, 1 fault; 3 versions, 2 callers; 13 entities, fair | 452 k | `OverlayHolds`, `LoneLastReaches`, `BoardShown` (`ShowsBoard`); `LoneCallTriesAll`, `FindsVersion`; `ReadsBack`, `AsDocumented` |
| `tuya_entry` | families of names of the migration tables, entries of every range of versions, 1 stop; a gateway with one child, 2 entities, 3 set-ups, 2 renames | 1.6 M | `EndsAsUndisturbed`, `KnownStays`; `OneConnection`, `Monitored` |
| `tuya_import` | 2 requests, 2 flows, a hub with its child, 1 upset | 2.0 M | `OneEach`, `PauseEnds`, `QueueKept`, `KeyedCreates` |
| `blind` | 2 commands | | violated: `NeverBoth` |
| `tuya_typed` | as `tuya_import` | | violated: `TypedCreates` |

Why the bounds are enough.

- HLK: four controls and two late frames leave more frames on a connection than
  a poll skips (`MaxSkips` is 2 here, 8 in the code), so a poll on a healthy
  connection fails for that reason too, and they are what it takes for the
  draining read of the inputs to matter (with fewer, leaving it out goes
  unnoticed). Two setters are needed for a queue at the lock; `hlk` has them
  with fewer controls. Three connections are one in use, one abandoned whose
  task still reads, and one new. One fault at any point reaches every handler;
  a second one during recovery re-enters the same handlers, and the safety
  theorems of section 5 hold for any number. The intervals are the code's, in half
  seconds: backoff from 1 s to 5 s, which doubling does not hit exactly. The
  fourth failure in a row reaches that maximum (`FailureCap`); connects refused
  while the slot is taken cost no fault.
- Feed: `EditsReach` (in `Converges`) speaks of a box that BMS opens for good
  (`fail_closed` means that no status is shared, docs/INTEGRATION.md:58), and
  asks nothing for a share all of whose devices BMS refuses, since nothing can
  be delivered of it. It asks that the household enrolled last knows the share:
  the remembered signature survives an enrollment, so it is the idle snapshot
  that tells it. Of a share that is off there is no idle snapshot: a household
  that the box had left and comes back to may keep the older one. That takes two
  enrollments; it is checked with `MaxEnrolls = 2` and one sensor (1.1 M
  states), where leaving the exception out is violated. The idle snapshot is
  every second turn too, so that there are turns without one. A heartbeat every
  second turn gives turns with and without one; with one on every turn a closed
  box would never post, which is the documented behaviour and not that of the
  default. A second edit or enrollment repeats the first, because the agent
  remembers one share only; the invariant is proved for any number.
  The run starts with either no household or one of the two (they are
  interchangeable), and with a share that is on, or off without a list; the edit
  makes one that is off with a list (`MCFairSpec`).
- Enrollment: one fault may take one of the three usernames for good, the
  remaining ones are for the bootstrap and the form. `enroll` has one request of
  each kind at a time, which is what its liveness needs, and never meets an
  exception of `SecretIsOwn` or `SecretIsUsed`. With two of each kind both hold
  as well, with and without reset (checked up to the first mix or cut), and the
  theorems of section 5 are about any number. `enroll_reset` has two requests
  that enroll or clear, a bootstrap and a stop, and meets both exceptions of
  `FileWhole`: without either of them it is violated. An endless reset makes
  liveness vacuous, so it has none.
- Pages: two access pages are one that saves and one that is overtaken. On the
  enroll page a timer's run and a button's are the two tasks that share the
  flag; two changes of BMS are ok, not ok and ok again. `Arrives` asks that the form
  or Home Assistant comes again and again once BMS is ok for good, so a dead wait
  after a form was shown is a violation; `DeadWait`, the countdown that `createOwner`
  leaves (section 6), is its only exception, and the run meets it.
- Services: with three requests, two overlap in every pair of steps while a
  third comes after. Two stops interrupt a start and its repetition.
- Tuya object: two commands on one datapoint are what can cross. With three
  versions rotation wraps at the third. The failures that make a working
  version forgotten (`FailureReset`) are 2 here, 10 in the code.
- Tuya entry: a family is three or four names that the tables send to one
  another, and two of them may exist at once, which is what makes a rename meet a
  taken name. One stop comes between any two writes. `Late` is a device whose new
name ends in its platform's, for the exception that needs it (section 5).
- Tuya import: two flows are two that compete; a third finds what the second
  finds. Keys are with and without the separators the form's keys have.

Two bounds saturate instead of stopping the system: `FailureCap` for the
failure count, and `age` one above the idle snapshot. The others (`MaxSets`,
`MaxFaults`, `MaxLate`, `MaxEdits`, `MaxEnrolls`, `MaxConns`, `MaxStops`,
`MaxChanges`, `MaxSaves`, `MaxChunks`, `MaxReports`, `MaxCommands`, `MaxSetups`,
`MaxRenames`, `MaxUpsets`) bound the environment. Deadlock is checked where the
system goes on for ever (HLK, feed, enrollment, the Tuya object); where a page
may be left, a script ends or the bounds end it (pages, services, entries,
import, blind), it is not. No symmetry is used: the large runs check liveness, or
have one element of each kind.

## 4. Fairness

- `HlkDio16!FairSpec`: weak fairness of the poll (the coordinator schedules it
  again after every result), of every service call once it has started (the
  event loop runs what can run; every await has a time-out, whose expiry is
  an action of the task), and of the board, one loop which answers and notices a
  closed connection. Nobody need make a service call, no fault need happen, no grace
  need end. A time-out happens when its answer cannot come any more, or the
  budget of faults or of late frames pays for it. A task whose connection is
  closed or reset is already scheduled and runs before a connection attempt
  can complete (`Settled`).
- `SensoryFeed!FairSpec`: weak fairness of the agent's loop, one process. An
  edit, an enrollment and a failure never have to happen; failures are
  bounded, so "reaches" means "after the last failure".
- `Enrollment!FairSpec`: weak fairness of requests being served and of a page's
  refresh sending the bootstrap while there is a secret. Strong fairness of a
  page that asks for a QR code being shown one: another request may lock it for
  a while. Strong fairness for trying each free username: a person who reads
  "name taken" tries another one. A form is available again and again but not
  always, hence strong.
- `BoxPages!FairSpec`: requests are served and answered and scripts go on (weak).
  The page's timer fires (weak). States of the house change again and again,
  each of which gives a page its `hass` (strong: a page that is dirty or busy
  ignores it, so it is not always possible). A person presses one of the
  two buttons that an ended countdown offers.
- `BoxServices!FairSpec`: the relay's threads run. A side that has seen an end
  closes or is cut off: the kernel's or the device's own time-outs, without which
  a handler may wait for ever. The other services are checked for safety.
- `TuyaObject!FairSpec`: the executor runs what it is given, the receive loop
  goes on, the time-out of an unconfirmed update passes, and each caller goes on.

Liveness under these is model-checked only.

## 5. Proofs

Every theorem holds for all values of the constants allowed by the named
assumptions of the modules, so for any number of tasks, faults, edits and
requests. Thirty-five of them are the results; the lemmas under them are in the
same modules.

| Theorem | Property | Argument |
|---|---|---|
| `HlkDio16Proofs!Backoff` | `NeverHammers` | `delay` stays within start and maximum, and an interval is a delay that was in force |
| `HlkDio16Proofs!TypeCorrect` | `TypeOK` | one lemma per action |
| `HlkDio16Proofs!SingleHolder` | `LockDiscipline` | inductive invariant `Locked` |
| `HlkDio16Proofs!NoLeak` | `NoLeakedConnection` | every step leaves the socket untouched, drops it or replaces it |
| `HlkDio16Proofs!FailedNeverReused` | `FailedConnNeverReused` | as above; a new connection takes a number that is not the socket's |
| `HlkDio16Proofs!PollAlone` | `PollUndisturbed` | while the poll awaits, it holds the lock |
| `HlkDio16Proofs!Grace` | `GraceHonoured` | a failure is reported by the poll only, after the grace test |
| `HlkDio16Proofs!InputsAreOwn` | `InputsAnswerOwnPoll` | inductive invariant `InputsInv` on the queues of the client's connection |
| `HlkDio16Proofs!PollIsCurrent` | `PollShowsEarlierControls` | from the same invariant |
| `SensoryFeedProofs!FeedTypeCorrect` | `TypeOK` | one step per action |
| `SensoryFeedProofs!FeedDelivered` | `Delivered` | inductive invariant `DeliveryInv` |
| `SensoryFeedProofs!FeedSpeaks` | `SilenceBounded` | inductive with `TypeOK`; an iteration ends in a post, a failure or in time |
| `EnrollmentProofs!EnrollTypeCorrect` | `TypeOK` | one step per action |
| `EnrollmentProofs!SecretOwn` | `SecretIsOwn` | inductive invariant `SecretInv`; no assumption on the number of requests |
| `EnrollmentProofs!SecretUsed` | `SecretIsUsed` | from the same invariant |
| `EnrollmentProofs!FileIsWhole` | `FileWhole` | inductive invariant `FileInv`; no assumption on the number of requests |
| `BoxPagesProofs!TokenIsGood` | `OkMeansToken` | inductive invariant `Grounded`; no assumption |
| `BoxPagesProofs!NoDeadCountdown` | `CountdownLives` | inductive invariant `PageInv`, under `PagesAssumption` |
| `BoxServicesProofs!Publishes` | `AppliesPublish` | inductive invariant `WgInv`, under `ServicesAssumption` |
| `BoxServicesProofs!FilterInstalled` | `Installed` | inductive invariant `EgressInv`, one copy per family |
| `BoxServicesProofs!FilesAreWhole` | `StartsWhole` | inductive invariant `StartInv`, under `ServicesAssumption` |
| `BoxServicesProofs!Implements` | `Delivers`, the refinement of `ByteStreams` | inductive invariant `InOrder`, `TrueEnd`; each step maps to a step or a stutter; no assumption |
| `TuyaObjectProofs!LastReaches` | `LoneLastReaches` | inductive invariant `IInv`, under `DeviceAssumption` |
| `TuyaObjectProofs!OverlayKept` | `OverlayHolds` | from the same invariant, step by step |
| `TuyaObjectProofs!AllTried` | `LoneCallTriesAll` | inductive invariant `AttemptsInv`, under `ObjectAssumption` |
| `TuyaObjectProofs!PlainReadsBack` | `ReadsBack` | inductive invariant `PlainInv`, for entities that are `Plain`, under `ObjectAssumption` |
| `TuyaImportProofs!FlowsAlone` | `OneEach` | inductive invariant `FlowInv` (`Alone`), under `FlowAssumption`, `ImportAssumption` |
| `TuyaImportProofs!PausesEnd` | `PauseEnds` | `FlowInv` (`Held`) |
| `TuyaImportProofs!KeepsQueue` | `QueueKept` | inductive invariant `ReqInv` (`Kept`) |
| `TuyaImportProofs!RowsCreate` | `KeyedCreates` | inductive invariant `CalmInv` beside `FlowInv` and `ReqInv` |
| `TuyaEntryProofs!KeepsKnown` | `KnownStays` | each step's change of the registry renames, scopes or deletes, and what its file knows none of them takes away |
| `TuyaEntryProofs!MigrationEndsAsUndisturbed` | `EndsAsUndisturbed` | inductive invariant `CourseInv`, under `MigrationAssumption` |
| `TuyaEntryProofs!EntryMigrates` | | every behaviour of `TuyaEntry` is one of `TuyaMigration`, so both theorems about the migration hold of the entry |
| `TuyaEntryProofs!OneConnectionEach` | `OneConnection` | inductive invariant `LifeInv` (`Connected`), under `EntryAssumption` |
| `TuyaEntryProofs!MonitoredWhileUsed` | `Monitored` | `LifeInv` (`Watched`, `Wanted`, `PollOwns`) |

**HLK.** `LockDiscipline` alone is nearly inductive, but a step of a task on a
connection needs to know where the task is: `Locked == TypeOK /\ LockDiscipline
/\ OnConn`, where `OnConn` says that a task that reads has a connection to
read from. The many actions of a task are reduced to one shape, `Moves(t)`: it
keeps its place in the lock's queue, enters at the end, leaves from the head,
or goes from the head to the end. Four lemmas about the queue then prove all of
them. In the same way a step's effect on connections is one of three,
`SocketStep`: untouched, dropped or replaced. `PollUndisturbed` holds although
the coordinator disconnects without the lock: while the poll awaits a frame it
holds the lock, so that no service call is inside a transaction, and one that has
left it forgot the socket in the same step (`OthersQuiet`). `PollOwns`, that
the poll awaits the client's own socket, follows, and gives `Grace`: the
poll never meets the exceptions that pass by the grace test. For the service
calls the same is false (`SingleFlight`, section 6), because the poll's connect
needs no lock.

Which answer a poll reads is a matter of the queues of the client's connection.
`InputsInv` says by the poll's `Phase` what they carry (`Carries`). While the
poll asks for inputs there is at most one request for them or one answer in
both queues together, and that answer and every frame behind it were computed
since the poll began. Once it asks for outputs no input frame is left, and all
frames in the queue are as new; at any other time there is no input request or
frame at all, so none of an earlier poll can be taken for this one's. There is
one lemma for each thing that can happen to the queues: a request is appended,
the board serves one, a frame is taken.

**Feed.** `Delivered` says that when the share the agent remembers as delivered
is the one on disk, the household that took it has the share's switch and no
device outside the share (a refused device is one that BMS does not have).
Its strengthening is `DeliveryInv == TypeOK /\ Ordered /\ Sending /\ Taken`: the
agent's copies of the share are as old as their times say, so an edit never
brings an old copy back (`Ordered`); what waits to be sent belongs to the share
that was read (`Sending`); and after the first device that BMS took alone, the
household has that share already (`Taken`). It is needed because a share may be
edited, and a box enrolled again, between any two of those calls, and because
a device posted alone may be refused. `SilenceBounded` is inductive with the
types: every way to the sleep of an iteration is a post that was accepted, a
step that raised, or `ReadsStates` finding the idle interval not over.

**Enrollment.** The theorems are about any number of requests of every kind at
once, with reset and without. What the code does not ensure is named in the properties
by what has happened (`hist`), not assumed: a counterexample exists for each
exception (section 6). Every step is of one of three kinds, by a request that enrolls
or clears, by one that creates the owner, or a fault (`Kinds`), and `Roles` says
which steps each request takes and which file it has open meanwhile.

`SecretInv` holds `OneSecret` until requests are mixed. A request that enrolls
or clears is then alone with no pending bootstrap (`Apart`). A QR code is under
the temporary name first, then in the enroll file, and its secret comes last,
with no bootstrap rewriting the file meanwhile (`Scanned`). The secret that a
pending bootstrap has sent is on disk until one clears it, and none appears
while the flag is taken out of the file (`Sent`); bootstraps of one household
may overlap in any number. Between the requests the secret is the enrolled
household's, and without reset there is none while a QR code is saved, which
makes a stop harmless (`Settled`, until `cut`). `SecretIsUsed` follows from
`Sent` and needs no word about stops.

`FileInv` holds `Whole` until two requests share a file or a stop tears it: one
request at most has each file open, which is truncated as long; a truncated
enroll file is open; and a truncated temporary file that some request is about
to rename is open too, so that its text will arrive behind the rename. Nothing
is said of whose text it is: two requests that enroll one after the other on one
temporary name may well rename each other's.

**Access page.** `OkMeansToken` looks at the end of a save. `Grounded` looks at
its middle too: a save that found the stored token good, and is on its way to
answer, relies on a token that nobody but a stop takes away, and a stop ends
every save that is under way.

**Enroll page.** `CountdownLives` says that a countdown that is shown has
something that ends it. `CountdownInv` strengthens it by the flag that the
page's waits share: while a countdown is shown the flag is not set, so the task
that carries the countdown (`Carries`) does not leave at its next look. Every
handler is shown to be a move of one task that hides the countdown, shows it and
waits, or leaves it to a task that still carries it (`Moves`).

**WireGuard.** Once somebody has asked for keys and no docker command has
failed, either a request under way will still start a run with the keys there
are (`WillRun`), or the run has them; and either one will still join the proxy
to the run (`WillPublish`), or it is joined. `AppliesPublish` is the case that
no request is under way. A request that is about to create a container counts
only while there is none, because the loser of a race to create one gives up.

**Egress and container start.** `EgressInv` ties a family's chain to the line
the script is at: of each family's chain a prefix of the rules is there, while
the script works on it the one that its line says, and behind it all of them
with the jump. Since a later run flushes a chain that is jumped to already, the
private networks stay reachable because every prefix without `reject` accepts all
and every other one accepts them first. `StartInv` does the same for a file and
the stage that looks at it: a file no stop has hit is absent, or stock, only
before its stage has looked at it, and partial, or torn, only while it is
written. `ServicesAssumption` says that the stages write different files.

**Relay.** What a thread holds, and then its buffer, follow what it has passed
on without a gap (`InOrder`), and the end it passes on is its side's, with
everything sent, unless a side was cut off or its own thread timed out
(`TrueEnd`). With these, a thread's send is the abstract `Receives`, its
shutdown or close `Ends`, a reset or a time-out `Loses` (for both sides, or for
the one), and reads are stutters.

**Tuya attempts.** A lone call that rotates through the protocol list must try
every version. `AttemptsInv` says where it stands: with `Behind(v)` the number
of rotations since `v` was in turn, it has tried every version less than its
attempt number behind (`Cycles`). It makes 2N + 1 attempts, and a version is
less than N behind, so it has tried all when it gives up. A command gives up
only when its call raises; of one whose error is returned nothing is claimed,
since it succeeds. `Sole` keeps other calls from rotating the list meanwhile. No
bound on N is assumed.

**Tuya device.** The invariant is about a datapoint's last command, `Lone(c)`:
its update is the one shown (`Overlaid`); while it waits, the update is there
and not sent (`Waiting`); any call on its way that carries the datapoint carries
its value, and has brought it to the board once it marks (`Carried`), unless it
was on its way before the command was made (`crossed`); and its own call carries
it (`Brought`), unless a send of it was not heard (`unheard`).
`DeviceAssumption` keeps `None` apart from values and updates.

**Tuya device files.** A conversion calls itself for the rule that a condition or
a redirect leads to, and no induction over its calls is available. `Plain(e)`
describes the entities for which it need not be followed further than two
datapoints. A datapoint is `ByName` (every mapping gives a value, or leaves that to
its conditions on another datapoint, which either can be set to what they ask for,
or decides between names) or `ByNumber` (at most one mapping, with a scale, a step,
an inversion). No two of one id share a bit of their masks. For these the
recursive functions are shown equal to plain expressions, what is shown
(`ValueIs`) and what is sent (`SetIs`, `SendsTwice`). From
there: the datapoint takes what is sent (`Takes`), the rule found for the value is
the one found again for what was sent (`NameReadsBack`, `NumberReadsBack`), and
the bits of a mask that are not its own stay (`MergedOthers`). `PlainInv` says that
every datapoint of the entity is there, that the masked ones hold numbers
(`Separate`), and `ReadsBack` itself. Seven of the thirteen entities of the run are
plain; those with redirects, mirrors, target ranges, and the fan whose step depends
on a condition, are checked by TLC only.

**Tuya flows and import.** A flow that has taken a unique id is alone with it
and no entry has it (`Alone`); from its type step on it is that of the device it
tested (`Tested`); a paused device has a test that will resume it (`Held`). The
import's requests drive the same flows, so each of their steps is shown to be
one of the flows' (`Moves`, and lemmas for those that test, take an id, or
end). For the list, a request between opening and renaming the temporary file is
the only one unless `overlap` is noted (`Kept`). `FlowAssumption` and
`ImportAssumption` say that `None` and the number 0, which stand for nothing,
are no ids, flows or lists, and that rows are of known devices.

`KeyedCreates` promises a row with a good key its entry unless something upset
its flow. `CalmInv` says what calm means for all requests at once: while no upset
has been used, no flow is driven by two requests and none that is driven is
gone (`Driven1`), each flow is at the step where its request left it, with
the id of the row (`InCourse`), and every report written so far is good
(`AllGood`). The bound on upsets counts down, so the first one ends the calm.

**Tuya migration.** `EndsAsUndisturbed` compares the entities with what folding
all 28 steps would make of each. The fold is taken as a course: `Follows(S, c,
e)` says that `c` is a sequence of 29 ids that starts with `e` and of which each
follows from the one before by the step's `Outcome`. A course exists, is the
only one, and ends in what the fold gives (`CourseExists`, `OneCourse`,
`UndisturbedFollows`). `CourseInv` says that at any time each entity is
somewhere on its course (`Along`), no less far than the steps that are over with
it, and that a step it has passed, when it is made again, leaves it as it is
(`Rests`). This is claimed of the registry in memory with the entry's level and
of what is on disk with the entry on disk, which is why a stop is harmless: it
picks one of each (`Reloads`). It is needed because a stop may lose the entry's
new version and keep the new ids, so that steps meet ids they have made
themselves. Most do not mind: a name that a table gave is one the file has, and
no other table takes such a name away (`KnownRests`, `Settles`). Three stops do
harm, and `Torn` names them: the entry's level was written and the ids were not;
entities that bear the gateway's id while the entry does not know it yet; and a
step back behind 13.1, which takes a name that a later step gave and that ends
in the platform's for one without a name. `MigrationAssumption` states what the
proof uses of the constants.

**Tuya set-up.** `Monitored` and `OneConnection` follow from one invariant,
`LifeInv`. A connection and its lock are made together, and who polls holds the
lock (`LockWithApi`, `PollOwns`), so two loops that poll are of two connections.
Who uses a connection uses the one in the gateway's bucket (`Connected`),
unless a set-up was cut off (`past.cut`). An object that is running has a loop,
or lost its listener in a way that is noted (`Watched`), and a loop, or a
listener that will start one, is of an entry that is set up, and starts after
the first poll (`Wanted`). The exceptions are those of the property:
`past.early` and `past.missed` are the disagreements of section 6.

Not in the reach of these provers, and left to TLC: liveness under fairness and
`ENABLED` (`Recovers`, `Converges`, `OwnerReached`, `SecretGone`, `PagesSettle`,
`Arrives`, `BoardShown`, `FindsVersion`, `HandlerEnds`), and induction over data, so
what a recursive function computes for every input: `ReadsBack` of entities that are
not plain, whose redirects and mirrors may lead any number of datapoints further.
`AsDocumented` compares the conversions with the tables of one documented example,
which only an instance has. Every other property of a passing run is a theorem. No
module declares a recursive operator.

## 6. Disagreements found

Two runs are violated; `PROJECT.json` has the quotes.

| Run | Property | What happens |
|---|---|---|
| `blind` | `NeverBoth` | "never leave both on": open and close given shortly after one another interleave as off, off, on, on. Commands that do not overlap never do it. |
| `tuya_typed` | `TypedCreates` | The import sends a row's type as `type` or with `\|\|\|` appended; the form's keys have more separators, so a typed row is refused at `select_type`. |

More statements of docs and comments do not hold in the models. Each is a
definition at the end of its module; to see a counterexample, add it to a
configuration as named.

| Statement | Add to | What happens |
|---|---|---|
| `HlkDio16!SetShowsOwnControl` | `PROPERTY` in `Hlk.cfg` with `MaxLate = 1` | A state frame that comes after the extra read is taken by the next `set_output` for its own answer. The poll puts it right. |
| `HlkDio16!SingleFlight` | `PROPERTY` in `Hlk.cfg` | The poll connects beside a service call; its refusal sets the reader and writer to None under that call. |
| `SensoryFeed!FailClosedHonoured` | `PROPERTY` in `Feed.cfg` | `fail_closed` is heard on heartbeat turns only; in the turns between a closed box posts its status. |
| `Enrollment!FirstEnrollKeeps` | `PROPERTY` in `Enroll.cfg` with two `Enrollers` | Two QR codes posted at once both pass the lock, and the later replaces the earlier. |
| `Enrollment!NeverReopens` | `INVARIANT` in `Enroll.cfg` | A stop during the in-place rewrite leaves an unreadable enroll file, and an unlocked box. |
| `Enrollment!ConsumedOnce` | `PROPERTY` in `Enroll.cfg` | An answer nobody hears leaves the one-time secret, which the next refresh applies again, over a password chosen since. |
| `Enrollment!OwnerSetupOnce` | `INVARIANT` in `Enroll.cfg` | Bootstrap and form both find no owner; the second one leaves an admin beside it. |

What was met on the way and contradicts no documented sentence:

- Enrollment and pages. The runtime cache may for a while hold the flags of
  the household enrolled before (agent.py:169). On the enroll page,
  `createOwner` asks for the status once more after its wait; when that answer
  is lost the countdown stays and every refresh respects it
  (enroll_ui.py:724), which `CountdownLives` excepts as `stuck`; a stale refresh may
  show the QR section again. On the access page, a stop between storing the
  refresh token and writing `secrets.yaml` leaves the token's client name taken
  and no token: later saves are refused, which is why `OkMeansToken` speaks of saves
  that are answered ok.
- Enrollment with several requests at once. Two requests that enroll open one
  temporary name, and the longer text's end may remain behind the shorter one
  (`hist.shared`); a bootstrap that rewrites the file truncates the one another
  has just renamed. A bootstrap that is pending while the box is cleared and
  enrolled again clears the new household's secret, and two requests that enroll
  may leave the file of one with the secret of the other (`hist.mixed`). A
  technician's box whose request is stopped between file and secret keeps the
  secret of the household before (`hist.cut`), and one stopped during the
  rewrite an unreadable file (`hist.torn`).
- Feed. A share that is off is not told to a household the box had left and comes back
  to (`hist.left`): nothing is posted while the signature is unchanged and the
  share off.
- Relay. The 8 s of the connect stay on the destination's socket: a destination
  that is silent for 8 s has that direction ended, its later data lost, and the
  client sees an end that nobody made (transparent-socks.py:28, 43).
- Container start. A partial copy is not seeded again, since it exists, and a
  branded text keeps its compressed siblings. `Installed` says nothing of the
  window between the flush and the last rule of a later run.
- Tuya device. `_set_values` drops what `set_multiple_values` returns
  (device.py:657), and tinytuya returns most errors: a command that failed is
  marked as sent, is shown until its time-out, clears the failure count and
  marks the version as working (device.py:702). `LoneLastReaches` excepts it by
  name; `FindsVersion` and `BoardShown` hold with it, because polls notice. A
  command made while another one is being sent may be marked as sent without
  being sent (device.py:664), and a failed poll forgets commands not sent yet
  (device.py:721): `LoneLastReaches` excepts both by name too.
- Tuya device files. Setting `heat` while a later condition already gives it changes
  the preset to the first that matches, as documented. A redirect drops the
  condition's side effects. Rounding to a step can leave the range (a speed of 2
  in steps of four).
- Tuya migration. A stop that keeps an id which 13.19 gave and goes back behind
  13.1 lets 13.1 rename it again, because it ends in the platform's name; `Torn`
  excepts it. A name table that maps to nothing (13.2) raises and the entry
  fails for good. An entry of version 1 or 2 without a known type fails with a
  `KeyError` in `setup_device`, and version 1 keeps its type in the options
  only; two old entities of one new name raise each time; `update_unique_id` for
  version 6 and before renames nothing; `swtich_motion_notification` is misspelt
  in its table.
- Tuya entries. `_startup_listener` is never cleared: the monitor of a device that
  the start of Home Assistant started never starts again after its last entity was
  renamed. The listener of a device unloaded before that start still starts its loop.
  A gateway's reload drops the bucket its children use, and a second connection
  to it is made (device.py:95). `Monitored` and `OneConnection` except these.
- Adding devices. A row is reported "exists" when only a child of that hub has
  an entry, or a flow of that device is open, which one that an import left at
  its time-out may stay (tuya_import_ui.py:281); two saves of the list at once
  share a temporary name and may lose one (tuya_import_ui.py:245); a failed
  login clears the cloud login of all flows; of two overlapping tests the first
  resumes the device under the second; discovery raises a device once per start.

## 7. What is not modelled

- The MCP server: stateless; each request is decided from its own fields. The
  gateway's routes, dashboard pages, compose files and deploy scripts: static.
- Pure conversions: frame bytes, parsing of QR codes, of CSV, of YAML and of Home
  Assistant's storage. No property here depends on them.
- HLK: unloading an entry, the config flow's probe. Agent: environment
  credentials, climate and activity rows. Enroll page: the camera, the post of the
  password reset, the technician's reset. Egress: `lan_socks`. Container start:
  the storage of pipelines. WireGuard: parsing of keys, host paths.
- Tuya Local: the platforms (light, climate, ...), which read and set values as
  `TuyaDps` has them; bitfields, encodings, nested maps and "available" rules
  of device files; services, diagnostics, infrared; protocol 3.22's doubled
  attempts and error 900; the device's cloud data; the `finally` of a
  cancelled receive loop; the discovery sweep, which is switched off.
- Reloads of Home Assistant's own state machine, flow manager and registries are
  external and modelled as the code uses them.

## 8. Where to go on

Proofs worth adding next: `PlainReadsBack` for a redirect to a datapoint that has
none itself, and for target ranges, whose rounding is the hard part; and
`LifeInv` without the exceptions, once the causes in section 6 are gone from the
code. Models: the entities of Tuya Local's platforms on top of `TuyaDps`; the HLK
entry's unloading; the access page's temporary file.

## 9. Running it

```
tlc -workers 2 -config HlkFrames.cfg MCHlkDio16.tla
tlc -workers 2 -config BoxPages.cfg MCBoxPages.tla
tlc -workers 2 -config TuyaObject.cfg MCTuyaObject.tla
tlapm HlkDio16Proofs.tla
```

The longest runs, `TuyaImport.cfg`, `Feed.cfg` and `BoxPages.cfg`, take two to
three minutes with two workers, the longest proofs, `TuyaObjectProofs` and
`HlkDio16Proofs`, about six and four. The configuration and the module of each
run are named in `PROJECT.json`.
