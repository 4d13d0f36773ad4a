# FoxTrack Bridge: TLA+ models

These modules describe the concurrent core of the FoxTrack Bridge: how printer
states become print records, events and posts to FoxTrack, how settings are
saved and followed, how commands and clicks are carried out, how a print is
started and its objects skipped, when a smart plug is cut and filament is
booked, how the one connection of a Bambu Cloud account is kept, how a
timelapse survives restarts, and how the program replaces itself. Each module
is translated from the Go sources under `src/`; `PROJECT.json` gives the lines
that every definition stands for. TLC checks small instances of all of them;
TLAPS proves every safety property of the runs that pass for every value of
the constants.

Contents:

1. [The system](#1-the-system)
2. [Modules](#2-modules)
3. [How to run](#3-how-to-run)
4. [What each run checks](#4-what-each-run-checks)
5. [Fairness](#5-fairness)
6. [What is proved](#6-what-is-proved)
7. [Disagreements found](#7-disagreements-found)
8. [Assumptions and what is left out](#8-assumptions-and-what-is-left-out)
9. [Plan](#9-plan)

## 1. The system

The Bridge is one Go process beside the printers. It keeps a connection to
every printer, shows their states on a local dashboard, and relays them to the
FoxTrack service. Everything below runs on goroutines of that process; the
mutexes named are package variables.

| Part | State it keeps | Operations | Must hold |
|---|---|---|---|
| Relay delivery (`webhook/sender.go`) | per endpoint and serial: `seq`, `delivered`, `mu`; `pendingRelayRetries` | `SendRelay`, retries with growing waits | FoxTrack never goes back behind a status it acknowledged; a status is left out only for a newer one; the lock and the retry slot come back |
| Order of posts (`lan/lan.go` `queueRelay`, `mqtt/mqtt.go` `makeHandler`) | `relayBusy`, `relayPending`; `relaySeq`, `relayTurn` | hand a snapshot over, post it, forget the printer | one post at a time, never an older one after a newer one, the newest always goes out, the end of a print is not skipped |
| HTTP printers (`lan/lan.go`) | `cancelers`, `states`, `sessions`, each under its lock | poll loop, `RegisterPrinter`, `UnregisterPrinter`, `RenamePrinter`, `ForgetPrinter` | a print has one record; a removed printer stays removed; another print closes the last one's session |
| Bambu printers (`mqtt/mqtt.go`) | `printerStates`, `activeSessions`, `managedPrinters` | connect, report handler, drop, restart, rename | as above, over lost connections and partial reports |
| Bambu Cloud (`mqtt/cloud.go`, `server_cloud.go`) | the account, `cloudRun` under `cloudMu` | link, unlink, printers changed, token refused, retry now, the loop | one connection per account, which follows the account; holds after too many failures |
| Configuration (`config/config.go`, `server.go`) | `configStore`, its clone number, the file | handlers that change, save, connect and disconnect | an answered change is not lost; the file ends up as the live config; connections follow it |
| FoxTrack commands (`bridge_commands.go`, `printjob.go`, `files_commands.go`) | ids seen, jobs per printer, download cache, file locks | poll, ack, run, download, send, report, prune | no command twice without a lost ack; one file job per printer; jobs end |
| Smart plugs (`plug/manager.go`) | an entry per printer under `mu` | poll, automatic off, `Set`, `PrintEnergy`, `Sync` | no cut in a print that was seen; one automatic off per print |
| Timelapse (`timelapse/`, `timelapse_routes.go`) | sessions, folders on disk, build queue, retries | start, capture, end, `Recover`, build, delete | pictures become a video, once, of one print |
| History and health of the relay (`webhook/sender.go`) | the records that wait for a retry, the health the dashboard shows | `SendHistory`, its retries, `RelayHealth` | what is given up is counted back; no record is lost but for its age, the limit or a refusal; the health says what the last answers say |
| Events (`events_watch.go`) | `watched`, `alarmSentAt` | compare two looks at the states, publish | a start is told of a print that started, not of a Bridge that did |
| Notifications (`notify/`, `notify_routes.go`) | the channels with their secrets, the last results | save, test, send | a secret goes only to the address it was given for |
| Pacing (`pace/`, and its users in `lan.go`, `mqtt.go`, `bridge_commands.go`) | `known`, `watchedUntil`; per printer the last post, `webhookHeld`, the last picture | a reply, a refusal, a failed poll; `Decide`, `SnapshotGap` | a printer that reports is heard of in time, a change that waits is told, quick mode outlasts a failed poll |
| The dashboard's buttons (`server.go`, `mqtt/capability.go`) | `controlKeys`, `controlBlockedAt` | guard, look up the key, run, remember | a click runs once unless there is a reason; a stop always goes out |
| Spoolman (`spoolman/`) | the log of bookings | book a use, retry it, change the settings | a use is booked once at most, on the server of its spool |
| Maintenance (`maintenance/`, `history/`) | tasks, what was announced, the history file | check after each print, do, delete and bring back a task | a task that comes due is announced once |
| Home Assistant export (`mqttexport/`) | what it and the broker retain | connect, learn what is there, publish, remove | the broker ends up with the configs of the printers there are |
| Self-update (`update/`) | the staged file, the executable, the process | download, verify, stage, rename, relaunch | the program that runs is whole and verified |
| Sign-in (`security.go`) | the password, tries, locks, slots | sign in, change the password | a session was given to someone who knew the password; tries are limited |
| Cloud sign-in (`cloud/bambu.go`, `server_cloud.go`) | the account's calls and holds, the device list | log in, have a code emailed, verify, paste a token, list | calls keep their intervals, the email those of its login; a list is that of its account |
| The account's printers (`mqtt/cloud.go`) | serials, names and states | add, rename, remove, report, drop | commands go by the account; a removed printer stays removed |
| Starting a file, skipping objects (`mqtt/print_file.go`, `skip.go`) | the errors and refusals noted, the job's file, lists and skips | upload, start, watch; load, skip, confirm | a refused start does not print; a skip is of the print that runs |
| Cameras (`camera_rtsp.go`) | a hub per printer with its viewers | join, leave, idle stop, picture | one ffmpeg, which is not stopped under a viewer nor left running without one |
| Assistant (`server_ai.go`, `ai/`) | its settings and key; nothing of a chat | save the settings, list the models, a chat's rounds of calls and results | the key goes only to the endpoint it was typed for; the provider gets each result once and in order; no picture that was never allowed |
| File transfer (`ftps/`) | one call's two connections and their `connSet` | upload, download, list, cancel | a transfer that counts as done is whole; a cancel leaves no connection open |
| Virtual printer (`virtualprinter/`, `server_wave27.go`) | the server, its port, key and forwarder; uploads under way | `Apply`, `shutdown`, an upload | the server follows the settings; slots and temporary files come back |
| Discovery, probes, health messages, costs, metrics, dashboard, start-up | little or none | requests and pages | not modelled: I/O, formatting, or no state |

How they interact:

- A poll (`lan`) or a report (`mqtt`) updates the live state, then the print
  session; the end of a print is handed to the history, which calls Spoolman,
  the plugs' `PrintEnergy`, maintenance and `publishPrintEnd`. The same state
  is handed to the relay.
- Every 3 seconds the watcher compares the live states and publishes events;
  subscribers (notifications, timelapse, export) run on goroutines of their
  own, in any order.
- Handlers change `configStore` under `configMutex`, save a numbered clone,
  and adjust connections after the lock is released. Plugs, export and the
  cloud connection are given the new config in the same way.
- Commands from FoxTrack go through the same calls as the dashboard's buttons.

The hard parts are the ones that a unit test does not reach: three locks
around one poll; posts, handlers and events that overtake one another; answers
that are lost although the request was carried out; a restart between two
writes; waits that race with a signal; a queue or a limit that is reached.
`PROJECT.json` lists them as hazards, with the properties that cover them.

## 2. Modules

A component has a module of its own; its variables carry the names of the
code's, and an action is one critical section or one request of the code, with
everything it changes. Names of actions are the code's where it has one.
Operators marked *Mutant* are slips that a property must catch; no
specification uses them.

| Module | Models | State → code |
|---|---|---|
| `RelayDelivery` | `SendRelay`, `deliverRelay` and the retries | `seq`, `delivered`, `holder` are `relayState`; `call` is where each `SendRelay` is; `pending` is `pendingRelayRetries`; `stored`, `abandoned`, `late` are FoxTrack's side |
| `StatusRegister` | *abstract*: what delivery promises, a register per printer that moves forward | refined by `RelayDelivery` |
| `RelayQueue` | `queueRelay` and its goroutine | `busy`, `relayPending` as in the code |
| `RelayTurns` | the turns of `makeHandler`'s posts | `relaySeq`, `relayTurn`, and each goroutine's `mySeq` and `prev` |
| `StatusFeed` | *abstract*: an ordered feed that may leave out snapshots but not the newest | refined by `RelayQueue` and by `RelayTurns` |
| `LanSession` | poll loops, `storeState`, `updateSession`, `markOffline`, the handlers that restart, rename, remove | `current` is `cancelers`, `states`, `session` are the controller's maps, `todo` what a handler has still to call |
| `BambuSession` | the management goroutine, `makeHandler`, edits | `state` is `printerStates`, `session` is `activeSessions`, `handler` the report between its three locks, `wire` reports under way |
| `ConfigStore` | `Clone`, `SaveConfig`, the handlers of printers and settings | `live`, `file`, `cloneGen`, `savedGen`; `job` is what a handler has still to do; `mqtt`, `poll` are the running connections |
| `BridgeCommands` | the poll of commands, acks, jobs, the download cache | `seen`, `busy` are `printJobTracker`; `cached` the files; `job` where each command's goroutine is; `ft` FoxTrack's side |
| `PlugManager` | the pollers, automatic off, `Set`, `PrintEnergy`, `Sync` | `entry` is the manager's; `proc`, `taking` are calls between two critical sections |
| `CloudRunner` | `SetCloudPrinters`, `cloudRunner.loop`, `RetryCloudNow`, `expireCloudToken` | `cloudRun`, the loops' own counters, `job` the requests |
| `Timelapse` | `Recorder`, its worker and retries, the tick, the events, `Recover` | `session`, `queue`, `queued` as in the code; `disk` the folders; `loop` the ticking goroutine |
| `CloudPrinters` | `setPrinters`, `dropClient`, `handleMessage` of the account | `names` and states by printer; `inHand` is a report between its lookup and its store |
| `CloudSignIn` | the sign-in calls, their slots and holds, `sendCode`, which takes no slot, `Devices` | `since` the ages of `lastLoginAt` and the others, `hold` what is left of `holdUntil`; the cached list and its token; `quiet` observes when each call was sent |
| `PrintStart` | `PrintProjectFile`, `waitForStart`, the notes of errors and answers | the caller's place, what the printer has reported, what was noted |
| `SkipObjects` | `noteSkipFields`, `loadSkipObjects`, `SkipObjects` | the job's fields, and each request's copy of them |
| `CameraHub` | `rtspHub`, `rtspSnapshot` | `hub` are the hubs made, `current` the one in `rtspHubs`; `firing` an `idleStop` that waits for `rtspMu` |
| `Pacing` | `pace`, `shouldRelay`, `snapshotDue`, the poll's delays | `pace` is `known` and what is left of `watchedUntil`; `relay`, `snap` the times of one printer |
| `Controls` | `handleControl`, `runControl`, `NoteControlReply` | `remembered` is `controlKeys`, `blocked` is `controlBlockedAt` while it counts |
| `HistoryRetry` | `SendHistory`, its retries, the health | where each record's post is; the flags of `RelayHealth` |
| `HomeAssistant` | the exporter's session | `known` is what it believes to be retained |
| `EventWatcher` | the watcher's tick | `watched` as in the code; the printer's stored state |
| `Notifier` | saving, testing and sending to channels | the stored channel, the page's copy, messages under way |
| `SignIn` | `handleLogin`, changes of the password | each request between its copy, its check and its end |
| `SelfUpdate` | `StartInstall`, staging, the rename, the relaunch | where each install is; the files beside and in place; the process |
| `Assistant` | `handleAISettings`, `handleConfig` with an `ai` block, `handleAIModels`, `RunChatLoop` | `ai` is `config.AI`, `chat` the locals of each chat's loop, `said` what it has added to the messages; `moved` observes the keys that `handleConfig` put beside another endpoint |
| `VirtualPrinter` | `Apply`, `handle`, `upload` of the server for slicers | `server` are the `Server`'s fields, `upload` where each request is, `temp` its file on disk |
| `FileTransfer` | `Upload`, `Download`, `List`, `connSet` | `xfer` is the call, `conns` and `ctx` the `connSet` and the context, `card` the printer's side |
| `SpoolBooking` | `Syncer`, its retries and log | `entries` as in the code; `booked` Spoolman's side |
| `Maintenance` | `Announcer`, the checks, the tasks | `announced`, `saved`; each check between its three steps |
| `*_proofs` | theorems about a component | see section 6 |
| `MC*` | instances for TLC | see section 4 |

Composition: the runs put the modules of one theme side by side, each part of a
run being one of them; they meet at an interface that each models from its
side. `ConfigStore` decides which connections run, `LanSession` and
`BambuSession` what a connection does when it is restarted or renamed;
`RelayQueue` and `RelayTurns` treat a `SendRelay` as one step that
`RelayDelivery` spells out, and `Pacing` says when there is one;
`BridgeCommands` treats sending a file as one step that `PrintStart` spells
out; `EventWatcher` reads the states that `LanSession` and `BambuSession`
write; `PlugManager` takes the report's two halves (state, session) in the
order that those two give them.

## 3. How to run

In this directory, with the community modules in the library path:

    tlc -workers 2 -config MCRelay.cfg MCRelay
    tlapm Relay_proofs.tla

## 4. What each run checks

Most `MC` modules have a variable `part`: the first state picks one of a few
instances of the component, and the next-state relation keeps to it. So one
run covers an instance with every operation, one with deeper bounds and fewer
operations, and one with fairness. A property that is meant for some of the
parts says so in the `MC` module.

| Run | Parts and bounds | Shows |
|---|---|---|
| `relay` | `delivery`: three calls for one printer, two attempts each, room for two retries. `http`: twelve snapshots, three removals. `bambu`: four posts, two removals. `history`: two records, room for one retry, a restart. `export`: two printers, two changes, a mishap | `ImplementsRegister`: no acknowledged status is replaced by an older one, none is left out but for a newer one. `QueueImplementsFeed`, `FollowsFeed`: the other two refinements. `PostsEnd`: locks, slots and turns are given back. `HistorySettles`: a record ends as taken, too old, or dropped for the limit, and the health agrees with the answers. `DiscoverySettles`: the broker ends up with the configs of the printers there are |
| `lan` | one machine, two prints, two loops, two outages, two names; `poll`, `overtaken`, `track`, `watch` | `RecordedOnceIfWhole`: one record per print. `RemovedIsGone`: a late poll does not bring a removed printer back. `SwitchClosesPrint`: another print closes the session of the last. `TrackedPrintIsRecorded`: every print that was seen is recorded. `StartsAreNews`: a start is told of a print that started since the last look |
| `bambu` | two prints, two lost connections, one edit, two reports under way (`resumed`, `unnamed`, `live`); two starts and two error codes (`start`); two skips (`skip`); three viewers and an address that changes (`view`, `shot`); one printer's pace (`posts`, `pictures`); one transfer of up to two blocks, with a cancel (`file`) | `RecordedOnce`, `SessionIsThePrints`, `SeenEndIsRecorded`, `LiveStateCatchesUp`; `PrintCommandsAreTrue`: a start told as refused does not print, a skip is of the print that runs, and a file that counts as transferred is whole; `CameraIsShared`; `PaceIsKept` |
| `config` | two requests over one printer, or one at a time over two names and two settings, a failing write, a restart; a channel, two saves and a test; three sign-ins at once; one press of "Update now" beside the loop; a chat of two rounds of two calls, while the settings are saved; three uploads from slicers over two changes of the virtual printer | `AnsweredIsKept`: a change that was answered with ok is not lost; `SettledFileIsLive`; `FileNeverGoesBack`; `ConnectionsFollowIfAlone`; `ServicesAreUsedRight`: secrets and keys go where they were given for (section 7 names the exception), a chat keeps its order, and the virtual printer follows its settings; `SignInIsSafe`; `UpdateIsWhole` |
| `commands` | `mixed`: a file, a file on the printer and a stop for one printer, another Bridge, a restart. `hour`: the two files, and an hour after which taken ids are forgotten. `pair`: one file for two printers, and a console command, with fairness. `clicks`: two buttons, three requests | `CommandsAreRight`: a command or a click runs twice only with a reason, FoxTrack and the page are told the truth, one file at a time per printer; `PairJobsEnd` |
| `plug` | `pollers`: two polls at once, two prints. `hand`: a poll and the switch. `wait`: a poll and a change of the settings, with fairness. `book`: two prints, two servers. `steady`, `mishaps`: two tasks, four records | `CutsAreRight`: no cut in a print that was seen, one automatic off per print; `WaitEndsIfScheduled`; `BookedRight`; `RemindersAreRight` |
| `cloud` | two sign-ins, two requests at once, three changes, holds after two refusals or four failures (`overlap`, `alone`); two calls (`signin`); two printers, three names (`list`, `whole`) | `OneLoop`, `HoldComes`, `FollowsAccountIfAlone`, `StopEnds`; `SignInIsRight`: intervals and holds are kept, but for what an email and an exchanged account may do (section 7), and a list is that of its account; `PrintersFollow` |
| `timelapse` | two prints of one file, two folders; two pictures make a video, three are thinned; `orders`, `calm`, `crash` | `RecordingsAreRight`: a recording's folder is left alone, and a calm video shows one print; `FilmsAreKept`: pictures go when their video is listed, and a deleted video stays deleted (`orders` and `calm`; in `crash` no video is deleted); `FilmIsMade`: whatever was full, failed or restarted |

The violations (`plug_unknown`, `cloud_relinked`, `skip_cancelled`,
`update_relaunch`) are described in section 7. Properties that are the
conjunction of several are so because they need the same run; their parts are
named and commented in the modules.

Why the bounds are enough: the races of this code are between two or three
actors around one lock or one file. Two prints tell "the same print" from
"another one"; two loops, requests or polls give every overlap of a stale one
and its successor; one restart and one failure let every write be the last; a
limit of one or two is reached, passed and left again within the bounds.
`Pacing` counts time in units of some 15 seconds, which keep the order of the
constants (a poll, the hold of quick mode, a heartbeat); the long waits (ten
minutes between pictures, the pause of a camera) are shortened to more than the
short ones. Serial
numbers, attempts and waits are compared with each other or with the limit
only, so that larger values repeat what smaller ones do. Where a theorem exists
(section 6), the bound does not matter at all. Symmetry is used in `config`
(requests are interchangeable and no liveness is checked there).

All runs turn deadlock off: the bounds on prints, calls and changes let every
model come to rest, as the program does when nothing happens.

## 5. Fairness

Weak fairness is asked of steps that a goroutine takes by itself: the next
statement, an unlocked mutex, an answer or a timeout of an HTTP client (all
of them have one), a timer, the daily `Recover`, the exporter's session and the
settings it is given. Strong fairness is asked in three places:
`BambuSession`'s full report, which a working connection delivers if the
connection comes back again and again; `PlugManager`'s critical section after a
look at the printer, which other polls may keep from its turn, but not for
ever; and the delay of its automatic off, which runs whenever nothing else is
under way. Nothing is asked of users, printers, brokers or FoxTrack: a printer
may stay away for ever, a post may fail each time, a token may never come back.

## 6. What is proved

Every safety property of a passing run is stated by a theorem; each holds for
every value of the constants that the assumptions of the modules admit. The
theorems are about the specification that TLC runs (`MCSpec`, where a property
is one of the run's), so that what a part rules out, it rules out in both.
The form is always the same: `Init => Inv`, `Inv /\ [Next]_vars => Inv'`, and
the property from `Inv`, or from `Inv` and the step; the last step is `PTL`.
TLC checked each invariant on the run's constants, or larger ones, before it
was proved.

What is assumed of the constants, beside numbers being natural and "none"
being none of the others: `Files` and `SlicerFiles`, and the pollers and hands
of the plug, are finite; `FreeTries`, `MaxTries`, `MinFrames`, `Interval` and
the intervals of the cloud's calls are not 0; requests are not numbers
(`CloudRunner`), no viewer is 0 (`CameraHub`), a serial is not one of three
marks (`CloudPrinters`); a request to Bambu times out sooner than the next
sign-in is allowed (`CloudSignIn`); the names that end in `.3mf` are among the
names of a print's file (`SkipObjects`); and `Pacing` keeps the order of the constants in
`pace.go`, with `PollSoon + PollAfterError < WatchHold`: FoxTrack asks for the
next poll early enough while someone watches. TLC evaluates all of them in the runs.

- **`Relay_proofs`** (delivery, queue and turns of the relay). `NotUndone`,
  `SkippedReplaced`, `BoundedRetries`, and the three refinements step by step:
  `StatusRegister` by the delivery (`Implements`), `StatusFeed` by the queue
  and the turns (`QueueKeepsFeed`, the safety part of its specification, and
  `TurnsFollowFeed`). The holder of the lock is a call that posts or waits for
  its answer (`LockHeld`; without it a second call could pass the check of
  `delivered` while the first one's answer is under way), accepted and skipped
  calls lie on either side of `delivered` (`DeliveredSeparates`), and FoxTrack
  shows nothing older unless it applied a post late (`StoredNotBehind`). A
  queued job exists while it is posted; a goroutine begins only after its
  predecessor's turn, so that those since the last removal form one chain.
- **`LanSession_proofs`** (HTTP printers, watcher). `RecordedOnceIfWhole`,
  `RemovedIsGone`, `SwitchClosesPrint`, `StartsAreNews`. The core is `Shape`:
  the five calls a rename or removal is made of, and at each the names under
  which a loop may be registered and a session kept. A session says nothing of
  removal by itself; only the place the handler has reached does. `JobsInv`
  adds that what was counted as ended does not come again, `TrackInv` that
  what a poll saw is what the machine prints or printed before it, `WatchInv`
  that the watcher never knows of a print before it begins.
- **`Bambu_proofs`** (session of a Bambu printer, its commands, transfers,
  camera and pace). `RecordedOnce`: reports are in the order of the machine's
  statuses across the wire, the handler and the machine (`InOrder`, built on
  one relation, `Precedes`), the history is behind the session, and the state
  tells whether there is a session, or a report without a status could start
  one again. `SessionIsThePrints`: `NameInv` says whose print each report is
  as long as the next one's preparation is still on its way.
  `SeenEndIsRecorded` with `SeenInv`. `PrintCommandsAreTrue`: for each call
  what the printer may have made of it (`StartInv`), for each skip that its
  list is that of the print its key names (`SkipInv`), for each transfer what
  the printer's reply says of the bytes (`TransferInv`). `CameraIsShared`:
  only the hub in `rtspHubs` lives and its timer is armed or spent exactly
  when it has no viewer. `PaceIsKept`: what FoxTrack lacks is held back for no
  longer than the last post is old, and quick mode outlasts the wait for the
  next poll by what is left for one that fails.
- **`ConfigStore_proofs`** (configuration and the services of its run).
  `AnsweredIsKept`, `SettledFileIsLive`, `FileNeverGoesBack`: clones are
  numbered in the order of the changes (`Numbered`), the file holds the change
  that `savedGen` names, and the newest change is in the file or with somebody
  who will save it (`NewestIsCared`). `ConnectionsFollowIfAlone`: a handler's
  steps, each with the connections it leaves behind (`SoloInv`).
  `UpdateIsWhole`, `SignInIsSafe`, and `ServicesAreUsedRight` for
  notifications, the assistant (the order of a chat's messages) and the
  virtual printer (`SlotsAdd`: what is counted is what is under way).
- **`Commands_proofs`**. `CommandsAreRight`, the commands and the clicks: a
  command's stage, what is remembered of it and what FoxTrack was told are
  bound together by kind (`PlainOK`, `KeptOK`, `FileOK`), since a repeat is
  excluded in one way for plain commands and in another for files.
- **`AfterPrint_proofs`** (Spoolman, maintenance, plugs). `BookedRight`: a
  goroutine holds a spool of its own server and nothing is booked as long as
  it may still send. `RemindersAreRight`: with one check at a time and at most
  one mishap; with two, TLC showed that a task may be announced twice, and the
  property now says so. `CutsAreRight`, where neither a look at the printer
  nor the reading at a print's end is slow (`~SlowLook`, `~SlowRecord`, as in
  the passing run): the automatic offs so far, those decided on and the one that may follow never outnumber
  the prints that anybody knows of (`OffsFollowPrints`).
- **`CloudRunner_proofs`**. `OneLoop`, `HoldComes`: only the loop in
  `cloudRun` can be active, and its counters agree with where it is.
  `FollowsAccountIfAlone`: what a worker has still to do is what the account
  asks for (`JobFits`). `PrintersFollow`: routes and states by name, also while
  the client is dropped. `SignInIsRight`: a taken slot is never older than the
  endpoint's last call (`SlotsCover`), a login that waits is younger than its
  timeout (`LoginWaits`), and so its email is late by no more than that
  (`CodeWaits`).
- **`Timelapse_proofs`**. `RecordingsAreRight`, `FilmsAreKept`. Whatever is
  queued, waits for a retry or is built is closed for good (`Closed`,
  `HandedOK`): no session has the folder and none can take it up again. What
  `Recover` saw of a folder still holds when it acts, although it looks
  without the lock (`LoopOK`); a folder whose first picture could not be written
  looks like one that was left behind, but is among the active ones that it
  noted (`ActiveOK`). A video and its folder are both there only
  between the details and the removal of the pictures (`BuiltOnce`; a restart
  or a failed build there breaks it). For one print per video, `CalmInv`: events are of the
  printer's present side, and no folder is open without its session.

Strengthening an invariant until it was inductive, or checking it with larger
bounds, changed the model or a property in several places: the mishaps of
`RemindersAreRight`; a second clause in `StatesFollow`; the name of a file
whose print's preparation may outlast the report under way (`BambuSession`);
and `noticed` in `LanSession`, which is set only while no handler is at work.

What stays with TLC: liveness, which needs `ENABLED` (`QueueImplementsFeed` as
a whole, `PostsEnd`, `HistorySettles`, `DiscoverySettles`,
`TrackedPrintIsRecorded`, `LiveStateCatchesUp`, `PairJobsEnd`,
`WaitEndsIfScheduled`, `StopEnds`, `FilmIsMade`), and the four violations. No
module uses a `RECURSIVE` operator.

## 7. Disagreements found

Listed with runs in `PROJECT.json`:

- `plug_unknown`: the look right before an automatic off lets a printer pass
  that has become unreachable.
- `cloud_relinked`: a device list that was refused for an account that has been
  exchanged meanwhile marks the new account's token as expired.
- `skip_cancelled`: when the browser goes away while a skip waits for the
  printer's report, the objects stay shown as skipped.
- `update_relaunch`: without a supervisor the new program is started while the old
  one still holds the port: if it comes to it first it ends, and no Bridge is
  left.

Met while modelling, without a run of their own. The modules behave like the
code here; the properties name the condition under which they hold.

- Relay: a post that the client timed out on, and that FoxTrack applies after
  a newer one, sets the status back (`late` in `RelayDelivery`).
- HTTP printers: a print that is paused when another one is seen does not close
  its session (`SwitchClosesPrint` is asked of prints that do not pause). A
  handler between a poll's two critical sections leaves the session of a
  removed printer behind (`…IfWhole`).
- Pauses of a camera: HTTP printers have none; only the Bambu handler counts
  failures.
- Bambu printers: a print that ends while the Bridge is away is dropped without
  a record when the next report names no print (`mqtt.go:1210`, against
  `CHANGELOG.md:129-130`). A report without a file name after a reconnect starts the
  same print's session again. A print that is found paused after more than ten
  minutes and then ends is not recorded.
- Configuration: with two requests at once, a removal that overtakes the adding
  of the same printer leaves its connection running (`server.go:1462`).
- Cloud: an unlink beside another save may start the unlinked session again; a
  request with a clone from before a token was refused starts a loop with it
  (`server_cloud.go:117`); a loop that is replaced starts its counts of
  failures again. A report looked up before its printer was removed, or the
  marks of `dropClient`, bring the removed printer's state back
  (`server.go:1596`); a removed printer that is added again may be asked for a
  full report sooner than the spacing allows.
- Commands: the cache may be pruned of a file that another job has just taken
  (`printjob.go:659`); the job then fails and says so.
- Commands: one whose final ack was given up, and that FoxTrack still has pending
  after an hour, is carried out again (`bridge_commands.go:223-224`: "a lost ack
  never runs a second G28"); `RepeatIsExplained` names this case.
- Cloud sign-in: the email with a code (`bambu.go:221`, `227-240`) takes no slot
  and does not look at the hold, although "every cloud call is refused" in one
  (`bambu.go:32-34`, and `bambu.go:19-22`, `docs/bambu-cloud.md:10-13` on the
  limits). It is sent in a hold that began while its login was on its way, and
  two emails may be closer than a minute by the time of one request.
  `CallsArePaced` covers this call with just these two exceptions.
- Assistant: `POST /api/config` with an `ai` block and no key keeps the stored key
  whatever the endpoint in the block (`server.go:1240-1244`), so that the key is
  sent there, although it "is only ever sent to the endpoint it was saved for"
  (`server_ai.go:62-63`) and the settings "are only ever written through
  /api/ai/settings" (`server.go:1236-1237`). The dashboard never sends such a
  body. `KeysStayHome` excepts what `PostConfig` put together, and nothing else.
- Buttons: the look-up and the note of a click's key are apart, so that a retry
  which comes while the first request runs sends the command again
  (`server.go:703-718`; `server.go:743`: "so a retried request runs its command
  once").
- Cameras: a request that holds the address from before an edit stops the
  stream of the newer one; a picture may be taken from the stream of the old
  address. The comment at `server.go:861` still says that the Bridge does not
  read the RTSP stream.
- Sign-in: a sign-in that is turned away because all slots are busy stays
  counted as a wrong try (`security.go:218-219` says it must not).
- Assistant: a reply that mixes calls with and without an id is replayed whole,
  so that the latter stay without a result (`ai/reply.go:83`; "a missing tool
  turn breaks the protocol", `ai/provider.go:131`). The camera's tool runs
  also when it was not offered, if the settings have come to allow it
  (`server_ai.go:759-762` says that it is not reached then).
- File transfer: a download whose data ended without an error counts as done also
  when no reply follows (`ftps/download.go:83`); over a clear data channel, where a
  cut looks like an end, that may be a part of the file.
- Maintenance: two checks at once announce a task twice; a history file that
  was moved aside makes a task be announced again; a task that is deleted and
  brought back around a check is announced late or again.
- Home Assistant: a printer deleted while the broker is away keeps its retained
  states there.
- Plugs: with `SlowRecord`, `PrintEnergy` of the last print, still reading the
  plug when the next print is seen, ends the next one's count, and with the
  link down `Set` then passes in the middle of it (`plug/manager.go:227`).
- Timelapse: events are handled on goroutines of their own, so a late end of
  one print closes the next one's recording, and a missed end lets a recording
  run into the next print; a restart between a video's details and the removal
  of its pictures builds it again, also if it was deleted meanwhile.

## 8. Assumptions and what is left out

- *LanSession*: handlers that edit printers run one at a time, and within the
  wait between two polls; a file name stands for a print.
- *BambuSession*: the MQTT client runs one handler at a time and lets it end
  before it reports a drop or disconnects; no print starts in the moment of a
  change of connection; trays, temperatures and pictures are left out.
- *RelayDelivery*: the time between attempts, payloads and pictures.
- *ConfigStore*: renames (see the two session modules), cloud printers, plugs
  and the virtual printer (`VirtualPrinter`); stopping and starting a connection in an edit is one
  step; two printers do not share a name; settings other than the printers are
  one counter.
- *BridgeCommands*: seen ids expire when no job is under way (a job of the
  largest file may last a little longer than the hour that they are kept);
  FoxTrack is external: it hands a command out until an ack moves it on; the
  upload and the start of a file are one step.
- *Controls*: one printer; how a command is sent; a Bambu printer answers in
  the order of the commands, or not at all; Home Assistant's commands, which
  have no key.
- *CameraHub*: which pictures a viewer gets; ffmpeg and the growing pause
  between its starts; the port-6000 stream; a change of the path of ffmpeg,
  which acts like one of the address.
- *Pacing*: one printer, which reports in every unit while it is there; a poll
  and its commands take no time; FoxTrack asks for a poll soon while someone
  watches.
- *PrintStart*, *SkipObjects*: one print is started at a time by the Bridge,
  others at the printer; a list of objects is a set per file; a `gcode_file`
  that ends in `.3mf` is reported no later than that the print runs; see the
  modules' headers.
- *HistoryRetry*, *HomeAssistant*: payloads; the legacy project; one broker.
- *EventWatcher*, *Notifier*, *SignIn*, *SelfUpdate*: texts; the services'
  answers but for good or bad; API tokens, addresses and hosts; Windows.
- *Assistant*: what the tools read, texts, the trimming of a conversation; the
  file (`ConfigStore`); two presets of one address count as two endpoints.
- *VirtualPrinter*: one change of the settings at a time; other programs open and
  close ports between two changes; what a form contains; requests that only ask
  for the version. A slicer whose answer was lost may send its file twice.
- *FileTransfer*: one call at a time, and the handshakes and commands of the
  log-in are one step; the printer says 226 only for a whole file, and drops the
  old session when the call is repeated in the clear. Parsing of listings.
- *SpoolBooking*, *Maintenance*: one printer, one slot, prints of equal length.
- *CloudSignIn*, *CloudPrinters*: the intervals are a few units of time, and a
  request is answered or given up within `requestTimeout`; saving is one step
  (`ConfigStore` spells it out).
- *PlugManager*: what the plug measures; drivers; two prints do not end within
  one request to the plug; with `SlowLook` and `SlowRecord` off, a look at the
  printer and a reading at the end of a print are prompt.
- *CloudRunner*: the minute between two retries on request; the date at which a
  token expires; saves and restarts.
- *Timelapse*: a capture asks for its picture before the next `Recover` of the
  same goroutine; folders of two starts differ (they are named by the second);
  a recording takes a picture in every three hours; pictures that cannot be
  read at all, or that cannot be deleted or renamed when they are thinned; how
  a print ended; the spacing of pictures.

Not modelled at all: see the last rows of the table in section 1. They are
requests and answers without state (discovery, probes, files of HTTP printers), text and
arithmetic (notification texts, payloads, costs, metrics), generated tables
(Bambu's messages), or the browser.

## 9. Plan

What would come next, in this order:

1. Proofs of the safety that liveness properties rest on: in `HistoryRetry`
   that a record waits, was taken or was given up and counted back; in
   `HomeAssistant` that what the exporter believes to be retained was
   published; in `PlugManager` and `LanSession` that a wait or a call that is
   left has somebody who will take it.
2. The trays of a Bambu report (merge of partial lists, `filament.go`) and the
   readings of HTTP printers, as functions checked against a reference.
3. The commands of the Home Assistant export, which go through `runControl`
   without a key.
