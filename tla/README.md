# open-plaato-keg in TLA+

A verification project for [open-plaato-keg](https://github.com/matt-freed/open-plaato-keg):
a Go server that Plaato kegs (scales) dial over TCP, that keeps what they report
in SQLite, shows it live in browsers over WebSockets, and forwards volumes to
BarHelper.  Paths below are relative to the repository.

1. [The system](#the-system)
2. [Modules](#modules)
3. [Runs](#runs)
4. [Fairness](#fairness)
5. [Disagreements found](#disagreements-found)
6. [Proofs](#proofs)
7. [What is abstracted, what is left out](#what-is-abstracted-what-is-left-out)
8. [Plan](#plan)

## The system

```
 device --TCP--> keg.Server.handle --ApplyPacket--> store (SQLite)
   ^               |  ingest, finish    AppendLog       ^   ^
   |               |                                    |   |
   |            Registry <--Lookup-- Commander <--- api handlers <-- browser
   |               |                    (HTTP)          |
   |               +-- Publish --> events.Bus <-Publish-+
   |               |                   |
   |               |               ws.Hub receiver -> pending/wake -> flusher
   |               |                                                     |
   +-- ack         +-- KegAmount --> barhelper.Client      ServeHTTP goroutines
                                       (tick, send)           --> browsers
```

| Component | Source | State it keeps | Operations | Talks to |
|---|---|---|---|---|
| Keg TCP server | `internal/keg/server.go` | per connection: the keg id, whether the device is confirmed to be a keg, metadata held until then; the WaitGroup | accept, read, ack, ingest, teardown (`finish`), `Shutdown` | Registry, store, bus, BarHelper |
| Registry | `internal/keg/registry.go` | map keg id → live connection, under a mutex | `Register` (displaces), `Unregister`, `Lookup`, `CloseAll` | sockets, closed outside the lock |
| Commander | `internal/keg/commander.go` | none | one frame per command, `Disconnect` | Registry |
| Store: keg rows | `internal/store/keg.go`, `apply.go` | table `kegs` | `ApplyPacket`, `SetPouring`, `DeleteKeg`, edits; one transaction each | — |
| Store: pours | `internal/store/pour.go`, `apply.go` | the open pour window in the keg's row; table `pours` | `trackPour` inside `ApplyPacket` and `SetPouring`; edit, delete, list | taps (copied into a pour) |
| Store: history | `internal/store/log.go` | table `keg_log`, `LogThrottle` in memory | `AppendLog`, clear, prune, compact, pages, edit, chart | the history editor |
| Store: taps, settings | `internal/store/tap.go`, `appconfig.go` | tables `taps`, `app_config` | save, link, order, delete; settings read and written in one transaction | kegs, units |
| Event bus | `internal/events/bus.go` | subscribers and their buffers | `Publish` (never blocks), `Subscribe`, cancel | hub |
| WebSocket hub | `internal/ws/hub.go` | `pending`, `wake`, clients and their buffers | `mark`, `flush`, `Broadcast`, `ServeHTTP` | store, bus, Registry (the connected flag) |
| Web pages | `web/static` | the map of kegs a page shows | apply a message, reconnect; reload the list every minute (kegs page) | hub, HTTP API |
| HTTP API | `internal/api` | none | validation around store calls; `handleDeleteKeg`, `handleKegOrder`, `handleReplaceTap` make several | store, Commander, bus |
| BarHelper | `internal/barhelper/barhelper.go` | per monitor: latest volume, what was last accepted, when last tried; the times of the recent sends | `KegAmount`, `due` once a second, `send` | an HTTP service |
| Framing, decoding | `internal/blynk`, `internal/plaato` | bytes of an incomplete frame | `Feed`, `Decode` | server |
| Log buffer | `internal/logbuf` | ring of log lines, a sequence number | `add`, `Since` | system page |
| Schema migration | `internal/store/store.go`, `schema.sql` | the database file | add missing columns in one transaction, then the schema | run at every start |
| Process | `cmd/open-plaato-keg/main.go` | — | start; shutdown: HTTP, listener, `CloseAll`, wait, close the database | all |
| Units, configuration, router, `kegsim` | | none at run time | | |

What is hard here, and what makes each part correct:

* **Keg server and Registry.** A keg reconnects by opening a second socket, often
  before the server has noticed that the first is gone.  Two goroutines then
  own one keg, and a delete request or the shutdown may close either of them
  between any two of their steps.  Nobody tells a goroutine that it was displaced; it
  learns from its socket.  Correct means: an entry is never removed by anyone but its
  owner, an open connection is reachable through the registry, no entry outlives its
  connection, only kegs are stored, a pour ends with its connection, the offline badge
  is published, metadata that came early is not lost, displaced and deleted
  connections end, and so does the shutdown.
* **Bus and hub.** Every hand-over drops when it is full: a subscription
  loses events, `wake` loses signals, a client loses messages.  Events of one
  keg are folded and the row is read later than the event was raised.  Correct
  means: no wakeup is lost, the page ends on what is stored, and whatever can
  leave a page stale is known by name.
* **Pours.** A window opens in one packet and closes in another, or at the
  teardown, or after a restart.  Correct means: recorded once, measured between the
  right two readings, within the bounds.
* **BarHelper.** Volumes are coalesced per monitor and sent under an interval per
  monitor and a budget for all, the answer may be late or lost.  Correct means: requests
  are spaced as configured, no monitor is kept out by the others, and a volume is
  suppressed only when BarHelper shows it.
* **History.** A daily pass works through years of rows in chunks of a day while readings come in and an
  operator pages through, edits and deletes; it may fail half way and begins again from what it finds.  Correct
  means: every reading is in one row, every average is over all readings of its hour, a walk
  through the pages misses no row, and a packet without a reading does not silence the log.
* **Taps, settings, corrections.** Several browsers at once, several store calls in one handler, units that
  change while a page shows them.  Correct means: a keg feeds one tap, no request undoes another's
  setting, a corrected amount is stored as what it meant on the page, an order of kegs is
  written whole, or the browser that sent it is told.
* **Framing and decoding.** TCP cuts the stream anywhere, and what arrived together is decoded together.
  Correct means: the outcome is that of taking the frames one by one, and where it is not that is known.
* **Log buffer and start.** A ring that wraps while a page polls it twice at once; a migration that is killed.

`PROJECT.json` lists each hazard with its line and the properties that answer it.

## Modules

| Module | What it is |
|---|---|
| `KegDirectory` | abstract: which connection serves a keg |
| `KegServer` | TCP server, Registry, keg rows, `handleDeleteKeg`, shutdown; implements `KegDirectory` |
| `MCKegServer` | the small networks its runs use |
| `KegServerProofs` | its theorems |
| `UpdateHub` | writers, `events.Bus`, `ws.Hub`, browser pages |
| `MCUpdateHub` | symmetry sets |
| `UpdateHubProofs` | its theorems |
| `PourTracker` | the pouring window in a keg's row, `trackPour`, the table of pours |
| `MCPourTracker` | one scale and its packets |
| `PourTrackerProofs` | its theorems |
| `BarHelper` | `barhelper.Client` and the service it sends to |
| `MCBarHelper` | two monitors |
| `BarHelperProofs` | its theorems |
| `KegLog` | the throttle, the table `keg_log`, the pass of `prune`, the history editor, charts |
| `MCKegLog` | one keg, an hour of three seconds |
| `KegLogProofs` | its theorems |
| `Catalog` | taps, the order of kegs, settings, units, amounts corrected on a page |
| `MCCatalog` | two taps, two kegs, two browsers |
| `CatalogProofs` | its theorems |
| `Plaato` | frames, `Decode` and `ingest` as operators |
| `KegStream` | abstract: the frames of a device, taken one by one |
| `Wire` | reads, `Framer.Feed`, batches; implements `KegStream` |
| `MCWire` | six streams |
| `WireProofs` | theorems of `Wire`, `Plaato` and `KegStream` |
| `RecentLog` | abstract: the latest records of a process |
| `LogBuffer` | the ring and the System page; implements `RecentLog` |
| `SchemaMigration` | `Open` on a file of any version |
| `Process` | composes the two: one process after the other |
| `MCProcess` | three versions, a ring of two |
| `ProcessProofs` | theorems of the two and of the composition |

### KegServer

One step is what a goroutine does between two points where another can get in:
a blocking read, the registry's mutex, a socket write or close, a transaction,
a `Publish`.  `pc[c]` names the next step of the goroutine serving connection `c`.

| Code | Model |
|---|---|
| `Serve`: `Accept`; then `wg.Add(1)`, `go` | `Accept`; `StartHandler` |
| `handle`: read, ack | `Read`, `ReadFail`, `Ack` |
| `ingest`: token, `Register`, its `stale.Close()` | `Identify`; `Displace` |
| `ingest`: confirm, hold or release metadata | `Gate` |
| `ApplyPacket`; `AppendLog`; `Publish`; `KegAmount` | `ApplyPacket`; `AppendLog`; `PublishUpdate`; `KegAmount` |
| `finish`: close; `Unregister`; `SetPouring`; `Publish` | `CloseSocket`; `Unregister`; `SetPouring`; `PublishOffline` |
| `handleDeleteKeg`: `GetKeg`; `Disconnect`; `DeleteKeg`; `Publish` | `DeleteRequest`; `DisconnectLookup`, `DisconnectClose`; `DeleteKeg`; `PublishRemoved` |
| `shutdown` | `CloseListener`; `CloseAll` (the swap under the lock), `CloseOne`; `WaitHandlers` |

The registry is a function from kegs to a connection or `NoConn`.  Of a row the model
keeps what the properties tell apart: whether it pours, whether it has a
reading the history would log, whether it has metadata.  A packet is its token,
the strongest class of its pins, and whether it has metadata: the three things
`ingest` branches on.  `device[c]` is the set of packets the
device behind `c` can send; it is chosen once from the constant `Networks` and
any of them may come in any order, any number of times.

History variables, read by properties only: `device`, `rivals` (kegs that have
seen a takeover), `deleted`, `shown` (the connection state when the keg
was last published), `owed` (this connection was sent metadata to keep).

### UpdateHub

Writers commit and then publish in a second step, as `ingest`, `finish` and the API
handlers do.  The receiver is three steps (`Receive`, `Mark`, `Wake`), the flusher
`AwaitWake`, `TakePending`, `CountClients` (the test for no clients), then `ReadKeg` and
`Broadcast` per keg in any order, as Go ranges over a map, then `EndFlush`.  A page
is `Join` (registers the client), `ListKegs`, `SendSnapshot`, `WriteMessage`, `Leave`.

The page has a second writer.  `loadAll` of `kegs.html` gets the whole list when the page opens and every
minute after, with or without a socket, and replaces all that the page shows; nothing orders its requests among themselves
or with the socket.  `AnswerLoad(p, l)` reads the rows for the request `l`, `TakeReply(p, l)` shows the answer (`ShowList`),
`LoseReply(p, l)` is a failed read or request, which leaves the page as it is.  So an answer can be old when it
arrives and undo what a message has shown since (`Undone`), and one that is current makes good what was missed and
removes kegs that are gone (`Healed`).

What a message says of a keg is a version: the number of the commit whose row it shows,
or `Absent`.  So two messages with different content have different versions, and
staleness is visible.

### PourTracker

`KegServer` keeps of a row only whether it pours; `PourTracker` is the store's side of it, with the amounts,
the unit, the mode and the window.  The store holds a single connection, so every transaction is one step, and
all that is left of the concurrency around it is the order of the steps: a packet, a teardown, a
delete may come in any order and any number of times, including the teardown of an old connection after
the first packets of its replacement, and a long silence that was a restart.

| Code | Model |
|---|---|
| `ApplyPacket`: merge, then `trackPour` with the flag and the amount from before | `ApplyPacket`, `Merge` |
| `SetPouring(false)` in `finish` | `SetPouring` |
| `trackPour`: the window; the conditions of a pour | `Window`; `IsPour` |
| `insertPour` | `insertPour` |
| `MinPour`, `MinPourSeconds`, converted into the keg's unit by `MinPour.In`, as is `maxPourGal` | `minimum`, `MaxPour`, `BaseOf` |
| `ClearLog`, `DeleteKeg`, `DeletePours`, `UpdateAppConfig` | `ClearLog`, `DeleteKeg`, `DeletePours`, `SetMinimum` |

History variables: `fell` (how much the amounts a keg reported have fallen), `counted` (how much was recorded as
pours), `clearedAt`, `deletedAt`.

### BarHelper

| Code | Model |
|---|---|
| `KegAmount`, called by the keg goroutines | `KegAmount` |
| `time.NewTicker(flushInterval)`, whose channel holds one tick | `Elapse`, `tick` |
| `due(now)`: `pruneRecent`, candidates, sort, stamps | `Due` with `pruneRecent`, `Candidates`, `WaitedLonger` |
| `send`: a request goes out; its end | `Dispatch`; `Success` (with `recordSent`), `NoSuccess`, `Fail` |
| the context is cancelled; the worker returns | `Cancel`; `WorkerReturns` |
| a new process, after a kill or an exit | `Restart` |
| BarHelper and the network (external) | `Serve`, `ServeLate` |

Time is a number, its unit the ticker's interval.  It passes only while the worker waits for
its ticker or for an answer, and an answer takes at most `RequestTimeout`; so what the worker does between
two waits takes no time, against seconds in the code.  `due` takes the *tick's* time, which is older than
`now` when a slow batch came between; the model keeps both.

The service may confirm, show the volume without confirming, or refuse; a reply may be lost
after the volume was taken; a request that the client gave up may be served later.  The constant
`Faults` says which of these happen.  `reporter` and the payload's unit are not looked at by the service.
`RecordBarHelperSent` writes a column that nothing in the server reads and is left out.

History variables: `dispatched` (the requests of the last window), `waitsFrom` (since when a
monitor has had something to send and no attempt), `unsure` (monitors with a request whose fate the client does not
know).  `reports` and `crashes` count against the bounds.

### KegLog

| Code | Model |
|---|---|
| `ingest` after `ApplyPacket` returned a row: `HasLoggableReading`, `Allow`, `AppendLog` | `ApplyPacket`; `Record`, with `HasSlot` and `AppendLog` (which may fail) |
| `prune`: `PruneLog`; `CompactLog`: the cutoff and the kegs; per keg the oldest row; per chunk `compactRange` | `StartPass`; `CompactLog`; `NextKeg`; `CompactChunk` |
| the pass ends, or an error ends it until tomorrow | `EndPass`; `FailPass` |
| `ClearLog`, `DeleteKeg`, `UpdateLogEntries`, `DeleteLogEntries` | the same names |
| `ReadLogPage`; the pager and `load` of `history-edit.html` | `ReadLogPage`; `Open`, `Later`, `Earlier`, `Reload`, all through `Load` |
| `sampleStep`; `ReadLogSampled` | the same names |
| a new process | `Restart` |

`compactRange` is written as the query says it: the buckets of the range that are not yet one row at their start
(`Unfolded`) are replaced by their averages (`Folded`).  A row carries `covers`, the times of the readings it was
folded from; the code has no such column, and nothing in the model but the properties and the bounds reads it.  Other
history variables: `reading` (what was recorded at each time, as edited since and not removed),
`compactedTo`, `unseen` (what the operator's walk through the pages has still to show).

### Catalog

A browser has one request at a time, and `request[b]` is what its handler has read and has still to do.  A handler
that makes one call to the store is one step; those that make several are as many: `FindTap`, `ReplaceTap`; `BeginOrder`, `CheckKeg` per
keg, `WriteOrder` per keg; `FindKeg`, `ShowLog`; `CorrectLog` (the keg), `ConvertCorrection` (the settings), `StoreCorrection`;
`CorrectPour`, `UpdatePours`.  `UpdateAppConfig` is the one transaction written as two steps, `ReadConfig` and `WriteConfig` (or
`RollBackConfig`), with `conn` naming who holds the store's only connection: every other step waits for it, which
is what makes the transaction safe, and what the mutant takes away.

Any call may fail (`StoreFails`): a first one fails without a trace and is no step; a later one is `FailCall`, answered with an
error.  The read of the settings is the exception: `displayUnits` reports no failure and takes the units of the device, for showing and for
converting back alike, so it is a set of outcomes.  The process may be killed with handlers under way (`Restart`).  An idle browser
keeps the `answer` of its last order: `"ok"`, `"missing"`, `"failed"`, or none when the process was killed.

Units are the tables and functions of `internal/units` and `DeriveBeerLeftUnit`, `displayAmountUnit` and the
conversions around them over whole numbers: `KgPerUnit` is scaled to whole numbers whose ratios the
instance's amounts divide, so a conversion and its inverse are exact and any difference is a wrong unit and
not a rounding.  The correction of one log row and of one pour stand for all, as each is converted by itself.

History variables: `wanted` (the settings as the answered requests made them), `saved` (of the last correction, in weight: what it
meant on its page, what the handler took it for, what it stored; whether the units were others by the time of the save, and
whether a read of the settings had failed).

### Wire, Plaato, KegStream

A cell of the stream is a field of a frame, so a cut can fall between any two fields of a header or a body; a cut within a
field leaves the frame as incomplete as a cut before it.  `Read(n, sent, stores)` is one turn of `handle`: `Feed`, the
acknowledgement (`sent`), then `ingest` of the batch (`stores`: whether the transaction commits).
`KegServer` has the same code as steps of interleaved goroutines and a packet as three flags; here one
goroutine runs alone and the packet has its content.

The loop of `Feed` is the recursive function `Starts`: where the loop is after `k` frames.  `Header`, `Corrupt` and `Complete` are its
three tests, `FrameAt` and `Size` what one turn cuts off.  What is stored is a partial function from tokens to rows: a row exists once a
packet made it, and `ApplyPacket` begins with `NewKeg` where there is none, as `updateKegTx` does.

`KegStream` is the promise: `Take(n)` takes the next `n` frames as `n` packets of one frame each.  What becomes of a state by frames is
its parameter `ingest`, for which `Wire` gives that of `Plaato`.  `Wire` implements it under the identity on `stream`, `taken` and
`state`; the buffer, the cuts and the batches are hidden.
In one thing batches do matter, and the promise says so.  The firmware as recorded
(`testdata/capture/3.bin`, quoted in `framer_test.go:21`) sends pins before the first one of `kegIdentifyingPins`.  Until that one has come
the server drops them; when TCP happens to join them with it they are stored.  So `Alone` takes a frame as a keg's when a frame that
`identifies` one was taken with it (`Known`), and the stream `Recorded` has such pins.

All this is promised for devices that send their token once and before any pin (`FromFirmware`), as the firmware does; of
the pins and their order nothing is assumed.  Without it more depends on the cuts: see [Also met](#also-met).

### LogBuffer, SchemaMigration, Process

| Code | Model |
|---|---|
| `Buffer.add`, `Since`; `handleSystemLogs` | `add`, `Since`; `handleSystemLogs` |
| `system.html`: `poll`, `fetchLogs` | `Ask`, `fetchLogs`, `Lost` |
| `addMissingColumns`: the columns of a table, `return` with an error, `Commit`, the log lines | `AddColumn`, `Refuse`, `CommitColumns`, `LogAdded` and `EndLogging` |
| the statements of `schema.sql` | `CreateTable`, `CreateIndex` |
| `run`: `Open`, serve; killed and started again, in any version | `OpenStore`, `Serving`, `Restart` |

`LogBuffer` implements `RecentLog` under the mapping `kept <- ` the ring read from `next` on.  `Process` composes the
two modules where the code does: the columns added are logged through the ring of the process that
adds them, a restart empties the ring and begins its numbers again while answers of the old process may still
arrive at the page, and the page is answered only while the process serves.

## Runs

Two workers; times are those of a small machine.

| Run | Checks | Instance | Size |
|---|---|---|---|
| `server_safety` | `GoroutineInv`, `RegistryTracksLive`, `OpenIsReachable`, `NoPhantomKeg`, `PourEndsWithConnection`, `StaleBadgeExplained`, `MetadataKept`, `OnlyPacketsCreate`, `DirectoryKept` | `SafetyNetworks`: two sockets of one pouring scale, or a scale beside an airlock that sends the same metadata; one delete request at a time; shutdown at any time | 2.3 M states, 2 min 20 s |
| `server_ends` | `DisplacedEnds`, `ClosedByOthersEnds` | two sockets of a scale that never stops sending, one delete request, shutdown, fairness | 110 k states, 2 min |
| `hub_safety` | `TypeOK`, `NoLostWakeup`, `NoMissedUpdate` | one keg, two writers, one page that connects twice and has one reload under way, buffers of one, three commits, reads that fail, cancellation | 2.8 M states, 2 min |
| `hub_converge` | `PagesConverge`, `PagesHeal` | two kegs, two writers, one page that connects once and reloads, buffers of one, two commits, reads that fail, fairness | 460 k states, 2 min |
| `barhelper_forward` | `TypeOK`, `SharedBudget`, `MonitorSpacing`, `NoMonitorStarves`, `MarkedIsShown` | two monitors, two volumes, two reports, all four faults, one restart, cancellation; limit 2, interval 2, window 5, timeout 2, ten units of time | 4.3 M states, 2 min |
| `pours` | `TypeOK`, `WindowsDisjoint`, `NothingCountedTwice`, `HistoryIsNew` | one scale in two units and two modes, three amounts, every packet of amount and flag; two settings; three seconds, falls of three in all, two pours | 190 k states, 30 s |
| `keg_log` | `TypeOK`, `EveryReadingKept`, `AveragesExact`, `CompactedStaysHourly`, `WalkShowsAll`, `ChartKeepsHoursWhole` | one keg, an hour of 3, a chunk of 6, five instants, three readings, one act of an operator, pages of one row, charts between seven instants | 510 k states, 75 s |
| `catalog` | `SettingsKept`, `EditMeansWhatWasShown`, `KegStaysOnOneTap`, `OrderWholeOrReported` | two browsers with three requests in all, two taps, two kegs, one packet, two tables to start from, calls that fail, kills | 740 k states, 60 s |
| `wire` | `BufferBounded`, `StreamTakenInOrder` | six streams of up to twelve frames, reads of up to 14 fields, two connections | 28 k states, 85 s |
| `process` | `PageKnowsItsGaps`, `ServesWholeOrRefuses`, `KeepsLatest` | three versions, two tables, a ring of 2, four records and three processes, two polls under way | 1.4 M states, 2 min |
| `shutdown_hangs`, `folded_edit` | one property each, refuted | see [Disagreements found](#disagreements-found) | seconds |

**Why the bounds are enough to mean something.**  Two sockets are what a
takeover needs: the old connection, the new one, in every order of their reads,
stores and teardowns.  A third socket can displace the second while the first is
still in teardown; that is not run, but the properties it could
break (`DirectoryKept`, `OpenIsReachable`, `RegistryTracksLive`) are proved for
any number of sockets.  Two networks keep the instance small: the takeover needs a
pouring scale twice, the metadata rules need a scale that sends metadata before,
with and after its first pin and an airlock that sends the same without ever
becoming a keg.  A delete request can be repeated, so a keg can be deleted,
created again by the same or another connection, and deleted again.
Nothing is counted, so there is no bound on packets or on requests.

In `UpdateHub`, buffers of one make every hand-over full after one item; three commits are
a create, a change or a delete, and one more while the second is on its way; two
connections of one page are a reconnection.  `hub_safety` has one keg, so that these and the reload all fit; that kegs do
not disturb one another in the buffers and batches they share is what the two kegs of `hub_converge` are for, and
the proof, which is for any number.  One reload under way is enough for an old answer to meet newer messages.  Pages do not influence one another (each has
its own channel and the flusher never waits for one), so one page is enough.

In `PourTracker`, two pours and an open window are what an overlap or a double count needs; three amounts give a
fall, a refill and no change, below, within and above the limits in one of the units; three
seconds put a clear before, at and after the ends of a window.  Kegs share nothing but the table, so one is enough.

In `BarHelper`, the constants satisfy `PaceAssumption` as the real ones do and do not keep their ratios; a timeout of more than one
unit lets a slot of the window expire while a request is out.  Ten units are two windows: enough for a monitor to be
sent to, to be held back by the interval and by the budget, and to be served in the next window, and for
`MaxWait` (seven units here) to be exceeded if a monitor starved.  Two reports make a keg return to an old
volume or two kegs compete; one restart meets a request in flight.

In `KegLog`, the five instants are two readings within one hour, two within the next (one of them exactly on
the hour), and a time at which both are old enough to fold and the first is old enough to prune.  A chunk of two hours makes
the loop go round; three readings make an hour of two and another hour; pages of one row make every turn of the
pager happen, and the editor's window cuts off rows at both of its ends (the fold of the first hour, the last two instants).
Charts start and end on the hour, within one before, on and after a reading, and at the end, with windows that make steps of an hour and of two; the theorem is
for any start and end.  One act of an operator (an edit, a delete, a clear) meets a pass at each of its steps.  Kegs
share only the list of ids of a pass, so one keg is enough for TLC; the theorems are for any set.

In `Catalog`, three requests are two that overlap and a third, such as a page, a change of settings and a save, or an order, an order
and a delete; any of them may fail at any call.  The two tables to start from are an empty one and one with a unit and a number that no version
knows; the two layouts include an old database with one keg on two taps, which `KegStaysOnOneTap` must allow.

In `Wire`, the streams between them have every kind of frame `Decode` and `ingest` distinguish, one begins as
the recorded firmware does, and reads of 14 fields
hold three whole frames, so that every split and every batch of neighbours happens.  In `Process`, four
records wrap a ring of two twice; three processes are a restart that the page notices
and one it does not.

**What the properties say that a test hardly reaches.**

* `RegistryTracksLive`, `OpenIsReachable`: the compare-and-delete
  of `Unregister` against a `Register` and a stale close in every order.
* `DirectoryKept`: the registry implements `KegDirectory`.  Over its whole life a connection takes its keg at most once, with a
  socket nobody has closed, and is never found again once it was displaced, ended or shut down; a single entry leaves only after the
  socket it names was closed.
* `PourEndsWithConnection`: while nobody competes for the keg, a stored pouring flag has a live,
  confirmed, registered connection, or one about to clear it.  With a rival
  it is false: see below.
* `StaleBadgeExplained`: a keg last published as online that is not in the registry is
  about to be published again.  The exception is a connection that dropped
  before it was confirmed, for which `finish` returns early.
* `MetadataKept`: what a device sends before its first pin survives every packet in
  between, including a token change and packets that only hold metadata.
* `OnlyPacketsCreate`: `SetPouring(false)` in the teardown of a deleted keg must not bring
  the row back.
* `DisplacedEnds`, `ClosedByOthersEnds`: a goroutine that loses its keg ends although its device
  keeps sending and nothing but the closed socket tells it.
* `NoLostWakeup`: dropping a signal on a full `wake` is harmless.
* `NoMissedUpdate`: a listening page shows what is stored or the change is on its way; all
  exceptions are named (`missed`: a full buffer, a failed read, a snapshot queued behind a
  newer broadcast, a reload answered before a change and shown after it; `forgotten`: removed while the page was away; `crossed`: a delete
  that overlapped another change of the keg between commit and publish).
* `PagesConverge`: once commits stop, a page outside these exceptions shows what is stored.
* `PagesHeal`: no exception is for ever: a page whose reloads go on being answered shows what is stored in the end, and no
  keg that is gone, whatever was dropped, crossed or late.
* `WindowsDisjoint`: a window is closed once, and neither a teardown nor a delete nor a restart leaves one behind that a
  later pour would stretch over.
* `NothingCountedTwice`: the sizes recorded for a keg, and what the open window would add, have fallen from what it
  reported; windows begin with the amount *before* their packet, which the previous one ended with.
* `HistoryIsNew`: what a keg's history shows ended after it was last cleared and began after the keg was last
  deleted.  The two differ as the code does: a delete takes the open window with the row, a clear leaves it open, and what it
  becomes is shown although it began before the clear.
* `SharedBudget`: requests beyond the limit are a window apart, less what a batch can delay its last request; also
  when the tick waited behind a slow batch.
* `MonitorSpacing`: two requests of one monitor are an interval apart when they go out, although the code counts
  from the stamp.
* `NoMonitorStarves`: whoever has something to send is tried within the windows it takes to serve all
  monitors once, each longer by what its requests may delay, whatever fails and whoever keeps reporting.
* `MarkedIsShown`: a value is marked sent only when BarHelper shows it, although the keg reports newer ones while the request is
  under way.

* `EveryReadingKept`: an hour's row is never made of part of its readings while the others stand beside it,
  although a pass may be cut off between chunks and meets rows that an earlier one folded.
* `AveragesExact`: no hour is averaged twice, which would weigh its readings unevenly: rows are only
  folded once their hour has ended for good (`Cutoff` is brought down to the hour), so nothing can join it later.
* `CompactedStaysHourly`: what lies below a cutoff stays one row per hour, whatever comes after.
* `WalkShowsAll`: the pages are cut at cursors that are times and not offsets, so a row folded or
  deleted under the operator's hands does not make the next page skip its neighbour; and the button that goes on is
  never off while there is something left.
* `ChartKeepsHoursWhole`: charts start and end in mid-hour.  Every step that `sampleStep` returns, an hour or more, is whole hours,
  so a reading counts in the point of its own time whether its hour is folded or not, and of the hours within the
  window none is left out.  Folding does change a chart: an hour that the start of the window cuts is shown in part before and not
  at all after, since its row then stands at the hour's start; and a point of several hours is an average of averages, at the average of
  other times.  The property says between which hours nothing moves, and says nothing of those values.
* `KegStaysOnOneTap`: swaps are made before they are checked, replacements race with links, and no keg comes onto a second tap.
* `SettingsKept`: two partial updates of the settings never undo one another, and what `trackPour` reads is what a page
  shows, although two functions read the table, each with defaults of its own (`getAppConfig`, `pourMinimumsTx`).
* `EditMeansWhatWasShown`: what is stored of a typed amount weighs what the handler took it for, in every unit; and that is what the
  page showed, but for two ways that the property names: the units were changed between the page and the save (`changed`), or a read of the
  settings failed and was not reported (`misread`).
* `OrderWholeOrReported`: `handleKegOrder` checks all and then writes one by one, so a store that fails, a kill or another request leave the
  first few of an order in their new places.  However it ends, it is a beginning of the order that was written and no other keg was
  moved; `"ok"` is answered only for all of it; and "no such keg" means that nothing was written or that another request was at these kegs.
* `StreamTakenInOrder`: `Wire` implements `KegStream`; metadata, token and pins keep their order
  across every cut and batch, and only the pins before the one that tells a keg depend on the company they come in.
* `BufferBounded`: between two reads the framer holds less than one frame, also for lengths that are lies.
* `PageKnowsItsGaps`: the page holds the last of the records that it has shown (`seen`), each once and in order, with overlapping polls, lost
  answers and restarts; and if any is missing among those it has shown since it was opened, it says so (`dropNote`).  What it has
  dropped at its own limit counts as shown: otherwise a ring that overran it would have replaced both sides of the
  gap before anyone could look.  The exception (`outdated`) is an answer asked for before a restart was noticed.
* `KeepsLatest`: the ring implements `RecentLog`.
* `ServesWholeOrRefuses`: whatever version wrote the file and wherever it was killed, a start either serves from a
  complete file or is refused and leaves the file alone.

Every property is shown to depend on the code by a mutant: the definitions marked
"Mutant" in the modules each change one action the way a plausible slip
would (cleaning up without comparing, leaving the displaced socket open, draining
`wake` after the flush), and TLC finds the property violated with it.

Deadlock is checked in `KegServer`: the only state without a step is the stopped server, which
`Terminated` allows.  It is not checked in `UpdateHub`, where the system really may stop:
the bounded commits and connections are used up and nobody has anything to do; nor in
`BarHelper`, whose time is bounded and whose worker returns when it is cancelled; nor in `KegLog`, `Catalog`, `Wire` and `Process`,
whose times, requests, connections or processes are bounded.

## Fairness

`KegServer!Fairness`: the Go scheduler runs every goroutine that can take a step
(`Serve(c)`); a goroutine in a read comes back at the latest with the 60 s deadline
(`ReadFail(c)`: weak fairness only, so a device that keeps sending can keep it from being
taken for ever); requests under way and the shutdown sequence go on.  No
fairness on `Accept`, `Read`, `DeleteRequest` or `CloseListener`: devices, operators
and signals owe nothing.  `CloseOne` is fair, since `CloseAll` runs in the process's main goroutine.

`UpdateHub!Fairness`: writers publish what they committed, the two hub goroutines run, and a
page's goroutine writes what is queued (a write ends after `writeTimeout`, as success or as a closed
connection).  No fairness on commits, joins, leaves or cancellation, nor on the
reload, whose answers the network may withhold: that they go on coming is a hypothesis of `PagesHeal`.

`BarHelper!Spec` is without fairness: `NoMonitorStarves` is a bound in time, so it is a safety property.  Nor have the other
modules any: what they promise is that whatever happens is right.

## Disagreements found

Each is a run that TLC refutes, with the line of the repository it contradicts quoted in `PROJECT.json`.

* `shutdown_hangs` (`ShutdownEnds`).  A socket accepted before the listener closed that announces its token after
  `CloseAll` is closed by nobody; each heartbeat renews its read deadline, so `wg.Wait` may never
  return.  The documentation describes a wait of at most 60 seconds.
* `folded_edit` (`FoldedEditRefused`).  Compaction stores the average of an hour under the time at which the hour begins.
  A reading taken exactly on the hour had that time too.  An operator who has that reading on a page and saves an edit
  after the hour was folded is not answered with a conflict, as the documentation says: the edit replaces the
  average of the hour.

### Also met

These are not run; the properties above state what holds beside them.

* A confirmed connection is displaced mid-pour, so its teardown skips the clearing of the pouring flag; its replacement drops before it has
  sent a keg pin, so its teardown skips it too.  The flag stays set with nobody connected
  (`server_test.go:370`: a disconnect mid-pour "must clear the pouring flag").  Hence `PourEndsWithConnection` leaves out kegs with rivals.
* `finish` leaves the registry and clears the pouring flag in two steps.  A scale that reconnects between them finds no
  entry to displace; if its first packet starts a pour, the old teardown ends it (`server.go:180`).
* Closing the socket does not stop a packet already read: `ApplyPacket` after `DeleteKeg` creates the row again
  (`api/kegs.go:172`), and a reading whose packet was stored before the delete may be logged after it, so a keg that
  is gone keeps a row of history until retention or a keg of the same id meets it.
* The kegs page keeps its map over a reconnection and the snapshot has no removals, so a keg deleted while the page was
  away stays on it until its next reload (`live.js:7`).  A reload that was answered before a change and arrives after the message
  about it undoes the message, until the next one (`kegs.html:327-339`).
* `due` stamps a batch with the tick's time and `send` sends it one by one, each up to 15 s: the second of
  a batch and the two of the next window can fall within a minute (`barhelper.go:34`).  `SharedBudget` states the bound that holds.
* After a history is cleared the keg does not log "with its next report" (`api/history.go:126`) when it has logged within the
  minute before: the throttle is not told.
* A page that did not notice a restart of the server, because the new process has already logged more records than the page
  had seen, continues at its number: what the new process logged below it is never shown.
* Pins that come before the first of `kegIdentifyingPins` (`server.go:35`) are dropped (`server.go:229-240`) or stored
  depending on whether TCP joined them with it.  The recorded firmware begins with pin 52, which is such a pin (`framer_test.go:21-29`);
  its value comes again only when the device next reports it.  A device that sent a pin before its token would be in the same position; the
  firmware does not.
* An order of kegs that meets a store error is written in part.  It is answered with an error (`api/kegs.go:207-210`), which does not say that; and if the process is
  killed it is not answered at all.
* A new order that names a keg twice is taken, and the keg gets its last place (`api/kegs.go:200`).
* An amount typed into a page and saved after the units were changed elsewhere is converted from the new units; and when the
  read of the settings fails on either way, it is shown or taken in the units of the device, without a word to the operator
  (`api/kegs.go:157-161`, against the comment at `history.go:239`).
* In the history editor an earlier page that has become empty meanwhile leaves both buttons off (`history-edit.html:289,294`); there
  is nothing left to show on that side, and the way back is to open the history again.
* A device that announces two tokens on one socket leaves its first entry behind; a socket accepted but not yet counted by the
  WaitGroup can outlive `Shutdown` and meet a closed database; a volume BarHelper took without the client learning of it
  stays on display when the keg returns to the value accepted before, since that is not sent again; a delete can be published
  before an update that was committed before it, and the other way round; metadata released for a packet whose transaction
  fails is lost; a scale switched to another unit with a window open measures the pour as a difference of numbers in two units; after
  a restart BarHelper's first batch goes out at once.

## Proofs

Every safety property that a passing run checks is also a theorem, for any values of the constants; only
liveness is not ([Only model-checked](#only-model-checked)).  The theorems:

| Theorem | Says | Assumes |
|---|---|---|
| `KegServerProofs!Goroutines` | `[]GoroutineInv` | — |
| `Reachable` | `[]OpenIsReachable` | — |
| `EntryLeaves` | `EntryLeavesWithOwner` (what a step of the registry may do, beside `DirectoryKept`; no run of its own) | — |
| `DirectoryImplemented` | `DirectoryKept` | `OneTokenPerDevice` |
| `TracksLive` | `[]RegistryTracksLive` | `OneTokenPerDevice` |
| `NoPhantom` | `[]NoPhantomKeg` | `OneTokenPerDevice` |
| `PourEnds` | `[]PourEndsWithConnection` | `OneTokenPerDevice`, `~StoreFails` |
| `OnlyPacketsMakeKegs` | `OnlyPacketsCreate` | — |
| `BadgeExplained` | `[]StaleBadgeExplained` | `~StoreFails` |
| `MetadataIsKept` | `[]MetadataKept` | `OneTokenPerDevice`, `~StoreFails` |
| `UpdateHubProofs!WakeupSafe` | `[]NoLostWakeup` | — |
| `NoUpdateMissed` | `[]NoMissedUpdate` | — |
| `HubTypesSafe` | `[]TypeOK` | — |
| `PourTrackerProofs!PoursFollow` | `[]WindowsDisjoint` | — |
| `CountedOnce` | `[]NothingCountedTwice` | — |
| `HistoryStaysClear` | `[]HistoryIsNew` | — |
| `PourTypes` | `[]TypeOK` | — |
| `BarHelperProofs!MarkedShown` | `[]MarkedIsShown` | — |
| `BudgetShared` | `[]SharedBudget` | `PaceAssumption` |
| `Spacing` | `[]MonitorSpacing` | `PaceAssumption`, `GlobalSendLimit <= 2` |
| `NobodyStarves` | `[]NoMonitorStarves` | `PaceAssumption` |
| `BarHelperTypes` | `[]TypeOK` | — |
| `KegLogProofs!ReadingsKept` | `[]EveryReadingKept` | `LogAssumption` |
| `StaysHourly` | `[]CompactedStaysHourly` | `LogAssumption` |
| `AveragesAreExact` | `[]AveragesExact` | `LogAssumption` |
| `ChartsWhole` | `[]ChartKeepsHoursWhole` | `LogAssumption` |
| `PagesShowAll` | `[]WalkShowsAll` | `LogAssumption` |
| `KegLogTypes` | `[]TypeOK` | `LogAssumption` |
| `CatalogProofs!OneTapEach` | `KegStaysOnOneTap` | — |
| `SettingsStay` | `[]SettingsKept` | — |
| `OrderWhole` | `OrderWholeOrReported` | — |
| `EditsMean` | `[]EditMeansWhatWasShown` | `WholeConversions` |
| `WireProofs!BufferStaysSmall` | `[]BufferBounded` | — |
| `TakenInOrder` | `StreamTakenInOrder` | `FromFirmware` of every stream |
| `ProcessProofs!RingLatest` | `[]RingHoldsLatest` | — |
| `RingImplements` | `KeepsLatest` | — |
| `ServesWhole` | `[]ServesWholeOrRefuses` | — |
| `GapsAreKnown` | `[]PageKnowsItsGaps` | — |

The last column leaves out the assumptions that only say of what type a constant is and that a stand-in for "nothing" is none of the
values.  The others say something of the program:

* `OneTokenPerDevice`: all tokens a device sends on one socket are the same, as the firmware
  does; the server does not enforce it, and without it `TracksLive` and `NoPhantom` are false (the
  entry of the first token stays).
* `~StoreFails`: transactions succeed while the server is up; a failed `SetPouring` is only logged and leaves the flag.
* `PaceAssumption`: the requests that a window admits take less than the window, and an interval and a request fit into it
  (`barhelper.go:28-47`: a window of 63 s, two requests of at most 15 s, an interval of 30 s).  `Spacing` also uses that the limit is two: of three requests
  of one batch the last may be late by two others, and the code's numbers would not do.
* `LogAssumption`: a chunk is whole steps, a day is one of the steps of a chart and none is longer, and those that reach the step of the
  compaction are multiples of it (`api/history.go:64-67` says so of its table); no reading is from the first hour of 1970.
* `WholeConversions`: the amounts that operators type convert without remainder between all labels.  The code computes in floating
  point; the model in whole numbers, so the theorem is about the units and not about rounding.
* `FromFirmware`: see [Wire, Plaato, KegStream](#wire-plaato-kegstream).

### KegServerProofs

The argument rests on one inductive invariant, `GoroutineInv`, which the run `server_safety`
checks too.  None of the properties is inductive alone.  Its parts:

* `TypeOK`;
* `Storing`: a goroutine at the store steps is confirmed and has an id, which `Gate` decided packets
  ago and no later step re-examines;
* `Silent`: a connection that has not read has no id, so `Accept` cannot meet an entry of its own;
* `FromDevice`: the packet in hand, the id and the confirmation all stem from `device[c]`,
  which turns `OneTokenPerDevice` into "`kegID[c]` never changes once set";
* `NothingClosing`: `closing` is empty before `CloseAll`;
* `SoleOwner`: until a second socket competes, whoever announced a keg owns its entry, which is why a
  confirmed teardown reaches `SetPouring`.

The proof has one lemma per action (`<Action>Keeps...`), each by the parts it can disturb.
`Reachable`, `TracksLive`, `NoPhantom` and `PourEnds` are then proved over `GoroutineInv` in the same way.
`BadgeExplained` adds `ShownStored` (a keg shown connected is stored or its removal is still to be published), which is why a
`SetPouring` that finds no row may end without an announcement.  `MetadataIsKept` adds `MetaInv`, which follows owed metadata
through the packet: held, on its way in a packet that will not be dropped as nameless, in the row, or gone with a delete.

`DirectoryImplemented` maps every step to one of `KegDirectory` or to a stutter (`DirectoryStep`).  What serves a keg is the registry;
`past` is the connections that know their keg and are not in the registry for it, `closed` the accepted sockets that are no longer open,
`shut` whether `CloseAll` has swapped the map.  `Identify` is `Take`, `Unregister` is `Leave`, `CloseAll` is `LeaveAll`, and the four ways to
close a socket are `Close`.  Three facts carry it.  A connection that announces a token has never served a keg, since its id never changes
(`OneTokenPerDevice`, `FromDevice`).  Its socket is open: `SocketInv` says that whoever is displaced, found for a delete or
taken by `CloseAll` has an id, so that no one closes a nameless connection.  And a teardown closes the socket before it reaches the registry,
also `SocketInv`.  `shut` is what tells `LeaveAll` from a removal of the last entry: without it a teardown that removes its replacement
would pass for a shutdown as long as the registry has one entry.

### UpdateHubProofs

`NoLostWakeup` is inductive as it stands, because `Mark` sets `signal` in the step that writes `pending`, and `TakePending` is the only
step that leaves `take` and empties the map.  `HubTypesSafe` adds that `current` is a message whenever the flusher broadcasts.

`NoUpdateMissed` follows a change through every hand-over: writer, bus, receiver, pending map, batch, message, queue, page.  `NoMissedUpdate`
alone says nothing of the places in between, so the invariant `HubInv` does, for each page and keg that no named gap
(`missed`, `forgotten`, `crossed`) excuses:

* `KindInv`: an event that a writer owes says what the row says, removed or updated;
* `Seen`: with no such event owed, the newest event in the pipeline is not a removal of a stored keg, an outdated message in hand has a newer event
  behind it, and what the page will show last, if it is not what is stored, will be corrected by an event or by the message in hand.

`Newest` orders the places of the pipeline from the writers' end, and one lemma per hand-over shows that moving an item from
one place to the next, folding it into an older one or reading the row later changes neither what is newest nor what a page awaits.

A reload passes the pipeline by.  `ReloadSeen` splits on what the answer says of a keg.  If it is what is stored and no older word is on its
way, all that was missed is made good.  If it is not what is stored and the page showed what is, the gap is named (`Undone`), unless a
message of the keg is still queued, which then decides what the page will show last.  Otherwise the page was wrong before and awaits what it awaited.

### PourTrackerProofs

The inductive invariant `PourInv` is the four properties and `Timely` (no end later than now, no window begun before the last
delete).  `WindowsDisjoint` is not inductive without `Timely`: a new window begins now, and must not begin before a pour that ended.  The
proof splits where the code does: `ApplyPacket` and `SetPouring` both bring a `Change` of the row (the window as it was,
no amount forgotten), and one lemma per part shows that `trackPour` keeps it for any such change.

### BarHelperProofs

`MarkedShown` rests on `FateKnown`: a late request belongs to an unsure monitor, and a confirmed answer not yet noted carries the
volume on display.

The two bounds in time are about requests as they *go out* (`dispatched`), while the code counts the stamps of `due`, which
carry the tick's time and so lie before.  What relates them:

* `Clock`: stamps never decrease, none is ahead of the clock, and a tick that waits in the channel is no older than any;
* `Stamped`: the requests of the batch are the last stamps, all of one time, of monitors that differ;
* `Busy`: some of the last stamps begin a *busy period*, in which only requests took time: the k-th request of it went out at most
  k - 1 timeouts after the first stamp.  A tick that waited behind a slow batch continues the period; an idle worker begins a new one;
* `Prompt`: a dispatch went out at most `MaxDelay` after its stamp, or its stamp is pruned and whatever goes out next is stamped a window
  less that delay later;
* `Spaced`: the same of one monitor and the interval.

`BudgetInv` and `SpaceInv` are these with the two properties.  `Prompt` needs that at most `GlobalSendLimit` stamps are in the window,
hence in a busy period, which is where `PaceAssumption` enters.

`NobodyStarves` counts.  For a monitor `m` that waits, `Turn(m, c, T, s)` says how far the queue has come: `c` windows are full, the
last of them ended by `T`, at most `c` times a window with its delay after `m` began to wait; at most `s` stamps, fewer than
the limit, are younger than `T`; and those still ahead of `m` (`Ahead`), these stamps and the full windows make together fewer than all monitors.
A flush that leaves `m` out serves only monitors ahead of it, and each leaves `Ahead` for good (`FlushAhead`; that stamps are
strictly older than a waiting tick, `Fresh`, keeps the order of ids out of it).  So a flush moves `Ahead` into `s`, and a full `s` into
`c`, with the flush as the new `T` (`FlushTurn`).  A flush cannot come later than a window after `T` and still leave `m` out with the
window not full, and time does not reach `T` plus a window and the delay: the worker is idle before that, or in a busy period that began by
`T` and fits into the window, or in one that began later with fewer requests than the limit (`BusyTurn`).

The delay belongs to the bound.  That every monitor is served within as many windows as it takes, without it, is false: a
slot that expires while the worker waits for a request that was stamped just before is filled when that request ends.  With the code's
numbers and two kegs a volume waits 78 s at most, not 63 s.

### KegLogProofs

* The arithmetic of steps comes first, from the division theorem up: `StepOf` is a multiple, at most its
  argument, less than a step below it, monotone, and unchanged by itself (`StepBelow`, `StepOfAligned`, `StepOfStep`, `NextChunk`).
* `CompactSound` and `CompactHourly` are about `compactRange` alone: over a range that begins and ends on steps it keeps
  `Sound(rows, D, n)` (disjoint covers, each within its step, together all of `D` that retention has spared), and leaves nothing
  off the hour in the range.  `WholeSteps` is why: no bucket is cut by either end.
* The invariant `LogInv` adds to the properties what a pass relies on between its steps: its cutoff and its place
  lie on steps and are not ahead of the clock, all that lies before its place is hourly, and no keg is left out of its list.
* Prune, clear, edit and delete all `Lessen`: they take rows with their readings, or change neither times nor
  covers.  One lemma shows that `LogInv` survives that.
* `AveragesAreExact`: sums over sets are folds, so the lemmas about them (a sum is that of its parts, values that agree give one
  sum) are proved by taking the smallest of the numbers at which the fold could first go wrong.  `ExactInv` then says of each row that its
  amount is the average of the readings it covers, and folding keeps that because it only folds rows of one
  reading: a row that covers more is alone in its step and stands at its start (`Lone`), so it is left alone.
* `ChartsWhole`: `sampleStep` returns one of the steps or whole days, and a multiple of a multiple is one.  With that, for any start and end of
  the window: a folded row and the readings it stands for fall into the same point, and an hour that lies in the window has its row and its
  readings there.
* `PagesShowAll`: `WalkInv` says where the rows that are still to be shown lie: in the log, and beyond the cursor of the page in the direction
  of the walk.  A cursor is a time, so no row that comes, goes or is folded moves another to its other side; that no
  reading has time 0 is needed because 0 means no cursor.

### CatalogProofs

`OneTapEach` needs that a request which will replace a tap names taps and kegs that exist (`TapInv`), and for `LinkTaps` that the last link
of a tap is the one that counts, which `checkKegFree` of every link then sees.  `SettingsStay` rests on the connection: while a handler is between
`ReadConfig` and `WriteConfig` it alone holds `conn`, and what it will write is `wanted` with its patch (`ConfigInv`); `ReadBack` shows
that settings survive being written as text and read back.  The invariant `OrderInv` of `OrderWhole` says how far each order has come, but for kegs that others have moved since:
nothing moved while kegs are looked up, then every keg before `next` in its place and every keg not named in its own.  A failed
call, a kill and a keg that is gone all end an order where it stands, which is a beginning of it.
`EditsMean`: `EditInv` says of a page that the unit it shows its amount in comes from the settings that its handler read, and of a correction
between its steps that its amount is what was typed, converted from the units that this handler read; then it is arithmetic, that a conversion
undoes its inverse.

### WireProofs

*Feed.*  `Layout` gives the cell at which each frame of a stream begins.  From there `FeedReads`: fed a buffer that begins where a frame
begins, `Feed` returns the next frames whole, leaves less than a frame, and reports a length beyond the limit when it gets to it.
The inductive invariant `ReadInv` says that the buffer of an open connection is the cells between the end of the last
frame taken and the last cell read, and that this is no whole frame; `BufferStaysSmall` follows.

*Batches.*  `TakenInOrder` maps a read that completes `m` frames to `Take(m)`, so it must show that one `ingest` of `m` frames is `m` of one each:

* a frame does one of a few things to whatever packet it meets (`FrameDoes`: names the device, adds metadata, appends a pin, sets an unknown one,
  nothing), so decoding a sequence joins the packets of its frames (`Joined`);
* `Got` is `ingest` in terms of a packet, and `Heard` the same for a device of which it is given whether it is known to be a keg.  `HeardTwice`:
  a packet and then a frame leave what the two joined leave, provided they `Fit`.
  They do not always: a pin before the token, or a second token, is where batches matter;
* `Knows` is what `FromFirmware` gives: after `j` frames the connection has a device if a token was among them, it is confirmed only if
  a pin was, and so the packet of the next frame fits.  The invariant `PeerInv` says so of the connection;
* a batch with a frame that `identifies` a keg is heard as a keg's from its first pin on (`Sure`), one without it as what was known before:
  `Turns` says what a frame changes in that, and `Together` goes along the batch with it.

`FoldRuns` takes the folds of the community modules apart one element at a time; the two are then proved by induction along the frames of a batch.

### ProcessProofs

`RingLatest`: position by position the number that must stand there.  `RingImplements`: each step of `Process` maps to a step of `RecentLog`
or a stutter, through `Turn` and `Places`, the modular arithmetic of reading a ring from `next`.  `ServesWhole`: the invariant `SchemaInv` says
what the transaction and the file have in common at each place of `Open`.  `GapsAreKnown`: the answers of `Since` are
records without a gap among them (`NewerIs`), so what a page adds continues the last record it has seen, or the page notes that records are
missing (`FreshFollows`).  `PageInv` says that of all it has `seen`, through answers that overlap, are lost or come late; that cutting what it holds at
each answer leaves the last of all is `LastTwice`.

### Notes on the form

Induction is by the least counterexample (`WFMin` of the library), as the induction theorems that take a predicate are out of the provers' reach.
A few operators of the models are written so that they can be reasoned about: filters of a sorted sequence as the part beyond
a place (`Newer`), ordering by what holds of the result, and `Feed` by where the loop is after `k` frames.

### Only model-checked

* Liveness: `DisplacedEnds`, `ClosedByOthersEnds`, `PagesConverge`, `PagesHeal`, which is out of the prover's reach.

## What is abstracted, what is left out

* A published update in `KegServer` takes the registry's answer at that moment.  The code renders it
  later, in the flusher; the delay, the folding and the losses are `UpdateHub`'s subject.  The connected flag is not part
  of a version in `UpdateHub`, nor are display units, settings or taps.
* A read delivers one packet.  `handle` may take several frames from one segment and merge them into one
  packet before `ingest`; such a packet is a member of `device[c]`.
* An acknowledgement that cannot be written ends the connection.  Socket writes by `Commander` change no state here.
* `DeleteRequest` begins with the keg found; a 404 changes nothing.
* `AppendLog` in `KegServer` either adds history or not: its throttle and its table are `KegLog`.
* `KegAmount` in `KegServer` hands over to BarHelper, which is a module of its own: it never blocks its
  caller and nothing of it comes back to the server.
* In `PourTracker` the clock never goes back, and amounts are whole numbers.  A size is compared with the limits as
  the code does, after conversion of the limits into the keg's unit (`BaseOf` converts the size instead).  A
  pour's size, unit and copy of the tap are not kept in that table; `Catalog` has `UpdatePours`, which edits them.
  `plausiblePour` and `last_pour`, which nothing in the UI shows, are left out.
* The page of `UpdateHub` is the kegs page, with its reload.  The tap list treats its kegs in the same way (`taplist.html:325-341`); the set-up
  page shows one keg and loads the list every ten seconds, and is not modelled.  `kegs.html` puts a reload off while a tile is being dragged; here
  any reload may be put off.
* In `KegLog` a row's temperature and percentage go the way of its amount, and time is a number; the packets' instants are a constant.
* In `Catalog` names, colours, styles and notes of taps, the text of pours, the home page, the clock, the theme and the duration of a pour
  are left out: each is stored and shown as it is.  Temperatures convert as amounts do.  Rounding is not modelled.
* In `SchemaMigration` a column is a name and what makes it addable; a type is not looked at by the code either.  `Open` refuses a file here for
  a column that cannot be added; a disk error, an `ALTER` that SQLite rejects for its default (`store.go:154-162`) or a statement of the schema that fails
  also end it, and leave the file as a kill at that point does, which is modelled.
* Not modelled: configuration (read once), the router, HTTP validation and rendering, the CSV files, the filters and summaries of pours, the log
  level, `plausiblePour`, `kegsim`.  Each is stateless or a single call around a modelled one.

## Plan

Modelled: `KegServer`, `UpdateHub`, `BarHelper`, `PourTracker`, `KegLog`, `Catalog`, `Wire`, `Process`; every safety property
that a run checks is also proved, and three of the components implement an abstract specification.  What is left:

1. An abstract mailbox implemented by `UpdateHub` by a refinement mapping, model-checked in the existing runs and then proved.
2. The pages and totals of All Pours, which skip by offset while pours are deleted; the copy of the tap in a pour.
