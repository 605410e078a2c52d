# SmartKeys verification

TLA+ models of SmartKeys, the TLC runs that check them, and TLAPS proofs.

SmartKeys turns a phone or tablet into a configurable keyboard. It consists of

- the **phone** app (`lib/`, Flutter, with native code under `android/` and `ios/`), which shows buttons, sends keys
  and dictated text over Bluetooth HID, or talks to
- **LumiaKey Desktop** (`desktop_companion/`, Flutter), which broadcasts itself on the LAN, serves its layout (the
  *manifest*), executes actions and inserts dictated phrases,
- the **community server** (`community_server/`, Rust and PostgreSQL), which collects voluntarily shared click counts,
  publishes rankings and keeps account backups,
- and shared packages (`packages/`): the protocol records and local speech recognition.

Sections: [1 inventory](#1-inventory), [2 modules](#2-modules), [3 runs](#3-runs), [4 disagreements
found](#4-disagreements-found), [5 proofs](#5-proofs), [6 limits](#6-what-is-left-out), [7 plan](#7-plan),
[8 running](#8-running-the-checks).

## 1. Inventory

| Component | State | Operations | Talks to | Hard because | Correct when |
|---|---|---|---|---|---|
| Server: contributions (`contributions.rs`, SQL functions) | `batches`, `batch_items`, eight aggregate tables | POST and DELETE of a batch | PostgreSQL, phone | concurrent transactions, retries of unseen answers, guarded decrements | aggregates equal the live batches; nobody but the owner removes; no deadlock |
| Server: rankings (`ranking.rs`) | reads the aggregates | GET with period, tag, experience | phone, web | periods and threshold over daily sums | nothing below the threshold is published |
| Server: rate limiter (`main.rs`) | client -> (count, window start) | `allow` | every request | a bounded table that is swept when full | at most `limit` per window and client, whoever fills the table |
| Server: key cache (`auth.rs`) | keys, `expires_at`, `refresh_after`, `refresh_lock` | `verified_subject`, `get_key` | Google | double-checked refresh under a lock, back-off, dropped requests | one fetch per back-off; keys never go back; expired keys and tokens never accepted |
| Server: account backups (`account_backup.rs`) | one row per account, 8 permits | PUT, GET, DELETE | phone, PostgreSQL | requests dropped at every await, statements that outlive them | a permit is always returned; an answered write is not undone by an unanswered one |
| Phone: backup codec and client (`account_backup_codec.dart`, `account_backup_client.dart`) | none | encode, decode | server | two validators in two languages | what the phone writes the server takes and the phone reads back |
| Phone: sharing (`usage_dashboard_screen.dart`, `shortcut_community_store.dart`, client) | sharing on/off, pending batch, receipts, withdrawn events | review, submit, retry, cancel, withdraw, clear | server, journal, file | lost answers, late requests, crashes, two dashboards | no click counted twice; every public batch withdrawable; nothing settled is sent again |
| Phone: private files (three repositories) | file, `.next`/`.tmp`, `.previous`/`.bak` | save, load | file system | crash or failure between two renames | an atomic register |
| Phone: usage journal (`shortcut_usage_repository.dart`) | journal, clear marker, legacy counters | load, record, clear | private files, preferences | clear in several steps, interrupted anywhere | recorded clicks survive, cleared ones stay away |
| Phone: companion link (`companion_service.dart`) | host, manifest, status, epoch, pending refresh | discover, expire, fetch, post, pair, heartbeat, disconnect | Desktop | every await races with broadcasts, timers and choices | the displayed manifest is the selected Desktop's and current |
| Desktop: manifest controller (`desktop_controller.dart`) | manifest, config store | edits, monitor, button | store, OS | read-modify-await-write, an upgrade at each start, discoveries that rewrite what was edited | no edit lost but what these replace, revision identifies the manifest |
| Desktop: dictation receiver (`dictation_receiver.dart`) | queue, remembered outcomes | insert phrase | native injector, phones | duplicates, partial insertions, bounds | a phrase is inserted once, in order, and acknowledged truthfully |
| Desktop: HTTP server (`companion_server.dart`) | sockets, broadcast timer | start, stop, broadcast, handle | phones, controller | late packets | answers are of the present manifest |
| Local dictation (`packages/local_dictation`) | listening, busy, generation, decode queue, recogniser isolate | start, stop, cancel, configure, close | microphone, text output | overlapping start/stop/cancel, worker death | nothing of a cancelled session is delivered |
| Speech models (`model_manager.dart`) | model files, staging, backup | download, import, delete | network, files | crash between renames, cancellation | an installed model is a validated one |
| Desktop dictation (`desktop_dictation.dart`) | hotkey and start generations | hotkey, start, stop, models | local dictation | release during a start | the microphone is open only while wanted |
| Phone: Bluetooth text (`hid_text_output_service.dart`) | session, queue of 4 | begin, send, cancel, host change | HID controller | host change during a phrase | text goes only to the host of its session |
| Phone: Android HID (`AndroidHidController.kt`) | registration, device, step queue | connect, send, release | Bluetooth stack | callbacks, refused reports | every pressed key is released |
| Phone: app controller (`app_controller.dart`, `config_repository.dart`) | configuration, pressed buttons, restore | edits, press/release, profile switch, restore | everything on the phone | saves not awaited, restore over edits | no edit lost, releases follow presses |
| Phone: images, sign-in, installers, setup tables, UIs, power | mostly I/O and conversions | | | | |

`PROJECT.json` lists the same parts with their files and status, and under `hazards` what is hard to test in each, at
its line, with the property that covers it.

## 2. Modules

| Module | Component | Kind |
|---|---|---|
| `CommunityServer` | contributions, aggregates and rankings; each stored function one step | specification of the database |
| `CommunityTx` | the same functions statement by statement under row locks | EXTENDS `CommunityServer`, implements it |
| `RateLimiter` | the limiter in front of every route | component |
| `KeyCache` | Google's keys and the checks of a token | component |
| `AccountAccess` | a request until its sender is known | composition of `RateLimiter` and `KeyCache` |
| `BackupFormat` | what a backup may contain: the server's validator and the phone's codec | operators over records |
| `AccountBackups` | permits, uploads, statements and answers of the account routes | component, uses `BackupFormat` |
| `CommunitySharing` | one device, its store, the network, and the server | composition with `CommunityServer` |
| `AtomicRegister` | what callers of a private file rely on | abstract specification |
| `AtomicFile` | replace-by-rename with failures and crashes | implements `AtomicRegister` |
| `UsageJournal` | the click journal, its recovery and Clear | component |
| `DictationReceiver` | phrases arriving at the Desktop | component |
| `CompanionLink` | the phone's link to Desktops | component |
| `DesktopLayout` | the Desktop's manifest and its store | component |
| `LocalDictation` | one controller of local dictation | component |
| `CommunityServerProofs`, `CommunityProofs` (transactions and sharing), `AccountAccessProofs`, `AccountBackupsProofs`, `AtomicFileProofs`, `UsageJournalProofs`, `DictationProofs` (receiver and local dictation), `ManifestProofs` (link and layout) | theorems | proofs |
| `MCCommunityServer`, `MCCommunityTx`, `MCAccountAccess`, `MCAccountBackups`, `MCCommunitySharing`, `MCDictationReceiver`, `MCDesktopLayout` | constants for TLC | instances |

Definitions called `...` in a comment "Mutant of X" are variants of X with a plausible error. They are used by nothing;
exchanging X for one of them must break the property that `PROJECT.json` names, which shows that the property says
something about X.

### CommunityServer

State: `batches` (a row or `NoRow`), `batch_items`, and the eight aggregate tables as two functions `count` and
`contributions` over *scopes* -- a scope has a tag, an experience and a day, and `Null` where its table has no such
column. Actions: `Post` is `contributions::post` with `submit_community_batch` (`SubmitNew`, `SubmitSeen`); `Delete` is
the withdrawal (`WithdrawLive`, `WithdrawRefused`); `ServerError` a rolled back request; `NextDay` midnight. `Post`
takes any day up to today because the handler reads the clock before it waits for a connection. `Ranking(view)` is what
a query publishes: the all-time rows, or the sum of the daily rows from the cutoff day on, of the categories with
`Threshold` contributions.

A payload is its own hash, a token its own hash. `validate()` is the set `Payloads`. The order of rows in an answer is
left out.

### CommunityTx

`tx[c]` is the transaction of connection `c`: its next statement, the rows still to update (`todo`), the locks it holds
and its answer so far. `InsertBatch`/`InsertConflict` are INSERT ... ON CONFLICT DO NOTHING, `LookupBatch` and
`FindLive`/`FindRefused`/`FindNothing` the SELECT ... FOR UPDATE, `UpdateRow` one UPDATE of the loop, in the order of
the loop and of the statements in its body. Writes become visible at `Commit`; `Abort` is any failure. The property
`ImplementsCommunityServer` is `CommunityServer!Spec` over the same tables: each `Commit` is one call of an atomic
function and every other step a stutter.

PostgreSQL itself (locks held until the end, first come first served, READ COMMITTED) is an assumption.

### RateLimiter, KeyCache and AccountAccess

`RateLimiter` has the table `buckets`. `Swept` is the sweep that a new client of a full table causes, `Admit`, `RefuseNew`
and `RefuseSpent` the ends of `allow`. The variable `tally` is a history: it counts a client's admissions since the
first of them, whatever happens to its row.

`KeyCache` has the fields of the cache, the queue of `refresh_lock` (its head is the holder) and, for each request, where
in `get_key` it is: `Check` is the look without the lock, `RecheckEnds` and `BeginFetch` the second look by the holder, who
reserves the back-off before it asks Google; `GoogleAnswers`, `FetchFails` and `Store` are the fetch. `Disconnect` drops a
request at any wait, and with it the lock or its place in the queue. `Rotate` lets Google publish its next set of keys.
`EarlyAnswer` and `Verdict` are the checks before and after the key is known. A token is a record of what these checks
read; its signature is taken as given.

`AccountAccess` puts the two together as the layers of the router do: `Arrive` admits a request and begins its
verification in one step, because nothing is awaited in between; `TurnAway` is the limiter's refusal; `Serve`, `Leave`,
`KeysRotate` and `Tick` are the steps of the parts. Both read one clock, whose unit is the back-off of 30 s. A fetch is
cut off after 4 s, so it sees at most one step of that clock.

### BackupFormat and AccountBackups

`BackupFormat` states the rules twice, because the code does: `ValidateBackup` and its parts are the server's
`validate_backup`; `Encodable`, `Encode`, `Readable` and `Decoded` are the phone's `AccountBackupCodec`. A body is a record:
texts are their lengths in bytes, sizes hundredths, and what a check reads of a path, a value or an image file is a
field (`whole`: it ends as its format asks; `plain`: a number without plus sign and leading zeros; `strict`: JSON as
`serde_json` reads it). `WellFormedEnvelope` and `WellFormedDraft` say what such records are made of: the fields of the
server's structs with their types, and a configuration whose preferences are within the ranges that the phone keeps
wherever it sets them. The images of a draft are a set of pairs of path and file, the code's map, and they are sent in any
order.

`AccountBackups` begins where the guard has verified the sender. `Busy`, `BeginQuery` and `BeginPut` are the guard and the
start of the handlers, `Uploaded` the limit of the body, `Validated` the decoding off the event loop, `Execute` the one
statement, `Answer` and `Failed` the answers, and `Drop` what hyper does when the client goes away. A statement of a dropped or
failed request may still run, later (`ExecuteLate`). Two histories say what a reader may see: `maybe` are the
values that the answers so far allow a row to have, `rivals` what may come between while a request is in progress. A
behaviour chooses at its start one of the `Situations`: which requests and which bodies it has. `BodiesAssumption` says
where bodies come from: a phone has encoded one from its draft, or it is any envelope of the right shape, or malformed.

### CommunitySharing

`screen[s]` is one instance of the usage dashboard: the store it loaded (`store`), what it is doing (`pc`) and which
mutation is being written (`writing`). `disk` is the store's file, one atomic value by `AtomicFile`. `Mutate` with
`PersistDone`/`PersistFailed` is `_mutate`: change memory, write, and undo after a failure. `net` holds requests under
way; the server serves, loses or delays them, and an answer that nobody awaits any more is dropped. Leaving a dashboard
does not stop its continuation. A failed write restores memory, but it may have replaced the file all the same, when what
failed is the deletion of the backup behind the rename (`PersistFailed`). `Submit` takes the pending batch and checks the
switch, `Connected` sends that batch when the connection is open, whatever the switch says by then. The history
`settled` holds the batches whose receipt was saved, so that the dashboard reported them as submitted, cancelled or
withdrawn. `Clear` cancels the pending batch and then erases the local clicks. The server's steps
are the actions of `CommunityServer` themselves. One service origin is modelled; stores of different origins share
nothing. A click counts one, so every count up to the total bound is a count of the server (`CountsSuffice`), and every batch has
the one token of the instance (`TokensAssumption`). The cut of a batch at 15 categories is left out (a batch is any subset of the eligible clicks at the total
bound).

### AtomicRegister and AtomicFile

`file`, `next` and `previous` are the three names; the steps of a save are `CreateNext`, `DiscardPrevious`, `MoveAside`,
`Replace`, `Finish`, with a failing variant of each and a `Crash` between any two. A cut-off creation leaves `Torn`
contents. `RecoverPrevious`, `TidyNext` and `Read` are the load. Two variables, chosen at the start and fixed, select the
repository and the environment: `tidies` (setup choices and usage files delete what an interrupted write left; the
community store does not) and `strands` (moving the old file back may fail). The refinement maps the register's `value`
to `Current`: the file, or the previous one while the file is missing; where `strands` holds nothing is promised.

### UsageJournal

The journal is a sequence of complete lines (events) and fragments `Torn`; offsets count pieces. `pc` is the next file
operation of the load, record or clear under way; the repository's queue serialises them. A load migrates old counters
(`ReadLegacy`, `MigrateLegacy`, `RemovePreferences`), cuts an incomplete tail (`ReadJournal`) and finishes an
interrupted clear (`CheckMarker`, `Retain`, `Reset`, `Unmark`); `Clear` is `Mark`, `ClearRetain`, `ClearReset`,
`ClearUnmark`. Any operation may fail and the process may end anywhere. `faults` records the three interruptions that the
properties except: a fragment left by a failed append, a clear that failed together with its recovery, and an in-place
truncation that was itself cut off.
All lines have the length one; `_atomicWrite` is one step, by `AtomicFile`.

### DictationReceiver

`queue` is the chain of futures `_tail`, `seen` the remembered outcomes in order of use. `Admit`, `TurnAway`, `Refuse`,
`Repeat`, `BeginInsert`, `EndInsert` are the branches of `handle`; `Touch` and `Remember` are `_touch` and `_remember`, which
order and bound the memory. `calls` and `uses` are histories of what reached the sink and of the keys that were used. The native injector is external: it inserts all of a
text, or fails after any part of it, or refuses because a modifier key is held.

### CompanionLink

`host`, `shown`, `status`, `heard` and `manual` are the fields of the same purpose in `LanCompanionService`; `refresh`,
`post`, `pairing` and `beat` are the continuations that wait for HTTP. The code compares an *epoch* after every await;
here each continuation carries `current`, which every increment of the epoch clears. A request answers with a revision
its Desktop had between the request's start and its end. One `_post` at a time is modelled, since each only reads the
selection and ends the same way. `dispose` and dictation are left out. On iOS discovery is disabled; that is the run
without broadcasts.

### DesktopLayout

`Commit` computes the next manifest from the one in memory, drops it if it is not valid (two applications flagged to be in
front), and else hands it to the store (`saving`, a queue, because the platform channel serves calls in order); `Save`
replaces memory when the store has answered. An edit's content is its number, in one of the `Fields`: each application, the
layouts of Codex and Chrome (`codexLayout`), and all the other layouts, settings and profiles (`layouts`). `Start` upgrades
the stored manifest (`Upgraded`: a manifest whose profiles are all of an older version is replaced, Codex gets its name
back, a Codex or Chrome layout without the buttons that the upgrade asks for is replaced), puts what its discovery finds on top and saves it
without validation; `StartCaught` ends a start with the starter manifest, after an error or because the stored manifest is
not valid. `Discover`, `Look`, `Publish` are the three parts of a discovery, by the three-second monitor or the button.
What it returns (`Refreshed`) has the flag of every application whose name or executable is part of the name of the
process in front (`Matches`), and may have another executable for the `Resolvable` applications. The editor
of an application holds the record it was opened with, the flag included, so that saving it (`EditApplication`) can bring
back an old flag; a new executable can match a second process.
The specification is `LayoutSpec`, with fairness `FairLayoutSpec`; the run checks the latter.
`mishaps` records what the properties except: changes that overlap, a start that ended with the starter manifest, a
discovery that ran while an edit of an application was made.
The flags `detected` and `running` are left out, as are the other things that `validate` checks (an import whose button
ids collide is refused before anything is changed). A replaced Chrome layout keeps its name and the listed buttons it had; the model
takes it as replaced whole.

### LocalDictation

`op[c]` is a call of `LocalDictationController` under way and `op[c].at` the future it waits for; the actions are the
stretches of code between two awaits. `Start`, `Permitted`, `FilesFound`, `WorkerReady`, `CaptureStarted`, `CaptureUndone`
and `StartFails` are `start`; `Stop`, `Cancel`, `Configure` and `Close` first wait for a start under way (`StartAwaited`),
then for the microphone (`StopMicClosed`, `CancelMicClosed`) and for the queue (`StopEnds`, `CloseEnds`, `ConfigureEnds`).
`tail` holds the phrases chained behind `_tail`, the first of which `_decode` works on (`BeginDecode`, `Decoded`, `Delivered`).
Generations are only compared for equality, so a start and a phrase carry a flag `current` that an increment clears.
The microphone is one device: whoever closes it, it is closed. A capture, a worker, a recognition and a delivery may end
at any time, well or not; so a worker that died is one whose recognitions all fail, which is what the code makes of it,
since `_recognizer` stays set. The specification is `DictationSpec`, with fairness `FairDictation`. `mishaps` records what the properties except: a start admitted while an earlier stop or
cancel is not over, a change of the model under a session, a microphone that fails to close.

## 3. Runs

Deadlock is checked except where noted. State counts are of the distinct states.

| Run | Bounds | States | Checks |
|---|---|---|---|
| `community_database` | 2 batches (= threshold), 2 tokens, 2 categories with counts up to 2, a tag, 2 days, a period of 1 day | 199 thousand | `TypeOK`, `ContributionsMatchBatches`, `CountsMatchBatches`; `PublishedIsBacked`: a published category has that many live batches with the asked tag and days; `OnlyOwnerRemoves` |
| `community_transactions` | 2 connections, 2 batches, 2 categories, rows of all-time and daily tables | 814 thousand | `NoDeadlock`, `RowsStayCovered` (the RAISE lines are unreachable), refinement of `CommunityServer` |
| `account_access` | 2 clients for 1 row, limit of 3, 2 requests, 5 tokens, 2 sets of keys, 3 units of time | 665 thousand | `AdmissionsBounded`, `FetchesAreSpaced`, `KeysOnlyAdvance`, `AcceptedIsCurrent`, `RequestsEnd` |
| `account_backups` | 2 permits, 2 accounts, 1 late statement; 3 requests that upload one body, 2 that upload two, and 1 with each of 234 bodies | 581 thousand | `PermitsMatch`, `ReadsLatest`, `PhoneBackupsAreTaken`, `PhoneBackupsComeBack`, `StoredIsReadable` |
| `community_sharing` | 1 dashboard at a time, 2 clicks, 2 batches, 3 requests, any crash, loss, delay and failed write | 3.3 million | `EachClickSubmittedOnce`, `TotalsNeverExceedClicks`, `LiveBatchHasReceipt`, `SettledIsNotSent` |
| `private_file` | 3 values, either load, restoring may fail or not | 87 thousand | `AcknowledgedSurvives`, refinement of `AtomicRegister` |
| `usage_journal` | 3 clicks, any number of clears, loads, crashes and failures | 537 thousand | `RecordedSurvives`, `ClearedStaysCleared` |
| `dictation_receiver` | 6 requests for 3 phrases, queue of 3, memory of 2 | 64 thousand | `AcknowledgedWasInserted`, `ReplayNeedsFullWindow`, `AdmittedIsAnswered` |
| `companion_link` | 2 Desktops and one without a manifest, 2 layout changes, 2 choices, 1 failure, 1 silence, 1 late broadcast | 1.3 million | `AtRestIsFresh`, `ManifestOfSelected`, `EventuallySynced` |
| `desktop_layout` | 2 applications (one Codex, on macOS), anything in front at first, 3 events: edits, opened editors, presses, switches, failures, restarts | 1.1 million | `EditsSurvive`, `RevisionIdentifies`, `ForegroundIsShown` |
| `local_dictation` | 2 overlapping calls, 2 models, 2 queued phrases | 420 thousand | `DroppedStaysDropped`, `MicIsShown`, `SessionHasModel`, `EndIsFinal`, `CallsEnd` |

One more run, `community_sharing_reopened`, ends with a counterexample; it is listed in section 4.

What the properties of the two runs on accounts say:
- `AdmissionsBounded`: at most the limit in the window that a client's first admission opens, though other clients fill the
  table and sweep it. `FetchesAreSpaced`: Google is asked at most once per back-off, unless the last fetch found
  its key. `KeysOnlyAdvance`: a slow answer never replaces newer keys. `AcceptedIsCurrent`: a token is accepted only
  before it expires and for a key that Google still publishes or withdrew no more than the longest max-age ago,
  with every wait in between. `RequestsEnd`: the lock passes on, also when its holder is dropped.
- `PermitsMatch`: permits and requests in progress always add up. `ReadsLatest`: a download is the last acknowledged value
  of its own account or one that was in progress beside it. `PhoneBackupsAreTaken`: the server takes what the phone
  encodes, but for the differences listed in section 4. `PhoneBackupsComeBack`: such a backup decodes to the same settings,
  profiles, buttons at their positions, and images. `StoredIsReadable`: whoever sent it, the phone can read what the server
  keeps, again but for listed differences.

What the properties of sharing and of the layout say:
- `EachClickSubmittedOnce`, `TotalsNeverExceedClicks`: a click is in at most one batch that the server ever stored, and
  a public total is at most the clicks made. `LiveBatchHasReceipt`: a batch in the totals has its receipt, or is pending, on disk.
  `SettledIsNotSent`: what was reported as submitted, cancelled or withdrawn is not sent again, and what is sent is
  named by the file, also after a write that failed but replaced it. It does not say that nothing is sent after the switch
  was turned off: that is false of the code (section 4).
- `EditsSurvive`: a saved edit is kept in memory and in the store until the next of its field, except that a start may
  take back an incomplete Codex or Chrome layout and Codex's name, and a discovery an executable it finds.
  `RevisionIdentifies`: another manifest has a higher revision, another activated application a higher sequence.
  `ForegroundIsShown`: if in the end the process in front matches at most one application, the manifest flags just what it
  matches, whatever was refused, overlapped or failed before.

A property that a known disagreement breaks names the event after which it no longer holds (`faults` in `UsageJournal`,
`mishaps` in `DesktopLayout` and `LocalDictation`, `Undisturbed` in `CompanionLink`, `strands` in `AtomicFile`, `BeyondServer` and
`Wider` in `AccountBackups`). All those events do happen in
the runs, so that the properties without such a premise are checked in their presence, and the others in every behaviour
up to the event.

Why these bounds are enough to be interesting: two batches and two connections are what it takes for two transactions to
meet on every kind of row, and two categories for them to lock in opposite orders if the code did.
The publication threshold is the number of batches, so one missing batch shows. Three events let an edit give Codex an executable that
the other's process contains and that process come to the front, after which the monitor is refused; or an edit be saved and restarts
and discoveries follow it. Three contents distinguish the
acknowledged, the attempted and the torn value of a file. A memory of two for three phrases makes the receiver forget. Two
layout changes let one revision be fetched, one be heard during the fetch and one be missed. Two overlapping calls meet in every
pair of kinds and at every await; two queued phrases let one be recognised while one waits, and the queue be full.
Two clients of a table of one row make each sweep and refuse the other. Two requests meet at the lock in every order; two
sets of keys let an old answer meet a newer one, and three units of time outlast a window, a back-off and the life of
the keys. Three requests for two permits are one too many; two uploads of different bodies, one of them late, can undo
each other. The 234 bodies differ from the first in one place each, at or just beyond a limit of one validator: 149 of them are what the
phone encodes, of which the server refuses 18, the others come from elsewhere, and one is longer than the server
reads.

`CHECK_DEADLOCK FALSE` is set where the system may stop for good: after the bounded requests of the sharing and
dictation runs are used up, and in `CompanionLink` after a failed pairing, when nothing happens until the user chooses.

Fairness:
- `AccountAccess`: weak fairness of the steps of each request: the runtime polls the futures it has, and a fetch ends by
  its timeout of 4 s. Clients and Google's rotation are not fair. `AccountBackups` states no liveness, because the server
  waits for the body of an upload without a timeout.
- `DictationReceiver`: weak fairness of the chain of futures (each is completed in a `finally`) and of the injector's
  return.
- `CompanionLink`: a Desktop broadcasts every two seconds, every HTTP call ends by its timeouts, the heartbeat is a periodic
  timer. User choices, failures and silences are not fair.
- `LocalDictation`: every answer of the platform and of the worker arrives (starting a worker ends after two minutes, a
  recognition and the wait of a stop after sixty seconds), and the owner's `onText` returns. Calls and speech are not fair.
- `DesktopLayout`: the monitor is a periodic timer, commands have timeouts, the store answers. Edits and presses are not
  fair.

## 4. Disagreements found

The first is a run that TLC ends with a counterexample; `PROJECT.json` (`findings`) quotes the sentence it contradicts.
The others were met in the same way, by a property without its premise, and the passing properties name them as the
premise, or as one of the listed differences of the two validators.

| Where | What happens | Shown by |
|---|---|---|
| `usage_dashboard_screen.dart`, `shortcut_community_store.dart` | A dashboard left during a submission and a new one hold two copies of the store; a write of the one that was left (of the switch, or of its acknowledgement) puts an old copy over the newer file, and a receipt or pending batch is lost: what the server counts of it can no longer be withdrawn | run `community_sharing_reopened` |
| `shortcut_usage_repository.dart:355` | A clear that failed, and whose recovery failed, leaves its marker; the retried clear reuses the old offset and keeps the clicks recorded in between | premise `unfinished` |
| `companion_service.dart:690` | An action answered before the first fetch sets the status to ready while the manifest retained from another Desktop is still displayed | `ManifestOfSelected` speaks of manifests that arrive, not of the retained one |
| `controller.dart:243` (local dictation) | A phrase spoken while a cancel waits for the microphone to close is taken for the new generation, recognised and delivered | `DroppedStaysDropped` speaks of what was queued before the cancel |
| `account_backup.rs:541` and `account_backup_codec.dart:99` | The phone copies image files as they are and checks their header; the server also asks for a PNG's IHDR at its place, a JPEG's end marker and a WebP's stated size, and at least 33, 4 and 30 bytes (a lossless WebP of one colour is shorter), and answers 400 to a backup with an image that decodes but is not so. `docs/GOOGLE_BACKUP.md:83` speaks of a header | `BeyondServer` (`whole`, `Shortest`) |
| `account_backup.rs:300`, `:318` and `account_backup_codec.dart` | The server bounds the bytes of names, labels and identifiers and the ranges of sizes and alignments; the phone's codec bounds neither, so such a configuration cannot be backed up | `BeyondServer` (`TextTooLong`, `OutOfRange`) |
| `account_backup.rs:414` | JSON of a companion action that only Dart reads (deeper than 127 levels, numbers too large for a double, halves of surrogate pairs) passes the phone's check and not the server's | `BeyondServer` (`strict`) |
| `account_backup.rs:452`, `:520`, `:541` | The server keeps wheel values with a plus sign or leading zeros, image names that are longer, with more dots or with none, and images that only look like images; the phone's `decode` refuses the whole backup | `Wider` |
| `account_backup.rs:194` | The permit of a dropped upload is free at once, but `spawn_blocking` goes on: more bodies than permits can be decoded at a time | not a property: `PermitsMatch` counts requests |
| `community_setup_repository.dart:92` and the two like it | After a rename and the restoring rename both failed, the only version is `.previous`; the next save deletes it first | premise `strands` |
| `shortcut_usage_repository.dart:311` | A fragment of a failed append spoils the next line, recorded without error | premise `fragment` |
| `shortcut_usage_repository.dart:262` | Cutting an incomplete tail rewrites the journal in place; a crash then loses all of it | premise `emptied` |
| `companion_service.dart:486` | A failed fetch is not repeated though the Desktop keeps reporting the revision | premise `Undisturbed` |
| `companion_service.dart:557` | A Desktop discovered after a silence whose revision equals the retained one's number may not be fetched | premise `Undisturbed` |
| `companion_service.dart:531` | A broadcast that arrives after a newer one can leave the status "syncing": its fetch is dropped, and the newer revision is already displayed | premise of `EventuallySynced` |
| `companion_service.dart:186` | The expiry timer also ends a manual connection; the phone stays in "discovering" and listens to nobody | no property yet |
| `desktop_controller.dart:558` | Two changes whose saves overlap take the same revision; the second lacks the first one's change, and may take the activation sequence back | premise `overlap` |
| `desktop_controller.dart:404` | A discovery begun before an edit of an application undoes it | premise `scan` |
| `controller.dart:256` | A cancel during a stop's wait for the last phrases clears `_busy`; a new start is admitted, and the old stop's end marks it as not listening while its microphone is open | premise `overlap` |
| `controller.dart:84` | configure waits for old phrases; a session that starts meanwhile loses its recogniser | premise `configure` |
| `desktop_controller.dart:300` | A start whose discovery fails uses the starter manifest; the next commit replaces the stored layouts by it | premise `start` |
| `desktop_controller.dart:299` | What a start found is saved without validation. If two applications are flagged, the next start cannot read the manifest (nor can the phone) and uses the starter; the next commit then drops every edit | premise `start` |
| `desktop_controller.dart:559` | Names are matched by `contains`: an executable edited to `code` also matches the process `codex`. While two applications are flagged, every commit of the monitor and the button is refused, and the application in front is not shown | premise of `ForegroundIsShown` |
| `desktop_controller.dart:504` | Every start resets the edited name of Codex | exception in `EditsSurvive` |
| `desktop_controller.dart:477` | Every start replaces an imported Codex or Chrome layout that lacks one of the listed buttons; only the listed buttons of Chrome's are kept | exception in `EditsSurvive` |
| `desktop_controller.dart:107`, `:123` | A discovery replaces an edited executable, by `ChatGPT` on macOS and by the path that `where.exe` prints on Windows | exception in `EditsSurvive` |
| `shortcut_community_store.dart:214` | A write that fails behind its rename has replaced the file, while memory is restored: the batch is offered for retry (or for cancelling) though on disk it is already a receipt. The server answers the retry as a duplicate | `SettledIsNotSent` allows a batch that the file names as a receipt |
| `shortcut_community_client.dart:209` | The switch is checked before the connection is opened. Turned off, or the dashboard left, in the meantime, the batch is sent all the same | `SettledIsNotSent` does not speak of the switch |

## 5. Proofs

Checked by TLAPS for all values of the constants that satisfy the named ASSUMEs of the modules. Each argument is an
inductive invariant, preserved action by action; what follows says what it adds to the property and why it is needed.

**`CommunityServerProofs`** (any finite set of batches, any tokens, finite set of numbered categories, any tags,
experiences, days and periods)
- `TypeCorrect`: `Spec => []TypeOK`. `TypeOK` is inductive because it ties `batch_items` to the row: a live batch has
  the items of its payload, any other none. Without that conjunct the decrements of a withdrawal could not be shown to be
  those of its submission.
- `ContributionsCorrect`: `Spec => []ContributionsMatchBatches`. The inductive invariant is
  `TypeOK /\ ContributionsMatchBatches`: a submission adds exactly one contributor to the rows it touches, a withdrawal
  removes exactly one (cardinalities of a set with one element more or less). It also shows that no `contributions`
  ever becomes negative, as it is a cardinality.
- `CountsCorrect`: `Spec => []CountsMatchBatches`, the same for the sums of clicks. It rests on a section of lemmas about
  sums over finite sets (`SumRemove`: the sum without one element; `SumAgree`, `SumOfNaturals`, `SumOfDisjoint`). The library
  defines such a sum by recursion over an order it chooses, and its induction rules cannot be used, so each lemma is proved
  by a smallest counterexample: a set of numbers that is not empty has a least one (`Least`, from the well-foundedness of <).
- `WithdrawalAlwaysCovered`: no withdrawal of a live batch finds a row too small. Each row is a sum of which the batch is a
  term.
- `PublishedBacked`: `Spec => []PublishedIsBacked`, for the all-time and the bounded periods. The contributions of the days
  of a period add up to the number of a union of disjoint sets of batches.
- `RowsImmutable`, `OwnerOnly`: the action properties `RowsAreImmutable` and `OnlyOwnerRemoves`, for every step.

**`CommunityProofs`** (on top of the former). Transactions, for any number of connections:
- `TxInvariance`: `TxInv` says that locks are exclusive and, for each statement a connection is at (`Local`), what it knows of the
  committed tables: that nobody has stored the batch it adds, or that the batch it withdraws is live and every row it has
  passed is locked and large enough. Exclusive locks keep this knowledge true while others commit.
- `Implementation` (`TxSpec => ImplementsCommunityServer`): by that knowledge a commit is one call of an atomic
  function on the tables as they are at that moment, every other step a stutter. `DatabaseCounts` carries
  `ContributionsMatchBatches`, `CountsMatchBatches`, `PublishedIsBacked` and `OnlyOwnerRemoves` over.
- `DeadlockFree` (`NoDeadlock`): both loops visit the rows of a batch in one order (`Rank`), so whoever holds a row another
  waits for has its own next row later; in any group of connections that all wait, the one whose next row comes last waits for none
  of the others. A connection that waits for a batch holds nothing yet.
- `RowsCovered` (`RowsStayCovered`): the batch that a withdrawal holds is live, so it is a term of every row it has
  yet to update, and the rows count exactly (`CountsCorrect`).

Sharing, for any clicks, batches, losses and crashes, **with one dashboard** (`OneDashboard`). With two, TLC finds every one of
these properties violated, for the reason that `community_sharing_reopened` shows: an old copy of the store is
written over a newer file. So the hypothesis is what the code needs, not what it guarantees.
- `SharingInvariance`: `SharingInv` says that the store on disk is `Sound`: it names every batch that is on the server or
  on its way there, or has kept the clicks of one that was withdrawn, and no two such batches share a click. `Dash` says what the
  dashboard relies on between its awaits: its store is sound too, though not always the one on disk, and the file names its pending
  batch, as pending or, after a write that failed behind its rename, as a receipt; while a write is under way both the store being
  written and the one that a failure restores are so, because either may end up in the file and a crash may follow. Requests
  that nobody awaits any more still count, because the server may serve them later.
- `SharingUsesServer` (`SharingSpec => Spec`): every body that a device sends is one that the server's specification takes, so
  that the theorems above hold of the tables that sharing fills.
- `SubmittedOnce` (`EachClickSubmittedOnce`), `ReceiptsKept` (`LiveBatchHasReceipt`) and `SettledStaysSettled` (`SettledIsNotSent`)
  follow from it: a batch that is settled is pending in no dashboard. `TotalsBounded` (`TotalsNeverExceedClicks`) needs the sums too: the total of a category adds up disjoint sets of
  clicks.

**`AccountAccessProofs`** (any clients, requests, tokens, key sets, limits and durations)
- `LimitKept` (`AdmissionsBounded`): the history `tally` of a client is what its row says while its window runs, and empty
  otherwise; a sweep removes only windows that are over.
- `FetchesSpaced`, `KeysAdvance`: requests queue for the lock without repetition and only the head fetches; so an answer
  under way is not older than the cache, and the reserved back-off is in force until a fetch finds its key.
- `AcceptanceIsCurrent` (`AcceptedIsCurrent`): a cached key that Google has withdrawn leaves the cache within the longest
  max-age; the unit that a fetch may take is what the strict comparison of the expiry gives back.

**`AccountBackupsProofs`** (any accounts, requests, bodies, permits and late statements)
- `PermitsAreHeld` (`PermitsMatch`), by cardinality; `TypeCorrect`, whose bound on the permits needs it.
- `ReadsAreCurrent` (`ReadsLatest`): a row holds a value that the answers allow (`maybe`) and every statement under way is a
  rival of every request beside it, also when the statement's own request is gone.
- `StoredIsValid`: nothing is stored, sent to the database or read back that the limit and the validation refuse.
- `PhoneBackupsTaken` (`PhoneBackupsAreTaken`), `PhoneBackupsReturn` (`PhoneBackupsComeBack`) and `StoredReadable`
  (`StoredIsReadable`): the agreement of the two validators, for bodies with any number of profiles, buttons, actions and images, of
  any lengths and values. `EncodedTaken` goes through `validate_backup` part by part and finds each limit implied by a check of
  the phone or by `~BeyondServer`; `ValidNotBeyond` is the converse. `StoredRead` and `ReadNotWider` do the same in the other
  direction for `decode` and `Wider`. `EncodedComesBack` shows that decoding undoes encoding: `ProfileComesBack` that a button
  is found again at its position, and only there (by counting: positions are distinct and below the length of the restored
  list), `SentFiles` that the images are sent once each, in whatever order. All that is assumed of bodies is
  `BodiesAssumption`: an envelope has the fields and types of the server's structs, a draft the preferences of `config.dart`.

**`AtomicFileProofs`** (any values)
- `TypeCorrect`, `Untorn` (`NeverTorn`): with either load, whether or not moving back may fail.
- `Survival` (`AcknowledgedSurvives`) and `RegisterImplemented` (`Spec => ImplementsRegister`), whose
  statements promise nothing where moving back may fail. The inductive invariant `IInv` says for each `pc` which of the three files hold what: that `next` is whole from the end
  of its creation until it is moved, that `previous` holds the old version exactly between the two renames, and that
  the file is present wherever `previous` may be deleted. The refinement then has one step per action: `Replace` is the register's
  `Apply`, `Finish` its `Acknowledge`, an error or a crash `GiveUp`, and everything else a stutter.

**`UsageJournalProofs`** (any clicks)
- `RecordedClicksSurvive` and `ClearedClicksStayAway` (`RecordedSurvives`, `ClearedStaysCleared`) from `JournalInv`. Its part
  `Orderly` holds while no clear is left unfinished: nothing is appended under a marker, so what lies behind the marker's
  offset is empty and a repeated `Reset` removes nothing new. Its part `Whole` holds while there is no fault: the only
  fragment is the tail that the next load cuts off. `Counters` says in each step of the migration where the old
  counters are.

**`DictationProofs`**. The receiver, for any requests, keys, texts and sizes:
- `OkIsInserted` (`AcknowledgedWasInserted`): what is remembered as a success was inserted.
- `NoEarlyReplay` (`ReplayNeedsFullWindow`): of every use, either its key is still remembered and the keys placed behind it
  were all used after it, or `MaxRemembered` other keys were. The memory never repeats a key, so that places count
  keys; when it is full, a key at its front has all the others behind it.

Local dictation, for any number of overlapping calls, any models and any bound of the queue:
- `DictationInvariance`: `DictationInv`. `DroppedIsOld` says that a dropped phrase has an old generation and has not reached the
  output, which is what `_decode` compares. `StartAlone` holds until a start is admitted beside an earlier stop or cancel: the start
  under way is the one that `_startFuture` names, and other calls wait for it, or wait for old phrases to change the model.
  `StopWaits`: behind a stop that waits for the last phrases nothing is recorded or queued. `RecognizerFits`: the recogniser is the
  configured model's at every await of a start. `NothingLeft`: after an end nothing is under way that could record or deliver.
- `DroppedNeverDelivered` (`DroppedStaysDropped`), `MicShown` (`MicIsShown`), `SessionModel` (`SessionHasModel`) and `EndsForGood`
  (`EndIsFinal`) are its consequences. None of them is inductive alone: whether a session has its model depends on who
  else may change the recogniser while a start waits for its worker.

**`ManifestProofs`**. The layout on the Desktop, for any applications and bounds:
- `LayoutInvariance`: `LayoutInv` holds, until changes overlap or a start ends with the starter manifest, that memory and
  store agree and that at most one change is being saved (`InStep`), which was computed from the manifest it will replace
  (`BuiltOn`); and, until an edit of an application meets a discovery, that every discovery under way works on the names that are
  listed now, and on executables that are the last saved or found ones (`ScansCurrent`): another discovery may have replaced one in
  the meantime, so that the lists themselves can differ.
- `EditsStay` (`EditsSurvive`) and `RevisionsIdentify` (`RevisionIdentifies`) follow: what a save puts in place is the next of what was
  there, with all that its source does not rewrite; what a start puts in place is the upgrade of what was stored, under a higher
  revision if anything differs. They hold for any matching of processes, any applications whose executables are
  rewritten and any layouts that the upgrade replaces.

The link, for any Desktops and bounds:
- `AtRest` (`AtRestIsFresh`) from `LinkInv`: in undisturbed discovery the displayed manifest is the selected Desktop's and as new
  as its last broadcast, or a fetch whose answer will be accepted is under way, or one whose answer will be dropped is
  and a refresh is noted that its end starts. During a pairing nothing else touches the selection, because every
  earlier continuation has lost its epoch (`Pairing`).
- `OnlyTheSelected` (`ManifestOfSelected`), for every step.

Only model-checked: the liveness properties (`RequestsEnd`, `EventuallySynced`, `AdmittedIsAnswered`, `ForegroundIsShown`,
`CallsEnd`), since fairness and ENABLED are outside the prover, and that `ReceiptIsKept` fails with two dashboards, which
is a counterexample. Every invariant, action property and refinement of the passing runs is a theorem. The length of a body in
`BodyBytes` stays an opaque sum in the proofs: both sides compare the same sum with the same bound.

## 6. What is left out

- Everything that `PROJECT.json` lists as `not_modelled`: for most the plan below names the module; the rest is drawing,
  platform calls, fixed tables and conversions of JSON without state.
- Time: timeouts and timers are steps that may happen at any moment their state allows.
- Contents: names, texts, images and layouts are values that are only compared, but for the bodies of backups, whose limits
  `BackupFormat` states. There the size of a body counts only its images in base64, empty parts of a path (which
  `package:path` drops) and an explicit `null` as profile icon are left out, and JSON of another shape is one value,
  `malformed`.
- Clocks that go backwards: the limiter reads the wall clock and subtracts with saturation, the key cache a monotonic one;
  the model has one clock that advances. A restart of the server is several `Drop`s and an empty table and cache.
- Signatures, the JSON of Google's answers and the forwarding headers that name a client are inputs.
- Failures of the database beyond aborted transactions, and of the operating system beyond failed calls and crashes. A
  rename or deletion that happened is durable.
- Each module bounds failures, restarts, edits and requests by constants that it names in a comment.

## 7. Plan

Done: the server (database, rankings, limiter, keys, backups), sharing, private files, journal, receiver, link, layout and
local dictation, with proofs of all their safety properties.

Next modules, most important first:
1. `DesktopDictation`, on top of `LocalDictation`: the push-to-talk hotkey, its generations and the guarded operations on
   models. Properties: the microphone is open only while the key is held, a release during a start is never lost.
2. `HidTextOutput` and `AndroidHid`, composed: text of a session reaches only its host, a phrase is all sent or reported, keys
   are released after any failure. An abstract text channel as their specification.
3. `AppConfig`: unserialised saves, a restore over edits, press and release across changes of context; the restore
   takes what `BackupFormat` decodes.
4. `ModelStore`: an installed model is a validated one, through crashes; at most one operation at a time.

Next proofs:
1. `AccountAccess`: what the two parts promise each other, as abstract specifications of a limiter and of a key service that
   `RateLimiter` and `KeyCache` implement.
2. `DesktopLayout`: what still holds of a manifest after an overlap (revisions never go back on disk), so that the premise
   `overlap` can be dropped from part of `RevisionIdentifies`.
3. `CommunitySharing` with two dashboards: which of the properties hold as long as no two dashboards work at the same time,
   instead of with one dashboard only.

## 8. Running the checks

    tlc -config CommunityServer.cfg MCCommunityServer      # a run: module and .cfg as PROJECT.json pairs them
    tlapm CommunityServerProofs.tla                        # the proofs of a module
