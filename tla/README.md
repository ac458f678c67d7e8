# A TLA+ verification of timberlake

timberlake copies a tree of files from a source to a destination (local disk,
SFTP, S3, in any combination) with a pool of workers, a terminal screen and an
optional progress page. It is started again until everything is there: what the
destination already holds is skipped, what was cut short is resumed.

This directory holds TLA+ modules that model the program, TLC configurations
that check them on small instances, and proofs, checked by TLAPS, that hold for
every instance. `PROJECT.json` maps every definition to the lines of source it
stands for, lists the runs, the theorems and the hazards they address.

    tlc -workers 2 -config MCPool.cfg MCPipeline     # one run
    tlapm PipelineProofs.tla                         # one module's proofs

## 1. The system

| Part | State it keeps | Operations | Modelled by |
|---|---|---|---|
| Event loop, `ui/update.go`, `ui/model.go` | `Model`: phase, counters, history, worker rows, queue position | results of the scan and listing commands, worker messages, keys `p`, `q` | `Pipeline` |
| Worker pool, `startWorkerPool` | `fileChan`, `uploadSem`, one goroutine per job | take, gate, stat, queue, transfer, report | `Pipeline` |
| Message pump, `waitForMsgCmd` | the bounded `MsgChan`, the commands that read it | receive, deliver, arm again | `Pipeline` |
| Pause gate, `ui/pause.go` | a flag, a mutex, a condition variable, cancellation hooks | `wait`, `set` | `PauseGate` |
| Final report, `ui/view.go`, `main.go` | none: a function of the last `Model` | title, exit status | `RunReport` |
| Local and SFTP backends, `localfs`, `sftpbackend` | the destination file | `Scan`, `Stat`, `Put` with resume | `FilePut` |
| S3 backend, `s3backend` | the object, in-progress multipart uploads and their parts, counters | `StatAll`, `Put`, resume, parts in parallel, abort, complete; the ticker | `S3Put`, `S3Progress` |
| Tunnel, `web/tunnel.go` | state, URL, the handle on cloudflared | `Start`, `Stop`, watcher, waiter; keys `w`, `d` | `Tunnel`, `ShareLink` |
| Installer, `web/install.go` | state, the binary in the cache directory | download, verify, place, make executable | `Installer`, `ShareLink` |
| Progress page, `web/server.go`, `web/snapshot.go` | the last snapshot, a one-slot wake-up per client | `Publish`, the WebSocket loop | `WebFeed`, `ProgressPage` |
| Configuration and start, `main.go`, `config`, `backends` | settings, what is open | flags, environment, s3cfg; opening and closing | `Launch`, `Session` |
| Dashboard, `ui/view.go`, `ui/panels.go`, `ui/update.go` | pane, selection, sizes, the layout of the last frame | keys, resizing, clicks, `View` | `Screen`, `Session` |
| Error log, demo backends, diagnostic programs | files | | not modelled, see section 7 |

**How the parts interact.** `main` builds the `Model` and a Bubble Tea program.
`Init` runs the scan as a command and arms one reader of `MsgChan`. The scan's
result starts the pool, or first a bulk listing of the destination when it
supports one and there are at least 200 items. Each worker takes an index from
the pre-filled `fileChan`, passes the pause gate, announces the item, answers
"is it there?" from the listing or by a `Stat`, takes a slot of `uploadSem` when
transfers are capped, calls the backend's `Put`, and sends one outcome. Everything
it says goes through `MsgChan`; the loop counts outcomes and ends the run when
they reach the total. The keys act on the loop's state, the gate and the context.
The tunnel and the installer call back into the server from goroutines of their
own.

**What is hard about it.** Outcomes of several goroutines are counted through one
bounded channel read by commands, each of which must be armed again by the loop;
results of commands are applied to whatever state the loop has reached; pause is a
condition variable with a cancellation hook; a transfer may fail, or the process
be killed, at any step, and the next run decides from what it finds whether to
skip, resume or start over; the source may change underneath. The full list, with
the line at which each hazard bites, is in `PROJECT.json`.

**What makes each part correct.**

* Pipeline: every item is accounted for once; "Done" is reported when and only
  when all are, and without errors only if the destination has them; paused
  workers start nothing; the modes that must not write do not; the run ends.
* Gate: no resume is lost, nobody passes a closed gate.
* Local and SFTP `Put`: success leaves the source's bytes, whatever was there; a
  good partial is kept; undisturbed runs repair anything.
* S3: success means the object consists of the parts of this source; an
  interrupted upload is resumed, and no part of another version is kept; the
  figures of an upload with no kept part and no retry keep their nesting.
* Tunnel: a hostname that cloudflared announces comes to be shown (what an old
  process's goroutine writes late may replace it again), no transient state lasts,
  and a stop reaches the process. Installer: only verified bytes are ever in
  place, and one download runs at a time. Page: what it shows as committed is in
  the store; what it shows as sent does not go back when one pump reads the channel
  and nothing is retried; and a client eventually shows the last snapshot.
* Start: both sides talk to the endpoint that the settings mean, whatever the order
  of the lines, where the README and the code agree on what they mean. Dashboard: the selected worker is on the screen, and a click opens
  what is drawn under it.

## 2. Modules

**`Pipeline`** is the core: the event loop, the commands, the channel and its
pumps, the pool. Item `i` is the one at index `i` of `WorkQueue`; its content is
reduced to `Size[i]`, the destination to `complete`, the set of items it holds in
full size. The variables follow the fields of `Model`, with these differences:

* `record[i]` is the item's entry in the history, and the three counters are
  those of the `Model`;
* a worker is a place `pc[w]` in the loop of `startWorkerPool`, between two
  operations that others can see: `take`, `gate`, `check`, `stat`, `queue`,
  `acquire`, `announce`, `put`, `report`. One action per operation;
* a `waitForMsgCmd` goroutine is `pump[p]`: waiting for a message, or holding one
  that the loop has not accepted yet. There are two (`init`, `bulk`) because the
  end of the bulk listing arms one of its own;
* `Update` runs one message at a time, so the handling of a message, with
  everything it calls, is one action (`DeliverStatus`: row, queue position,
  counters, phase, and the decision whether to read on);
* a failed `Put` leaves the destination's object as it was, removed or damaged,
  or complete (`PutFailed`); a failed `Stat` counts as "not there" (`Answers`);
* `PutProgress` forwards what the backend reports, as `onProgress` does: any figure of
  the set `Figures`, any number of times, in any order, also more than the item's size.

**`SyncLedger`** states what a run promises with no worker or message in it: a
scan fixes the items, each is settled once and truthfully, the run is finished
exactly when the last is settled. **`PipelineLedger`** maps `Pipeline` to it.

**`PauseGate`** takes apart what `Pipeline` does in the one step `PassGate`: lock,
test, join the notify list, unlock, sleep, wake, lock again, with the hook that
`context.AfterFunc` runs and the two halves of `set` (write under the lock,
broadcast after it).

**`RunReport`** computes the summary's title and the exit status from the state
`Pipeline` ends in.

**`FilePut`** follows one item to a file over any number of runs of the program.
A file is a sequence of blocks. A run scans, stats, and puts: look at the
partial, compare its bytes with the source's prefix block by block, open and
perhaps truncate, copy. The source may be edited at any moment, a call may fail at
any step, the process may be killed between any two, and between runs anything
may happen to the destination. The two backends differ only in how a block
reaches the file (`Written`: append, or write at an offset).

**`S3Put`** does the same for an object of the S3 backend. The source is a sequence
of blocks, a part a stretch of `psize` of them, and an ETag the content it is the
hash of. The part size is a flag, so every run picks its own. `uploads` are the
multipart uploads the store keeps open for the key, oldest first, each with the
parts it holds. A run scans (`Scan`), looks (`Stat`), and for a file longer than a
part looks for an upload (`FindUpload`), lists its parts (`ListParts`), compares
them one by one (`MatchPart`) and either gives it up (`Abort`) or sends what is
missing: the loop over parts (`Spawn`) and each goroutine (`ReadPart`, `SendPart`,
`PartFails`) take steps of their own, and the loop may see `firstErr` late, for it
is read without synchronisation. Otherwise a fresh upload is made by the SDK's
managed uploader (`ReadFirst` to `ReadNext`). That uploader and the store are not in
the repository: they are modelled from how the backend uses them, and are marked
external. A part is read in one step: what one read of the source brings is
`ReadAt`, which ends early at the end of a file that has become shorter; `Portion(n)`
is the read of a part whose length the scan fixed (`PartBytes`), and a read that comes
up short is an error. `MaxUploads` bounds the open uploads: at the
bound the store expires the oldest, as a bucket's lifecycle rule does.

**`S3Progress`** counts the bytes of one resumed upload: the three atomic counters of
`uploadCounters` and `Put`, advanced by the additions for kept parts (`Seed`), by the
goroutine of each missing part (`ReadPart`, `Transmit`, `Answer`, which fails without an
ETag) and by the SDK's retries (`NoAnswer`, external: an answer may be lost after the
store took the part, and a cancelled request is given up at once). The loop may start a
part after another has failed (`StartPart`), and stops early for a failure or a
cancellation (`PartsEnd`). The ticker loads one counter after the other, and `finish`
makes the final report after the ticker has returned (`Join`). **`WebFeed`** is the server's
store and the handler of one browser's connection: `Publish` in its two steps (set,
wake), a channel of one wake-up, subscription before the first frame, at most one
frame per tick, a heartbeat, disconnection and reconnection at any moment.
**`ProgressPage`** composes them with the worker's row in the event loop: a report
becomes a row or is dropped, a spinner's tick publishes a snapshot of the row, and
the outcome moves the item's bytes from the row to the total. `pumps` says whether a
second pump is armed, as it is on a run of 200 items and more (`update.go:461`): one of
the two may then hold a message back (`HeldBack`, `announced`) and have it handled when
later ones were (`HandleLate`, `Announce`), even after the outcome. One slot is enough:
while one pump holds a message the other handles its own in order. One part counts as
one byte; it is one item of one worker, so what a late report does to the worker's
*next* item is not in the model.

**`Tunnel`** takes one step per critical section of `Tunnel.mu`: `Start` claims the
tunnel (`StartCheck`), starts cloudflared without the lock (`Launch`), and stores its
handle (`Hand`); `watch` and the goroutine in `cmd.Wait` follow each process and write
into whatever state the tunnel has by then; `Stop` takes the handle, and the key's
handler then clears the server's URL. A URL is named by the process it leads to, so
that the invariants can tell a stale one. **`Installer`** is one consent's goroutine:
`Fetch`, `Verify`, `Place` (rename), `Chmod`, `Record`, each of which may fail; bytes are
"good" if their hash is the pinned one. **`ShareLink`** composes the two through the
keys `w` and `d` and the callback of a finished download, which starts the tunnel from
the installer's goroutine. `Restart` ends the program in any state, also between a
rename and a chmod; only the managed binary stays.

**`Launch`** goes from the flags to the event loop: the flags with their defaults from
the environment, the lines of `~/.s3cfg` one by one in the order of the file, the
fallback to the environment, the two backends (each of which may fail to open), the
page's server, and the deferred closing. A URL is reduced to where it was given and
its scheme. **`Screen`** is the dashboard: which pane is drawn, which worker is
selected, the row the transfers pane is scrolled to, and the shared `layout` into
which `View` writes where it has drawn what, for the next click. `View` is part of
every message's action, as Bubble Tea calls it after every `Update`; the tunnel's URL
changes beside it. **`Session`** is the run of a program: `Launch`, then `Screen`, then
`Leave`.

`PipelineProofs` and `PipelineViewProofs` (what the screen shows, and sums),
`PauseGateProofs`, `FilePutProofs`, `S3PutProofs`, `ShareLinkProofs`,
`ProgressPageProofs` and `SessionProofs` hold the proofs;
`MCPipeline`, `MCS3Put`, `MCShare` and `MCPage` the instances for TLC.

## 3. Runs

| Run | Instance | What it shows |
|---|---|---|
| `pool` | two workers, up to two items of sizes 2 and 1, one transfer at a time, channel of 2, all modes | the safety and action properties of the pipeline, that it never gets stuck, and that it implements the ledger, which settles each item once |
| `bulk` | the same behind a bulk listing, no cap, channel of 1, no progress reports | with two pumps, messages overtake each other: outcomes are still counted once, Done still means synced |
| `live` | two workers, two items, cap 1, channel of 1 | a run neither cancelled nor left paused ends |
| `gate` | three workers | type and lock discipline, no lost resume, sleepers test again, a resume wakes all |
| `fileput` | files of up to 3 blocks of 2 values, both backends | a successful `Put` is exact, a good partial is kept, undisturbed runs heal |
| `s3put` | files of up to 3 blocks, part sizes 2 and 3, two parts at once, two open uploads | a successful `Put` is exact whatever earlier runs left, no half-written object is ever seen, matching parts are not sent again, undisturbed runs heal |
| `share` | two processes and two installers (two processes at a time with a cloudflared on `$PATH`, else one) | only verified bytes in place, one download at a time, no transient state lasts, an announced hostname comes to be shown |
| `page` | a resumed upload of two parts, none or one of them kept, two attempts each, one request repeated or one part failing; one pump or two; one browser | committed is true, figures nested, with one pump sent bytes never go back, the browser catches up |
| `session` | up to three lines of s3cfg; 0, 1 or 6 workers; heights 10, 13, 15 and 18; two public URLs | the endpoint is the one the settings mean where README and code agree on that, the selected worker is drawn, a click opens what is drawn |
| `gate_quit` | two workers | **violated**: a quit can leave a worker asleep |
| `report` | bulk listing | **violated**: a quit undone by the scan's result, reported as success |
| `share_stop` | as `share` | **violated**: a stop that leaves a cloudflared running |

**Why the bounds are enough.** Two workers suffice for any race between two and
three for one between two at the gate while a third holds it; the pipeline's
workers are otherwise interchangeable, and its runs use that symmetry where no
liveness is checked. Two items give a worker that has a second item to take
(what is left in its row, the semaphore or the channel from the first shows in
the second) and one that finds none. A channel of one or two makes every send
block; the code's 1000 only makes it rarer. The threshold 2 stands for 200: with up
to two items both sides of it occur. Sizes 2 and 1 tell the items' bytes apart. A
file of three blocks has an empty, a proper and a full prefix, a partial that
differs in its first or last block, and an edit that lengthens or shortens it; two
values suffice to differ. An object of three blocks has, with parts of two, two
parts of which the last is short, and two can be under way at once; with parts of
three it is one full part, so an upload left under one size is misaligned under
the other; the file of two blocks is put in one request under the larger size.
Two open uploads occur when an abort fails. In `s3put` one answer of `ListParts` names
every part (`Page`); with a page of one part `OnlyMissingSent` fails, which is the
known limit of section 6 and the hypothesis `OnePage` of its theorem.

Two processes of cloudflared make an old one whose goroutines are still at work beside
a new one; slots are used again when nothing refers to them, so any number of them
follow each other. Two installer goroutines occur when one is recorded and its
callback still runs while the next is consented to. `OneProcessWhenInstalling` keeps
the product small: overlapping processes are explored where a cloudflared is on
`$PATH`, overlapping installers where none is. Two parts in a resumed upload are one
kept and one sent, or two at once; a second attempt is a retry, and a second
repeated request would only count the same bytes once more (`Small`; by symmetry,
either part may be the kept one). A run of `page` has one request that is repeated or one
part that fails, not both. Where two pumps are armed no request is repeated, and the
browser is sent first frames only, of an upload with one missing part (`SecondPump`):
what it has been shown then is what was published, and the theorems know no such bound.

The reports of a `Put` in `pool` are of 1 or 3 bytes, less and more than either item
has; in `live` and `report` of one byte. `bulk` leaves them out (`Figures` is empty):
they touch nothing but a row's figures, which its two properties do not read, and the
theorems of the same properties have them.

Three lines of s3cfg are a host between two `use_https`, or two hosts and a
`use_https` in any order, which are all the interactions the parser has. Six workers
are more than fit at height 13 and fewer than fit at 18; 10 is under the least height
of the body; 15 is the least at which the whole dashboard fits. `StartUI` forgets the
settings, on which nothing later depends.

The theorems of section 5 remove these bounds for every safety invariant and every
action property that a run checks: for any number of workers, items, parts, processes,
consents and lines, and for files of any length. The bounds matter for liveness and
for the three violations.

**Where a run may stop.** Deadlock is checked everywhere but in `session`, which ends with
`Leave` or with a backend that cannot be opened.

**What the bound on `live` does.** The constraint `NotCancelled` does not
explore what follows a quit: the property only speaks of runs in which no quit
happens, and no fair action is a quit, so no counterexample is lost by it.
The constraints of `share` and `page` do cut behaviours off: a process that is started
while an installer's is still known, a second request that is repeated. `TransientsEnd`,
`LinkIsShown` and `PageCatchesUp` are checked on what is left, which has every pair of
overlapping goroutines once.

**Mutants.** Each property of a passing run has a mutated definition beside the
one it mutates, under a comment that names the bug, with which TLC finds it violated: a
bug of that kind in the code would show.

## 4. Fairness

* Goroutines are scheduled and Go's runtime preempts them, so each worker
  action and each pump has weak fairness; `sync.Mutex` hands itself over to a
  waiter that starves, hence strong fairness of a sleeper's wake-up.
* Commands return: the scan and the listing end, with a result or an error; so
  does every call of a backend, `Put` however many reports it makes: `FairSpec` is fair
  to the worker's loop (`LoopStep`), to which the return of `Put` belongs, and not to
  `PutProgress`. The code puts no bound on them, so this is an assumption about the
  network and the disk.
* No key is fair: nothing relies on the user pressing one. `Completes` assumes
  instead that the run is not cancelled and is eventually not paused.
* In `FilePut` and `S3Put` the user starts the program again, and `Heals` only speaks of
  behaviours in which edits, kills and failures eventually cease.
* In `ShareLink` the goroutines of the installer and `watch` have weak fairness, a
  goroutine's steps as one: Go schedules them, the download has a timeout of ten
  minutes, and cloudflared is assumed to keep logging or to end, since `watch` looks at
  its deadline only when a line arrives. Keys, `Start`, the waiter, the exits of
  processes and `Restart` have none.
* In `ProgressPage` the publisher's second step and the handler's have weak fairness;
  its ticker and its channel each, because Go's `select` chooses at random among what
  is ready and so neglects neither. The upload, the spinner and the heartbeat have
  none: a client must catch up even if no other snapshot follows.

## 5. Proofs

Assumptions on the constants are those the modules state: a finite, non-empty
pool, at least one slot in the channel, natural sizes, files over a non-empty
alphabet. Nothing else is assumed.

**Pipeline**, in layers, each proved from the ones before it. Layers 1 to 5 are in
`PipelineProofs`.

1. *Types and slots* (`Inv1`, `SlotInv`): the type invariant strengthened by what a
   worker's place says about its item and outcome (`HasItem`, `HasOutcome`), by the
   pool's waiting for the scan and the listing (`PoolWaits`), and by how many slots are
   taken. Gives `PipelineTypes`, `TransfersCapped`.
2. *One place per item* (`Tracked`): an item is in the hands of one worker, or in
   one slot of the channel, or with one pump, or recorded, and in no two of these.
   `ExactlyOnce` alone is not inductive: it counts records, and whether a message
   about to be delivered is the first about its item depends on where all others
   are.
3. *Honesty* (`Honest`): an outcome "Done" or "Skipped", wherever it is on its way,
   is true of the destination; stable because only the worker that holds an item
   writes its object.
4. *Nothing lost* (`Accounted`): unless cancelled, an item that was dispatched is
   somewhere.
5. *The end* (`EndInv`): counters are the sizes of the sets of records, so that
   the loop's `>=` test fires when, and only when, all are recorded.

   From these: `CountedOnce`, `DoneIsSynced`, `NothingWritten`, `PausedPoolWaits`,
   and `PipelineImplementsLedger`, the refinement, which maps each step to a
   settlement, a write or a stutter. And `RunGoesOn`: a run that is neither cancelled
   nor paused and has not ended has a step to take (`SomethingGoes`: the guards of
   the actions, written out). It needs `Lively`: the pool was started, the first pump
   stops at the end only, a worker leaves only when nothing is to be taken. If all
   were stuck the channel would be empty and no slot taken, so all workers would have
   left, every outcome be recorded, and the run be Done.

`PipelineViewProofs` has the rest, on what the screen shows.

6. *The line* (`Solo`, `Line`): where one consumer reads the channel, what it holds and
   what waits behind it are one queue, which a step leaves alone, lengthens at its end
   or shortens at its front (`NextMoves`). `ViewInv` says of it: who still owes an
   outcome (`Owing`), that an item's announcement lies before its outcome or was
   handled (`Opened`), and that every message and every row has an outcome to follow
   (`Followed`, `RowsOwed`). Gives
   `QueueIsNew` and `DoneIsQuiet`. Two consumers may handle an outcome before the
   announcement it follows, hence the hypothesis `~BulkStater` of both properties.
7. *Sums*: `Bytes` folds over a set in the order of `CHOOSE`. That such a sum does not
   depend on the order (`TotalAdd`), splits over disjoint sets (`TotalUnion`) and
   depends on its terms only (`TotalSame`) is proved by induction on the size of the
   set. With `CountedBytes` and layer 6 this gives `FiguresAdd`: the counters are the
   sums of what is recorded, no row shows an item that is already counted, and no two
   rows the same one. The total is therefore a bound of what is shown only where no row
   exceeds its item, which is the backend's affair and stated as a hypothesis (`RowsFit`).
8. *What is left to do* (`Work`): a sum over the items not yet taken, the places of the
   workers, the status messages and the commands. `RunShrinks`: it is a natural number,
   no step makes it larger, and every step makes it smaller but the reports of transfers
   and of the listing, of which a backend makes as many as it likes (S3's ticker repeats
   its figures every 150 ms), and the keys. With `RunGoesOn` this is `Completes` without
   its temporal part: a run left alone has always something to do and, reports aside,
   can do it only so often. That `Put` and the listing return is assumed (section 4).

**Gate** (`PauseGateProofs`): the lock is held exactly by the worker whose place
holds it (`LockedPlaces`), so `set` cannot write between a test and the notify
list; then `ResumeIsNotLost` and `SleepersTest`.

**FilePut** (`FilePutProofs`): the invariant follows a run. `same` holds exactly
when the compared blocks agree with an unedited source; a partial is therefore
resumed exactly when it is a prefix; from there, and from the empty file, the copy
extends a prefix at its end until the source ends, and a prefix as long as the
source is the source. Gives `PutTypes`, `PutCopiesExactly`, and `PartialsAreKept`,
for which the converse direction of `same` is needed.

**S3Put** (`S3PutProofs`), for any alphabet, length, set of part sizes and bound on
goroutines and uploads. `IInv` says what each phase of a run knows: the parts that
`MatchPart` kept are this source's (`IsPortion`), a buffer holds the part it was read
for, every ETag entered in the table names a part that the upload holds with the
source's bytes, and without an error the table has all of them when the loop and its
goroutines have ended. A part of another upload, or of an earlier version, may lie
beside them; only the table is completed. The object is then the parts joined in order
(`Assembled`, a recursive function): that it is the source is proved part by part
(`JoinedExact`). Gives `PutTypes`, `ExactCopy` and `WholeObject`; and `MissingSent`, that
a part the upload already holds is not sent again, under `OnePage`: one answer of
`ListParts` names every part that a file may have. Without it the statement is false,
in the model as in the code (section 6).

**Public link** (`ShareLinkProofs`): the types, with a URL in exactly the state On. Then
`InstallInv`: what is about to be renamed was verified (`PlacesVerified`), and a
goroutine that is busy shows in the installer's state (`BusyIsSeen`), so that a consent
meanwhile starts nothing. The tunnel's steps do not touch any of it. Gives
`OnlyVerifiedBytes` and `OneDownload`, for any number of installers and processes.
`DownloadIsOwned` is what the liveness of the installer rests on: Downloading and
Verifying are shown only while a goroutine is there to end them. The like is not true
of Starting, as section 6 explains.

**Page** (`ProgressPageProofs`), for any finite set of parts and any number of
attempts:

1. *Types*, with what a part's place says about its attempts (`Attempts`).
2. `Counted`: `committed` is what was added for kept parts, a third of the additions
   rounded up, and for answered ones; both are in the store. `OnTheWay` follows the
   figure through ticker, the report that a pump holds back, row, store, frame and
   browser, and says that the ticker is at rest before the final report. Since the store
   only grows, no order of the messages matters. Gives `CommittedHolds`.
3. `CountersCount`: without kept parts and retries each counter is the size of a set of
   parts (answered, sent, read), and the sets are nested. `LoadsNested` carries the
   nesting over the ticker's loads, `LateNested` over a report held back. Gives
   `FiguresNest`.
4. `WireCount` bounds the bytes on the wire by the size, with kept parts too; `SentGrows`
   orders what browser, frame, store and row show, as long as one pump handles the
   messages in turn (`InTurn`). Gives `SentHolds`, whose hypothesis it is: with two pumps
   the statement is false, in the model as in the code (section 6).
5. `NoWakeLost`: a connection that is behind the store has a wake-up in its channel or
   its flag, or is about to be woken. It is the safety half of `PageCatchesUp`.

**Start and dashboard** (`SessionProofs`), for a s3cfg of any length, any number of
workers and any terminal. `LaunchInv`: while the file is read, endpoint and `use_https`
are what the lines read so far make of them (`ReadSoFar`), and afterwards what all of
them make (`ReadAll`); the step that reads a line is the induction on the number of
lines, by which the parser's loop is shown to agree with the definition `Resolved`, which
names the line that decides. Gives `EndpointTrue`, which says nothing of settings that
the README orders differently (`Undisputed`). `ScreenInv`: what is on the screen was
drawn from the state as it is (`DrawnFresh`), and the links in the layout are those
in the panes (`LinksFresh`), although the tunnel's URL changes beside them. Gives
`SelectedShown`, from the arithmetic of the scrolled window, and `ClicksOpen`. The types
are `SessionTypes`.

**Only model-checked**: liveness (`Completes`, `ResumeWakesAll`, `Heals` of both
backends, `TransientsEnd`, `LinkIsShown`, `PageCatchesUp`), since fairness and ENABLED are
outside what the prover treats; of three of them the part that is safety is proved (see
above), and `ResumeIsNotLost` is that of `ResumeWakesAll`. That `SomethingGoes` is the
disjunction of the actions' guards is to be read off, not proved, for the same reason.
Induction is done without the library's theorems, whose hypothesis is an operator: a
set of counterexamples has a smallest one (`WFMin`). The two properties that a run finds violated,
`StopTerminates` and `SuccessMeansFinished`, and the one of `gate_quit` are no theorems.

## 6. Findings

Shown by a run:

* *A quit from a paused run can leave a worker asleep* (`gate_quit`). The hook that
  `wait` registers broadcasts without the mutex: fired between the test and the sleep
  it wakes nobody. The process ends all the same, for nobody joins the workers.
* *A quit while scanning is undone* (`report`) by the scan's result if that is handled
  before `tea.Quit`; the summary then says "complete". The property leaves out runs whose
  scan failed, which the next list has.
* *A stop can miss a cloudflared* (`share_stop`). `watch` times out, the tunnel is Failed
  and the process runs on; a retry stores the new process over the old handle, and a stop
  ends only the new one. The other way is a stop while an installer's callback is between
  `cmd.Start` and the assignment of `t.cancel`.

Seen while modelling, and described without a run of their own:

* *Two readers of `MsgChan`* after a bulk listing (`update.go:461`), which the comment at
  447 says must not happen. Two messages of a worker may be handled in the wrong order:
  a row then shows a finished item as in progress, or an older report last, so that the
  bytes sent go back (`SentNeverGoesBack` fails of `ProgressPage` without `pumps = 2` in
  it). The counters and what is shown as committed of the item do not suffer, as `bulk`
  and the theorems show.
* *A failed scan is titled as complete*: the summary is drawn of any state, and
  `renderSummaryBox` has no title for an error, so a program that is left after
  `ScanCompleteMsg` brought one says "complete" (`view.go:492`).
* *The catch-up phase survives the first transfer* if its message is handled while the
  run is paused (`update.go:504`).
* *Reported bytes exceed the item's size* if the source grew after the scan
  (`localfs.go:149`).
* *Only one page of parts is listed* (`s3.go:303`): of an upload with more than 1000 parts
  the later ones are sent again even if they match.
* *Clicks on the sidebar select the next entry*: the entries are drawn from three rows
  under the header, and tested from two; a click on the last does nothing. A click in the
  worker list is tested with the sidebar's top and with an offset that `View` sets on a
  copy of the `Model`, so in a list that is scrolled it selects another worker.
* *A click on the summary* still opens a link of the web pane that was drawn there before,
  and keys for panes and workers act while neither is drawn. `ClickOpensDrawn` speaks of
  the dashboard.
* *A terminal of under 15 rows* loses the first rows of the dashboard, so that clicks are
  off by as many.
* *Precedence of settings*: the README puts flags before s3cfg and s3cfg before the
  environment (lines 109 to 119), but the flags' defaults are the environment
  (`main.go:146`), so it comes before s3cfg; and `use_https = yes` in s3cfg makes https of
  a flag's http endpoint (`config.go:90`). `EndpointAsResolved` is restricted to settings
  on which the two agree (`Undisputed`); without `Undisputed` it describes the code, and
  with the README's order in place of `Resolved` it fails. Access key and secret key are resolved one by one, and may come from two sources.
* *The order of lines in s3cfg matters*: `use_https = no` under `host_base` leaves https,
  and above it makes http.
* *`--part-size`* is 16 MiB by default, not 256 (README line 101).
* *A negative `--jobs`* panics (`model.go:324`), and 0 starts no worker.
* *The tunnel*: a hostname that arrives after a stop turns the tunnel On again; nothing
  clears the server's URL when cloudflared exits by itself; without a pipe `Start`
  returns and leaves the state at Starting (`tunnel.go:88`).
* *A crash between rename and chmod* leaves a verified binary that cannot be executed and
  counts as installed.
* *Symbolic links* are scanned with the size of the link and copied with that of their
  target, so that they are copied on every run (`localfs.go:56`).

## 7. Not modelled, and why

* **By design of the program**: a destination file of the right size is taken for
  the source without a look at its bytes. `CopyIsExact` speaks of items that were
  put, `Heals` only of sizes.
* **A source edited while it is put to S3** may leave an object mixed of two
  versions: parts kept from earlier runs are compared once, at the start.
  `CopyIsExact` and `ObjectIsWhole` speak of runs without an edit.
* **The limit of 10,000 parts** of a multipart upload, which a file of more than
  160 GB meets at the default part size: the store's, and the error it returns is
  one of `CallFails` and `PartFails`.
* **Other writers** to a destination during a run, and two keys that name one
  path: nothing in the code defends against the former; the latter is planned.
* **`--jobs 0`** in the pipeline: no worker, and the run stays in its first phase; the
  module's assumption excludes it. The dashboard is modelled with no worker.
* **Credentials, tokens, the SSH connection**: strings that are handed on, or failures
  that end the start (`OpenFails`). The credentials follow the rule of the endpoint.
* **Rates and ETA** (`sampleSpeed`, `refreshCatchUpETA`): smoothed estimates,
  with no promise attached but their look.
* **Columns, wrapping and the content of the panes**: formatting. A click's column is
  reduced to "in the sidebar" or beside it.
* **Counters of the managed uploader** (a fresh upload): advanced inside the SDK.
* **Error log, demo backends, diagnostic programs**: one write to a file after the run,
  synthetic data, separate programs.

## 8. Plan

Every safety property that a run checks is a theorem. What is left, in this order:

1. An abstract specification that `FilePut` and `S3Put` both implement: an object
   that is what it was or a version of the source, and is the source after a
   success; the refinements follow from `PutCopiesExactly`, `ExactCopy` and `WholeObject`.
2. `FilePut` with two writers to one path.
3. The rate figures, if a promise is ever attached to them.
