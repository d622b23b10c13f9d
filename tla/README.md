# A verification of cbdprotein

cbdprotein collects profiles (pprof) and logs (httplog, slowlog) from the programs
it is pointed at, turns them into something that can be looked at, and tells a Slack
channel how it went. This directory holds TLA+ modules that model its concurrent
core, the TLC configurations that check them, and proofs checked by TLAPS.

    tlc -workers 2 -config MCSlackNotifier.cfg MCSlackNotifier.tla
    tlapm SlackNotifierProofs.tla

## 1. The system

The server (`cli/cbdprotein/main.go`) is one Go process with an echo router. Requests,
collections, timers and posts to Slack are goroutines; what they share is listed here.

| Component | State | Operations | Hard part |
|---|---|---|---|
| Slack notifier `internal/notify/slack.go` | `groups`: the open group collections, each with expected targets, results, `sent`, a timer; under `s.mu` | `Expect`, `Report`, `flush`, the timer callback, one goroutine per post | reports, timer and `Expect` of one group race; the decision to flush is taken after the mutex is released |
| Collector `internal/collect` | `c.data`: entry per snapshot, under the RWMutex `c.mu`; goroutines of collections and prunes | `New`, `Collect`, `Add`, `runProcessor`, `finalize`, `updateStatus`, `Get`, `List` | `Get` holds the read lock while an external command runs, `updateStatus` the write lock while the event is handed to every stream; a restart processes all stored snapshots again |
| Storage `internal/storage` | a bbolt database of meta data and cached outputs; one file per body, and the settings | `Put`, `Get`, `GetAll`, `Delete`, `PutFile`, `ExistsFile` | meta data and body are written in separate steps; a kill may come between them; `GetAll` returns slices of pages that later transactions may reuse |
| Processors alp, slp, memo, pprof | the cached outputs (alp, slp); registered routes (pprof) | `Process`, `Cacheable` | the same body may be processed by two callers at once; routes are added while others are |
| Program wiring `cli/cbdprotein/main.go` | none of its own | `start`: storage, settings, collectors, routes, one after the other, then `Start` | the collectors that are set up already work on old snapshots, with the database, the router and the settings that the others still need |
| Handlers `internal/extproc`, `internal/memo`, `internal/pprof` | none of their own | `postIndex`, `getIndex`, `getId`, `getData`, `getLatestData` | the answer is sent before the collection starts |
| Group collection `internal/collect/group` | none of its own; `targets.json` | `collectAll`, which sends one HTTP request per target to the program itself | each of them may fail before, or after, its collection has started |
| Persistent settings `internal/persistent` | the files `targets.json`, `alp.yml`, `slp.yml` | `New`, `handleGet`, `handlePost`, `GetContent` | saved by truncating and writing, without a lock |
| Event hub `internal/event` | the open streams (go-sse) | `Publish` | events are ordered by the collector's lock; a stream that is slow delays the collector, one that breaks loses events |
| Browser page `view/src/store.ts` | `entries`, `groups`, `settings` | the event listener, `fetchEntries`, `updateSetting`, loading the settings | events and fetched lists overwrite each other |
| Tail agent `internal/tail`, integrations `integration/`, `cli/cbdprotein-agent` | none between requests | `GET` of a profile or of the growth of a log | the log may be truncated or rotated meanwhile |
| Git information `internal/git`, pprof flag set, router and components of the view, mock programs, build | none | | |

How they interact: a page or a client calls a handler, the handler starts a collection;
its goroutine fetches a body, stores it, runs the processor, and reports the terminal
status to the entry, to the event hub (both under `c.mu`) and, through `Options.Hook`
(`main.go:52`), to the notifier. A group collection registers its targets with the
notifier first (`Expect`) and then lets the handlers do the rest; it reports itself for a
target that could not be asked. The page sees entries through the events and the lists.

What makes each part correct:

- notifier: every group that is expected gets exactly one summary, which tells the truth
  about every target, and does not wait for its timer if it need not;
- collector: every accepted collection settles once, is told once, and what is listed as
  `ok` is whole, survives a restart, and is known to the subscribers of the events;
- start: whatever earlier lives have left, and wherever the start is interrupted, no good
  snapshot is lost and every stored one is listed again;
- group collection: no target is forgotten, whichever of its steps fails;
- settings: a save determines the file and the next collection, whatever was there;
- page: it shows what the server has, once nothing is on its way;
- queries: the latest data is whole and not older than what the client has been told of;
- tail agent: a snapshot holds the lines of its window, and nothing else.

## 2. Modules

    SlackNotifier  --implements-->  GroupSummary          (GroupSummary: the promise)
    Collector      --implements-->  SnapshotLifecycle     (SnapshotLifecycle: the promise)
    GroupCollect   = collectAll + outcomes of collections + SlackNotifier (INSTANCE)
    Requests       = Collector (EXTENDS) + queries for data + the memos' handlers
    Startup          main.go, the collectors' first goroutines, database, router, settings
    LogTail          a log that is rotated, the tail agent, its client
    ViewStore        the page's entries, the event stream, the lists
    Settings         one settings file, its handler, pages that save, collections
    <module>Proofs   theorems and proofs of each of the eight modules above but the promises
    MC<module>       its instances for TLC

Definitions whose names start with `Mut` are plausible mistakes (a dropped guard, a lost
reset). No specification uses them; `PROJECT.json` says which definition each one replaces
and which property must then fail, which shows that the property depends on the code.

### SlackNotifier

`s.mu` makes every critical section one action; anything may happen between two of them.

| Code | Actions |
|---|---|
| `Expect` (109-129) | `ExpectStart` dedupes the targets and starts the timer (123), `ExpectStore` replaces the map entry under the mutex (125-128) |
| timer callback (123, 162) | `TimerFires` starts the callback, `TimerFlush` is its `flush` |
| `Report` (133-160) | `ReportStart` posts a failure, `ReportRecord` stores the result under the mutex and decides whether the group is complete, `ReportFlush` flushes it after the mutex was released |
| `flush` (162-178) | `Flush`: only the state that is in the map and not sent is removed, stopped and summarised |
| `send`, `postWebhook` | `Post` ends a post; the outcome is only logged |

A `*groupState` is named by the call of `Expect` that allocated it, so a second call for
the same group id, which replaces the first in the map, is expressible. A summary is what
the template distinguishes: which targets failed, which are missing, whether it timed out.
The constant `TimerMayWin` says that the timeout (`CBDPROTEIN_SLACK_GROUP_TIMEOUT`) may be
so short that the callback runs before the group is stored.

### Collector

One collector (one type) with its store. `pc[id]` is the next step of the snapshot's
goroutine, `call[c]` the next step of a call of `Process`, by a snapshot (`runProcessor`)
or by a request (`Get`). `Lock` and the rest of `updateStatus` are two actions because a
waiting writer keeps new readers out, and readers hold the lock during a whole call of
`Process`. The store is `kv` (pairs of bucket and key, because `Add` swaps them), `body`
and `cache`. `CreateBody` and `WriteBody` are the two system calls of `PutFile`; either may
fail, and a kill may come between them. `Restart` kills the process at any
point, forgets everything in memory and does what `New` does. `Kind` selects the processor.
`Get` answers for an entry of any status; the page only asks for those that are `ok`, so the
bound `Eager` names the snapshots, and the lives of the process, in which other clients ask
earlier. The history variable `peeked` holds the snapshots whose body such a request has
processed before all of it was there.

The event hub is the part of it that can hold everybody up. `Publish` is called under the
write lock and returns when go-sse has handed the event to every open stream: `UpdateStatus`
makes every stream owe a `Take`, and `Unlock` waits until none does. `Subscribe` and `Leave`
open and end a stream at any time.

Abstractions: a body is absent, partial or full; the output of a command is made of what
the body was when it ran; the external programs and the pprof library succeed or fail;
the meta data is valid JSON; `Get` of an output that was just found in the cache succeeds.

### Requests

The handlers around a collector, on top of its steps. `Announce` is the event that `postIndex`
of the memos publishes after `Add`, outside the lock (`memo/handler.go:101`). `Ask`, `FindLatest`
or `FindById`, and `ServeFile` are `getLatestData` and `getData`: the list is made under the
lock (`extproc/handler.go:92`), the file is opened after it (`:110`), so the list may be stale by
then. `FindLatest` is the sort and the loop as the source has them: the order (`Before`), what the
loop does not pass over (`Matches`), and its end at the first such entry. `AskIndex` to
`ListAgain` are `getIndex` of the memos: a list, one `Get` per entry, the text written into the
entry, and a second list. The entries of a list are pointers, and `updateStatus` puts a new
entry in the place of the old one; `held` says of which snapshots an index still has the
current entry, `message` what the current entry shows. A write of `Message` is atomic here;
that a string may be read while it is written is not modelled.

### Startup

`Boot` is `start()` of `main.go` as a sequence of steps, and `at` the one it is at: routes
(`AddRoutes`, during which main.go is in the router), a settings file (`Config`), a collector
(`GetAll`, one `Decode` per stored snapshot, `NewReturns`), and in the end the port. Every
decoded snapshot has a goroutine, `task`, that goes through `runProcessor`: `Begin`, `Exists`,
`Run`, then `PutCache` (alp, slp) or `EnterRouter` and `LeaveRouter` (pprof), `Finalize`, and
after a failure `Prune`. `Die` is a kill, or the panic when a step fails, at any point; what is
on disk stays, and the next `Start` begins with it.

What New decodes are slices of a page of the database (`kv.go:60`, `collector.go:73`) after the
transaction that read it. bbolt copies a page when it writes it, the old copy is free from
then on, and a later transaction may put its own page there: `page` goes from `current` to
`freed` to `reused` with the transactions that write (`Commit`), and a slice of a page that has
been reused may read as any document or as nothing (`Readable`). Tasks therefore have the
document they have decoded, which need not be that of their slice. The history variable
`blurred` names the snapshots that this makes uncertain in the current life: those whose slice
was decoded too late, and those it was read as. Neither the number of unfinished snapshots nor
that of starts is bounded. `router` is who is in echo's router: the profiles exclude each other
(`EnterRouter` takes `p.mu`), main.go nobody.

### LogTail

A file is the sequence of its lines, numbered as they are written, and one line is one unit
of `startPos`, offset and limit. The log grows (`WriteLine`), is renamed and opened again
(`Rename`, `Reopen`), or emptied (`Empty`) between any two steps of the handler: `Open`,
`Seek`, the sleep, `Stat`, any number of `CopyPiece`, `CopyEnds`, or an error (`Breaks`).
`Failed` is what `serve` makes of an error: the status 500 only if nothing has been sent.
The client is `Snapshot.Collect`: `Ask`, `Receive`, or a connection that is cut.
The history variables `first` and `last` are the lines at the two ends of the window.

### GroupCollect

`collectAll` is `ReadTargets`, `Expect`, one request per target and `Answer`. A request is
accepted (`Accept`: 200, and for the types with a handler a collection begins), refused
(`Refuse`: no handler, or it cannot be sent), and its answer may be lost (`AnswersLost`).
`ReportFailure` is the report in place of the target. A collection is only its outcome
(`Settle`, or `Reject` when URL or duration is empty); module `Collector` has its steps.
The notifier is an instance of `SlackNotifier`, whose actions are interleaved with these;
its liveness and its refinement of `GroupSummary` are checked here, where the composition
is what drives it.

### ViewStore

The server is the status of every snapshot; every change appends an event while the stream
is open (`collector.go:85`). `Answer` makes the list, `Fetched` saves it; `OnMessage` saves
an event; `Drop` loses the events on their way, `Connect` opens the stream again.
`Restart` is a server that is killed and started again: it has no entries until it processes
them again, an answer that was received before may still be saved after it, and the page
keeps everything it has. `state.groups` and the getters are functions of the entries and
are left out.
The history variables `informed` and `overtaken` say for which snapshots the page can know
the newest status at all.

### Settings

A document of `Size[d]` blocks; `Truncate` and `Write` are the two system calls of
`PutFile`, `Overlay` what a write through an own descriptor does to a file another save has
written meanwhile. `Refuse` is the answer 400, `WriteFails` a full disk. `Start` and
`SaveDefault` are `New`. `Open`, `Loaded`, `Update`, `Updated` are the page; the button of
`SettingEdit.vue` is disabled during a save, so a page has one save at a time. The setting it
loads comes from `c.File`, which takes the size of the file (`GetSize`) and copies that many bytes
later (`GetCopy`); a save in between makes the answer a part of one document, a mixture, or one that breaks
off. `CreateFails` is an `os.Create` that fails, `DefaultFails` a `New` that cannot write.
What a collection reads is one step: the files are small, and `os.ReadFile` reads them in one
call. Content that is no whole document is `Torn`: for `targets.json` that is a JSON error.
The history variables: `informed` is the newest version a page has been told of, by the answer to
its save or by a load that no save has overlapped; `hasty` are the pages that have saved while their
load was still on its way.

## 3. Runs

Every property has a mutant of the code that violates it under the run's own bounds.

| Run | Instance | Shows | Distinct states |
|---|---|---|---|
| `slack_safety` | 2 groups, 4 reports (two that complete a group, one nobody waits for, one outside any group), target lists with duplicates, `TimerMayWin` | at most one summary per group; it misses a target only if it timed out; whoever completes a group sends it; what a summary says of a target is what was reported of it | 236,320 |
| `collector_command` | 2 snapshots, 1 reader that may come too early for one of them, 1 event stream, writes that fail, 1 kill and restart, `Kind = "command"`, fairness | hook at most once over all lives; `ok` is durable; what is `Ready`, and what the hook was told is, is whole but for the two cases the properties name; an entry is only replaced by the holder of the lock, when every stream has taken the event before; everything that does not wait for its target settles, in spite of readers and of the stream; `SnapshotLifecycle` is implemented | 412,776 |
| `requests_pprof` | 2 profiles with labels of their own, 1 query, 2 restarts, torn bodies | hook at most once over three lives; the latest profile that is served is whole, and not older than any that was `ok` when it was asked for | 1,275,729 |
| `requests_memo` | 2 memos, 1 index, torn bodies, 1 restart | the last event about a snapshot has the status of its entry, the memo handler's second event included; an index that is answered shows the text of every memo that was `ok` | 306,376 |
| `group_collect` | 1 group of a background target and a memo, 1 request of another client that may be empty, answers may be lost, fairness | the check mark tells the truth; no failure is told twice, and every one is told; a settled group is summarised without its timer, and every group is summarised even if a collection hangs; `GroupSummary` is implemented, its liveness included | 206,832 |
| `view_store` | 2 snapshots in 2 lists, 1 break of the stream, 1 restart of the server, fairness | at rest the page shows the server's status unless the newest event fell into a break, or an older list was saved after it, or a restart has forgotten the snapshot; before lists are saved, or the server is restarted, entries never go back; what has settled is shown in the end | 559,429 |
| `settings` | 2 pages, 2 saves, documents of 1 and 2 blocks, one text that is reformatted, one that is refused, 1 kill | a save that ran alone determines the file, also after a restart; a collection uses the newest targets or is refused; a page that has been told of the newest version shows a text of it, unless it was hasty | 3,107,424 |
| `log_tail` | 5 lines, 2 renames or truncations, fairness | a snapshot has only lines of its window, none twice, in order; all of them if the log was left alone; every request ends | 71,259 |
| `startup` | a profile and 3 logs of requests in the store, any of the logs cached, two of them perhaps unsound; starts and kills without bound | no start takes a good snapshot out of the store; every stored snapshot is listed; both except for what was read from a page that was reused | 3,831,315 |
| `slack_same_label`, `group_rejected`, `collector_memo_restart` | | the disagreements of section 6 (each violated) | |

Why the bounds are enough. The races of the notifier are between the last two reports of
a group, its timer and one other group, all of which are there; a fourth report adds one
that must not count. The collector's snapshots meet only in the lock and in the reader's
choice of a subject: two of them, a reader that blocks a writer and a stream that blocks
everybody show each interaction. `Eager` lets that reader process a body that is missing, half
written or torn, of one snapshot in the first life (`FirstIsEager`); what it has cached is then
found by `runProcessor` and by the next life. One restart kills the collection at every step and
processes what it has left, again up to every step; that the second life is killed as well, and
what is left of it processed a third time, is in `requests_pprof`. The targets of the group are one
that succeeds or fails in the background, and one whose answer is no 200; either may be refused.
The settings need two saves to mix, two pages for a save to come between the size and the copy
of another's load, and a page that saves before its load is answered. One query sees every order of
a list, of two collections and of the file; queries do not change anything, so a second one adds
nothing. Five lines are one before the window, two in it, one while it is copied and one after a
rotation, and two rotations shrink the file twice, or rename it after that. The start needs two
outputs that are stored between `GetAll` and the last `Decode`, the first of which frees the page
and the second of which reuses it, hence three logs; and a document of another type for the
third slice to be read as, hence a profile. `FirstAreSound` fixes that the profile and the first
log can be processed, which only excludes starts in which less happens; starts and kills are not
bounded. What the bounds leave out of the safety properties the theorems of section 5 add:
all of them are proved for instances of any size.

No run ignores a deadlock except `settings` and `log_tail`, where nobody has to save, or to
write, anything; the other specifications have an action that is enabled exactly where the
program may rest.

The group run has no timer that wins against `Expect` (section 6); `slack_safety` has. Every other
behaviour the models can express is on in the runs, and where a property does not survive one of
them the property says so, in an exception: `peeked` and
`replayed` in `ReadyIsWhole` and `ToldIsWhole`, `blurred` in `HealthyIsKept` and `RestartListsAll`,
`hasty` in `ShownIsSaved`, `informed` and `overtaken` in the properties of the page. Without their
exceptions the properties of the collector, the start and the settings are violated in their runs.

Some hazards are covered only in part. A failure may be told twice after an answer that was
lost (`FailureToldOnce` is about the others), the liveness of a group whose timer wins is not
claimed, and a text that an index of memos writes into an entry just replaced is lost
(`IndexShowsTexts` is about entries that had settled before).

## 4. Fairness

- Goroutines that can run do (the Go scheduler): weak fairness of each snapshot's steps,
  its call of `Process` among them (`Running`), of the calls of `Get`, of `Report` after it has started, of `collectAll`'s steps.
- A lock that is released again and again is acquired: strong fairness of `Lock`, because
  `sync.RWMutex` makes new readers wait for a writer and `sync.Mutex` has a starvation mode.
- Timers that are set fire; commands and requests to the program itself end.
- A page reads its stream or its connection breaks: a stream that owes a `Take` takes or
  leaves. TCP keep-alive and the browser's end of a connection justify this for pages that
  are gone; a client that keeps its connection and never reads it stops the collector, and the
  code has no timeout against it.
- Not assumed: that a target answers (`http.DefaultClient` has no timeout, `snapshot.go:70`),
  that clients or users do anything, that a report is ever made. Hence `Settles` does not
  promise that a fetch ends, and it is the timer that makes groups end.
- `ViewStore`: requests end or fail, events arrive while the stream is open, the browser
  reconnects.
- `LogTail`: the handler goes on and its client receives the answer. That the log grows, is
  rotated, that reading fails or the connection is cut is not relied on.

## 5. Proofs

All theorems hold for any sets of snapshots, readers, streams, groups, calls, reports, pages
and documents, under the named assumptions on the constants, which TLC evaluates in every run.
Every invariant and every action property that a run checks is proved, and so is the safety of
both refinements. Each type invariant is a theorem `TypeCorrect`; the others:

`SlackNotifierProofs`

- `AtMostOneSummary`. "One summary" is not inductive: that a state is summarised once rests
  on `sent`, on where the state is (`InMap`: what the map holds was stored by a call for that
  group id), and on a state not being sent before it is stored (`NotSentBeforeStore`).
  `OnceInv` is their conjunction with `SentMeansOneSummary`.
- `OpenGroupAlwaysHasTimer`, if not `TimerMayWin`: a call that is about to store has armed
  its timer (`ArmedBeforeStore`), and only a flush, which removes the group, uses it up. No
  run checks this invariant; `group_collect` checks what follows from it with fair timers.
- `CompleteGroupsAreFlushed`: a group all of whose targets have reported is about to be
  flushed by a report. `FlushInv` adds that a state has no results before it is stored.
- `SummariesAreComplete`, if no two calls of `Expect` share a group id (`UniqueGroupIds`): a
  report that is about to flush has completed its group (`AboutToFlush`), and results only
  come from expected targets (`ReportedExpected`). With shared ids a late report may flush
  the state of the second call, hence the assumption.
- `SummariesTellReports`, without an assumption: also if group ids are shared and a target is
  reported twice. The text is rendered in another critical section than the one that counted
  the last report, from what the reports have stored, so the invariant `TellInv` says that nothing counts for a state before it is stored
  (`CountedAfterStore`), that what counts is recorded (`CountedIsRecorded`), and that every
  result is one that counted (`ResultsAreReported`).
- `CountedFailuresAreListed` follows if no two reports of a group are for the same target
  (`DistinctReports`, which `slack_same_label` drops, and then `FailuresAreListed` fails).
- `SentStaysFinal`: a state that has been summarised, its results and its summary do not change
  any more, whichever reports, timers and calls of `Expect` come late.
- `NotifierImplementsSummary`, if group ids are unique: every step is a step of `GroupSummary` or
  leaves its variables alone. The lemmas `WantImplemented`, `OpenImplemented`,
  `RecordImplemented` and `CloseImplemented` are the four steps; the last one needs what the
  invariants above say of a state that is about to be flushed (`KeepsPromise`): that it is stored,
  not sent, and complete unless the timer flushes it.

`CollectorProofs`

- `EventsDoNotOvertake`: an entry is replaced only by the holder of the lock, while nobody reads
  and after every stream has taken, or lost, the previous event. `LockInv`: a
  goroutine that has replaced its entry and not released the lock has started nothing new, and
  no request is inside `Get` (`UpdateIsExclusive`); only its event is being handed out
  (`OwedByWriter`); and it is in `Process` at no other step than that (`CallsFollow`).
- `TerminalStays`: a goroutine past its terminal status does not update again
  (`TerminalWhenSettled`).
- `HookedAtMostOnce`: a goroutine that may still call the hook has not called it
  (`NotHookedYet`), and one that has called it with the entry's status (`HookedWithStatus`).
- `OkStaysDurable`, except for memos: meta data is in the store from before the body is
  written (`InStore`), and a prune is only started on the way to `fail` (`NotPruned`).
- `ReadyHasItAll`, without an assumption: what is `Ready` was made of a whole body, but for the
  two cases of commands that `ReadyIsWhole` names. The invariant `Whole` follows the body through
  the call that processes it, its output, and the cache, over restarts: a file that is processed is
  whole, or was found by `New` (`FileIsWhole`); and an output that was made of a part was cached by
  a `Get` that came too early, or its file is a part for good (`CommandIsWhole`).
- `ToldHasItAll`: no kill and no failed write leads to a check mark for half a file. The hook is only
  called in the life in which the file was written (`HookInv`), and nothing writes it, or takes its
  output away, afterwards (`ToldHasOutput`).
- `CollectorRefinesLifecycle`, for memos as long as the process is not restarted
  (`RestartsAreKind`): every step is a step of
  `SnapshotLifecycle` or leaves its variables alone. The step that needs most is `Restart`:
  that everything listed as `ok` comes back is `OkIsDurable`, that only accepted snapshots
  come back is `StoredHasBegun`.
- `MemosAreForgotten`: why memos need that exception. No restart finds one, in any instance; the
  run `collector_memo_restart` shows what that breaks.

`RequestsProofs`

- `CollectorIsUndisturbed`: every step of the composition is a step of the collector, or leaves
  it alone but for the event that `Announce` publishes, so the collector's invariants hold and
  are not proved again.
- `LifecycleWithRequests`: hence `SnapshotLifecycle` is implemented with the requests as well,
  under the same condition as without.
- `EventsAreRight`: `Announce` publishes `ok` for an entry that is `ok`, because such an entry
  does not change before a restart, which forgets the announcement.
- `LatestHasItAll`, `LatestIsNoOlder`: what was `ok` when the query arrived is still `ok` and
  listed when the list is made, and the file of what was found does not change before it is
  opened. Both for every kind of processor, and without an assumption on the requests or on torn
  bodies; for commands `OutputHasFile` adds that what has an output has a file.
- `IndexHasTheTexts`: for the memos that were `ok` when the index arrived, an entry that is not
  to be visited any more shows the text; that depends on `held`, since the text is written into
  the object that was listed.

`StartupProofs`: `NothingIsLost` and `NothingIsHidden`, for any store, any number of starts and
without a bound on what has to be written about while New decodes. The argument is one about
what is certain: a slice is of a page that is there (`SlicesHavePage`), a task of another
snapshot than its slice's is of blurred ones (`MisreadIsBlurred`), and of a snapshot that
is not blurred everything the start does follows from what was stored (`CertainAreSound`,
`DecodedInOrder`). The configuration is on disk before the first command runs (`FilesAreThere`). So
only an unsound snapshot, or one whose output could not be saved, gets to `Prune`.

`GroupCollectProofs`: `StepsAreTheNotifiers` shows that the composition does with the notifier
only what `SlackNotifier` allows (`RunsTheNotifier`), so what `SlackNotifierProofs` shows holds in
it (`NotifierHolds`), and so does the refinement of `GroupSummary`: `GroupsKeepThePromise`, if group
ids do not collide. On top of that:

- `FailuresAreToldOnce`: `TellInv` relates every report to the request or collection that made
  it (`HookTells`, `ProxyTells`) and a request to what it has started (`RequestStarts`).
- `SettledGroupsAreSummarised`, if group ids do not collide. `GroupInv`: a group is in the map from
  before its first request until its summary (`GroupIsExpected`), so no report of it comes too
  early; and a report that has had its turn is recorded (`ReportsCount`). Also for a
  `targets.json` that repeats itself.
- `GroupsAreWaitedFor`, under the same assumption: from before its first request until its
  summary a group has a timer that is armed or firing. It is the safety half of "every group is
  summarised"; the other half is that timers fire, which `group_collect` checks.
- `VerdictsAreTrue`, under the same assumption: what a summary says of a target is so. It joins
  `SummariesTellReports` (the text is what was reported) with `HookTells` and `ProxyTells` (what is
  reported is what happened), and holds for failed and missing targets, too.
- `CheckMarksAreTrue` follows if, besides, the entries of `targets.json` differ in type or label:
  of two equal entries, one that failed may hide behind the other (`slack_same_label`).

`ViewStoreProofs`

- `EntriesGoForward`: the events of a snapshot on the stream go forward, the page is behind all
  of them and the server ahead (`EventsGoForward`, `PageIsBehind`).
- `PageAtRestIsCurrent`: the last event of a snapshot on the stream has the server's status
  (`LastIsNewest`); without one, a list on its way does (`ListIsCurrent`), or the page
  (`QuietIsCurrent`).

`SettingsProofs`: `SavedFileIsWhole`, `ShownTextIsSaved` and `CollectionsUseNewest`. The
invariant says what each writer has put into the file so far, given whether it has run alone;
that an answer whose size and copy no save has overlapped is the document; and which of its load
and its save a page shows.

`LogTailProofs`: `OnlyTheWindowIsKept` (whatever is after `startPos` in a file was written after
the window was opened, also when the file has shrunk and grown again) and `TheWholeWindowIsKept`
(the offset, the limit and the lines sent add up to the window).

Only model-checked: what rests on fairness, which the prover does not reach (`Settles`,
`EveryGroupIsSummarised`, `FailureTold`, `SettledIsShown`, `RequestEnds`, and the liveness half of
`ImplementsGroupSummary`). Proved and in no run's list: `OpenGroupHasTimer`, `SentIsFinal`,
`TerminalIsFinal`, `NoGroupIsForgotten`, `VerdictIsTrue`, `MemoIsForgotten`. No module uses
RECURSIVE.

## 6. What disagrees

With a run:

1. `slack_same_label`. Results are stored per (Type, Label) and `sanitize` accepts two entries
   of `targets.json` with the same pair. A failure of one followed by a success of the other
   is summarised with a check mark, against `README.md:33`.
2. `group_rejected`. `Collect` drops a target with an empty URL or a zero duration before there
   is a snapshot; the request has been answered 200 and nobody is told, against `README.md:7`.
   (Group targets cannot be empty, `sanitize` validates them; other clients' requests can.)
3. `collector_memo_restart`. `Add` calls `store.Put(s.ID, s.Type, ...)`, the interface is
   `Put(typ, id, data)`: a memo is not found by the next start. `README.md:38` gives it as the
   reason for keeping the hook silent at a start that all past snapshots come back with it.

Seen while modelling. The runs contain these behaviours, and the properties name them as
exceptions (only the first is switched off, in `group_collect`):

- `TimerMayWin`: the timer is started (`slack.go:123`) before the group is stored (`:128`). With
  a timeout of zero, or a negative one, the callback finds no group, and the group is stored
  afterwards without a timer: `OpenGroupHasTimer` fails, and such a group is never summarised.
- Torn logs: a kill between `os.Create` and `Write`, or a `Write` that fails, leaves a part of a
  body; the next start processes it, alp and slp may accept it, and it is `Ready`
  (`ReadyIsWhole`: `replayed`).
- Early requests: `Get` on an entry whose body is still being written caches the output of half of
  it, and `runProcessor` then takes the cached output: the snapshot is `ok`, its hook is called, and
  the output stays (`ReadyIsWhole`, `ToldIsWhole`: `peeked`). The page does not ask so early.
- Reused pages: the outputs of two snapshots are stored while New still decodes; the first
  transaction frees the page the slices point into, the second reuses it, and a slice may be
  read as another snapshot, or not at all. That one is then not listed, or is processed as what
  it is not, and pruned if that fails (`HealthyIsKept`, `RestartListsAll`: `blurred`). Two
  snapshots without an output are what a kill during two collections
  leaves. (That bbolt reuses the page at once, and does so within the time New needs, is
  possible and not certain.)
- The router: `main.go` adds the routes of the later components while a profile, parsed by then,
  adds its own; the mutex of the pprof processor is not main's, so both may write to echo's maps.
  The model has these states and states no property against them; whether they end the process is up
  to the runtime.
- A late load: a page that saves a setting before its own load was answered shows, when the
  answer arrives, the older text in place of the one it has saved (`store.ts:71`; `ShownIsSaved`:
  `hasty`), and its text area, from which the next save is made, holds the older text again.
- A target of type `memo` in `targets.json` is answered 202, which `makeInternalRequest`
  counts as a failure; if `Add` fails too it is told twice (`FailureToldOnce` needs that no
  memo is a target and no answer is lost).
- Two saves of a setting that overlap may leave a mixture, and a kill during the first start
  leaves an empty file that later starts keep: both are states of `Settings` with
  `expected = Invalid`, and heal with the next save.

Seen, and allowed by the properties as they are stated:

- A memo whose `Add` failed stays in the list without a body, so that `Get` fails and the
  index of memos is answered 500 (`memo/handler.go:54`) until the next restart;
  and it is answered 500 while a memo is being added. `IndexShowsTexts` is about
  the indexes that are answered.
- An error of the tail agent after the first piece has been sent cannot change the status,
  and its text (`tail.go:50`) becomes the end of a snapshot that is kept. The properties of
  `LogTail` are about the lines in the answer.
- `getData` serves a body by id whatever its status, also while it is being written; hence
  `LatestIsWhole` is about `getLatestData`.
- After a restart a page goes on showing snapshots the server no longer has.

## 7. Not modelled

- bbolt below its transactions (a file that grows and is mapped again while a slice is read),
  and the slice of a cached output that `kv.Get` returns: it is read at once, or not at all.
- Requests that look up routes while others add them: echo has no lock for this either, and
  which of the lookups go wrong is decided inside its router.
- go-sse below `Publish`: how it buffers, and how it finds out that a connection is gone.
- Strings that are read while they are written (`Message` of a memo).
- Ids that collide (two snapshots in a nanosecond, two group collections in a microsecond): the
  notifier's proofs except `SummariesAreComplete` allow for shared group ids, the other
  theorems assume that ids are unique.
- A memo that a user adds to a group that is still open (`AddMemo.vue`): a report nobody waits
  for, as `slack_safety` has one. A group collection that spans a restart is never summarised
  (its state is in memory only); no doc promises otherwise.
- Git information, which is best effort; the profile handlers of the agents, which pass the
  profile of another library on; wording and layout of the messages; rendering; the mock
  programs and the build. They have no state that outlives a call.

The hazards of `PROJECT.json` that have a note are of this kind.

## 8. Plan

Done, in this order: notifier with its abstract specification and proofs; collector with
its abstract specification and proofs; group collection composed of both sides; the page;
the settings; the requests composed with the collector; the tail agent; the start of the
program and the event hub; proofs of every invariant and action property that is checked;
the safety of both refinements, alone and in the compositions.

Next:

1. An abstract processor that both `Collector` and `Startup` instantiate, so that a start with
   torn bodies can be stated once.
2. How many snapshots without an output a life of `Collector` can leave to `Startup`.
3. `oneline`, `formatGroup`, the getters of the page and the parsing of `TsvTable.vue` as
   functions against reference definitions over bounded inputs.
