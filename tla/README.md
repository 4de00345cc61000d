# llm-watch in TLA+

A verification of [llm-watch](../src/README.md): TLA+ modules of its parts, TLC
runs over small instances of them, and TLAPS proofs for instances of any size.
File names below are relative to `src/src/` unless they say otherwise.

## 1. The system

`llm-watch` shows on a laptop what the Codex and Claude sessions of several
devboxes are doing. One binary plays every part:

```text
 devbox                                     laptop
 agent --runs--> llm-watch hook             llm-watch dashboard   (terminal)
                     | flock                llm-watch serve       (web server)
                     v                          |  poll loop, one thread per host
              state directory  <--ssh: snapshot-+
              runs/ events/ links/              v
                     ^                      dashboard-cache.json  labels  prs
                     | flock                    |
 tunnel --runs--> llm-watch link set/clear      +--> desktop notifier, page, wezterm
```

| Part | State | Operations | Called by | What is hard |
|---|---|---|---|---|
| Agent hooks (`hooks.rs`, `main.rs: command_hook`) | none | normalise a payload into an event, a heartbeat or nothing | agents, on every lifecycle event, under a timeout | killed at any moment; several hooks of one run at once |
| State directory: runs and events (`storage.rs`, `model.rs`) | `runs/<id>.json`, `events/<nanos>-<id>.json`, the flock | `write_event`, `write_activity`, `prune`, `snapshot` | hooks; dashboards over SSH | read-merge-write of a record, two directories read one after the other, the prune without the lock |
| State directory: links (`storage.rs`, `main.rs: command_link`) | `links/<id>.json` | `write_link`, `clear_link`, `read_live_links` | wrappers of tunnels; snapshots | stamps taken before the lock, a time to live, clear against set |
| Fetching (`dashboard.rs: fetch_all, output_with_timeout`) | one child and two pipe readers per host | spawn, wait with a timeout, kill, join | pollers, the WezTerm jump | timeout against a late answer; a pipe that outlives the child |
| Notifications and the cache (`dashboard.rs`) | `dashboard-cache.json`: hosts observed, ids seen, last snapshots | `process_notifications`, `with_last_known` | both dashboards | shared by processes, not locked; trimmed; saved after the fact |
| Broadcast and streams (`server.rs`) | version, payload, view; a slot per connection | `publish`, `apply_*`, `wait_after`, accept | poller thread, connection threads | lost wake-ups, order, slots that must come back |
| Label and pull request edits (`server.rs`, `labels.rs`, `prs.rs`) | files `labels` and `prs`, the view | `handle_label`, `handle_pr`, `set_label`, `add_pr`, `remove_pr`, re-reading at every poll | connection threads of any `serve` | read-modify-write without a lock; a view and a file updated apart |
| HTTP (`server.rs: read_request, same_origin`) | none | parse, route, refuse | browsers | reading has no timeout |
| Jump to a terminal (`wezterm.rs`) | none (WezTerm's tabs) | list, match, activate | `/api/focus` | tabs close between list and activate |
| Host discovery (`discovery.rs`) | none | hosts file, SSH config with includes, Coder, ignore globs | start of both dashboards | include cycles, the glob matcher |
| Pull request links (`prs.rs: parse`) | none | canonical form | edits, the file | |
| Terminal table (`dashboard.rs: render_table`) | none | formatting | `dashboard`, `list` | |
| Web page (`web/index.html`) | dismissals, the open editor, the viewer's tabs | render on every message, click handlers | the user | state kept across pushes and restarts |

What makes each part correct, in a sentence:

* **State directory.** No hook's merge is lost; a record is never behind the
  log; a snapshot shows no event newer than the run it comes with; a record
  that can be read keeps its texts; nothing leaves before the retention time; no hook hangs.
* **Links.** A refreshed link is shown, one whose owner is gone disappears.
* **Fetching.** Every fetch ends; a timeout is an error and nothing else.
* **Notifications.** A host's baseline is silent; every alert that stands is
  notified; it is notified once; what is shown never goes back.
* **Streams.** What a page was sent last is what the server holds, or a message
  is on its way; pushes come in order; a client that left frees its slot.
* **Edits.** An edit changes its own host only; no list exceeds eight; every
  view ends up showing the files.
* **Discovery.** It ends on every include graph; the matcher is the usual glob.
* **Page.** Dismissals, edits and tabs survive pushes that do not concern them.

## 2. Modules

Each component module has its state as variables, one action per step of the
code that other processes can see in between, its invariants, its liveness and,
where its proof is long, the inductive invariant. `MC*` modules only add the values
of a small instance. `*Proofs` modules hold the theorems.

```text
 HookEvents <-- Storage <-- StorageHistory      implements Devbox
                   ^------- MCStorage, StorageProofs (both by way of StorageHistory)
 Notifier <-- MCNotifier, NotifierProofs        assumes of Storage: SnapshotIsCoherent
 Stream <-- MCStream, StreamProofs              implements Subscription
 Edits <-- MCEdits, EditsProofs                 implements Config, but for the race
 Links <-- MCLinks, LinksProofs
 Fetch, Glob, SshConfig <-- MCPolling           what a poll does before Notifier
   ^------ PollingProofs
 Dismissals <-- MCDismissals                    assumes of Stream: views come in order
 Dismissals, Editing, Viewer, WakeLock, Focus <-- MCPage
   ^------ PageProofs
 Induction <-- EditsProofs, PageProofs          induction over the naturals, for sets
```

Operators marked "(A mistake: ...)" are plausible bugs of the definition that
follows them. No module uses them: putting one in the place of the real
definition must break the property that PROJECT.json names under "mutants".

### HookEvents, Storage, Devbox and StorageHistory: a devbox

| In the module | In the code |
|---|---|
| `NormalizeEvent`, `NormalizeState`, `MessageOf`, `TaskOf`, ... | `hooks.rs: normalize_event` and what it calls. A text is empty, blank or a name; the compaction of a blank text to nothing is kept, the cut at a length is not |
| `Fire` | `main.rs: command_hook` until the lock |
| `Acquire`, `ReadPrevious`, `MergeText`, `WriteRun`, `WriteEvent`, `Unlock` | `storage.rs: with_lock`, `update_run`, `write_event_at`, `write_activity_at`: read the record, rename the merged one over it, append the event |
| `PruneStart` ... `PruneDone` | `prune`: list the directory, then for each file look at its time and remove its path, in two steps, with no lock |
| `ReadPreviousFails` | `read_json_if_exists`: a record that is there and cannot be read or parsed is none; the hook writes a new one over it |
| `StartSnapshot`, `ReadRuns`, `ListEvents`, `ReadEvent`, `SkipEvent`, `EndSnapshot` | `snapshot_at`: under the lock, runs first; then the events are listed, the window is fixed, and its files are opened one by one, while a prune may remove them. Files that cannot be read are left out |
| `Abort`, `Drop` | an I/O error, a kill by the agent's timeout, the end of an SSH session |
| `runs[r].turn`, `LoggedEvent.turn` | the order of the turns of the lock, for which the nanoseconds in an event's file name stand |

A hook that waits for the flock may be overtaken by any other. Files are written
by rename, so a read sees an old file or a new one, never half of one, or fails. The
value `Unread` of `previous` and the field `unread` of `snap` say what could not be
read: the first for the hook, which takes it for nothing, the second for the properties
only.

`Devbox` is what all this amounts to for those who take snapshots: `Record` merges,
writes and logs an event in one step, in the order of the turns; `Answer` takes a
snapshot in one step, from which events that expired or cannot be read drop out
afterwards (`Miss`); files may `Expire`. `StorageHistory` is Storage with a history
variable `last`, the latest event recorded of each run, and the mapping (`IsDevbox`). A
hook counts as recorded at its last write (`Completes`): the append of its event, the
rename of the record when it is a heartbeat, or the moment it is killed or fails between
the two. Until then a record on disk whose event is missing does not count as stored;
no snapshot can see it, because the lock is still held. A snapshot counts when it lists the
events; records that a prune removed between its two reads may be in it, which `Answer`
says, and events that a prune removes before they are opened are not, which `Miss` says.

### Notifier: the pollers and the cache

`StartPoll`, `Fetch`/`FetchFails` per host, `LoadCache`, `ProcessEvent` per event,
`Save`, `Show` are the steps of one round of `dashboard` (`main.rs`) or `serve`
(`poll_once`). `SaveFails` ends a round of `serve` with an error and a round of
`dashboard` with the process; `Crash` may come between any two steps. A cache
that cannot be read is an empty one, for `process_notifications` (`LoadFails`: every
host gets a new baseline, and what the cache had is saved over) and for
`with_last_known` (`ShowFails`: hosts that did not answer are not shown). A host is
a sequence of updates of its runs, of which those with `logged` are events; a
snapshot is the number of updates it was taken after, which is enough because
snapshots are coherent (proved of Storage). What a devbox cannot read is missing from
its snapshots: an event (`EventIsMissing`), or the record it is compared with
(`RecordIsMissing`: the event is marked and not notified). The variables `notified`,
`repeated`, `observed`, `baseline`, `missed`, `forgotten` and `blind` are history
variables: no action's guard reads them.

### Subscription and Stream: the web server's threads

`Subscription` says what a page that holds `/api/stream` open is promised.
`Stream` is the code: the accept loop with its counter (`Admit`, `Refuse`,
`Spawn`, `SpawnFails`), a thread per connection (`ReadRequest`, then an answer, an
edit, or the loop of `stream_events`) and the poller (`Publish`, `NotifyAll`). A
section under the Broadcast's mutex is one step; `notify_all` is the step after
it, since the code calls it with the mutex released. `Check` and `Recheck` are
`wait_after` before and after the condition variable. A stream whose thread is
past `First` is `open`; `Received` is what it wrote to its socket last.

### Config and Edits: the files `labels` and `prs`

`Config` says what one edit does to the files. `Edits` has several `serve`
processes, each with its connections and its poller: `PostLabel`, `ReadLabels`,
`WriteLabels` (view first, file second), `PostPr`, `ReadPrFile`, `WritePrs`,
`ApplyPrs` (room on the view, then the file, then the view), `PollLabels`,
`PollPrs`, `Publish`; files that an editor, a poller or a starting server cannot read
(they count as empty) or write, restarts, and edits by hand. `ReadPrs` is the parser's part that matters here: it drops duplicates
and everything past the limit. `FilesImplementConfig` maps the files, as their
readers see them (`ReadList`, a recursive function), to Config's variables. Two kinds of
steps are let through: edits by hand, and a write over what somebody else wrote after
the editor had read; that the latter happens is what `edits_race` shows.

### Links: published pages

`Refresh` is `main.rs: command_link` up to the lock, with the stamp it takes there;
`Acquire`, `WriteLink`, `ClearLink` are `write_link_at` and `clear_link_at`;
`ReadLinks` is `read_live_links` inside a snapshot, which skips files it cannot read
(`unread`, a history variable, names them until the answer is published); `Publish` and
`PublishUnreached` are `build_state` with and without a fresh snapshot. The
servers of pages (`Start`, `Die`, `Stop`, and `Punctual`, those that refresh in
time) are outside of the repository. There is no clock: files and pending
commands carry ages, which `Tick` raises up to the first dead one, so that time
is unbounded in a finite model.

### Fetch, Glob, SshConfig: a poll before its snapshots

`Fetch`: `StartPoll`/`EndPoll` are `fetch_all`; `Spawn`, `Waited`, `TimeOut`,
`TimedOut`, `Collect`, ... are `output_with_timeout` in one thread per host, with a
reader for each pipe. The command writes as much as it likes into pipes that hold
`Capacity`, ends when it likes or never, and leaves a helper behind that has
inherited either pipe.

`Glob`: one action per branch of the loops of `wildcard_matches`, against `Matches`,
which says what a match is by a cut of the value. `SshConfig`: the recursion of
`parse_ssh_file` as an agenda, between the hosts file and the ignore list, against
`Included` and `Declared`, which say what is to be found.

### Dismissals, Editing, Viewer, WakeLock, Focus: the web page

`Dismissals`: `Event`, `Reap`, `Poll`, `PollUnanswered` and `Restart` are what the rest of the
system does to the views, in coarse steps. `Receive` is the handler of a message
with `pruneDismissed`; `Dismiss`, `RestoreHost` and `Reload` are the user. Each change
of the map is written to `localStorage`, and the write may fail without a word (`Write`,
the `catch` of `writeDismissed`), as may reading it back (`ReloadUnread`, the one of
`readDismissed`): the page works on with its map, and a reload starts from the last
write that was taken, or from nothing. `hushed` (what is dismissed, as far as the page
can know: after a reload, what was dismissed when the store was last written), `saved`
and `failed` are history variables.

`Editing`: `Message` and `Timer` are held renders, `ForcedRender` stands for the
renders at the end of `savePr` and `focusHost`, `ClickChip` opens an edit, `Finish`
is the closure of that name, by Enter, Escape or a lost focus. `Draw` is `render`:
the new cards are built before the old input goes, and whether that input blurs is
left open, since browsers differ.

`Viewer`: `RenderViewer` with `TabsFor` and `VisibleAfter`, called by a message, a
tab, a digit, an arrow or a link. `WakeLock`: `acquireWake` is cut at its await
(`TurnOn`/`ComeBack`, then `Granted` or `Refused`), the release event is `Told`, and
the browser may hide the tab or take a lock at any time. `Focus`: `handle_focus` and
`focus_host` in their two commands, with the user at WezTerm in between. `owners` and
`restarted` are history variables: the tabs of the running WezTerm that had the title
during the request, and whether WezTerm was started during it.

## 3. Runs

Every number below is a constant of the run's cfg, named there. TLC checks
deadlock except in `storage_prune_race`, where the hooks run out of payloads
(`MaxFires`) and nobody takes a snapshot, in `polling`, where discovery and the
matcher end, and in `page`, where the bounds let a part stop.

`polling` and `page` each check several modules that share no variable. Their MC
module says which part a behaviour is one of; the other parts stay as they are at
rest, where their properties are constant.

| Run | Instance | Shows |
|---|---|---|
| `storage_snapshot` | 2 hooks of 2 runs, 5 payloads with empty, blank and real texts, 1 reader, a window of one event, retention 0 and one tick of time | no merge is lost, the record keeps up with the log, texts stay and a heartbeat keeps the message unless the record could not be read, events outlive the retention time; what a snapshot shows of a run is not older than the events it shows; hooks come back; all in all hooks and snapshots are as good as atomic, but for files that are missing from a snapshot (`IsDevbox`). 262,294 states |
| `storage_prune_race` | 2 hooks of 1 run, 4 payloads | **violation** of `RunsOutliveRetention` |
| `notifier_one` | 1 poller, 2 hosts, 2 runs, 2 updates, 1 failure (crash, cache not read, cache not written, file missing from a snapshot), window 1, list of 1 seen id | repeats only of lost ids, silent baseline, display goes forward or disappears, every standing alert is notified unless the failure hid it. 395,274 states |
| `notifier_race` | 2 pollers, 1 host, no failure | **violation** of `NotifiesOnce` |
| `notifier_quiet` | 2 pollers, one with notifications off | **violation** of `AlertIsNotified` |
| `stream` | 2 connections for 1 slot, 3 versions | slots are counted and come back, no lost wake-up, a stream implements Subscription with its liveness |
| `edits_files` | 2 servers with an editor each, 2 hosts, 2 pull requests for 1 place, 2 posts, 1 hand edit, 1 failure | cards stay within their limit, the files implement Config, all views end up showing the files. 557,250 states |
| `edits_race` | 2 editors of 1 server, 2 hosts | **violation** of `OthersKept` |
| `links` | 2 servers, one of them punctual, 2 ids that they may share, time to live 1 | no dead link is returned, a refreshed one whose file can be read always is, dead links leave the dashboard for good. 364,920 states |
| `polling` | a remote and a local host, pipes of 1, output up to 2 and a helper; every pattern over `a b ? *` and value over `a b` up to 4; every content of 2 files up to 2 lines | every poll ends with whole answers and nothing left behind; the matcher and discovery end and are exact |
| `page` | 1 page with 2 runs and 1 restart; 2 cards, 2 texts; lists of up to 2 of 3 links; 4 wake lock requests; up to 3 tabs of one WezTerm, started up to 4 times | see below |
| `dismissals_restart` | 1 page, 2 runs | **violation** of `HiddenUntilNews` |

Of `page` (360,955 states): a dismissed row stays hidden until news while the server is
up, nothing else is hidden, the store is what the page remembers as long as it takes the
writes; an input is saved once at most and only if the
user typed, messages leave it alone, and what was held is drawn in the end; the
viewer shows the active page and no other that is still served, and messages do not
disturb it; a lit bulb holds a lock, one that is off holds none where clicks do not
overlap with requests; the jump shows a tab of the host.

The type invariants and the inductive invariants are theorems (section 5) and are not
repeated in the runs.

Why these bounds are enough to show the interesting cases: the races need two
processes and one shared file; a merge needs a record that exists, so two
payloads, and a third to disturb it; a window or a limit of one makes every
second event, id or link fall out of it; time has to pass once for a file to
expire; a failure has to happen once anywhere, then all goes on; three versions
let one be skipped; a pipe of one byte makes every second write block; a pattern of
four has two stars with something between and after them. A window of one event is
emptied by the prune that removes it before it is opened; that a longer one may lose any
of its events, in the middle too, is in the theorem `HooksAreAtomic`. Where a bound
might hide something, there is a theorem for every value of the constants (section 5).

### What the properties except

Some of the code's error paths lose data, and the properties say so instead of claiming
more. Each exception is a condition on the step at hand or on a history variable:

* `TextIsSticky` and `HeartbeatKeepsMessage` except a hook that could not read the
  record it replaces (`Overwrites`); `MergeIsCurrent` passes over it.
* `RepeatsOnlyForgotten` and `BaselineIsSilent` except ids that left the cache: cut from
  the list, marked in a round that was not saved, or in a cache that could not be read
  and was saved over (`forgotten`). They bound what may repeat; they do not say that it
  does not.
* `BaselineIsSilent` counts as baseline what a host shows to a poller that could not read
  the cache (`blind`), `AlertIsNotified` excepts that baseline and events that were
  marked without their record (`missed`), and `DisplayNeverGoesBack` lets a host
  disappear, but not go back, when the cache cannot be read.
* `RefreshedIsReturned` excepts a link file that could not be read (`unread`), and
  servers that are not `Punctual`: one that refreshes exactly every `TTL` seconds and
  then waits for the lock flickers.
* After a reload `HiddenWhileServed` and `OnlyDismissedIsHidden` speak of what had been
  dismissed when the store was last written (`saved`); `StoreIsPruned` compares store
  and map unless the store failed when it was used last (`failed`).
* `FilesImplementConfig` lets a write over somebody else's write through (shown by
  `edits_race`), and `ViewsCatchUp` says that an edit which a poll published over comes
  back, not that it is never gone.
* `PollsEnd` assumes that whoever inherited a pipe of `ssh` closes it in the end.
* `ActiveIsShown` and `BulbIsTrue`: see the observations below.

### What the violations say

Each is a trace of the model that the code can take, against a sentence of the
repository; PROJECT.json quotes it under "findings".

* **A prune removes a run that was just refreshed.** `prune` looks at a file's
  time and removes its path without the lock of the writers. The run needs to
  have been silent for 14 days and to wake up within that instant.
* **Two dashboards notify an event twice.** `README.md:446` says that they share
  the baseline, "so an event notifies once"; they do unless they poll at the
  same time, as nothing is locked between `load_cache` and `save_cache`.
* **A dashboard with notifications off swallows alerts** of one that has them on.
* **Two edits of different hosts erase each other** when they overlap.
* **A restart of `serve` brings dismissed rows back**, since a page connects again
  by itself and the first view has no runs.

### Observations without a run

* Two pollers make what is shown go back: a poller that lost contact writes back
  the older snapshot it had loaded (`dashboard.rs:268`).
* An old approval is compared with the run's state, not with its event: when the
  run has moved on and asks again, both are notified (`dashboard.rs:241`).
* A labels file that cannot be read counts as empty, and the next edit writes it
  back with one host (`labels.rs:23`; `prs.rs:104` alike).
* A run's record that cannot be read or parsed counts as none, and the next event writes
  a new one over it, without the task, the target and the message (`storage.rs:162`),
  although the comment at `storage.rs:171` keeps the message "through the approval and
  session events that follow".
* A dashboard cache that cannot be read counts as empty (`dashboard.rs:200`): every host
  gets a new, silent baseline, so an alert that stands is never notified, and the round
  saves the loss over what was there.
* A record that a devbox cannot read is missing from its snapshot, and the events of its
  run are marked as seen without being notified (`dashboard.rs:241`); a heartbeat or the
  next event mends the record, not the notification.
* A store that is full or blocked costs the dismissals their persistence without a word
  (`index.html:473`, as its comment says): after a reload dismissed rows are back, and
  rows restored since are hidden again.
* When more than 5000 ids were seen since, an old event of a quiet host that is
  still in its window notifies again (`RepeatsOnlyForgotten` is as strong as it gets).
* Two tabs share one store of dismissals and each writes its whole map.
* A `link set` that waits for the lock while the exit trap runs `link clear` brings the
  link back, for the rest of its time to live (`storage.rs:228`; `DeadLinksLeave` says
  it then leaves).
* A helper that keeps a pipe of a killed `ssh` open keeps the poll, and all hosts with
  it, waiting past the timeout (`dashboard.rs:175`); when `wait_timeout` itself fails,
  the command and its readers are left behind (`dashboard.rs:170`).
* A `*` in a *value* that meets the pattern's `*` is taken for a literal byte before the
  star branch is tried: pattern `*` and value `*x` give no match (`discovery.rs:140`).
  `Glob` assumes that values have no `*`.
* An answer to an earlier request (a pull request refused, a tab jumped to) renders by
  force while the user types: the input is built anew and the draft is gone
  (`index.html:538`, `567`), although `index.html:898` says that only "the render that
  started it" is forced. If that input blurred, the new one has no open edit, and
  messages take it away; if the host is gone, `editing` stays set without an input and
  holds every render until the user opens and closes another edit.
* A page whose link ended while it was active keeps its frame visible when another tab
  is chosen, as only frames of tabs are hidden (`index.html:1018`); the exception in
  `ActiveIsShown`. A link on a card whose render was held may be gone: the viewer
  then shows the first page instead.
* The wake lock: a click that turns it off during a request finds no lock to release,
  and the request then leaves one with the bulb off; overlapping requests leave one that
  nobody knows of; the release event of an old lock forgets the new one; a lock that the
  browser takes from a visible tab leaves the bulb lit. `BulbIsTrue` is
  stated outside of these cases, by the history variables `hurried` and `taken`.
* A tab that is closed between list and activate is answered "not running"
  (`wezterm.rs:67`), and a WezTerm started anew in between shows a tab of another host
  with the same id.
* `prs.rs: parse` accepts an `http` link of exactly 300 characters and stores it as
  `https`, one character longer than it will read back.
* A permission prompt carries a message of its own, while the comment at
  `storage.rs:171` speaks of completed turns only.

## 4. Fairness

| Specification | Fairness | Why the code gives it |
|---|---|---|
| `Storage!FairSpec` | weak on a hook's and a snapshot's own steps, strong on taking the lock | processes are scheduled; flock queues its waiters, and every holder leaves or dies. Nothing makes an agent fire a hook or an SSH session start or drop |
| `Notifier!FairSpec` | weak on a poller's steps and on each fetch ending; strong on a fetch succeeding | the loop of `dashboard`/`serve`; the fetch has a timeout. That a host answers again and again is an assumption about the network: without it no alert can arrive. Files fail and pollers crash `MaxFailures` times |
| `Stream!FairSpec` | weak on each thread and on `NotifyAll`; strong on the accept loop's turn | threads are scheduled, waits have a timeout, the backlog is a queue and slots may come and go. Clients need not connect, ask or leave; a poll need not succeed. A wake-up is not assumed: it is what `NoLostWakeup` proves |
| `Links!FairSpec` | weak on the clock, on polls and on whoever holds the lock; strong on a snapshot taking it; for punctual servers also on refreshing and on their turn of the lock | the poller's loop and flock, as above. Commands need not be run, nor get the lock. That a server is punctual is what the README asks of it (`link set` at least every three minutes): `Tick` waits for it |
| `Fetch!Fairness` | weak on threads, readers, time and on the helper closing its pipes | threads are scheduled; an SSH master ends with its connection or after `ControlPersist`. Nothing is assumed of the command: it may hang or flood its pipes |
| `Glob`, `SshConfig` | weak on the next step | sequential code |
| `Edits!FairSpec` | weak on edits and on polls | threads are scheduled; a poll that keeps failing (`poll_once` returns an error) is outside of `ViewsCatchUp` |

## 5. Proofs

`tlapm` checks every leaf. The theorems hold for all values of the constants under
the assumptions each module names (numbers are naturals, process sets are
disjoint, `Clients` is finite, `Quiet \subseteq Pollers`, ...). TLC evaluates these
assumptions in the runs. Every safety property that a passing run checks, invariant,
action property or implementation, is a theorem; where one needs a further assumption
it says so.

* **StorageProofs**, no further assumption. `IInv` = types, *LockInv* (the steps
  under the lock are the holder's), *MergeIsCurrent*, *TurnInv* (a turn's number is
  on disk only once its holder wrote it), *RecordInv* (the record is written before
  its event), *RunNotBehindLog*, *ReadingInv* (what a snapshot has still to list or to
  open is not newer than the records it has read), *PruneInv*. `RunNotBehindLog` alone is not inductive: a
  hook between its two renames needs RecordInv, and a prune that removes an event
  by name needs TurnInv to know that no new event took that name. Theorems:
  `TypeCorrect`, `Invariant`, `MergesAreCurrent`, `RunsKeepUp`,
  `SnapshotsAreCoherent`, `TextStays`, `HeartbeatsKeepMessages`, `EventsStay`.
* **StorageProofs, of StorageHistory**. `HistoryInv` = `IInv` and *LastInv* (what was
  recorded last is older than the turn of a hook that still writes), *StoredInv* (a
  record on disk is the last one, unless its event is about to be logged), *HalfReadInv*
  (until it lists the events a snapshot has every stored record that it could read, each
  as recorded last) and *WindowInv* (an event of the window is opened once). The lemma
  `Kinds` sorts the steps of Storage by what they do to the files (quiet, a turn taken,
  a half write, a completed write, a loss, a step of a reader), and each kind is a step
  of Devbox or a stutter. Theorems: `HistoryInvariance`, `HooksAreAtomic`.
* **NotifierProofs**, for one poller (`OnePoller`; the violations show that it is
  needed). *CopyInv* (between load and save the copy contains the cache, or nothing when
  the cache could not be read), *MarkInv*
  (what was notified or shown first is marked or was forgotten), *ObservedInv*,
  *AgeInv* (shown <= saved <= fetched <= now, but for the moment after a cache that could
  not be read was saved over). Theorems: `TypeCorrect` (any number
  of pollers), `Invariant`, `RepeatsAreForgotten`, `BaselinesAreSilent`,
  `DisplayGoesForward`.
* **StreamProofs**. *PlaceInv* (a connection is in one place), *SlotsAreCounted*,
  *NoLostWakeup*, *OrderInv* (what was sent <= what was taken <= what was
  published). Theorems: `Invariant`, `TypeCorrect`, `SlotsCounted`, `WakeupsArrive`
  and `Implements`: each step of the server is a step of Subscription or a stutter.
* **LinksProofs**, for any time to live and any sharing of ids. `NoDeadLink` is not
  inductive: *StampInv* says of every file and of every command that waits that its
  stamp was taken while its server was up (a server is never down for longer than the
  age), and *PublishedInv* that the last `link set` of an id is in its file, and of a
  punctual server young enough. Theorems: `Invariance`, `DeadLinksAreDropped`,
  `RefreshedIsKept`.
* **PollingProofs, of Fetch**, for any hosts, pipe capacity and output. *Conserved* (read + in the
  pipe + unwritten = total), *CommandInv* (where the thread is says whether the command
  runs, is a zombie or is reaped), *ReaderInv* (there are readers as soon as there is a
  command, and they outlive it), *SnapshotInv*. Theorems: `FetchInvariance`,
  `AnswersAreWhole`, `ThreadsCleanUp`, `NoMutualWait`. Of `PollsEnd` everything but the
  fairness is proved too: `WorkLeft` of a host is a natural number that every step there
  makes smaller (`PollsAreFinite`), and a host whose thread has not ended has a step that
  fairness is assumed of (`PollsGoOn`).
* **PollingProofs, of Glob**, for patterns of any length over any alphabet and values of any length
  without a `*`. *FoundInv*:
  what the indices have passed matches. *PossibleInv*: every cut of the whole puts the
  end of the last star at or after the checkpoint, and at `p` it is as far past `v` as
  it is past the checkpoint at the star. So a mismatch rules out the checkpoint itself,
  and a star before the last never has to be tried again, which is why the code may
  forget it. Theorems: `MatcherInvariance`, `MatcherIsRight`, and `MatcherIsQuadratic`: a
  round leaves fewer of at most (Len(value) + 1) * (Len(pattern) + 2) rounds.
* **PollingProofs, of SshConfig**, for any files, paths and contents. *SoundInv*: only what the root
  reaches is opened or ahead. *CompleteInv*: each line of an opened file has been
  followed or is ahead; with an empty agenda the opened files are closed under include,
  so they are all of `Included`. Theorems: `DiscoveryInvariance`, `DiscoveryIsExact`, and,
  for finitely many files, `DiscoveryGoesDown`: every step takes a phase, a file or a line
  away, in the order of a dictionary.
* **EditsProofs**, for any limit, files of any content and any number of servers and
  editors. *ListsInv*: what a card shows and what a poll has read is a list of different
  pull requests within the limit. *EditorInv*: what an editor is about to write is such
  lists too, for a host that is watched, and is what it was posted applied to what it
  read. The lemmas of `ReadList` (its result is such a list, whatever the file holds, and
  a list that is one already is read as it is) go by induction along the file
  (`Induction`). `FilesAreConfig` is the step-by-step implementation of Config; in it
  `Detach` uses `RemoveFirst` where the code retains every other url, and
  `RemoveFirstIsList` shows that on a list without repetition no occurrence is left.
  Theorems: `Invariance`, `TypeCorrect`, `CardsStayBounded`, `FilesAreConfig`.
* **PageProofs, of Dismissals**, for one tab (`OnePage`). *MemoryInv* (what is remembered was
  dismissed, and is in the store unless that failed when it was used last; what the store
  has was saved) and, until a restart, *ServerInv*, *PastInv* (views
  only get newer; a run the server no longer has is gone or comes back with a new
  stamp) and *HushedInv* (a dismissal is remembered, by the page or, once saved,
  by the store, or its stamp is over). PastInv
  is what makes dropping an entry of an absent run safe; the restart breaks it.
  Theorems: `TypeCorrect`, `Invariant`, `StaysHidden`, `NothingElseHidden`,
  `StorePruned`.
* **PageProofs, of Editing**. `HeldIsDrawnLater` needs *OpenInputInv*: an input that is
  on the page has been neither saved nor left. Theorems: `EditingInvariance`,
  `HeldRendersAreMadeUp`, `SavesAreSingle`, `TypingIsNotDisturbed`.
* **PageProofs, of Viewer**. `ActiveIsShown` is inductive together with the types, which
  say that frames are of addresses and what is visible is among the frames; the work is
  in `Drawn`, what a render leaves for any list and any page. Theorems:
  `ViewerInvariance`, `ActivePageIsShown`, `ReadersStay`.
* **PageProofs, of WakeLock**. `BulbIsTrue` needs to know where the lock is that the page
  remembers: *LockInv* (held, or its release is still to be told), *HiddenInv* (a hidden
  tab holds nothing), *LitInv* (a lit bulb holds a lock or waits for one) and *CalmInv*
  (while nothing overlaps there is one lock at most, asked for, held or released).
  Theorems: `WakeInvariance`, `BulbTells`.
* **PageProofs, of Focus**. *OwnersInv*: whoever has the title now, while the request is
  under way, is among the owners; *FoundTabInv*: the tab found is one of them, or WezTerm
  was started since. `FoundHasTitle` says that the search finds a row with the title, by
  the least place that has it. Theorems: `FocusInvariance`, `JumpsAreRight`.
* **Induction**. The library's induction takes an operator, of which the provers can be
  given no instance. `SetInduction` states it for a set that has 0 and the successor of
  each of its members; it follows from the well-foundedness of `<`. That is enough for
  recursive functions such as `ReadList`.

Only model-checked: liveness (`HookReturns`, `AlertIsNotified`, `SlotsComeBack`,
`ViewsCatchUp`, `DeadLinksLeave`, `PollsEnd`, `MatcherEnds`, `DiscoveryEnds`, the
liveness half of Subscription in `StreamKeepsPromise`), which needs fairness and ENABLED,
beyond the prover. Of `PollsEnd`, `MatcherEnds` and `DiscoveryEnds` the part that needs
neither is proved: every step leaves less to do, so nothing goes on for ever.

## 6. Not modelled

* Terminal table, page layout, command line, installation, HTTP parsing and the
  origin check: formatting or pure functions the unit tests reach.
* The lines of `labels` and `prs` and the forms of a pull request link
  (`labels.rs: sanitize`, `prs.rs: parse`): pure functions of one text.
* `safe_name`: run ids are opaque; a collision needs ids agents do not produce.
* A wall clock that is set back; the turns of the lock stand for it in Storage, ages in
  Links.
* A reader of a pipe that fails: `read_to_end` on a pipe has no error to return in
  practice; if the one of stdout did, `output_with_timeout` would return before it joins
  the other (`dashboard.rs:180`).
* Which rows a host shows when its snapshot lacks records: in Notifier a snapshot is as
  old as the last update it could have, whatever is missing from it.
* Text lengths, tmux targets, JSON, file names, the arguments of `ssh`.
* The theme and the switch for stopped sessions: one assignment and a render each.
* The desktop notifier, WezTerm, browsers and SSH themselves: outside programs, of
  which the modules take what the code relies on (external in PROJECT.json).

## 7. Plan

In this order.

1. Notifier over Devbox, in place of its `history`, which states the composition of the
   two. Its snapshots then lack what has expired.
2. Links of a devbox over a real poll: Links with Fetch in place of its `Poll`.
