# Verification of herdr-pane-reopen

herdr-pane-reopen is a plugin of the terminal multiplexer herdr that gives it an
undo stack for closed panes, tabs and workspaces. It has no server of its own:
herdr starts one short-lived process per event (`reopen event`), per command
(`reopen-last`, `reopen --id`) and per start (`reopen startup`); a detached
`reopen watch` keeps a cache warm. All of them share the JSON files of one
state directory and one advisory lock on `reopen.lock`. What can go wrong is
therefore mostly a matter of *orders*: which process reads which file before
which other process writes it, and who dies in between.

This directory holds TLA+ models of the plugin, TLC configurations that check
them on small instances, and TLAPS proofs of the central facts for every
instance. Source paths below are relative to the crate (`src/*.rs`).

## 1. The system's parts

| part | source | state it keeps | operations | with whom it interacts |
|---|---|---|---|---|
| undo stack store | `store.rs`, `model.rs` | `closed.json` (entries, `next_id`), `reopen.lock` | lock, prune, allocate an id, insert, remove, push back; `record_self_created`, `is_self_created` on `self_created.json` | every process |
| burst and inference | `close.rs` | `pending.json`: one global burst of close events with frozen subtrees | `best_snapshot`, `freeze_for`, `push_event`, `owns_finalization`, `infer_entries`, `finalize_locked`, `on_close` | reads the shadow, writes the stack |
| recovery | `daemon.rs` `recover`, `recover_once` | `recovered.marker` | finalize an abandoned burst, empty `self_created.json`, drop a dead `watch.lock`, prune the stack | burst, stack |
| reopen command | `main.rs` `cmd_reopen` | the popped entry, in memory | pop, run the restore, push back after a total failure | stack, restore |
| shadow snapshot | `snapshot.rs`, `main.rs` `seed_from_event` | `snapshot.json`, `snapshot.prev.json` | `refresh` (three list calls, layouts, two passes of foreground samples, locked write), merge of created objects | herdr's socket; read by the hooks |
| watch daemon | `daemon.rs` `watch`, `ensure_running` | `watch.lock` (pid, heartbeat) | subscribe, debounce, refresh, heartbeat, exit; spawning | hooks, shadow |
| restore | `restore.rs` | a report, in memory | rebuild a workspace, tab or pane by socket calls, start agents, prefill commands | herdr's socket, `self_created.json` |
| layout tree | `restore.rs`, `model.rs` | none | strip ids, locate a pane, map ids, insertion index | restore |
| agent command lines, transcripts | `agents.rs`, `transcript.rs` | none | tables and a file lookup | restore |
| configuration, environment, log | `config.rs`, `env.rs`, `log.rs` | none | parsing | all |
| herdr socket client | `rpc.rs` | none | one request, one reply | all |
| listing, doctor, picker | `main.rs` | none | read-only output | stack |

What makes each part correct, and what makes that hard:

* **Store.** An id names one entry for good; the stack stays within its cap; two
  reopens never hold one entry. Hard: prune, truncation, pop and push-back
  interleave, and a push-back can arrive after its entry's place was taken.
* **Burst.** Every close that was written down becomes an entry, or falls under
  a rule of the code that says it does not; once, unless a process is killed
  between two writes; a burst is short and somebody will finalize it. Hard: the
  duty to finalize moves from hook to hook, hooks get the lock in another order
  than they read the clock, the burst is re-read after a sleep, two files are
  written one after the other, the rules of `infer_entries` overlap.
* **Recovery.** It must not lose or repeat what hooks and reopens are doing.
  Hard: it runs at the same time as they do.
* **Shadow.** When a hook asks for a closed pane, the current or the previous
  snapshot knows it. Hard: refreshes of several processes overlap, only one
  previous snapshot is kept, list calls fail.
* **Watch daemon.** At most one daemon goes on, and a dead one is replaced.
  Hard: check and spawn are not atomic, two threads share a channel.
* **Foreground samples.** What a pane is said to have run is what it ran. Hard:
  prompts start short-lived children, samples fail, records have a TTL that is
  judged by an unlocked read, refreshes overlap.
* **Restore.** Undisturbed, it brings the session back as it was. Disturbed,
  everything it creates is recorded before its close can be reported, nothing
  of the user's is destroyed, nothing is missing without a word, and the entry
  is given back only if nothing was made. Hard: it decides by lists read before
  its first call, herdr recycles ids, calls fail in the middle, answers get
  lost, positions in two trees and two lists of tabs have to agree.
* **Occupants.** Never two agents in a pane, nothing typed into an agent, Enter
  pressed on nothing the user forbade.

PROJECT.json lists these hazards one by one, each at its line.

## 2. Modules

| module | what it is |
|---|---|
| `Ordered` | listing a finite set by an increasing key: what `Vec::retain`, grouping and consecutive ids have in common |
| `Store` | `closed.json` as a value: `prune_entries`, `next_entry_id`, `push_captures`, `pop_at`, `push_back` |
| `Close` | the pure part of `close.rs`: which snapshot, which burst, which entries |
| `Capture` | the processes: close hooks, reopens, recoveries, the clock, crashes |
| `UndoLog` | what capture and undo promise, without files and locks: the abstract specification `Capture` implements |
| `Shadow` | the two snapshot files: refreshes in their calls and writes, merges, and herdr changing meanwhile; extends `Close`, whose `best_snapshot` and `freeze_for` read them |
| `WatchDaemon` | `watch.lock`: hooks that start daemons, daemons that take it, renew it and leave |
| `LayoutTree` | the split tree of a tab: leaves, the place of a pane, pairing by position, and what herdr does to it |
| `Restore` | one reopen from pop to push-back: what to call, the calls, their failures, the user meanwhile |
| `AgentStart` | one agent brought back in a restored pane: start, retries, watch, fresh start, prefill |
| `Occupant` | one pane from its samples to its restore; extends `AgentStart`, which takes over when the occupant is an agent |
| `MCCapture`, `MCShadow`, `MCWatch`, `MCAgent`, `MCRestore` | small instances |
| `CaptureProofs`, `ShadowProofs`, `RestoreProofs`, `WatchProofs`, `OccupantProofs` | theorems on the module of that name (`CaptureProofs`: that it implements `UndoLog` as well; `OccupantProofs`: on `AgentStart` as well) |
| `RoundTripProofs` | theorems on a reopen that nothing disturbs, in `Restore` |
| `SessionProofs` | lemmas on `LayoutTree` and on the sessions of `Restore`, for `RestoreProofs` and `RoundTripProofs` |
| `OrderedProofs` | lemmas on `Ordered`, for `CaptureProofs` and `SessionProofs` |

### How `Capture` corresponds to the code

State: `pending`, `closed`, `self_created`, `marker` are the four files; `lock`
is who holds `reopen.lock`; `pc`, `t0`, `buffer` and `popped` are what each
process has in memory; `now` is the wall clock. `captures`, `recorded`,
`finalized`, `dropped` and `made` are history variables that no guard reads.

Each process is a sequence of actions. A locked section that writes one file is
one action (nobody else can act inside it, and a crash before its write leaves
no trace). A locked section that writes several files has one action per write
and holds the lock between them, so a crash can separate the writes:

| code | actions |
|---|---|
| `cmd_event`, `on_close` up to the first lock | `StartHook` reads the clock, `CheckHook` reads `self_created.json` (unlocked, as in the code) |
| `on_close`, first locked section | `PushEvent` reads snapshots and burst, finalizes an expired burst into `closed.json`; `WritePending` writes `pending.json` and releases |
| sleep, second locked section | `FinalizeBurst` (owner: `closed.json`), `ClearPending` (owner: `pending.json`), `LeaveBurst` (not owner) |
| `cmd_reopen` | `Pop`, `FindNothing`, `Create`, `RecordCreated`, `PushBack` |
| `recover`, `recover_once` | `Startup`, `RecoverOnce`, `RecoverBurst`, `RecoverPending`, `ForgetCreated`, `PruneStack` |
| any process is killed | `Crash`: memory is gone, the kernel frees its lock |

The data is abstracted to what the properties distinguish. A workspace is its
id and a map from tab ids to sets of pane ids; labels, directories, layouts and
summaries are left out. An entry keeps its id, time, granularity, reason, the
panes it brings back, and `closes`, the hooks whose close it undoes (a history
field; the code has no such thing, the rules that fill it are those of
`infer_entries`). A hook's token is the hook itself: `make_token` makes it
unique from time, pid and a nonce.

Two things are deliberately looser than the code. The pair of snapshots a hook
reads is any pair out of `Snapshots` (what the pair can be is `Shadow`'s
subject). What a restore builds is one pane, created in one step and recorded in
the next (all it can build is `Restore`'s subject).

### How `Capture` implements `UndoLog`

`UndoLog` has closes that are noted, settled and perhaps turned into entries, and
entries that are offered, taken by one reopen, given back, or forgotten. The
refinement mapping at the end of `Capture` reads `noted` off the pending burst,
`settled` off the closes finalized or dropped, `offered` off `closed.json` and
`taken` off what reopens hold. `Settle` is the first write of a finalization
(`closed.json`), `Turn` the second (`pending.json`); that they are two steps of the
abstract log, too, is what makes the specification true of a process killed
between them: it may settle the same closes again, but it never forgets one that is
not settled, and an entry once forgotten never returns. `CapturedOncePerCrash` bounds
the repetitions.

### How `Shadow` corresponds to the code

`snapshot` and `prev` are the two files, in the shape `Close` reads: workspaces,
their tabs, the panes of each. `live` is what herdr has. `refresh` is one action
per step that another process can get in between: `StartRefresh` reads the clock,
`ListWorkspaces`, `ListTabs` and `ListPanes` are the three calls, each of which
may fail and then counts as an empty list (as `list` does), `ReadHint` is the
unlocked read, and under the lock come `GiveWay` (a newer snapshot won),
`KeepPrevious` (the write of `snapshot.prev.json`) and `Replace` (the write of
`snapshot.json`), with the lock held between the two writes and `Die` in between.
`seed_from_event` and `CloseHook` are hooks; what the latter reads from both files
is `Frozen`. Panes do not move between tabs, so `Home` says where each belongs.

`closes` holds the close events on their way, each with whether the shadow knew
its subject when it happened (`known`) and how many refreshes have replaced the
previous snapshot since (`losses`). A close that falls between the two writes of a
refresh starts with one loss.

### How `Restore` and `LayoutTree` correspond to the code

`herdr` is the session: workspaces, their tabs in order, the layout, focus and label of each.
`LayoutTree` writes a `LayoutNode` as the function from the paths of its nodes to the
nodes, so that `locate`, `map_pane_ids` and `strip_pane_ids` need no recursion. What a
request does to the session (`Applied`, `Moved`, `PaneSplit`, ...) is herdr's part,
modelled from how `restore.rs` uses the answers, and marked external.

`Pop` is `cmd_reopen` up to `restore::run`; `FetchWorkspaces`, `FetchTabs` and `FetchPanes` are
`Live::fetch`, each list of which may fail and then counts as empty. With the third
the code knows all it will ever know: `Plans` is what `run` decides from the entry and
the lists (`restore_workspace`, `restore_tab_granularity`, `restore_pane_granularity`,
`same_container`, `split_beside`), and `calls` the requests that follow. The workspaces of an
entry are decided one after the other, in the order of their indexes, from the same lists
(`RestoreWorkspace`, the loop of `run`). Each request is
one action, in the order of the code; `CreateWorkspace`, `ApplyLayout` and `SplitPane` are
answered, refused, or carried out with the answer lost; what comes after the answer
(`Follow`, `finish_tab`, `Arrange`) joins the queue. The moves, renames, swaps and focus
calls are those whose result the code ignores. `End` gives the entry back iff
`created_nothing`. `UserCloses`, `UserOpens` and `UserSplits` come between any two steps; `Kill`
ends the process anywhere. What the user opens gets new ids or any that are free again, those
of the closed containers as well as those herdr gave to the restore: `given` has every id that
herdr has given out so far (with its workspace, as herdr names a tab), and `theirs` those of
what the user opened since the reopen began. No guard of the code's actions reads either.
The entry is any that a close of whole workspaces, of a tab or of a pane leaves if the snapshot
knew all of what closed, and the one `close.rs` makes up for a pane that no snapshot knew
(`Hydrated`). `SessionAssumption` says
what a session is: workspaces and tabs with ids below `FirstNew` and finite layouts.
`ApartAssumption` adds that no id is open twice, `TreeAssumption` that a layout is a whole
tree (each split has two sides, as `LayoutNode` in `model.rs` has), and `LabelAssumption`
that herdr has an automatic label for every tab and one for the placeholder of a new workspace.

### How `Occupant` corresponds to the code

`front` is the pane's foreground processes, `shadow` what `snapshot.json` has of the
pane, `ref` the refreshes under way. `StartRefresh` reads the clock, `ListPane` is
`pane.list` and the unlocked `hint`, then comes the first pass (`SkipSample` within the
TTL, `SamplePane`, `MissSample` when the call fails or the budget is spent), the second
(`ConfirmSample`, `SkipConfirm`) and the locked write. `SeedPane` is a `pane.created` hook
that comes when it likes and replaces the record. `Close` freezes the record; that a
closed pane is still found in one of the two snapshot files is `Shadow`'s subject. Then
`restore_occupant` takes any configuration: an agent is handed to `AgentStart`, a
command is typed, and in mode `run` Enter is pressed if `rerun_allowed`. A pattern is the
set of commands its author meant and whether it compiles. `changed`, which no guard
reads, is when the foreground last changed; a failed sample and a late
`pane.created` count as changes, since what they leave behind is as old.

### How `WatchDaemon` corresponds to the code

`watch` is `watch.lock` with the age of its heartbeat in the place of
`updated_at`. Each pid has at most one daemon; its `pc` is where `watch` is,
`slept` is the ticker thread, `inbox` the channel (messages carry nothing and the
loop drains them, so one bit says whether there is any), `eof` the end of the
reader thread. `CheckDaemon` and `Spawn` are two actions because `ensure_running`
holds no lock between them. `strangers` are pids the system has given to other
programs. Time passes only when no daemon has something to do at once (`MayPass`).

### How `AgentStart` corresponds to the code

`Begin` is `restore_occupant` and the first half of `restore_agent`; the answers
to `agent.start` are one action each; `Sleep` and the three `Sample` actions are a
round of `verify_agent`. The report is its four counts. The pane belongs to
herdr: its shell settles, agents exit and late starts arrive whenever they like.
`spent` and `elapsed` count from the start of their loops, and `names` is what is
left of the alias ladder. `coming` are the starts whose agent may still come up: those
without an answer (`TransportTimeout`) and those on which herdr itself timed out
(`AnswerTimeout`). Of the latter `verify_agent` knows nothing, so `late`, which no action of
the code reads, remembers that the resume is one.

## 3. What the runs check

| run | instance | properties |
|---|---|---|
| `capture_undo` | 3 hooks, two of them the cascade `pane.closed` + `workspace.closed` of one workspace, the other closing the pane the first reopen built; two reopens, stack of capacity 1, entries that age, one crash; `FairSpec` | `TypeOK`, `OneReopenPerEntry`, `IdsNeverReused`, `NothingLost`, `PendingHasOwner`, `BurstSpan`, `RestoreArtefactsIgnored`, `BurstIsFinalized`, `EveryProcessEnds`, `UndoRefined` |
| `capture_crash` | 2 hooks of one workspace, two recoveries, snapshots complete or empty, one crash anywhere; `FairSpec` | `NothingLost`, `CapturedOncePerCrash`, `BurstIsKeptOrSettled`, `UndoRefined`, `EveryProcessEnds` |
| `shadow` | 2 refreshes, two tabs of one workspace, 2 gestures of any kind, one list call that fails, one death between the two writes | `TypeOK`, `ClosedIsRemembered`, `FreshIsExact` |
| `watch` | 2 pids, 2 hooks, 2 disturbances (death, failed or hung subscription, server restart); `FairSpec` | `TypeOK`, `OwnerStaysFresh`, `LockIsSpared`, `OneDaemonRemains`, `Rearmed` |
| `agent` | one pane, 2 refreshes over and over, two commands that come and go, an agent; every rerun mode and list of patterns, every answer and sample of an agent's start; `OccupantFairSpec` | `TypeOK`, `OneAgent`, `RejectedIsNoticed`, `BringsBackWhatRan`, `RunsOnlyAllowed`, `NeverTypesIntoAgent`, `RunningIsRemembered`, `RestoreEnds` |
| `restore` | two workspaces with three tabs and five panes, one tab split twice; an entry for each set of their workspaces, each tab and each pane; two disturbances, each a fault (a refused call, a lost answer, an unreadable list, an occupant that fails, a kill) or a change by the user | `TypeOK`, `RoundTrip`, `FocusComesBack`, `NothingSilentlyMissing`, `GivenBackIfNothingMade`, `OwnClosesAreRecorded`, `OnlyAdds` |
| `burst_order`, `burst_neighbours`, `recover_forgets`, `shadow_exited`, `watch_eof`, `restore_lost` | the smallest instances in which a document and the code disagree | see section 5 |

* `NothingLost`: a close whose hook wrote it to `pending.json` is at every
  moment still pending, or covered by an entry, or silenced by a rule of
  `infer_entries` (named in `Silenced`), or dropped by the staleness rule of
  `push_event`.
* `CapturedOncePerCrash`: one close gives one entry; each crash allows one
  repetition, because `closed.json` and `pending.json` are two writes.
* `BurstIsKeptOrSettled`: no write of `pending.json` removes an event that was
  not captured or dropped.
* `PendingHasOwner`: without crashes the last writer of the pending burst is
  alive and still has to look at it.
* `BurstSpan`: a burst spans at most `BURST_STALE_MS`, whatever the order of the
  hooks (this is what the monotonic `last_ms` is for).
* `BurstIsFinalized`, `EveryProcessEnds`: liveness, see section 4. The former says that
  unless a process is killed the burst is in the end empty for good.
* `UndoRefined`: every step on the files is a step of `UndoLog` or a stutter.
* `OneReopenPerEntry`, `IdsNeverReused`: what `cmd_reopen`'s and
  `next_entry_id`'s comments claim.
* `RestoreArtefactsIgnored`: as long as no recovery runs, the close of a pane that a
  restore *recorded* less than the TTL ago is ignored, whatever other restores
  recorded and pruned since. It says nothing of the moment between the
  creation of a pane and its recording.

* `ClosedIsRemembered`: what the shadow knew when it was closed, one of the two
  files still has when the hook reads them, unless two refreshes have dropped
  something in between (there is one previous snapshot, that is the design's
  limit), and for `pane.closed` the hook picks that file. It would fail if
  `refresh` decided by its first, unlocked read.
* `FreshIsExact`: once a refresh that began after herdr's last change is written,
  the snapshot is exact, whatever slower refreshes write later.
* `OwnerStaysFresh`, `LockIsSpared`, `OneDaemonRemains`, `Rearmed`: a working
  daemon never looks dead; nobody removes its lock; however many daemons were
  started at once, one remains; and a dead one is replaced, even when its pid lives
  on as another program.
* `OneAgent`, `NeverTypesIntoAgent`, `RejectedIsNoticed`, `RestoreEnds`: no second
  agent beside one that lives or may still come, no text typed into one, no rejected session
  reported as resumed, and an end whatever herdr does. The first and the third except a
  resume on which herdr itself timed out and whose agent comes late (`late`): the pane can
  then hold it and one fallback, never a third (section 5).
* `BringsBackWhatRan`: from the samples to the restore. If the last refresh before the
  close began at least a TTL after the last change of the pane's foreground (or failed
  sample of it), the restore types exactly what was running, starts an agent exactly if
  there was one, and types nothing for a pane at its prompt. So a stale command never
  sticks, however refreshes overlap and whatever they read before the lock; one
  failure is healed by the next refresh.
* `RunningIsRemembered`: a failed or skipped sample never makes the shadow forget a
  command that runs on. It is stated for a refresh that knows the record in force: one that
  read its hint before another refresh recorded the command, and whose own sample then
  fails, does overwrite the record.
* `RunsOnlyAllowed`: in particular, a deny pattern with a typing error forbids everything
  rather than nothing.
* `RoundTrip`: a close and its reopen with nothing in between give back the session but for
  the ids: directions, ratios and sides of every split, tabs in their places under their
  own names or herdr's numbers. Excepted (`HasPlace`) is a single pane whose sibling was a
  split itself: `pane.split` cannot put it back.
* `FocusComesBack`: so do the focus of each tab and the active tab, under new ids.
* `NothingSilentlyMissing`: whatever fails and whatever the user does meanwhile, a reopen
  without a reported failure has brought back every pane, or, of an entry for whole tabs,
  has taken the pane's tab for still open because a tab of that id *and* with its label or a
  directory of it was listed.
* `GivenBackIfNothingMade`: the entry is given back iff nothing was recorded as made. What
  herdr made for a request whose answer was lost is not on record; `restore_lost` shows it.
* `OwnClosesAreRecorded`: the placeholder tab that `layout.apply` destroys is on record
  before its close can be reported, but for what the user opened under its id or split off in
  it meanwhile.
* `OnlyAdds`: no request of a reopen removes a tab or a pane, except that `layout.apply`
  replaces the one tab whose id `workspace.create` answered. Whose tab that is by then it does
  not say: it may be the user's (section 5).
* `Rearmed` counts a daemon that outlived its subscription as one at work; `watch_eof` is
  about those. `Silenced` in `NothingLost` excuses a close beside any finalized `tab.closed` of
  its workspace, where the code asks for one in the same burst.

Each property has a mutant in PROJECT.json: a change of one definition such as
a bug in that code would be, under which the same run finds the property
violated.

### Bounds

`MaxTime` bounds when hooks start; past it the clock only runs to wake
sleepers. The window and the staleness bound are 1 tick each and the clock has
three ticks or more, so a hook can find a burst fresh, expired or stale, and a
burst can outlive its owner. `BURST_STALE_MS` is 20 windows in the code; with both
at 1 a hook whose event comes within a window of the last but more than the
staleness bound after the first is reached with three hooks. A stack of capacity 1
or 2 is full after the first entries. Two hooks suffice for a changed owner, three for
an owner changed twice and for a workspace whose two events surround a stranger's.
`MaxCrashes` is 1: with it each pair of writes can be separated. Two recoveries
can follow one another. The proofs below have none of these bounds, except that
`MaxCrashes` and `MaxTime` are arbitrary numbers.

`Shadow`: `MaxNow` is 2 and `StaleAfter` 1, so a refresh can be refused as too
early, and two refreshes can carry the same or different times. `MaxChanges` is 2:
an open and a close, or two closes, around two refreshes of which either can be
the older one. `MaxFailures` and `MaxDeaths` are 1. A death
outside the two writes is a refresh that takes no further step.

`Restore`: the session has what the code distinguishes: a tab with a split in a split
(three panes, so that the order of leaves and the depth of the sibling matter), a tab
under herdr's own number, a workspace named like its directory, and a second workspace to
group with. Every entry is a choice of the initial state. `MaxDisturbances` is 2: each kind of
fault meets every request, with a second fault or a gesture of the user before or after it, and
the user can close what is there between any two requests and open something under the id that
became free. Two gestures and a fault in one reopen are not checked.
`RoundTrip` and `FocusComesBack` speak of undisturbed reopens.

`Occupant`: two refreshes that start again and again, `MaxPids` 2 so that a command is
succeeded by another or by itself under a new pid, `MaxNow` and `TTL` 2 so that a record
can be young, old, and from the future of a slower refresh. One pane: what the other panes
of a refresh do to it is to spend the budget or the `CONFIRM_MAX_PANES`, and that is a
choice at every sample.

| run | distinct states | time (2 workers) |
|---|---|---|
| `capture_undo` | 204,000 | 41 s |
| `capture_crash` | 288,000 | 45 s |
| `shadow` | 2,600,000 | 73 s |
| `restore` | 1,899,000 | 80 s |
| `agent` | 1,116,000 | 43 s |

`WatchDaemon`: `MaxDisturbances` is 2, so a daemon can die while its successor is
hung. Ticks are coarse (ticker and debounce 1, work at most 2, stale at 4), in the
order of the code's 15 s, 150 ms and 30 s. At least one pid is free of strangers,
or no daemon could start. `AgentStart`: a unit is 400 ms; `SettleBudget` is 3 rounds
instead of 24, `Ladder` is the code's 4.

### Assumptions

* `HeartbeatAssumption`: a ticker period and the longest debounce and refresh are
  less than `HEARTBEAT_STALE_MS` (15 s and the work less than 30 s). `refresh` has a
  budget of 5 s, but looks at it only between calls, and its first three calls may
  take 5 s each: a herdr that answers none of the list calls in time breaks the
  assumption.
* `AgentAssumption`: `settle_ms` and two more rounds fit into `budget_ms` (1.6 s and
  2 (0.4 s and a call) in 4 s: a `process_info` call takes at most 0.8 s); an agent
  that rejects its session exits before `settle_ms`, as the comment on `Verify`
  says; fewer samples in a row overlook a live agent than `exit_streak`
  (`MaxMissed`).
* When herdr answers `timeout` to `agent.start`, or does not answer in time, the agent is
  in the pane, never comes, or comes whenever it likes; any other error, also a connection
  that breaks, means that nothing was started.
* herdr gives the restore new ids only; it gives ids again only to what the user opens.
  When the user splits a pane, `UserSplits` takes one direction and ratio.

### Deadlock

Processes end; a state in which all have ended and the clock is at its bound has
no successor, so the cfgs of `Capture`, `Shadow`, `Occupant` and `Restore` switch the deadlock check off.
That nobody waits for ever is `EveryProcessEnds` and `RestoreEnds`. The runs of
`WatchDaemon` check for deadlock.

## 4. Fairness

`Fairness` has weak fairness of the clock and of the steps of a *started*
process: the operating system goes on scheduling it, socket calls return
(`rpc.rs` has timeouts) and sleeps end. `StartHook`, `Pop`, `FindNothing`, `Startup`
and `RecoverOnce` have none: nothing makes a user or herdr start a process. Weak
fairness of an action that waits for the lock is enough here because each
process takes the lock a bounded number of times, so it is free from some moment
on; `flock` is not assumed to be first come, first served.

`WatchDaemon!FairSpec`: the steps of a daemon are taken, time goes on, and hooks
come again and again (herdr sends `pane.focused` and `pane.agent_status_changed` all
the time, and each runs `ensure_running`). A hung subscription is answered in the
end: `subscribe` has no time-out, so without that assumption a daemon that took the
lock could hang for ever. Messages of the reader thread have no fairness: the
ticker alone must suffice. `Occupant!OccupantFairSpec`: the restoring process runs (its
calls have time-outs), and an agent that rejects its session exits; a shell need
never settle.

## 5. Where documents and code disagree

* `burst_order`. `finalize_locked` inserts the entries of a burst in reverse, so
  of two closes in one burst the *first* is the head. `main.rs` says of
  `reopen-last` that it restores "the newest entry on the undo stack".
* `burst_neighbours`. Within one workspace, a `tab.closed` silences every pane close of
  the burst, also of panes in other tabs. `docs/HOW_IT_WORKS.md` says that two unrelated
  closes 100 ms apart stay two entries.
* `recover_forgets`. `recover` empties `self_created.json` whatever the age of
  its ids. A `startup` that runs within 5 s of a restore makes the restore's own artefacts
  look like closes of the user; `docs/HOW_IT_WORKS.md` says they are never captured.
* `shadow_exited`. `pane.exited` carries pane and tab, and `best_snapshot` takes the
  first snapshot that knows *either*. When a refresh has dropped the pane but not
  its tab, that is the newer one, although `snapshot.prev.json` still has the pane.
  The comment says it picks the snapshot that still remembers what the event names.
  With `capture_exited` the exit still becomes an entry, made up from the event; the pane's
  place, its directory and what ran in it, which the previous snapshot knows, are not in it.
* `watch_eof`. The comments say the daemon ends when its subscription does. The
  ticker thread holds a sender of the same channel, so `recv` never fails, and the
  daemon goes on without events, renewing its lock; since it looks healthy, no hook
  replaces it.
* `restore_lost`. A `workspace.create`, `layout.apply` or `pane.split` whose answer does not
  come in time counts as failed: the report stays empty and the entry goes back on
  the stack, although herdr made the workspace; the next reopen makes another. The
  comment on transport time-outs in `rpc.rs` says that a caller must not assume the
  request failed; only `start_agent` asks.

Two more cases no run singles out, because a property names them as its exception. TLC finds
the first when the exception is taken out of `OneAgent`, the second when `OnlyAdds` without
its exception is asked of the tabs in `theirs`:

* `OneAgent` except `late`. When herdr itself times out on `agent.start`, the code notes that
  "the agent may still be starting" (`restore.rs`) and watches the pane at once; two samples
  of the bare shell make it start a second agent, and then the first may come up beside it.
  `docs/HOW_IT_WORKS.md` says that two such samples mean that the agent is gone.
* `OnlyAdds` except the tab that `layout.apply` replaces. Its id is the one `workspace.create`
  answered; nobody asks what has that id by now. When the user has closed the new workspace
  and herdr has given its ids to another of his, his tab is destroyed, and since the id is on
  record as the restore's own the close hooks ignore it. `same_container` guards what is found
  in the lists against recycled ids, but not this id.

## 6. Theorems

All theorems hold for every value of the constants that satisfies the named assumptions of
the modules: any number of processes, hooks, refreshes, daemons and pids, any session, any
configuration, any bound. The assumptions say no more than that the kinds of processes are
disjoint, that ids are ids and `None` is none, that numbers are natural (`StackCap` at least
1), what a session and a snapshot look like (for a session: ids below `FirstNew`, none open
twice, layouts that are whole trees), that herdr's automatic labels do not run out, and the
relations between times listed above.

### Capture and undo

| theorem | statement |
|---|---|
| `CaptureProofs!TypeCorrect` | `Spec => []TypeOK` |
| `CaptureProofs!IdsAreNeverReused` | `Spec => []IdsNeverReused` |
| `CaptureProofs!ReopensAreExclusive` | `Spec => []OneReopenPerEntry` |
| `CaptureProofs!PendingIsOwned` | `Spec => []PendingHasOwner` |
| `CaptureProofs!BurstsAreShort` | `Spec => []BurstSpan` |
| `CaptureProofs!BurstsAreKeptOrSettled` | `Spec => BurstIsKeptOrSettled` |
| `CaptureProofs!ArtefactsAreIgnored` | `Spec /\ [][Spared]_vars => RestoreArtefactsIgnored` |
| `CaptureProofs!CaptureImplementsUndo` | `Spec => UndoRefined` |
| `CaptureProofs!NoCloseIsLost` | `Spec => []NothingLost` |
| `CaptureProofs!OneEntryPerClose` | `Spec /\ []TabsApart(pending) => []CapturedOncePerCrash` |
| `CaptureProofs!OneEntryPerCloseOfUniqueTabs` | `UniqueTabs` implies `Spec => []CapturedOncePerCrash` |

None of the first six is inductive alone. The inductive invariant `IInv` is the
conjunction of

* `TypeOK`;
* `StackInv`: `next_id` is above every id ever captured, and everything on the
  stack or in a reopen's hands was captured. Without the first part `next_entry_id` could
  not be shown to give a fresh id after a prune; without the second a push-back
  could bring in an unknown id;
* `Apart`: ids on the stack are distinct, and distinct from those reopens hold;
* `Held`: a reopen that is under way holds an entry;
* `BurstInv`: bursts in the file *and in the memory of a hook between its two writes*
  are short, and such a hook's burst names the hook as its last writer;
* `LockInv`: a process between two writes holds the lock, and what its second
  write takes out of `pending.json` is already captured or dropped.

The others add to it:

* `ArtefactsAreIgnored` needs `OwnOnFile`: what a restore recorded is on file until it is
  `SelfTTL` old. Its hypothesis `Spared` is that no step is `ForgetCreated`, the sweep of a
  recovery; with it the code does forget, and the run `recover_forgets` shows the consequence.
* The step simulation of `CaptureImplementsUndo` needs `Adds` (the burst a hook is about to
  write adds no close but its own, so that `Turn` is allowed) and `Unheld` (an idle reopen
  holds nothing, so that `Take` only adds what it pops). `SettleRefines`, `TurnRefines`,
  `PopRefines`, `PushBackRefines` and `PruneRefines` map the actions of `Capture` one by one,
  the last also covering that a push-back may truncate.
* `NoCloseIsLost` rests on `FateInv`. Its core is `Faithful`: what a burst has frozen is
  what `freeze_for` froze for its events, so that an event that `infer_entries` does not turn
  into an entry is covered by one of the same burst or named by a rule in `Silenced`
  (`pane.exited` without a pane or not wanted, a tab no snapshot may know, a close beside a
  `tab.closed` of its workspace).
* `OneEntryPerClose` rests on `OnceInv`, which counts the entries of each close: outside the
  sections with two writes, one that is pending was captured at most once for each kill, and
  one that is not written yet not at all. Its hypothesis is that two tabs whose closes share a
  burst and a workspace have no pane in common; without it one pane would be in both entries.
  herdr could break it only by giving the id of a closed tab to another within one burst, as
  it recycles ids; `UniqueTabs` is the stronger statement that it never does, and that
  snapshots name a pane in one place.

That `infer_entries` gives one entry per capturing event with consecutive ids is `Inferred` in
`CaptureProofs`, which rests on `CaptureOrder` being one-to-one. What prune, insertion, removal
and truncation do to the members of a stack is proved there, too; the lemmas on `Keep`,
which models `Vec::retain`, are in `OrderedProofs`.

### Shadow

| theorem | statement |
|---|---|
| `ShadowProofs!ShadowTypeCorrect` | `Spec => []TypeOK` |
| `ShadowProofs!FreshSnapshotsAreExact` | `Spec => []FreshIsExact` |
| `ShadowProofs!ClosedPanesAreRemembered` | `Spec => []ClosedIsRemembered` |

`ShadowInv` is inductive. Beside types it says that between the two writes of a refresh both
files hold what the second is about to drop and that every close on its way has counted
that loss (`LockInv`); that what was known is in the snapshot, or after one loss in one of the two files
(`CloseInv`); and that what a refresh has listed so far is what herdr has, if herdr has
not changed since it read the clock and no call failed (`Accurate`). `FreshInv` carries the
last over to the file: `newest` is the time in `snapshot.json`, so a slower refresh gives way.

### Agents and commands

| theorem | statement |
|---|---|
| `OccupantProofs!StartTypeCorrect` | `Spec => []TypeOK` |
| `OccupantProofs!AgentsAreAlone` | `Spec => []OneAgent` |
| `OccupantProofs!PrefillIsSafe` | `Spec => NeverTypesIntoAgent` |
| `OccupantProofs!RejectedAgentsAreNoticed` | `Spec => []RejectedIsNoticed` |
| `OccupantProofs!OnlyAllowedRuns` | `OccupantSpec => []RunsOnlyAllowed` |
| `OccupantProofs!WhatRanComesBack` | `OccupantSpec => []BringsBackWhatRan` |
| `OccupantProofs!RunningIsKept` | `OccupantSpec => RunningIsRemembered` |
| `OccupantProofs!RestoredTypeCorrect`, `RestoredAgentsAreAlone`, `RestoredPrefillIsSafe`, `RestoredRejectedAreNoticed` | the first four for the start that a restore makes (`OccupantSpec`) |

* `Occupied`: as long as no resume has come late the pane is `Alone` (empty until a start is
  answered, and a streak over a live agent is no longer than the samples that overlooked it);
  after that it is `Belated` (nothing but that resume until the one restart is answered, and
  then no further start or prefill). With `Counters` and `Tallied` (each loop
  within its budget, each result counted once) it is `Typed`.
* `Overdue` bounds the time of `verify_agent` by the streak: an agent that rejects its
  session is gone by `settle_ms`, and each round since adds one, so the streak is full before
  the budget is spent. This is where `AgentAssumption` is needed.
* `OpenInv` says of every record, in the shadow, in a hint and in the hands of a refresh, that
  it is the pane's oldest candidate as long as its process runs, and that one whose
  sample is younger than the last change does run (`Recorded`); and that a refresh that began
  a TTL after the last change, and the shadow it writes, have the truth (`Exact`). A step
  that changes the foreground is `Loud`: it makes every record old, and what it starts has a
  new pid; all others are `Quiet`. `KeptInv` and `RestoredInv` carry the record to the restore.
* `Entered`: nothing has been entered before the reopen; `AllowedIsMeant` says that one
  pattern that does not compile refuses everything.

### Watch daemon

| theorem | statement |
|---|---|
| `WatchProofs!WatchTypeCorrect` | `Spec => []TypeOK` |
| `WatchProofs!OwnersStayFresh` | `Spec => []OwnerStaysFresh` |
| `WatchProofs!LocksAreSpared` | `Spec => LockIsSpared` |

The inductive invariant is `TypeOK` and `Timely`: the age of an owner's lock is bounded by how
long its ticker has slept and how long it has worked.

### Restore

| theorem | statement |
|---|---|
| `RestoreProofs!GivenBackIsExact` | `Spec => []GivenBackIfNothingMade` |
| `RestoreProofs!OwnClosesOnRecord` | `Spec => []OwnClosesAreRecorded` |
| `RestoreProofs!RestoreTypeCorrect` | `Spec => []TypeOK` |
| `RestoreProofs!ReopenOnlyAdds` | `Spec => OnlyAdds` |
| `RestoreProofs!NothingIsSilentlyMissing` | `Spec => []NothingSilentlyMissing` |
| `RoundTripProofs!ReopenStory` | `Spec => []Story` |
| `RoundTripProofs!ReopenRoundTrip` | `Spec => []RoundTrip` |
| `RoundTripProofs!FocusIsBack` | `Spec => []FocusComesBack` |

`ReopenInv` is inductive. Its parts:

* `HerdrInv`: every id given so far is below `next`, those on record are not below `FirstNew`,
  and what is open is `Sound` (no id occurs twice, every tab is a split tree of distinct panes with the focus on one of them,
  and the active tab is in its workspace). `SessionProofs` shows of each request of
  `Restore` what it does to a session: it is `Sound` afterwards, its tabs are parts of earlier
  ones or new (`Within`, `LeftOf`), and the tabs a restore did not make keep their panes
  (`Stays`). Underneath are lemmas on the split trees of `LayoutTree`: what filling,
  splitting, swapping and closing do to the leaves, and that leaves are listed in order.
* `CallsInv`: each pending call is one decided from the entry and the lists, or one that
  follows an answer; the tab a `layout.apply` is to replace has an id that is on record, and
  a pane is split only by the last call of a reopen that has made nothing yet.
* `KnownPanes`: whoever has now the id of a tab on record, its panes are on record or the
  user's, so what `layout.apply` destroys is one or the other.
* `ReportInv`: the report is empty iff nothing is on record.

`NothingIsSilentlyMissing` adds `PromiseInv`. As long as no failure is reported each
remembered pane is back, or its tab is `TakenForOpen`, or one of the pending calls
`Promises` it (`OnItsWay`): the rest of a group, a `workspace.create` or `layout.apply` with
the pane in its tab, a `pane.split`, a `restore_occupant` that pairs it with a new pane.
`PlansPromise` shows that a plan promises the whole entry, and one lemma per action that a call
answered hands its promises on to the calls that follow it (`PanesMatched`:
pairing by position pairs every leaf), while one refused or lost is reported. `Remembered`
says that each pane of the entry has its leaf in the remembered layout.

`RoundTrip` and `FocusComesBack` speak of the last state of a reopen that nothing disturbed:
no call failed and the user changed nothing (`Calm`). They say nothing of the states on the
way, so `ReopenStory` does. `Story` says, as long as all is `Calm`, what is open and exactly
which calls are left, by what closed:

* `TabTold`: the tab is missing and its `layout.apply` is next (`AddingTab`); it is the last
  tab of its workspace, with its splits, its directories and, but for the automatic ones, its
  label (`TabAdded`); it is in its place and its panes are being filled (`FillingTab`); it is
  back and active (`TabThere`).
* `PaneTold`: the pane is missing and a split beside its sibling is next (`Splitting`); it is in
  its tab and perhaps on the wrong side (`Swapping`); it is in its place (`OccupyingPane`,
  `FocusingPane`, `PaneThere`). `Looks` is what a swap still to come would make of the tree.
* `WorkspacesTold`: the first `m` of the closed workspaces are back behind those that stayed
  (`SomeBack`), and the next is asked for (`Creating`), has `j` of its tabs rebuilt, the last
  with its `Chores` ahead (`Building`), or is having its tabs moved to their places (`Placing`).
* `HydratedStory`: an entry that `close.rs` made up; of its panes no place and no focus is
  promised.

`Listed` ties what the reopen has listed to what is open: only because the lists are
taken before the first request, and nothing else is open then, does the plan miss none of it.
`Story` is inductive together with `ReopenInv` and `ModeInv`, the types of `pc`, `faults`
and `changes`. Since `Calm` never comes back once lost (`CalmBackwards`), each step starts
from a state of the story. The lemmas at the end of `SessionProofs` are what it comes down
to: `layout.apply` of a stripped tree gives the tree with fresh ids (`StripFilled`); a tab
moved from the end of the list to its index lands between its neighbours (`MovedIs`); and a
split with `split_beside`'s direction and ratio beside the sibling of the closed pane,
followed by the swap if the pane was the first of the two, gives the tree of before
(`SplitCall`, `PutBack`), if that sibling is a single pane (`IsBesideOne`). No induction
over the session is needed, because the number of workspaces and tabs that are back is a
parameter of `Story`, and each step adds one. `StoryRoundTrip` and `StoryFocus` show that
with no call left `Story` gives the two properties.

### Only model-checked

Liveness (`EveryProcessEnds`, `BurstIsFinalized`, `OneDaemonRemains`, `Rearmed`, `RestoreEnds`):
liveness under fairness and `ENABLED` are out of the prover's reach. Every safety property and
every action property that a passing run checks is stated by a theorem.

## 7. What is not modelled

* Failed writes, corrupt files, and the degraded mode in which the lock cannot be
  opened and sections run unlocked. `write_atomic`'s rename is taken as atomic.

* The refresh and `ensure_running` at the end of `on_close` and `cmd_reopen`: they touch
  only the shadow and the daemon, and `Shadow` and `WatchDaemon` let them happen at
  any time.
* In `Shadow`: layouts, the order of tabs, panes that move between tabs, ids used again.
  In `Occupant`: ids of panes used again within a TTL (a new pane would inherit the record).
* In `Restore`: `pane.rename`, `workspace.focus`, environments and commands of leaves, the
  wording of notes and failures, the protocol check and the notification at the end. Several
  reopens at once are `Capture`'s subject.
* The alias ladder's names and the command lines of agents: `AgentStart` counts names.
* A clock that jumps backwards. Different orders of clock readings and lock
  acquisitions are modelled, which is where the code's saturating differences
  matter.
* The parts marked "not_modelled" in PROJECT.json, with the reasons there.

## 8. Plan

1. (done) `Ordered`, `Store`, `Close`, `Capture`, their runs and theorems.
2. (done) `Shadow` composed with `Close!best_snapshot`; `WatchDaemon`; `AgentStart`;
   theorems on the last two.
3. (done) `LayoutTree` and `Restore`: the calls that rebuild a workspace, tab or pane.
4. (done) `UndoLog`, which `Capture` implements, checked and proved.
5. (done) `Occupant`: foreground samples, their TTL and confirmation, and the rerun modes.
6. (done) `ShadowProofs`, `SessionProofs`, and the theorems on what becomes of every close,
   on `Restore`, `Occupant` and the start of an agent.
7. (done) `RoundTripProofs`: an undisturbed reopen brings the session and the focus back.
