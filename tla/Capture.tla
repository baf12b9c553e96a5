------------------------------- MODULE Capture -------------------------------
(***************************************************************************)
(* Capture and undo.  Every hook and every command of the plugin is its    *)
(* own process; they share the files of one state directory under one      *)
(* advisory lock.  A close hook adds its event to the pending burst,       *)
(* sleeps for the coalescing window and, if no other hook wrote since,     *)
(* turns the burst into undo entries.  `reopen` pops an entry and restores *)
(* it.  Recovery finalizes what a crashed hook left behind.                *)
(*                                                                         *)
(* A locked section that writes two files is two actions, so that a crash  *)
(* can fall between the writes.  The kernel frees the lock of a process    *)
(* that dies.                                                              *)
(***************************************************************************)
EXTENDS Close

CONSTANTS
  Hooks,         \* close-hook processes, one per close event
  Reopens,       \* `reopen-last` / `reopen --id` processes
  Recoverers,    \* `startup` and non-close event hooks
  Ids,           \* ids of panes, tabs and workspaces
  Gesture,       \* what each hook reports: [name, pane, tab, workspace]
  Snapshots,     \* contents the two snapshot files can have
  Rebuilt,       \* the id of the pane each reopen creates
  SelfTTL,       \* SELF_CREATED_TTL_MS
  MaxTime,       \* bound: the clock while nobody sleeps
  MaxCrashes     \* bound: processes killed

Processes == Hooks \cup Reopens \cup Recoverers

ASSUME ProcessAssumption ==
  /\ Hooks \cap Reopens = {} /\ Hooks \cap Recoverers = {}
  /\ Reopens \cap Recoverers = {}
  /\ None \notin Processes
ASSUME GestureAssumption ==
  /\ None \notin Ids
  /\ \A h \in Hooks :
       Gesture[h] \in [name : CLOSE_EVENTS, pane : Ids \cup {None},
                      tab : Ids \cup {None}, workspace : Ids \cup {None}]
  /\ \A r \in Reopens : Rebuilt[r] \in Ids
ASSUME SnapshotsAssumption ==
  \A s \in Snapshots : \A w \in s :
    w.workspace_id \in Ids /\ DOMAIN w.tabs \subseteq Ids /\ PanesOf(w) \subseteq Ids
ASSUME SelfTTLAssumption == SelfTTL \in Nat
ASSUME BoundAssumption == MaxTime \in Nat /\ MaxCrashes \in Nat

VARIABLES
  now,           \* the wall clock
  marker,        \* recovered.marker names the running server's boot_id
  pending,       \* pending.json: a burst or NoBurst
  closed,        \* closed.json
  self_created,  \* self_created.json: set of [id, created_at_ms]
  lock,          \* holder of reopen.lock, or None
  pc,            \* where each process is
  t0,            \* the clock reading each process works with
  buffer,        \* the burst a locked section is about to write to pending.json
  popped,        \* the entry a reopen took
  captures,      \* history: entries written to closed.json by a finalization
  recorded,      \* history: hooks whose event reached pending.json
  finalized,     \* history: hooks whose event was in a finalized burst
  dropped,       \* history: hooks whose event was in a burst dropped as stale
  made,          \* history: when each reopen recorded its pane as self-created
  crashes        \* processes killed so far

files == <<pending, closed, self_created, marker>>
history == <<captures, recorded, finalized, dropped, made>>
vars == <<now, files, lock, pc, t0, buffer, popped, history, crashes>>

NoEntry == [none |-> TRUE]

(***************************************************************************)
(* Helpers.                                                                *)
(***************************************************************************)
Goto(p, to) == pc' = [pc EXCEPT ![p] = to]

\* The process ends; its clock reading is forgotten.
Finish(p) == Goto(p, "done") /\ t0' = [t0 EXCEPT ![p] = 0]

Acquire(p) == lock = None /\ lock' = p
Release(p) == lock = p /\ lock' = None
Unlocked == lock = None /\ UNCHANGED lock

EventOf(h) ==
  [hook |-> h, t0 |-> t0[h], name |-> Gesture[h].name, pane |-> Gesture[h].pane,
   tab |-> Gesture[h].tab, workspace |-> Gesture[h].workspace]

event_ids(g) ==
  ({g.pane, g.tab} \cup (IF g.name = "workspace.closed" THEN {g.workspace} ELSE {}))
    \ {None}

is_self_created(id, at) ==
  \E e \in self_created : e.id = id /\ Elapsed(at, e.created_at_ms) < SelfTTL

record_self_created_alone(id) == {[id |-> id, created_at_ms |-> now]}

record_self_created(id) ==
  {e \in self_created : Elapsed(now, e.created_at_ms) < SelfTTL}
    \cup {[id |-> id, created_at_ms |-> now]}

\* A rebuilt pane can only be closed once it exists.
Possible(h) ==
  \A r \in Reopens : Gesture[h].pane = Rebuilt[r] =>
                       pc[r] \in {"created", "done"} /\ popped[r] # NoEntry

Finalize(b) ==
  \E new \in {captured(closed, b, now)} :
    /\ closed' = finalize_locked(closed, new, now)
    /\ captures' = captures \cup {new[k] : k \in DOMAIN new}
    /\ finalized' = finalized \cup HooksOf(b)

(***************************************************************************)
(* The close hook, close.rs on_close.                                      *)
(***************************************************************************)
StartHook(h) ==
  /\ pc[h] = "idle" /\ Possible(h) /\ now < MaxTime
  /\ t0' = [t0 EXCEPT ![h] = now]
  /\ Goto(h, "check")
  /\ UNCHANGED <<now, files, lock, buffer, popped, history, crashes>>

\* A popup, or an id a restore created a moment ago: nothing to capture.
CheckHook(h) ==
  /\ pc[h] = "check"
  /\ IF \/ Gesture[h].name = "pane.closed" /\ Gesture[h].pane = None
        \/ \E id \in event_ids(Gesture[h]) : is_self_created(id, t0[h])
     THEN Finish(h)
     ELSE Goto(h, "push") /\ UNCHANGED t0
  /\ UNCHANGED <<now, files, lock, buffer, popped, history, crashes>>

FinalizeExpired_forgets(h) == UNCHANGED <<closed, captures, finalized>>

\* A burst whose window is over when the event arrives is finalized first.
FinalizeExpired(h) ==
  IF Expired(pending, t0[h])
  THEN Finalize(pending)
  ELSE UNCHANGED <<closed, captures, finalized>>

PushEvent(h) ==
  /\ pc[h] = "push" /\ Acquire(h)
  /\ \E snap, prev \in Snapshots :
       LET ev == EventOf(h)
       IN  buffer' = [buffer EXCEPT ![h] =
             push_event(pending, ev, h, freeze_for(best_snapshot(snap, prev, ev), ev))]
  /\ FinalizeExpired(h)
  /\ dropped' = dropped \cup (IF Stale(pending, t0[h]) THEN HooksOf(pending) ELSE {})
  /\ Goto(h, "pushed")
  /\ UNCHANGED <<now, marker, pending, self_created, t0, popped, recorded, made, crashes>>

\* The sleep starts here; t0 now holds the time from which the window counts.
WritePending(h) ==
  /\ pc[h] = "pushed" /\ Release(h)
  /\ pending' = buffer[h]
  /\ buffer' = [buffer EXCEPT ![h] = NoBurst]
  /\ recorded' = recorded \cup {h}
  /\ t0' = [t0 EXCEPT ![h] = now]
  /\ Goto(h, "sleep")
  /\ UNCHANGED <<now, closed, self_created, marker, popped,
                 captures, finalized, dropped, made, crashes>>

\* The window is over and this hook was the last to write: it finalizes.
FinalizeBurst(h) ==
  /\ pc[h] = "sleep" /\ now >= t0[h] + BurstWindow
  /\ owns_finalization(pending, h)
  /\ Acquire(h)
  /\ Finalize(pending)
  /\ Goto(h, "finalized")
  /\ UNCHANGED <<now, pending, self_created, marker, t0, buffer, popped,
                 recorded, dropped, made, crashes>>

ClearPending_keeps(h) ==
  /\ pc[h] = "finalized" /\ Release(h)
  /\ Finish(h)
  /\ UNCHANGED <<now, files, buffer, popped, history, crashes>>

ClearPending(h) ==
  /\ pc[h] = "finalized" /\ Release(h)
  /\ pending' = NoBurst
  /\ Finish(h)
  /\ UNCHANGED <<now, closed, self_created, marker, buffer, popped, history, crashes>>

LeaveBurst_unasked(h) ==
  /\ pc[h] = "sleep" /\ now >= t0[h] + BurstWindow
  /\ Unlocked
  /\ Finish(h)
  /\ UNCHANGED <<now, files, buffer, popped, history, crashes>>

\* Some other hook wrote since: that one finalizes.
LeaveBurst(h) ==
  /\ pc[h] = "sleep" /\ now >= t0[h] + BurstWindow
  /\ ~owns_finalization(pending, h)
  /\ Unlocked
  /\ Finish(h)
  /\ UNCHANGED <<now, files, buffer, popped, history, crashes>>

(***************************************************************************)
(* The reopen command, main.rs cmd_reopen.                                 *)
(***************************************************************************)
\* The head for `reopen-last`, any entry for `reopen --id`.
Pop(r) ==
  /\ pc[r] = "idle" /\ Unlocked
  /\ LET stack == prune_entries(closed, now)
     IN  \E i \in DOMAIN stack.entries :
           /\ popped' = [popped EXCEPT ![r] = stack.entries[i]]
           /\ closed' = pop_at(stack, i)
  /\ Goto(r, "restoring")
  /\ UNCHANGED <<now, pending, self_created, marker, t0, buffer, history, crashes>>

\* No entry, or none with the id asked for.
FindNothing(r) ==
  /\ pc[r] = "idle" /\ Unlocked
  /\ Goto(r, "done")
  /\ UNCHANGED <<now, files, t0, buffer, popped, history, crashes>>

\* The socket call that builds the pane has returned.
Create(r) ==
  /\ pc[r] = "restoring"
  /\ Goto(r, "created")
  /\ UNCHANGED <<now, files, lock, t0, buffer, popped, history, crashes>>

RecordCreated(r) ==
  /\ pc[r] = "created" /\ Unlocked
  /\ self_created' = record_self_created(Rebuilt[r])
  /\ made' = [made EXCEPT ![r] = now]
  /\ Goto(r, "done")
  /\ UNCHANGED <<now, pending, closed, marker, t0, buffer, popped,
                 captures, recorded, finalized, dropped, crashes>>

\* The restore failed and created nothing: the entry goes back on the stack.
PushBack(r) ==
  /\ pc[r] = "restoring" /\ Unlocked
  /\ closed' = push_back(closed, popped[r])
  /\ popped' = [popped EXCEPT ![r] = NoEntry]
  /\ Goto(r, "done")
  /\ UNCHANGED <<now, pending, self_created, marker, t0, buffer, history, crashes>>

(***************************************************************************)
(* Recovery, daemon.rs recover and recover_once.                           *)
(***************************************************************************)
Startup(c) ==
  /\ pc[c] = "idle"
  /\ Goto(c, "recover")
  /\ UNCHANGED <<now, files, lock, t0, buffer, popped, history, crashes>>

RecoverOnce(c) ==
  /\ pc[c] = "idle"
  /\ IF marker THEN Goto(c, "done") ELSE Goto(c, "recover")
  /\ marker' = TRUE
  /\ UNCHANGED <<now, pending, closed, self_created, lock, t0, buffer, popped,
                 history, crashes>>

Abandoned(b, at) == b # NoBurst /\ Elapsed(at, b.first_ms) > BurstStale

RecoverBurst_drops(c) ==
  /\ pc[c] = "recover" /\ Acquire(c)
  /\ t0' = [t0 EXCEPT ![c] = now]
  /\ Goto(c, IF Abandoned(pending, now) THEN "unburst" ELSE "sweep")
  /\ UNCHANGED <<now, files, buffer, popped, history, crashes>>

RecoverBurst(c) ==
  /\ pc[c] = "recover" /\ Acquire(c)
  /\ t0' = [t0 EXCEPT ![c] = now]
  /\ IF Abandoned(pending, now)
     THEN Finalize(pending) /\ Goto(c, "unburst")
     ELSE UNCHANGED <<closed, captures, finalized>> /\ Goto(c, "sweep")
  /\ UNCHANGED <<now, pending, self_created, marker, buffer, popped,
                 recorded, dropped, made, crashes>>

RecoverPending(c) ==
  /\ pc[c] = "unburst"
  /\ pending' = NoBurst
  /\ Goto(c, "sweep")
  /\ UNCHANGED <<now, closed, self_created, marker, lock, t0, buffer, popped,
                 history, crashes>>

ForgetCreated(c) ==
  /\ pc[c] = "sweep"
  /\ self_created' = {}
  /\ Goto(c, "prune")
  /\ UNCHANGED <<now, pending, closed, marker, lock, t0, buffer, popped, history, crashes>>

PruneStack(c) ==
  /\ pc[c] = "prune" /\ Release(c)
  /\ closed' = prune_entries(closed, t0[c])
  /\ Finish(c)
  /\ UNCHANGED <<now, pending, self_created, marker, buffer, popped, history, crashes>>

(***************************************************************************)
(* The environment.                                                        *)
(***************************************************************************)
\* Past MaxTime the clock only runs to let sleepers wake.
Tick ==
  /\ \/ now < MaxTime
     \/ \E h \in Hooks : pc[h] = "sleep" /\ now < t0[h] + BurstWindow
  /\ now' = now + 1
  /\ UNCHANGED <<files, lock, pc, t0, buffer, popped, history, crashes>>

Crash_locked(p) ==
  /\ crashes < MaxCrashes
  /\ pc[p] \notin {"idle", "done", "dead"}
  /\ Goto(p, "dead")
  /\ buffer' = [buffer EXCEPT ![p] = NoBurst]
  /\ crashes' = crashes + 1
  /\ UNCHANGED <<now, files, lock, t0, popped, history>>

Crash(p) ==
  /\ crashes < MaxCrashes
  /\ pc[p] \notin {"idle", "done", "dead"}
  /\ Goto(p, "dead")
  /\ lock' = IF lock = p THEN None ELSE lock
  /\ buffer' = [buffer EXCEPT ![p] = NoBurst]
  /\ crashes' = crashes + 1
  /\ UNCHANGED <<now, files, t0, popped, history>>

Init ==
  /\ now = 1 /\ marker = FALSE
  /\ pending = NoBurst /\ closed = EmptyStack /\ self_created = {}
  /\ lock = None
  /\ pc = [p \in Processes |-> "idle"]
  /\ t0 = [p \in Processes |-> 0]
  /\ buffer = [p \in Processes |-> NoBurst]
  /\ popped = [r \in Reopens |-> NoEntry]
  /\ captures = {} /\ recorded = {} /\ finalized = {} /\ dropped = {}
  /\ made = [r \in Reopens |-> None]
  /\ crashes = 0

HookStep(h) ==
  \/ StartHook(h) \/ CheckHook(h) \/ PushEvent(h) \/ WritePending(h)
  \/ FinalizeBurst(h) \/ ClearPending(h) \/ LeaveBurst(h)

ReopenStep(r) ==
  \/ Pop(r) \/ FindNothing(r) \/ Create(r) \/ RecordCreated(r) \/ PushBack(r)

RecoverStep(c) ==
  \/ Startup(c) \/ RecoverOnce(c)
  \/ RecoverBurst(c) \/ RecoverPending(c) \/ ForgetCreated(c) \/ PruneStack(c)

Next ==
  \/ \E h \in Hooks : HookStep(h)
  \/ \E r \in Reopens : ReopenStep(r)
  \/ \E c \in Recoverers : RecoverStep(c)
  \/ \E p \in Processes : Crash(p)
  \/ Tick

Spec == Init /\ [][Next]_vars

\* A process that started goes on; nothing makes the user or herdr start one.
Fairness ==
  /\ WF_vars(Tick)
  /\ \A h \in Hooks :
       WF_vars(\/ CheckHook(h) \/ PushEvent(h) \/ WritePending(h)
               \/ FinalizeBurst(h) \/ ClearPending(h) \/ LeaveBurst(h))
  /\ \A r \in Reopens :
       WF_vars(\/ Create(r) \/ RecordCreated(r) \/ PushBack(r))
  /\ \A c \in Recoverers :
       WF_vars(\/ RecoverBurst(c) \/ RecoverPending(c)
               \/ ForgetCreated(c) \/ PruneStack(c))

FairSpec == Spec /\ Fairness

(***************************************************************************)
(* Type invariant.                                                         *)
(***************************************************************************)
Events ==
  [hook : Hooks, t0 : Nat, name : CLOSE_EVENTS, pane : Ids \cup {None},
   tab : Ids \cup {None}, workspace : Ids \cup {None}]

Bursts ==
  [first_ms : Nat, last_ms : Nat, last_token : Hooks,
   events : Seq(Events) \ {<< >>}, frozen : SUBSET UNION Snapshots]

Entries ==
  [id : Nat \ {0}, closed_at_ms : Nat,
   granularity : {"pane", "tab", "workspace", "workspace_group"},
   reason : {"closed", "exited"}, panes : SUBSET Ids, closes : (SUBSET Hooks) \ {{}}]

\* Every file and every process holds a value of its type; in particular a
\* written stack never exceeds its cap.
TypeOK ==
  /\ now \in Nat /\ marker \in BOOLEAN /\ crashes \in Nat
  /\ pending \in Bursts \cup {NoBurst}
  /\ closed \in [entries : Seq(Entries), next_id : Nat] /\ Len(closed.entries) <= StackCap
  /\ self_created \subseteq [id : Ids, created_at_ms : Nat]
  /\ lock \in Processes \cup {None}
  /\ pc \in [Processes -> {"idle", "check", "push", "pushed", "sleep", "finalized",
                           "restoring", "created", "recover", "unburst", "sweep", "prune",
                           "done", "dead"}]
  /\ t0 \in [Processes -> Nat]
  /\ buffer \in [Processes -> Bursts \cup {NoBurst}]
  /\ popped \in [Reopens -> Entries \cup {NoEntry}]
  /\ captures \subseteq Entries
  /\ recorded \subseteq Hooks /\ finalized \subseteq Hooks /\ dropped \subseteq Hooks
  /\ made \in [Reopens -> Nat \cup {None}]

(***************************************************************************)
(* What the protocol promises.                                             *)
(***************************************************************************)
Reported == UNION {e.closes : e \in captures}

\* What a burst can lack of a tab: no copy with the tab is there at the push, or an
\* earlier event of the burst froze a copy of the workspace without it (push_event).
MayBeUnknown(t) ==
  \/ \E s \in Snapshots : ~HasTab(s, t)
  \/ \E v, w \in UNION Snapshots : /\ v.workspace_id = w.workspace_id
                                  /\ HasTab({v}, t) /\ ~HasTab({w}, t)

\* The workspaces a close may be counted to: the one it names, or one that some
\* snapshot puts its pane or its tab in (workspace_of).
WorkspacesOf(g) ==
  IF g.workspace # None THEN {g.workspace}
  ELSE {None} \cup {w.workspace_id : w \in {x \in UNION Snapshots :
                                             HasPane({x}, g.pane) \/ HasTab({x}, g.tab)}}

\* A finalized close that has no entry, by a rule of infer_entries: an exit the
\* configuration ignores or that names no pane, a tab the burst does not know, or a close
\* beside a tab.closed of the same workspace.  The code asks for that tab.closed in the
\* same burst; `others` are all closes finalized so far, which excuses more.
Silenced(h, others) ==
  LET g == Gesture[h] IN
  \/ g.name = "pane.exited" /\ (~CaptureExited \/ g.pane = None)
  \/ g.name = "tab.closed" /\ MayBeUnknown(g.tab)
  \/ /\ g.name # "tab.closed"
     /\ \E o \in others : /\ Gesture[o].name = "tab.closed"
                          /\ WorkspacesOf(Gesture[o]) \cap WorkspacesOf(g) # {}

\* A close whose hook wrote it down is at every moment still pending, or on
\* record as an undo entry, or silenced or dropped by a rule of the code: no
\* order of hooks, recoveries and crashes makes it vanish (on_close re-reads
\* pending.json under the lock in each of its two sections).
NothingLost ==
  \A h \in recorded :
    \/ h \in HooksOf(pending)
    \/ h \in Reported
    \/ h \in dropped
    \/ h \in finalized /\ Silenced(h, finalized)

\* One close gives one undo entry.  Only a process killed between writing
\* closed.json and clearing pending.json can make the next finalization repeat it.
CapturedOncePerCrash ==
  \A h \in Hooks : Cardinality({e \in captures : h \in e.closes}) <= 1 + crashes

\* next_entry_id never gives out an id again, whatever was pruned, truncated,
\* popped or pushed back in between: `reopen --id` means one entry for good.
IdsNeverReused ==
  \A d, e \in captures : d.id = e.id => d = e

\* cmd_reopen pops under the lock so that two invocations cannot restore the
\* same entry: what a reopen holds is held by no other and is not on the stack.
OneReopenPerEntry ==
  \A r \in Reopens :
    pc[r] \in {"restoring", "created"} =>
      /\ popped[r].id \notin IdsOf(closed)
      /\ \A q \in Reopens \ {r} : popped[q] # NoEntry => popped[q].id # popped[r].id

\* While no process was killed, the pending burst's last writer is alive and
\* has still to look at it, so that somebody will finalize it.
PendingHasOwner ==
  (crashes = 0 /\ pending # NoBurst) => pc[pending.last_token] \in {"sleep", "finalized"}

\* A burst never grows past the staleness bound, also when hooks get the lock
\* in another order than they started in (push_event's monotonic last_ms).
BurstSpan ==
  pending # NoBurst =>
    /\ pending.first_ms <= pending.last_ms
    /\ pending.last_ms <= pending.first_ms + BurstStale
    /\ \A i \in DOMAIN pending.events : pending.events[i].t0 <= pending.last_ms

\* The close of a pane that a restore recorded less than SelfTTL before does
\* not pass the hook's check, whatever other restores recorded and pruned since
\* (on_close, is_self_created, record_self_created).
RestoreArtefactsIgnored ==
  [][\A h \in Hooks, r \in Reopens :
       (pc[h] = "check" /\ pc'[h] = "push" /\ made[r] # None /\ Gesture[h].pane = Rebuilt[r])
         => now - made[r] >= SelfTTL]_vars

\* A burst changes hands only forwards: the write that replaces a pending burst
\* keeps all its events, or starts afresh after the old ones were captured or dropped.
BurstIsKeptOrSettled ==
  [][\A h \in HooksOf(pending) :
       h \in HooksOf(pending)' \/ h \in finalized' \/ h \in dropped']_vars

\* Unless a process is killed, the pending burst is in the end empty for good:
\* every hook that leaves the burst to another leaves it to one that finalizes.
BurstIsFinalized == <>[](crashes = 0 => pending = NoBurst)

\* Nobody waits for ever: in the end every process that started has ended, also
\* when processes die holding the lock.
EveryProcessEnds == <>[](\A p \in Processes : pc[p] \in {"idle", "done", "dead"})

\* What reopens hold or have restored.
Taken == {popped[r] : r \in {q \in Reopens : popped[q] # NoEntry}}

Undo == INSTANCE UndoLog WITH
  Closes  <- Hooks,
  noted   <- HooksOf(pending),
  settled <- finalized \cup dropped,
  ever    <- captures,
  offered <- {closed.entries[i] : i \in DOMAIN closed.entries},
  taken   <- Taken

\* The files under their lock implement the log of closes and entries of UndoLog: no
\* interleaving of hooks, reopens and recoveries and no kill between two writes loses
\* an unsettled close, makes an entry out of no close, or lets an entry be taken twice
\* or come back after it was forgotten.
UndoRefined == Undo!Spec

(***************************************************************************)
(* What the documents say and the code does not do.                        *)
(***************************************************************************)
\* main.rs: reopen-last restores the newest entry on the undo stack.
HeadIsNewest ==
  \A i \in DOMAIN closed.entries :
    closed.entries[1].closed_at_ms >= closed.entries[i].closed_at_ms

\* HOW_IT_WORKS: two unrelated closes 100 ms apart stay two entries.
UnrelatedClosesStay ==
  \A h \in finalized : h \in Reported
==============================================================================
