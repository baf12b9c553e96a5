------------------------------- MODULE Occupant --------------------------------
(***************************************************************************)
(* What one pane was running, from its samples to its restore: the         *)
(* refreshes of src/snapshot.rs that ask herdr for the pane's foreground   *)
(* processes, the record they keep in the shadow, and restore_occupant of  *)
(* src/restore.rs, which types the recorded command into the pane made in  *)
(* its place, presses Enter on it, or brings back the agent (AgentStart).  *)
(*                                                                         *)
(* Refreshes of several processes overlap each other and what the user and *)
(* the shell start and end in the pane.  A command is its argument list;   *)
(* process ids grow.  How the record survives the close of the pane is     *)
(* Shadow's subject: here the close hook finds it.                         *)
(***************************************************************************)
EXTENDS AgentStart

CONSTANTS
  Refreshes,      \* runs of refresh, by the daemon and by hooks
  Commands,       \* commands a pane may be said to run
  Shell,          \* the pane's shell, for all that is not a candidate
  None,           \* no command
  TTL,            \* process_info_ttl_ms
  Patterns,       \* patterns of the configuration: [meant, compiles]
  MaxPids,        \* bound: processes started by the shell
  MaxNow          \* bound: the clock

ASSUME CommandsAssumption ==
  /\ Shell \notin Commands /\ None \notin Commands
  /\ None \notin [argv : Commands, pid : Nat, at : Nat]
ASSUME OccupantBounds == {TTL, MaxPids, MaxNow} \subseteq Nat /\ TTL > 0

VARIABLES
  stage,      \* of the pane: "open", "kept" in an entry, "reopened"
  now,        \* the clock
  changed,    \* history: when the foreground last changed, a sample of it failed, or
              \* a late pane.created wiped its record
  front,      \* the pane's foreground: processes [pid, argv]
  pids,       \* process ids given out
  agent,      \* herdr has detected an agent in the pane
  announced,  \* the hook of pane.created has merged the pane
  shadow,     \* the pane in snapshot.json: [taken, agent, fg]
  ref,        \* each refresh: [pc, at, hint, agent, fg]
  due,        \* history: what the pane may be said to have run when it closed
  config,     \* [mode, allow, deny] of the reopen
  typed, ran  \* what was typed into the new pane; what Enter was pressed on

foreground == <<now, changed, front, pids, agent, announced, shadow, ref>>
restored == <<config, typed, ran>>
occupant == <<stage, foreground, due, restored>>

(***************************************************************************)
(* Reading a sample.                                                       *)
(***************************************************************************)
is_candidate_any(p) == TRUE

is_candidate(p) == p.argv \in Commands

\* The oldest candidate is the shell's direct child.
pick_foreground(sample, at) ==
  LET candidates == {p \in sample : is_candidate(p)}
  IN  IF candidates = {} THEN None
      ELSE LET p == CHOOSE q \in candidates : \A o \in candidates : q.pid <= o.pid
           IN  [argv |-> p.argv, pid |-> p.pid, at |-> at]

confirms(second, cmd) == [pid |-> cmd.pid, argv |-> cmd.argv] \in second

Argv(cmd) == IF cmd = None THEN None ELSE cmd.argv
is_new(picked, prev_fg) == picked # None /\ Argv(picked) # Argv(prev_fg)

fresh_forever(prev_fg, at) == prev_fg # None

\* saturating_sub: a record from the future is fresh.
fresh(prev_fg, at) == prev_fg # None /\ (prev_fg.at <= at => at - prev_fg.at < TTL)

(***************************************************************************)
(* refresh.                                                                *)
(***************************************************************************)
Idle == [pc |-> "idle", at |-> 0, hint |-> None, agent |-> FALSE, fg |-> None]

StartRefresh(r) ==
  /\ stage = "open" /\ ref[r].pc = "idle"
  /\ ref' = [ref EXCEPT ![r].pc = "list", ![r].at = now]
  /\ UNCHANGED <<stage, now, changed, front, pids, agent, announced, shadow, due, restored>>

\* The lists, and the unlocked read of what was known.
ListPane(r) ==
  /\ stage = "open" /\ ref[r].pc = "list"
  /\ ref' = [ref EXCEPT ![r].pc = IF agent THEN "write" ELSE "sample",
                        ![r].agent = agent, ![r].hint = shadow.fg]
  /\ UNCHANGED <<stage, now, changed, front, pids, agent, announced, shadow, due, restored>>

Found(r, fg, pc_) == ref' = [ref EXCEPT ![r].fg = fg, ![r].pc = pc_]

\* A young record is not asked for again.
SkipSample(r) ==
  /\ ref[r].pc = "sample" /\ fresh(ref[r].hint, ref[r].at)
  /\ Found(r, ref[r].hint, "write")
  /\ UNCHANGED <<stage, now, changed, front, pids, agent, announced, shadow, due, restored>>

SamplePane(r) ==
  /\ ref[r].pc = "sample" /\ ~fresh(ref[r].hint, ref[r].at) /\ stage = "open"
  /\ LET picked == pick_foreground(front, ref[r].at)
     IN  Found(r, picked, IF is_new(picked, ref[r].hint) THEN "confirm" ELSE "write")
  /\ UNCHANGED <<stage, now, changed, front, pids, agent, announced, shadow, due, restored>>

MissSample_forgets(r) ==
  /\ ref[r].pc = "sample" /\ ~fresh(ref[r].hint, ref[r].at)
  /\ Found(r, None, "write")
  /\ changed' = now
  /\ UNCHANGED <<stage, now, front, pids, agent, announced, shadow, due, restored>>

\* The call fails, as it does for a pane that is gone, or the budget is spent.
MissSample(r) ==
  /\ ref[r].pc = "sample" /\ ~fresh(ref[r].hint, ref[r].at)
  /\ Found(r, ref[r].hint, "write")
  /\ changed' = now
  /\ UNCHANGED <<stage, now, front, pids, agent, announced, shadow, due, restored>>

\* The second sample.  What has ended gives way to what runs now, unless that is
\* the same command again.
ConfirmSample(r) ==
  /\ ref[r].pc = "confirm" /\ stage = "open"
  /\ LET cmd         == ref[r].fg
         second      == pick_foreground(front, now)
         replacement == IF Argv(second) = cmd.argv THEN None ELSE second
     IN  Found(r, IF confirms(front, cmd) THEN cmd ELSE replacement, "write")
  /\ UNCHANGED <<stage, now, changed, front, pids, agent, announced, shadow, due, restored>>

\* No second sample: the call fails, the budget is spent, or more panes than
\* CONFIRM_MAX_PANES want one.  The first sample counts.
SkipConfirm(r) ==
  /\ ref[r].pc = "confirm" /\ Found(r, ref[r].fg, "write")
  /\ UNCHANGED <<stage, now, changed, front, pids, agent, announced, shadow, due, restored>>

\* A newer snapshot is left alone.
WriteSnapshot(r) ==
  /\ ref[r].pc = "write"
  /\ shadow' = IF shadow.taken > ref[r].at THEN shadow
               ELSE [taken |-> ref[r].at, agent |-> ref[r].agent, fg |-> ref[r].fg]
  /\ ref' = [ref EXCEPT ![r] = Idle]
  /\ UNCHANGED <<stage, now, changed, front, pids, agent, announced, due, restored>>

\* merge_pane_created replaces what is known of the pane, however late it comes.
SeedPane ==
  /\ stage = "open" /\ ~announced
  /\ announced' = TRUE
  /\ shadow' = [shadow EXCEPT !.agent = FALSE, !.fg = None]
  /\ changed' = now
  /\ UNCHANGED <<stage, now, front, pids, agent, ref, due, restored>>

(***************************************************************************)
(* The pane and its close.                                                 *)
(***************************************************************************)
Launch(argv) ==
  /\ stage = "open" /\ pids <= MaxPids
  /\ front' = front \cup {[pid |-> pids, argv |-> argv]} /\ pids' = pids + 1
  /\ changed' = now
  /\ UNCHANGED <<stage, now, agent, announced, shadow, ref, due, restored>>

Exit(p) ==
  /\ stage = "open" /\ p \in front /\ p.argv # Shell
  /\ front' = front \ {p} /\ changed' = now
  /\ UNCHANGED <<stage, now, pids, agent, announced, shadow, ref, due, restored>>

\* An agent is a process too, until herdr sees what it is.
AgentDetected ==
  /\ stage = "open" /\ ~agent /\ \E p \in front : p.argv \in Commands
  /\ agent' = TRUE /\ changed' = now
  /\ UNCHANGED <<stage, now, front, pids, announced, shadow, ref, due, restored>>

Tick ==
  /\ stage = "open" /\ now < MaxNow /\ now' = now + 1
  /\ UNCHANGED <<stage, changed, front, pids, agent, announced, shadow, ref, due, restored>>

\* Any command may be due if the last change is too young for the samples.
Due ==
  IF shadow.taken < changed + TTL THEN Commands \cup {None, "agent"}
  ELSE IF agent THEN {"agent"}
  ELSE LET commands == {p \in front : p.argv \in Commands}
       IN  IF commands = {} THEN {None}
           ELSE {p.argv : p \in {q \in commands : \A o \in commands : q.pid <= o.pid}}

\* The pane closes and its hook freezes the record; nobody asks about the old pane any
\* more.  What a refresh writes between the two it may as well write before.
Close ==
  /\ stage = "open" /\ stage' = "kept"
  /\ due' = Due
  /\ shadow' = [shadow EXCEPT !.taken = 0,
                              !.fg = IF @ = None THEN None ELSE [@ EXCEPT !.pid = 0, !.at = 0]]
  /\ now' = 0 /\ changed' = 0 /\ front' = {} /\ pids' = 0 /\ agent' = FALSE
  /\ announced' = TRUE /\ ref' = [r \in Refreshes |-> Idle]
  /\ UNCHANGED restored

(***************************************************************************)
(* restore_occupant.                                                       *)
(***************************************************************************)
\* CompiledRerun::new and rerun_allowed.
rerun_allowed_typo(allow, deny, argv) ==
  /\ \A d \in deny : d.compiles => argv \notin d.meant
  /\ \E a \in allow : a.compiles /\ argv \in a.meant

rerun_allowed(allow, deny, argv) ==
  /\ \A d \in deny : d.compiles
  /\ \A d \in deny : argv \notin d.meant
  /\ \E a \in allow : a.compiles /\ argv \in a.meant

\* herdr types the text or not, and the answer to that may be lost.
TypeCommand(argv, enter) ==
  /\ \/ typed' = argv /\ (Count("prefilled") \/ Count("failed"))
     \/ typed' = None /\ Count("failed")
  /\ ran' = IF enter THEN {typed'} \ {None} ELSE {}

restore_command(argv) ==
  \E mode \in {"off", "prefill", "run"}, allow, deny \in SUBSET Patterns :
    /\ config' = [mode |-> mode, allow |-> allow, deny |-> deny]
    /\ CASE mode = "off"     -> UNCHANGED <<typed, ran, report>>
         [] mode = "prefill" -> TypeCommand(argv, FALSE)
         [] mode = "run"     -> TypeCommand(argv, rerun_allowed(allow, deny, argv))

\* The agent goes to AgentStart, in a pane whose shell is as far as it is.
restore_occupant ==
  /\ stage = "kept" /\ stage' = "reopened"
  /\ IF shadow.agent
     THEN /\ settled' \in BOOLEAN /\ rejected' \in BOOLEAN
          /\ UNCHANGED <<config, typed, ran, pc, report>>
     ELSE /\ pc' = "done"
          /\ IF shadow.fg = None THEN UNCHANGED <<config, typed, ran, report>>
             ELSE restore_command(shadow.fg.argv)
          /\ UNCHANGED <<settled, rejected>>
  /\ UNCHANGED <<foreground, due, attempt, names, spent, elapsed, streak, live, coming, late,
                 missed, blind>>

OccupantInit ==
  /\ Init /\ ~settled /\ ~rejected
  /\ stage = "open" /\ now = 0 /\ changed = 0 /\ front = {[pid |-> 0, argv |-> Shell]} /\ pids = 1
  /\ agent = FALSE /\ announced = FALSE
  /\ shadow = [taken |-> 0, agent |-> FALSE, fg |-> None]
  /\ ref = [r \in Refreshes |-> Idle]
  /\ due = {} /\ config = None /\ typed = None /\ ran = {}

Refresh(r) ==
  \/ StartRefresh(r) \/ ListPane(r) \/ SkipSample(r) \/ SamplePane(r) \/ MissSample(r)
  \/ ConfirmSample(r) \/ SkipConfirm(r) \/ WriteSnapshot(r)

OldPane ==
  /\ \/ \E r \in Refreshes : Refresh(r)
     \/ \E argv \in Commands : Launch(argv)
     \/ \E p \in front : Exit(p)
     \/ SeedPane \/ AgentDetected \/ Tick \/ Close
  /\ UNCHANGED vars

NewPane == stage = "reopened" /\ Next /\ UNCHANGED occupant

OccupantNext == OldPane \/ restore_occupant \/ NewPane

OccupantSpec == OccupantInit /\ [][OccupantNext]_<<occupant, vars>>

\* As in AgentStart: the restoring process runs, a rejected agent exits.  Nothing
\* makes a user close or reopen a pane, or a refresh be quick.
OccupantFairSpec ==
  /\ OccupantSpec
  /\ WF_<<occupant, vars>>(NewPane /\ Restore)
  /\ WF_<<occupant, vars>>(NewPane /\ rejected /\ AgentExits("resume"))

(***************************************************************************)
(* Properties.                                                             *)
(***************************************************************************)
\* What a restore types into the new pane, or starts in it, is what the old one was
\* running when it closed, and nothing if it stood at a prompt, once the process_info
\* TTL has passed between the last change and the last refresh.
BringsBackWhatRan ==
  stage = "reopened" =>
    /\ typed # None => typed \in due
    /\ config # None /\ config.mode # "off" /\ typed = None => report.failed > 0
    /\ shadow.agent => "agent" \in due
    /\ ~shadow.agent /\ shadow.fg = None => None \in due

\* Enter is pressed only on a command that an allow pattern matches and that no deny
\* pattern was meant to match, also when that pattern does not compile (F8).
RunsOnlyAllowed ==
  \A argv \in ran :
    /\ config.mode = "run"
    /\ \E a \in config.allow : argv \in a.meant
    /\ \A d \in config.deny : argv \notin d.meant

\* A refresh that knows the record in force does not forget a command that is still
\* running, whatever call of it fails and whatever else comes and goes in the pane.
RunningIsRemembered ==
  [][\A r \in Refreshes :
       LET fg == shadow.fg
       IN  /\ ref[r].pc = "write" /\ ref'[r].pc = "idle" /\ stage' = "open"
           /\ fg # None /\ ref[r].hint = fg /\ ~ref[r].agent
           /\ [pid |-> fg.pid, argv |-> fg.argv] \in front
           => Argv(shadow'.fg) = fg.argv]_<<occupant, vars>>

\* A restore that has begun ends, whatever the pane and herdr do (the deadline of the
\* busy loop, the ladder's length, budget_ms).
RestoreEnds == stage = "reopened" ~> pc = "done"
==============================================================================
