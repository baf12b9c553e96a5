------------------------------ MODULE AgentStart -------------------------------
(***************************************************************************)
(* How src/restore.rs brings back an agent in a restored pane: agent.start *)
(* with its retries while the shell settles and its ladder of names, the   *)
(* watch for an agent that exits at once, the one fresh start after that,  *)
(* and the command typed at the prompt when no start succeeds.             *)
(*                                                                         *)
(* The pane is herdr's: its shell settles when it likes, an agent may exit *)
(* at any time, and an answer may come too late or not at all; an agent may*)
(* even come after herdr has given up waiting for it.  The clock of a loop *)
(* counts from the loop's own start.  Names, argument lists and report     *)
(* texts are left out.                                                     *)
(***************************************************************************)
EXTENDS Naturals, FiniteSets

CONSTANTS
  Ladder,        \* names to try after the first (alias_candidates: 4)
  SettleBudget,  \* AGENT_SETTLE_BUDGET_MS
  Interval,      \* Verify.interval_ms
  Settle,        \* Verify.settle_ms
  Budget,        \* Verify.budget_ms
  ExitStreak,    \* Verify.exit_streak
  SlowCall,      \* longest process_info call
  RejectMax,     \* an agent that rejects its session has exited by then
  MaxMissed      \* samples in a row that overlook a live agent

ASSUME TimesAssumption ==
  /\ {Ladder, SettleBudget, Interval, Settle, Budget, SlowCall, RejectMax, MaxMissed}
       \subseteq Nat
  /\ Interval > 0 /\ ExitStreak \in Nat \ {0}
ASSUME AgentAssumption ==
  /\ MaxMissed < ExitStreak
  /\ RejectMax <= Settle
  /\ Settle + ExitStreak * (Interval + SlowCall) <= Budget

VARIABLES
  pc,        \* where restore_agent is
  attempt,   \* resume; fresh, as there is nothing to resume; restart after an exit
  names,     \* names left on the ladder
  spent,     \* time in start_agent
  elapsed,   \* time in verify_agent
  streak,    \* samples in a row that saw a bare shell
  report,    \* resumed, started_fresh, prefilled and failed counts
  settled,   \* the pane's shell is at its prompt
  live,      \* attempts whose agent runs in the pane
  coming,    \* attempts herdr may still be starting
  rejected,  \* the agent does not accept the session it shall resume
  late,      \* history: herdr has timed out on the resume with its agent still to come
  missed,    \* history: live agents overlooked in a row
  blind      \* history: a sample failed

pane == <<settled, live, coming, rejected, late>>
vars == <<pc, attempt, names, spent, elapsed, streak, report, pane, missed, blind>>

Attempts == {"resume", "fresh", "restart"}

Count(what) == report' = [report EXCEPT ![what] = @ + 1]

(***************************************************************************)
(* restore_agent and start_agent.                                          *)
(***************************************************************************)
Begin_start_agent(a) ==
  /\ attempt' = a /\ names' = Ladder /\ spent' = 0
  /\ pc' = "start"

\* restore_occupant, and restore_agent's check of the transcript on disk.
Begin ==
  /\ pc = "begin"
  /\ \/ Begin_start_agent("resume") /\ UNCHANGED report
     \/ Begin_start_agent("fresh") /\ UNCHANGED report
     \/ /\ Count("failed") /\ pc' = "done"   \* no session id, or an unknown kind
        /\ UNCHANGED <<attempt, names, spent>>
  /\ UNCHANGED <<elapsed, streak, pane, missed, blind>>

\* start_agent returned a name.
Started ==
  /\ \/ /\ attempt = "resume"
        /\ pc' = "verify" /\ elapsed' = 0 /\ streak' = 0
        /\ UNCHANGED report
     \/ /\ attempt # "resume"
        /\ Count("started_fresh") /\ pc' = "done"
        /\ UNCHANGED <<elapsed, streak>>
  /\ UNCHANGED <<attempt, names, spent>>

\* start_agent gave up, fallback_to_prefill follows except after a restart.
GaveUp(safe_to_prefill) ==
  /\ Count("failed")
  /\ pc' = IF safe_to_prefill /\ attempt # "restart" THEN "prefill" ELSE "done"
  /\ UNCHANGED <<attempt, names, spent, elapsed, streak>>

AnswerOk ==
  /\ pc = "start" /\ settled /\ Started
  /\ live' = live \cup {attempt}
  /\ missed' = 0
  /\ UNCHANGED <<settled, coming, rejected, late, blind>>

\* herdr's own wait for the agent has timed out, which counts as started: the agent is
\* there and unnoticed, will never be, or "may still be starting".
AnswerTimeout ==
  /\ pc = "start" /\ settled /\ Started
  /\ \/ live' \in {live, live \cup {attempt}} /\ UNCHANGED <<coming, late>>
     \/ coming' = coming \cup {attempt} /\ late' = (late \/ attempt = "resume") /\ UNCHANGED live
  /\ missed' = 0
  /\ UNCHANGED <<settled, rejected, blind>>

\* The deadline is set anew when it is reached.
Busy_renewed ==
  /\ pc = "start" /\ ~settled
  /\ spent' = IF spent >= SettleBudget THEN 0 ELSE spent + 1
  /\ UNCHANGED <<pc, attempt, names, elapsed, streak, report, pane, missed, blind>>

Busy_once_more ==
  /\ pc = "start" /\ ~settled
  /\ \/ spent > SettleBudget /\ GaveUp(TRUE)
     \/ /\ spent <= SettleBudget /\ spent' = spent + 1
        /\ UNCHANGED <<pc, attempt, names, elapsed, streak, report>>
  /\ UNCHANGED <<pane, missed, blind>>

Busy ==
  /\ pc = "start" /\ ~settled
  /\ \/ spent >= SettleBudget /\ GaveUp(TRUE)
     \/ /\ spent < SettleBudget /\ spent' = spent + 1
        /\ UNCHANGED <<pc, attempt, names, elapsed, streak, report>>
  /\ UNCHANGED <<pane, missed, blind>>

NameTaken ==
  /\ pc = "start"
  /\ \/ names = 0 /\ GaveUp(TRUE)
     \/ /\ names > 0 /\ names' = names - 1
        /\ UNCHANGED <<pc, attempt, spent, elapsed, streak, report>>
  /\ UNCHANGED <<pane, missed, blind>>

\* Any other error: herdr has started nothing.
AnswerError ==
  /\ pc = "start" /\ GaveUp(TRUE)
  /\ UNCHANGED <<pane, missed, blind>>

\* No answer in time: herdr may have the request and start the agent later.
TransportTimeout_safe ==
  /\ pc = "start" /\ GaveUp(TRUE)
  /\ coming' \in {coming, coming \cup {attempt}}
  /\ UNCHANGED <<settled, live, rejected, late, missed, blind>>

TransportTimeout ==
  /\ pc = "start" /\ GaveUp(FALSE)
  /\ coming' \in {coming, coming \cup {attempt}}
  /\ UNCHANGED <<settled, live, rejected, late, missed, blind>>

prefill ==
  /\ pc = "prefill" /\ pc' = "done"
  /\ Count("prefilled") \/ Count("failed")
  /\ UNCHANGED <<attempt, names, spent, elapsed, streak, pane, missed, blind>>

(***************************************************************************)
(* verify_agent.                                                           *)
(***************************************************************************)
\* The sleep of one round and the call of the round before it.  An agent that
\* rejects its session is gone by RejectMax, unless it came late.
Sleep ==
  /\ pc = "verify" /\ pc' = "sample"
  /\ elapsed' \in elapsed + Interval .. elapsed + Interval + SlowCall
  /\ rejected /\ ~late /\ "resume" \in live => elapsed' < RejectMax
  /\ UNCHANGED <<attempt, names, spent, streak, report, pane, missed, blind>>

\* What one process_info sample may say of the pane.
Alive == live # {} /\ missed' = 0 /\ UNCHANGED blind
Exited ==
  /\ \/ live = {} /\ UNCHANGED missed
     \/ live # {} /\ missed < MaxMissed /\ missed' = missed + 1
  /\ UNCHANGED blind
Unknown == blind' = TRUE /\ missed' = 0

Resumed == Count("resumed") /\ pc' = "done" /\ UNCHANGED <<attempt, names, spent>>
Again == pc' = "verify" /\ UNCHANGED <<attempt, names, spent, report>>

Trusted_atonce == TRUE

\* Has the agent had the time to exit over its session?
Trusted == elapsed >= Settle

SampleAlive ==
  /\ pc = "sample" /\ Alive
  /\ streak' = 0
  /\ IF Trusted \/ elapsed >= Budget THEN Resumed ELSE Again
  /\ UNCHANGED <<elapsed, pane>>

SampleExited ==
  /\ pc = "sample" /\ Exited
  /\ streak' = streak + 1
  /\ \/ streak' >= ExitStreak /\ Begin_start_agent("restart") /\ UNCHANGED report
     \/ streak' < ExitStreak /\ elapsed >= Budget /\ Resumed
     \/ streak' < ExitStreak /\ elapsed < Budget /\ Again
  /\ UNCHANGED <<elapsed, pane>>

\* No usable sample is never a reason to act.
SampleUnknown_counts ==
  /\ pc = "sample" /\ Unknown
  /\ UNCHANGED streak
  /\ IF elapsed >= Budget THEN Resumed ELSE Again
  /\ UNCHANGED <<elapsed, pane>>

SampleUnknown ==
  /\ pc = "sample" /\ Unknown
  /\ streak' = 0
  /\ IF elapsed >= Budget THEN Resumed ELSE Again
  /\ UNCHANGED <<elapsed, pane>>

(***************************************************************************)
(* herdr's pane.                                                           *)
(***************************************************************************)
process == <<pc, attempt, names, spent, elapsed, streak, report>>

ShellSettles ==
  /\ ~settled /\ settled' = TRUE
  /\ UNCHANGED <<process, live, coming, rejected, late, missed, blind>>

AgentExits(a) ==
  /\ a \in live /\ live' = live \ {a} /\ missed' = 0
  /\ UNCHANGED <<process, settled, coming, rejected, late, blind>>

LateStart(a) ==
  /\ a \in coming /\ coming' = coming \ {a} /\ live' = live \cup {a}
  /\ UNCHANGED <<process, settled, rejected, late, missed, blind>>

Init ==
  /\ pc = "begin" /\ attempt = "resume"
  /\ names = Ladder /\ spent = 0 /\ elapsed = 0 /\ streak = 0
  /\ report = [resumed |-> 0, started_fresh |-> 0, prefilled |-> 0, failed |-> 0]
  /\ settled \in BOOLEAN /\ live = {} /\ coming = {}
  /\ rejected \in BOOLEAN /\ late = FALSE
  /\ missed = 0 /\ blind = FALSE

Restore ==
  \/ Begin \/ AnswerOk \/ AnswerTimeout \/ Busy \/ NameTaken \/ AnswerError
  \/ TransportTimeout \/ prefill \/ Sleep \/ SampleAlive \/ SampleExited \/ SampleUnknown

Next ==
  \/ Restore
  \/ ShellSettles
  \/ \E a \in Attempts : AgentExits(a) \/ LateStart(a)

Spec == Init /\ [][Next]_vars

(***************************************************************************)
(* Properties.                                                             *)
(***************************************************************************)
TypeOK ==
  /\ pc \in {"begin", "start", "prefill", "verify", "sample", "done"}
  /\ attempt \in Attempts
  /\ names \in 0 .. Ladder /\ spent \in 0 .. SettleBudget
  /\ elapsed \in 0 .. Budget + Interval + SlowCall /\ streak \in 0 .. ExitStreak
  /\ report \in [{"resumed", "started_fresh", "prefilled", "failed"} -> 0 .. 2]
  /\ live \subseteq Attempts /\ coming \subseteq Attempts
  /\ missed \in 0 .. MaxMissed /\ late \in BOOLEAN

\* A pane never holds, or waits for, two agents: the resumed one is not started again
\* because it was taken for dead (exit_streak and the reset of the streak in
\* verify_agent).  One case is left: herdr itself timed out on the resume and its agent
\* came after the watch had seen a bare shell; even then there is one fallback and no third.
OneAgent ==
  \/ Cardinality(live \cup coming) <= 1
  \/ late /\ live \cup coming = {"resume", "restart"}

\* Nothing is typed into a pane in which an agent runs or may still come up
\* (safe_to_prefill in start_agent).
NeverTypesIntoAgent ==
  [][report'.prefilled > report.prefilled => live \cup coming = {}]_vars

\* An agent that rejected its session is never reported as resumed, unless a sample
\* failed or the agent came late (settle_ms and budget_ms in verify_agent).
RejectedIsNoticed ==
  rejected /\ ~blind /\ ~late => report.resumed = 0
==============================================================================
