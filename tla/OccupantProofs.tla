---------------------------- MODULE OccupantProofs -----------------------------
(***************************************************************************)
(* A restored pane never holds two agents, but for a late one and its fresh *)
(* start, and is never typed into while it holds one, for all lengths,     *)
(* times and streaks that satisfy the two assumptions of AgentStart.  For every set of commands, every allow and  *)
(* deny list, every TTL and every number of refreshes: Enter is pressed on *)
(* allowed commands only, what comes back is what ran, and no refresh      *)
(* forgets what runs on.                                                   *)
(***************************************************************************)
EXTENDS Occupant, FiniteSetTheorems, TLAPS, WellFoundedInduction

(***************************************************************************)
(* The start of an agent in a pane (AgentStart).                           *)
(***************************************************************************)
\* As long as no resume has come late, the pane is empty until a start is answered.
\* In the watch afterwards a streak over a live agent is no longer than the samples
\* that overlooked it.
Alone ==
  /\ \E a \in Attempts : live \cup coming \subseteq {a}
  /\ pc \in {"begin", "start", "prefill"} => live = {} /\ coming = {}
  /\ pc \in {"verify", "sample"} => coming = {}
  /\ pc \in {"verify", "sample"} /\ live # {} => streak <= missed

\* A resume that herdr timed out on may come at any time, the one fresh start after it
\* is the last, and no failure of that start leads to a prefill.
Belated ==
  /\ live \cup coming \subseteq {"resume", "restart"}
  /\ pc \in {"start", "verify", "sample", "done"}
  /\ pc # "done" => live \cup coming \subseteq {"resume"}
  /\ pc = "start" => attempt = "restart"

Occupied ==
  /\ attempt \in Attempts /\ streak \in Nat /\ missed \in Nat /\ late \in BOOLEAN
  /\ pc \in {"begin", "start", "prefill", "verify", "sample", "done"}
  /\ ~late => Alone
  /\ late => Belated

LEMMA InitOccupied == Init => Occupied
<1> SUFFICES ASSUME Init PROVE Occupied
  OBVIOUS
<1>1. /\ attempt \in Attempts /\ streak \in Nat /\ missed \in Nat /\ pc = "begin"
      /\ live = {} /\ coming = {}
  BY DEF Init, Attempts
<1>2. late \in BOOLEAN /\ ~late
  BY Zenon DEF Init
<1>3. Alone
  BY <1>1 DEF Alone, Attempts
<1>4. QED
  BY <1>1, <1>2, <1>3 DEF Occupied

\* What start_agent's results do to the process.
LEMMA StartResults ==
  ASSUME Occupied, pc = "start"
  PROVE  /\ Started =>
              /\ attempt' = attempt /\ pc' \in {"verify", "done"}
              /\ pc' = "verify" => streak' = 0
              /\ streak' \in Nat
         /\ \A safe \in BOOLEAN : GaveUp(safe) =>
              /\ attempt' = attempt /\ streak' = streak
              /\ pc' \in {"prefill", "done"}
              /\ ~safe => pc' = "done"
  BY DEF Occupied, Started, GaveUp

\* Only a timed-out resume can come late, and it stays so.
LEMMA LateOnce ==
  ASSUME late \in BOOLEAN, [Next]_vars
  PROVE  /\ late' \in BOOLEAN
         /\ late => late'
         /\ ~late /\ late' => AnswerTimeout /\ attempt = "resume"
<1>0. ASSUME late' = late
      PROVE  /\ late' \in BOOLEAN
             /\ late => late'
             /\ ~late /\ late' => AnswerTimeout /\ attempt = "resume"
  BY <1>0, Zenon
<1>1. CASE AnswerTimeout
  <2>1. late' = late \/ late' = (late \/ attempt = "resume")
    BY <1>1, Zenon DEF AnswerTimeout
  <2>2. CASE late' = (late \/ attempt = "resume")
    BY <1>1, <2>2, Zenon
  <2>3. QED
    BY <1>0, <2>1, <2>2, Zenon
<1>2. CASE Begin \/ AnswerOk \/ Busy \/ NameTaken \/ AnswerError \/ TransportTimeout \/ prefill
  <2>1. late' = late
    BY <1>2 DEF Begin, AnswerOk, Busy, NameTaken, AnswerError, TransportTimeout, prefill, pane
  <2>2. QED
    BY <1>0, <2>1, Zenon
<1>3. CASE Sleep \/ SampleAlive \/ SampleExited \/ SampleUnknown \/ UNCHANGED vars
  <2>1. late' = late
    BY <1>3 DEF Sleep, SampleAlive, SampleExited, SampleUnknown, vars, pane
  <2>2. QED
    BY <1>0, <2>1, Zenon
<1>4. CASE ShellSettles \/ \E a \in Attempts : AgentExits(a) \/ LateStart(a)
  <2>1. late' = late
    BY <1>4 DEF ShellSettles, AgentExits, LateStart
  <2>2. QED
    BY <1>0, <2>1, Zenon
<1>5. QED
  BY <1>1, <1>2, <1>3, <1>4 DEF Next, Restore

LEMMA StepAlone == Occupied /\ ~late' /\ [Next]_vars => Occupied'
<1> SUFFICES ASSUME Occupied, ~late', [Next]_vars PROVE Occupied'
  OBVIOUS
<1> USE TimesAssumption
<1>0. ~late /\ ~late' /\ late' \in BOOLEAN /\ Alone
  BY LateOnce DEF Occupied
<1>01. PICK b \in Attempts : live \cup coming \subseteq {b}
  BY <1>0 DEF Alone
<1>02. ASSUME Alone', attempt' \in Attempts, streak' \in Nat, missed' \in Nat,
               pc' \in {"begin", "start", "prefill", "verify", "sample", "done"}
       PROVE  Occupied'
  BY <1>0, <1>02 DEF Occupied
<1>1. CASE Begin
  BY <1>0, <1>1 DEF Begin, Begin_start_agent, pane, Occupied, Alone, Attempts
<1>2. CASE AnswerOk \/ AnswerTimeout
  <2>1. /\ pc = "start" /\ Started /\ missed' = 0
        /\ live' \cup coming' \subseteq live \cup coming \cup {attempt}
        /\ coming' \subseteq coming \cup (IF attempt = "resume" THEN {} ELSE {attempt})
    BY <1>0, <1>2 DEF AnswerOk, AnswerTimeout
  <2>2. live = {} /\ coming = {} /\ attempt \in Attempts
    BY <1>0, <2>1 DEF Occupied, Alone
  <2>3. attempt' = attempt /\ pc' \in {"verify", "done"} /\ streak' \in Nat
        /\ (pc' = "verify" => streak' = 0 /\ attempt = "resume")
    BY <2>1, StartResults DEF Started
  <2>4. live' \cup coming' \subseteq {attempt} /\ (pc' = "verify" => coming' = {})
    BY <2>1, <2>2, <2>3
  <2>5. Alone'
    BY <2>1, <2>2, <2>3, <2>4 DEF Alone
  <2>6. QED
    BY <1>02, <2>1, <2>2, <2>3, <2>5
<1>3. CASE Busy \/ NameTaken \/ AnswerError
  <2>1. pc = "start" /\ UNCHANGED <<pane, missed, blind>>
    BY <1>3 DEF Busy, NameTaken, AnswerError
  <2>2. GaveUp(TRUE) \/ UNCHANGED <<pc, attempt, streak>>
    BY <1>3 DEF Busy, NameTaken, AnswerError
  <2>3. /\ attempt' = attempt /\ streak' = streak
        /\ pc' \in {"start", "prefill", "done"}
    BY <2>1, <2>2, StartResults
  <2>4. QED
    BY <1>0, <2>1, <2>3 DEF Occupied, Alone, pane
<1>4. CASE TransportTimeout
  <2>1. /\ pc = "start" /\ GaveUp(FALSE) /\ missed' = missed /\ live' = live
        /\ coming' \subseteq coming \cup {attempt}
    BY <1>4 DEF TransportTimeout
  <2>2. attempt' = attempt /\ streak' = streak /\ pc' = "done"
    BY <2>1, StartResults
  <2>3. live' \cup coming' \subseteq {attempt} /\ attempt \in Attempts
    BY <1>0, <2>1 DEF Occupied, Alone
  <2>4. QED
    BY <1>0, <2>1, <2>2, <2>3 DEF Occupied, Alone
<1>5. CASE prefill
  BY <1>0, <1>5 DEF prefill, pane, Occupied, Alone
<1>6. CASE Sleep
  BY <1>0, <1>6 DEF Sleep, pane, Occupied, Alone
<1>7. CASE SampleAlive \/ SampleUnknown
  <2>1. /\ pc = "sample" /\ streak' = 0 /\ missed' = 0 /\ UNCHANGED pane
        /\ Resumed \/ Again
    BY <1>7 DEF SampleAlive, SampleUnknown, Alive, Unknown
  <2>2. QED
    BY <1>0, <2>1 DEF Resumed, Again, pane, Occupied, Alone
<1>8. CASE SampleExited
  <2>1. pc = "sample" /\ coming = {} /\ streak' = streak + 1 /\ UNCHANGED pane
        /\ streak \in Nat /\ missed \in Nat
    BY <1>0, <1>8 DEF SampleExited, Occupied, Alone
  <2>2. missed' \in Nat /\ (live # {} => missed' = missed + 1 /\ missed' < ExitStreak)
    BY <1>8, <2>1, AgentAssumption DEF SampleExited, Exited
  <2>3. live # {} => streak' <= missed' /\ streak' < ExitStreak
    BY <1>0, <2>1, <2>2 DEF Alone
  <2>4. CASE streak' >= ExitStreak /\ Begin_start_agent("restart")
    <3>1. live = {}
      BY <2>1, <2>2, <2>3, <2>4
    <3>2. QED
      BY <1>0, <1>01, <2>1, <2>2, <2>4, <3>1
      DEF Begin_start_agent, pane, Occupied, Alone, Attempts
  <2>5. CASE Resumed \/ Again
    BY <1>0, <1>01, <2>1, <2>2, <2>3, <2>5 DEF Resumed, Again, pane, Occupied, Alone
  <2>6. QED
    BY <1>8, <2>4, <2>5 DEF SampleExited
<1>9. CASE ShellSettles
  BY <1>0, <1>9 DEF ShellSettles, process, Occupied, Alone
<1>10. ASSUME NEW a \in Attempts, AgentExits(a) PROVE Occupied'
  <2>1. a = b /\ live \subseteq {b} /\ live' = live \ {a}
    BY <1>01, <1>10 DEF AgentExits
  <2>2. live' = {} /\ missed' = 0 /\ coming' = coming /\ UNCHANGED process
    BY <1>10, <2>1 DEF AgentExits
  <2>3. QED
    BY <1>0, <1>01, <2>2 DEF process, Occupied, Alone
<1>11. ASSUME NEW a \in Attempts, LateStart(a) PROVE Occupied'
  <2>1. pc = "done"
    BY <1>0, <1>11 DEF LateStart, Occupied, Alone
  <2>2. live' \cup coming' \subseteq {b} /\ UNCHANGED <<process, missed>>
    BY <1>01, <1>11 DEF LateStart
  <2>3. QED
    BY <1>0, <2>1, <2>2 DEF process, Occupied, Alone
<1>12. CASE UNCHANGED vars
  BY <1>0, <1>12 DEF vars, pane, Occupied, Alone
<1>13. QED
  BY <1>1, <1>2, <1>3, <1>4, <1>5, <1>6, <1>7, <1>8, <1>9, <1>10, <1>11, <1>12
  DEF Next, Restore

LEMMA StepBelated == Occupied /\ late' /\ [Next]_vars => Occupied'
<1> SUFFICES ASSUME Occupied, late', [Next]_vars PROVE Occupied'
  OBVIOUS
<1> USE TimesAssumption
<1>0. late' \in BOOLEAN /\ (late \/ (AnswerTimeout /\ attempt = "resume"))
  BY LateOnce DEF Occupied
<1>1. ASSUME Belated', attempt' \in Attempts, streak' \in Nat, missed' \in Nat
      PROVE  Occupied'
  BY <1>0, <1>1 DEF Occupied, Belated
<1>2. CASE AnswerOk \/ AnswerTimeout
  <2>1. /\ pc = "start" /\ Started /\ missed' = 0
        /\ live' \cup coming' \subseteq live \cup coming \cup {attempt}
    BY <1>2 DEF AnswerOk, AnswerTimeout
  <2>2. /\ attempt' = attempt /\ pc' \in {"verify", "done"} /\ streak' \in Nat
        /\ attempt # "resume" => pc' = "done"
        /\ attempt \in Attempts
    BY <2>1, StartResults DEF Started, Occupied
  <2>3. CASE late
    <3>1. attempt = "restart" /\ live \cup coming \subseteq {"resume"}
      BY <2>1, <2>3 DEF Occupied, Belated
    <3>2. QED
      BY <1>1, <2>1, <2>2, <3>1 DEF Belated
  <2>4. CASE ~late
    <3>1. attempt = "resume" /\ live \cup coming = {}
      BY <1>0, <2>1, <2>4 DEF Occupied, Alone
    <3>2. QED
      BY <1>1, <2>1, <2>2, <3>1 DEF Belated
  <2>5. QED
    BY <2>3, <2>4
<1>3. CASE ~(AnswerOk \/ AnswerTimeout)
  <2>0. late /\ Belated
    BY <1>0, <1>3 DEF Occupied
  <2>1. CASE Begin \/ prefill
    BY <2>0, <2>1 DEF Belated, Begin, prefill
  <2>2. CASE Busy \/ NameTaken \/ AnswerError \/ TransportTimeout
    <3>1. /\ pc = "start" /\ missed' = missed
          /\ live' = live /\ coming' \subseteq coming \cup {attempt}
          /\ coming' = coming \/ pc' = "done"
      BY <2>2 DEF Busy, NameTaken, AnswerError, TransportTimeout, GaveUp, pane
    <3>2. attempt = "restart" /\ live \cup coming \subseteq {"resume"}
      BY <2>0, <3>1 DEF Belated
    <3>3. /\ attempt' = attempt /\ streak' = streak /\ pc' \in {"start", "done"}
      BY <2>2, <3>1, <3>2 DEF Busy, NameTaken, AnswerError, TransportTimeout, GaveUp
    <3>4. QED
      BY <1>1, <3>1, <3>2, <3>3 DEF Occupied, Belated
  <2>3. CASE Sleep
    BY <1>1, <2>0, <2>3 DEF Sleep, pane, Occupied, Belated
  <2>4. CASE SampleAlive \/ SampleExited \/ SampleUnknown
    <3>0. missed \in Nat /\ streak \in Nat
      BY DEF Occupied
    <3>1. /\ pc = "sample" /\ live' = live /\ coming' = coming
          /\ missed' \in Nat /\ streak' \in Nat
      BY ONLY <2>4, <3>0 DEF SampleAlive, SampleExited, SampleUnknown, Alive, Exited, Unknown, pane
    <3>2. \/ attempt' = attempt /\ pc' \in {"verify", "done"}
          \/ attempt' = "restart" /\ pc' = "start"
      BY <2>4 DEF SampleAlive, SampleExited, SampleUnknown, Resumed, Again, Begin_start_agent
    <3>3. QED
      BY <1>1, <2>0, <3>1, <3>2 DEF Occupied, Belated, Attempts
  <2>5. CASE ShellSettles \/ UNCHANGED vars
    BY <1>1, <2>0, <2>5 DEF ShellSettles, process, vars, pane, Occupied, Belated
  <2>6. ASSUME NEW a \in Attempts, AgentExits(a) \/ LateStart(a) PROVE Occupied'
    <3>0. missed \in Nat
      BY DEF Occupied
    <3>1. /\ UNCHANGED <<pc, attempt, streak>> /\ missed' \in Nat
          /\ live' \cup coming' \subseteq live \cup coming
      BY ONLY <2>6, <3>0 DEF AgentExits, LateStart, process
    <3>2. QED
      BY <1>1, <2>0, <3>1 DEF Occupied, Belated
  <2>7. QED
    BY <1>3, <2>1, <2>2, <2>3, <2>4, <2>5, <2>6 DEF Next, Restore
<1>4. QED
  BY <1>2, <1>3

LEMMA StepOccupied == Occupied /\ [Next]_vars => Occupied'
<1>1. ASSUME Occupied, [Next]_vars PROVE late' \/ ~late'
  OBVIOUS
<1>2. QED
  BY <1>1, StepAlone, StepBelated

LEMMA OccupiedAlways == Spec => []Occupied
<1>1. QED
  BY InitOccupied, StepOccupied, PTL DEF Spec

LEMMA OccupiedIsAlone == Occupied => OneAgent
<1> SUFFICES ASSUME Occupied PROVE OneAgent
  OBVIOUS
<1>1. \A x : Cardinality({}) = 0 /\ Cardinality({x}) = 1
  BY FS_EmptySet, FS_Singleton
<1>2. \/ \E a \in Attempts : live \cup coming \subseteq {a}
      \/ late /\ live \cup coming \subseteq {"resume", "restart"}
  BY DEF Occupied, Alone, Belated
<1>3. \/ live \cup coming = {}
      \/ \E a : live \cup coming = {a}
      \/ late /\ live \cup coming = {"resume", "restart"}
  BY <1>2
<1>4. QED
  BY <1>1, <1>3 DEF OneAgent

\* A fresh start never puts a second agent beside the resumed one, whatever the streak,
\* as long as it is longer than a live agent is overlooked.  The one exception is a
\* resume that herdr timed out on and that came after the watch (the agent "may still
\* be starting"): it and its fresh start are then all that is ever in the pane, for
\* every ladder, budget and streak (verify_agent, restart_attempts).
THEOREM AgentsAreAlone == Spec => []OneAgent
  BY OccupiedIsAlone, OccupiedAlways, PTL

(***************************************************************************)
(* Only prefill raises the count of prefilled panes.                       *)
(***************************************************************************)
Counted ==
  report \in [resumed: Nat, started_fresh: Nat, prefilled: Nat, failed: Nat]

LEMMA Counting ==
  ASSUME Counted
  PROVE  /\ \A what \in {"resumed", "started_fresh", "prefilled", "failed"} :
              Count(what) => Counted'
         /\ \A what \in {"resumed", "started_fresh", "failed"} :
              Count(what) => ~(report'.prefilled > report.prefilled)
  BY DEF Counted, Count

\* What a step other than prefill does to the report.
KeptOrCounted ==
  report' = report \/ \E what \in {"resumed", "started_fresh", "failed"} : Count(what)

LEMMA StepCounts == [Next]_vars => prefill \/ KeptOrCounted
<1> SUFFICES ASSUME [Next]_vars PROVE prefill \/ KeptOrCounted
  OBVIOUS
<1>1. CASE Begin
  BY <1>1 DEF Begin, KeptOrCounted
<1>2. CASE AnswerOk \/ AnswerTimeout
  BY <1>2 DEF AnswerOk, AnswerTimeout, Started, KeptOrCounted
<1>3. CASE Busy \/ NameTaken \/ AnswerError \/ TransportTimeout
  BY <1>3 DEF Busy, NameTaken, AnswerError, TransportTimeout, GaveUp, KeptOrCounted
<1>4. CASE Sleep
  BY <1>4 DEF Sleep, KeptOrCounted
<1>5. CASE SampleAlive \/ SampleExited \/ SampleUnknown
  BY <1>5 DEF SampleAlive, SampleExited, SampleUnknown, Resumed, Again, KeptOrCounted
<1>6. CASE ShellSettles \/ \E a \in Attempts : AgentExits(a) \/ LateStart(a)
  BY <1>6 DEF ShellSettles, AgentExits, LateStart, process, KeptOrCounted
<1>7. CASE UNCHANGED vars
  BY <1>7 DEF vars, KeptOrCounted
<1>8. QED
  BY <1>1, <1>2, <1>3, <1>4, <1>5, <1>6, <1>7 DEF Next, Restore

LEMMA StepCounted == Counted /\ [Next]_vars => Counted'
<1> SUFFICES ASSUME Counted, [Next]_vars PROVE Counted'
  OBVIOUS
<1>1. CASE prefill
  BY <1>1, Counting DEF prefill
<1>2. CASE KeptOrCounted
  BY <1>2, Counting DEF KeptOrCounted, Counted
<1>3. QED
  BY <1>1, <1>2, StepCounts

LEMMA StepIsSafe ==
  ASSUME Occupied, Counted, [Next]_vars
  PROVE  report'.prefilled > report.prefilled => live \cup coming = {}
<1>1. CASE prefill
  BY <1>1 DEF prefill, Occupied, Alone, Belated
<1>2. CASE report' = report
  BY <1>2 DEF Counted
<1>3. CASE \E what \in {"resumed", "started_fresh", "failed"} : Count(what)
  BY <1>3, Counting
<1>4. QED
  BY <1>1, <1>2, <1>3, StepCounts DEF KeptOrCounted

\* No text is typed into a pane where an agent runs or may still come up, for
\* every ladder and every budget (safe_to_prefill in start_agent).
THEOREM PrefillIsSafe == Spec => NeverTypesIntoAgent
<1> DEFINE Safe == report'.prefilled > report.prefilled => live \cup coming = {}
<1>1. Init => Counted
  BY DEF Init, Counted
<1>2. Occupied /\ Counted /\ [Next]_vars => [Safe]_vars
  BY StepIsSafe
<1>3. QED
  BY <1>1, <1>2, StepCounted, OccupiedAlways, PTL DEF Spec, NeverTypesIntoAgent

(***************************************************************************)
(* Types.  A loop's counters stay within its budget, and every count of    *)
(* the report is raised once at most, but for the failed ones.             *)
(***************************************************************************)
Counters ==
  /\ names \in 0 .. Ladder /\ spent \in 0 .. SettleBudget
  /\ streak \in 0 .. ExitStreak /\ missed \in 0 .. MaxMissed
  /\ elapsed \in 0 .. Budget + Interval + SlowCall
  /\ pc \in {"verify", "sample"} => streak < ExitStreak
  /\ pc = "verify" => elapsed < Budget

\* Nothing is counted before a restore is over, but the failed start before a prefill.
Tally(failed) ==
  report = [resumed |-> 0, started_fresh |-> 0, prefilled |-> 0, failed |-> failed]

Tallied ==
  /\ report \in [{"resumed", "started_fresh", "prefilled", "failed"} -> 0 .. 2]
  /\ pc \in {"begin", "start", "verify", "sample"} => Tally(0)
  /\ pc = "prefill" => Tally(1)

Typed == Occupied /\ Counters /\ Tallied

LEMMA InitTyped == Init => Typed
<1> SUFFICES ASSUME Init PROVE Counters /\ Tallied
  BY InitOccupied DEF Typed
<1> USE TimesAssumption
<1>1. 0 < Budget
  BY AgentAssumption
<1>2. QED
  BY <1>1 DEF Init, Counters, Tallied, Tally

\* Counting the first result, and a second failure, stays within the types.
LEMMA Tallying ==
  ASSUME NEW failed \in {0, 1}, Tally(failed),
         NEW what \in {"resumed", "started_fresh", "prefilled", "failed"}, Count(what)
  PROVE  /\ report' \in [{"resumed", "started_fresh", "prefilled", "failed"} -> 0 .. 2]
         /\ failed = 0 /\ what = "failed" => Tally(1)'
         /\ what # "resumed" => report'.resumed = 0
<1> DEFINE kinds == {"resumed", "started_fresh", "prefilled", "failed"}
<1>1. report = [k \in kinds |-> IF k = "failed" THEN failed ELSE 0]
  BY DEF Tally
<1>2. report' = [k \in kinds |-> IF k = what THEN report[k] + 1 ELSE report[k]]
  BY <1>1 DEF Count
<1>3. report' = [k \in kinds |-> (IF k = "failed" THEN failed ELSE 0) + (IF k = what THEN 1 ELSE 0)]
  BY <1>1, <1>2
<1>4. \A k \in kinds : (IF k = "failed" THEN failed ELSE 0) + (IF k = what THEN 1 ELSE 0) \in 0 .. 2
  OBVIOUS
<1>5. report' \in [kinds -> 0 .. 2] /\ (what # "resumed" => report'.resumed = 0)
  BY <1>3, <1>4
<1>6. ASSUME failed = 0, what = "failed" PROVE Tally(1)'
  <2>1. report' = [k \in kinds |-> IF k = "failed" THEN 1 ELSE 0]
    BY <1>3, <1>6
  <2>2. QED
    BY <2>1 DEF Tally
<1>7. QED
  BY <1>5, <1>6

LEMMA StepTallied == Occupied /\ Tallied /\ [Next]_vars => Tallied'
<1> SUFFICES ASSUME Occupied, Tallied, [Next]_vars PROVE Tallied'
  OBVIOUS
<1>1. CASE prefill
  <2>1. Tally(1) /\ pc' = "done"
    BY <1>1 DEF prefill, Tallied
  <2>2. QED
    BY <1>1, <2>1, Tallying DEF prefill, Tallied
<1>2. ASSUME NEW what \in {"resumed", "started_fresh", "failed"}, Count(what), Tally(0),
             pc' = "done" \/ (pc' = "prefill" /\ what = "failed")
      PROVE  Tallied'
  BY <1>2, Tallying DEF Tallied
<1>3. CASE UNCHANGED report /\ pc' \in {pc, "start", "verify", "sample"} /\ pc \notin {"prefill", "done"}
  BY <1>3 DEF Occupied, Tallied, Tally
<1>4. CASE UNCHANGED <<report, pc>>
  BY <1>4 DEF Tallied, Tally
<1>5. CASE Begin
  <2>1. Tally(0)
    BY <1>5 DEF Begin, Tallied
  <2>2. QED
    BY <1>2, <1>3, <1>5, <2>1 DEF Begin, Begin_start_agent
<1>6. CASE AnswerOk \/ AnswerTimeout
  <2>1. pc = "start" /\ Tally(0) /\ Started
    BY <1>6 DEF AnswerOk, AnswerTimeout, Tallied
  <2>2. QED
    BY <1>2, <1>3, <2>1 DEF Started
<1>7. CASE Busy \/ NameTaken \/ AnswerError \/ TransportTimeout
  <2>1. pc = "start" /\ Tally(0)
    BY <1>7 DEF Busy, NameTaken, AnswerError, TransportTimeout, Tallied
  <2>2. ASSUME NEW safe \in BOOLEAN, GaveUp(safe) PROVE Tallied'
    BY <1>2, <2>1, <2>2 DEF GaveUp
  <2>3. QED
    BY <1>3, <1>4, <1>7, <2>1, <2>2 DEF Busy, NameTaken, AnswerError, TransportTimeout
<1>8. CASE Sleep
  BY <1>3, <1>8 DEF Sleep
<1>9. CASE SampleAlive \/ SampleExited \/ SampleUnknown
  <2>1. pc = "sample" /\ Tally(0)
    BY <1>9 DEF SampleAlive, SampleExited, SampleUnknown, Tallied
  <2>2. \/ Resumed
        \/ UNCHANGED report /\ pc' \in {"start", "verify"}
    BY <1>9 DEF SampleAlive, SampleExited, SampleUnknown, Again, Begin_start_agent
  <2>3. QED
    BY <1>2, <1>3, <2>1, <2>2 DEF Resumed
<1>10. CASE ShellSettles \/ (\E a \in Attempts : AgentExits(a) \/ LateStart(a)) \/ UNCHANGED vars
  BY <1>4, <1>10 DEF ShellSettles, AgentExits, LateStart, process, vars
<1>11. QED
  BY <1>1, <1>5, <1>6, <1>7, <1>8, <1>9, <1>10 DEF Next, Restore

LEMMA StepCounters == Occupied /\ Counters /\ [Next]_vars => Counters'
<1> SUFFICES ASSUME Occupied, Counters, [Next]_vars PROVE Counters'
  OBVIOUS
<1> USE TimesAssumption
<1>0. 0 < Budget
  BY AgentAssumption
<1>1. CASE Begin
  BY <1>1 DEF Begin, Begin_start_agent, Counters
<1>2. CASE AnswerOk \/ AnswerTimeout
  BY <1>0, <1>2 DEF AnswerOk, AnswerTimeout, Started, Counters
<1>3. CASE Busy \/ NameTaken \/ AnswerError \/ TransportTimeout
  BY <1>3 DEF Busy, NameTaken, AnswerError, TransportTimeout, GaveUp, pane, Counters
<1>4. CASE prefill
  BY <1>4 DEF prefill, Counters
<1>5. CASE Sleep
  BY <1>5 DEF Sleep, Counters
<1>6. CASE SampleAlive \/ SampleUnknown
  <2>1. /\ pc = "sample" /\ streak' = 0 /\ missed' = 0 /\ elapsed' = elapsed
        /\ Resumed \/ (Again /\ elapsed < Budget)
    BY <1>6 DEF SampleAlive, SampleUnknown, Alive, Unknown, Counters
  <2>2. QED
    BY <2>1 DEF Resumed, Again, Counters
<1>7. CASE SampleExited
  <2>1. /\ pc = "sample" /\ streak' = streak + 1 /\ elapsed' = elapsed
        /\ missed' \in 0 .. MaxMissed
    BY <1>7 DEF SampleExited, Exited, Counters
  <2>2. CASE streak' >= ExitStreak /\ Begin_start_agent("restart")
    BY <2>1, <2>2 DEF Begin_start_agent, Counters
  <2>3. CASE streak' < ExitStreak /\ (Resumed \/ (elapsed < Budget /\ Again))
    BY <2>1, <2>3 DEF Resumed, Again, Counters
  <2>4. QED
    BY <1>7, <2>2, <2>3 DEF SampleExited
<1>8. CASE ShellSettles \/ (\E a \in Attempts : AgentExits(a) \/ LateStart(a)) \/ UNCHANGED vars
  BY <1>8 DEF ShellSettles, AgentExits, LateStart, process, vars, Counters
<1>9. QED
  BY <1>1, <1>2, <1>3, <1>4, <1>5, <1>6, <1>7, <1>8 DEF Next, Restore

LEMMA StepTyped == Typed /\ [Next]_vars => Typed'
  BY StepOccupied, StepTallied, StepCounters DEF Typed

LEMMA TypedIsOK == Typed => TypeOK
<1> SUFFICES ASSUME Typed PROVE TypeOK
  OBVIOUS
<1>1. live \subseteq Attempts /\ coming \subseteq Attempts /\ late \in BOOLEAN
  BY DEF Typed, Occupied, Alone, Belated, Attempts
<1>2. QED
  BY <1>1 DEF Typed, Occupied, Counters, Tallied, TypeOK

\* The counters of both loops and of the report keep to their ranges: no loop runs
\* longer than its budget and one call (start_agent, verify_agent).
THEOREM StartTypeCorrect == Spec => []TypeOK
  BY InitTyped, StepTyped, TypedIsOK, PTL DEF Spec

(***************************************************************************)
(* A rejected session.                                                     *)
(***************************************************************************)
\* Only a resumed agent is watched.
Watched ==
  pc \in {"verify", "sample"} => attempt = "resume" /\ live \cup coming \subseteq {"resume"}

\* An agent that rejects its session, and is not late, is gone by Settle, and each round since adds
\* one to the streak: the streak is full before the budget is spent.
Overdue ==
  rejected /\ ~blind /\ ~late =>
    /\ pc = "verify" => elapsed <= Settle + streak * (Interval + SlowCall)
    /\ pc = "sample" => elapsed <= Settle + (streak + 1) * (Interval + SlowCall)
    /\ pc = "sample" /\ live # {} => elapsed < RejectMax
    /\ pc = "verify" /\ live # {} => elapsed <= Settle
    /\ report.resumed = 0

Noticed == Watched /\ Overdue

\* The rounds of a streak that is not full do not fill the budget.
LEMMA StreakFitsBudget ==
  ASSUME NEW n \in Nat, n < ExitStreak
  PROVE  Settle + n * (Interval + SlowCall) < Budget
<1> DEFINE period == Interval + SlowCall
<1>0. period \in Nat /\ period > 0 /\ ExitStreak \in Nat /\ Settle \in Nat /\ Budget \in Nat
  BY TimesAssumption
<1>1. Settle + ExitStreak * period <= Budget
  BY AgentAssumption
<1> HIDE DEF period
<1>2. ExitStreak * period = n * period + (ExitStreak - n) * period
  BY <1>0
<1>3. PICK k \in Nat : ExitStreak - n = k + 1
  <2>1. ExitStreak - n - 1 \in Nat
    BY <1>0
  <2>2. QED
    BY <1>0, <2>1
<1>4. (ExitStreak - n) * period = k * period + period
  BY <1>0, <1>3
<1>5. k * period \in Nat /\ n * period \in Nat
  BY <1>0
<1>6. Settle + n * period < Budget
  BY <1>0, <1>1, <1>2, <1>4, <1>5
<1>7. QED
  BY <1>6 DEF period

LEMMA InitNoticed == Init => Noticed
  BY DEF Init, Noticed, Watched, Overdue

LEMMA StepWatched == Typed /\ Watched /\ [Next]_vars => Watched'
<1> SUFFICES ASSUME Typed, Watched, [Next]_vars, pc' \in {"verify", "sample"}
             PROVE  attempt' = "resume" /\ live' \cup coming' \subseteq {"resume"}
  BY DEF Watched
<1>1. CASE AnswerOk \/ AnswerTimeout
  <2>1. pc = "start" /\ attempt = "resume" /\ attempt' = attempt
        /\ live' \cup coming' \subseteq live \cup coming \cup {attempt}
    BY <1>1 DEF AnswerOk, AnswerTimeout, Started
  <2>2. live \cup coming = {}
    BY <2>1 DEF Typed, Occupied, Alone, Belated
  <2>3. QED
    BY <2>1, <2>2
<1>2. CASE Begin \/ Busy \/ NameTaken \/ AnswerError \/ TransportTimeout \/ prefill
  BY <1>2 DEF Begin, Begin_start_agent, Busy, NameTaken, AnswerError, TransportTimeout,
              prefill, GaveUp, pane
<1>3. CASE Sleep \/ SampleAlive \/ SampleExited \/ SampleUnknown
  BY <1>3 DEF Sleep, SampleAlive, SampleExited, SampleUnknown, Resumed, Again,
              Begin_start_agent, pane, Watched
<1>4. CASE ShellSettles \/ UNCHANGED vars \/ \E a \in Attempts : AgentExits(a)
  BY <1>4 DEF ShellSettles, AgentExits, process, vars, pane, Watched
<1>5. CASE \E a \in Attempts : LateStart(a)
  BY <1>5 DEF LateStart, process, Watched
<1>6. QED
  BY <1>1, <1>2, <1>3, <1>4, <1>5 DEF Next, Restore

\* No step changes what the agent makes of its session, or forgets a failed sample.
LEMMA StepRejected == [Next]_vars => rejected' = rejected /\ (blind' = blind \/ blind' = TRUE)
<1>1. ASSUME Begin \/ AnswerOk \/ AnswerTimeout \/ Busy \/ NameTaken \/ AnswerError
      PROVE  rejected' = rejected /\ blind' = blind
  BY <1>1 DEF Begin, AnswerOk, AnswerTimeout, Busy, NameTaken, AnswerError, pane
<1>2. ASSUME TransportTimeout \/ prefill \/ Sleep
      PROVE  rejected' = rejected /\ blind' = blind
  BY <1>2 DEF TransportTimeout, prefill, Sleep, pane
<1>3. ASSUME SampleAlive \/ SampleExited \/ SampleUnknown
      PROVE  rejected' = rejected /\ (blind' = blind \/ blind' = TRUE)
  BY <1>3 DEF SampleAlive, SampleExited, SampleUnknown, Alive, Exited, Unknown, pane
<1>4. ASSUME ShellSettles \/ (\E a \in Attempts : AgentExits(a) \/ LateStart(a)) \/ UNCHANGED vars
      PROVE  rejected' = rejected /\ blind' = blind
  BY <1>4 DEF ShellSettles, AgentExits, LateStart, pane, vars
<1>5. QED
  BY <1>1, <1>2, <1>3, <1>4 DEF Next, Restore

LEMMA StepOverdue == Typed /\ Noticed /\ [Next]_vars => Overdue'
<1> SUFFICES ASSUME Typed, Noticed, [Next]_vars, rejected', ~blind', ~late' PROVE Overdue'
  BY DEF Overdue
<1> DEFINE period == Interval + SlowCall
<1>0. /\ elapsed \in Nat /\ streak \in Nat /\ period \in Nat
      /\ Settle \in Nat /\ Budget \in Nat /\ RejectMax \in Nat /\ ExitStreak \in Nat
      /\ Interval \in Nat /\ SlowCall \in Nat
      /\ RejectMax <= Settle /\ Settle <= Budget
  BY TimesAssumption, AgentAssumption, StreakFitsBudget DEF Typed, Counters
<1>01. ~late
  BY LateOnce DEF Typed, Occupied
<1>1. rejected /\ ~blind
  <2>1. rejected' = rejected /\ (blind' = blind \/ blind' = TRUE)
    BY StepRejected
  <2>2. rejected
    BY <2>1, Zenon
  <2>3. ASSUME blind' = blind PROVE ~blind
    BY <2>3, Zenon
  <2>4. blind' # TRUE
    BY Zenon
  <2>5. QED
    BY <2>1, <2>2, <2>3, <2>4, Zenon
<1>2. rejected /\ ~blind /\ ~late /\ report.resumed = 0
  BY <1>01, <1>1 DEF Noticed, Overdue
<1> HIDE DEF period
<1>4. CASE AnswerOk \/ AnswerTimeout
  <2>1. /\ pc' \in {"verify", "done"}
        /\ pc' = "verify" => elapsed' = 0 /\ streak' = 0
        /\ report' = report \/ Count("started_fresh")
    BY <1>4 DEF AnswerOk, AnswerTimeout, Started
  <2>2. report'.resumed = 0
    BY <1>2, <2>1 DEF Count, Typed, Tallied
  <2>3. 0 <= Settle + 0 * period /\ 0 <= Settle
    BY <1>0
  <2>4. QED
    BY <2>1, <2>2, <2>3 DEF Overdue, period
<1>5. CASE Begin \/ Busy \/ NameTaken \/ AnswerError \/ TransportTimeout \/ prefill
  <2>1. /\ pc' \in {"start", "prefill", "done"}
        /\ report' = report \/ Count("failed") \/ Count("prefilled")
    BY <1>5 DEF Begin, Begin_start_agent, Busy, NameTaken, AnswerError, TransportTimeout,
                prefill, GaveUp
  <2>2. report'.resumed = 0
    BY <1>2, <2>1 DEF Count, Typed, Tallied
  <2>3. QED
    BY <2>1, <2>2 DEF Overdue
<1>6. CASE Sleep
  <2>1. /\ pc = "verify" /\ pc' = "sample" /\ streak' = streak /\ report' = report
        /\ live' = live /\ elapsed' <= elapsed + period /\ elapsed' \in Nat
    BY <1>0, <1>6 DEF Sleep, pane, period
  <2>2. elapsed <= Settle + streak * period
    BY <1>2, <2>1 DEF Noticed, Overdue, period
  <2>3. (streak + 1) * period = streak * period + period /\ streak * period \in Nat
    BY <1>0
  <2>4. elapsed' <= Settle + (streak + 1) * period
    BY <1>0, <2>1, <2>2, <2>3
  <2>5. live # {} => elapsed' < RejectMax
    BY <1>2, <1>6, <2>1 DEF Sleep, Noticed, Watched
  <2>6. QED
    BY <1>2, <2>1, <2>4, <2>5 DEF Overdue, period
<1>7. CASE SampleAlive
  <2>1. pc = "sample" /\ live # {} /\ streak' = 0 /\ elapsed' = elapsed /\ live' = live
    BY <1>7 DEF SampleAlive, Alive, pane
  <2>2. elapsed < RejectMax
    BY <1>2, <2>1 DEF Noticed, Overdue
  <2>3. pc' = "verify" /\ report' = report
    BY <1>0, <1>7, <2>2 DEF SampleAlive, Trusted, Again
  <2>4. elapsed <= Settle + 0 * period /\ elapsed <= Settle
    BY <1>0, <2>2
  <2>5. QED
    BY <1>2, <2>1, <2>3, <2>4 DEF Overdue, period
<1>8. CASE SampleExited
  <2>1. pc = "sample" /\ streak' = streak + 1 /\ elapsed' = elapsed /\ live' = live
    BY <1>8 DEF SampleExited, pane
  <2>2. elapsed <= Settle + (streak + 1) * period
    BY <1>2, <2>1 DEF Noticed, Overdue, period
  <2>3. CASE streak' >= ExitStreak /\ Begin_start_agent("restart") /\ UNCHANGED report
    BY <1>2, <2>3 DEF Begin_start_agent, Overdue
  <2>4. CASE streak' < ExitStreak
    <3>1. elapsed < Budget
      <4>1. Settle + (streak + 1) * period < Budget
        BY <1>0, <2>1, <2>4, StreakFitsBudget DEF period
      <4>2. (streak + 1) * period \in Nat
        BY <1>0
      <4>3. QED
        BY <1>0, <2>2, <4>1, <4>2
    <3>2. pc' = "verify" /\ report' = report
      BY <1>0, <1>8, <2>1, <2>4, <3>1 DEF SampleExited, Again
    <3>3. live # {} => elapsed <= Settle
      <4>1. live # {} => elapsed < RejectMax
        BY <1>2, <2>1 DEF Noticed, Overdue
      <4>2. QED
        BY <1>0, <4>1
    <3>4. QED
      BY <1>2, <2>1, <2>2, <3>2, <3>3 DEF Overdue, period
  <2>5. QED
    BY <1>8, <2>3, <2>4 DEF SampleExited
<1>9. CASE SampleUnknown
  BY <1>9 DEF SampleUnknown, Unknown
<1>10. CASE ShellSettles \/ UNCHANGED vars
  <2>1. UNCHANGED <<pc, live, elapsed, streak, report>>
    BY <1>10 DEF ShellSettles, process, vars, pane
  <2>2. QED
    BY <1>2, <2>1 DEF Noticed, Overdue
<1>11. ASSUME NEW a \in Attempts, AgentExits(a) PROVE Overdue'
  <2>1. UNCHANGED <<pc, elapsed, streak, report>> /\ live # {}
    BY <1>11 DEF AgentExits, process
  <2>2. QED
    BY <1>2, <2>1 DEF Noticed, Overdue
<1>12. ASSUME NEW a \in Attempts, LateStart(a) PROVE Overdue'
  <2>1. UNCHANGED <<pc, report>> /\ pc \notin {"verify", "sample"}
    BY <1>01, <1>12 DEF LateStart, process, Typed, Occupied, Alone
  <2>2. QED
    BY <1>2, <2>1 DEF Overdue
<1>13. QED
  BY <1>4, <1>5, <1>6, <1>7, <1>8, <1>9, <1>10, <1>11, <1>12 DEF Next, Restore

LEMMA StepNoticed == Typed /\ Noticed /\ [Next]_vars => Noticed'
  BY StepWatched, StepOverdue DEF Noticed

\* An agent that rejected its session is never reported as resumed, for all budgets
\* that leave room for a streak after the settling time (AgentAssumption), unless a
\* sample failed or the agent came late (verify_agent).
THEOREM RejectedAgentsAreNoticed == Spec => []RejectedIsNoticed
<1>1. Noticed => RejectedIsNoticed
  BY DEF Noticed, Overdue, RejectedIsNoticed
<1>2. QED
  BY <1>1, InitTyped, StepTyped, InitNoticed, StepNoticed, PTL DEF Spec

(***************************************************************************)
(* What a pane runs, from the refresh that sees it to its restore.  What is *)
(* shown above of a start holds of the start in a restored pane as well, for *)
(* which the restore makes the initial state.                              *)
(***************************************************************************)
\* CompiledRerun refuses every command as soon as one deny pattern does not compile,
\* so what it allows no deny pattern was meant to match.
LEMMA AllowedIsMeant ==
  ASSUME NEW allow, NEW deny, NEW argv, rerun_allowed(allow, deny, argv)
  PROVE  /\ \E a \in allow : argv \in a.meant
         /\ \A d \in deny : argv \notin d.meant
  BY DEF rerun_allowed

\* What Enter is pressed on is what has been typed, and it has been allowed.
LEMMA EnteredIsAllowed ==
  ASSUME NEW argv, restore_command(argv), ran = {}
  PROVE  RunsOnlyAllowed'
<1>1. PICK mode \in {"off", "prefill", "run"}, allow \in SUBSET Patterns, deny \in SUBSET Patterns :
        /\ config' = [mode |-> mode, allow |-> allow, deny |-> deny]
        /\ CASE mode = "off"     -> UNCHANGED <<typed, ran, report>>
             [] mode = "prefill" -> TypeCommand(argv, FALSE)
             [] mode = "run"     -> TypeCommand(argv, rerun_allowed(allow, deny, argv))
  BY DEF restore_command
<1>2. CASE mode = "off" \/ mode = "prefill"
  <2>1. ran' = {}
    BY <1>1, <1>2 DEF TypeCommand
  <2>2. QED
    BY <2>1 DEF RunsOnlyAllowed
<1>3. CASE mode = "run"
  <2>1. TypeCommand(argv, rerun_allowed(allow, deny, argv))
    BY <1>1, <1>3
  <2>2. ran' \subseteq {argv} /\ (ran' # {} => rerun_allowed(allow, deny, argv))
    BY <2>1 DEF TypeCommand
  <2>3. /\ config'.mode = "run"
        /\ config'.allow = allow
        /\ config'.deny = deny
    BY <1>1, <1>3
  <2>4. QED
    BY <2>2, <2>3, AllowedIsMeant DEF RunsOnlyAllowed
<1>4. QED
  BY <1>2, <1>3

\* Before the reopen nothing has been entered.
Entered == stage # "reopened" => ran = {}

LEMMA StepEntered == Entered /\ RunsOnlyAllowed /\ [OccupantNext]_<<occupant, vars>>
                     => Entered' /\ RunsOnlyAllowed'
<1> SUFFICES ASSUME Entered, RunsOnlyAllowed, [OccupantNext]_<<occupant, vars>>
             PROVE  Entered' /\ RunsOnlyAllowed'
  OBVIOUS
<1>1. CASE OldPane
  <2>1. UNCHANGED restored /\ (stage' = stage \/ stage # "reopened")
    <3>1. ASSUME NEW r \in Refreshes, Refresh(r) PROVE UNCHANGED <<stage, restored>>
      BY <3>1 DEF Refresh, StartRefresh, ListPane, SkipSample, SamplePane, MissSample,
                  ConfirmSample, SkipConfirm, WriteSnapshot
    <3>2. CASE \E argv \in Commands : Launch(argv)
      BY <3>2 DEF Launch
    <3>3. CASE \E p \in front : Exit(p)
      BY <3>3 DEF Exit
    <3>4. CASE SeedPane \/ AgentDetected \/ Tick \/ Close
      BY <3>4 DEF SeedPane, AgentDetected, Tick, Close
    <3>5. QED
      BY <1>1, <3>1, <3>2, <3>3, <3>4 DEF OldPane
  <2>2. QED
    BY <2>1 DEF Entered, RunsOnlyAllowed, restored
<1>2. CASE restore_occupant
  <2>1. ran = {} /\ stage' = "reopened"
    BY <1>2 DEF restore_occupant, Entered
  <2>2. CASE UNCHANGED <<config, typed, ran>>
    BY <2>1, <2>2 DEF Entered, RunsOnlyAllowed
  <2>3. CASE restore_command(shadow.fg.argv)
    BY <2>1, <2>3, EnteredIsAllowed DEF Entered
  <2>4. QED
    BY <1>2, <2>2, <2>3 DEF restore_occupant
<1>3. CASE NewPane \/ UNCHANGED <<occupant, vars>>
  <2>1. UNCHANGED <<stage, config, ran>>
    BY <1>3 DEF NewPane, occupant, restored
  <2>2. QED
    BY <2>1 DEF Entered, RunsOnlyAllowed
<1>4. QED
  BY <1>1, <1>2, <1>3 DEF OccupantNext

\* Enter is pressed only on a command that an allow pattern matches and no deny pattern
\* was meant to match, whatever the patterns (CompiledRerun, rerun_allowed).
THEOREM OnlyAllowedRuns == OccupantSpec => []RunsOnlyAllowed
<1>1. OccupantInit => Entered /\ RunsOnlyAllowed
  BY DEF OccupantInit, Entered, RunsOnlyAllowed
<1>2. QED
  BY <1>1, StepEntered, PTL DEF OccupantSpec

(***************************************************************************)
(* What the record and the samples say of the open pane.                   *)
(***************************************************************************)
Process(c) == [pid |-> c.pid, argv |-> c.argv]
Runs(c) == c # None /\ Process(c) \in front

\* A record is of the oldest candidate while its process runs, for younger ones come
\* after it; it is of a running one if its sample is younger than the last change.
Recorded(c) ==
  \/ c = None
  \/ /\ c \in [argv : Commands, pid : Nat, at : Nat]
     /\ c.pid < pids /\ c.at <= now
     /\ Runs(c) => \A o \in front : is_candidate(o) => c.pid <= o.pid
     /\ c.at > changed => Runs(c)

IsCurrent(c) ==
  IF c = None THEN \A o \in front : ~is_candidate(o) ELSE Runs(c)

\* What began a TTL after the last change has it right.
Exact(taken, detected, c) ==
  taken >= changed + TTL => detected = agent /\ (agent = FALSE => IsCurrent(c))

FrontInv ==
  /\ front \in SUBSET [pid : Nat, argv : Commands \cup {Shell}]
  /\ \A p \in front : p.pid < pids
  /\ \A p, q \in front : p.pid = q.pid => p = q
  /\ pids \in Nat /\ now \in Nat /\ changed \in 0 .. now /\ agent \in BOOLEAN

ShadowInv ==
  /\ shadow \in [taken : 0 .. now, agent : BOOLEAN, fg : {shadow.fg}]
  /\ Recorded(shadow.fg)
  /\ Exact(shadow.taken, shadow.agent, shadow.fg)

\* A refresh has found what its hint says unless that has ended.
RefInv(r) ==
  /\ ref[r] \in [pc : {"idle", "list", "sample", "confirm", "write"}, at : 0 .. now,
                 agent : BOOLEAN, hint : {ref[r].hint}, fg : {ref[r].fg}]
  /\ Recorded(ref[r].hint) /\ Recorded(ref[r].fg)
  /\ ref[r].pc \in {"sample", "confirm"} =>
       ref[r].agent = FALSE /\ (ref[r].at >= changed + TTL => agent = FALSE)
  /\ ref[r].pc = "confirm" =>
       ref[r].fg # None /\ ref[r].fg.at = ref[r].at /\ ~Runs(ref[r].hint)
  /\ ref[r].pc = "write" => Exact(ref[r].at, ref[r].agent, ref[r].fg)
  /\ ref[r].pc = "write" /\ ref[r].agent = FALSE /\ Runs(ref[r].hint) =>
       Argv(ref[r].fg) = ref[r].hint.argv

RefsInv == ref = [r \in Refreshes |-> ref[r]] /\ \A r \in Refreshes : RefInv(r)

OpenInv == FrontInv /\ ShadowInv /\ RefsInv

LEMMA InitOpen == OccupantInit => OpenInv
<1> SUFFICES ASSUME OccupantInit PROVE OpenInv
  OBVIOUS
<1> USE OccupantBounds, CommandsAssumption
<1>0. /\ front = {[pid |-> 0, argv |-> Shell]} /\ pids = 1 /\ now = 0 /\ changed = 0 /\ agent = FALSE
      /\ shadow = [taken |-> 0, agent |-> FALSE, fg |-> None]
      /\ TTL \in Nat /\ TTL > 0
  BY DEF OccupantInit
<1>1. FrontInv
  <2>1. \A p \in front : p = [pid |-> 0, argv |-> Shell]
    BY <1>0
  <2>2. [pid |-> 0, argv |-> Shell] \in [pid : Nat, argv : Commands \cup {Shell}]
    OBVIOUS
  <2>3. changed \in 0 .. now
    BY <1>0
  <2>4. agent \in BOOLEAN
    BY <1>0, Zenon
  <2>5. QED
    BY <1>0, <2>1, <2>2, <2>3, <2>4 DEF FrontInv
<1>2. ShadowInv
  <2>1. 0 \in 0 .. 0 /\ FALSE \in BOOLEAN /\ ~(0 >= 0 + TTL)
    BY <1>0
  <2>2. QED
    BY <1>0, <2>1 DEF ShadowInv, Recorded, Exact
<1>3. RefsInv
  BY DEF OccupantInit, RefsInv, RefInv, Idle, Recorded
<1>4. QED
  BY <1>1, <1>2, <1>3 DEF OpenInv

\* Among some processes one is the oldest: the numbers up to a process id are a
\* finite set, and inclusion of finite sets is well founded.
LEMMA OneIsOldest ==
  ASSUME NEW P, P # {}, \A p \in P : p.pid \in Nat
  PROVE  \E q \in P : \A o \in P : q.pid <= o.pid
<1> DEFINE UpTo == {0 .. p.pid : p \in P}
           R == StrictSubsetOrdering(Nat)
<1>1. UpTo \subseteq FiniteSubsetsOf(Nat)
  <2> SUFFICES ASSUME NEW p \in P PROVE 0 .. p.pid \in FiniteSubsetsOf(Nat)
    OBVIOUS
  <2>1. 0 \in Int /\ p.pid \in Int /\ 0 .. p.pid \subseteq Nat
    OBVIOUS
  <2>2. QED
    BY <2>1, FS_Interval DEF FiniteSubsetsOf
<1>2. UpTo # {}
  OBVIOUS
<1>3. \E b \in UpTo : \A c \in UpTo : <<c, b>> \notin R
  <2> HIDE DEF UpTo, R
  <2>1. IsWellFoundedOn(StrictSubsetOrdering(Nat), FiniteSubsetsOf(Nat))
    BY FS_StrictSubsetOrderingWellFounded
  <2>2. QED
    BY <1>1, <1>2, <2>1, WFMin DEF R
<1>4. PICK q \in P : \A o \in P : <<0 .. o.pid, 0 .. q.pid>> \notin R
  BY <1>3
<1>5. ASSUME NEW o \in P, ~(q.pid <= o.pid) PROVE FALSE
  <2>1. q.pid \in Nat /\ o.pid \in Nat
    OBVIOUS
  <2>2. 0 .. o.pid \subseteq 0 .. q.pid /\ q.pid \in 0 .. q.pid /\ q.pid \notin 0 .. o.pid
    BY <1>5, <2>1
  <2>3. 0 .. o.pid \in SUBSET Nat /\ 0 .. q.pid \in SUBSET Nat
    BY <2>1
  <2>4. <<0 .. o.pid, 0 .. q.pid>> \in R
    BY <2>2, <2>3 DEF StrictSubsetOrdering
  <2>5. QED
    BY <1>4, <2>4
<1>6. QED
  BY <1>5

\* A sample is of the oldest candidate.
LEMMA PickedIsFirst ==
  ASSUME FrontInv, NEW at \in 0 .. now
  PROVE  LET c == pick_foreground(front, at)
         IN  /\ Recorded(c) /\ IsCurrent(c)
             /\ c # None => c.at = at
<1> DEFINE candidates == {p \in front : is_candidate(p)}
           c == pick_foreground(front, at)
<1>1. CASE candidates = {}
  BY <1>1 DEF pick_foreground, Recorded, IsCurrent
<1>2. CASE candidates # {}
  <2> DEFINE p == CHOOSE q \in candidates : \A o \in candidates : q.pid <= o.pid
  <2>3. p \in candidates /\ \A o \in candidates : p.pid <= o.pid
    <3>1. \E q \in candidates : \A o \in candidates : q.pid <= o.pid
      <4>1. \A q \in candidates : q.pid \in Nat
        BY DEF FrontInv
      <4> HIDE DEF candidates
      <4>2. QED
        BY <1>2, <4>1, OneIsOldest
    <3>2. QED
      BY <3>1
  <2>4. c = [argv |-> p.argv, pid |-> p.pid, at |-> at]
    BY <1>2 DEF pick_foreground
  <2> HIDE DEF p, c
  <2>5. p \in front /\ p.argv \in Commands /\ p \in [pid : Nat, argv : Commands \cup {Shell}]
    BY <2>3 DEF is_candidate, FrontInv
  <2>6. c \in [argv : Commands, pid : Nat, at : Nat] /\ c # None
    BY <2>4, <2>5, CommandsAssumption DEF FrontInv
  <2>7. Process(c) = p /\ c.pid = p.pid /\ c.at = at
    BY <2>4, <2>5 DEF Process
  <2>8. QED
    BY <2>3, <2>5, <2>6, <2>7 DEF Runs, Recorded, IsCurrent, FrontInv, c
<1>3. QED
  BY <1>1, <1>2

(***************************************************************************)
(* A step that leaves the pane's foreground alone.                         *)
(***************************************************************************)
Quiet == UNCHANGED <<now, changed, front, pids, agent>>

\* The refreshes that take no part in a quiet step keep what they have found.
LEMMA QuietOthers ==
  ASSUME OpenInv, Quiet, NEW r \in Refreshes,
         ref' = [ref EXCEPT ![r] = ref'[r]]
  PROVE  /\ FrontInv'
         /\ \A s \in Refreshes : s # r => RefInv(s)'
         /\ ref' = [s \in Refreshes |-> ref'[s]]
<1>1. FrontInv'
  BY DEF OpenInv, FrontInv, Quiet
<1>2. ASSUME NEW s \in Refreshes, s # r PROVE RefInv(s)'
  <2>1. ref'[s] = ref[s] /\ RefInv(s)
    BY <1>2 DEF OpenInv, RefsInv
  <2>2. QED
    BY <2>1 DEF RefInv, Recorded, Runs, Exact, IsCurrent, Quiet
<1>3. QED
  BY <1>1, <1>2 DEF OpenInv, RefsInv

LEMMA QuietShadow ==
  ASSUME OpenInv, Quiet, shadow' = shadow
  PROVE  ShadowInv'
  BY DEF OpenInv, ShadowInv, Recorded, Runs, Exact, IsCurrent, Quiet

\* A step of a refresh short of its write.
LEMMA QuietRef ==
  ASSUME OpenInv, Quiet, NEW r \in Refreshes, shadow' = shadow,
         ref' = [ref EXCEPT ![r] = ref'[r]], RefInv(r)'
  PROVE  OpenInv'
  BY QuietOthers, QuietShadow DEF OpenInv, RefsInv

\* A refresh has found c and goes on to its second sample or its write.
LEMMA FoundOpen ==
  ASSUME OpenInv, Quiet, NEW r \in Refreshes, shadow' = shadow,
         NEW c, NEW to \in {"confirm", "write"},
         ref' = [ref EXCEPT ![r] = [ref[r] EXCEPT !.fg = c, !.pc = to]],
         ref[r].pc \in {"sample", "confirm"},
         Recorded(c),
         to = "confirm" => c # None /\ c.at = ref[r].at /\ ~Runs(ref[r].hint),
         to = "write" => /\ ref[r].at >= changed + TTL => IsCurrent(c)
                         /\ Runs(ref[r].hint) => Argv(c) = ref[r].hint.argv
  PROVE  OpenInv'
<1>1. RefInv(r) /\ ref'[r] = [ref[r] EXCEPT !.fg = c, !.pc = to]
  BY DEF OpenInv, RefsInv
<1>2. /\ ref'[r].pc = to /\ ref'[r].fg = c
      /\ ref'[r].hint = ref[r].hint /\ ref'[r].at = ref[r].at
      /\ ref'[r].agent = FALSE
  <2>1. ref[r].agent = FALSE
    BY <1>1 DEF RefInv
  <2>2. ref[r] \in [pc : {"idle", "list", "sample", "confirm", "write"}, at : 0 .. now,
                    agent : BOOLEAN, hint : {ref[r].hint}, fg : {ref[r].fg}]
    BY <1>1 DEF RefInv
  <2>3. ref'[r].pc = to /\ ref'[r].fg = c
    BY <1>1, <2>2
  <2>4. ref'[r].hint = ref[r].hint
    BY <1>1, <2>2
  <2>5. ref'[r].at = ref[r].at
    BY <1>1, <2>2
  <2>6. ref'[r].agent = ref[r].agent
    BY <1>1, <2>2
  <2>7. QED
    BY <2>1, <2>3, <2>4, <2>5, <2>6
<1>3. ref'[r] \in [pc : {"idle", "list", "sample", "confirm", "write"}, at : 0 .. now',
                   agent : BOOLEAN, hint : {ref'[r].hint}, fg : {ref'[r].fg}]
  BY <1>1, <1>2 DEF RefInv, Quiet
<1>4. /\ Recorded(ref[r].hint)' /\ (Runs(ref[r].hint)' => Runs(ref[r].hint))
  <2>1. ref'[r].hint = ref[r].hint /\ Recorded(ref[r].hint)
    BY <1>1, <1>2 DEF RefInv
  <2>2. QED
    BY <2>1 DEF Recorded, Runs, Quiet
<1>5. Recorded(ref[r].fg)'
  BY <1>2 DEF Recorded, Runs, Quiet
<1>6. ref[r].agent = FALSE /\ (ref[r].at >= changed + TTL => agent = FALSE)
  BY <1>1 DEF RefInv
<1>7. to = "write" => Exact(ref[r].at, ref[r].agent, ref[r].fg)'
  <2> SUFFICES ASSUME to = "write", ref'[r].at >= changed' + TTL
               PROVE  ref'[r].agent = agent' /\ IsCurrent(ref[r].fg)'
    BY DEF Exact
  <2>1. ref[r].at >= changed + TTL
    BY <1>2 DEF Quiet
  <2>2. ref'[r].agent = agent'
    BY <1>2, <1>6, <2>1 DEF Quiet
  <2>3. IsCurrent(c)
    BY <2>1
  <2>4. IsCurrent(ref[r].fg)'
    BY <1>2, <2>3 DEF IsCurrent, Runs, Quiet
  <2>5. QED
    BY <2>2, <2>4
<1>8. RefInv(r)'
  BY <1>2, <1>3, <1>4, <1>5, <1>6, <1>7 DEF RefInv, Quiet
<1>9. QED
  BY <1>1, <1>8, QuietRef

LEMMA OpenStart ==
  ASSUME OpenInv, NEW r \in Refreshes, StartRefresh(r)
  PROVE  OpenInv'
<1>1. Quiet /\ shadow' = shadow /\ ref[r].pc = "idle"
      /\ ref' = [ref EXCEPT ![r] = [ref[r] EXCEPT !.pc = "list", !.at = now]]
  BY DEF StartRefresh, Quiet, OpenInv, RefsInv
<1>2. RefInv(r)
  BY DEF OpenInv, RefsInv
<1>3. ref'[r] = [ref[r] EXCEPT !.pc = "list", !.at = now]
  BY <1>1 DEF OpenInv, RefsInv
<1>4. ref'[r] \in [pc : {"list"}, at : {now}, agent : BOOLEAN,
                   hint : {ref[r].hint}, fg : {ref[r].fg}]
  BY <1>2, <1>3 DEF RefInv
<1>5. ref'[r].hint = ref[r].hint /\ ref'[r].fg = ref[r].fg /\ now' = now /\ now \in 0 .. now
  BY <1>1, <1>4 DEF Quiet, OpenInv, FrontInv
<1>6. Recorded(ref[r].hint)' /\ Recorded(ref[r].fg)'
  BY <1>1, <1>2, <1>5 DEF RefInv, Recorded, Runs, Quiet
<1>7. RefInv(r)'
  BY <1>4, <1>5, <1>6 DEF RefInv
<1>8. QED
  BY <1>1, <1>3, <1>7, QuietRef

LEMMA OpenList ==
  ASSUME OpenInv, NEW r \in Refreshes, ListPane(r)
  PROVE  OpenInv'
<1>1. Quiet /\ shadow' = shadow /\ ref[r].pc = "list"
      /\ ref' = [ref EXCEPT ![r] = [ref[r] EXCEPT !.pc = IF agent THEN "write" ELSE "sample",
                                       !.agent = agent, !.hint = shadow.fg]]
  BY DEF ListPane, Quiet, OpenInv, RefsInv
<1>2. RefInv(r) /\ ShadowInv /\ agent \in BOOLEAN
  BY DEF OpenInv, RefsInv, FrontInv
<1>3. ref'[r] = [ref[r] EXCEPT !.pc = IF agent THEN "write" ELSE "sample",
                               !.agent = agent, !.hint = shadow.fg]
  BY <1>1 DEF OpenInv, RefsInv
<1>4. Recorded(ref[r].hint)'
  <2>1. ref'[r].hint = shadow.fg /\ Recorded(shadow.fg)
    BY <1>2, <1>3 DEF RefInv, ShadowInv
  <2>2. QED
    BY <1>1, <2>1 DEF Recorded, Runs, Quiet
<1>5. Recorded(ref[r].fg)'
  <2>1. ref'[r].fg = ref[r].fg /\ Recorded(ref[r].fg)
    BY <1>2, <1>3 DEF RefInv
  <2>2. QED
    BY <1>1, <2>1 DEF Recorded, Runs, Quiet
<1>6. RefInv(r)'
  <2>1. CASE agent = TRUE
    <3>1. ref'[r] = [ref[r] EXCEPT !.pc = "write", !.agent = TRUE, !.hint = shadow.fg]
      BY <1>3, <2>1
    <3>2. ref'[r] \in [pc : {"write"}, at : 0 .. now, agent : {TRUE},
                       hint : {shadow.fg}, fg : {ref[r].fg}]
      BY <1>2, <3>1 DEF RefInv
    <3>3. Exact(ref[r].at, ref[r].agent, ref[r].fg)'
      BY <1>1, <2>1, <3>2 DEF Exact, Quiet
    <3>4. QED
      BY <1>1, <1>4, <1>5, <3>2, <3>3 DEF RefInv, Quiet
  <2>2. CASE agent = FALSE
    <3>1. ref'[r] = [ref[r] EXCEPT !.pc = "sample", !.agent = FALSE, !.hint = shadow.fg]
      BY <1>3, <2>2
    <3>2. ref'[r] \in [pc : {"sample"}, at : 0 .. now, agent : {FALSE},
                       hint : {shadow.fg}, fg : {ref[r].fg}]
      BY <1>2, <3>1 DEF RefInv
    <3>3. QED
      BY <1>1, <1>4, <1>5, <2>2, <3>2 DEF RefInv, Quiet
  <2>3. QED
    BY <1>2, <2>1, <2>2
<1>7. QED
  BY <1>1, <1>3, <1>6, QuietRef

\* A young record was sampled after the last change if the refresh began a TTL after it.
LEMMA OpenSkip ==
  ASSUME OpenInv, NEW r \in Refreshes, SkipSample(r)
  PROVE  OpenInv'
<1>1. Quiet /\ shadow' = shadow /\ ref[r].pc = "sample" /\ fresh(ref[r].hint, ref[r].at)
      /\ ref' = [ref EXCEPT ![r] = [ref[r] EXCEPT !.fg = ref[r].hint, !.pc = "write"]]
  BY DEF SkipSample, Found, Quiet, OpenInv, RefsInv
<1>2. RefInv(r)
  BY DEF OpenInv, RefsInv
<1>3. ref[r].at >= changed + TTL => Runs(ref[r].hint)
  BY <1>1, <1>2, OccupantBounds DEF RefInv, Recorded, fresh, OpenInv, FrontInv
<1>4. /\ Recorded(ref[r].hint)
      /\ ref[r].at >= changed + TTL => IsCurrent(ref[r].hint)
      /\ Runs(ref[r].hint) => Argv(ref[r].hint) = ref[r].hint.argv
  BY <1>2, <1>3 DEF RefInv, IsCurrent, Runs, Argv
<1>5. QED
  BY <1>1, <1>4, FoundOpen

LEMMA OpenSample ==
  ASSUME OpenInv, NEW r \in Refreshes, SamplePane(r)
  PROVE  OpenInv'
<1> DEFINE picked == pick_foreground(front, ref[r].at)
           next == IF is_new(picked, ref[r].hint) THEN "confirm" ELSE "write"
<1>1. Quiet /\ shadow' = shadow /\ ref[r].pc = "sample"
      /\ ref' = [ref EXCEPT ![r] = [ref[r] EXCEPT !.fg = picked, !.pc = next]]
  BY DEF SamplePane, Found, Quiet, OpenInv, RefsInv
<1>2. RefInv(r) /\ FrontInv
  BY DEF OpenInv, RefsInv
<1>4. Recorded(picked) /\ IsCurrent(picked) /\ (picked # None => picked.at = ref[r].at)
  BY <1>2, PickedIsFirst DEF RefInv
<1> HIDE DEF picked
\* What the hint says, if it runs, is the oldest candidate, and that is picked.
<1>5. Runs(ref[r].hint) => picked # None /\ picked.argv = ref[r].hint.argv
  <2> SUFFICES ASSUME Runs(ref[r].hint)
               PROVE  picked # None /\ picked.argv = ref[r].hint.argv
    OBVIOUS
  <2> DEFINE h == ref[r].hint
  <2>1. /\ h \in [argv : Commands, pid : Nat, at : Nat]
        /\ Process(h) \in front
        /\ \A o \in front : is_candidate(o) => h.pid <= o.pid
    BY <1>2 DEF RefInv, Recorded, Runs
  <2>2. is_candidate(Process(h)) /\ Process(h).pid = h.pid /\ Process(h).argv = h.argv
    BY <2>1 DEF is_candidate, Process
  <2>3. picked # None
    BY <1>4, <2>1, <2>2 DEF IsCurrent
  <2>4. /\ picked \in [argv : Commands, pid : Nat, at : Nat]
        /\ Process(picked) \in front
        /\ \A o \in front : is_candidate(o) => picked.pid <= o.pid
    BY <1>4, <2>3 DEF Recorded, IsCurrent, Runs
  <2>5. is_candidate(Process(picked)) /\ Process(picked).pid = picked.pid
        /\ Process(picked).argv = picked.argv
    BY <2>4 DEF is_candidate, Process
  <2>6. picked.pid = h.pid
    BY <2>1, <2>2, <2>4, <2>5
  <2>7. Process(picked) = Process(h)
    BY <1>2, <2>1, <2>2, <2>4, <2>5, <2>6 DEF FrontInv
  <2>8. QED
    BY <2>2, <2>3, <2>5, <2>7
<1>6. CASE is_new(picked, ref[r].hint)
  <2>1. ref' = [ref EXCEPT ![r] = [ref[r] EXCEPT !.fg = picked, !.pc = "confirm"]]
    BY <1>1, <1>6
  <2>2. ~Runs(ref[r].hint) /\ picked # None /\ picked.at = ref[r].at
    BY <1>4, <1>5, <1>6 DEF is_new, Argv, Runs
  <2>3. QED
    BY <1>1, <1>4, <2>1, <2>2, FoundOpen
<1>7. CASE ~is_new(picked, ref[r].hint)
  <2>1. ref' = [ref EXCEPT ![r] = [ref[r] EXCEPT !.fg = picked, !.pc = "write"]]
    BY <1>1, <1>7
  <2>2. Runs(ref[r].hint) => Argv(picked) = ref[r].hint.argv
    BY <1>5 DEF Argv
  <2>3. QED
    BY <1>1, <1>4, <2>1, <2>2, FoundOpen
<1>8. QED
  BY <1>6, <1>7

\* The second sample finds the first still there if nothing has changed.
LEMMA OpenConfirm ==
  ASSUME OpenInv, NEW r \in Refreshes, ConfirmSample(r)
  PROVE  OpenInv'
<1> DEFINE cmd == ref[r].fg
           second == pick_foreground(front, now)
           replacement == IF Argv(second) = cmd.argv THEN None ELSE second
           found == IF confirms(front, cmd) THEN cmd ELSE replacement
<1>1. Quiet /\ shadow' = shadow /\ ref[r].pc = "confirm"
      /\ ref' = [ref EXCEPT ![r] = [ref[r] EXCEPT !.fg = found, !.pc = "write"]]
  BY DEF ConfirmSample, Found, Quiet, OpenInv, RefsInv
<1>2. RefInv(r) /\ FrontInv
  BY DEF OpenInv, RefsInv
<1>4. Recorded(second)
  BY <1>2, PickedIsFirst DEF FrontInv
<1> HIDE DEF second
<1>5. ref[r].at >= changed + TTL => agent = FALSE /\ Runs(cmd)
  BY <1>1, <1>2, OccupantBounds DEF RefInv, Recorded, FrontInv
<1>6. Recorded(found) /\ (Runs(cmd) => found = cmd)
  BY <1>2, <1>4 DEF RefInv, confirms, Runs, Process, Recorded
<1> HIDE DEF found
<1>7. /\ ref[r].at >= changed + TTL => IsCurrent(found)
      /\ ~Runs(ref[r].hint)
  BY <1>1, <1>2, <1>5, <1>6 DEF RefInv, IsCurrent, Runs
<1>8. QED
  BY <1>1, <1>6, <1>7, FoundOpen

LEMMA OpenUnconfirmed ==
  ASSUME OpenInv, NEW r \in Refreshes, SkipConfirm(r)
  PROVE  OpenInv'
<1>1. Quiet /\ shadow' = shadow /\ ref[r].pc = "confirm"
      /\ ref' = [ref EXCEPT ![r] = [ref[r] EXCEPT !.fg = ref[r].fg, !.pc = "write"]]
  BY DEF SkipConfirm, Found, Quiet, OpenInv, RefsInv
<1>2. RefInv(r)
  BY DEF OpenInv, RefsInv
<1>3. ref[r].at >= changed + TTL => Runs(ref[r].fg)
  BY <1>1, <1>2, OccupantBounds DEF RefInv, Recorded, OpenInv, FrontInv
<1>4. /\ Recorded(ref[r].fg) /\ ~Runs(ref[r].hint)
      /\ ref[r].at >= changed + TTL => IsCurrent(ref[r].fg)
  BY <1>1, <1>2, <1>3 DEF RefInv, IsCurrent, Runs
<1>5. QED
  BY <1>1, <1>4, FoundOpen

LEMMA OpenWrite ==
  ASSUME OpenInv, NEW r \in Refreshes, WriteSnapshot(r)
  PROVE  OpenInv'
<1>1. Quiet /\ ref[r].pc = "write" /\ ref' = [ref EXCEPT ![r] = Idle]
  BY DEF WriteSnapshot, Quiet
<1>2. ref'[r] = Idle
  BY <1>1 DEF OpenInv, RefsInv
<1>3. RefInv(r)'
  BY <1>1, <1>2 DEF RefInv, Idle, Recorded, Runs, Quiet, OpenInv, FrontInv
<1>4. ShadowInv'
  <2>1. CASE shadow.taken > ref[r].at
    <3>1. shadow' = shadow
      BY <2>1 DEF WriteSnapshot
    <3>2. QED
      BY <1>1, <3>1, QuietShadow
  <2>2. CASE ~(shadow.taken > ref[r].at)
    <3>1. shadow' = [taken |-> ref[r].at, agent |-> ref[r].agent, fg |-> ref[r].fg]
      BY <2>2 DEF WriteSnapshot
    <3>2. RefInv(r)
      BY DEF OpenInv, RefsInv
    <3>3. QED
      BY <1>1, <3>1, <3>2 DEF RefInv, ShadowInv, Recorded, Runs, Exact, IsCurrent, Quiet
  <2>3. QED
    BY <2>1, <2>2
<1>5. QED
  BY <1>1, <1>2, <1>3, <1>4, QuietOthers DEF OpenInv, RefsInv

(***************************************************************************)
(* A step that changes the foreground, or makes the record worthless.      *)
(***************************************************************************)
\* Old processes may end, and a new one is younger than all that were.
Loud ==
  /\ changed' = now /\ now' = now
  /\ pids' \in {pids, pids + 1}
  /\ \A p \in front' : p \in front \/ p.pid = pids

LEMMA LoudRecords ==
  ASSUME FrontInv, Loud, FrontInv'
  PROVE  /\ \A r \in Refreshes : RefInv(r) /\ ref'[r] = ref[r] => RefInv(r)'
         /\ ShadowInv /\ shadow' = shadow => ShadowInv'
<1> USE OccupantBounds
<1>0. changed' = now /\ now' = now /\ pids \in Nat /\ pids' \in Nat /\ pids <= pids' /\ now \in Nat
      /\ TTL \in Nat /\ TTL > 0
  BY DEF Loud, FrontInv
<1>1. ASSUME NEW r \in Refreshes, RefInv(r), ref'[r] = ref[r] PROVE RefInv(r)'
  <2>1. Recorded(ref[r].hint)' /\ (Runs(ref[r].hint)' => Runs(ref[r].hint))
    BY <1>0, <1>1 DEF RefInv, Recorded, Runs, Process, Loud, is_candidate
  <2>2. Recorded(ref[r].fg)'
    BY <1>0, <1>1 DEF RefInv, Recorded, Runs, Process, Loud, is_candidate
  <2>3. ~(ref'[r].at >= changed' + TTL)
    BY <1>0, <1>1 DEF RefInv
  <2>4. QED
    BY <1>0, <1>1, <2>1, <2>2, <2>3 DEF RefInv, Exact
<1>2. ASSUME ShadowInv, shadow' = shadow PROVE ShadowInv'
  <2>1. Recorded(shadow.fg)'
    BY <1>0, <1>2 DEF ShadowInv, Recorded, Runs, Process, Loud, is_candidate
  <2>2. ~(shadow'.taken >= changed' + TTL)
    BY <1>0, <1>2 DEF ShadowInv
  <2>3. QED
    BY <1>0, <1>2, <2>1, <2>2 DEF ShadowInv, Exact
<1>3. QED
  BY <1>1, <1>2

LEMMA OpenMiss ==
  ASSUME OpenInv, NEW r \in Refreshes, MissSample(r)
  PROVE  OpenInv'
<1>1. Loud /\ shadow' = shadow /\ ref[r].pc = "sample" /\ agent' = agent
      /\ ref' = [ref EXCEPT ![r] = [ref[r] EXCEPT !.fg = ref[r].hint, !.pc = "write"]]
  BY DEF MissSample, Found, Loud, OpenInv, RefsInv
<1>2. RefInv(r) /\ FrontInv /\ ShadowInv
  BY DEF OpenInv, RefsInv
<1>3. ref'[r] = [ref[r] EXCEPT !.fg = ref[r].hint, !.pc = "write"]
  BY <1>1 DEF OpenInv, RefsInv
<1>4. FrontInv'
  BY <1>2 DEF MissSample, FrontInv
<1>5. ref'[r] \in [pc : {"write"}, at : 0 .. now, agent : BOOLEAN,
                   hint : {ref[r].hint}, fg : {ref[r].hint}]
  BY <1>2, <1>3 DEF RefInv
<1>6. Recorded(ref[r].hint)' /\ Recorded(ref[r].fg)'
  BY <1>2, <1>5 DEF MissSample, RefInv, FrontInv, Recorded, Runs
<1>7. Exact(ref[r].at, ref[r].agent, ref[r].fg)'
  <2>1. now \in Nat /\ TTL \in Nat /\ TTL > 0 /\ ref'[r].at \in 0 .. now /\ changed' = now
    BY <1>1, <1>2, <1>5, OccupantBounds DEF Loud, FrontInv
  <2>2. ~(ref'[r].at >= changed' + TTL)
    BY <2>1
  <2>3. QED
    BY <2>2 DEF Exact
<1>8. RefInv(r)'
  BY <1>1, <1>5, <1>6, <1>7 DEF RefInv, Argv, Runs, Loud
<1>9. \A s \in Refreshes : s # r => RefInv(s)'
  BY <1>1, <1>2, <1>4, LoudRecords DEF OpenInv, RefsInv
<1>10. ShadowInv'
  BY <1>1, <1>2, <1>4, LoudRecords
<1>11. ref' = [s \in Refreshes |-> ref'[s]]
  BY <1>1 DEF OpenInv, RefsInv
<1>12. QED
  BY <1>4, <1>8, <1>9, <1>10, <1>11 DEF OpenInv, RefsInv

LEMMA OpenForeground ==
  ASSUME OpenInv,
         \/ \E argv \in Commands : Launch(argv)
         \/ \E p \in front : Exit(p)
         \/ SeedPane \/ AgentDetected
  PROVE  OpenInv'
<1>1. Loud /\ ref' = ref
  BY DEF Launch, Exit, SeedPane, AgentDetected, Loud
<1>2. FrontInv'
  <2>0. FrontInv
    BY DEF OpenInv
  <2>1. ASSUME NEW argv \in Commands, Launch(argv) PROVE FrontInv'
    <3> DEFINE p == [pid |-> pids, argv |-> argv]
    <3>1. /\ front' = front \cup {p} /\ pids' = pids + 1 /\ changed' = now /\ now' = now
          /\ agent' = agent
      BY <2>1 DEF Launch
    <3>2. p \in [pid : Nat, argv : Commands \cup {Shell}] /\ p.pid = pids
      BY <2>0 DEF FrontInv
    <3> HIDE DEF p
    <3>3. QED
      BY <2>0, <3>1, <3>2 DEF FrontInv
  <2>2. ASSUME NEW p \in front, Exit(p) PROVE FrontInv'
    BY <2>0, <2>2 DEF FrontInv, Exit
  <2>3. CASE SeedPane
    BY <2>0, <2>3 DEF FrontInv, SeedPane
  <2>4. CASE AgentDetected
    <3>1. agent' \in BOOLEAN
      BY <2>4, Zenon DEF AgentDetected
    <3>2. QED
      BY <2>0, <2>4, <3>1 DEF FrontInv, AgentDetected
  <2>5. QED
    BY <2>1, <2>2, <2>3, <2>4
<1>3. RefsInv'
  BY <1>1, <1>2, LoudRecords DEF OpenInv, RefsInv
<1>4. ShadowInv'
  <2>1. CASE SeedPane
    <3>1. shadow' = [shadow EXCEPT !.agent = FALSE, !.fg = None]
      BY <2>1 DEF SeedPane
    <3>2. shadow' \in [taken : 0 .. now, agent : BOOLEAN, fg : {None}]
      BY <3>1 DEF OpenInv, ShadowInv
    <3>3. ~(shadow'.taken >= changed' + TTL)
      BY <1>1, <3>2, OccupantBounds DEF Loud, OpenInv, FrontInv
    <3>4. now' = now
      BY <1>1 DEF Loud
    <3>5. QED
      BY <3>2, <3>3, <3>4 DEF ShadowInv, Exact, Recorded
  <2>2. CASE ~SeedPane
    <3>1. shadow' = shadow
      BY <2>2 DEF Launch, Exit, AgentDetected
    <3>2. QED
      BY <1>1, <1>2, <3>1, LoudRecords DEF OpenInv
  <2>3. QED
    BY <2>1, <2>2
<1>5. QED
  BY <1>2, <1>3, <1>4 DEF OpenInv

LEMMA OpenTick == OpenInv /\ Tick => OpenInv'
<1> SUFFICES ASSUME OpenInv, Tick PROVE OpenInv'
  OBVIOUS
<1>1. /\ now' = now + 1 /\ now \in Nat /\ 0 .. now \subseteq 0 .. now'
      /\ UNCHANGED <<changed, front, pids, agent, shadow, ref>>
  BY DEF Tick, OpenInv, FrontInv
<1>2. FrontInv'
  BY <1>1 DEF OpenInv, FrontInv
<1>3. ASSUME NEW r \in Refreshes PROVE RefInv(r)'
  <2>1. RefInv(r)
    BY DEF OpenInv, RefsInv
  <2>2. Recorded(ref[r].hint)' /\ Recorded(ref[r].fg)'
    BY <1>1, <2>1 DEF RefInv, Recorded, Runs
  <2>3. QED
    BY <1>1, <2>1, <2>2 DEF RefInv, Runs, Exact, IsCurrent
<1>4. ShadowInv'
  <2>1. ShadowInv
    BY DEF OpenInv
  <2>2. Recorded(shadow.fg)'
    BY <1>1, <2>1 DEF ShadowInv, Recorded, Runs
  <2>3. QED
    BY <1>1, <2>1, <2>2 DEF ShadowInv, Runs, Exact, IsCurrent
<1>5. RefsInv'
  BY <1>1, <1>3 DEF OpenInv, RefsInv
<1>6. QED
  BY <1>2, <1>4, <1>5 DEF OpenInv

(***************************************************************************)
(* The whole life of the pane.                                             *)
(***************************************************************************)
\* What the entry keeps is among what the pane may be said to have run.
KeptInv ==
  /\ \A r \in Refreshes : ref[r].pc = "idle"
  /\ shadow.fg # None => shadow.fg.argv \in Commands
  /\ shadow.agent \in BOOLEAN
  /\ IF shadow.agent = TRUE THEN "agent" \in due ELSE Argv(shadow.fg) \in due

PaneInv ==
  /\ stage \in {"open", "kept", "reopened"}
  /\ stage = "open" => OpenInv
  /\ stage # "open" => KeptInv

LEMMA CloseKeeps == OpenInv /\ Close => KeptInv'
<1> SUFFICES ASSUME OpenInv, Close PROVE KeptInv'
  OBVIOUS
<1> DEFINE old == shadow.fg
<1>0. /\ FrontInv /\ ShadowInv /\ shadow.agent \in BOOLEAN /\ Recorded(old)
      /\ TTL \in Nat /\ TTL > 0
  BY OccupantBounds DEF OpenInv, ShadowInv
<1>1. /\ shadow'.agent = shadow.agent
      /\ shadow'.fg = IF old = None THEN None ELSE [old EXCEPT !.pid = 0, !.at = 0]
  BY DEF Close, OpenInv, ShadowInv
<1>2. /\ shadow'.fg # None => shadow'.fg.argv \in Commands
      /\ Argv(shadow'.fg) = Argv(old)
  <2>1. CASE old = None
    BY <1>1, <2>1 DEF Argv
  <2>2. CASE old # None
    <3>1. old \in [argv : Commands, pid : Nat, at : Nat]
      BY <1>0, <2>2 DEF Recorded
    <3>2. [old EXCEPT !.pid = 0, !.at = 0] \in [argv : Commands, pid : Nat, at : Nat]
      BY <3>1
    <3>3. shadow'.fg = [old EXCEPT !.pid = 0, !.at = 0] /\ shadow'.fg # None
      BY <1>1, <2>2, <3>2, CommandsAssumption
    <3>4. QED
      BY <2>2, <3>1, <3>3 DEF Argv
  <2>3. QED
    BY <2>1, <2>2
<1>3. \A r \in Refreshes : ref'[r].pc = "idle"
  BY DEF Close, Idle
<1>4. IF shadow'.agent = TRUE THEN "agent" \in due' ELSE Argv(shadow'.fg) \in due'
  <2>0. due' = Due /\ (old # None => old.argv \in Commands)
    BY <1>0 DEF Close, Recorded
  <2>1. CASE shadow.taken < changed + TTL
    <3>1. Due = Commands \cup {None, "agent"}
      BY <2>1 DEF Due
    <3>2. Argv(old) \in Due
      BY <2>0, <3>1 DEF Argv
    <3>3. QED
      BY <1>1, <1>2, <2>0, <3>1, <3>2
  <2>2. CASE ~(shadow.taken < changed + TTL)
    <3>1. shadow.agent = agent /\ (agent = FALSE => IsCurrent(old))
      BY <1>0, <2>2 DEF ShadowInv, FrontInv, Exact
    <3>2. CASE agent = TRUE
      <4>1. Due = {"agent"}
        BY <2>2, <3>2 DEF Due
      <4>2. QED
        BY <1>1, <2>0, <3>1, <3>2, <4>1
    <3>3. CASE agent = FALSE
      <4> DEFINE commands == {p \in front : p.argv \in Commands}
      <4>1. Due = IF commands = {} THEN {None}
                  ELSE {p.argv : p \in {q \in commands : \A o \in commands : q.pid <= o.pid}}
        BY <2>2, <3>3 DEF Due
      <4>2. CASE old = None
        <5>1. commands = {}
          BY <3>1, <3>3, <4>2 DEF IsCurrent, is_candidate
        <5>2. QED
          BY <1>1, <1>2, <2>0, <3>1, <3>3, <4>1, <4>2, <5>1 DEF Argv
      <4>3. CASE old # None
        <5>1. Process(old) \in front /\ old \in [argv : Commands, pid : Nat, at : Nat]
          BY <1>0, <3>1, <3>3, <4>3 DEF IsCurrent, Runs, Recorded
        <5>2. \A o \in commands : old.pid <= o.pid
          BY <1>0, <4>3, <5>1 DEF Recorded, Runs, is_candidate
        <5>3. Process(old) \in commands /\ Process(old).pid = old.pid /\ Process(old).argv = old.argv
          BY <5>1 DEF Process
        <5>4. old.argv \in Due
          BY <4>1, <5>2, <5>3
        <5>5. QED
          BY <1>1, <1>2, <2>0, <3>1, <3>3, <4>3, <5>4 DEF Argv
      <4>4. QED
        BY <4>2, <4>3
    <3>4. QED
      BY <1>0, <3>2, <3>3 DEF FrontInv
  <2>3. QED
    BY <2>1, <2>2
<1>5. QED
  BY <1>0, <1>1, <1>2, <1>3, <1>4 DEF KeptInv

LEMMA OpenRefresh ==
  ASSUME OpenInv, NEW r \in Refreshes, Refresh(r)
  PROVE  OpenInv'
  BY OpenStart, OpenList, OpenSkip, OpenSample, OpenMiss, OpenConfirm, OpenUnconfirmed, OpenWrite
  DEF Refresh

LEMMA InitPane == OccupantInit => PaneInv
  BY InitOpen DEF OccupantInit, PaneInv

\* Nobody asks about a closed pane any more.
LEMMA OldPaneIsOpen == PaneInv /\ OldPane => stage = "open"
<1> SUFFICES ASSUME PaneInv, OldPane, stage # "open" PROVE FALSE
  OBVIOUS
<1>1. ASSUME NEW r \in Refreshes, Refresh(r) PROVE FALSE
  BY <1>1 DEF PaneInv, KeptInv, Refresh, StartRefresh, ListPane, SkipSample, SamplePane,
              MissSample, ConfirmSample, SkipConfirm, WriteSnapshot
<1>2. QED
  BY <1>1 DEF OldPane, Launch, Exit, SeedPane, AgentDetected, Tick, Close

LEMMA StepPane == PaneInv /\ [OccupantNext]_<<occupant, vars>> => PaneInv'
<1> SUFFICES ASSUME PaneInv, [OccupantNext]_<<occupant, vars>> PROVE PaneInv'
  OBVIOUS
<1>1. CASE stage = "open" /\ OldPane
  <2>1. ASSUME NEW r \in Refreshes, Refresh(r) PROVE PaneInv'
    <3>1. OpenInv' /\ stage' = stage
      BY <1>1, <2>1, OpenRefresh
      DEF PaneInv, Refresh, StartRefresh, ListPane, SkipSample, SamplePane, MissSample,
          ConfirmSample, SkipConfirm, WriteSnapshot
    <3>2. QED
      BY <1>1, <3>1 DEF PaneInv
  <2>2. CASE \/ \E argv \in Commands : Launch(argv)
             \/ \E p \in front : Exit(p)
             \/ SeedPane \/ AgentDetected
    <3>1. OpenInv' /\ stage' = stage
      BY <1>1, <2>2, OpenForeground DEF PaneInv, Launch, Exit, SeedPane, AgentDetected
    <3>2. QED
      BY <1>1, <3>1 DEF PaneInv
  <2>3. CASE Tick
    BY <1>1, <2>3, OpenTick DEF PaneInv, Tick
  <2>4. CASE Close
    BY <1>1, <2>4, CloseKeeps DEF PaneInv, Close
  <2>5. QED
    BY <1>1, <2>1, <2>2, <2>3, <2>4 DEF OldPane
<1>2. ASSUME stage # "open", OldPane PROVE FALSE
  BY <1>2, OldPaneIsOpen
<1>3. CASE restore_occupant \/ NewPane \/ UNCHANGED <<occupant, vars>>
  <2>1. UNCHANGED <<foreground, due>> /\ (stage' = stage \/ (stage = "kept" /\ stage' = "reopened"))
    BY <1>3 DEF restore_occupant, NewPane, occupant
  <2>2. OpenInv => OpenInv'
    BY <2>1 DEF foreground, OpenInv, FrontInv, ShadowInv, RefsInv, RefInv, Recorded, Runs, Exact,
                IsCurrent
  <2>3. KeptInv => KeptInv'
    BY <2>1 DEF foreground, KeptInv
  <2>4. QED
    BY <2>1, <2>2, <2>3 DEF PaneInv
<1>4. QED
  BY <1>1, <1>2, <1>3 DEF OccupantNext

\* A refresh that knows the record in force does not forget a command that runs on,
\* for every number of refreshes and every order of samples, failures and writes.
THEOREM RunningIsKept == OccupantSpec => RunningIsRemembered
<1> DEFINE Remembered ==
      \A r \in Refreshes :
        LET fg == shadow.fg
        IN  /\ ref[r].pc = "write" /\ ref'[r].pc = "idle" /\ stage' = "open"
            /\ fg # None /\ ref[r].hint = fg /\ ~ref[r].agent
            /\ [pid |-> fg.pid, argv |-> fg.argv] \in front
            => Argv(shadow'.fg) = fg.argv
<1>1. ASSUME PaneInv, [OccupantNext]_<<occupant, vars>> PROVE [Remembered]_<<occupant, vars>>
  <2> SUFFICES ASSUME NEW r \in Refreshes,
                      ref[r].pc = "write", ref'[r].pc = "idle", stage' = "open",
                      shadow.fg # None, ref[r].hint = shadow.fg, ~ref[r].agent,
                      [pid |-> shadow.fg.pid, argv |-> shadow.fg.argv] \in front
               PROVE  Argv(shadow'.fg) = shadow.fg.argv
    OBVIOUS
  <2>1. stage = "open" /\ OpenInv /\ RefInv(r)
    <3>1. stage = "open"
      BY <1>1 DEF PaneInv, KeptInv
    <3>2. QED
      BY <3>1, <1>1 DEF PaneInv, OpenInv, RefsInv
  <2>2. Runs(ref[r].hint)
    BY DEF Runs, Process
  <2>3. ref[r].agent = FALSE
    BY <2>1 DEF RefInv
  <2>4. Argv(ref[r].fg) = shadow.fg.argv
    BY <2>1, <2>2, <2>3 DEF RefInv
  <2>5. WriteSnapshot(r)
    <3>1. ref' # ref
      OBVIOUS
    <3>2. OldPane
      BY <1>1, <2>1, <3>1 DEF OccupantNext, restore_occupant, NewPane, occupant, foreground
    <3>3. PICK s \in Refreshes : Refresh(s)
      BY <3>1, <3>2 DEF OldPane, Launch, Exit, SeedPane, AgentDetected, Tick, Close
    <3>4. s = r
      <4>1. ref' = [ref EXCEPT ![s] = ref'[s]]
        BY <2>1, <3>3 DEF Refresh, StartRefresh, ListPane, SkipSample, SamplePane,
                      MissSample, ConfirmSample, SkipConfirm, WriteSnapshot, Found, OpenInv, RefsInv
      <4>2. s # r => ref'[r] = ref[r]
        BY <2>1, <4>1 DEF OpenInv, RefsInv
      <4>3. QED
        BY <4>2
    <3>5. QED
      BY <3>3, <3>4 DEF Refresh, StartRefresh, ListPane, SkipSample, SamplePane, MissSample,
                        ConfirmSample, SkipConfirm
  <2>6. QED
    BY <2>4, <2>5 DEF WriteSnapshot, Argv
<1>2. QED
  BY <1>1, InitPane, StepPane, PTL DEF OccupantSpec, RunningIsRemembered

(***************************************************************************)
(* The restore.                                                            *)
(***************************************************************************)
\* Until the reopen the start has not begun; afterwards what was typed, if anything,
\* is the command on record, and a failure to type it is counted.
RestoredInv ==
  /\ stage # "reopened" =>
       /\ pc = "begin" /\ live = {} /\ coming = {} /\ ~late
       /\ config = None /\ typed = None
  /\ typed # None => shadow.agent = FALSE /\ typed = Argv(shadow.fg)
  /\ config # None => pc = "done"
  /\ config # None /\ config.mode # "off" /\ typed = None => report.failed > 0

LifeInv == PaneInv /\ RestoredInv /\ Typed

\* A command is typed as a whole or not at all, and then the report says so.
LEMMA RestoreTypes ==
  ASSUME Typed, pc = "begin", NEW argv \in Commands, typed = None, restore_command(argv)
  PROVE  /\ typed' \in {None, argv}
         /\ config'.mode # "off" /\ typed' = None => report'.failed > 0
         /\ report' \in [{"resumed", "started_fresh", "prefilled", "failed"} -> 0 .. 2]
         /\ report'.resumed = 0
<1> DEFINE Goal == /\ typed' \in {None, argv}
                   /\ config'.mode # "off" /\ typed' = None => report'.failed > 0
                   /\ report' \in [{"resumed", "started_fresh", "prefilled", "failed"} -> 0 .. 2]
                   /\ report'.resumed = 0
<1>0. Tally(0)
  BY DEF Typed, Tallied
<1>1. PICK mode \in {"off", "prefill", "run"}, allow \in SUBSET Patterns, deny \in SUBSET Patterns :
        /\ config' = [mode |-> mode, allow |-> allow, deny |-> deny]
        /\ CASE mode = "off"     -> UNCHANGED <<typed, ran, report>>
             [] mode = "prefill" -> TypeCommand(argv, FALSE)
             [] mode = "run"     -> TypeCommand(argv, rerun_allowed(allow, deny, argv))
  BY DEF restore_command
<1>2. CASE mode = "off"
  BY <1>0, <1>1, <1>2 DEF Tally
<1>3. ASSUME NEW enter, TypeCommand(argv, enter) PROVE Goal
  <2>1. typed' \in {None, argv} /\ (Count("failed") \/ (typed' = argv /\ Count("prefilled")))
    BY <1>3 DEF TypeCommand
  <2>2. argv # None
    BY CommandsAssumption
  <2> DEFINE kinds == {"resumed", "started_fresh", "prefilled", "failed"}
  <2>3. ASSUME NEW what \in {"failed", "prefilled"}, Count(what)
        PROVE  /\ report' \in [kinds -> 0 .. 2] /\ report'.resumed = 0
               /\ what = "failed" => report'.failed > 0
    <3>1. /\ report' \in [kinds -> 0 .. 2] /\ report'.resumed = 0
          /\ what = "failed" => Tally(1)'
      BY <1>0, <2>3, Tallying
    <3>2. Tally(1)' => report'.failed = 1
      BY DEF Tally
    <3>3. QED
      BY <3>1, <3>2
  <2>4. CASE Count("failed")
    BY <2>1, <2>3, <2>4
  <2>5. CASE typed' = argv /\ Count("prefilled")
    BY <2>1, <2>2, <2>3, <2>5
  <2>6. QED
    BY <2>1, <2>4, <2>5
<1>4. QED
  BY <1>1, <1>2, <1>3

\* A restore that is over touches neither its report nor the pane.
LEMMA DoneStays == pc = "done" /\ [Next]_vars => pc' = "done" /\ report' = report
  BY DEF Next, Restore, Begin, AnswerOk, AnswerTimeout, Busy, NameTaken, AnswerError,
         TransportTimeout, prefill, Sleep, SampleAlive, SampleExited, SampleUnknown,
         ShellSettles, AgentExits, LateStart, process, vars

\* What restore_occupant leaves: a start that may begin, or a restore that is over.
LEMMA RestoreLeaves ==
  ASSUME LifeInv, restore_occupant
  PROVE  /\ Typed' /\ RestoredInv'
         /\ pc' \in {"begin", "done"} /\ report'.resumed = 0
         /\ live \cup coming = {}
<1>1. /\ stage = "kept" /\ stage' = "reopened" /\ pc = "begin" /\ live = {} /\ coming = {}
      /\ ~late /\ UNCHANGED late
      /\ config = None /\ typed = None /\ KeptInv /\ Tally(0)
      /\ shadow' = shadow
      /\ UNCHANGED <<attempt, names, spent, elapsed, streak, live, coming, missed>>
  BY DEF restore_occupant, LifeInv, RestoredInv, PaneInv, Typed, Tallied, foreground
<1>2. ASSUME pc' \in {"begin", "done"},
             report' \in [{"resumed", "started_fresh", "prefilled", "failed"} -> 0 .. 2],
             pc' = "begin" => report' = report
      PROVE  Typed'
  BY <1>1, <1>2 DEF LifeInv, Typed, Occupied, Alone, Counters, Tallied, Tally
<1>3. report \in [{"resumed", "started_fresh", "prefilled", "failed"} -> 0 .. 2]
      /\ report.resumed = 0
  BY <1>1 DEF LifeInv, Typed, Tallied, Tally
<1>4. CASE UNCHANGED <<config, typed, report>> /\ pc' \in {"begin", "done"}
  BY <1>1, <1>2, <1>3, <1>4 DEF RestoredInv
<1>5. CASE shadow.agent = FALSE /\ shadow.fg # None /\ pc' = "done" /\ restore_command(shadow.fg.argv)
  <2>1. shadow.fg.argv \in Commands
    BY <1>1, <1>5 DEF KeptInv
  <2>2. /\ typed' \in {None, shadow.fg.argv}
        /\ config'.mode # "off" /\ typed' = None => report'.failed > 0
        /\ report' \in [{"resumed", "started_fresh", "prefilled", "failed"} -> 0 .. 2]
        /\ report'.resumed = 0
    BY <1>1, <1>5, <2>1, RestoreTypes DEF LifeInv
  <2>3. RestoredInv'
    BY <1>1, <1>5, <2>2 DEF RestoredInv, Argv
  <2>4. QED
    BY <1>1, <1>2, <1>5, <2>2, <2>3
<1>6. shadow.agent = TRUE \/ shadow.agent = FALSE
  BY <1>1 DEF KeptInv
<1>7. QED
  BY <1>1, <1>4, <1>5, <1>6 DEF restore_occupant

LEMMA InitLife == OccupantInit => LifeInv
  BY InitPane, InitTyped DEF OccupantInit, Init, LifeInv, RestoredInv

LEMMA StepLife == LifeInv /\ [OccupantNext]_<<occupant, vars>> => LifeInv'
<1> SUFFICES ASSUME LifeInv, [OccupantNext]_<<occupant, vars>> PROVE LifeInv'
  OBVIOUS
<1>1. PaneInv'
  BY StepPane DEF LifeInv
<1>2. CASE OldPane
  <2>1. stage = "open" /\ UNCHANGED vars
    BY <1>2, OldPaneIsOpen DEF LifeInv, OldPane
  <2>2. Typed'
    BY <2>1, StepTyped DEF LifeInv
  <2>3. UNCHANGED restored /\ stage' # "reopened"
    <3>1. ASSUME NEW r \in Refreshes, Refresh(r) PROVE UNCHANGED <<stage, restored>>
      BY <3>1 DEF Refresh, StartRefresh, ListPane, SkipSample, SamplePane, MissSample,
                  ConfirmSample, SkipConfirm, WriteSnapshot
    <3>2. QED
      BY <1>2, <2>1, <3>1 DEF OldPane, Launch, Exit, SeedPane, AgentDetected, Tick, Close
  <2>4. RestoredInv'
    BY <2>1, <2>3 DEF LifeInv, RestoredInv, vars, pane, restored
  <2>5. QED
    BY <1>1, <2>2, <2>4 DEF LifeInv
<1>3. CASE restore_occupant
  BY <1>1, <1>3, RestoreLeaves DEF LifeInv
<1>4. CASE NewPane \/ UNCHANGED <<occupant, vars>>
  <2>1. UNCHANGED <<stage, shadow, config, typed>> /\ [Next]_vars
        /\ (stage = "reopened" \/ UNCHANGED vars)
    BY <1>4 DEF NewPane, occupant, foreground, restored
  <2>2. Typed'
    BY <2>1, StepTyped DEF LifeInv
  <2>3. config # None => pc' = "done" /\ report' = report
    BY <2>1, DoneStays DEF LifeInv, RestoredInv
  <2>4. stage # "reopened" => UNCHANGED <<pc, live, coming, late>>
    BY <2>1 DEF vars, pane
  <2>5. RestoredInv'
    BY <2>1, <2>3, <2>4 DEF LifeInv, RestoredInv
  <2>6. QED
    BY <1>1, <2>2, <2>5 DEF LifeInv
<1>5. QED
  BY <1>2, <1>3, <1>4 DEF OccupantNext

LEMMA LifeInvariance == OccupantSpec => []LifeInv
  BY InitLife, StepLife, PTL DEF OccupantSpec

\* What a restore types into the new pane, or starts in it, is what the old one was
\* running when it closed, once a TTL has passed between the last change and the last
\* refresh, for every TTL, every number of refreshes and every failure of theirs.
THEOREM WhatRanComesBack == OccupantSpec => []BringsBackWhatRan
<1>1. ASSUME LifeInv PROVE BringsBackWhatRan
  <2> SUFFICES ASSUME stage = "reopened"
               PROVE  /\ typed # None => typed \in due
                      /\ config # None /\ config.mode # "off" /\ typed = None => report.failed > 0
                      /\ shadow.agent => "agent" \in due
                      /\ ~shadow.agent /\ shadow.fg = None => None \in due
    BY DEF BringsBackWhatRan
  <2>1. KeptInv
    BY <1>1 DEF LifeInv, PaneInv
  <2>2. typed # None => typed \in due
    BY <1>1, <2>1 DEF LifeInv, RestoredInv, KeptInv
  <2>3. config # None /\ config.mode # "off" /\ typed = None => report.failed > 0
    BY <1>1 DEF LifeInv, RestoredInv
  <2>4. shadow.agent => "agent" \in due
    BY <2>1 DEF KeptInv
  <2>5. ~shadow.agent /\ shadow.fg = None => None \in due
    BY <2>1 DEF KeptInv, Argv
  <2>6. QED
    BY <2>2, <2>3, <2>4, <2>5
<1>2. QED
  BY <1>1, LifeInvariance, PTL

(***************************************************************************)
(* The agent in the restored pane.  What is shown above of a start from    *)
(* the beginning holds of the start that a restore makes.                  *)
(***************************************************************************)
LEMMA StepRestoredAgent == LifeInv /\ Noticed /\ [OccupantNext]_<<occupant, vars>> => Noticed'
<1> SUFFICES ASSUME LifeInv, Noticed, [OccupantNext]_<<occupant, vars>> PROVE Noticed'
  OBVIOUS
<1>1. CASE restore_occupant
  <2>1. pc' \in {"begin", "done"} /\ report'.resumed = 0
    BY <1>1, RestoreLeaves
  <2>2. QED
    BY <2>1 DEF Noticed, Watched, Overdue
<1>2. CASE ~restore_occupant
  <2>1. [Next]_vars
    BY <1>2 DEF OccupantNext, OldPane, NewPane
  <2>2. QED
    BY <2>1, StepNoticed DEF LifeInv
<1>3. QED
  BY <1>1, <1>2

\* The counters of a start keep to their ranges in every restored pane.
THEOREM RestoredTypeCorrect == OccupantSpec => []TypeOK
<1>1. LifeInv => TypeOK
  BY TypedIsOK DEF LifeInv
<1>2. QED
  BY <1>1, LifeInvariance, PTL

\* A restored pane never holds two agents, whatever it ran before, but for a resume
\* that came late and its one fresh start.
THEOREM RestoredAgentsAreAlone == OccupantSpec => []OneAgent
<1>1. LifeInv => OneAgent
  BY OccupiedIsAlone DEF LifeInv, Typed
<1>2. QED
  BY <1>1, LifeInvariance, PTL

\* Nothing is typed into a restored pane in which an agent runs or may still come up,
\* neither by restore_command nor by the prefill after a failed start.
THEOREM RestoredPrefillIsSafe == OccupantSpec => NeverTypesIntoAgent
<1> DEFINE Safe == report'.prefilled > report.prefilled => live \cup coming = {}
<1>1. ASSUME LifeInv, [OccupantNext]_<<occupant, vars>> PROVE [Safe]_vars
  <2>1. CASE restore_occupant
    BY <1>1, <2>1, RestoreLeaves
  <2>2. CASE ~restore_occupant
    <3>1. [Next]_vars
      BY <1>1, <2>2 DEF OccupantNext, OldPane, NewPane
    <3>2. Occupied /\ Counted
      BY <1>1 DEF LifeInv, Typed, Tallied, Counted
    <3>3. QED
      BY <3>1, <3>2, StepIsSafe
  <2>3. QED
    BY <2>1, <2>2
<1>2. QED
  BY <1>1, LifeInvariance, PTL DEF OccupantSpec, NeverTypesIntoAgent

\* In a restored pane no agent that rejected its session is reported as resumed, unless
\* a sample failed or the agent came late.
THEOREM RestoredRejectedAreNoticed == OccupantSpec => []RejectedIsNoticed
<1>1. OccupantInit => Noticed
  BY InitNoticed DEF OccupantInit
<1>2. Noticed => RejectedIsNoticed
  BY DEF Noticed, Overdue, RejectedIsNoticed
<1>3. QED
  BY <1>1, <1>2, StepRestoredAgent, LifeInvariance, PTL DEF OccupantSpec
==============================================================================
