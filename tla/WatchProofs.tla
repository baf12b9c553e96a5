------------------------------ MODULE WatchProofs ------------------------------
(***************************************************************************)
(* The owner of watch.lock is never taken for dead, for any set of daemons *)
(* and hooks and any times that satisfy HeartbeatAssumption.               *)
(***************************************************************************)
EXTENDS WatchDaemon, TLAPS

Working(d) == pc[d] \in {"debouncing", "refreshing"}

\* How old the heartbeat of an owner can be, by what the owner is doing: it
\* sleeps no longer than its ticker, and works from there on.
Timely ==
  \A d \in Pids :
    /\ ~Working(d) => worked[d] = 0
    /\ d \in beaten /\ watch.pid = d =>
         /\ pc[d] = "waiting" => watch.age <= TickerPeriod
         /\ pc[d] = "waiting" /\ ~inbox[d] => watch.age <= slept[d]
         /\ Working(d) => watch.age <= TickerPeriod + worked[d]

IInv == TypeOK /\ Timely

LEMMA InitIInv == Init => IInv
<1> SUFFICES ASSUME Init PROVE IInv
  OBVIOUS
<1> USE HeartbeatAssumption
<1>1. TypeOK
  <2>1. 0 \in 0 .. TickerPeriod /\ 0 \in 0 .. WorkMax /\ 0 \in 0 .. MaxDisturbances
        /\ HeartbeatStale + 1 \in 0 .. HeartbeatStale + 1
    OBVIOUS
  <2>2. watch \in [pid : Pids \cup {NoPid}, age : 0 .. Ancient]
    BY <2>1 DEF Init, NoLock, Ancient
  <2>3. QED
    BY <2>1, <2>2 DEF Init, TypeOK
<1>2. Timely
  BY DEF Init, Timely, Working
<1>3. QED
  BY <1>1, <1>2 DEF IInv

LEMMA StepTypeOK == TypeOK /\ [Next]_vars => TypeOK'
<1> SUFFICES ASSUME TypeOK, [Next]_vars PROVE TypeOK'
  OBVIOUS
<1> USE HeartbeatAssumption, PidAssumption
<1> USE DEF TypeOK, NoLock, Ancient, Running, Subscribed, pid_alive
<1>1. ASSUME NEW h \in Hooks, CheckDaemon(h) PROVE TypeOK'
  BY <1>1 DEF CheckDaemon, daemons
<1>2. ASSUME NEW h \in Hooks, NEW d \in Pids, Spawn(h, d) PROVE TypeOK'
  BY <1>2 DEF Spawn, Become
<1>3. CASE recover
  <2>1. NoLock \in [pid : Pids \cup {NoPid}, age : 0 .. Ancient]
    <3>1. Ancient \in 0 .. Ancient
      OBVIOUS
    <3>2. QED
      BY <3>1
  <2>2. watch' = watch \/ watch' = NoLock
    BY <1>3 DEF recover
  <2>3. UNCHANGED <<strangers, daemons, hook, disturbances>> /\ unrecovered' = FALSE
    BY <1>3 DEF recover
  <2> HIDE DEF NoLock
  <2>4. CASE watch' = watch
    BY <2>3, <2>4 DEF daemons
  <2>5. CASE watch' = NoLock
    BY <2>1, <2>3, <2>5 DEF daemons
  <2>6. QED
    BY <2>2, <2>4, <2>5
<1>4. ASSUME NEW d \in Pids, WriteLock(d) PROVE TypeOK'
  BY <1>4 DEF WriteLock, Become
<1>5. ASSUME NEW d \in Pids, Subscribe(d) PROVE TypeOK'
  BY <1>5 DEF Subscribe, Become
<1>6. ASSUME NEW d \in Pids, SubscribeHangs(d) PROVE TypeOK'
  BY <1>6 DEF SubscribeHangs, Become, Disturb
<1>7. ASSUME NEW d \in Pids, SubscribeFails(d) PROVE TypeOK'
  BY <1>7 DEF SubscribeFails, Become, Disturb, Exit, cleanup_lock
<1>8. ASSUME NEW d \in Pids, TickerSends(d) PROVE TypeOK'
  BY <1>8 DEF TickerSends
<1>9. ASSUME NEW d \in Pids, ReaderSends(d) PROVE TypeOK'
  BY <1>9 DEF ReaderSends
<1>10. ASSUME NEW d \in Pids, Recv(d) PROVE TypeOK'
  BY <1>10 DEF Recv, Become
<1>11. ASSUME NEW d \in Pids, Debounced(d) PROVE TypeOK'
  BY <1>11 DEF Debounced, Become
<1>12. ASSUME NEW d \in Pids, Heartbeat(d) PROVE TypeOK'
  <2>1. CASE watch.pid # d
    <3>1. Exit(d) /\ UNCHANGED <<watch, strangers, hook, unrecovered, disturbances>>
      BY <1>12, <2>1 DEF Heartbeat
    <3>2. QED
      BY <3>1 DEF Become, Exit
  <2>2. CASE watch.pid = d
    BY <1>12, <2>2 DEF Heartbeat, Become, Renewed
  <2>3. QED
    BY <2>1, <2>2
<1>13. ASSUME NEW d \in Pids, Crash(d) PROVE TypeOK'
  BY <1>13 DEF Crash, Become, Disturb, Exit
<1>14. CASE ServerRestarts
  BY <1>14 DEF ServerRestarts, Disturb
<1>15. CASE TimePasses
  BY <1>15 DEF TimePasses, MayPass
<1>16. CASE UNCHANGED vars
  BY <1>16 DEF vars, daemons
<1>17. QED
  BY <1>1, <1>2, <1>3, <1>4, <1>5, <1>6, <1>7, <1>8, <1>9, <1>10, <1>11, <1>12,
     <1>13, <1>14, <1>15, <1>16 DEF Next, Step

LEMMA StepTimely == IInv /\ [Next]_vars => Timely'
<1> SUFFICES ASSUME TypeOK, Timely, [Next]_vars PROVE Timely'
  BY DEF IInv
<1> USE HeartbeatAssumption, PidAssumption
<1> USE DEF TypeOK, Timely, Working, NoLock, Ancient, Running, Subscribed
<1>1. ASSUME NEW h \in Hooks, CheckDaemon(h) PROVE Timely'
  BY <1>1 DEF CheckDaemon, daemons
<1>2. ASSUME NEW h \in Hooks, NEW d \in Pids, Spawn(h, d) PROVE Timely'
  BY <1>2 DEF Spawn, Become, pid_alive
<1>3. CASE recover
  BY <1>3 DEF recover, daemons
<1>4. ASSUME NEW d \in Pids, WriteLock(d) PROVE Timely'
  BY <1>4 DEF WriteLock, Become
<1>5. ASSUME NEW d \in Pids, Subscribe(d) PROVE Timely'
  BY <1>5 DEF Subscribe, Become
<1>6. ASSUME NEW d \in Pids, SubscribeHangs(d) PROVE Timely'
  BY <1>6 DEF SubscribeHangs, Become, Disturb
<1>7. ASSUME NEW d \in Pids, SubscribeFails(d) PROVE Timely'
  BY <1>7 DEF SubscribeFails, Become, Disturb, Exit, cleanup_lock
<1>8. ASSUME NEW d \in Pids, TickerSends(d) PROVE Timely'
  BY <1>8 DEF TickerSends
<1>9. ASSUME NEW d \in Pids, ReaderSends(d) PROVE Timely'
  BY <1>9 DEF ReaderSends
<1>10. ASSUME NEW d \in Pids, Recv(d) PROVE Timely'
  BY <1>10 DEF Recv, Become
<1>11. ASSUME NEW d \in Pids, Debounced(d) PROVE Timely'
  BY <1>11 DEF Debounced, Become
<1>12. ASSUME NEW d \in Pids, Heartbeat(d) PROVE Timely'
  <2>1. CASE watch.pid # d
    BY <1>12, <2>1 DEF Heartbeat, Become, Exit
  <2>2. CASE watch.pid = d
    BY <1>12, <2>2 DEF Heartbeat, Become, Renewed
  <2>3. QED
    BY <2>1, <2>2
<1>13. ASSUME NEW d \in Pids, Crash(d) PROVE Timely'
  BY <1>13 DEF Crash, Become, Disturb, Exit
<1>14. CASE ServerRestarts
  BY <1>14 DEF ServerRestarts, Disturb
<1>15. CASE TimePasses
  BY <1>15 DEF TimePasses, MayPass
<1>16. CASE UNCHANGED vars
  BY <1>16 DEF vars, daemons
<1>17. QED
  BY <1>1, <1>2, <1>3, <1>4, <1>5, <1>6, <1>7, <1>8, <1>9, <1>10, <1>11, <1>12,
     <1>13, <1>14, <1>15, <1>16 DEF Next, Step

LEMMA WatchInvariance == Spec => []IInv
<1>1. IInv /\ [Next]_vars => IInv'
  BY StepTypeOK, StepTimely DEF IInv
<1>2. QED
  BY InitIInv, <1>1, PTL DEF Spec

\* The watch daemon's state keeps its type; a lock without a pid is no lock.
THEOREM WatchTypeCorrect == Spec => []TypeOK
<1>1. IInv => TypeOK
  BY DEF IInv
<1>2. QED
  BY <1>1, WatchInvariance, PTL

LEMMA TimelyIsFresh == IInv => OwnerStaysFresh
<1> SUFFICES ASSUME IInv, NEW d \in beaten, watch.pid = d PROVE Healthy
  BY DEF OwnerStaysFresh
<1> USE HeartbeatAssumption
<1>1. d \in Pids /\ Subscribed(d) /\ slept[d] \in 0 .. TickerPeriod
      /\ worked[d] \in 0 .. WorkMax /\ watch.age \in Nat
  BY DEF IInv, TypeOK, Ancient
<1>2. watch.age < HeartbeatStale
  BY <1>1 DEF IInv, Timely, Subscribed, Working
<1>3. QED
  BY <1>1, <1>2 DEF Healthy, pid_alive, Running, Subscribed

\* A live owner that has renewed its lock is never taken for dead, whatever the
\* ticker period, the work and the staleness bound, as long as they add up.
THEOREM OwnersStayFresh == Spec => []OwnerStaysFresh
<1>1. QED
  BY TimelyIsFresh, WatchInvariance, PTL

\* No step removes the lock of such an owner while it lives: not the cleanup of
\* another daemon, and not the recovery.
THEOREM LocksAreSpared == Spec => LockIsSpared
<1> DEFINE Spared == \A d \in beaten : watch.pid = d /\ Running(d)' => watch'.pid # NoPid
<1>1. ASSUME IInv, OwnerStaysFresh, [Next]_vars PROVE Spared
  <2> SUFFICES ASSUME NEW d \in beaten, watch.pid = d, Running(d)'
               PROVE  watch'.pid # NoPid
    OBVIOUS
  <2> USE PidAssumption
  <2>0. d \in Pids /\ Healthy /\ watch.age \in Nat
    BY <1>1, HeartbeatAssumption DEF OwnerStaysFresh, IInv, TypeOK, Ancient
  <2>1. CASE watch' = watch
    BY <2>0, <2>1
  <2>2. CASE recover
    BY <2>0, <2>2, HeartbeatAssumption DEF recover, Healthy
  <2>3. ASSUME NEW e \in Pids, WriteLock(e) PROVE watch'.pid # NoPid
    BY <2>3 DEF WriteLock
  <2>4. ASSUME NEW e \in Pids, SubscribeFails(e) PROVE watch'.pid # NoPid
    <3>1. e # d
      BY <1>1, <2>0, <2>4 DEF SubscribeFails, Exit, Become, Running, IInv, TypeOK
    <3>2. QED
      BY <2>0, <2>4, <3>1 DEF SubscribeFails, cleanup_lock
  <2>5. ASSUME NEW e \in Pids, Heartbeat(e) PROVE watch'.pid # NoPid
    BY <1>1, <2>0, <2>5 DEF Heartbeat, Renewed, IInv, TypeOK
  <2>6. CASE TimePasses
    BY <1>1, <2>0, <2>6 DEF TimePasses, IInv, TypeOK
  <2>7. QED
    BY <1>1, <2>1, <2>2, <2>3, <2>4, <2>5, <2>6
    DEF Next, Step, vars, CheckDaemon, Spawn, Subscribe, SubscribeHangs, TickerSends,
        ReaderSends, Recv, Debounced, Crash, ServerRestarts
<1>2. QED
  BY <1>1, TimelyIsFresh, WatchInvariance, PTL DEF Spec, LockIsSpared

==============================================================================
