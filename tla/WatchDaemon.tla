----------------------------- MODULE WatchDaemon ------------------------------
(***************************************************************************)
(* The watch daemon of src/daemon.rs and the file watch.lock by which      *)
(* daemons and hooks find out about each other.  Any hook may start a      *)
(* daemon, a new daemon takes the lock from whoever has it, and the old    *)
(* one leaves when it next looks at the lock.                              *)
(*                                                                         *)
(* Time is what the code measures it for: the age of the heartbeat and     *)
(* how long a daemon has slept or worked.  A daemon is named by its pid; a *)
(* pid may be taken by a stranger once its daemon is dead.  reopen.lock is *)
(* held within single steps only, and so is left out.                      *)
(***************************************************************************)
EXTENDS Naturals, FiniteSets

CONSTANTS
  Pids,            \* pids daemons may get
  NoPid,           \* pid 0
  Hooks,           \* processes that run ensure_running
  TickerPeriod,    \* TICKER_SECS
  Debounce,        \* DEBOUNCE_MS
  WorkMax,         \* longest debounce and refresh together
  HeartbeatStale,  \* HEARTBEAT_STALE_MS
  MaxDisturbances  \* bound: deaths, failed or hung subscriptions, server restarts

ASSUME PidAssumption == NoPid \notin Pids
\* A daemon that is woken by its ticker and does its work is back in time.
ASSUME HeartbeatAssumption ==
  /\ {TickerPeriod, Debounce, WorkMax, HeartbeatStale, MaxDisturbances} \subseteq Nat
  /\ TickerPeriod > 0 /\ Debounce > 0 /\ Debounce <= WorkMax
  /\ TickerPeriod + WorkMax < HeartbeatStale

VARIABLES
  watch,      \* watch.lock: [pid, age], the age since updated_at
  strangers,  \* pids now of other programs
  pc,         \* where each daemon is, "dead" when there is none of that pid
  inbox,      \* is there a message in the channel?
  slept,      \* how long the ticker thread has slept
  worked,     \* how long debounce and refresh have lasted
  eof,        \* has the reader thread met the end of the socket?
  beaten,     \* history: daemons that have renewed the lock since they started
  hook,       \* each hook: idle, or spawning because it saw no healthy daemon
  unrecovered,  \* the server restarted and recover has not run since
  disturbances

daemons == <<pc, inbox, slept, worked, eof, beaten>>
vars == <<watch, strangers, daemons, hook, unrecovered, disturbances>>

Ancient == HeartbeatStale + 1
NoLock == [pid |-> NoPid, age |-> Ancient]

Running(d) == pc[d] # "dead"
Subscribed(d) == pc[d] \in {"waiting", "debouncing", "refreshing"}
pid_alive(p) == p \in Pids /\ (Running(p) \/ p \in strangers)

Healthy_anyage == pid_alive(watch.pid)

\* daemon_status
Healthy == pid_alive(watch.pid) /\ watch.age < HeartbeatStale

Disturb == disturbances < MaxDisturbances /\ disturbances' = disturbances + 1

Become(d, state) == pc' = [pc EXCEPT ![d] = state]

(***************************************************************************)
(* Hooks.                                                                  *)
(***************************************************************************)
\* The read of watch.lock is not under the lock, and nothing holds between it
\* and the spawn.
CheckDaemon(h) ==
  /\ hook[h] = "idle" /\ ~Healthy
  /\ hook' = [hook EXCEPT ![h] = "spawning"]
  /\ UNCHANGED <<watch, strangers, daemons, unrecovered, disturbances>>

Spawn(h, d) ==
  /\ hook[h] = "spawning" /\ ~pid_alive(d)
  /\ hook' = [hook EXCEPT ![h] = "idle"]
  /\ Become(d, "starting")
  /\ UNCHANGED <<watch, strangers, inbox, slept, worked, eof, beaten, unrecovered,
                 disturbances>>

\* The part of recover that is about watch.lock.
recover ==
  /\ unrecovered /\ unrecovered' = FALSE
  /\ watch' = IF pid_alive(watch.pid) /\ watch.age <= HeartbeatStale
              THEN watch ELSE NoLock
  /\ UNCHANGED <<strangers, daemons, hook, disturbances>>

(***************************************************************************)
(* The daemon.                                                             *)
(***************************************************************************)
WriteLock(d) ==
  /\ pc[d] = "starting" /\ Become(d, "subscribing")
  /\ watch' = [pid |-> d, age |-> 0]
  /\ UNCHANGED <<strangers, inbox, slept, worked, eof, beaten, hook, unrecovered,
                 disturbances>>

Subscribe(d) ==
  /\ pc[d] \in {"subscribing", "hung"} /\ Become(d, "waiting")
  /\ UNCHANGED <<watch, strangers, inbox, slept, worked, eof, beaten, hook,
                 unrecovered, disturbances>>

\* The answer takes its time: subscribe sets no timeout on its socket.
SubscribeHangs(d) ==
  /\ pc[d] = "subscribing" /\ Disturb /\ Become(d, "hung")
  /\ UNCHANGED <<watch, strangers, inbox, slept, worked, eof, beaten, hook,
                 unrecovered>>

\* The process ends, and its threads with it.
Exit(d) ==
  /\ Become(d, "dead")
  /\ inbox' = [inbox EXCEPT ![d] = FALSE]
  /\ slept' = [slept EXCEPT ![d] = 0]
  /\ worked' = [worked EXCEPT ![d] = 0]
  /\ eof' = [eof EXCEPT ![d] = FALSE]
  /\ beaten' = beaten \ {d}

cleanup_lock_any(d) == watch' = NoLock

cleanup_lock_half(d) == watch' = IF watch.pid = d THEN [watch EXCEPT !.pid = NoPid] ELSE watch

cleanup_lock(d) == watch' = IF watch.pid = d THEN NoLock ELSE watch

SubscribeFails(d) ==
  /\ pc[d] \in {"subscribing", "hung"} /\ Disturb
  /\ Exit(d) /\ cleanup_lock(d)
  /\ UNCHANGED <<strangers, hook, unrecovered>>

\* The ticker thread.
TickerSends(d) ==
  /\ Subscribed(d) /\ slept[d] = TickerPeriod
  /\ slept' = [slept EXCEPT ![d] = 0]
  /\ inbox' = [inbox EXCEPT ![d] = TRUE]
  /\ UNCHANGED <<watch, strangers, pc, worked, eof, beaten, hook, unrecovered,
                 disturbances>>

\* The reader thread, until the end of the socket.
ReaderSends(d) ==
  /\ Subscribed(d) /\ ~eof[d] /\ ~inbox[d]
  /\ inbox' = [inbox EXCEPT ![d] = TRUE]
  /\ UNCHANGED <<watch, strangers, pc, slept, worked, eof, beaten, hook, unrecovered,
                 disturbances>>

\* recv fails only when every sender is gone, and the ticker thread keeps its
\* own for as long as the process lives: the loop's Err arm cannot be reached.
Recv(d) ==
  /\ pc[d] = "waiting" /\ inbox[d] /\ Become(d, "debouncing")
  /\ inbox' = [inbox EXCEPT ![d] = FALSE]
  /\ UNCHANGED <<watch, strangers, slept, worked, eof, beaten, hook, unrecovered,
                 disturbances>>

Debounced(d) ==
  /\ pc[d] = "debouncing" /\ worked[d] >= Debounce /\ Become(d, "refreshing")
  /\ inbox' = [inbox EXCEPT ![d] = FALSE]
  /\ UNCHANGED <<watch, strangers, slept, worked, eof, beaten, hook, unrecovered,
                 disturbances>>

Renewed_unwritten == watch

\* The lock with updated_at = now.
Renewed == [watch EXCEPT !.age = 0]

\* After its refresh the daemon looks who owns the lock, and renews it.
Heartbeat_unchecked(d) ==
  /\ pc[d] = "refreshing"
  /\ Become(d, "waiting")
  /\ worked' = [worked EXCEPT ![d] = 0]
  /\ watch' = [pid |-> d, age |-> 0]
  /\ beaten' = beaten \cup {d}
  /\ UNCHANGED <<strangers, inbox, slept, eof, hook, unrecovered, disturbances>>

Heartbeat(d) ==
  /\ pc[d] = "refreshing"
  /\ \/ /\ watch.pid # d
        /\ Exit(d)
        /\ UNCHANGED watch
     \/ /\ watch.pid = d
        /\ Become(d, "waiting")
        /\ worked' = [worked EXCEPT ![d] = 0]
        /\ watch' = Renewed
        /\ beaten' = beaten \cup {d}
        /\ UNCHANGED <<inbox, slept, eof>>
  /\ UNCHANGED <<strangers, hook, unrecovered, disturbances>>

(***************************************************************************)
(* The environment.                                                        *)
(***************************************************************************)
\* A kill or a panic.  Strangers leave at least one pid free.
Crash(d) ==
  /\ Running(d) /\ Disturb
  /\ Exit(d)
  /\ \/ UNCHANGED strangers
     \/ strangers \cup {d} # Pids /\ strangers' = strangers \cup {d}
  /\ UNCHANGED <<watch, hook, unrecovered>>

\* Every open socket ends; hooks of the next server run recover once.
ServerRestarts ==
  /\ Disturb
  /\ eof' = [d \in Pids |-> eof[d] \/ Subscribed(d)]
  /\ unrecovered' = TRUE
  /\ UNCHANGED <<watch, strangers, pc, inbox, slept, worked, beaten, hook>>

\* Processes start and threads hand over at once, the ticker keeps its time,
\* and work ends within WorkMax; only a hung subscription takes as long as it
\* likes.
MayPass(d) ==
  /\ pc[d] \notin {"starting", "subscribing"}
  /\ Subscribed(d) => slept[d] < TickerPeriod
  /\ pc[d] = "waiting" => ~inbox[d]
  /\ pc[d] \in {"debouncing", "refreshing"} => worked[d] < WorkMax

TimePasses ==
  /\ \A d \in Pids : MayPass(d)
  /\ watch' = [watch EXCEPT !.age = IF @ < Ancient THEN @ + 1 ELSE @]
  /\ slept' = [d \in Pids |-> IF Subscribed(d) THEN slept[d] + 1 ELSE slept[d]]
  /\ worked' = [d \in Pids |-> IF pc[d] \in {"debouncing", "refreshing"}
                               THEN worked[d] + 1 ELSE worked[d]]
  /\ UNCHANGED <<strangers, pc, inbox, eof, beaten, hook, unrecovered, disturbances>>

Init ==
  /\ watch = NoLock /\ strangers = {}
  /\ pc = [d \in Pids |-> "dead"]
  /\ inbox = [d \in Pids |-> FALSE] /\ eof = [d \in Pids |-> FALSE]
  /\ slept = [d \in Pids |-> 0] /\ worked = [d \in Pids |-> 0]
  /\ beaten = {}
  /\ hook = [h \in Hooks |-> "idle"]
  /\ unrecovered = FALSE /\ disturbances = 0

Step(d) ==
  \/ WriteLock(d) \/ Subscribe(d)
  \/ TickerSends(d) \/ Recv(d) \/ Debounced(d) \/ Heartbeat(d)

Next ==
  \/ \E h \in Hooks : CheckDaemon(h) \/ \E d \in Pids : Spawn(h, d)
  \/ recover
  \/ \E d \in Pids : Step(d) \/ ReaderSends(d) \/ SubscribeHangs(d) \/ SubscribeFails(d)
                      \/ Crash(d)
  \/ ServerRestarts
  \/ TimePasses

Spec == Init /\ [][Next]_vars

\* Processes get to run, time goes on, and herdr keeps sending events whose
\* hooks look for the daemon.
FairSpec ==
  /\ Spec
  /\ \A d \in Pids : WF_vars(Step(d))
  /\ \A h \in Hooks : WF_vars(CheckDaemon(h)) /\ WF_vars(\E d \in Pids : Spawn(h, d))
  /\ WF_vars(TimePasses)
  /\ WF_vars(recover)

(***************************************************************************)
(* Properties.                                                             *)
(***************************************************************************)
TypeOK ==
  /\ watch \in [pid : Pids \cup {NoPid}, age : 0 .. Ancient]
  /\ watch.pid = NoPid => watch = NoLock
  /\ strangers \subseteq {d \in Pids : ~Running(d)}
  /\ pc \in [Pids -> {"dead", "starting", "subscribing", "hung", "waiting", "debouncing",
                      "refreshing"}]
  /\ inbox \in [Pids -> BOOLEAN] /\ eof \in [Pids -> BOOLEAN]
  /\ slept \in [Pids -> 0 .. TickerPeriod] /\ worked \in [Pids -> 0 .. WorkMax]
  /\ beaten \subseteq {d \in Pids : Subscribed(d)}
  /\ hook \in [Hooks -> {"idle", "spawning"}]
  /\ unrecovered \in BOOLEAN /\ disturbances \in 0 .. MaxDisturbances

\* A daemon that owns the lock and has renewed it once never looks dead to a
\* hook, however its ticks, events and refreshes fall: no second daemon is
\* started beside it (ticker, debounce and HEARTBEAT_STALE_MS in daemon.rs).
OwnerStaysFresh ==
  \A d \in beaten : watch.pid = d => Healthy

\* The lock of a live daemon that has renewed it is removed by no one: another
\* daemon's cleanup_lock spares it and so does recover.
LockIsSpared ==
  [][\A d \in beaten : watch.pid = d /\ Running(d)' => watch'.pid # NoPid]_vars

\* However many hooks have started daemons at once, and whatever has died,
\* in the end there is one daemon and it owns the lock for good.
OneDaemonRemains ==
  <>[](\A d, e \in Pids : Running(d) /\ Running(e) => d = e)

\* While hooks keep coming, a dead daemon is replaced, even if its lock is
\* still there and its pid belongs to another program.  A daemon that has outlived its
\* subscription counts, too (EofEndsDaemon).
Rearmed == <>[](\E d \in Pids : Subscribed(d) /\ watch.pid = d)

\* daemon.rs: the daemon exits on socket EOF so the next hook re-arms it.
EofEndsDaemon == \A d \in Pids : eof[d] ~> ~Running(d)
==============================================================================
