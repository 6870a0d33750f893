--------------------------- MODULE AgentLifecycle ---------------------------
(* The monitoring of one agent slot: AgentLifecycleManager of packages/      *)
(* backend/src/services/agent-lifecycle.ts and the process it watches        *)
(* (agent-client.ts, doSpawnWithTaskFile).  A slot keeps one run state and   *)
(* one timer registry; the coder, its retries, the repair of its output and  *)
(* the general reviewer are runs that reuse them one after the other, each   *)
(* started by the onDone handler of an earlier one.  Four detectors can find *)
(* that a run is over: the process' close event, the client's and the        *)
(* manager's poll of result.json, and the inactivity monitor.                *)
EXTENDS Naturals

CONSTANTS MaxRuns  \* bound on the runs of one slot

ASSUME MaxRunsAssumption == MaxRuns \in Nat \ {0}

Runs == 1..MaxRuns
None == 0          \* null, for activeProcess, timers and result.json

\* How an invocation of onDone came about.  "deathRetry" is the call in the
\* catch of the dead-process path, made when commitWip or the first call fails.
Detectors == {"exit", "monitor", "death", "deathRetry"}

\* Milliseconds since the last output, by the thresholds they have passed:
\* AGENT_INACTIVITY_TIMEOUT_MS, AGENT_SUSPEND_GRACE_MS, and the deadline of a
\* suspension that began in between.
Fresh == 0
TimedOut == 1
PastGrace == 2
PastDeadline == 3

VARIABLES
  proc,          \* each run's process: "unborn", "running", "dying", "dead"
  spawned,       \* the runs whose process is a child of this backend
  closed,        \* the runs whose close event has been delivered
  exitNotified,  \* doSpawnWithTaskFile's flag of each run
  resultFile,    \* the run that wrote the result.json now on disk
  current,       \* the run the run state was last reset for
  exitHandled, activeProcess, lifecycleState, killedDueToTimeout, quiet,
  timers,        \* the run whose heartbeat, result and inactivity timers are set
  wipKills,      \* runs whose timeout kill waits for commitWip
  deaths,        \* runs whose dead-process path waits for commitWip
  handling,      \* <<run, detector>>: onDone is executing
  done           \* <<run, detector>>: onDone has been invoked

runStateVars == <<current, exitHandled, activeProcess, lifecycleState, killedDueToTimeout,
                  quiet, timers>>
processVars == <<proc, spawned, closed, exitNotified, resultFile>>
pendingVars == <<wipKills, deaths, handling, done>>
vars == <<processVars, runStateVars, pendingVars>>

-----------------------------------------------------------------------------
\* Signals the process group; the SIGKILL that follows after five seconds is
\* the process' own step from dying to dead.
killed(p, r) == IF p[r] = "running" THEN [p EXCEPT ![r] = "dying"] ELSE p

killActive(p) == IF activeProcess = None THEN p ELSE killed(p, activeProcess)

invokeOnDone(r, by) ==
  /\ handling' = handling \cup {<<r, by>>}
  /\ done' = done \cup {<<r, by>>}

\* Mutant: the end of a run leaves its timers set.
settleKeepingTimers ==
  /\ exitHandled' = TRUE
  /\ activeProcess' = None
  /\ UNCHANGED <<current, lifecycleState, killedDueToTimeout, quiet, timers>>

\* exitHandled = true; activeProcess = null; cleanupTimers(timers).
settle ==
  /\ exitHandled' = TRUE
  /\ activeProcess' = None
  /\ timers' = None
  /\ UNCHANGED <<current, lifecycleState, killedDueToTimeout, quiet>>

\* Mutant: the exit callback does not look at exitHandled.
unguardedOnExit(r) ==
  /\ exitHandled' = TRUE
  /\ activeProcess' = None
  /\ timers' = None
  /\ UNCHANGED <<current, lifecycleState, killedDueToTimeout, quiet, wipKills, deaths>>
  /\ invokeOnDone(r, "exit")

\* The onExit callback of run r.
onExit(r) ==
  \/ /\ exitHandled
     /\ UNCHANGED <<runStateVars, pendingVars>>
  \/ /\ ~exitHandled
     /\ settle
     /\ invokeOnDone(r, "exit")
     /\ UNCHANGED <<wipKills, deaths>>

\* Reset of the run state and start of the monitors, by run and resumeMonitoring.
startMonitors(r) ==
  /\ current' = r
  /\ exitHandled' = FALSE
  /\ activeProcess' = r
  /\ lifecycleState' = "running"
  /\ killedDueToTimeout' = FALSE
  /\ quiet' = Fresh
  /\ timers' = r

\* The slot's first run: spawned by a dispatch, or re-attached to after a
\* restart of the backend, when no child handle and no close event exist, and
\* then it may be taken for suspended at once.
Init ==
  /\ proc = [r \in Runs |-> IF r = 1 THEN "running" ELSE "unborn"]
  /\ spawned \in {{}, {1}}
  /\ closed = {}
  /\ exitNotified = {}
  /\ resultFile = None
  /\ current = 1
  /\ exitHandled = FALSE
  /\ activeProcess = 1
  /\ lifecycleState \in IF 1 \in spawned THEN {"running"} ELSE {"running", "suspended"}
  /\ killedDueToTimeout = FALSE
  /\ quiet = Fresh
  /\ timers = 1
  /\ wipKills = {}
  /\ deaths = {}
  /\ handling = {}
  /\ done = {}

\* The onDone handler of run r goes on to a further run on the same slot: the
\* preflight removes result.json, then run() spawns the process.
Run(r, by) ==
  /\ <<r, by>> \in handling
  /\ current < MaxRuns
  /\ LET n == current + 1
     IN  /\ proc' = [proc EXCEPT ![n] = "running"]
         /\ spawned' = spawned \cup {n}
         /\ startMonitors(n)
  /\ resultFile' = None
  /\ handling' = handling \ {<<r, by>>}
  /\ UNCHANGED <<closed, exitNotified, wipKills, deaths, done>>

HandlerFulfils(r, by) ==
  /\ <<r, by>> \in handling
  /\ handling' = handling \ {<<r, by>>}
  /\ UNCHANGED <<processVars, runStateVars, wipKills, deaths, done>>

\* Logged or swallowed, but for the dead-process path, whose catch covers
\* commitWip and onDone alike and calls onDone.
HandlerRejects(r, by) ==
  /\ <<r, by>> \in handling
  /\ \/ /\ by # "death"
        /\ handling' = handling \ {<<r, by>>}
        /\ UNCHANGED done
     \/ /\ by = "death"
        /\ handling' = (handling \ {<<r, by>>}) \cup {<<r, "deathRetry">>}
        /\ done' = done \cup {<<r, "deathRetry">>}
  /\ UNCHANGED <<processVars, runStateVars, wipKills, deaths>>

-----------------------------------------------------------------------------
(* The agent process.                                                        *)

AgentWritesResult(r) ==
  /\ proc[r] \in {"running", "dying"}
  /\ resultFile' = r
  /\ UNCHANGED <<proc, spawned, closed, exitNotified, runStateVars, pendingVars>>

\* Output reaches the run state through the poll of the log file, which stops
\* when the client has notified the exit.
AgentOutput(r) ==
  /\ proc[r] \in {"running", "dying"}
  /\ r \notin exitNotified
  /\ r \in spawned \/ timers = r
  /\ quiet' = Fresh
  /\ lifecycleState' = "running"
  /\ UNCHANGED <<processVars, current, exitHandled, activeProcess, killedDueToTimeout,
                 timers, pendingVars>>

ProcessDies(r) ==
  /\ proc[r] \in {"running", "dying"}
  /\ proc' = [proc EXCEPT ![r] = "dead"]
  /\ UNCHANGED <<spawned, closed, exitNotified, resultFile, runStateVars, pendingVars>>

\* Mutant: a close event is expected of a re-attached process as well.
anyCloseEvent(r) ==
  /\ proc[r] = "dead" /\ r \notin closed
  /\ closed' = closed \cup {r}
  /\ UNCHANGED <<proc, spawned, exitNotified, resultFile>>
  /\ \/ r \in exitNotified /\ UNCHANGED <<runStateVars, pendingVars>>
     \/ r \notin exitNotified /\ onExit(r)

\* child.on("close"): polls stop, and the exit is reported unless the client's
\* own result poll has reported it.
CloseEvent(r) ==
  /\ proc[r] = "dead" /\ r \in spawned \ closed
  /\ closed' = closed \cup {r}
  /\ UNCHANGED <<proc, spawned, exitNotified, resultFile>>
  /\ \/ r \in exitNotified /\ UNCHANGED <<runStateVars, pendingVars>>
     \/ r \notin exitNotified /\ onExit(r)

\* checkResultAndMaybeExit of the client: it runs until the close event or its
\* own notification stops the poll.
ClientResultPoll(r) ==
  /\ r \in spawned \ (closed \cup exitNotified)
  /\ resultFile # None
  /\ exitNotified' = exitNotified \cup {r}
  /\ proc' = killed(proc, r)
  /\ UNCHANGED <<spawned, closed, resultFile>>
  /\ onExit(r)

-----------------------------------------------------------------------------
(* The manager's monitors.                                                   *)

ResultMonitor(r) ==
  /\ timers = r
  /\ ~exitHandled
  /\ resultFile # None
  /\ proc' = killActive(proc)
  /\ settle
  /\ invokeOnDone(r, "monitor")
  /\ UNCHANGED <<spawned, closed, exitNotified, resultFile, wipKills, deaths>>

\* Mutant: only a suspended agent's process is looked at.
suspendedPidDead ==
  /\ lifecycleState = "suspended"
  /\ activeProcess # None /\ proc[activeProcess] = "dead"

pidDead == activeProcess # None /\ proc[activeProcess] = "dead"

InactivityDead(r) ==
  /\ timers = r
  /\ ~exitHandled
  /\ pidDead
  /\ settle
  /\ deaths' = deaths \cup {r}
  /\ UNCHANGED <<processVars, wipKills, handling, done>>

\* commitWip has settled; when it failed, the catch makes the call.
AfterDeathCommit(r) ==
  /\ r \in deaths
  /\ deaths' = deaths \ {r}
  /\ \E by \in {"death", "deathRetry"} : invokeOnDone(r, by)
  /\ UNCHANGED <<processVars, runStateVars, wipKills>>

InactivitySuspends(r) ==
  /\ timers = r
  /\ ~exitHandled /\ ~pidDead
  /\ quiet = TimedOut /\ lifecycleState # "suspended"
  /\ lifecycleState' = "suspended"
  /\ UNCHANGED <<processVars, current, exitHandled, activeProcess, killedDueToTimeout,
                 quiet, timers, pendingVars>>

\* Beyond the grace period, and not within the deadline of a suspension.
InactivityTimeout(r) ==
  /\ timers = r
  /\ ~exitHandled /\ ~pidDead
  /\ \/ quiet >= PastGrace /\ lifecycleState # "suspended"
     \/ quiet = PastDeadline
  /\ activeProcess # None
  /\ killedDueToTimeout' = TRUE
  /\ wipKills' = wipKills \cup {r}
  /\ UNCHANGED <<processVars, current, exitHandled, activeProcess, lifecycleState, quiet,
                 timers, deaths, handling, done>>

\* commitWip has settled: whatever process is active now is killed.
KillAfterCommit(r) ==
  /\ r \in wipKills
  /\ wipKills' = wipKills \ {r}
  /\ proc' = killActive(proc)
  /\ UNCHANGED <<spawned, closed, exitNotified, resultFile, runStateVars, deaths,
                 handling, done>>

GoQuiet ==
  /\ quiet < PastDeadline
  /\ quiet' = quiet + 1
  /\ UNCHANGED <<processVars, current, exitHandled, activeProcess, lifecycleState,
                 killedDueToTimeout, timers, pendingVars>>

-----------------------------------------------------------------------------
Agent(r) ==
  \/ AgentWritesResult(r)
  \/ AgentOutput(r)
  \/ ProcessDies(r)
  \/ CloseEvent(r)
  \/ ClientResultPoll(r)

Monitor(r) ==
  \/ ResultMonitor(r)
  \/ InactivityDead(r)
  \/ AfterDeathCommit(r)
  \/ InactivitySuspends(r)
  \/ InactivityTimeout(r)
  \/ KillAfterCommit(r)

Handler(r, by) == Run(r, by) \/ HandlerFulfils(r, by) \/ HandlerRejects(r, by)

Next ==
  \/ \E r \in Runs : Agent(r) \/ Monitor(r)
  \/ \E r \in Runs, by \in Detectors : Handler(r, by)
  \/ GoQuiet

\* The timers fire, promises settle, events are delivered, a process dies after
\* SIGKILL, and time passes.  An agent need not finish, write or say anything.
Fairness ==
  /\ \A r \in Runs :
       /\ WF_vars(CloseEvent(r))
       /\ WF_vars(ClientResultPoll(r))
       /\ WF_vars(ResultMonitor(r))
       /\ WF_vars(InactivityDead(r))
       /\ WF_vars(AfterDeathCommit(r))
       /\ WF_vars(InactivityTimeout(r))
       /\ WF_vars(KillAfterCommit(r))
       /\ WF_vars(proc[r] = "dying" /\ ProcessDies(r))
       /\ \A by \in Detectors : WF_vars(Handler(r, by))
  /\ WF_vars(GoQuiet)

Spec == Init /\ [][Next]_vars
FairSpec == Spec /\ Fairness

-----------------------------------------------------------------------------
(* What is checked of it.                                                    *)

\* Every variable has its type.
TypeOK ==
  /\ proc \in [Runs -> {"unborn", "running", "dying", "dead"}]
  /\ spawned \subseteq Runs /\ closed \subseteq spawned /\ exitNotified \subseteq spawned
  /\ resultFile \in Runs \cup {None}
  /\ current \in Runs
  /\ exitHandled \in BOOLEAN
  /\ activeProcess \in Runs \cup {None}
  /\ lifecycleState \in {"running", "suspended"}
  /\ killedDueToTimeout \in BOOLEAN
  /\ quiet \in Fresh..PastDeadline
  /\ timers \in Runs \cup {None}
  /\ wipKills \subseteq Runs /\ deaths \subseteq Runs
  /\ handling \subseteq done /\ done \subseteq Runs \X Detectors

\* A run is monitored, by its own timers and with its own process, exactly
\* until its end has been handled: no timer outlives the run it was set for and
\* no unhandled run is left without one, however runs and late exits interleave
\* (agent-lifecycle.ts 138-140, 183-187, 345-351, 493-499).
MonitoredUntilHandled ==
  IF exitHandled THEN timers = None /\ activeProcess = None
                 ELSE timers = current /\ activeProcess = current

\* The detectors that reported the end of run r; both calls of the dead-process
\* path are one.
reports(r) ==
  {by \in {"exit", "monitor"} : <<r, by>> \in done}
    \cup {by \in {"death"} : <<r, "death">> \in done \/ <<r, "deathRetry">> \in done}

\* As long as the run state has not been reset for a further run, at most one
\* of the detectors has won the race to report the run's end; a dead process
\* whose work is still being committed counts as its one report.
reporting(r) == reports(r) \cup {by \in {"death"} : r \in deaths}

CurrentRunReportedOnce ==
  /\ \A a, b \in reporting(current) : a = b
  /\ ~exitHandled => reporting(current) = {}

\* The run state is not left waiting: once the process it was reset for has died,
\* a result file is there, or the agent has been silent for good, a detector
\* settles it, or the next run takes it over; re-attached processes, which send
\* no close event, included (322-374, 480-548).
over(r) == \/ proc[r] = "dead"
           \/ resultFile # None
           \/ quiet = PastDeadline

FinishedRunIsSettled ==
  \A r \in Runs : (current = r /\ over(r)) ~> (exitHandled \/ current # r \/ ~over(r))

\* agent-lifecycle.ts:122, "The caller's onDone callback is invoked exactly once
\* when the agent finishes": at least once for every run that is over.
FinishedRunIsReported ==
  \A r \in Runs : (proc[r] # "unborn" /\ over(r)) ~> (reports(r) # {} \/ ~over(r))

\* agent-lifecycle.ts:122, "The caller's onDone callback is invoked exactly once
\* when the agent finishes": never more than once for a run.
OnDoneAtMostOnce ==
  \A r \in Runs, a, b \in Detectors : <<r, a>> \in done /\ <<r, b>> \in done => a = b

\* The same comment, whatever the handler does: two detectors never both report
\* a run.
OneDetectorReports == \A r \in Runs : \A a, b \in reports(r) : a = b
=============================================================================
