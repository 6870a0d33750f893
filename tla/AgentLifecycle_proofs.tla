----------------------- MODULE AgentLifecycle_proofs -----------------------
(* Proofs about AgentLifecycle, for every number of runs of a slot.          *)
EXTENDS AgentLifecycle, TLAPS

\* Nothing has happened yet to a run that has not been started.
FutureRunsUntouched ==
  \A r \in Runs : r > current =>
    /\ r \notin spawned /\ r \notin deaths /\ r \notin wipKills
    /\ \A by \in Detectors : <<r, by>> \notin done

Inv ==
  /\ TypeOK
  /\ MonitoredUntilHandled
  /\ FutureRunsUntouched
  /\ CurrentRunReportedOnce

LEMMA RunNumbers ==
  /\ \A r \in Runs : r \in Nat /\ r >= 1 /\ r <= MaxRuns
  /\ \A r, n \in Runs : r <= n \/ r > n
  /\ 1 \in Runs /\ 0 \notin Runs /\ MaxRuns \in Nat
  /\ \A r \in Runs : r < MaxRuns => r + 1 \in Runs /\ r + 1 > r
BY MaxRunsAssumption DEF Runs

\* What is not started, or not reported, is known of the runs up to current.
LEMMA BegunRuns ==
  ASSUME TypeOK, FutureRunsUntouched, NEW r \in Runs,
         \/ r \in spawned \cup deaths \cup wipKills
         \/ \E by \in Detectors : <<r, by>> \in done
  PROVE  r <= current
BY RunNumbers DEF TypeOK, FutureRunsUntouched

USE DEF None, Detectors

-----------------------------------------------------------------------------
LEMMA InitInv == Init => Inv
<1> SUFFICES ASSUME Init PROVE Inv
  OBVIOUS
<1>1. TypeOK
  <2>1. proc \in [Runs -> {"unborn", "running", "dying", "dead"}]
    BY DEF Init
  <2>2. spawned \subseteq Runs /\ closed \subseteq spawned /\ exitNotified \subseteq spawned
    BY RunNumbers DEF Init
  <2>3. quiet \in Fresh..PastDeadline
    BY DEF Init, Fresh, PastDeadline
  <2> QED  BY <2>1, <2>2, <2>3, RunNumbers DEF Init, TypeOK
<1>2. MonitoredUntilHandled /\ FutureRunsUntouched
  BY RunNumbers DEF Init, MonitoredUntilHandled, FutureRunsUntouched
<1>3. CurrentRunReportedOnce
  BY DEF Init, CurrentRunReportedOnce, reporting, reports
<1> QED  BY <1>1, <1>2, <1>3 DEF Inv

\* Signalling processes keeps their states well-formed.
LEMMA KilledType ==
  ASSUME TypeOK, NEW r \in Runs
  PROVE  /\ killed(proc, r) \in [Runs -> {"unborn", "running", "dying", "dead"}]
         /\ killActive(proc) \in [Runs -> {"unborn", "running", "dying", "dead"}]
BY DEF TypeOK, killed, killActive

\* Reporting the end of a run that has begun, by the detector that settles it,
\* keeps the invariant about reports.
LEMMA SettleInv ==
  ASSUME Inv, ~exitHandled, NEW r \in Runs, r <= current, NEW by \in {"exit", "monitor"},
         settle, invokeOnDone(r, by), UNCHANGED <<wipKills, deaths>>, spawned' = spawned
  PROVE  /\ MonitoredUntilHandled' /\ FutureRunsUntouched' /\ CurrentRunReportedOnce'
         /\ handling' \subseteq done' /\ done' \subseteq Runs \X Detectors
         /\ exitHandled' \in BOOLEAN /\ activeProcess' = None /\ timers' = None
         /\ UNCHANGED <<current, lifecycleState, killedDueToTimeout, quiet>>
<1>1. MonitoredUntilHandled' /\ FutureRunsUntouched'
  BY RunNumbers DEF Inv, TypeOK, settle, invokeOnDone, MonitoredUntilHandled,
     FutureRunsUntouched
<1>2. CurrentRunReportedOnce'
  <2>1. reporting(current) = {}
    BY DEF Inv, CurrentRunReportedOnce
  <2>2. reporting(current)' \subseteq {by}
    BY <2>1 DEF settle, invokeOnDone, reporting, reports
  <2> QED  BY <2>2 DEF settle, CurrentRunReportedOnce
<1> QED  BY <1>1, <1>2 DEF Inv, TypeOK, settle, invokeOnDone

LEMMA OnExitInv ==
  ASSUME Inv, NEW r \in Runs, r <= current, onExit(r),
         proc' \in [Runs -> {"unborn", "running", "dying", "dead"}],
         closed' \subseteq spawned, exitNotified' \subseteq spawned,
         UNCHANGED <<spawned, resultFile>>
  PROVE  Inv'
<1>1. CASE exitHandled /\ UNCHANGED <<runStateVars, pendingVars>>
  BY <1>1 DEF Inv, TypeOK, runStateVars, pendingVars, MonitoredUntilHandled,
     FutureRunsUntouched, CurrentRunReportedOnce, reporting, reports
<1>2. CASE ~exitHandled /\ settle /\ invokeOnDone(r, "exit") /\ UNCHANGED <<wipKills, deaths>>
  <2>1. /\ MonitoredUntilHandled' /\ FutureRunsUntouched' /\ CurrentRunReportedOnce'
        /\ handling' \subseteq done' /\ done' \subseteq Runs \X Detectors
        /\ exitHandled' \in BOOLEAN /\ activeProcess' = None /\ timers' = None
        /\ UNCHANGED <<current, lifecycleState, killedDueToTimeout, quiet>>
    BY <1>2, SettleInv
  <2>2. TypeOK'
    BY <1>2, <2>1 DEF Inv, TypeOK
  <2> QED  BY <2>1, <2>2 DEF Inv
<1> QED  BY <1>1, <1>2 DEF onExit

\* A step that changes neither the run state's fields the invariant is about nor
\* the reports keeps it.
LEMMA QuietInv ==
  ASSUME Inv,
         proc' \in [Runs -> {"unborn", "running", "dying", "dead"}],
         resultFile' \in Runs \cup {None},
         lifecycleState' \in {"running", "suspended"},
         killedDueToTimeout' \in BOOLEAN,
         quiet' \in Fresh..PastDeadline,
         wipKills' \subseteq wipKills \cup {timers}, wipKills' \subseteq Runs,
         handling' \subseteq done,
         UNCHANGED <<spawned, closed, exitNotified, current, exitHandled, activeProcess,
                     timers, deaths, done>>
  PROVE  Inv'
<1>1. TypeOK' /\ MonitoredUntilHandled'
  BY DEF Inv, TypeOK, MonitoredUntilHandled
<1>2. FutureRunsUntouched'
  BY RunNumbers DEF Inv, TypeOK, FutureRunsUntouched, MonitoredUntilHandled
<1>3. CurrentRunReportedOnce'
  BY DEF Inv, CurrentRunReportedOnce, reporting, reports
<1> QED  BY <1>1, <1>2, <1>3 DEF Inv
LEMMA RunInv ==
  ASSUME Inv, NEW r \in Runs, NEW by \in Detectors, Run(r, by)
  PROVE  Inv'
<1> DEFINE n == current + 1
<1>0. /\ proc' = [proc EXCEPT ![n] = "running"]
      /\ spawned' = spawned \cup {n}
      /\ startMonitors(n)
  BY DEF Run
<1>1. n \in Runs /\ n > current
  BY RunNumbers DEF Run, Inv, TypeOK
<1> HIDE DEF n
<1>2. TypeOK'
  <2>1. proc' \in [Runs -> {"unborn", "running", "dying", "dead"}]
    BY <1>0, <1>1 DEF Inv, TypeOK
  <2>2. quiet' \in Fresh..PastDeadline
    BY <1>0 DEF startMonitors, Fresh, PastDeadline
  <2>3. spawned' \subseteq Runs /\ closed' \subseteq spawned' /\ exitNotified' \subseteq spawned'
    BY <1>0, <1>1 DEF Run, Inv, TypeOK
  <2> QED  BY <1>0, <1>1, <2>1, <2>2, <2>3 DEF Run, startMonitors, Inv, TypeOK
<1>3. MonitoredUntilHandled' /\ FutureRunsUntouched'
  BY <1>0, <1>1, RunNumbers DEF Run, startMonitors, Inv, TypeOK, MonitoredUntilHandled,
     FutureRunsUntouched
<1>4. CurrentRunReportedOnce'
  <2>1. n \notin deaths /\ \A d \in Detectors : <<n, d>> \notin done
    BY <1>1 DEF Inv, FutureRunsUntouched
  <2> QED  BY <1>0, <2>1 DEF Run, startMonitors, CurrentRunReportedOnce, reporting, reports
<1> QED  BY <1>2, <1>3, <1>4 DEF Inv

LEMMA HandlerRejectsInv ==
  ASSUME Inv, NEW r \in Runs, NEW by \in Detectors, HandlerRejects(r, by)
  PROVE  Inv'
<1>1. CASE by # "death" /\ handling' = handling \ {<<r, by>>} /\ UNCHANGED done
  BY <1>1, QuietInv DEF HandlerRejects, processVars, runStateVars, Inv, TypeOK
<1>2. CASE /\ by = "death"
           /\ handling' = (handling \ {<<r, by>>}) \cup {<<r, "deathRetry">>}
           /\ done' = done \cup {<<r, "deathRetry">>}
  <2>1. <<r, "death">> \in done /\ r <= current
    BY <1>2, BegunRuns DEF HandlerRejects, Inv, TypeOK
  <2>2. TypeOK' /\ MonitoredUntilHandled' /\ FutureRunsUntouched'
    BY <1>2, <2>1 DEF HandlerRejects, processVars, runStateVars, Inv, TypeOK,
       MonitoredUntilHandled, FutureRunsUntouched
  <2>3. reporting(current)' = reporting(current)
    BY <1>2, <2>1 DEF HandlerRejects, runStateVars, reporting, reports
  <2>4. CurrentRunReportedOnce'
    BY <2>3 DEF HandlerRejects, runStateVars, Inv, CurrentRunReportedOnce
  <2> QED  BY <2>2, <2>4 DEF Inv
<1> QED  BY <1>1, <1>2 DEF HandlerRejects

LEMMA InactivityDeadInv ==
  ASSUME Inv, NEW r \in Runs, InactivityDead(r)
  PROVE  Inv'
<1>1. r = current /\ reporting(current) = {}
  BY DEF InactivityDead, Inv, MonitoredUntilHandled, CurrentRunReportedOnce
<1>2. TypeOK' /\ MonitoredUntilHandled' /\ FutureRunsUntouched'
  BY <1>1, RunNumbers DEF InactivityDead, settle, processVars, Inv, TypeOK, MonitoredUntilHandled,
     FutureRunsUntouched
<1>3. reporting(current)' \subseteq {"death"}
  BY <1>1 DEF InactivityDead, settle, reporting, reports
<1>4. CurrentRunReportedOnce'
  BY <1>3 DEF InactivityDead, settle, CurrentRunReportedOnce
<1> QED  BY <1>2, <1>4 DEF Inv

LEMMA AfterDeathCommitInv ==
  ASSUME Inv, NEW r \in Runs, AfterDeathCommit(r)
  PROVE  Inv'
<1> USE DEF AfterDeathCommit, invokeOnDone, processVars, runStateVars
<1>1. r <= current
  BY BegunRuns DEF Inv
<1>2. TypeOK' /\ MonitoredUntilHandled' /\ FutureRunsUntouched'
  BY <1>1 DEF Inv, TypeOK, MonitoredUntilHandled, FutureRunsUntouched
<1>3. reporting(current)' \subseteq reporting(current)
  <2>1. CASE r = current
    BY <2>1 DEF reporting, reports
  <2>2. CASE r # current
    BY <2>2 DEF reporting, reports
  <2> QED  BY <2>1, <2>2
<1>4. CurrentRunReportedOnce'
  BY <1>3 DEF Inv, CurrentRunReportedOnce
<1> QED  BY <1>2, <1>4 DEF Inv

LEMMA StepInv == Inv /\ [Next]_vars => Inv'
<1> SUFFICES ASSUME Inv, [Next]_vars PROVE Inv'
  OBVIOUS
<1> USE DEF processVars, runStateVars, pendingVars
<1>1. ASSUME NEW r \in Runs, Agent(r) PROVE Inv'
  <2>1. CASE AgentWritesResult(r)
    BY <2>1, QuietInv DEF AgentWritesResult, Inv, TypeOK
  <2>2. CASE AgentOutput(r)
    BY <2>2, QuietInv DEF AgentOutput, Inv, TypeOK, Fresh, PastDeadline
  <2>3. CASE ProcessDies(r)
    BY <2>3, QuietInv DEF ProcessDies, Inv, TypeOK
  <2>4. CASE CloseEvent(r)
    <3>1. r <= current
      BY <2>4, BegunRuns DEF CloseEvent, Inv
    <3>2. CASE onExit(r)
      BY <2>4, <3>1, <3>2, OnExitInv DEF CloseEvent, Inv, TypeOK
    <3>3. CASE UNCHANGED <<runStateVars, pendingVars>>
      BY <2>4, <3>3 DEF CloseEvent, Inv, TypeOK, MonitoredUntilHandled, FutureRunsUntouched,
         CurrentRunReportedOnce, reporting, reports
    <3> QED  BY <2>4, <3>2, <3>3 DEF CloseEvent
  <2>5. CASE ClientResultPoll(r)
    <3>1. r <= current
      BY <2>5, BegunRuns DEF ClientResultPoll, Inv
    <3> QED  BY <2>5, <3>1, OnExitInv, KilledType DEF ClientResultPoll, Inv, TypeOK
  <2> QED  BY <1>1, <2>1, <2>2, <2>3, <2>4, <2>5 DEF Agent
<1>2. ASSUME NEW r \in Runs, Monitor(r) PROVE Inv'
  <2>1. CASE ResultMonitor(r)
    <3>1. r = current /\ r <= current
      BY <2>1, RunNumbers DEF ResultMonitor, Inv, TypeOK, MonitoredUntilHandled
    <3>2. /\ MonitoredUntilHandled' /\ FutureRunsUntouched' /\ CurrentRunReportedOnce'
          /\ handling' \subseteq done' /\ done' \subseteq Runs \X Detectors
          /\ exitHandled' \in BOOLEAN /\ activeProcess' = None /\ timers' = None
          /\ UNCHANGED <<current, lifecycleState, killedDueToTimeout, quiet>>
      BY <2>1, <3>1, SettleInv DEF ResultMonitor, Inv, TypeOK
    <3>3. TypeOK'
      BY <2>1, <3>2, KilledType DEF ResultMonitor, Inv, TypeOK
    <3> QED  BY <3>2, <3>3 DEF Inv
  <2>2. CASE InactivityDead(r)
    BY <2>2, InactivityDeadInv
  <2>3. CASE AfterDeathCommit(r)
    BY <2>3, AfterDeathCommitInv
  <2>4. CASE InactivitySuspends(r)
    BY <2>4, QuietInv DEF InactivitySuspends, Inv, TypeOK
  <2>5. CASE InactivityTimeout(r)
    BY <2>5, QuietInv DEF InactivityTimeout, Inv, TypeOK
  <2>6. CASE KillAfterCommit(r)
    BY <2>6, QuietInv, KilledType DEF KillAfterCommit, Inv, TypeOK
  <2> QED  BY <1>2, <2>1, <2>2, <2>3, <2>4, <2>5, <2>6 DEF Monitor
<1>3. ASSUME NEW r \in Runs, NEW by \in Detectors, Handler(r, by) PROVE Inv'
  <2>1. CASE Run(r, by)
    BY <2>1, RunInv
  <2>2. CASE HandlerFulfils(r, by)
    BY <2>2, QuietInv DEF HandlerFulfils, Inv, TypeOK
  <2>3. CASE HandlerRejects(r, by)
    BY <2>3, HandlerRejectsInv
  <2> QED  BY <1>3, <2>1, <2>2, <2>3 DEF Handler
<1>4. CASE GoQuiet
  BY <1>4, QuietInv DEF GoQuiet, Inv, TypeOK, Fresh, PastDeadline
<1>5. CASE UNCHANGED vars
  BY <1>5, QuietInv DEF vars, Inv, TypeOK
<1> QED  BY <1>1, <1>2, <1>3, <1>4, <1>5 DEF Next

THEOREM Invariance == Spec => []Inv
BY InitInv, StepInv, PTL DEF Spec

\* Type correctness of every behaviour.
THEOREM TypeCorrect == Spec => []TypeOK
<1>1. Inv => TypeOK
  BY DEF Inv
<1> QED  BY Invariance, <1>1, PTL

\* Timers and process belong to the current run exactly until its end is
\* handled, for any number of runs of a slot and any late exits.
THEOREM MonitoredSafe == Spec => []MonitoredUntilHandled
<1>1. Inv => MonitoredUntilHandled
  BY DEF Inv
<1> QED  BY Invariance, <1>1, PTL

\* exitHandled makes the detectors exclusive until the run state is reset.
THEOREM ReportedOnceSafe == Spec => []CurrentRunReportedOnce
<1>1. Inv => CurrentRunReportedOnce
  BY DEF Inv
<1> QED  BY Invariance, <1>1, PTL
=============================================================================
