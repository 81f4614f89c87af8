------------------------------ MODULE AutoSync ------------------------------
(* The auto-sync controller (packages/core/src/auto-sync-controller.ts) of   *)
(* the desktop or the mobile app, over the orchestrator of the app's sync    *)
(* service: which triggers become sync cycles, and when.                     *)
(*                                                                           *)
(* Deadlines are abstracted to what the code compares them with: a minimum   *)
(* interval is running or over, a failure cooldown is running or over, and   *)
(* an armed timer fires some time later. A cycle of the service is reduced   *)
(* to the local changes it has read.                                         *)
EXTENDS Naturals, SyncOrchestrator

CONSTANTS
  Platforms,    \* the policies to explore, of {"desktop", "mobile"}
  MaxChanges,   \* bound: local data changes
  MaxFaults     \* bound: failed, refused or deferred cycles

ASSUME AutoSyncAssumption ==
  /\ Platforms \subseteq {"desktop", "mobile"}
  /\ MaxChanges \in Nat /\ MaxFaults \in Nat

VARIABLES
  platform,    \* the policy switches of the app (fixed)
  version,     \* local data changes so far
  covered,     \* the changes a completed service cycle has read
  noticed,     \* mobile: changes seen by the payload fingerprint
  active,      \* isRuntimeActive: until the controller is disposed of
  paused,      \* desktop: an editor holds window syncs off
  suspended,   \* mobile: the app is in the background
  timers,      \* armed timers, and mobile's reads of the cadence under way
  throttle,    \* syncThrottleTimer: "off", or what it was armed for
  cooldown,    \* autoSyncRetryAfter: "off" (zero), "running" or "over"
  recent,      \* the minimum interval since lastAutoSyncAt is running
  remembered,  \* requestedWhileSuspended
  ctl,         \* the controller's orchestrator
  cycle,       \* the controller's cycle in flight
  svc,         \* the service's orchestrator
  run,         \* the service's cycle in flight
  faults

window == <<platform, version, noticed, active, paused, suspended, timers>>
pacing == <<throttle, cooldown, recent, remembered>>
service == <<svc, run, covered>>
vars == <<window, pacing, ctl, cycle, service, faults>>

\* A request: an automatic one to which the minimum interval applies or not
\* (minIntervalMs zero), or the user's, for which no cooldown counts either.
Paced == "paced"
Unpaced == "unpaced"
Manual == "manual"
Requests == {Paced, Unpaced, Manual}

NoCycle == [pc |-> "off", req |-> NoArg, suspended |-> FALSE]
Results == {"success", "failure", "ignored"}
CyclePC == {"gate", "flush", "sync"} \cup Results

NoRun == [pc |-> "off", read |-> 0]

Mobile == platform = "mobile"

Init ==
  /\ platform \in Platforms
  /\ version = 0 /\ covered = 0 /\ noticed = 0
  /\ active = TRUE /\ paused = FALSE /\ suspended = FALSE
  /\ timers = IF Mobile THEN {} ELSE {"initial", "periodic"}
  /\ throttle = "off" /\ cooldown = "off" /\ recent = FALSE /\ remembered = FALSE
  /\ ctl = Idle /\ cycle = NoCycle
  /\ svc = Idle /\ run = NoRun
  /\ faults = 0

-----------------------------------------------------------------------------
(* Starting a controller cycle.                                              *)

\* An armed timer is kept: whoever comes second waits for it.
Arm(thr, reason) == IF thr = "off" THEN reason ELSE thr

\* Mutant: the cooldown that a follow-up's own predecessor started is missed.
CoolingBefore(r, cd) == r # Manual /\ cooldown = "running"

Cooling(r, cd) == r # Manual /\ cd = "running"

Throttled(r, rc) == r = Paced /\ rc

\* A cycle may find at its start that it is not its time yet: it ends in the
\* same turn, and the throttle timer, if none is armed, brings it back. (thr,
\* cd and rc: throttle timer, cooldown and interval as they are by then.)
Begin(r, thr, cd, rc) ==
  IF active /\ ~Cooling(r, cd) /\ ~Throttled(r, rc)
  THEN /\ ctl' = Run(Idle, r)
       /\ cycle' = [pc |-> "gate", req |-> r, suspended |-> suspended]
       /\ throttle' = thr
  ELSE /\ ctl' = Idle
       /\ cycle' = NoCycle
       /\ throttle' = IF ~active THEN thr
                      ELSE Arm(thr, IF Cooling(r, cd) THEN "cooldown" ELSE "throttle")

\* orchestrator.run
Submit(r, thr) ==
  IF ctl.busy
  THEN ctl' = Run(ctl, r) /\ UNCHANGED cycle /\ throttle' = thr
  ELSE Begin(r, thr, cooldown, recent)

\* requestAutoSync; thr and rem are the timer and the memory its caller leaves.
AutoRequest(r, retry, thr, rem) ==
  /\ remembered' = (rem \/ (active /\ suspended /\ ctl.busy))
  /\ IF ~active \/ (retry /\ Mobile /\ ctl.busy)
     THEN UNCHANGED <<ctl, cycle>> /\ throttle' = thr
     ELSE IF Cooling(r, cooldown)
     THEN UNCHANGED <<ctl, cycle>> /\ throttle' = Arm(thr, "cooldown")
     ELSE Submit(r, thr)

Trigger(r) == AutoRequest(r, FALSE, throttle, remembered)

NoTrigger == UNCHANGED <<remembered, throttle, ctl, cycle>>

-----------------------------------------------------------------------------
(* Triggers.                                                                 *)

\* A local change arms the debounce timer anew (handleDataChange).
DataChange ==
  /\ active /\ version < MaxChanges
  /\ version' = version + 1
  /\ timers' = timers \cup {"debounce"}
  /\ UNCHANGED <<platform, noticed, active, paused, suspended, pacing, ctl, cycle, service, faults>>

\* Desktop fires at once. Mobile drops a change it has seen before and reads
\* the cadence of the backend first.
DebounceFires ==
  /\ "debounce" \in timers
  /\ IF Mobile
     THEN /\ noticed' = version
          /\ timers' = (timers \ {"debounce"}) \cup (IF noticed = version THEN {} ELSE {"cadence"})
          /\ NoTrigger
     ELSE /\ timers' = timers \ {"debounce"}
          /\ Trigger(Paced) /\ UNCHANGED noticed
  /\ UNCHANGED <<platform, version, active, paused, suspended, cooldown, recent, service, faults>>

CadenceRead ==
  /\ "cadence" \in timers
  /\ timers' = timers \ {"cadence"}
  /\ Trigger(Paced)
  /\ UNCHANGED <<platform, version, noticed, active, paused, suspended, cooldown, recent, service, faults>>

\* Startup, a notification of the backend and other callers of the app.
ExternalRequest ==
  /\ Mobile /\ active
  /\ \E r \in {Paced, Unpaced} : Trigger(r)
  /\ UNCHANGED <<window, cooldown, recent, service, faults>>

InitialFires ==
  /\ "initial" \in timers
  /\ timers' = timers \ {"initial"}
  /\ Trigger(Paced)
  /\ UNCHANGED <<platform, version, noticed, active, paused, suspended, cooldown, recent, service, faults>>

\* Mutant: the heartbeat is a single timer.
PeriodicFiresOnce ==
  /\ "periodic" \in timers
  /\ timers' = timers \ {"periodic"}
  /\ IF paused THEN NoTrigger ELSE Trigger(Paced)
  /\ UNCHANGED <<platform, version, noticed, active, paused, suspended, cooldown, recent, service, faults>>

\* The heartbeat arms itself again whatever it did.
PeriodicFires ==
  /\ "periodic" \in timers
  /\ IF paused THEN NoTrigger ELSE Trigger(Paced)
  /\ UNCHANGED <<window, cooldown, recent, service, faults>>

\* Focus syncs when the last run is old, blur when something is to be pushed.
FocusOrBlur ==
  /\ ~Mobile /\ active /\ ~paused
  /\ ~recent \/ covered < version
  /\ Trigger(Paced)
  /\ UNCHANGED <<window, cooldown, recent, service, faults>>

\* Sync now: on the desktop through the controller (requestSync).
RequestSync ==
  /\ ~Mobile /\ active
  /\ Submit(Manual, throttle)
  /\ UNCHANGED <<window, cooldown, recent, remembered, service, faults>>

\* The throttle timer, for its first reason.
ThrottleFires ==
  /\ throttle = "throttle" \/ (throttle = "cooldown" /\ cooldown # "running")
  /\ AutoRequest(Unpaced, TRUE, "off", remembered)
  /\ UNCHANGED <<window, cooldown, recent, service, faults>>

CooldownEnds ==
  /\ cooldown = "running"
  /\ cooldown' = "over"
  /\ UNCHANGED <<window, throttle, recent, remembered, ctl, cycle, service, faults>>

IntervalEnds ==
  /\ recent
  /\ recent' = FALSE
  /\ UNCHANGED <<window, throttle, cooldown, remembered, ctl, cycle, service, faults>>

\* An editor opens or closes.
EditLock ==
  /\ ~Mobile
  /\ paused' = ~paused
  /\ UNCHANGED <<platform, version, noticed, active, suspended, timers,
                 pacing, ctl, cycle, service, faults>>

-----------------------------------------------------------------------------
(* Lifecycle of the mobile app; the handler updates its state at the end, so *)
(* the request it makes still sees the old one.                              *)

\* handleSuspend keeps only a timer that waits for the failure cooldown. The
\* run of the service is aborted, which it notices if it has requests left. The
\* request is dropped when nothing changed since the last such switch.
Background ==
  /\ Mobile /\ active /\ ~suspended
  /\ suspended' = TRUE
  /\ timers' = timers \ {"debounce"}
  /\ LET thr == IF cooldown = "off" THEN "off" ELSE throttle IN
     \/ /\ noticed = version
        /\ throttle' = thr
        /\ UNCHANGED <<noticed, remembered, ctl, cycle>>
     \/ /\ noticed' = version
        /\ AutoRequest(Unpaced, FALSE, thr, remembered)
  /\ run' \in {run} \cup (IF run = NoRun THEN {} ELSE {[pc |-> "aborted", read |-> 0]})
  /\ UNCHANGED <<platform, version, active, paused, cooldown, recent, svc, covered, faults>>

\* A remembered request runs now; else the cadence is read first.
Foreground ==
  /\ Mobile /\ active /\ suspended
  /\ suspended' = FALSE
  /\ IF remembered
     THEN AutoRequest(Unpaced, FALSE, throttle, FALSE) /\ UNCHANGED timers
     ELSE NoTrigger /\ timers' = timers \cup {"resume"}
  /\ UNCHANGED <<platform, version, noticed, active, paused, cooldown, recent, service, faults>>

\* A run that is old enough is repeated, unless the app only switched to and
\* fro.  The interval of the foreground is no shorter than the controller's.
Resumed ==
  /\ "resume" \in timers
  /\ timers' = timers \ {"resume"}
  /\ \/ NoTrigger /\ UNCHANGED noticed
     \/ /\ ~recent
        /\ noticed' = version
        /\ Trigger(Unpaced)
  /\ UNCHANGED <<platform, version, active, paused, suspended, cooldown, recent, service, faults>>

\* dispose; the app's runtime ends with it. A cycle past its first await runs on.
Dispose ==
  /\ active
  /\ active' = FALSE
  /\ timers' = timers \ {"debounce", "initial", "periodic"}
  /\ throttle' = "off"
  /\ ctl' = Idle
  /\ UNCHANGED <<platform, version, noticed, paused, suspended,
                 cooldown, recent, remembered, cycle, service, faults>>

-----------------------------------------------------------------------------
(* The controller's cycle.                                                   *)

\* Desktop asks whether encryption or the runtime forbids a sync.
GatePasses ==
  /\ cycle.pc = "gate"
  /\ cycle' = [cycle EXCEPT !.pc = "flush"]
  /\ recent' = TRUE
  /\ UNCHANGED <<window, throttle, cooldown, remembered, ctl, service, faults>>

\* The cycle ends; a queued follow-up starts at once.
EndCycle(o, thr, cd, rc) ==
  IF o.queued
  THEN Begin(NextArg(o, cycle.req), thr, cd, rc)
  ELSE ctl' = Ended(o, FALSE) /\ cycle' = NoCycle /\ throttle' = thr

GateRefuses ==
  /\ ~Mobile /\ cycle.pc = "gate" /\ faults < MaxFaults
  /\ faults' = faults + 1
  /\ EndCycle(ctl, throttle, cooldown, recent)
  /\ UNCHANGED <<window, cooldown, recent, remembered, service>>

\* The service starts a run, or the one in flight is shared and another queued.
ServiceRun ==
  /\ svc' = Run(svc, "sync")
  /\ run' = IF svc.busy THEN run ELSE [pc |-> "begin", read |-> 0]
  /\ UNCHANGED covered

PerformSync ==
  /\ cycle.pc = "flush"
  /\ cycle' = [cycle EXCEPT !.pc = "sync"]
  /\ ServiceRun
  /\ UNCHANGED <<window, pacing, ctl, faults>>

\* After a result mobile counts its interval from here. What arrived during
\* the cycle follows at the ordinary cadence, or is dropped when the cycle
\* began in the background.
AfterResult(thr, cd) ==
  LET drop == Mobile /\ cycle.suspended /\ remembered
      o == IF drop THEN ClearFollowUp(ctl)
           ELSE IF Mobile /\ ctl.queued THEN FollowUp(ctl, Paced) ELSE ctl
  IN  /\ cooldown' = cd
      /\ recent' = (Mobile \/ recent)
      /\ remembered' = (remembered /\ ~drop)
      /\ EndCycle(o, thr, cd, Mobile \/ recent)
      /\ UNCHANGED <<window, service, faults>>

\* A success ends the cooldown and disarms the timer; a failure starts a
\* cooldown and arms the retry; being offline does neither.
CycleSucceeds == cycle.pc = "success" /\ AfterResult("off", "off")

\* Mutant: a failure only sets the time before which nothing runs.
CycleFailsUnarmed == cycle.pc = "failure" /\ AfterResult(throttle, "running")

CycleFails == cycle.pc = "failure" /\ AfterResult("cooldown", "running")

CycleIgnored == cycle.pc = "ignored" /\ AfterResult(throttle, cooldown)

-----------------------------------------------------------------------------
(* The sync service.                                                         *)

\* Sync now of the settings page, and of the mobile app.
ManualSync ==
  /\ active
  /\ ServiceRun
  /\ UNCHANGED <<window, pacing, ctl, cycle, faults>>

\* The run reads the local data.
RunReads ==
  /\ run.pc = "begin"
  /\ run' = [pc |-> "body", read |-> version]
  /\ UNCHANGED <<window, pacing, ctl, cycle, svc, covered, faults>>

\* The last freshness check.
RunChecks ==
  /\ run.pc = "body" /\ run.read = version
  /\ run' = [run EXCEPT !.pc = "late"]
  /\ UNCHANGED <<window, pacing, ctl, cycle, svc, covered, faults>>

\* The run ends with a result for everyone who waits for it. Mobile always
\* leaves a pause before the follow-up.
RunEnds(o, result) ==
  LET next == Ended(o, Mobile) IN
  /\ svc' = next
  /\ run' = IF next.busy THEN [pc |-> "begin", read |-> 0] ELSE NoRun
  /\ cycle' = IF cycle.pc = "sync" THEN [cycle EXCEPT !.pc = result] ELSE cycle

\* Local data changed meanwhile: the run stops and queues another.
RunStale ==
  /\ run.pc = "body" /\ run.read < version
  /\ RunEnds(FollowUp(svc, "sync"), "success")
  /\ UNCHANGED <<window, pacing, ctl, covered, faults>>

\* An aborted run queues another too (handleRunErrorBeforeRequeue).
RunAborted ==
  /\ run.pc = "aborted"
  /\ RunEnds(FollowUp(svc, "sync"), "success")
  /\ UNCHANGED <<window, pacing, ctl, covered, faults>>

\* The remote is reserved: the run is put off until the lease lapses.
RunBusy ==
  /\ run.pc = "body" /\ faults < MaxFaults
  /\ faults' = faults + 1
  /\ RunEnds(FollowUpAfter(svc, "sync"), "success")
  /\ UNCHANGED <<window, pacing, ctl, covered>>

RunFails ==
  /\ run.pc = "body" /\ faults < MaxFaults
  /\ faults' = faults + 1
  /\ \E r \in IF Mobile THEN {"failure", "ignored"} ELSE {"failure"} : RunEnds(svc, r)
  /\ UNCHANGED <<window, pacing, ctl, covered>>

\* Desktop forgets a queued run that would find nothing new
\* (clearCoveredQueuedSyncRun); on mobile the success in the store's settings
\* tells the controller (notifyExternalSyncSuccess).
RunSucceeds ==
  /\ run.pc = "late"
  /\ covered' = run.read
  /\ RunEnds(IF ~Mobile /\ run.read = version THEN ClearFollowUp(svc) ELSE svc, "success")
  /\ IF Mobile /\ active
     THEN cooldown' = "off" /\ throttle' = "off"
     ELSE UNCHANGED <<cooldown, throttle>>
  /\ UNCHANGED <<window, recent, remembered, ctl, faults>>

FollowUpFires ==
  /\ svc.timer
  /\ svc' = Fired(svc)
  /\ run' = [pc |-> "begin", read |-> 0]
  /\ UNCHANGED <<window, pacing, ctl, cycle, covered, faults>>

-----------------------------------------------------------------------------
Timers ==
  \/ DebounceFires \/ CadenceRead \/ Resumed \/ InitialFires \/ PeriodicFires \/ ThrottleFires
  \/ CooldownEnds \/ IntervalEnds \/ FollowUpFires

CycleSteps ==
  \/ GatePasses \/ GateRefuses \/ PerformSync
  \/ CycleSucceeds \/ CycleFails \/ CycleIgnored

RunSteps ==
  RunReads \/ RunChecks \/ RunStale \/ RunAborted \/ RunBusy \/ RunFails \/ RunSucceeds

Users ==
  \/ DataChange \/ ExternalRequest \/ FocusOrBlur \/ RequestSync \/ ManualSync \/ EditLock
  \/ Background \/ Foreground \/ Dispose

Next == Timers \/ CycleSteps \/ RunSteps \/ Users

\* Armed timers fire, deadlines pass, and cycles and runs get answers.
Fairness ==
  /\ WF_vars(DebounceFires) /\ WF_vars(CadenceRead) /\ WF_vars(Resumed)
  /\ WF_vars(InitialFires) /\ WF_vars(PeriodicFires) /\ WF_vars(ThrottleFires)
  /\ WF_vars(CooldownEnds) /\ WF_vars(IntervalEnds) /\ WF_vars(FollowUpFires)
  /\ WF_vars(CycleSteps) /\ WF_vars(RunSteps)

Spec == Init /\ [][Next]_vars /\ Fairness

-----------------------------------------------------------------------------
(* Properties.                                                               *)

\* The states of the variables above.
TypeOK ==
  /\ platform \in Platforms
  /\ version \in 0..MaxChanges /\ covered \in 0..version /\ noticed \in 0..version
  /\ active \in BOOLEAN /\ paused \in BOOLEAN /\ suspended \in BOOLEAN
  /\ timers \subseteq {"debounce", "initial", "periodic", "cadence", "resume"}
  /\ throttle \in {"off", "throttle", "cooldown"}
  /\ cooldown \in {"off", "running", "over"}
  /\ recent \in BOOLEAN /\ remembered \in BOOLEAN
  /\ ctl \in Orchestrator(Requests) /\ svc \in Orchestrator({"sync"})
  /\ cycle = NoCycle \/ cycle \in [pc : CyclePC, req : Requests, suspended : BOOLEAN]
  /\ run \in [pc : {"off", "begin", "body", "late", "aborted"}, read : 0..version]
  /\ faults \in 0..MaxFaults

\* A queued follow-up always has somebody to start it, the cycle in flight or
\* a timer, and never both: neither orchestrator forgets a request or runs two
\* cycles at once.
FollowUpOwned ==
  \A o \in {ctl, svc} :
    /\ o.queued => o.busy \/ o.timer
    /\ o.timer => o.queued /\ ~o.busy

\* No automatic cycle reaches the sync service during a failure cooldown:
\* also the follow-up that was queued before the failure waits for its end.
CooldownRespected ==
  [][cycle.pc = "gate" /\ cycle'.pc = "flush" /\ cycle.req # Manual
     => cooldown # "running"]_vars

\* A failure is always followed by another attempt, without a new edit, focus
\* or heartbeat, whatever else arms or disarms the timer both share.
FailureIsRetried ==
  cooldown = "running" ~> cycle.pc = "gate" \/ cooldown = "off" \/ ~active

\* On the desktop every local change is read by a run that completes, once the
\* faults are over and no editor stays open: no trigger is lost for good when
\* it is coalesced, throttled, put off by a cooldown, or shared with a run
\* that had read the data before.
EveryChangeSynced ==
  platform = "desktop" /\ <>[](active /\ ~paused)
    => \A v \in 1..MaxChanges : version >= v ~> covered >= v
==============================================================================
