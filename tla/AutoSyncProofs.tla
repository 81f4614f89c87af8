--------------------------- MODULE AutoSyncProofs ---------------------------
(* Neither orchestrator forgets a follow-up or runs two cycles at once, and *)
(* no automatic cycle reaches the service during a failure cooldown, for    *)
(* any number of changes and faults.                                        *)
EXTENDS AutoSync, TLAPS

Cycles == {NoCycle} \cup [pc : CyclePC, req : Requests, suspended : BOOLEAN]

Runs == [pc : {"off", "begin", "body", "late", "aborted"}, read : Nat]

\* The controller's orchestrator o never uses its timer, and is busy exactly
\* with the cycle c; a disposed controller lets its last cycle run on.
Paired(o, c, a) ==
    /\ o \in Orchestrator(Requests) /\ c \in Cycles
    /\ ~o.after /\ ~o.timer
    /\ o.queued => o.busy
    /\ o.busy => c.pc # "off"
    /\ a /\ c.pc # "off" => o.busy

\* The service's orchestrator o is busy exactly with the run x; a follow-up
\* waits for the run or for the timer, and a delay asked for waits for the run.
Served(o, x) ==
    /\ o \in Orchestrator({"sync"}) /\ x \in Runs
    /\ o.queued => o.busy \/ o.timer
    /\ o.timer => o.queued /\ ~o.busy
    /\ o.after => o.queued /\ o.busy
    /\ o.busy <=> x.pc # "off"
    /\ x.pc = "off" => x = NoRun

\* A cycle past the cooldown's check has not begun in one.
Cooled(c, cd) == c.pc = "gate" /\ c.req # Manual => cd # "running"

TypedWindow ==
    /\ platform \in Platforms
    /\ version \in 0..MaxChanges /\ covered \in 0..version /\ noticed \in 0..version
    /\ run.read \in 0..version
    /\ active \in BOOLEAN /\ paused \in BOOLEAN /\ suspended \in BOOLEAN
    /\ timers \subseteq {"debounce", "initial", "periodic", "cadence", "resume"}
    /\ faults \in 0..MaxFaults

Throttles == {"off", "throttle", "cooldown"}
Cooldowns == {"off", "running", "over"}

TypedThrottle == throttle \in Throttles

TypedPacing ==
    /\ cooldown \in Cooldowns
    /\ recent \in BOOLEAN /\ remembered \in BOOLEAN

IInv ==
    /\ TypedWindow /\ TypedThrottle /\ TypedPacing
    /\ Paired(ctl, cycle, active)
    /\ Served(svc, run)
    /\ Cooled(cycle, cooldown)

-----------------------------------------------------------------------------
(* What a request does to the controller.                                   *)

LEMMA BeginDoes ==
    ASSUME IInv, NEW r \in Requests, NEW thr \in Throttles, NEW cd \in Cooldowns,
           NEW rc \in BOOLEAN, Begin(r, thr, cd, rc)
    PROVE  Paired(ctl', cycle', active) /\ Cooled(cycle', cd) /\ throttle' \in Throttles
<1>1. CASE active /\ ~Cooling(r, cd) /\ ~Throttled(r, rc)
  <2>1. ctl' = Run(Idle, r) /\ cycle' = [pc |-> "gate", req |-> r, suspended |-> suspended]
        /\ throttle' = thr
    BY <1>1 DEF Begin
  <2>2. Run(Idle, r) = [busy |-> TRUE, queued |-> FALSE, arg |-> NoArg, after |-> FALSE, timer |-> FALSE]
    BY DEF Run, Idle
  <2> QED
    BY <1>1, <2>1, <2>2 DEF Paired, Cooled, Cooling, Orchestrator, Cycles, CyclePC, IInv, TypedWindow
<1>2. CASE ~(active /\ ~Cooling(r, cd) /\ ~Throttled(r, rc))
  <2>1. ctl' = Idle /\ cycle' = NoCycle
    BY <1>2 DEF Begin
  <2>2. throttle' \in Throttles
    BY <1>2 DEF Begin, Arm, Throttles
  <2> QED
    BY <2>1, <2>2 DEF Paired, Cooled, Orchestrator, Idle, Cycles, NoCycle
<1> QED
  BY <1>1, <1>2

LEMMA SubmitDoes ==
    ASSUME IInv, NEW r \in Requests, NEW thr \in Throttles, Submit(r, thr)
    PROVE  /\ Paired(ctl', cycle', active) /\ Cooled(cycle', cooldown)
           /\ throttle' \in Throttles
<1>1. CASE ctl.busy
  <2>1. ctl' = [ctl EXCEPT !.queued = TRUE, !.arg = r] /\ cycle' = cycle /\ throttle' = thr
    BY <1>1 DEF Submit, Run, FollowUp
  <2> QED
    BY <1>1, <2>1 DEF Paired, Orchestrator, IInv
<1>2. CASE ~ctl.busy
  BY <1>2, BeginDoes DEF Submit, IInv, TypedPacing, Cooldowns
<1> QED
  BY <1>1, <1>2

\* The controller after a trigger.
Requested ==
    /\ Paired(ctl', cycle', active) /\ Cooled(cycle', cooldown)
    /\ throttle' \in Throttles /\ remembered' \in BOOLEAN

LEMMA AutoRequestDoes ==
    ASSUME IInv, NEW r \in Requests, NEW retry \in BOOLEAN, NEW thr \in Throttles,
           NEW rem \in BOOLEAN, AutoRequest(r, retry, thr, rem)
    PROVE  Requested
<1> USE DEF Requested
<1>1. remembered' \in BOOLEAN
  BY DEF AutoRequest
<1>2. CASE UNCHANGED <<ctl, cycle>> /\ throttle' \in {thr, Arm(thr, "cooldown")}
  BY <1>1, <1>2 DEF Arm, Throttles, IInv
<1>3. CASE Submit(r, thr)
  BY <1>1, <1>3, SubmitDoes
<1> QED
  BY <1>2, <1>3 DEF AutoRequest

LEMMA NoTriggerDoes == ASSUME IInv, NoTrigger PROVE Requested
  BY DEF IInv, NoTrigger, Requested, TypedThrottle, TypedPacing, Throttles

LEMMA TriggerDoes == ASSUME IInv, NEW r \in Requests, Trigger(r) PROVE Requested
  BY AutoRequestDoes DEF IInv, Trigger, Requested, TypedThrottle, TypedPacing, Throttles

LEMMA EndCycleDoes ==
    ASSUME IInv, NEW o, Paired(o, cycle, active), cycle # NoCycle, NEW thr \in Throttles,
           NEW cd \in Cooldowns, NEW rc \in BOOLEAN, EndCycle(o, thr, cd, rc)
    PROVE  Paired(ctl', cycle', active) /\ Cooled(cycle', cd) /\ throttle' \in Throttles
<1>1. CASE o.queued
  <2>1. NextArg(o, cycle.req) \in Requests
    BY DEF NextArg, Paired, Orchestrator, Cycles, NoCycle
  <2> QED
    BY <1>1, <2>1, BeginDoes DEF EndCycle
<1>2. CASE ~o.queued
  <2>1. ctl' = [o EXCEPT !.busy = FALSE] /\ cycle' = NoCycle /\ throttle' = thr
    BY <1>2 DEF EndCycle, Ended
  <2> QED
    BY <1>2, <2>1 DEF Paired, Cooled, Orchestrator, Cycles, NoCycle
<1> QED
  BY <1>1, <1>2

LEMMA AfterResultDoes ==
    ASSUME IInv, cycle # NoCycle, NEW thr \in Throttles, NEW cd \in Cooldowns,
           AfterResult(thr, cd)
    PROVE  IInv'
<1> DEFINE drop == Mobile /\ cycle.suspended /\ remembered
           o == IF drop THEN ClearFollowUp(ctl)
                ELSE IF Mobile /\ ctl.queued THEN FollowUp(ctl, Paced) ELSE ctl
<1>1. Paired(o, cycle, active)
  BY DEF IInv, Paired, ClearFollowUp, FollowUp, Orchestrator, Requests
<1>2. (Mobile \/ recent) \in BOOLEAN /\ (remembered /\ ~drop) \in BOOLEAN
  BY DEF IInv, TypedPacing, Mobile
<1>3. /\ EndCycle(o, thr, cd, Mobile \/ recent)
      /\ cooldown' = cd /\ recent' = (Mobile \/ recent) /\ remembered' = (remembered /\ ~drop)
      /\ UNCHANGED <<window, service, faults>>
  BY DEF AfterResult
<1> HIDE DEF drop, o
<1>4. Paired(ctl', cycle', active) /\ Cooled(cycle', cd) /\ throttle' \in Throttles
  BY <1>1, <1>2, <1>3, EndCycleDoes
<1>5. TypedPacing' /\ TypedThrottle'
  BY <1>2, <1>3, <1>4 DEF TypedPacing, TypedThrottle, Cooldowns, Throttles
<1>6. TypedWindow' /\ Served(svc, run)' /\ active' = active
  BY <1>3 DEF IInv, TypedWindow, window, service
<1> QED
  BY <1>3, <1>4, <1>5, <1>6 DEF IInv

-----------------------------------------------------------------------------
(* What ends a run, or starts one.                                          *)

LEMMA ServiceRunDoes ==
    ASSUME IInv, ServiceRun
    PROVE  Served(svc', run') /\ run'.read \in 0..version
<1>0. version \in Nat
  BY AutoSyncAssumption DEF IInv, TypedWindow
<1>1. CASE svc.busy
  <2>1. svc' = [svc EXCEPT !.queued = TRUE, !.arg = "sync"] /\ run' = run
    BY <1>1 DEF ServiceRun, Run, FollowUp
  <2> QED
    BY <1>1, <2>1 DEF IInv, Served, Orchestrator, TypedWindow
<1>2. CASE ~svc.busy
  <2>1. /\ svc' = [svc EXCEPT !.busy = TRUE, !.queued = FALSE, !.arg = NoArg, !.timer = FALSE]
        /\ run' = [pc |-> "begin", read |-> 0]
    BY <1>2 DEF ServiceRun, Run
  <2>2. svc' \in Orchestrator({"sync"}) /\ (svc'.after => svc'.queued /\ svc'.busy)
    BY <1>0, <1>2, <2>1 DEF IInv, Served, Orchestrator
  <2>3. run' \in Runs /\ run'.read \in 0..version /\ (svc'.busy <=> run'.pc # "off")
    BY <1>0, <1>2, <2>1 DEF IInv, Served, Orchestrator, NoRun, Runs
  <2> QED
    BY <1>0, <1>2, <2>1, <2>2, <2>3 DEF IInv, Served, Orchestrator, NoRun
<1> QED
  BY <1>1, <1>2

\* o: the orchestrator with what the run itself has queued or cleared.
LEMMA RunEndsDoes ==
    ASSUME IInv, NEW o, Served(o, run), run.pc # "off", NEW result \in Results,
           RunEnds(o, result)
    PROVE  Served(svc', run') /\ run'.read \in 0..version
<1>1. version \in Nat
  BY AutoSyncAssumption DEF IInv, TypedWindow
<1>2. o \in Orchestrator({"sync"}) /\ o.busy /\ ~o.timer
  BY DEF Served
<1>3. CASE ~o.queued
  <2>1. svc' = [o EXCEPT !.busy = FALSE] /\ run' = NoRun
    BY <1>2, <1>3 DEF RunEnds, Ended, Orchestrator
  <2>2. svc' \in Orchestrator({"sync"}) /\ (svc'.after => svc'.queued /\ svc'.busy)
    BY <1>1, <1>2, <1>3, <2>1 DEF Served, Orchestrator
  <2>3. run' \in Runs /\ run'.read \in 0..version /\ (svc'.busy <=> run'.pc # "off")
    BY <1>1, <1>2, <1>3, <2>1 DEF Served, Orchestrator, NoRun, Runs
  <2> QED
    BY <1>1, <1>2, <1>3, <2>1, <2>2, <2>3 DEF Served, Orchestrator, NoRun
<1>4. CASE o.queued /\ (Mobile \/ o.after)
  <2>1. svc' = [o EXCEPT !.busy = FALSE, !.after = FALSE, !.timer = TRUE] /\ run' = NoRun
    BY <1>2, <1>4 DEF RunEnds, Ended, Orchestrator
  <2>2. svc' \in Orchestrator({"sync"}) /\ (svc'.after => svc'.queued /\ svc'.busy)
    BY <1>1, <1>2, <1>4, <2>1 DEF Served, Orchestrator
  <2>3. run' \in Runs /\ run'.read \in 0..version /\ (svc'.busy <=> run'.pc # "off")
    BY <1>1, <1>2, <1>4, <2>1 DEF Served, Orchestrator, NoRun, Runs
  <2> QED
    BY <1>1, <1>2, <1>4, <2>1, <2>2, <2>3 DEF Served, Orchestrator, NoRun
<1>5. CASE o.queued /\ ~(Mobile \/ o.after)
  <2>1. svc' = [o EXCEPT !.queued = FALSE, !.arg = NoArg] /\ run' = [pc |-> "begin", read |-> 0]
    BY <1>2, <1>5 DEF RunEnds, Ended, Orchestrator
  <2>2. svc' \in Orchestrator({"sync"}) /\ (svc'.after => svc'.queued /\ svc'.busy)
    BY <1>1, <1>2, <1>5, <2>1 DEF Served, Orchestrator
  <2>3. run' \in Runs /\ run'.read \in 0..version /\ (svc'.busy <=> run'.pc # "off")
    BY <1>1, <1>2, <1>5, <2>1 DEF Served, Orchestrator, NoRun, Runs
  <2> QED
    BY <1>1, <1>2, <1>5, <2>1, <2>2, <2>3 DEF Served, Orchestrator, NoRun
<1> QED
  BY <1>3, <1>4, <1>5

\* Whoever waits for the run in the controller has its result.
LEMMA ResultArrives ==
    ASSUME IInv, NEW o, NEW result \in Results, RunEnds(o, result)
    PROVE  Paired(ctl, cycle', active) /\ (cycle'.pc = "gate" => cycle' = cycle)
<1>1. CASE cycle.pc = "sync"
  <2>1. cycle' = [cycle EXCEPT !.pc = result] /\ cycle # NoCycle
    BY <1>1 DEF RunEnds, NoCycle
  <2> QED
    BY <1>1, <2>1 DEF IInv, Paired, Cycles, CyclePC, Results, NoCycle
<1>2. CASE cycle.pc # "sync"
  BY <1>2 DEF RunEnds, IInv
<1> QED
  BY <1>1, <1>2

-----------------------------------------------------------------------------
(* The parts of the invariant.                                              *)

Requesters ==
    \/ DebounceFires \/ CadenceRead \/ Resumed \/ InitialFires \/ PeriodicFires \/ ThrottleFires
    \/ ExternalRequest \/ FocusOrBlur \/ RequestSync \/ Background \/ Foreground

\* Whatever makes a request leaves the controller as the request does.
LEMMA RequestersRequest ==
    ASSUME IInv, Requesters
    PROVE  Requested /\ UNCHANGED <<active, cooldown, recent, svc>>
<1> USE DEF Requests
<1>0. throttle \in Throttles /\ remembered \in BOOLEAN /\ "off" \in Throttles
  BY DEF IInv, TypedThrottle, TypedPacing, Throttles
<1>1. CASE DebounceFires
  BY <1>1, TriggerDoes, NoTriggerDoes DEF DebounceFires, service
<1>2. CASE CadenceRead
  BY <1>2, TriggerDoes DEF CadenceRead, service
<1>3. CASE Resumed
  BY <1>3, TriggerDoes, NoTriggerDoes DEF Resumed, service
<1>4. CASE InitialFires
  BY <1>4, TriggerDoes DEF InitialFires, service
<1>5. CASE PeriodicFires
  BY <1>5, TriggerDoes, NoTriggerDoes DEF PeriodicFires, window, service
<1>6. CASE ThrottleFires
  BY <1>0, <1>6, AutoRequestDoes DEF ThrottleFires, window, service
<1>7. CASE ExternalRequest
  BY <1>7, TriggerDoes DEF ExternalRequest, window, service
<1>8. CASE FocusOrBlur
  BY <1>8, TriggerDoes DEF FocusOrBlur, window, service
<1>9. CASE RequestSync
  BY <1>0, <1>9, SubmitDoes DEF RequestSync, window, service, Requested
<1>10. CASE Background
  <2> DEFINE thr == IF cooldown = "off" THEN "off" ELSE throttle
  <2>1. thr \in Throttles
    BY <1>0
  <2>2. ASSUME throttle' = thr, UNCHANGED <<remembered, ctl, cycle>> PROVE Requested
    BY <1>0, <2>1, <2>2 DEF Requested, IInv
  <2>3. ASSUME AutoRequest(Unpaced, FALSE, thr, remembered) PROVE Requested
    BY <1>0, <2>1, <2>3, AutoRequestDoes
  <2>4. UNCHANGED <<active, cooldown, recent, svc>>
    BY <1>10 DEF Background
  <2>5. \/ throttle' = thr /\ UNCHANGED <<remembered, ctl, cycle>>
        \/ AutoRequest(Unpaced, FALSE, thr, remembered)
    BY <1>10 DEF Background
  <2> QED
    BY <2>2, <2>3, <2>4, <2>5
<1>11. CASE Foreground
  <2>1. UNCHANGED <<active, cooldown, recent, svc>>
    BY <1>11 DEF Foreground, service
  <2>2. NoTrigger \/ AutoRequest(Unpaced, FALSE, throttle, FALSE)
    BY <1>11 DEF Foreground
  <2> QED
    BY <1>0, <2>1, <2>2, NoTriggerDoes, AutoRequestDoes
<1> QED
  BY <1>1, <1>2, <1>3, <1>4, <1>5, <1>6, <1>7, <1>8, <1>9, <1>10, <1>11 DEF Requesters

LEMMA ResultKept ==
    ASSUME IInv, CycleSucceeds \/ CycleFails \/ CycleIgnored PROVE IInv'
<1>1. cycle # NoCycle
  BY DEF CycleSucceeds, CycleFails, CycleIgnored, NoCycle
<1>2. throttle \in Throttles /\ cooldown \in Cooldowns
  BY DEF IInv, TypedThrottle, TypedPacing, Throttles, Cooldowns
<1>3. PICK thr \in Throttles, cd \in Cooldowns : AfterResult(thr, cd)
  BY <1>2 DEF CycleSucceeds, CycleFails, CycleIgnored, Throttles, Cooldowns
<1> QED
  BY <1>1, <1>3, AfterResultDoes

LEMMA PairedKept ==
    ASSUME IInv, Next PROVE Paired(ctl, cycle, active)' /\ TypedThrottle'
<1> USE DEF TypedThrottle, Throttles
<1>1. CASE Requesters
  BY <1>1, RequestersRequest DEF Requested
<1>2. CASE Dispose
  <2>1. ctl' = Idle /\ cycle' = cycle /\ active' = FALSE /\ throttle' = "off"
    BY <1>2 DEF Dispose
  <2> QED
    BY <2>1 DEF IInv, Paired, Idle, Orchestrator
<1>3. CASE GatePasses
  <2>1. /\ cycle' = [cycle EXCEPT !.pc = "flush"] /\ cycle.pc = "gate"
        /\ UNCHANGED <<ctl, active, throttle>>
    BY <1>3 DEF GatePasses, window
  <2> QED
    BY <2>1 DEF IInv, Paired, Cycles, CyclePC, NoCycle
<1>4. CASE PerformSync
  <2>1. /\ cycle' = [cycle EXCEPT !.pc = "sync"] /\ cycle.pc = "flush"
        /\ UNCHANGED <<ctl, active, throttle>>
    BY <1>4 DEF PerformSync, window, pacing
  <2> QED
    BY <2>1 DEF IInv, Paired, Cycles, CyclePC, NoCycle
<1>5. CASE GateRefuses
  <2>1. cycle # NoCycle /\ active' = active /\ EndCycle(ctl, throttle, cooldown, recent)
    BY <1>5 DEF GateRefuses, window, NoCycle
  <2> QED
    BY <2>1, EndCycleDoes DEF IInv, TypedPacing, Cooldowns
<1>6. CASE CycleSucceeds \/ CycleFails \/ CycleIgnored
  BY <1>6, ResultKept DEF IInv
<1>7. CASE RunStale \/ RunAborted \/ RunBusy
  <2>1. RunEnds(FollowUp(svc, "sync"), "success") \/ RunEnds(FollowUpAfter(svc, "sync"), "success")
    BY <1>7 DEF RunStale, RunAborted, RunBusy
  <2>2. UNCHANGED <<ctl, active, throttle>>
    BY <1>7 DEF RunStale, RunAborted, RunBusy, window, pacing
  <2> QED
    BY <2>1, <2>2, ResultArrives DEF Results, IInv
<1>8. CASE RunFails
  <2>1. PICK r \in Results : RunEnds(svc, r)
    BY <1>8 DEF RunFails, Results
  <2>2. UNCHANGED <<ctl, active, throttle>>
    BY <1>8 DEF RunFails, window, pacing
  <2> QED
    BY <2>1, <2>2, ResultArrives DEF IInv
<1>9. CASE RunSucceeds
  <2>1. PICK o : RunEnds(o, "success")
    BY <1>9 DEF RunSucceeds
  <2>2. UNCHANGED <<ctl, active>> /\ throttle' \in {"off", throttle}
    BY <1>9 DEF RunSucceeds, window
  <2> QED
    BY <2>1, <2>2, ResultArrives DEF Results, IInv
<1>10. CASE UNCHANGED <<ctl, cycle, active, throttle>>
  BY <1>10 DEF IInv
<1>11. ASSUME DataChange \/ CooldownEnds \/ IntervalEnds \/ EditLock \/ ManualSync
              \/ RunReads \/ RunChecks \/ FollowUpFires
       PROVE  UNCHANGED <<ctl, cycle, active, throttle>>
  BY <1>11 DEF DataChange, CooldownEnds, IntervalEnds, EditLock, ManualSync, RunReads,
     RunChecks, FollowUpFires, window, pacing
<1> QED
  BY <1>1, <1>2, <1>3, <1>4, <1>5, <1>6, <1>7, <1>8, <1>9, <1>10, <1>11
     DEF Next, Timers, CycleSteps, RunSteps, Users, Requesters

LEMMA ServedKept ==
    ASSUME IInv, Next PROVE Served(svc, run)' /\ run'.read \in 0..version
<1>1. CASE ServiceRun
  BY <1>1, ServiceRunDoes
<1>2. CASE Background
  <2>1. svc' = svc
    BY <1>2 DEF Background
  <2>2. CASE run' = run
    BY <2>1, <2>2 DEF IInv, TypedWindow
  <2>3. CASE run # NoRun /\ run' = [pc |-> "aborted", read |-> 0]
    <3>1. svc.busy /\ version \in Nat
      BY <2>3, AutoSyncAssumption DEF IInv, Served, TypedWindow
    <3>2. run' \in Runs /\ run'.pc = "aborted" /\ run'.read \in 0..version
      BY <2>3, <3>1 DEF Runs
    <3> QED
      BY <2>1, <3>1, <3>2 DEF IInv, Served
  <2> QED
    BY <1>2, <2>2, <2>3 DEF Background
<1>3. CASE RunReads
  <2>1. /\ svc' = svc /\ run' = [pc |-> "body", read |-> version] /\ run.pc = "begin"
        /\ version \in Nat
    BY <1>3, AutoSyncAssumption DEF RunReads, IInv, TypedWindow
  <2>2. run' \in Runs /\ run'.pc = "body" /\ run'.read \in 0..version
    BY <2>1 DEF Runs
  <2> QED
    BY <2>1, <2>2 DEF IInv, Served
<1>4. CASE RunChecks
  <2>1. svc' = svc /\ run' = [run EXCEPT !.pc = "late"] /\ run.pc = "body"
    BY <1>4 DEF RunChecks
  <2>2. run' \in Runs /\ run'.pc = "late" /\ run'.read \in 0..version
    BY <2>1 DEF Runs, IInv, Served, TypedWindow
  <2> QED
    BY <2>1, <2>2 DEF IInv, Served
<1>5. CASE RunStale \/ RunAborted \/ RunBusy
  <2>1. run.pc # "off" /\ svc.busy
    BY <1>5 DEF RunStale, RunAborted, RunBusy, IInv, Served
  <2>2. Served(FollowUp(svc, "sync"), run) /\ Served(FollowUpAfter(svc, "sync"), run)
    BY <2>1 DEF IInv, Served, FollowUp, FollowUpAfter, Orchestrator
  <2>3. RunEnds(FollowUp(svc, "sync"), "success") \/ RunEnds(FollowUpAfter(svc, "sync"), "success")
    BY <1>5 DEF RunStale, RunAborted, RunBusy
  <2> QED
    BY <2>1, <2>2, <2>3, RunEndsDoes DEF Results
<1>6. CASE RunFails
  <2>1. PICK r \in Results : RunEnds(svc, r)
    BY <1>6 DEF RunFails, Results
  <2> QED
    BY <1>6, <2>1, RunEndsDoes DEF IInv, RunFails
<1>7. CASE RunSucceeds
  <2>1. run.pc # "off" /\ svc.busy
    BY <1>7 DEF RunSucceeds, IInv, Served
  <2>2. Served(ClearFollowUp(svc), run)
    BY <2>1 DEF IInv, Served, ClearFollowUp, Orchestrator
  <2>3. RunEnds(ClearFollowUp(svc), "success") \/ RunEnds(svc, "success")
    BY <1>7 DEF RunSucceeds
  <2> QED
    BY <2>1, <2>2, <2>3, RunEndsDoes DEF IInv, Results
<1>8. CASE FollowUpFires
  <2>1. /\ svc' = [svc EXCEPT !.busy = TRUE, !.queued = FALSE, !.arg = NoArg, !.timer = FALSE]
        /\ run' = [pc |-> "begin", read |-> 0] /\ svc.timer /\ version \in Nat
    BY <1>8, AutoSyncAssumption DEF FollowUpFires, Fired, IInv, TypedWindow
  <2>2. svc' \in Orchestrator({"sync"}) /\ ~svc'.after
    BY <2>1 DEF IInv, Served, Orchestrator
  <2>3. run' \in Runs /\ run'.read \in 0..version
    BY <2>1 DEF Runs
  <2> QED
    BY <2>1, <2>2, <2>3 DEF IInv, Served, Orchestrator
<1>9. CASE UNCHANGED <<svc, run>>
  BY <1>9 DEF IInv, TypedWindow
<1>10. ASSUME (Requesters /\ ~Background) \/ DataChange \/ Dispose \/ CooldownEnds \/ IntervalEnds
              \/ EditLock \/ GatePasses \/ GateRefuses
              \/ CycleSucceeds \/ CycleFails \/ CycleIgnored
       PROVE  UNCHANGED <<svc, run>>
  BY <1>10 DEF Requesters, DebounceFires, CadenceRead, Resumed, InitialFires, PeriodicFires,
     ThrottleFires, ExternalRequest, FocusOrBlur, RequestSync, Foreground, DataChange, Dispose,
     CooldownEnds, IntervalEnds, EditLock, GatePasses, GateRefuses, CycleSucceeds, CycleFails,
     CycleIgnored, AfterResult, service
<1> QED
  BY <1>1, <1>2, <1>3, <1>4, <1>5, <1>6, <1>7, <1>8, <1>9, <1>10
     DEF Next, Timers, CycleSteps, RunSteps, Users, Requesters, ManualSync, PerformSync

LEMMA CooledKept ==
    ASSUME IInv, Next PROVE Cooled(cycle, cooldown)' /\ TypedPacing'
<1> USE DEF TypedPacing, Cooldowns
<1>1. CASE Requesters
  BY <1>1, RequestersRequest DEF Requested, IInv
<1>2. CASE CooldownEnds
  BY <1>2 DEF CooldownEnds, IInv, Cooled
<1>3. CASE IntervalEnds
  BY <1>3 DEF IntervalEnds, IInv
<1>4. CASE GatePasses
  BY <1>4 DEF GatePasses, IInv, Cooled, Paired, Cycles, NoCycle
<1>5. CASE PerformSync
  BY <1>5 DEF PerformSync, pacing, IInv, Cooled, Paired, Cycles, NoCycle
<1>6. CASE GateRefuses
  <2>1. /\ cycle # NoCycle /\ EndCycle(ctl, throttle, cooldown, recent)
        /\ UNCHANGED <<cooldown, recent, remembered>>
    BY <1>6 DEF GateRefuses, NoCycle
  <2> QED
    BY <2>1, EndCycleDoes DEF IInv, Cooldowns, Throttles, TypedThrottle
<1>7. CASE CycleSucceeds \/ CycleFails \/ CycleIgnored
  BY <1>7, ResultKept DEF IInv
<1>8. CASE RunStale \/ RunAborted \/ RunBusy \/ RunFails
  <2>1. \E r \in Results : \/ RunEnds(FollowUp(svc, "sync"), r)
                           \/ RunEnds(FollowUpAfter(svc, "sync"), r)
                           \/ RunEnds(svc, r)
    BY <1>8 DEF RunStale, RunAborted, RunBusy, RunFails, Results
  <2>2. UNCHANGED pacing
    BY <1>8 DEF RunStale, RunAborted, RunBusy, RunFails
  <2> QED
    BY <2>1, <2>2, ResultArrives DEF pacing, Cooled, IInv
<1>9. CASE RunSucceeds
  <2>1. PICK o : RunEnds(o, "success")
    BY <1>9 DEF RunSucceeds
  <2>2. cooldown' \in {"off", cooldown} /\ UNCHANGED <<recent, remembered>>
    BY <1>9 DEF RunSucceeds
  <2> QED
    BY <2>1, <2>2, ResultArrives DEF Results, Cooled, IInv
<1>10. CASE UNCHANGED <<cycle, cooldown, recent, remembered>>
  BY <1>10 DEF IInv
<1>11. ASSUME DataChange \/ EditLock \/ ManualSync \/ Dispose \/ RunReads \/ RunChecks
              \/ FollowUpFires
       PROVE  UNCHANGED <<cycle, cooldown, recent, remembered>>
  BY <1>11 DEF DataChange, EditLock, ManualSync, Dispose, RunReads, RunChecks, FollowUpFires, pacing
<1> QED
  BY <1>1, <1>2, <1>3, <1>4, <1>5, <1>6, <1>7, <1>8, <1>9, <1>10, <1>11
     DEF Next, Timers, CycleSteps, RunSteps, Users, Requesters

LEMMA TypedWindowKept == ASSUME IInv, Next PROVE TypedWindow'
<1>0. /\ version \in Nat /\ run'.read \in 0..version
      /\ TypedWindow /\ MaxChanges \in Nat /\ MaxFaults \in Nat
  BY ServedKept, AutoSyncAssumption DEF IInv, TypedWindow
<1>1. ASSUME UNCHANGED <<window, covered>>, UNCHANGED faults \/ (faults < MaxFaults /\ faults' = faults + 1)
      PROVE  TypedWindow'
  BY <1>0, <1>1 DEF TypedWindow, window
<1>2. ASSUME PeriodicFires \/ ThrottleFires \/ ExternalRequest \/ FocusOrBlur \/ RequestSync
             \/ CooldownEnds \/ IntervalEnds \/ GatePasses \/ PerformSync \/ ManualSync
             \/ CycleSucceeds \/ CycleFails \/ CycleIgnored
             \/ RunReads \/ RunChecks \/ RunStale \/ RunAborted \/ FollowUpFires
      PROVE  UNCHANGED <<window, covered, faults>>
  BY <1>2 DEF PeriodicFires, ThrottleFires, ExternalRequest, FocusOrBlur, RequestSync,
     CooldownEnds, IntervalEnds, GatePasses, PerformSync, ManualSync, ServiceRun, CycleSucceeds,
     CycleFails, CycleIgnored, AfterResult, RunReads, RunChecks, RunStale, RunAborted,
     FollowUpFires, service
<1>3. ASSUME GateRefuses \/ RunBusy \/ RunFails
      PROVE  UNCHANGED <<window, covered>> /\ faults < MaxFaults /\ faults' = faults + 1
  BY <1>3 DEF GateRefuses, RunBusy, RunFails, service
<1>4. CASE DataChange
  <2>1. UNCHANGED <<run, covered>>
    BY <1>4 DEF DataChange, service
  <2> QED
    BY <1>0, <1>4, <2>1 DEF DataChange, TypedWindow
<1>5. CASE DebounceFires
  <2>1. noticed' \in {noticed, version} /\ timers' \subseteq timers \cup {"cadence"}
    BY <1>5 DEF DebounceFires
  <2>2. UNCHANGED <<platform, version, active, paused, suspended, covered, faults>>
    BY <1>5 DEF DebounceFires, service
  <2> QED
    BY <1>0, <2>1, <2>2 DEF TypedWindow
<1>6. CASE CadenceRead \/ InitialFires
  BY <1>0, <1>6 DEF CadenceRead, InitialFires, TypedWindow, service
<1>7. CASE Resumed
  <2>1. noticed' \in {noticed, version} /\ timers' \subseteq timers
    BY <1>7 DEF Resumed
  <2>2. UNCHANGED <<platform, version, active, paused, suspended, covered, faults>>
    BY <1>7 DEF Resumed, service
  <2> QED
    BY <1>0, <2>1, <2>2 DEF TypedWindow
<1>8. CASE EditLock
  BY <1>0, <1>8 DEF EditLock, TypedWindow, service
<1>9. CASE Background
  <2>1. noticed' \in {noticed, version} /\ timers' \subseteq timers /\ suspended' = TRUE
    BY <1>9 DEF Background
  <2>2. UNCHANGED <<platform, version, active, paused, covered, faults>>
    BY <1>9 DEF Background
  <2> QED
    BY <1>0, <2>1, <2>2 DEF TypedWindow
<1>10. CASE Foreground
  <2>1. timers' \subseteq timers \cup {"resume"} /\ suspended' = FALSE
    BY <1>10 DEF Foreground
  <2>2. UNCHANGED <<platform, version, noticed, active, paused, covered, faults>>
    BY <1>10 DEF Foreground, service
  <2> QED
    BY <1>0, <2>1, <2>2 DEF TypedWindow
<1>11. CASE Dispose
  BY <1>0, <1>11 DEF Dispose, TypedWindow, service
<1>12. CASE RunSucceeds
  <2>1. covered' = run.read /\ UNCHANGED <<window, faults>>
    BY <1>12 DEF RunSucceeds
  <2> QED
    BY <1>0, <2>1 DEF TypedWindow, window
<1> QED
  BY <1>1, <1>2, <1>3, <1>4, <1>5, <1>6, <1>7, <1>8, <1>9, <1>10, <1>11, <1>12
     DEF Next, Timers, CycleSteps, RunSteps, Users

-----------------------------------------------------------------------------
(* The theorems.                                                            *)

LEMMA InitIInv == Init => IInv
<1> SUFFICES ASSUME Init PROVE IInv
  OBVIOUS
<1>1. timers \subseteq {"initial", "periodic"}
  BY DEF Init
<1>2. TypedThrottle /\ TypedPacing
  BY DEF Init, TypedThrottle, Throttles, TypedPacing, Cooldowns
<1>3. /\ version = 0 /\ covered = 0 /\ noticed = 0 /\ run.read = 0 /\ faults = 0
      /\ platform \in Platforms
      /\ active \in BOOLEAN /\ paused \in BOOLEAN /\ suspended \in BOOLEAN
  BY DEF Init, NoRun
<1>4. TypedWindow
  BY <1>1, <1>3, AutoSyncAssumption DEF TypedWindow
<1>5. Paired(ctl, cycle, active) /\ Cooled(cycle, cooldown)
  BY DEF Init, Idle, NoCycle, Paired, Cooled, Orchestrator, Cycles
<1>6. Served(svc, run)
  BY DEF Init, Idle, NoRun, Served, Orchestrator, Runs
<1> QED
  BY <1>2, <1>4, <1>5, <1>6 DEF IInv

LEMMA IInvStep == ASSUME IInv, [Next]_vars PROVE IInv'
<1>1. CASE Next
  BY <1>1, PairedKept, ServedKept, CooledKept, TypedWindowKept DEF IInv
<1>2. CASE UNCHANGED vars
  BY <1>2 DEF vars, window, pacing, service, IInv, TypedWindow, TypedThrottle, TypedPacing
<1> QED
  BY <1>1, <1>2

LEMMA Inductive == Spec => []IInv
  BY InitIInv, IInvStep, PTL DEF Spec

\* The variables always have the values described in TypeOK.
THEOREM AutoSyncTypeCorrect == Spec => []TypeOK
<1>1. IInv => TypeOK
  BY DEF IInv, TypedWindow, TypedThrottle, Throttles, TypedPacing, Cooldowns, Paired, Served, Cycles, Runs, TypeOK
<1> QED
  BY <1>1, Inductive, PTL

\* Neither orchestrator forgets a queued follow-up, or has a timer that could
\* start a second cycle beside the one in flight.
THEOREM FollowUpsAreOwned == Spec => []FollowUpOwned
<1>1. IInv => FollowUpOwned
  BY DEF IInv, Paired, Served, FollowUpOwned
<1> QED
  BY <1>1, Inductive, PTL

\* A failure's cooldown holds back every automatic cycle, also the follow-up
\* that was queued before the failure.
THEOREM CooldownIsRespected == Spec => CooldownRespected
<1>1. ASSUME IInv, [Next]_vars
      PROVE  [cycle.pc = "gate" /\ cycle'.pc = "flush" /\ cycle.req # Manual
              => cooldown # "running"]_vars
  BY <1>1 DEF IInv, Cooled
<1> QED
  BY <1>1, Inductive, PTL DEF Spec, CooldownRespected
=============================================================================
