-------------------------- MODULE SyncOrchestrator --------------------------
(* packages/core/src/sync-orchestrator.ts as operations on its state: one    *)
(* cycle in flight, everything requested meanwhile coalesced into one        *)
(* follow-up, which starts at once or after a delay. The auto-sync           *)
(* controller and the sync service of each app have one each.                *)

NoArg == "no argument"

\* busy: inFlight is set; after: a follow-up was asked for with a delay.
Idle == [busy |-> FALSE, queued |-> FALSE, arg |-> NoArg, after |-> FALSE, timer |-> FALSE]

Orchestrator(Arg) ==
  [busy : BOOLEAN, queued : BOOLEAN, arg : Arg \cup {NoArg}, after : BOOLEAN, timer : BOOLEAN]

FollowUp(o, arg) == [o EXCEPT !.queued = TRUE, !.arg = arg]

FollowUpAfter(o, arg) == [FollowUp(o, arg) EXCEPT !.after = TRUE]

ClearFollowUp(o) == [o EXCEPT !.queued = FALSE, !.arg = NoArg, !.after = FALSE, !.timer = FALSE]

\* Mutant: a direct run leaves the timer of a waiting follow-up armed.
RunKeepingTimer(o, arg) ==
  IF o.busy THEN FollowUp(o, arg)
  ELSE [o EXCEPT !.busy = TRUE, !.queued = FALSE, !.arg = NoArg]

\* A direct run: shares the cycle in flight, or starts one and with it
\* consumes whatever was waiting.
Run(o, arg) ==
  IF o.busy THEN FollowUp(o, arg)
  ELSE [o EXCEPT !.busy = TRUE, !.queued = FALSE, !.arg = NoArg, !.timer = FALSE]

\* The cycle has ended: drained, or a follow-up after a delay, or at once.
Ended(o, delayed) ==
  IF ~o.queued THEN [o EXCEPT !.busy = FALSE]
  ELSE IF delayed \/ o.after
       THEN [o EXCEPT !.busy = FALSE, !.after = FALSE, !.timer = TRUE]
       ELSE [o EXCEPT !.queued = FALSE, !.arg = NoArg]

\* The argument of the follow-up.
NextArg(o, arg) == IF o.arg = NoArg THEN arg ELSE o.arg

\* The follow-up timer fires; a direct run has cancelled it.
Fired(o) == [o EXCEPT !.busy = TRUE, !.queued = FALSE, !.arg = NoArg, !.timer = FALSE]
==============================================================================
