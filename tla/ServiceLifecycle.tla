-------------------------- MODULE ServiceLifecycle --------------------------
(***************************************************************************)
(* The life of the service's processes around the generation service:      *)
(* main of cmd/insights-automation/main.go, Service.Run of app/app.go and  *)
(* the reconciler's goroutine of generation/reconciler.go.                 *)
(*                                                                         *)
(* A process runs one worker loop, one reconciler and any number of request *)
(* handlers.  The loop and the reconciler use the root context: once it is  *)
(* cancelled their statements have no effect (one that still has, had it    *)
(* just before).  Handlers do not use it and go on until main returns.      *)
(* Nothing but the tables outlives a process.                               *)
(***************************************************************************)
EXTENDS GenerationService

CONSTANTS
  Home,        \* submitter -> process in which it runs
  Reconciler,  \* process -> the submitter that is its reconciler
  Asked,       \* the targets that requests ask for
  Eligible,    \* the card sets of the matches that EligibleMatches lists
  MaxStarts,   \* bound on starts of a process; the last one meets no fault
  MayFail,     \* may a statement of the loop or reconciler, or the listener, fail?
  MayKill      \* may a process be killed?

ASSUME LifecycleAssumption ==
  /\ IsFiniteSet(Process)
  /\ Home \in [Submitter -> Process]
  /\ Reconciler \in [Process -> Submitter]
  /\ \A p \in Process : Home[Reconciler[p]] = p
  /\ Eligible \in Seq(CardSet)
  /\ "normal" \in Modes
  /\ \A v, w \in Worker : Host[v] = Host[w] => v = w   \* one loop per process
  /\ MaxStarts \in Nat
  /\ {MayFail, MayKill} \subseteq BOOLEAN

VARIABLE proc   \* the state of each process

lifecycleVars == <<vars, proc>>

ProcessState ==
  [main      : {"down", "starting", "serving"},
   cancelled : BOOLEAN,                              \* the root context
   loop      : {"off", "running", "failed", "done"}, \* Service.Run
   rec       : {"off", "round", "waiting", "ended"}, \* Reconciler.Run
   todo      : Seq(CardSet),                         \* left of its round
   starts    : 0 .. MaxStarts]

DownProcess(starts) ==
  [main |-> "down", cancelled |-> FALSE, loop |-> "off", rec |-> "off",
   todo |-> <<>>, starts |-> starts]

LifecycleTypeOK == proc \in [Process -> ProcessState]

LifecycleInit == Init /\ proc = [p \in Process |-> DownProcess(0)]

Up(p) == proc[p].main # "down"
Alive(p) == Up(p) /\ ~ proc[p].cancelled
Looping(p) == Alive(p) /\ proc[p].loop = "running"
Reconciling(p) == Alive(p) /\ proc[p].rec = "round"
Reconcilers == {Reconciler[p] : p \in Process}

(* Faults are bounded: they strike only processes that may start again. *)
Fallible(p) == proc[p].starts < MaxStarts

(* What the loop of a process worked on is gone, its claim remains. *)
LoseWork(p) ==
  /\ IF Busy(p) = {} THEN UNCHANGED <<storeVars, wrk>> ELSE Crash(p)
  /\ UNCHANGED sub

-----------------------------------------------------------------------------
(* main *)

(* The database is open and the goroutines run before main listens. *)
Start(p) ==
  /\ ~ Up(p)
  /\ Fallible(p)
  /\ \A s \in Submitter : Home[s] = p => sub[s].pc = "idle"
  /\ proc' = [proc EXCEPT ![p] =
       [DownProcess(@.starts + 1) EXCEPT !.main = "starting", !.loop = "running",
                                         !.rec = "round", !.todo = Eligible]]
  /\ UNCHANGED vars

Listen(p) ==
  /\ proc[p].main = "starting"
  /\ proc' = [proc EXCEPT ![p].main = "serving"]
  /\ UNCHANGED vars

(* The process is gone: its loop, its reconciler and its requests with it. *)
End(p) ==
  /\ proc' = [proc EXCEPT ![p] = DownProcess(@.starts)]
  /\ LoseWork(p)

(* ListenAndServe cannot bind: os.Exit, whatever the goroutines are doing. *)
ListenFails(p) ==
  /\ MayFail /\ Fallible(p)
  /\ proc[p].main = "starting"
  /\ End(p)

(* SIGTERM or an interrupt. *)
Signal(p) ==
  /\ Fallible(p)
  /\ Alive(p)
  /\ proc' = [proc EXCEPT ![p].cancelled = TRUE]
  /\ UNCHANGED vars

(* Faulty: the end of the loop is only logged. *)
StopServiceLogged(p) ==
  /\ proc[p].loop = "failed"
  /\ proc' = [proc EXCEPT ![p].loop = "done"]
  /\ UNCHANGED vars

(* The goroutine around Service.Run logs its error and calls stop. *)
StopService(p) ==
  /\ proc[p].loop = "failed"
  /\ proc' = [proc EXCEPT ![p].loop = "done", ![p].cancelled = TRUE]
  /\ UNCHANGED vars

(* Faulty: a shutdown that fails the run it interrupts. *)
ExitFailingRun(p) ==
  /\ Up(p) /\ proc[p].cancelled
  /\ proc' = [proc EXCEPT ![p] = DownProcess(@.starts)]
  /\ IF Busy(p) = {} THEN UNCHANGED <<storeVars, wrk>>
     ELSE /\ \E w \in Busy(p) : Fail(wrk[w].run, "transient")
          /\ wrk' = [w \in Worker |-> IF Host[w] = p THEN IdleWorker ELSE wrk[w]]
          /\ UNCHANGED clock
  /\ UNCHANGED sub

(* Shutdown makes ListenAndServe return at once, and main with it: nothing  *)
(* waits for Shutdown, for the requests it would drain, or for the loop.    *)
Exit(p) ==
  /\ Up(p) /\ proc[p].cancelled
  /\ End(p)

Kill(p) ==
  /\ MayKill /\ Fallible(p)
  /\ Up(p)
  /\ End(p)

-----------------------------------------------------------------------------
(* Service.Run *)

(* Faulty: the loop logs an error and goes on with the next run. *)
LoopFailsAndGoesOn(p) ==
  /\ MayFail /\ Fallible(p)
  /\ Looping(p)
  /\ \A w \in Busy(p) : wrk[w].pc # "executing"
  /\ UNCHANGED proc
  /\ LoseWork(p)

(* ProcessOne returns an error: of ClaimNext, before or after its commit, of *)
(* finishFailure or of RefreshParentStatus.  An error of Generate or of      *)
(* SaveResult is not one of these: it goes to finishFailure.                 *)
LoopFails(p) ==
  /\ MayFail /\ Fallible(p)
  /\ Looping(p)
  /\ \A w \in Busy(p) : wrk[w].pc # "executing"
  /\ proc' = [proc EXCEPT ![p].loop = "failed"]
  /\ LoseWork(p)

(* The cancelled context ends ProcessOne wherever it is, or the wait between *)
(* two calls; not even finishFailure can write.                             *)
LoopCancelled(p) ==
  /\ Up(p) /\ proc[p].cancelled
  /\ proc[p].loop = "running"
  /\ proc' = [proc EXCEPT ![p].loop = "done"]
  /\ LoseWork(p)

LoopStep(w) ==
  /\ Looping(Host[w])
  /\ Claim(w) \/ WorkerStep(w)
  /\ UNCHANGED <<sub, proc>>

-----------------------------------------------------------------------------
(* Reconciler.Run and Reconcile *)

StartNext(p) ==
  /\ Reconciling(p)
  /\ proc[p].todo # <<>>
  /\ BeginCardSet(Reconciler[p], Head(proc[p].todo), "normal")
  /\ proc' = [proc EXCEPT ![p].todo = Tail(@)]
  /\ UNCHANGED wrk

ReconcilerStep(p) ==
  /\ Reconciling(p)
  /\ SubmitterStep(Reconciler[p])
  /\ UNCHANGED <<wrk, proc>>

RoundOver(p) ==
  /\ Reconciling(p)
  /\ proc[p].todo = <<>>
  /\ sub[Reconciler[p]].pc = "idle"
  /\ proc' = [proc EXCEPT ![p].rec = "waiting"]
  /\ UNCHANGED vars

NextRound(p) ==
  /\ Alive(p)
  /\ proc[p].rec = "waiting"
  /\ proc' = [proc EXCEPT ![p].rec = "round", ![p].todo = Eligible]
  /\ UNCHANGED vars

(* Faulty: an error only ends the round. *)
ReconcilerFailsOnce(p) ==
  /\ MayFail /\ Fallible(p)
  /\ Reconciling(p)
  /\ LET s == Reconciler[p]
     IN IF sub[s].pc = "idle" THEN UNCHANGED <<storeVars, sub>> ELSE Abandon(s)
  /\ proc' = [proc EXCEPT ![p].rec = "waiting", ![p].todo = <<>>]
  /\ UNCHANGED wrk

(* The first error, of EligibleMatches or StartRun, ends the goroutine; its  *)
(* error is dropped and the process goes on without a reconciler.           *)
ReconcilerFails(p) ==
  /\ MayFail /\ Fallible(p)
  /\ Reconciling(p)
  /\ LET s == Reconciler[p]
     IN IF sub[s].pc = "idle" THEN UNCHANGED <<storeVars, sub>> ELSE Abandon(s)
  /\ proc' = [proc EXCEPT ![p].rec = "ended", ![p].todo = <<>>]
  /\ UNCHANGED wrk

-----------------------------------------------------------------------------
(* Request handlers *)

Handle(s) ==
  /\ s \notin Reconcilers
  /\ proc[Home[s]].main = "serving"
  /\ \/ Begin(s) /\ sub'[s].target \in Asked
     \/ SubmitterStep(s)
     \/ Abandon(s)
  /\ UNCHANGED <<wrk, proc>>

(* A request ends with its process, the reconciler's with its context. *)
Vanish(s) ==
  /\ IF s \in Reconcilers THEN ~ Alive(Home[s]) ELSE ~ Up(Home[s])
  /\ Abandon(s)
  /\ UNCHANGED <<wrk, proc>>

-----------------------------------------------------------------------------

ProcessStep(p) ==
  \/ Start(p) \/ Listen(p) \/ ListenFails(p) \/ Signal(p)
  \/ StopService(p) \/ Exit(p) \/ Kill(p)
  \/ LoopFails(p) \/ LoopCancelled(p)
  \/ StartNext(p) \/ ReconcilerStep(p) \/ RoundOver(p) \/ NextRound(p)
  \/ ReconcilerFails(p)

LifecycleNext ==
  \/ \E p \in Process : ProcessStep(p)
  \/ \E w \in Worker : LoopStep(w)
  \/ \E s \in Submitter : Handle(s) \/ Vanish(s)
  \/ TimePasses /\ UNCHANGED proc

LifecycleSpec == LifecycleInit /\ [][LifecycleNext]_lifecycleVars

(* Goroutines run on, and the deployment starts a process that is down.     *)
(* Nothing is assumed of signals, faults, new requests and later rounds.    *)
LifecycleFairness ==
  /\ \A p \in Process :
       /\ WF_lifecycleVars(Start(p) \/ Listen(p) \/ StopService(p) \/ Exit(p))
       /\ WF_lifecycleVars(StartNext(p) \/ ReconcilerStep(p) \/ RoundOver(p))
  /\ \A w \in Worker : WF_lifecycleVars(LoopStep(w))
  /\ \A s \in Submitter : WF_lifecycleVars((SubmitterStep(s) /\ Handle(s)) \/ Vanish(s))
  /\ \A id \in RunId : WF_lifecycleVars(RetryDue(id) /\ UNCHANGED <<sub, wrk, proc>>)

FairLifecycle == LifecycleSpec /\ LifecycleFairness

-----------------------------------------------------------------------------
(* Properties *)

(* Starts, faults and stops add nothing to what the generation service may  *)
(* do with its tables, so what holds of it holds of the processes.          *)
ImplementsService == Spec

(* A run that is claimed by nobody any more. *)
Orphans ==
  {id \in RunId : /\ runs[id].state = "running"
                  /\ \A w \in Worker : ~ (wrk[w].pc \in Holding /\ wrk[w].run = id)}

Stops(p) == proc[p].starts - (IF proc[p].loop = "running" THEN 1 ELSE 0)

(* The loops that ended: <<p, n>> is the n-th one that process p started. *)
EndedLoops == {loop \in Process \X (1 .. MaxStarts) : loop[2] <= Stops(loop[1])}

(* A process strands at most one run in its life, the one its loop worked   *)
(* on when it ended: the loop never leaves a run behind and goes on.        *)
OneOrphanPerStop == Cardinality(Orphans) <= Cardinality(EndedLoops)

(* An accepted template run outlives the processes: it is settled in the    *)
(* end, unless it was being worked on when its process stopped.             *)
QueuedRunsSurvive ==
  \A id \in RunId :
    IsTemplateRun(id) /\ runs[id].state = "queued"
      ~> runs[id].state \in Settled \/ id \in Orphans

(* A process does not stay up without its loop: requests are not accepted   *)
(* for ever by a process that works on none.                                *)
LoopEndsProcess ==
  \A p \in Process : proc[p].loop \in {"failed", "done"} ~> ~ Up(p)

(* Between two rounds every eligible match has been submitted: there is a   *)
(* run of its card set, or a result of each of its templates.  A round that *)
(* fails half way does not count as one.                                    *)
RoundSubmitsAll ==
  \A p \in Process : proc[p].rec = "waiting" =>
    \A i \in DOMAIN Eligible :
      \/ \E id \in RunId : runs[id].key = Eligible[i]
      \/ \A j \in DOMAIN Members[Eligible[i]] : pointers[Members[Eligible[i]][j]] # None

=============================================================================
