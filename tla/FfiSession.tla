----------------------------- MODULE FfiSession ----------------------------
(***************************************************************************)
(* StreamSession of src/core/ffi/src/lib.rs: the object an app starts,     *)
(* re-arms and stops, and the worker thread that drives the core session.  *)
(*                                                                         *)
(* The flags stop and rearm and the reported state are atomics: each load  *)
(* and store is a step of its own.  The join handle sits in a mutex that   *)
(* only stop() holds for longer than one step: the guard of its `if let`   *)
(* lives until join() has returned.  The core session (core and link, as   *)
(* in module Lifecycle) is behind a mutex of its own, held by a worker     *)
(* while it dials.                                                         *)
(***************************************************************************)
EXTENDS Integers, FiniteSets

CONSTANTS
  Apps,           \* application threads
  MayCall,        \* the calls each of them makes: start, retry, stop
  MaxSpawn,       \* worker threads the system grants; then spawning fails
  ConnectMayFail, \* can the initial connect of a worker fail?
  NoWorker        \* an empty handle

Calls == {"start", "retry", "stop"}
Workers == 1..MaxSpawn

ASSUME MayCallAssumption == MayCall \in [Apps -> SUBSET Calls]
ASSUME MaxSpawnAssumption == MaxSpawn \in Nat
ASSUME ConnectMayFailAssumption == ConnectMayFail \in BOOLEAN
ASSUME NoWorkerAssumption == NoWorker \notin Int

VARIABLES
  core, link,   \* Shared.session: its SessionState, and whether it holds a transport
  stop, rearm,  \* Shared.stop, Shared.rearm
  state,        \* Shared.state
  thread,       \* Shared.thread: the worker the handle joins, or NoWorker
  joining,      \* the apps (at most one) in stop() that hold the thread mutex
  app,          \* per app: [pc, handle], its call's progress and its local handle
  worker,       \* per worker: [pc, last, seen], its progress, last_core and core
  spawned,      \* workers spawned so far (numbers them)
  dropped       \* the last reference to the session object is gone

vars == <<core, link, stop, rearm, state, thread, joining, app, worker, spawned, dropped>>

L == INSTANCE Lifecycle

Init ==
  /\ L!LifecycleInit
  /\ stop = FALSE /\ rearm = FALSE
  /\ state = "Idle"
  /\ thread = NoWorker /\ joining = {}
  /\ app = [a \in Apps |-> [pc |-> "idle", handle |-> NoWorker]]
  /\ worker = [w \in Workers |-> [pc |-> "none", last |-> "Connected", seen |-> "Connected"]]
  /\ spawned = 0
  /\ dropped = FALSE

ThreadFree == joining = {}
At(a, pc) == app[a].pc = pc
Goto(a, pc) == app' = [app EXCEPT ![a].pc = pc]

\* An app thread calls f; a dropped session has no caller left.
Calling(a, f) == At(a, "idle") /\ f \in MayCall[a] /\ ~dropped

(***************************************************************************)
(* start and retry.                                                        *)
(***************************************************************************)
\* start finds no worker handle; with one it returns an error.
CallStart(a) ==
  /\ Calling(a, "start") /\ ThreadFree
  /\ thread = NoWorker
  /\ Goto(a, "check")
  /\ UNCHANGED <<core, link, stop, rearm, state, thread, joining, worker, spawned, dropped>>

\* Mutant: a stopped session may start again.
CheckStoppedMutant(a) ==
  /\ At(a, "check")
  /\ Goto(a, "announce")
  /\ UNCHANGED <<core, link, stop, rearm, state, thread, joining, worker, spawned, dropped>>

\* start then looks for Stopped; retry does so first.
CheckStopped(a) ==
  /\ At(a, "check")
  /\ Goto(a, IF state = "Stopped" THEN "idle" ELSE "announce")
  /\ UNCHANGED <<core, link, stop, rearm, state, thread, joining, worker, spawned, dropped>>

CallRetry(a) ==
  /\ Calling(a, "retry")
  /\ state # "Stopped"
  /\ Goto(a, "retry")
  /\ UNCHANGED <<core, link, stop, rearm, state, thread, joining, worker, spawned, dropped>>

\* Mutant: retry launches a worker beside the one there is.
RetryOrRelaunchMutant(a) ==
  /\ At(a, "retry") /\ ThreadFree
  /\ Goto(a, "announce")
  /\ UNCHANGED <<core, link, stop, rearm, state, thread, joining, worker, spawned, dropped>>

\* With a worker there, retry asks it to re-arm; without, it launches one.
RetryOrRelaunch(a) ==
  /\ At(a, "retry") /\ ThreadFree
  /\ IF thread = NoWorker
     THEN Goto(a, "announce") /\ UNCHANGED rearm
     ELSE Goto(a, "idle") /\ rearm' = TRUE
  /\ UNCHANGED <<core, link, stop, state, thread, joining, worker, spawned, dropped>>

\* Mutant: a launch clears the stop flag.
AnnounceMutant(a) ==
  /\ At(a, "announce")
  /\ state' = "Connecting" /\ stop' = FALSE
  /\ Goto(a, "spawn")
  /\ UNCHANGED <<core, link, rearm, thread, joining, worker, spawned, dropped>>

Announce(a) ==
  /\ At(a, "announce")
  /\ state' = "Connecting"
  /\ Goto(a, "spawn")
  /\ UNCHANGED <<core, link, stop, rearm, thread, joining, worker, spawned, dropped>>

\* spawn_worker: the thread runs before its handle is stored.
Spawn(a) ==
  /\ At(a, "spawn") /\ spawned < MaxSpawn
  /\ spawned' = spawned + 1
  /\ worker' = [worker EXCEPT ![spawned'].pc = "connect"]
  /\ app' = [app EXCEPT ![a] = [pc |-> "store", handle |-> spawned']]
  /\ UNCHANGED <<core, link, stop, rearm, state, thread, joining, dropped>>

SpawnFails(a) ==
  /\ At(a, "spawn") /\ spawned = MaxSpawn
  /\ Goto(a, "idle")
  /\ UNCHANGED <<core, link, stop, rearm, state, thread, joining, worker, spawned, dropped>>

StoreHandle(a) ==
  /\ At(a, "store") /\ ThreadFree
  /\ thread' = app[a].handle
  /\ app' = [app EXCEPT ![a] = [pc |-> "idle", handle |-> NoWorker]]
  /\ UNCHANGED <<core, link, stop, rearm, state, joining, worker, spawned, dropped>>

(***************************************************************************)
(* stop and drop.                                                          *)
(***************************************************************************)
CallStop(a) ==
  /\ Calling(a, "stop")
  /\ stop' = TRUE
  /\ Goto(a, "stop")
  /\ UNCHANGED <<core, link, rearm, state, thread, joining, worker, spawned, dropped>>

TakeHandle(a) ==
  /\ At(a, "stop") /\ ThreadFree
  /\ thread' = NoWorker
  /\ IF thread = NoWorker
     THEN Goto(a, "idle") /\ UNCHANGED joining
     ELSE /\ app' = [app EXCEPT ![a] = [pc |-> "join", handle |-> thread]]
          /\ joining' = {a}
  /\ UNCHANGED <<core, link, stop, rearm, state, worker, spawned, dropped>>

Join(a) ==
  /\ At(a, "join") /\ worker[app[a].handle].pc = "exited"
  /\ joining' = {}
  /\ app' = [app EXCEPT ![a] = [pc |-> "idle", handle |-> NoWorker]]
  /\ UNCHANGED <<core, link, stop, rearm, state, thread, worker, spawned, dropped>>

DropSession ==
  /\ ~dropped /\ \A a \in Apps : At(a, "idle")
  /\ dropped' = TRUE /\ stop' = TRUE
  /\ UNCHANGED <<core, link, rearm, state, thread, joining, app, worker, spawned>>

(***************************************************************************)
(* run_worker.                                                             *)
(***************************************************************************)
WorkerAt(w, pc) == worker[w].pc = pc
WorkerGoto(w, pc) == worker' = [worker EXCEPT ![w].pc = pc]
SessionFree == \A w \in Workers : worker[w].pc \notin {"dial", "closed"}

\* The worker has its tick's result: the state it saw under the session mutex.
Saw(w, c) == worker' = [worker EXCEPT ![w].pc = "compare", ![w].seen = c]

\* Session::start: it dials and attaches, whatever state the session is in.
WorkerConnects(w) ==
  /\ WorkerAt(w, "connect") /\ SessionFree
  /\ core' = "Connected" /\ link' = TRUE
  /\ WorkerGoto(w, "live")
  /\ UNCHANGED <<stop, rearm, state, thread, joining, app, spawned, dropped>>

WorkerConnectFails(w) ==
  /\ WorkerAt(w, "connect") /\ SessionFree /\ ConnectMayFail
  /\ WorkerGoto(w, "clear")
  /\ UNCHANGED <<core, link, stop, rearm, state, thread, joining, app, spawned, dropped>>

\* clear_handle: whatever handle is there.
ClearHandle(w) ==
  /\ WorkerAt(w, "clear") /\ ThreadFree
  /\ thread' = NoWorker
  /\ WorkerGoto(w, "report idle")
  /\ UNCHANGED <<core, link, stop, rearm, state, joining, app, spawned, dropped>>

ReportIdle(w) ==
  /\ WorkerAt(w, "report idle")
  /\ state' = "Idle"
  /\ WorkerGoto(w, "exited")
  /\ UNCHANGED <<core, link, stop, rearm, thread, joining, app, spawned, dropped>>

ReportLive(w) ==
  /\ WorkerAt(w, "live")
  /\ state' = "Live"
  /\ WorkerGoto(w, "loop")
  /\ UNCHANGED <<core, link, stop, rearm, thread, joining, app, spawned, dropped>>

\* Mutant: a worker parked on a spent budget does not look at the flag.
CheckStopMutant(w) ==
  /\ WorkerAt(w, "loop")
  /\ WorkerGoto(w, IF stop /\ core # "Exhausted" THEN "finish" ELSE "rearm")
  /\ UNCHANGED <<core, link, stop, rearm, state, thread, joining, app, spawned, dropped>>

CheckStop(w) ==
  /\ WorkerAt(w, "loop")
  /\ WorkerGoto(w, IF stop THEN "finish" ELSE "rearm")
  /\ UNCHANGED <<core, link, stop, rearm, state, thread, joining, app, spawned, dropped>>

\* Mutant: the flag is taken and forgotten.
TakeRearmMutant(w) ==
  /\ WorkerAt(w, "rearm") /\ SessionFree
  /\ rearm' = FALSE
  /\ WorkerGoto(w, "tick")
  /\ UNCHANGED <<core, link, stop, state, thread, joining, app, spawned, dropped>>

TakeRearm(w) ==
  /\ WorkerAt(w, "rearm") /\ SessionFree
  /\ rearm' = FALSE
  /\ IF rearm /\ core = "Exhausted" THEN L!Rearm ELSE UNCHANGED <<core, link>>
  /\ WorkerGoto(w, "tick")
  /\ UNCHANGED <<stop, state, thread, joining, app, spawned, dropped>>

\* Session::tick: nothing happens, or the transport is lost and the session
\* goes on to dial; a reconnecting session dials at once.
WorkerTick(w) ==
  /\ WorkerAt(w, "tick") /\ SessionFree
  /\ \/ core # "Reconnecting" /\ UNCHANGED <<core, link>> /\ Saw(w, core)
     \/ core = "Reconnecting" /\ UNCHANGED <<core, link>> /\ WorkerGoto(w, "dial")
     \/ L!Lose /\ WorkerGoto(w, "dial")
  /\ UNCHANGED <<stop, rearm, state, thread, joining, app, spawned, dropped>>

\* reconnect_phase: backoff still running or one more failure, out of budget,
\* or connected again.
WorkerDial(w) ==
  /\ WorkerAt(w, "dial")
  /\ L!Resume \/ L!GiveUp \/ UNCHANGED <<core, link>>
  /\ Saw(w, core')
  /\ UNCHANGED <<stop, rearm, state, thread, joining, app, spawned, dropped>>

\* What the worker reports for a state of the core session.
Reported(c) == IF c = "Connected" THEN "Live" ELSE c

\* Mutant: what was reported is not remembered.
CompareMutant(w) ==
  LET seen == worker[w].seen
      ended == seen \in {"Finished", "Idle"}
  IN  /\ WorkerAt(w, "compare")
      /\ IF seen = worker[w].last THEN WorkerGoto(w, "loop") /\ UNCHANGED state
         ELSE /\ SessionFree
              /\ worker' = [worker EXCEPT ![w].pc = IF ended THEN "finish" ELSE "loop"]
              /\ state' = IF ended THEN state ELSE Reported(seen)
      /\ UNCHANGED <<core, link, stop, rearm, thread, joining, app, spawned, dropped>>

\* A changed core state is reported; an ended one leaves the loop.
Compare(w) ==
  LET seen == worker[w].seen
      ended == seen \in {"Finished", "Idle"}
  IN  /\ WorkerAt(w, "compare")
      /\ IF seen = worker[w].last THEN WorkerGoto(w, "loop") /\ UNCHANGED state
         ELSE /\ SessionFree
              /\ worker' = [worker EXCEPT ![w].last = seen,
                                          ![w].pc = IF ended THEN "finish" ELSE "loop"]
              /\ state' = IF ended THEN state ELSE Reported(seen)
      /\ UNCHANGED <<core, link, stop, rearm, thread, joining, app, spawned, dropped>>

\* Session::finish: through the transport when connected, which may fail
\* before or after the transport is closed.
WorkerFinish(w) ==
  /\ WorkerAt(w, "finish") /\ SessionFree
  /\ \/ core = "Connected" /\ L!Close /\ WorkerGoto(w, "closed")
     \/ core = "Connected" /\ UNCHANGED <<core, link>> /\ WorkerGoto(w, "report stopped")
     \/ core # "Connected" /\ L!End /\ WorkerGoto(w, "report stopped")
  /\ UNCHANGED <<stop, rearm, state, thread, joining, app, spawned, dropped>>

WorkerFinished(w) ==
  /\ WorkerAt(w, "closed")
  /\ L!End \/ UNCHANGED <<core, link>>
  /\ WorkerGoto(w, "report stopped")
  /\ UNCHANGED <<stop, rearm, state, thread, joining, app, spawned, dropped>>

ReportStopped(w) ==
  /\ WorkerAt(w, "report stopped")
  /\ state' = "Stopped"
  /\ WorkerGoto(w, "exited")
  /\ UNCHANGED <<core, link, stop, rearm, thread, joining, app, spawned, dropped>>

-----------------------------------------------------------------------------
AppStep(a) ==
  \/ CheckStopped(a) \/ RetryOrRelaunch(a) \/ Announce(a) \/ Spawn(a)
  \/ SpawnFails(a) \/ StoreHandle(a) \/ TakeHandle(a) \/ Join(a)

WorkerStep(w) ==
  \/ WorkerConnects(w) \/ WorkerConnectFails(w) \/ ClearHandle(w)
  \/ ReportIdle(w) \/ ReportLive(w) \/ CheckStop(w) \/ TakeRearm(w)
  \/ WorkerTick(w) \/ WorkerDial(w) \/ Compare(w) \/ WorkerFinish(w)
  \/ WorkerFinished(w) \/ ReportStopped(w)

Next ==
  \/ \E a \in Apps : CallStart(a) \/ CallRetry(a) \/ CallStop(a) \/ AppStep(a)
  \/ DropSession
  \/ \E w \in Workers : WorkerStep(w)

Spec == Init /\ [][Next]_vars

\* Threads run: a call that was made goes on, and so does a worker.
FairSpec ==
  /\ Spec
  /\ \A a \in Apps : WF_vars(AppStep(a))
  /\ \A w \in Workers : WF_vars(WorkerStep(w))

-----------------------------------------------------------------------------
(***************************************************************************)
(* Properties.                                                             *)
(***************************************************************************)
\* Workers that use the core session or are about to.
Running == {w \in Workers : worker[w].pc \notin {"none", "clear", "report idle",
                                                  "report stopped", "exited"}}

\* One worker thread per session: no two ever drive the core session, however
\* start, retry and stop interleave with a worker that is coming or going.
OneWorker == \A v, w \in Running : v = w

\* A worker connects a session that has been ended, while stop stands.
Revived ==
  /\ stop
  /\ core \in {"Finished", "Connected"}
  /\ core' = "Connected" /\ link' = TRUE

\* One app thread, whose connects succeed: the core session keeps its lifecycle
\* under the worker, so a finished session is never connected again.
KeepsLifecycle == L!LifecycleSpec

\* Several threads and failing connects: one worker may follow another that
\* failed or was stopped, and the core session still keeps its lifecycle.  Only
\* a launch that stop() has overtaken goes beyond it (it connects a session
\* that is finished, or whose finish failed), and its worker finds stop set.
LifecycleOrRevived == L!LifecycleInit /\ [][L!LifecycleNext \/ Revived]_<<core, link>>

\* The Idle of a worker that failed to connect, told after its successor was
\* launched and, if things went that slowly, after the successor's Live.
LateIdle(w) == ConnectMayFail /\ state = "Idle" /\ w > 1

\* The app is told the truth: when a worker has been through its loop, the
\* state reported is that of the core session, or the late word of an earlier
\* worker, and nothing else.
StateTruthful ==
  \A w \in Workers : worker[w].pc = "loop" => state = Reported(core) \/ LateIdle(w)

\* stop() returns: the worker it joins always comes to its end.
StopReturns ==
  \A a \in Apps : app[a].pc \in {"stop", "join"} ~> At(a, "idle")

\* A re-arm requested of an exhausted session is not lost.
RearmHeeded ==
  (rearm /\ state = "Exhausted") ~> (core # "Exhausted" \/ stop)
=============================================================================
