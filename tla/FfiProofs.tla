----------------------------- MODULE FfiProofs ------------------------------
(***************************************************************************)
(* Proofs about module FfiSession, for any number of application threads   *)
(* and any number of workers the system grants: that two workers never     *)
(* drive the core session, that the app is told the truth, and that the    *)
(* core session keeps its lifecycle under the worker.                      *)
(*                                                                         *)
(* The arguments are about who accounts for a worker: from its spawn until *)
(* it has said its last word somebody holds its handle, and whoever could  *)
(* spawn another one looks for that handle first.                          *)
(***************************************************************************)
EXTENDS FfiSession, TLAPS

\* One thread starts and retries; any other may only stop.
Controls(a) == MayCall[a] \ {"stop"} # {}
OneController == \A a, b \in Apps : Controls(a) /\ Controls(b) => a = b

-----------------------------------------------------------------------------
(***************************************************************************)
(* Types.                                                                  *)
(***************************************************************************)
Launching == {"check", "retry", "announce", "spawn", "store"}
AppPcs == {"idle", "stop", "join"} \cup Launching
WorkerPcs == {"none", "connect", "live", "loop", "rearm", "tick", "dial", "compare",
              "finish", "closed", "clear", "report idle", "report stopped", "exited"}
Handles == Workers \cup {NoWorker}

TypeInv ==
  /\ core \in L!CoreStates /\ link \in BOOLEAN
  /\ stop \in BOOLEAN /\ rearm \in BOOLEAN /\ dropped \in BOOLEAN
  /\ thread \in Handles /\ joining \in SUBSET Apps
  /\ app \in [Apps -> [pc : AppPcs, handle : Handles]]
  /\ worker \in [Workers -> [pc : WorkerPcs, last : L!CoreStates, seen : L!CoreStates]]
  /\ spawned \in 0..MaxSpawn

\* Calls keep the types.
LEMMA CallsTyped ==
  ASSUME TypeInv, NEW a \in Apps, CallStart(a) \/ CallRetry(a) \/ CallStop(a)
  PROVE  TypeInv'
BY DEF TypeInv, CallStart, CallRetry, CallStop, Goto, AppPcs, Launching

\* Steps of a running call keep the types.
LEMMA AppTyped ==
  ASSUME TypeInv, NEW a \in Apps, AppStep(a)
  PROVE  TypeInv'
<1> USE DEF TypeInv, Goto, AppPcs, Launching, Handles
<1>1. CASE Spawn(a)
  <2>1. spawned' \in Workers /\ spawned' \in 0..MaxSpawn
    BY <1>1, MaxSpawnAssumption DEF Spawn, Workers
  <2>2. worker' = [worker EXCEPT ![spawned'].pc = "connect"]
        /\ app' = [app EXCEPT ![a] = [pc |-> "store", handle |-> spawned']]
        /\ UNCHANGED <<core, link, stop, rearm, thread, joining, dropped>>
    BY <1>1 DEF Spawn
  <2>3. worker' \in [Workers -> [pc : WorkerPcs, last : L!CoreStates, seen : L!CoreStates]]
    BY <2>1, <2>2 DEF WorkerPcs
  <2>4. app' \in [Apps -> [pc : AppPcs, handle : Handles]]
    BY <2>1, <2>2
  <2> QED BY <2>1, <2>2, <2>3, <2>4
<1>2. CASE CheckStopped(a) \/ RetryOrRelaunch(a) \/ Announce(a) \/ SpawnFails(a)
  <2>1. \E pc \in {"idle", "announce", "spawn"} : Goto(a, pc)
    BY <1>2 DEF CheckStopped, RetryOrRelaunch, Announce, SpawnFails
  <2>2. rearm' \in BOOLEAN
        /\ UNCHANGED <<core, link, stop, thread, joining, worker, spawned, dropped>>
    BY <1>2 DEF CheckStopped, RetryOrRelaunch, Announce, SpawnFails
  <2> QED BY <2>1, <2>2
<1>3. CASE StoreHandle(a)
  <2>1. app[a].handle \in Handles
    OBVIOUS
  <2> QED BY <1>3, <2>1 DEF StoreHandle
<1>4. CASE TakeHandle(a)
  <2>1. CASE thread = NoWorker
    BY <1>4, <2>1 DEF TakeHandle
  <2>2. CASE thread # NoWorker
    <3>1. /\ app' = [app EXCEPT ![a] = [pc |-> "join", handle |-> thread]]
          /\ joining' = {a} /\ thread' = NoWorker
          /\ UNCHANGED <<core, link, stop, rearm, worker, spawned, dropped>>
      BY <1>4, <2>2 DEF TakeHandle
    <3>2. app' \in [Apps -> [pc : AppPcs, handle : Handles]]
      BY <3>1
    <3> QED BY <3>1, <3>2
  <2> QED BY <2>1, <2>2
<1>5. CASE Join(a)
  BY <1>5 DEF Join
<1> QED BY <1>1, <1>2, <1>3, <1>4, <1>5 DEF AppStep

\* What a worker's step does to the variables that hold no pc.
LEMMA WorkerTyped ==
  ASSUME TypeInv, NEW w \in Workers, WorkerStep(w)
  PROVE  TypeInv'
<1> DEFINE W == [Workers -> [pc : WorkerPcs, last : L!CoreStates, seen : L!CoreStates]]
<1>1. \A pc \in WorkerPcs : [worker EXCEPT ![w].pc = pc] \in W
  BY DEF TypeInv
<1>2. \A c \in L!CoreStates : [worker EXCEPT ![w].pc = "compare", ![w].seen = c] \in W
  BY DEF TypeInv, WorkerPcs
<1>3. \A c \in L!CoreStates, pc \in WorkerPcs :
         [worker EXCEPT ![w].last = c, ![w].pc = pc] \in W
  BY DEF TypeInv
<1>4. worker[w].seen \in L!CoreStates
  BY DEF TypeInv
<1>5. core' \in L!CoreStates /\ link' \in BOOLEAN
  <2>1. CASE UNCHANGED <<core, link>>
    BY <2>1 DEF TypeInv
  <2>2. CASE core' = "Connected" /\ link' = TRUE
    BY <2>2 DEF L!CoreStates
  <2>3. CASE L!Rearm \/ L!Lose \/ L!Resume \/ L!GiveUp \/ L!Close \/ L!End
    BY <2>3 DEF TypeInv, L!CoreStates, L!Rearm, L!Lose, L!Resume, L!GiveUp, L!Close, L!End, L!Move
  <2> QED BY <2>1, <2>2, <2>3 DEF WorkerStep, WorkerConnects, WorkerConnectFails, ClearHandle,
             ReportIdle, ReportLive, CheckStop, TakeRearm, WorkerTick, WorkerDial, Compare,
             WorkerFinish, WorkerFinished, ReportStopped
<1>6. worker' \in W
  <2>1. \A pc : WorkerGoto(w, pc) /\ pc \in WorkerPcs => worker' \in W
    BY <1>1 DEF WorkerGoto
  <2>2. \A c \in L!CoreStates : Saw(w, c) => worker' \in W
    BY <1>2 DEF Saw
  <2> HIDE DEF W
  <2>3. CASE WorkerConnects(w) \/ WorkerConnectFails(w) \/ ClearHandle(w) \/ ReportIdle(w)
             \/ ReportLive(w) \/ TakeRearm(w) \/ WorkerFinish(w)
             \/ WorkerFinished(w) \/ ReportStopped(w)
    BY <2>1, <2>3 DEF WorkerConnects, WorkerConnectFails, ClearHandle, ReportIdle, ReportLive,
                TakeRearm, WorkerFinish, WorkerFinished, ReportStopped, WorkerPcs
  <2>4. CASE CheckStop(w)
    <3>1. CASE stop
      BY <2>1, <2>4, <3>1 DEF CheckStop, WorkerPcs
    <3>2. CASE ~stop
      BY <2>1, <2>4, <3>2 DEF CheckStop, WorkerPcs
    <3> QED BY <3>1, <3>2
  <2>5. CASE WorkerTick(w) \/ WorkerDial(w)
    BY <1>5, <2>1, <2>2, <2>5 DEF WorkerTick, WorkerDial, WorkerPcs, TypeInv
  <2>6. CASE Compare(w)
    BY <1>3, <1>4, <2>1, <2>6 DEF Compare, WorkerPcs
  <2> QED BY <2>3, <2>4, <2>5, <2>6 DEF WorkerStep
<1>7. /\ UNCHANGED <<stop, joining, app, spawned, dropped>>
      /\ rearm' \in BOOLEAN /\ thread' \in Handles
  BY DEF TypeInv, Handles, WorkerStep, WorkerConnects, WorkerConnectFails, ClearHandle,
         ReportIdle, ReportLive, CheckStop, TakeRearm, WorkerTick, WorkerDial, Compare,
         WorkerFinish, WorkerFinished, ReportStopped
<1> QED BY <1>5, <1>6, <1>7 DEF TypeInv

\* Every step keeps the types.
LEMMA TypeStep ==
  ASSUME TypeInv, [Next]_vars
  PROVE  TypeInv'
<1>1. CASE DropSession
  BY <1>1 DEF DropSession, TypeInv
<1>2. CASE UNCHANGED vars
  BY <1>2 DEF vars, TypeInv
<1> QED BY <1>1, <1>2, CallsTyped, AppTyped, WorkerTyped DEF Next

\* The types hold of a new object.
LEMMA TypeInit ==
  ASSUME Init
  PROVE  TypeInv
<1>1. app \in [Apps -> [pc : AppPcs, handle : Handles]]
  BY DEF Init, AppPcs, Handles
<1>2. worker \in [Workers -> [pc : WorkerPcs, last : L!CoreStates, seen : L!CoreStates]]
  BY DEF Init, WorkerPcs, L!CoreStates
<1>3. spawned \in 0..MaxSpawn
  BY MaxSpawnAssumption DEF Init
<1> QED BY <1>1, <1>2, <1>3 DEF Init, TypeInv, L!LifecycleInit, L!CoreStates, Handles

-----------------------------------------------------------------------------
(***************************************************************************)
(* Who holds a worker.                                                     *)
(***************************************************************************)
\* A worker that has been spawned and may still touch the core session or the
\* handle: the workers of Running, and those about to clear the handle or to
\* report that they stopped.
Gone == {"none", "report idle", "exited"}
Active == {w \in Workers : worker[w].pc \notin Gone}

\* a has the handle of w in hand: it is about to store it, or joins w.
Holds(a, w) == app[a].pc \in {"store", "join"} /\ app[a].handle = w

\* A worker that was never spawned.
Unborn == [pc |-> "none", last |-> "Connected", seen |-> "Connected"]

\* Every active worker's handle is in the mutex or in an app's hands; an app
\* on its way to a spawn has seen the mutex empty, and only the controlling
\* app is ever on that way.
OwnedInv ==
  /\ \A w \in Active : thread = w \/ \E a \in Apps : Holds(a, w)
  /\ \A a \in Apps : app[a].pc \in Launching \ {"retry"} => thread = NoWorker /\ joining = {}
  /\ \A a \in Apps : app[a].pc \in {"check", "announce", "spawn"} => Active = {}
  /\ \A a \in Apps : app[a].pc \in {"store", "join"} => app[a].handle \in Workers
  /\ \A a \in Apps : app[a].pc = "join" <=> a \in joining
  /\ \A a, b \in joining : a = b
  /\ joining # {} => thread = NoWorker
  /\ \A a \in Apps : app[a].pc \in Launching => Controls(a)
  /\ \A w \in Workers : w > spawned => worker[w] = Unborn

\* NoWorker is no worker's number.
LEMMA NoWorkerIsNone == NoWorker \notin Workers
BY NoWorkerAssumption, MaxSpawnAssumption DEF Workers

\* Who holds a worker holds the only one there is.
LEMMA AtMostOneActive ==
  ASSUME TypeInv, OwnedInv, OneController, NEW v \in Active, NEW w \in Active
  PROVE  v = w
<1> v \in Workers /\ w \in Workers
  BY DEF Active
<1> USE NoWorkerIsNone
<1>1. CASE thread # NoWorker
  <2>1. joining = {} /\ \A a \in Apps : app[a].pc \notin {"store", "join"}
    BY <1>1 DEF OwnedInv, Launching
  <2> QED BY <2>1 DEF OwnedInv, Holds
<1>2. CASE thread = NoWorker
  <2>1. PICK a \in Apps : Holds(a, v)
    BY <1>2 DEF OwnedInv
  <2>2. PICK b \in Apps : Holds(b, w)
    BY <1>2 DEF OwnedInv
  <2>3. a = b
    BY <2>1, <2>2 DEF OwnedInv, Holds, OneController, Launching
  <2> QED BY <2>1, <2>2, <2>3 DEF Holds
<1> QED BY <1>1, <1>2

\* What a worker's step leaves alone: no worker is born by it, only its own
\* record changes, and only a worker at "clear" touches the handle.
LEMMA WorkerFrame ==
  ASSUME TypeInv, NEW w \in Workers, WorkerStep(w)
  PROVE  /\ UNCHANGED <<joining, app, spawned>>
         /\ w \in Active \/ worker[w].pc = "report idle"
         /\ \A v \in Workers : v # w => worker'[v] = worker[v]
         /\ thread' = thread \/ (thread' = NoWorker /\ w \in Active /\ w \notin Active')
         /\ worker[w].pc # "none"
<1> USE DEF TypeInv
<1>1. UNCHANGED <<joining, app, spawned>> /\ worker[w].pc # "none"
      /\ (w \in Active \/ worker[w].pc = "report idle")
  BY DEF Active, Gone, WorkerAt, WorkerStep, WorkerConnects, WorkerConnectFails, ClearHandle,
         ReportIdle, ReportLive, CheckStop, TakeRearm, WorkerTick, WorkerDial, Compare,
         WorkerFinish, WorkerFinished, ReportStopped
<1>2. \A v \in Workers : v # w => worker'[v] = worker[v]
  <2>1. \A pc : WorkerGoto(w, pc) => \A v \in Workers : v # w => worker'[v] = worker[v]
    BY DEF WorkerGoto
  <2>2. \A c : Saw(w, c) => \A v \in Workers : v # w => worker'[v] = worker[v]
    BY DEF Saw
  <2>3. CASE Compare(w)
    BY <2>1, <2>3 DEF Compare
  <2> QED BY <2>1, <2>2, <2>3
        DEF WorkerStep, WorkerConnects, WorkerConnectFails, ClearHandle, ReportIdle, ReportLive,
            CheckStop, TakeRearm, WorkerTick, WorkerDial, WorkerFinish, WorkerFinished,
            ReportStopped
<1>3. thread' = thread \/ (thread' = NoWorker /\ w \in Active /\ w \notin Active')
  <2>1. CASE ClearHandle(w)
    <3>1. worker'[w].pc = "report idle" /\ worker[w].pc = "clear" /\ thread' = NoWorker
      BY <2>1 DEF ClearHandle, WorkerAt, WorkerGoto
    <3> QED BY <3>1 DEF Active, Gone
  <2>2. CASE ~ClearHandle(w)
    BY <2>2 DEF WorkerStep, WorkerConnects, WorkerConnectFails, ReportIdle, ReportLive,
            CheckStop, TakeRearm, WorkerTick, WorkerDial, Compare, WorkerFinish,
            WorkerFinished, ReportStopped
  <2> QED BY <2>1, <2>2
<1> QED BY <1>1, <1>2, <1>3

\* Workers come and go without disturbing who holds them.
LEMMA OwnedWorkerStep ==
  ASSUME TypeInv, OwnedInv, OneController, NEW w \in Workers, WorkerStep(w)
  PROVE  OwnedInv'
<1>0. /\ app' = app /\ joining' = joining /\ spawned' = spawned
      /\ w \in Active \/ worker[w].pc = "report idle"
      /\ \A v \in Workers : v # w => worker'[v] = worker[v]
      /\ thread' = thread \/ (thread' = NoWorker /\ w \in Active /\ w \notin Active')
      /\ worker[w].pc # "none"
  BY WorkerFrame
<1>1. Active' \subseteq Active
  <2>1. w \in Active \/ w \notin Active'
    <3>1. CASE worker[w].pc = "report idle"
      <4>1. ReportIdle(w)
        BY <3>1 DEF WorkerAt, WorkerStep, WorkerConnects, WorkerConnectFails, ClearHandle,
               ReportLive, CheckStop, TakeRearm, WorkerTick, WorkerDial, Compare, WorkerFinish,
               WorkerFinished, ReportStopped
      <4> QED BY <4>1 DEF ReportIdle, WorkerGoto, Active, Gone, TypeInv
    <3> QED BY <1>0, <3>1
  <2> QED BY <1>0, <2>1 DEF Active
<1>2. \A v \in Active' : thread' = v \/ \E a \in Apps : Holds(a, v)'
  <2> SUFFICES ASSUME NEW v \in Active' PROVE thread' = v \/ \E a \in Apps : Holds(a, v)'
    OBVIOUS
  <2>1. v \in Active
    BY <1>1
  <2>2. CASE thread' = thread
    BY <1>0, <2>1, <2>2 DEF OwnedInv, Holds
  <2>3. CASE thread' # thread
    <3>1. w \in Active /\ w \notin Active'
      BY <1>0, <2>3
    <3>2. v = w
      BY <2>1, <3>1, AtMostOneActive
    <3> QED BY <3>1, <3>2
  <2> QED BY <2>2, <2>3
<1>3. \A a \in Apps : app[a].pc \in {"check", "announce", "spawn"} => Active' = {}
  BY <1>1 DEF OwnedInv
<1>4. \A v \in Workers : v > spawned => worker'[v] = Unborn
  <2> SUFFICES ASSUME NEW v \in Workers, v > spawned PROVE worker'[v] = Unborn
    OBVIOUS
  <2>1. worker[v] = Unborn
    BY DEF OwnedInv
  <2>2. worker[v].pc = "none"
    BY <2>1 DEF Unborn
  <2>3. v # w
    BY <1>0, <2>2
  <2>4. worker'[v] = worker[v]
    BY <1>0, <2>3
  <2> QED BY <2>1, <2>4
<1>5. thread = NoWorker => thread' = NoWorker
  BY <1>0
<1>6. \A a \in Apps : app'[a].pc \in Launching \ {"retry"} => thread' = NoWorker /\ joining' = {}
  BY <1>0, <1>5 DEF OwnedInv
<1>7. \A v \in Workers : v > spawned' => worker'[v] = Unborn
  BY <1>0, <1>4
<1>8. joining' # {} => thread' = NoWorker
  BY <1>0, <1>5 DEF OwnedInv
<1>9. /\ \A a \in Apps : app'[a].pc \in {"check", "announce", "spawn"} => Active' = {}
      /\ \A a \in Apps : app'[a].pc \in {"store", "join"} => app'[a].handle \in Workers
      /\ \A a \in Apps : app'[a].pc = "join" <=> a \in joining'
      /\ \A a, b \in joining' : a = b
      /\ \A a \in Apps : app'[a].pc \in Launching => Controls(a)
  BY <1>0, <1>3 DEF OwnedInv
<1> QED BY <1>2, <1>6, <1>7, <1>8, <1>9 DEF OwnedInv

\* An app's call that only moves its pc, outside the handle mutex.
LEMMA OwnedGoto ==
  ASSUME TypeInv, OwnedInv, NEW a \in Apps, NEW pc \in AppPcs, Goto(a, pc),
         app[a].pc \notin {"store", "join"},
         UNCHANGED <<thread, joining, worker, spawned>>,
         pc \notin {"store", "join"},
         pc \in Launching => Controls(a),
         pc \in Launching \ {"retry"} => thread = NoWorker /\ joining = {},
         pc \in {"check", "announce", "spawn"} => Active = {}
  PROVE  OwnedInv'
<1>1. /\ app'[a] = [app[a] EXCEPT !.pc = pc]
      /\ \A b \in Apps : b # a => app'[b] = app[b]
  BY DEF Goto, TypeInv
<1>2. app'[a].pc = pc
  BY <1>1 DEF TypeInv
<1>3. Active' = Active
  BY DEF Active
<1>4. \A w \in Active : thread = w \/ \E b \in Apps : Holds(b, w)'
  <2> SUFFICES ASSUME NEW w \in Active, thread # w PROVE \E b \in Apps : Holds(b, w)'
    OBVIOUS
  <2>1. PICK b \in Apps : Holds(b, w)
    BY DEF OwnedInv
  <2>2. b # a
    BY <2>1 DEF Holds
  <2> QED BY <1>1, <2>1, <2>2 DEF Holds
<1>5. \A b \in Apps : app'[b].pc \in Launching \ {"retry"} => thread = NoWorker /\ joining = {}
  BY <1>1, <1>2 DEF OwnedInv
<1>6. \A b \in Apps : app'[b].pc \in {"check", "announce", "spawn"} => Active = {}
  BY <1>1, <1>2 DEF OwnedInv
<1>7. \A b \in Apps : app'[b].pc \in {"store", "join"} => app'[b].handle \in Workers
  BY <1>1, <1>2 DEF OwnedInv
<1>8. \A b \in Apps : app'[b].pc = "join" <=> b \in joining
  BY <1>1, <1>2 DEF OwnedInv
<1>9. \A b \in Apps : app'[b].pc \in Launching => Controls(b)
  BY <1>1, <1>2 DEF OwnedInv
<1> QED BY <1>3, <1>4, <1>5, <1>6, <1>7, <1>8, <1>9 DEF OwnedInv

\* An app that may launch is the only one, and on no launch yet: with the
\* handle mutex free and empty nobody holds a worker.
LEMMA NobodyActive ==
  ASSUME TypeInv, OwnedInv, OneController, NEW a \in Apps, Controls(a),
         app[a].pc \notin {"store", "join"}, thread = NoWorker, joining = {}
  PROVE  Active = {}
<1> SUFFICES ASSUME NEW w \in Active PROVE FALSE
  OBVIOUS
<1>1. w \in Workers
  BY DEF Active
<1>2. PICK b \in Apps : Holds(b, w)
  BY <1>1, NoWorkerIsNone DEF OwnedInv
<1>3. app[b].pc = "store"
  BY <1>2 DEF OwnedInv, Holds
<1>4. Controls(b)
  BY <1>3 DEF OwnedInv, Launching
<1> QED BY <1>3, <1>4 DEF OneController

\* Entering a call leaves every worker accounted for.
LEMMA OwnedCalls ==
  ASSUME TypeInv, OwnedInv, OneController, NEW a \in Apps,
         CallStart(a) \/ CallRetry(a) \/ CallStop(a)
  PROVE  OwnedInv'
<1> USE DEF Calling, At, AppPcs, Launching, ThreadFree
<1>1. CASE CallStart(a)
  <2>1. Controls(a)
    BY <1>1 DEF CallStart, Controls
  <2>2. Active = {}
    BY <1>1, <2>1, NobodyActive DEF CallStart
  <2>3. Goto(a, "check") /\ UNCHANGED <<thread, joining, worker, spawned>>
        /\ thread = NoWorker /\ joining = {} /\ app[a].pc = "idle"
    BY <1>1 DEF CallStart
  <2> QED BY <2>1, <2>2, <2>3, OwnedGoto
<1>2. CASE CallRetry(a)
  <2>1. Controls(a)
    BY <1>2 DEF CallRetry, Controls
  <2>2. Goto(a, "retry") /\ UNCHANGED <<thread, joining, worker, spawned>> /\ app[a].pc = "idle"
    BY <1>2 DEF CallRetry
  <2> QED BY <2>1, <2>2, OwnedGoto
<1>3. CASE CallStop(a)
  <2>1. Goto(a, "stop") /\ UNCHANGED <<thread, joining, worker, spawned>> /\ app[a].pc = "idle"
    BY <1>3 DEF CallStop
  <2> QED BY <2>1, OwnedGoto
<1> QED BY <1>1, <1>2, <1>3

\* So does each step of a running call.
LEMMA OwnedAppStep ==
  ASSUME TypeInv, OwnedInv, OneController, NEW a \in Apps, AppStep(a)
  PROVE  OwnedInv'
<1>1. CASE CheckStopped(a)
  <2>1. app[a].pc = "check" /\ thread = NoWorker /\ joining = {} /\ Active = {} /\ Controls(a)
    BY <1>1 DEF CheckStopped, At, OwnedInv, Launching
  <2>2. UNCHANGED <<thread, joining, worker, spawned>>
    BY <1>1 DEF CheckStopped
  <2>3. Goto(a, "idle") \/ Goto(a, "announce")
    BY <1>1 DEF CheckStopped
  <2> QED BY <2>1, <2>2, <2>3, OwnedGoto DEF AppPcs, Launching
<1>2. CASE RetryOrRelaunch(a)
  <2>1. app[a].pc = "retry" /\ joining = {} /\ Controls(a)
    BY <1>2 DEF RetryOrRelaunch, At, ThreadFree, OwnedInv, Launching
  <2>2. UNCHANGED <<thread, joining, worker, spawned>>
    BY <1>2 DEF RetryOrRelaunch
  <2>3. CASE thread = NoWorker
    <3>1. Active = {}
      BY <2>1, <2>3, NobodyActive
    <3>2. Goto(a, "announce")
      BY <1>2, <2>3 DEF RetryOrRelaunch
    <3> QED BY <2>1, <2>2, <2>3, <3>1, <3>2, OwnedGoto DEF AppPcs, Launching
  <2>4. CASE thread # NoWorker
    <3>1. Goto(a, "idle")
      BY <1>2, <2>4 DEF RetryOrRelaunch
    <3> QED BY <2>1, <2>2, <3>1, OwnedGoto DEF AppPcs, Launching
  <2> QED BY <2>3, <2>4
<1>3. CASE Announce(a) \/ SpawnFails(a)
  <2>1. app[a].pc \in {"announce", "spawn"} /\ UNCHANGED <<thread, joining, worker, spawned>>
        /\ (Goto(a, "spawn") \/ Goto(a, "idle"))
    BY <1>3 DEF Announce, SpawnFails, At
  <2>2. thread = NoWorker /\ joining = {} /\ Active = {} /\ Controls(a)
    BY <2>1 DEF OwnedInv, Launching
  <2> QED BY <2>1, <2>2, OwnedGoto DEF AppPcs, Launching
<1>4. CASE Spawn(a)
  <2> DEFINE n == spawned + 1
  <2>1. n \in Workers /\ spawned' = n /\ thread' = thread /\ joining' = joining
        /\ worker' = [worker EXCEPT ![n].pc = "connect"]
        /\ app' = [app EXCEPT ![a] = [pc |-> "store", handle |-> n]]
        /\ app[a].pc = "spawn"
    BY <1>4, MaxSpawnAssumption DEF Spawn, At, Workers, TypeInv
  <2>2. thread = NoWorker /\ joining = {} /\ Active = {} /\ Controls(a)
    BY <2>1 DEF OwnedInv, Launching
  <2>3. \A w \in Workers : w > n => w > spawned /\ w # n
    BY DEF Workers, TypeInv
  <2> HIDE DEF n
  <2>4. Active' \subseteq {n}
    BY <2>1, <2>2 DEF Active, TypeInv
  <2>5. app'[a] = [pc |-> "store", handle |-> n] /\ \A b \in Apps : b # a => app'[b] = app[b]
    BY <2>1 DEF TypeInv
  <2>6. \A b \in Apps : app[b].pc \in Launching => b = a
    BY <2>2 DEF OwnedInv, OneController
  <2>7. \A b \in Apps : app'[b].pc \in Launching => b = a
    BY <2>5, <2>6
  <2>8. app'[a].pc = "store" /\ app'[a].handle = n
    BY <2>5
  <2>9. \A w \in Workers : w > n => worker'[w] = Unborn
    <3> SUFFICES ASSUME NEW w \in Workers, w > n PROVE worker'[w] = Unborn
      OBVIOUS
    <3>1. w > spawned /\ w # n
      BY <2>3
    <3>2. worker[w] = Unborn
      BY <3>1 DEF OwnedInv
    <3>3. worker'[w] = worker[w]
      BY <2>1, <3>1 DEF TypeInv
    <3> QED BY <3>2, <3>3
  <2>10. \A b \in Apps : app'[b].pc = "join" <=> b \in joining
    BY <2>1, <2>5 DEF OwnedInv
  <2>11. \A b \in Apps : app'[b].pc \in {"store", "join"} => app'[b].handle \in Workers
    BY <2>1, <2>5 DEF OwnedInv
  <2>12. \A b \in Apps : app'[b].pc \in {"check", "announce", "spawn"} => Active' = {}
    BY <2>5, <2>7 DEF Launching
  <2>13. \A w \in Active' : \E b \in Apps : Holds(b, w)'
    BY <2>4, <2>8 DEF Holds
  <2>14. \A b \in Apps : app'[b].pc \in Launching => Controls(b)
    BY <2>2, <2>7
  <2>15. spawned' = n /\ thread' = NoWorker /\ joining' = {}
    BY <2>1, <2>2
  <2> QED BY <2>2, <2>9, <2>10, <2>11, <2>12, <2>13, <2>14, <2>15 DEF OwnedInv
<1>5. CASE StoreHandle(a)
  <2>1. app[a].pc = "store" /\ joining = {} /\ joining' = joining
        /\ UNCHANGED <<worker, spawned>> /\ thread' = app[a].handle
        /\ app' = [app EXCEPT ![a] = [pc |-> "idle", handle |-> NoWorker]]
    BY <1>5 DEF StoreHandle, At, ThreadFree
  <2>2. app'[a] = [pc |-> "idle", handle |-> NoWorker] /\ \A b \in Apps : b # a => app'[b] = app[b]
    BY <2>1 DEF TypeInv
  <2>3. \A b \in Apps : app[b].pc \in Launching => b = a
    BY <2>1 DEF OwnedInv, OneController, Launching
  <2>4. \A b \in Apps : app'[b].pc \notin Launching
    BY <2>2, <2>3 DEF Launching
  <2>5. \A b \in Apps : app'[b].pc # "join"
    BY <2>1, <2>2 DEF OwnedInv
  <2>6. Active' = Active
    BY <2>1 DEF Active
  <2>7. \A w \in Active : thread' = w
    <3> SUFFICES ASSUME NEW w \in Active PROVE thread' = w
      OBVIOUS
    <3>1. w \in Workers /\ thread = NoWorker
      BY <2>1 DEF Active, OwnedInv, Launching
    <3>2. PICK b \in Apps : Holds(b, w)
      BY <3>1, NoWorkerIsNone DEF OwnedInv
    <3>3. b = a
      BY <2>1, <2>3, <3>2 DEF Holds, OwnedInv, Launching
    <3> QED BY <2>1, <3>2, <3>3 DEF Holds
  <2> QED BY <2>1, <2>4, <2>5, <2>6, <2>7 DEF OwnedInv, Launching
<1>6. CASE TakeHandle(a)
  <2>1. app[a].pc = "stop" /\ joining = {} /\ UNCHANGED <<worker, spawned>>
    BY <1>6 DEF TakeHandle, At, ThreadFree
  <2>2. CASE thread = NoWorker
    <3>1. Goto(a, "idle") /\ UNCHANGED <<thread, joining, worker, spawned>>
      BY <1>6, <2>2 DEF TakeHandle
    <3> QED BY <2>1, <3>1, OwnedGoto DEF AppPcs, Launching
  <2>3. CASE thread # NoWorker
    <3>1. thread' = NoWorker /\ joining' = {a}
          /\ app' = [app EXCEPT ![a] = [pc |-> "join", handle |-> thread]]
      BY <1>6, <2>3 DEF TakeHandle
    <3>2. app'[a] = [pc |-> "join", handle |-> thread] /\ \A b \in Apps : b # a => app'[b] = app[b]
      BY <3>1 DEF TypeInv
    <3>3. \A b \in Apps : app[b].pc \notin Launching \ {"retry"} /\ app[b].pc # "join"
      BY <2>1, <2>3 DEF OwnedInv
    <3>4. \A b \in Apps : app'[b].pc \notin Launching \ {"retry"}
      BY <3>2, <3>3 DEF Launching
    <3>5. \A b \in Apps : app'[b].pc = "join" <=> b \in joining'
      BY <3>1, <3>2, <3>3
    <3>6. \A w \in Active : w = thread
      BY <3>3 DEF OwnedInv, Holds, Launching
    <3>7. \A w \in Active : Holds(a, w)'
      BY <3>2, <3>6 DEF Holds
    <3>8. thread \in Workers /\ \A b \in Apps : app'[b].pc \in {"store", "join"} => app'[b].handle \in Workers
      BY <2>3, <3>2, <3>4 , <3>3 DEF TypeInv, Handles, Launching
    <3>9. Active' = Active
      BY <2>1 DEF Active
    <3>10. \A b \in Apps : app'[b].pc \in Launching => Controls(b)
      BY <3>2 DEF OwnedInv, Launching
    <3> QED BY <2>1, <3>1, <3>4, <3>5, <3>7, <3>8, <3>9, <3>10 DEF OwnedInv, Launching
  <2> QED BY <2>2, <2>3
<1>7. CASE Join(a)
  <2>1. app[a].pc = "join" /\ worker[app[a].handle].pc = "exited" /\ joining' = {}
        /\ app' = [app EXCEPT ![a] = [pc |-> "idle", handle |-> NoWorker]]
        /\ UNCHANGED <<thread, worker, spawned>>
    BY <1>7 DEF Join, At
  <2>2. app'[a] = [pc |-> "idle", handle |-> NoWorker] /\ \A b \in Apps : b # a => app'[b] = app[b]
    BY <2>1 DEF TypeInv
  <2>3. joining = {a} /\ thread = NoWorker
    BY <2>1 DEF OwnedInv
  <2>4. \A b \in Apps : app[b].pc \notin Launching \ {"retry"}
    BY <2>3 DEF OwnedInv
  <2>5. \A b \in Apps : app'[b].pc \notin {"store", "join"} /\ app'[b].pc \notin Launching \ {"retry"}
    BY <2>2, <2>3, <2>4 DEF OwnedInv, Launching
  <2>6. Active = {}
    <3> SUFFICES ASSUME NEW w \in Active PROVE FALSE
      OBVIOUS
    <3>1. w \in Workers /\ worker[w].pc # "exited"
      BY DEF Active, Gone
    <3>2. PICK b \in Apps : Holds(b, w)
      BY <2>3, <3>1, NoWorkerIsNone DEF OwnedInv
    <3>3. b = a
      BY <2>3, <2>4, <3>2 DEF Holds, OwnedInv, Launching
    <3> QED BY <2>1, <3>1, <3>2, <3>3 DEF Holds
  <2>7. Active' = {}
    BY <2>1, <2>6 DEF Active
  <2>8. \A b \in Apps : app'[b].pc \in Launching => Controls(b)
    BY <2>2 DEF OwnedInv, Launching
  <2> QED BY <2>1, <2>5, <2>7, <2>8 DEF OwnedInv, Launching
<1> QED BY <1>1, <1>2, <1>3, <1>4, <1>5, <1>6, <1>7 DEF AppStep

\* Every step leaves every worker accounted for.
LEMMA OwnedStep ==
  ASSUME TypeInv, OwnedInv, OneController, [Next]_vars
  PROVE  OwnedInv'
<1>1. CASE DropSession \/ UNCHANGED vars
  <2>1. thread' = thread /\ joining' = joining /\ app' = app /\ worker' = worker /\ spawned' = spawned
    BY <1>1 DEF DropSession, vars
  <2> QED BY <2>1 DEF OwnedInv, Active, Holds
<1> QED BY <1>1, OwnedCalls, OwnedAppStep, OwnedWorkerStep DEF Next

\* A new object has no worker.
LEMMA OwnedInit ==
  ASSUME Init
  PROVE  OwnedInv
<1>1. \A a \in Apps : app[a].pc = "idle"
  BY DEF Init
<1>2. Active = {} /\ joining = {} /\ thread = NoWorker
  BY DEF Init, Active, Gone
<1>3. \A w \in Workers : worker[w] = Unborn
  BY DEF Init, Unborn
<1> QED BY <1>1, <1>2, <1>3 DEF OwnedInv, Launching

\* A worker in its loop is active.
LEMMA RunningIsActive == Running \subseteq Active
BY DEF Running, Active, Gone

\* As long as one thread alone starts and retries, whatever any other stops
\* and whenever spawning or connecting fails, no two workers ever drive the
\* core session: spawn_worker, retry, stop and clear_handle.
THEOREM FfiOneWorker ==
  ASSUME OneController
  PROVE  Spec => []OneWorker
<1>1. Init => TypeInv /\ OwnedInv
  BY TypeInit, OwnedInit
<1>2. TypeInv /\ OwnedInv /\ [Next]_vars => (TypeInv /\ OwnedInv)'
  BY TypeStep, OwnedStep
<1>3. TypeInv /\ OwnedInv => OneWorker
  BY AtMostOneActive, RunningIsActive DEF OneWorker
<1> QED BY <1>1, <1>2, <1>3, PTL DEF Spec

-----------------------------------------------------------------------------
(***************************************************************************)
(* What the app is told.                                                   *)
(***************************************************************************)
\* A worker's account of the session: last_core is what it has reported, and
\* at the head of its loop it is what the session is in.
Truthful(w) ==
  /\ worker[w].pc \in {"connect", "live"} => worker[w].last = "Connected"
  /\ worker[w].pc = "live" => core = "Connected"
  /\ worker[w].pc \in {"loop", "rearm", "tick", "dial", "compare"} =>
       state = Reported(worker[w].last) \/ LateIdle(w)
  /\ worker[w].pc = "loop" => core = worker[w].last
  /\ worker[w].pc = "compare" => core = worker[w].seen

\* A worker on its way out after a failed connect was launched before the
\* active one, whose report it may still overwrite.
Failed(w) == worker[w].pc \in {"clear", "report idle"}

TruthInv ==
  /\ \A w \in Workers : Truthful(w)
  /\ \A w \in Workers : Failed(w) => ConnectMayFail
  /\ \A v, w \in Workers : worker[v].pc = "report idle" /\ w \in Active => v < w

\* Whatever happens to the session and its report, a worker that is gone says
\* nothing about them.
LEMMA GoneIsTruthful ==
  ASSUME NEW w \in Workers, worker'[w].pc \in {"none", "clear", "report idle", "exited"}
  PROVE  Truthful(w)'
BY DEF Truthful

\* Where its step takes a worker: out of the failed ones only by these two.
LEMMA StepsOnly ==
  ASSUME TypeInv, NEW w \in Workers, WorkerStep(w)
  PROVE  /\ worker'[w].pc = "report idle" => ClearHandle(w)
         /\ worker'[w].pc = "clear" => WorkerConnectFails(w)
<1> USE DEF TypeInv
<1>1. \A pc : WorkerGoto(w, pc) => worker'[w].pc = pc
  BY DEF WorkerGoto
<1>2. \A c : Saw(w, c) => worker'[w].pc = "compare"
  BY DEF Saw
<1>3. CASE Compare(w)
  BY <1>1, <1>3 DEF Compare
<1>4. CASE CheckStop(w)
  <2>1. CASE stop
    BY <1>1, <1>4, <2>1 DEF CheckStop
  <2>2. CASE ~stop
    BY <1>1, <1>4, <2>2 DEF CheckStop
  <2> QED BY <2>1, <2>2
<1> QED BY <1>1, <1>2, <1>3, <1>4
      DEF WorkerStep, WorkerConnects, WorkerConnectFails, ClearHandle, ReportIdle, ReportLive,
          TakeRearm, WorkerTick, WorkerDial, WorkerFinish, WorkerFinished, ReportStopped

\* A worker's own step keeps its report truthful.
LEMMA TruthOwnStep ==
  ASSUME TypeInv, TruthInv, NEW w \in Workers, WorkerStep(w)
  PROVE  Truthful(w)'
<1> USE DEF TypeInv
<1>1. Truthful(w)
  BY DEF TruthInv
<1>2. \A pc : WorkerGoto(w, pc) => worker'[w] = [worker[w] EXCEPT !.pc = pc]
  BY DEF WorkerGoto
<1>3. CASE WorkerConnects(w) \/ ReportLive(w)
  <2>1. CASE WorkerConnects(w)
    <3>1. worker'[w] = [worker[w] EXCEPT !.pc = "live"] /\ worker[w].pc = "connect" /\ core' = "Connected"
      BY <1>2, <2>1 DEF WorkerConnects, WorkerAt
    <3> QED BY <1>1, <3>1 DEF Truthful, LateIdle
  <2>2. CASE ReportLive(w)
    <3>1. /\ worker'[w] = [worker[w] EXCEPT !.pc = "loop"] /\ worker[w].pc = "live"
          /\ core' = core /\ state' = "Live"
      BY <1>2, <2>2 DEF ReportLive, WorkerAt
    <3>2. core = "Connected" /\ worker[w].last = "Connected"
      BY <1>1, <3>1 DEF Truthful, LateIdle
    <3> QED BY <3>1, <3>2 DEF Truthful, LateIdle, Reported
  <2> QED BY <1>3, <2>1, <2>2
<1>4. CASE WorkerConnectFails(w) \/ ClearHandle(w) \/ ReportIdle(w)
  <2>1. worker'[w].pc \in {"clear", "report idle", "exited"}
    <3>1. \E pc \in {"clear", "report idle", "exited"} : worker'[w] = [worker[w] EXCEPT !.pc = pc]
      BY <1>2, <1>4 DEF WorkerConnectFails, ClearHandle, ReportIdle
    <3> QED BY <3>1
  <2> QED BY <2>1, GoneIsTruthful
<1>5. CASE CheckStop(w) \/ TakeRearm(w)
  <2>1. \E pc \in {"finish", "rearm", "tick"} : worker'[w] = [worker[w] EXCEPT !.pc = pc]
    BY <1>2, <1>5 DEF CheckStop, TakeRearm
  <2>2. state' = state /\ worker[w].pc \in {"loop", "rearm"}
    BY <1>5 DEF CheckStop, TakeRearm, WorkerAt
  <2> QED BY <1>1, <2>1, <2>2 DEF Truthful, LateIdle
<1>6. CASE WorkerTick(w) \/ WorkerDial(w)
  <2>1. state' = state /\ worker[w].pc \in {"tick", "dial"}
    BY <1>6 DEF WorkerTick, WorkerDial, WorkerAt
  <2>2. WorkerGoto(w, "dial")
        \/ worker' = [worker EXCEPT ![w].pc = "compare", ![w].seen = core']
    <3>1. CASE WorkerTick(w)
      <4>1. CASE core # "Reconnecting" /\ UNCHANGED <<core, link>> /\ Saw(w, core)
        <5>1. core' = core /\ worker' = [worker EXCEPT ![w].pc = "compare", ![w].seen = core]
          BY <4>1 DEF Saw
        <5> QED BY <5>1
      <4>2. CASE WorkerGoto(w, "dial")
        BY <4>2
      <4> QED BY <3>1, <4>1, <4>2 DEF WorkerTick
    <3>2. CASE WorkerDial(w)
      BY <3>2 DEF WorkerDial, Saw
    <3> QED BY <1>6, <3>1, <3>2
  <2>3. CASE WorkerGoto(w, "dial")
    <3>1. worker'[w] = [worker[w] EXCEPT !.pc = "dial"]
      BY <1>2, <2>3
    <3> QED BY <1>1, <2>1, <3>1 DEF Truthful, LateIdle
  <2>4. CASE worker' = [worker EXCEPT ![w].pc = "compare", ![w].seen = core']
    <3>1. worker'[w] = [worker[w] EXCEPT !.pc = "compare", !.seen = core']
      BY <2>4
    <3>2. /\ worker'[w].pc = "compare" /\ worker'[w].seen = core'
          /\ worker'[w].last = worker[w].last
      BY <3>1
    <3> QED BY <1>1, <2>1, <3>2 DEF Truthful, LateIdle
  <2> QED BY <2>2, <2>3, <2>4
<1>7. CASE Compare(w)
  <2>1. worker[w].pc = "compare" /\ core' = core /\ core = worker[w].seen
        /\ (state = Reported(worker[w].last) \/ LateIdle(w))
    BY <1>1, <1>7 DEF Compare, WorkerAt, Truthful
  <2>2. CASE worker[w].seen = worker[w].last
    <3>1. worker'[w] = [worker[w] EXCEPT !.pc = "loop"] /\ state' = state
      BY <1>2, <1>7, <2>2 DEF Compare
    <3> QED BY <2>1, <2>2, <3>1 DEF Truthful, LateIdle
  <2>3. CASE worker[w].seen # worker[w].last
    <3>1. CASE worker[w].seen \in {"Finished", "Idle"}
      <4>1. worker' = [worker EXCEPT ![w].last = worker[w].seen, ![w].pc = "finish"]
        BY <1>7, <2>3, <3>1 DEF Compare
      <4>2. worker'[w].pc = "finish"
        BY <4>1
      <4> QED BY <4>2 DEF Truthful, LateIdle
    <3>2. CASE worker[w].seen \notin {"Finished", "Idle"}
      <4>1. worker' = [worker EXCEPT ![w].last = worker[w].seen, ![w].pc = "loop"]
            /\ state' = Reported(worker[w].seen)
        BY <1>7, <2>3, <3>2 DEF Compare
      <4>2. worker'[w].pc = "loop" /\ worker'[w].last = worker[w].seen
        BY <4>1
      <4> QED BY <2>1, <4>1, <4>2 DEF Truthful, LateIdle, Reported
    <3> QED BY <3>1, <3>2
  <2> QED BY <2>2, <2>3
<1>8. CASE WorkerFinish(w) \/ WorkerFinished(w) \/ ReportStopped(w)
  <2>1. \E pc \in {"closed", "report stopped", "exited"} : worker'[w] = [worker[w] EXCEPT !.pc = pc]
    BY <1>2, <1>8 DEF WorkerFinish, WorkerFinished, ReportStopped
  <2> QED BY <2>1 DEF Truthful, LateIdle
<1> QED BY <1>3, <1>4, <1>5, <1>6, <1>7, <1>8 DEF WorkerStep

\* Workers only ever leave the active ones by their own steps.
LEMMA ActiveShrinks ==
  ASSUME TypeInv, NEW w \in Workers, WorkerStep(w)
  PROVE  Active' \subseteq Active
<1>1. (w \in Active \/ worker[w].pc = "report idle")
      /\ \A v \in Workers : v # w => worker'[v] = worker[v]
  BY WorkerFrame
<1>2. w \in Active \/ w \notin Active'
  <2>1. CASE worker[w].pc = "report idle"
    <3>1. ReportIdle(w)
      BY <2>1 DEF WorkerAt, WorkerStep, WorkerConnects, WorkerConnectFails, ClearHandle,
             ReportLive, CheckStop, TakeRearm, WorkerTick, WorkerDial, Compare, WorkerFinish,
             WorkerFinished, ReportStopped
    <3> QED BY <3>1 DEF ReportIdle, WorkerGoto, Active, Gone, TypeInv
  <2> QED BY <1>1, <2>1
<1>3. \A v \in Workers : v # w => worker'[v] = worker[v]
  BY WorkerFrame
<1> QED BY <1>2, <1>3 DEF Active

\* The reports of the other workers outlive a step of w: the active one's is
\* disturbed by none but a late Idle.
LEMMA TruthOfOthers ==
  ASSUME TypeInv, OwnedInv, TruthInv, OneController, NEW w \in Workers, WorkerStep(w),
         NEW v \in Workers, v # w
  PROVE  Truthful(v)'
<1>1. worker'[v] = worker[v] /\ (w \in Active \/ worker[w].pc = "report idle")
  BY WorkerFrame
<1>2. CASE v \notin Active
  <2>1. worker'[v].pc \in {"none", "report idle", "exited"}
    BY <1>1, <1>2 DEF Active, Gone
  <2> QED BY <2>1, GoneIsTruthful
<1>3. CASE v \in Active
  <2>1. worker[w].pc = "report idle"
    BY <1>1, <1>3, AtMostOneActive
  <2>2. ReportIdle(w)
    BY <2>1 DEF WorkerAt, WorkerStep, WorkerConnects, WorkerConnectFails, ClearHandle,
           ReportLive, CheckStop, TakeRearm, WorkerTick, WorkerDial, Compare, WorkerFinish,
           WorkerFinished, ReportStopped
  <2>3. core' = core /\ state' = "Idle"
    BY <2>2 DEF ReportIdle
  <2>4. ConnectMayFail /\ w < v
    BY <1>3, <2>1 DEF TruthInv, Failed
  <2>5. v > 1
    BY <2>4, MaxSpawnAssumption DEF Workers
  <2>6. LateIdle(v)'
    BY <2>3, <2>4, <2>5 DEF LateIdle
  <2>7. Truthful(v)
    BY DEF TruthInv
  <2> QED BY <1>1, <2>3, <2>6, <2>7 DEF Truthful
<1> QED BY <1>2, <1>3

\* A step of a worker keeps every report truthful.
LEMMA TruthWorkerStep ==
  ASSUME TypeInv, OwnedInv, TruthInv, OneController,
         NEW w \in Workers, WorkerStep(w)
  PROVE  TruthInv'
<1>1. \A v \in Workers : v # w => worker'[v] = worker[v]
  BY WorkerFrame
<1>2. \A v \in Workers : Truthful(v)'
  BY TruthOfOthers, TruthOwnStep
<1>3. ASSUME NEW v \in Workers, Failed(v)' PROVE ConnectMayFail
  <2>1. CASE v # w
    BY <1>1, <1>3, <2>1 DEF Failed, TruthInv
  <2>2. CASE v = w
    <3>1. CASE WorkerConnectFails(w)
      BY <3>1 DEF WorkerConnectFails
    <3>2. CASE ClearHandle(w)
      BY <3>2 DEF ClearHandle, WorkerAt, Failed, TruthInv
    <3>3. CASE ~WorkerConnectFails(w) /\ ~ClearHandle(w)
      BY <1>3, <2>2, <3>3, StepsOnly DEF Failed
    <3> QED BY <3>1, <3>2, <3>3
  <2> QED BY <2>1, <2>2
<1>4. ASSUME NEW v \in Workers, NEW u \in Workers, worker'[v].pc = "report idle", u \in Active'
      PROVE  v < u
  <2>1. u \in Active
    BY <1>4, ActiveShrinks
  <2>2. CASE v # w
    BY <1>1, <1>4, <2>1, <2>2 DEF TruthInv
  <2>3. CASE v = w
    <3>1. ClearHandle(w)
      BY <1>4, <2>3, StepsOnly DEF WorkerAt
    <3>2. w \in Active
      BY <3>1 DEF ClearHandle, WorkerAt, Active, Gone
    <3>3. u = w /\ w \notin Active'
      BY <1>4, <2>1, <2>3, <3>2, AtMostOneActive DEF Active, Gone
    <3> QED BY <1>4, <3>3
  <2> QED BY <2>2, <2>3
<1> QED BY <1>2, <1>3, <1>4 DEF TruthInv

\* The app's steps change neither the session nor, but for the announcement
\* of a worker when there is none, the report.
LEMMA TruthAppStep ==
  ASSUME TypeInv, OwnedInv, TruthInv, NEW a \in Apps,
         CallStart(a) \/ CallRetry(a) \/ CallStop(a) \/ AppStep(a)
  PROVE  TruthInv'
<1>1. CASE Announce(a)
  <2>1. worker' = worker /\ Active = {}
    BY <1>1 DEF Announce, At, OwnedInv
  <2>2. \A w \in Workers : worker[w].pc \in {"none", "report idle", "exited"}
    BY <2>1 DEF Active, Gone
  <2>3. \A w \in Workers : Truthful(w)'
    BY <2>1, <2>2, GoneIsTruthful
  <2> QED BY <2>1, <2>3 DEF TruthInv, Failed, Active
<1>2. CASE Spawn(a)
  <2> DEFINE n == spawned + 1
  <2>1. n \in Workers /\ worker' = [worker EXCEPT ![n].pc = "connect"] /\ UNCHANGED <<core, state>>
    BY <1>2, MaxSpawnAssumption DEF Spawn, Workers, TypeInv
  <2>2. \A v \in Workers : v > spawned \/ v < n
    BY DEF TypeInv, Workers
  <2>3. worker[n] = Unborn
    BY <2>1 DEF OwnedInv, TypeInv
  <2>4. worker'[n].pc = "connect" /\ worker'[n].last = "Connected"
    BY <2>1, <2>3 DEF TypeInv, Unborn
  <2>5. \A w \in Workers : w # n => worker'[w] = worker[w]
    BY <2>1 DEF TypeInv
  <2>6. Active = {}
    BY <1>2 DEF Spawn, At, OwnedInv
  <2> HIDE DEF n
  <2>7. ASSUME NEW w \in Workers PROVE Truthful(w)'
    <3>1. CASE w = n
      BY <2>4, <3>1 DEF Truthful
    <3>2. CASE w # n
      <4>1. worker'[w].pc \in {"none", "report idle", "exited"}
        BY <2>5, <2>6, <3>2 DEF Active, Gone
      <4> QED BY <4>1, GoneIsTruthful
    <3> QED BY <3>1, <3>2
  <2>8. \A w \in Workers : Failed(w)' => ConnectMayFail
    BY <2>4, <2>5 DEF Failed, TruthInv
  <2>9. ASSUME NEW v \in Workers, NEW u \in Workers, worker'[v].pc = "report idle", u \in Active'
        PROVE  v < u
    <3>1. v # n /\ worker[v].pc = "report idle"
      BY <2>4, <2>5, <2>9
    <3>2. ~(v > spawned)
      <4> SUFFICES ASSUME v > spawned PROVE FALSE
        OBVIOUS
      <4>1. worker[v] = Unborn
        BY DEF OwnedInv
      <4> QED BY <3>1, <4>1 DEF Unborn
    <3>3. u = n
      BY <2>5, <2>6, <2>9 DEF Active
    <3> QED BY <2>2, <3>2, <3>3
  <2> QED BY <2>7, <2>8, <2>9 DEF TruthInv
<1>3. CASE ~Announce(a) /\ ~Spawn(a)
  <2>1. core' = core /\ state' = state /\ worker' = worker
    BY <1>3 DEF CallStart, CallRetry, CallStop, AppStep, CheckStopped, RetryOrRelaunch,
                SpawnFails, StoreHandle, TakeHandle, Join
  <2> QED BY <2>1 DEF TruthInv, Truthful, LateIdle, Failed, Active
<1> QED BY <1>1, <1>2, <1>3

\* The reports are truthful of a new object, and after every step.
LEMMA TruthInit ==
  ASSUME Init
  PROVE  TruthInv
<1>1. \A w \in Workers : worker[w].pc = "none"
  BY DEF Init
<1> QED BY <1>1 DEF TruthInv, Truthful, Failed

\* Every step keeps them so.
LEMMA TruthStep ==
  ASSUME TypeInv, OwnedInv, TruthInv, OneController, [Next]_vars
  PROVE  TruthInv'
<1>1. CASE DropSession \/ UNCHANGED vars
  <2>1. core' = core /\ state' = state /\ worker' = worker
    BY <1>1 DEF DropSession, vars
  <2> QED BY <2>1 DEF TruthInv, Truthful, LateIdle, Failed, Active
<1> QED BY <1>1, TruthAppStep, TruthWorkerStep DEF Next

\* With one thread in control, whatever fails to connect and whoever follows,
\* the app is told the truth: when a worker has been through its loop, the
\* state reported is that of the core session, or the Idle of an earlier worker
\* that came late (run_worker's last_core comparison and its failure path,
\* against the reports of start and retry).
THEOREM FfiStateTruthful ==
  ASSUME OneController
  PROVE  Spec => []StateTruthful
<1> DEFINE Inv == TypeInv /\ OwnedInv /\ TruthInv
<1>1. Init => Inv
  BY TruthInit, TypeInit, OwnedInit
<1>2. Inv /\ [Next]_vars => Inv'
  BY TruthStep, TypeStep, OwnedStep
<1>3. Inv => StateTruthful
  BY DEF TruthInv, Truthful, StateTruthful
<1> HIDE DEF Inv
<1> QED BY <1>1, <1>2, <1>3, PTL DEF Spec

-----------------------------------------------------------------------------
(***************************************************************************)
(* The lifecycle of the core session.                                      *)
(***************************************************************************)
\* The worker that has connected the core session and not yet ended it.
Driving == {w \in Workers : worker[w].pc \in
             {"live", "loop", "rearm", "tick", "dial", "compare", "finish", "closed"}}

\* What a worker's successor finds: a session never connected, or one that
\* stop() has had ended, or that failed to end.
Settled == core = "Idle" \/ (stop /\ core \in {"Finished", "Connected"})

\* A worker goes round its loop on a session that is under way, and leaves it
\* only because stop was set.
Drives(w) ==
  /\ worker[w].pc \in {"loop", "rearm", "tick", "dial", "compare", "finish", "closed"} =>
       core \in {"Connected", "Reconnecting", "Exhausted"}
  /\ worker[w].pc \in {"finish", "closed"} => stop
  /\ worker[w].pc = "closed" => core = "Connected"

DriveInv ==
  /\ Driving = {} => Settled
  /\ \A w \in Workers : Drives(w)

LifeInv == TypeInv /\ OwnedInv /\ TruthInv /\ DriveInv

\* An active worker that does not drive the session finds it settled.
LEMMA NobodyDrives ==
  ASSUME LifeInv, OneController, NEW w \in Active, w \notin Driving
  PROVE  Settled
<1>1. Driving \subseteq Active
  BY DEF Driving, Active, Gone
<1>2. Driving = {}
  BY <1>1, AtMostOneActive DEF LifeInv
<1> QED BY <1>2 DEF LifeInv, DriveInv

\* An active worker's own step: it drives on, or leaves the session settled.
LEMMA DriveOwnStep ==
  ASSUME LifeInv, OneController, NEW w \in Workers, w \in Active, WorkerStep(w)
  PROVE  Drives(w)' /\ (w \in Driving' \/ Settled')
<1> USE DEF LifeInv, TypeInv, WorkerAt
<1>1. Drives(w) /\ Truthful(w) /\ stop' = stop
  BY DEF DriveInv, TruthInv, WorkerStep, WorkerConnects, WorkerConnectFails, ClearHandle,
         ReportIdle, ReportLive, CheckStop, TakeRearm, WorkerTick, WorkerDial, Compare,
         WorkerFinish, WorkerFinished, ReportStopped
<1>2. \A pc : WorkerGoto(w, pc) => worker'[w].pc = pc
  BY DEF WorkerGoto
<1>3. \A c : Saw(w, c) => worker'[w].pc = "compare"
  BY DEF Saw
<1>4. CASE WorkerConnects(w) \/ ReportLive(w)
  <2>1. worker'[w].pc \in {"live", "loop"} /\ (worker'[w].pc = "loop" => core' = "Connected")
    BY <1>1, <1>2, <1>4 DEF WorkerConnects, ReportLive, Truthful
  <2> QED BY <2>1 DEF Drives, Driving
<1>5. CASE WorkerConnectFails(w) \/ ClearHandle(w) \/ ReportStopped(w)
  <2>1. worker[w].pc \in {"connect", "clear", "report stopped"} /\ core' = core
        /\ worker'[w].pc \in {"clear", "report idle", "exited"}
    BY <1>2, <1>5 DEF WorkerConnectFails, ClearHandle, ReportStopped
  <2>2. Settled
    BY <2>1, NobodyDrives DEF Driving
  <2> QED BY <1>1, <2>1, <2>2 DEF Drives, Settled
<1>6. CASE CheckStop(w)
  <2>1. core' = core /\ worker[w].pc = "loop" /\ worker'[w].pc \in {"finish", "rearm"}
        /\ (worker'[w].pc = "finish" => stop)
    <3>1. CASE stop
      BY <1>2, <1>6, <3>1 DEF CheckStop
    <3>2. CASE ~stop
      BY <1>2, <1>6, <3>2 DEF CheckStop
    <3> QED BY <3>1, <3>2
  <2> QED BY <1>1, <2>1 DEF Drives, Driving
<1>7. CASE TakeRearm(w) \/ WorkerTick(w) \/ WorkerDial(w)
  <2>1. worker[w].pc \in {"rearm", "tick", "dial"} /\ worker'[w].pc \in {"tick", "dial", "compare"}
    BY <1>2, <1>3, <1>7 DEF TakeRearm, WorkerTick, WorkerDial
  <2>2. core' = core \/ L!Rearm \/ L!Lose \/ L!Resume \/ L!GiveUp
    BY <1>7 DEF TakeRearm, WorkerTick, WorkerDial
  <2>3. core' \in {"Connected", "Reconnecting", "Exhausted"}
    BY <1>1, <2>1, <2>2 DEF Drives, L!Rearm, L!Lose, L!Resume, L!GiveUp, L!Move
  <2> QED BY <2>1, <2>3 DEF Drives, Driving
<1>8. CASE Compare(w)
  <2>1. core' = core /\ worker[w].pc = "compare"
        /\ worker[w].seen \in {"Connected", "Reconnecting", "Exhausted"}
    BY <1>1, <1>8 DEF Compare, Drives, Truthful
  <2>2. worker'[w].pc = "loop"
    <3>1. CASE worker[w].seen = worker[w].last
      BY <1>2, <1>8, <3>1 DEF Compare
    <3>2. CASE worker[w].seen # worker[w].last
      <4>1. worker' = [worker EXCEPT ![w].last = worker[w].seen, ![w].pc = "loop"]
        BY <1>8, <2>1, <3>2 DEF Compare
      <4> QED BY <4>1
    <3> QED BY <3>1, <3>2
  <2> QED BY <1>1, <2>1, <2>2 DEF Drives, Driving
<1>9. CASE WorkerFinish(w) \/ WorkerFinished(w)
  <2>1. stop /\ worker[w].pc \in {"finish", "closed"}
    BY <1>1, <1>9 DEF WorkerFinish, WorkerFinished, Drives
  <2>2. \/ worker'[w].pc = "closed" /\ core' = "Connected"
        \/ worker'[w].pc = "report stopped" /\ core' \in {"Finished", "Connected"}
    BY <1>1, <1>2, <1>9 DEF WorkerFinish, WorkerFinished, Drives, L!Close, L!End
  <2> QED BY <1>1, <2>1, <2>2 DEF Drives, Driving, Settled
<1>10. CASE ReportIdle(w)
  BY <1>10 DEF ReportIdle, Active, Gone
<1> QED BY <1>4, <1>5, <1>6, <1>7, <1>8, <1>9, <1>10 DEF WorkerStep

\* Every step of a worker leaves the session driven or settled.
LEMMA DriveWorkerStep ==
  ASSUME LifeInv, OneController, NEW w \in Workers, WorkerStep(w)
  PROVE  DriveInv'
<1>1. (w \in Active \/ worker[w].pc = "report idle")
      /\ \A v \in Workers : v # w => worker'[v] = worker[v]
  BY WorkerFrame DEF LifeInv
<1>2. CASE w \in Active
  <2>1. Drives(w)' /\ (w \in Driving' \/ Settled')
    BY <1>2, DriveOwnStep
  <2>2. ASSUME NEW v \in Workers, v # w PROVE Drives(v)'
    <3>1. v \notin Active
      BY <1>2, <2>2, AtMostOneActive DEF LifeInv
    <3>2. worker'[v].pc \in Gone
      BY <1>1, <2>2, <3>1 DEF Active
    <3> QED BY <3>2 DEF Gone, Drives
  <2> QED BY <2>1, <2>2 DEF DriveInv
<1>3. CASE worker[w].pc = "report idle"
  <2>1. ReportIdle(w)
    BY <1>3 DEF WorkerAt, WorkerStep, WorkerConnects, WorkerConnectFails, ClearHandle,
           ReportLive, CheckStop, TakeRearm, WorkerTick, WorkerDial, Compare, WorkerFinish,
           WorkerFinished, ReportStopped
  <2>2. core' = core /\ stop' = stop /\ worker'[w].pc = "exited"
    BY <2>1 DEF ReportIdle, WorkerGoto, LifeInv, TypeInv
  <2>3. Driving' = Driving
    BY <1>1, <1>3, <2>2 DEF Driving
  <2>4. \A v \in Workers : Drives(v)'
    BY <1>1, <2>2 DEF Drives, LifeInv, DriveInv
  <2> QED BY <2>2, <2>3, <2>4 DEF DriveInv, LifeInv, Settled
<1> QED BY <1>1, <1>2, <1>3

\* The app's steps leave the session alone and never take stop back.
LEMMA DriveAppStep ==
  ASSUME LifeInv, NEW a \in Apps,
         CallStart(a) \/ CallRetry(a) \/ CallStop(a) \/ AppStep(a)
  PROVE  DriveInv'
<1>1. core' = core /\ (stop' = stop \/ stop' = TRUE)
  BY DEF CallStart, CallRetry, CallStop, AppStep, CheckStopped, RetryOrRelaunch, Announce,
         Spawn, SpawnFails, StoreHandle, TakeHandle, Join
<1>2. \A w \in Workers : worker'[w] = worker[w]
                          \/ (worker'[w].pc = "connect" /\ worker[w].pc = "none")
  <2>1. CASE Spawn(a)
    <3> DEFINE n == spawned + 1
    <3>1. n \in Workers /\ worker' = [worker EXCEPT ![n].pc = "connect"] /\ n > spawned
      BY <2>1, MaxSpawnAssumption DEF Spawn, Workers, LifeInv, TypeInv
    <3>2. worker[n].pc = "none"
      BY <3>1 DEF LifeInv, OwnedInv, Unborn
    <3> HIDE DEF n
    <3>3. worker'[n].pc = "connect" /\ \A w \in Workers : w # n => worker'[w] = worker[w]
      BY <3>1 DEF LifeInv, TypeInv
    <3> QED BY <3>2, <3>3
  <2>2. CASE ~Spawn(a)
    <3>1. worker' = worker
      BY <2>2 DEF CallStart, CallRetry, CallStop, AppStep, CheckStopped, RetryOrRelaunch, Announce,
             SpawnFails, StoreHandle, TakeHandle, Join
    <3> QED BY <3>1
  <2> QED BY <2>1, <2>2
<1>3. Driving' = Driving
  BY <1>2 DEF Driving
<1>4. \A w \in Workers : Drives(w)'
  BY <1>1, <1>2 DEF Drives, LifeInv, DriveInv
<1> QED BY <1>1, <1>3, <1>4 DEF LifeInv, DriveInv, Settled

\* Every step of a worker is a step of the lifecycle, revives what stop() had
\* ended, or leaves the session alone.
LEMMA WorkerKeepsLifecycle ==
  ASSUME LifeInv, OneController, NEW w \in Workers, WorkerStep(w)
  PROVE  [L!LifecycleNext \/ Revived]_<<core, link>>
<1>1. CASE WorkerConnects(w)
  <2>1. worker[w].pc = "connect" /\ core' = "Connected" /\ link' = TRUE
    BY <1>1 DEF WorkerConnects, WorkerAt
  <2>2. Settled
    BY <2>1, NobodyDrives DEF Active, Gone, Driving
  <2> QED BY <2>1, <2>2 DEF Settled, Revived, L!LifecycleNext, L!GoLive, L!Move
<1>2. CASE ~WorkerConnects(w)
  <2>1. L!Rearm \/ L!Lose \/ L!Resume \/ L!GiveUp \/ L!Close \/ L!End \/ UNCHANGED <<core, link>>
    BY <1>2 DEF WorkerStep, WorkerConnectFails, ClearHandle,
             ReportIdle, ReportLive, CheckStop, TakeRearm, WorkerTick, WorkerDial, Compare,
             WorkerFinish, WorkerFinished, ReportStopped
  <2> QED BY <2>1 DEF L!LifecycleNext
<1> QED BY <1>1, <1>2

\* With one thread in control, whatever any other stops and whatever fails to
\* connect, the core session keeps its lifecycle under all the workers launched
\* one after another: connected once, lost and resumed, exhausted and re-armed,
\* ended; and only while stop stands is a session connected that was ended.
\* (start and retry, which ask whether the session is stopped before they look
\* for a worker, against stop() and the end of run_worker.)
THEOREM FfiLifecycleOrRevived ==
  ASSUME OneController
  PROVE  Spec => LifecycleOrRevived
<1>1. Init => LifeInv /\ L!LifecycleInit
  <2> SUFFICES ASSUME Init PROVE DriveInv
    BY TypeInit, OwnedInit, TruthInit DEF Init, LifeInv
  <2>1. \A w \in Workers : worker[w].pc = "none"
    BY DEF Init
  <2> QED BY <2>1 DEF DriveInv, Drives, Driving, Settled, Init, L!LifecycleInit
<1>2. LifeInv /\ [Next]_vars => LifeInv'
  <2>1. ASSUME LifeInv, [Next]_vars PROVE DriveInv'
    <3>1. CASE DropSession \/ UNCHANGED vars
      <4>1. core' = core /\ worker' = worker /\ (stop' = stop \/ stop' = TRUE)
        BY <3>1 DEF DropSession, vars
      <4> QED BY <2>1, <4>1 DEF LifeInv, DriveInv, Drives, Driving, Settled
    <3> QED BY <2>1, <3>1, DriveAppStep, DriveWorkerStep DEF Next
  <2> QED BY <2>1, TypeStep, OwnedStep, TruthStep DEF LifeInv
<1>3. LifeInv /\ [Next]_vars => [L!LifecycleNext \/ Revived]_<<core, link>>
  <2>1. \A a \in Apps : CallStart(a) \/ CallRetry(a) \/ CallStop(a) \/ AppStep(a)
                          => UNCHANGED <<core, link>>
    BY DEF CallStart, CallRetry, CallStop, AppStep, CheckStopped, RetryOrRelaunch, Announce,
           Spawn, SpawnFails, StoreHandle, TakeHandle, Join
  <2>2. DropSession \/ UNCHANGED vars => UNCHANGED <<core, link>>
    BY DEF DropSession, vars
  <2> QED BY <2>1, <2>2, WorkerKeepsLifecycle DEF Next
<1> QED BY <1>1, <1>2, <1>3, PTL DEF Spec, LifecycleOrRevived
=============================================================================
