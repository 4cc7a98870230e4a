------------------------------- MODULE Session -----------------------------
(***************************************************************************)
(* The resilient session of src/core/src/session.rs driving an Engine:     *)
(* connect, stream, detect a dead transport, back off, re-dial, resume.    *)
(*                                                                         *)
(* Session methods take &mut self, so at most one runs at a time; `step`   *)
(* says how far the running one has got.  The engine is shared: between    *)
(* two engine calls of one Session::tick the encoder threads may push, and *)
(* that is why tick is split where it returns from, or calls into, the     *)
(* engine.  Time is abstract: a scheduled attempt is "armed" until its     *)
(* delay has passed, then "due".                                           *)
(***************************************************************************)
EXTENDS Engine

CONSTANTS
  MaxAttempts,  \* ReconnectPolicy.max_attempts
  CanStall      \* does the transport report progress (stall detection)?

ASSUME MaxAttemptsAssumption == MaxAttempts \in Nat \ {0}
ASSUME CanStallAssumption == CanStall \in BOOLEAN
ASSUME NoAttemptAssumption == None \notin {"armed", "due"}

VARIABLES
  state,         \* Session.state
  attempt,       \* Session.attempt
  next_attempt,  \* Session.next_attempt_at: None, "armed" or "due"
  reconnects,    \* Session.reconnects
  step           \* how far the running Session method is; "none" when none runs

sessionVars == <<state, attempt, next_attempt, reconnects, step>>
vars == <<engineVars, sessionVars>>

Init ==
  /\ EngineInit
  /\ state = "Idle"
  /\ attempt = 0 /\ next_attempt = None /\ reconnects = 0
  /\ step = "none"

\* start: one attempt, no retry; a failed dial leaves the session as it was.
\* The code checks no state, so a program may start a session again.
Start ==
  /\ step = "none"
  /\ state = "Idle" \/ "restart" \in ApiCalls
  /\ AttachTransport
  /\ state' = "Connected"
  /\ UNCHANGED <<attempt, next_attempt, reconnects, step>>

\* tick while connected: the stall check, then engine.tick().
TickStalled ==
  /\ step = "none" /\ state = "Connected"
  /\ CanStall /\ muxer # None
  /\ step' = "disconnect"
  /\ UNCHANGED <<engineVars, state, attempt, next_attempt, reconnects>>

TickConnected ==
  /\ step = "none" /\ state = "Connected"
  /\ TickBegin \/ TickMaintainFails \/ TickNoTransport
  /\ step' = "ticking"
  /\ UNCHANGED <<state, attempt, next_attempt, reconnects>>

\* Mutant: the engine's error is swallowed.
TickReturnsMutant ==
  /\ step = "ticking" /\ Unlocked
  /\ step' = "none"
  /\ UNCHANGED <<engineVars, state, attempt, next_attempt, reconnects>>

TickReturns ==
  /\ step = "ticking" /\ Unlocked
  /\ step' = IF outcome = "ok" THEN "none" ELSE "disconnect"
  /\ UNCHANGED <<engineVars, state, attempt, next_attempt, reconnects>>

\* disconnect(), and on to reconnect_phase() in the same tick.
Disconnect ==
  /\ step = "disconnect"
  /\ DetachTransport
  /\ state' = "Reconnecting"
  /\ attempt' = 0 /\ next_attempt' = None
  /\ step' = "reconnect"
  /\ UNCHANGED reconnects

\* reconnect_phase is reached from a disconnect, or by a tick that finds the
\* session reconnecting; it dials unless the backoff is still running.

\* Mutant: without a schedule there is no dialling.
MayDialMutant ==
  /\ step = "reconnect" \/ (step = "none" /\ state = "Reconnecting")
  /\ next_attempt = "due"

MayDial ==
  /\ step = "reconnect" \/ (step = "none" /\ state = "Reconnecting")
  /\ next_attempt # "armed"

\* Mutant: the failures of the last outage go on counting.
ReconnectMutant ==
  /\ MayDial
  /\ AttachTransport
  /\ state' = "Connected"
  /\ next_attempt' = None
  /\ reconnects' = reconnects + 1
  /\ step' = "resume"
  /\ UNCHANGED attempt

Reconnect ==
  /\ MayDial
  /\ AttachTransport
  /\ state' = "Connected"
  /\ attempt' = 0 /\ next_attempt' = None
  /\ reconnects' = reconnects + 1
  /\ step' = "resume"

\* Mutant: a failure is scheduled again but not counted.
ConnectFailsUncounted ==
  /\ MayDial
  /\ next_attempt' = "armed"
  /\ step' = "none"
  /\ UNCHANGED <<engineVars, state, attempt, reconnects>>

ConnectFails ==
  /\ MayDial
  /\ attempt' = attempt + 1
  /\ IF attempt' >= MaxAttempts
     THEN state' = "Exhausted" /\ UNCHANGED next_attempt
     ELSE next_attempt' = "armed" /\ UNCHANGED state
  /\ step' = "none"
  /\ UNCHANGED <<engineVars, reconnects>>

\* The immediate engine.tick() of reconnect_phase; its error is returned to
\* the caller while the session stays Connected.
ResumeTick ==
  /\ step = "resume"
  /\ TickBegin \/ TickMaintainFails \/ TickNoTransport
  /\ step' = "resuming"
  /\ UNCHANGED <<state, attempt, next_attempt, reconnects>>

ResumeReturns ==
  /\ step = "resuming" /\ Unlocked
  /\ step' = "none"
  /\ UNCHANGED <<engineVars, state, attempt, next_attempt, reconnects>>

\* The scheduled instant passes.
BackoffElapses ==
  /\ next_attempt = "armed"
  /\ next_attempt' = "due"
  /\ UNCHANGED <<engineVars, state, attempt, reconnects, step>>

\* Mutant: re-arms in every state.
RetryMutant ==
  /\ step = "none"
  /\ state' = "Reconnecting"
  /\ attempt' = 0 /\ next_attempt' = None
  /\ UNCHANGED <<engineVars, reconnects, step>>

Retry ==
  /\ step = "none" /\ state = "Exhausted"
  /\ state' = "Reconnecting"
  /\ attempt' = 0 /\ next_attempt' = None
  /\ UNCHANGED <<engineVars, reconnects, step>>

\* finish: through the engine when connected, else the buffer is abandoned.
FinishConnected ==
  /\ step = "none" /\ state = "Connected"
  /\ FinishBegin \/ FinishNoTransport
  /\ step' = "finishing"
  /\ UNCHANGED <<state, attempt, next_attempt, reconnects>>

\* Mutant: finished, whatever the engine said.
FinishReturnsMutant ==
  /\ step = "finishing" /\ Unlocked
  /\ step' = "none"
  /\ state' = "Finished"
  /\ UNCHANGED <<engineVars, attempt, next_attempt, reconnects>>

FinishReturns ==
  /\ step = "finishing" /\ Unlocked
  /\ step' = "none"
  /\ state' = IF outcome = "ok" THEN "Finished" ELSE state
  /\ UNCHANGED <<engineVars, attempt, next_attempt, reconnects>>

FinishDisconnected ==
  /\ step = "none" /\ state # "Connected"
  /\ state' = "Finished"
  /\ UNCHANGED <<engineVars, attempt, next_attempt, reconnects, step>>

\* The engine call in progress advances.
EngineStep ==
  /\ ~Unlocked
  /\ \/ TickHeaders \/ TickHeadersFail \/ TickSend \/ TickNoConfig
     \/ TickSendFails \/ TickFlushFails \/ TickEnd
     \/ FinishSend \/ FinishFails \/ FinishEnd
  /\ UNCHANGED sessionVars

\* Encoder threads and the application, straight on the shared engine.
Application ==
  /\ PushCall \/ OptionalCalls
  /\ UNCHANGED sessionVars

\* One call of Session::tick, step by step.
Pump == \/ TickStalled \/ TickConnected \/ TickReturns \/ Disconnect
        \/ Reconnect \/ ConnectFails \/ ResumeTick \/ ResumeReturns
        \/ EngineStep

End == FinishConnected \/ FinishReturns \/ FinishDisconnected

Next == Start \/ Pump \/ BackoffElapses \/ Retry \/ End \/ Application

Spec == Init /\ [][Next]_vars

\* The platform's pump loop keeps calling tick, which never sleeps, a finish
\* once called returns, and time passes; start, retry and the call of finish are
\* up to the application.
FairSpec == Spec /\ WF_vars(Pump \/ FinishReturns) /\ WF_vars(BackoffElapses)

-----------------------------------------------------------------------------
(***************************************************************************)
(* Properties.                                                             *)
(***************************************************************************)
SessionTypeOK ==
  /\ TypeOK
  /\ state \in {"Idle", "Connected", "Reconnecting", "Exhausted", "Finished"}
  /\ attempt \in 0..MaxAttempts
  /\ next_attempt \in {None, "armed", "due"}
  /\ reconnects \in 0..MaxConn
  /\ step \in {"none", "ticking", "disconnect", "reconnect", "resume",
               "resuming", "finishing"}

\* The session implements the abstract lifecycle, its transport being the link.
L == INSTANCE Lifecycle WITH core <- state, link <- (muxer # None)
ImplementsLifecycle == L!LifecycleSpec

\* The session and the engine agree on whether there is a transport: exactly
\* while Connected, except that a finish may have closed it without the
\* session being told (FinishReturns still to come, or shutdown() failed).
TransportMatchesState ==
  /\ muxer # None => state = "Connected"
  /\ (state = "Connected" /\ muxer = None) => (step = "finishing" \/ fails > 0)

\* The backoff budget: attempts are counted only while down, the budget is
\* never overrun, and it is exhausted exactly when the session has given up.
BackoffBudget ==
  /\ attempt > 0 => state \in {"Reconnecting", "Exhausted", "Finished"}
  /\ state = "Exhausted" <=> (attempt = MaxAttempts /\ state # "Finished")
  /\ (state = "Reconnecting" /\ step = "none" /\ next_attempt = None) => attempt = 0

\* No metadata and no media follow on a transport that failed a tick: the session
\* drops it first, whatever other threads push, configure or cut meanwhile.  The
\* one exception is the tick by which reconnect_phase resumes.  (The headers that
\* configure_codecs writes by itself are not the session's to hold back.)
BrokenTransportDropped ==
  \A i \in DOMAIN wire : wire[i].type \in Tracks \cup {"script"} =>
    /\ wire[i].torn # "late tick"
    /\ wire[i].torn = "first tick" => wire[i].conn > 1

\* A session that lost its transport is back on the air, has given up, or was
\* ended: backoff timers expire, failures are counted, dialling is not skipped.
ReconnectDecides ==
  state = "Reconnecting" ~> state \in {"Connected", "Exhausted", "Finished"}

\* Connected means that a transport is attached: no call leaves a session that
\* believes itself connected with an engine that silently muxes nothing.
ConnectedHasTransport ==
  (state = "Connected" /\ step = "none") => muxer # None

\* The packets that are buffered, or that the running call may still hand back.
Unwritten == buffer.queue \o Unsent

\* One of them needs a configuration that nobody has: every tick fails on it.
Starved ==
  \E i \in DOMAIN Unwritten : LET p == Unwritten[i] IN
    /\ p.inband = None
    /\ \/ IsKeyframe(p) /\ codecs.avcc = None /\ (muxer # None => muxer.avcc = None)
       \/ p.kind = "audio" /\ codecs.asc = None /\ (muxer # None => muxer.asc = None)

\* What waits while a session is up is sooner or later written or dropped, not
\* drained and handed back for ever: through failures, reconnects and concurrent
\* pushes, unless the session gives up, is ended, has had its transport closed by
\* a finish that failed, or is starved of a configuration, when it re-dials for ever.
BufferDrains ==
  (Unwritten # <<>> /\ state # "Idle")
    ~> \/ Unwritten = <<>> \/ state \in {"Exhausted", "Finished"}
       \/ ~ConnectedHasTransport \/ Starved
=============================================================================
