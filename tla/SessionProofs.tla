---------------------------- MODULE SessionProofs --------------------------
(***************************************************************************)
(* Proofs about module Session: it drives the engine only through the      *)
(* engine's own calls, so it inherits the engine's theorems; and it        *)
(* implements the abstract lifecycle.                                      *)
(***************************************************************************)
EXTENDS Session, WireProofs

\* Whatever a session does, the engine sees one of its calls, or nothing.
LEMMA SessionStep ==
  ASSUME [Next]_vars
  PROVE  [EngineNext]_engineVars
<1>1. CASE Start \/ Disconnect \/ Reconnect
  BY <1>1 DEF Start, Disconnect, Reconnect, EngineNext
<1>2. CASE TickStalled \/ TickReturns \/ ConnectFails \/ ResumeReturns \/ BackoffElapses
           \/ Retry \/ FinishReturns \/ FinishDisconnected
  BY <1>2 DEF TickStalled, TickReturns, ConnectFails, ResumeReturns, BackoffElapses,
              Retry, FinishReturns, FinishDisconnected
<1>3. CASE TickConnected \/ ResumeTick
  BY <1>3 DEF TickConnected, ResumeTick, EngineNext, Tick
<1>4. CASE FinishConnected
  BY <1>4 DEF FinishConnected, EngineNext, Finish
<1>5. CASE EngineStep
  BY <1>5 DEF EngineStep, EngineNext, Tick, Finish
<1>6. CASE Application
  BY <1>6 DEF Application, EngineNext
<1>7. CASE UNCHANGED vars
  BY <1>7 DEF vars
<1> QED BY <1>1, <1>2, <1>3, <1>4, <1>5, <1>6, <1>7 DEF Next, Pump, End

\* A session is a behaviour of the engine.
THEOREM SessionDrivesEngine == Spec => EngineSpec
<1>1. Init => EngineInit
  BY DEF Init
<1>2. [Next]_vars => [EngineNext]_engineVars
  BY SessionStep
<1> QED BY <1>1, <1>2, PTL DEF Spec, EngineSpec

\* Streaming, disconnecting, resuming and ending: the queue and the batch in
\* flight never hold more than the packet budget.
THEOREM SessionBoundedMemory == Spec => []BoundedMemory
BY SessionDrivesEngine, EngineBoundedMemory, PTL

\* Across any number of reconnects every packet pushed is accounted for.
THEOREM SessionAccounting == Spec => []Accounting
BY SessionDrivesEngine, EngineAccounting, PTL

\* Streaming, losing the transport and resuming, a tick of the session sends no
\* media before the metadata and the configurations the engine holds.
THEOREM SessionTickSendsAfterHeaders == Spec => []TickSendsAfterHeaders
BY SessionDrivesEngine, EngineTickSendsAfterHeaders, PTL

\* On every connection of a session the sequence header precedes the keyframes
\* and the audio that need it.
THEOREM SessionSequenceBeforeMedia == Spec => []SequenceBeforeMedia
BY SessionDrivesEngine, EngineSequenceBeforeMedia, PTL

\* Across the reconnects of a session no track's timestamps go backwards.
THEOREM SessionMediaMonotone == Spec => []MediaMonotone
BY SessionDrivesEngine, EngineMediaMonotone, PTL

\* The recordings and fan-outs fed beside a session hold what it put on the wire.
THEOREM SessionOutputsMirrorWire == Spec => []OutputsMirrorWire
BY SessionDrivesEngine, EngineOutputsMirrorWire, PTL

\* When each encoder's clock goes forward, a session sends each track in the
\* order it was encoded, whatever was lost and handed back on the way.
THEOREM SessionDecodeOrder ==
  ASSUME MonotoneClock
  PROVE  Spec => []DecodeOrder
BY SessionDrivesEngine, EngineDecodeOrder, PTL

\* When each encoder's clock goes forward, a resumed session starts on a keyframe.
THEOREM SessionResumesOnKeyframe ==
  ASSUME MonotoneClock
  PROVE  Spec => []ResumesOnKeyframe
BY SessionDrivesEngine, EngineResumesOnKeyframe, PTL

-----------------------------------------------------------------------------
(***************************************************************************)
(* The lifecycle.  Session::start checks no state: a program that starts a *)
(* session twice leaves the lifecycle, and one that resets the engine      *)
(* under a session takes its transport away; hence the assumptions.        *)
(***************************************************************************)
NoRestart == "restart" \notin ApiCalls
NoReset == "reset" \notin ApiCalls

\* Which engine call a session step may have under way, and in which state.
StepInv ==
  /\ state \in {"Idle", "Connected", "Reconnecting", "Exhausted", "Finished"}
  /\ muxer # None => state = "Connected"
  /\ step \in {"none", "ticking", "disconnect", "reconnect", "resume", "resuming",
               "finishing"}
  /\ step \in {"ticking", "disconnect", "resume", "resuming", "finishing"}
       => state = "Connected"
  /\ step = "reconnect" => state = "Reconnecting"
  /\ call \in {"headers", "tick"} => step \in {"ticking", "resuming"}
  /\ call = "finish" => step = "finishing"
  /\ (step = "finishing" /\ call = "none" /\ outcome = "ok") => muxer = None

\* A step of a running engine call keeps the transport, closes it (the end of
\* finish), or ends in an error.
LEMMA EngineStepMuxer ==
  ASSUME BufferInv, MuxInv, StepInv, EngineStep
  PROVE  /\ \/ muxer' # None
            \/ call = "finish" /\ muxer' = None
         /\ call # "none" /\ muxer # None
         /\ \/ call' = call \/ (call = "headers" /\ call' = "tick")
            \/ call' = "none" /\ call # "finish"
            \/ call' = "none" /\ outcome' = "err" /\ (muxer' # None \/ fails' > 0)
            \/ call' = "none" /\ outcome' = "ok" /\ muxer' = None
         /\ UNCHANGED sessionVars
<1> USE DEF Unlocked, Release
<1>1. /\ call # "none" /\ muxer \in MuxerType /\ muxer # None
      /\ call \in {"headers", "tick", "finish"}
  BY NoMuxerAssumption DEF EngineStep, MuxInv
<1>2. MuxInv'
  <2>1. [Next]_vars
    BY DEF Next, Pump
  <2> QED BY <2>1, SessionStep, MuxStep
<1>3. CASE TickHeaders \/ TickSend \/ FinishSend
  <2>1. call' # "none" /\ (call' = call \/ (call = "headers" /\ call' = "tick"))
    BY <1>3 DEF TickHeaders, TickSend, FinishSend
  <2>2. muxer' # None
    BY <1>2, <2>1, NoMuxerAssumption DEF MuxInv
  <2> QED BY <1>1, <2>1, <2>2 DEF EngineStep
<1>4. CASE TickHeadersFail
  <2>1. muxer' \in MuxerType
    BY <1>1, <1>4, InitCodecsType DEF TickHeadersFail, MuxInv, CodecsType
  <2> QED BY <1>1, <1>4, <2>1, NoMuxerAssumption DEF TickHeadersFail, AbortTick, EngineStep
<1>5. CASE TickNoConfig \/ TickFlushFails \/ TickEnd
  BY <1>1, <1>5 DEF TickNoConfig, TickFlushFails, TickEnd, AbortTick, EngineStep
<1>6. CASE TickSendFails
  <2>1. muxer' \in MuxerType
    BY <1>1, <1>6, SendType DEF TickSendFails
  <2> QED BY <1>1, <1>6, <2>1, NoMuxerAssumption DEF TickSendFails, AbortTick, EngineStep
<1>7. CASE FinishFails
  <2>1. muxer' \in MuxerType
    BY <1>1, <1>7, SendType DEF FinishFails
  <2> QED BY <1>1, <1>7, <2>1, NoMuxerAssumption DEF FinishFails, EngineStep
<1>8. CASE FinishEnd
  <2>1. fails \in Nat
    BY BoundsAssumption DEF MuxInv
  <2>2. \/ call' = "none" /\ outcome' = "ok" /\ muxer' = None
        \/ call' = "none" /\ outcome' = "err" /\ fails' > 0 /\ muxer' = None
    BY <1>8, <2>1 DEF FinishEnd, TransportError
  <2> QED BY <1>1, <1>8, <2>2 DEF FinishEnd, EngineStep
<1> QED BY <1>3, <1>4, <1>5, <1>6, <1>7, <1>8 DEF EngineStep

\* The application's calls leave the transport and the running call alone,
\* except that a reset drops the transport.
LEMMA ApplicationMuxer ==
  ASSUME BufferInv, MuxInv, Application
  PROVE  /\ call = "none" /\ call' = "none" /\ outcome' = outcome
         /\ muxer' = None \/ muxer # None
         /\ NoReset => (muxer' = None <=> muxer = None)
         /\ UNCHANGED sessionVars
<1>1. CASE PushCall \/ ResyncCall \/ \E o \in Outputs : AttachOutput(o)
  BY <1>1 DEF Application, PushCall, Push, ResyncCall, AttachOutput, Unlocked
<1>2. CASE ConfigureCall
  <2>1. PICK avcc \in Configs \cup {None}, asc \in Configs \cup {None} :
             ConfigureCodecs(avcc, asc)
    BY <1>2 DEF ConfigureCall
  <2>2. CASE muxer = None
    BY <2>1, <2>2 DEF ConfigureCodecs, Unlocked, Application
  <2>3. CASE muxer # None
    <3>1. muxer \in MuxerType
      BY <2>3 DEF MuxInv
    <3>2. /\ InitCodecs(muxer, avcc, asc) \in MuxerType
          /\ InitCodecs(muxer, None, None) \in MuxerType
          /\ InitCodecs(muxer, avcc, None) \in MuxerType
      BY <3>1, InitCodecsType
    <3>3. \/ muxer' = InitCodecs(muxer, avcc, asc)
          \/ muxer' = InitCodecs(muxer, None, None)
          \/ muxer' = InitCodecs(muxer, avcc, None)
      BY <2>1, <2>3 DEF ConfigureCodecs, NoCodecs
    <3>4. muxer' # None
      BY <3>2, <3>3, NoMuxerAssumption
    <3> QED BY <2>1, <2>3, <3>4 DEF ConfigureCodecs, Unlocked, Application
  <2> QED BY <2>2, <2>3
<1>3. CASE Reset /\ "reset" \in ApiCalls
  BY <1>3 DEF Reset, NoReset, Unlocked, Application
<1> QED BY <1>1, <1>2, <1>3 DEF Application, OptionalCalls

\* Attaching leaves a transport there, detaching none.
LEMMA TransportCalls ==
  ASSUME MuxInv
  PROVE  /\ AttachTransport => muxer' # None /\ call = "none" /\ UNCHANGED <<call, outcome>>
         /\ DetachTransport => muxer' = None /\ call = "none" /\ UNCHANGED <<call, outcome>>
<1>1. ASSUME AttachTransport PROVE muxer' \in MuxerType
  BY <1>1, AttachedMuxerType DEF AttachTransport, MuxInv
<1> QED BY <1>1, NoMuxerAssumption DEF AttachTransport, DetachTransport, Unlocked

\* Every step keeps session method and engine call in step.
LEMMA StepInvStep ==
  ASSUME NoRestart, BufferInv, MuxInv, StepInv, [Next]_vars
  PROVE  StepInv'
<1> USE DEF StepInv, Unlocked
<1>1. CASE Start
  BY <1>1, TransportCalls DEF Start, NoRestart
<1>2. CASE Disconnect
  BY <1>2, TransportCalls DEF Disconnect
<1>3. CASE Reconnect
  BY <1>3, TransportCalls DEF Reconnect, MayDial
<1>4. CASE TickStalled \/ TickReturns \/ ResumeReturns
  <2>1. TickReturns => step' \in {"none", "disconnect"}
    BY DEF TickReturns
  <2> QED BY <1>4, <2>1 DEF TickStalled, TickReturns, ResumeReturns, engineVars
<1>5. CASE TickConnected \/ ResumeTick
  <2>1. /\ step' \in {"ticking", "resuming"} /\ state = "Connected" /\ state' = state
        /\ call' \in {"none", "headers"} /\ muxer' = muxer
    BY <1>5 DEF TickConnected, ResumeTick, TickBegin, TickMaintainFails, TickNoTransport
  <2> QED BY <2>1
<1>6. CASE ConnectFails
  BY <1>6 DEF ConnectFails, MayDial, engineVars
<1>7. CASE BackoffElapses \/ Retry \/ FinishDisconnected
  BY <1>7 DEF BackoffElapses, Retry, FinishDisconnected, engineVars
<1>8. CASE FinishConnected
  <2>1. /\ step' = "finishing" /\ state = "Connected" /\ state' = state /\ muxer' = muxer
        /\ call' = "finish" \/ (call' = "none" /\ muxer = None)
    BY <1>8 DEF FinishConnected, FinishBegin, FinishNoTransport
  <2> QED BY <2>1
<1>9. CASE FinishReturns
  BY <1>9 DEF FinishReturns, engineVars
<1>10. CASE EngineStep
  <2>1. /\ UNCHANGED <<state, step>> /\ state = "Connected"
        /\ call \in {"headers", "tick", "finish"}
    BY <1>10, EngineStepMuxer DEF sessionVars, MuxInv
  <2>2. CASE call' = call \/ (call = "headers" /\ call' = "tick")
    BY <2>1, <2>2
  <2>3. CASE call' = "none" /\ call # "finish"
    BY <2>1, <2>3
  <2>4. CASE call' = "none" /\ outcome' = "err"
    BY <2>1, <2>4
  <2>5. CASE call' = "none" /\ outcome' = "ok" /\ muxer' = None
    BY <2>1, <2>5
  <2> QED BY <1>10, EngineStepMuxer, <2>2, <2>3, <2>4, <2>5
<1>11. CASE Application
  BY <1>11, ApplicationMuxer DEF sessionVars
<1>12. CASE UNCHANGED vars
  BY <1>12 DEF vars, engineVars, sessionVars
<1> QED BY <1>1, <1>2, <1>3, <1>4, <1>5, <1>6, <1>7, <1>8, <1>9, <1>10, <1>11, <1>12
        DEF Next, Pump, End

\* They are when nothing runs.
LEMMA StepInvInit == Init => StepInv
BY DEF Init, EngineInit, StepInv

\* Which engine call runs follows from the session method that runs.
THEOREM SessionInvariant ==
  ASSUME NoRestart
  PROVE  Spec => [](BufferInv /\ MuxInv /\ StepInv)
<1> DEFINE IInv == BufferInv /\ MuxInv /\ StepInv
<1>1. Init => IInv
  BY InitEstablishes, StepInvInit DEF Init
<1>2. IInv /\ [Next]_vars => IInv'
  BY SessionStep, BufferStep, MuxStep, StepInvStep
<1> QED BY <1>1, <1>2, PTL DEF Spec

\* Each step of the session is one of the lifecycle's, or changes neither the
\* state nor the presence of a transport.
LEMMA LifecycleStep ==
  ASSUME NoRestart, BufferInv, MuxInv, StepInv, [Next]_vars
  PROVE  [L!LifecycleNext]_(L!lifecycleVars)
<1> DEFINE link == muxer # None
<1> USE DEF L!LifecycleNext, L!lifecycleVars, L!Move
<1>0. link \in BOOLEAN /\ link' \in BOOLEAN
  OBVIOUS
<1>1. CASE Start
  BY <1>1, TransportCalls DEF Start, NoRestart, L!GoLive
<1>2. CASE Disconnect
  BY <1>2, TransportCalls DEF Disconnect, L!Lose, StepInv
<1>3. CASE Reconnect
  BY <1>3, TransportCalls DEF Reconnect, MayDial, L!Resume, StepInv
<1>4. CASE ConnectFails
  BY <1>4 DEF ConnectFails, MayDial, L!GiveUp, StepInv, engineVars
<1>5. CASE Retry
  BY <1>5 DEF Retry, L!Rearm, engineVars
<1>6. CASE FinishReturns
  BY <1>6 DEF FinishReturns, L!End, StepInv, Unlocked, engineVars
<1>7. CASE FinishDisconnected
  BY <1>7 DEF FinishDisconnected, L!End, StepInv, engineVars
<1>8. CASE TickStalled \/ TickReturns \/ ResumeReturns \/ BackoffElapses
  BY <1>8 DEF TickStalled, TickReturns, ResumeReturns, BackoffElapses, engineVars
<1>9. CASE TickConnected \/ ResumeTick \/ FinishConnected
  BY <1>9 DEF TickConnected, ResumeTick, FinishConnected, TickBegin, TickMaintainFails,
              TickNoTransport, FinishBegin, FinishNoTransport
<1>10. CASE EngineStep
  BY <1>10, EngineStepMuxer DEF sessionVars, L!Close, StepInv
<1>11. CASE Application
  BY <1>11, ApplicationMuxer DEF sessionVars, L!Close, StepInv
<1>12. CASE UNCHANGED vars
  BY <1>12 DEF vars, engineVars, sessionVars
<1> QED BY <1>1, <1>2, <1>3, <1>4, <1>5, <1>6, <1>7, <1>8, <1>9, <1>10, <1>11, <1>12
        DEF Next, Pump, End

\* The session implements the abstract lifecycle: finished is final, giving up
\* takes a failed dial, and a transport exists only while connected.
THEOREM SessionImplementsLifecycle ==
  ASSUME NoRestart
  PROVE  Spec => ImplementsLifecycle
<1>1. Init => L!LifecycleInit
  BY DEF Init, EngineInit, L!LifecycleInit
<1>2. BufferInv /\ MuxInv /\ StepInv /\ [Next]_vars => [L!LifecycleNext]_(L!lifecycleVars)
  BY LifecycleStep
<1> QED BY <1>1, <1>2, SessionInvariant, PTL DEF Spec, ImplementsLifecycle, L!LifecycleSpec

-----------------------------------------------------------------------------
(***************************************************************************)
(* The backoff budget, and what the session knows of its transport.        *)
(***************************************************************************)
BudgetInv ==
  /\ attempt \in 0..MaxAttempts
  /\ next_attempt \in {None, "armed", "due"}
  /\ state \in {"Idle", "Connected"} => attempt = 0
  /\ state = "Reconnecting" => attempt < MaxAttempts
  /\ state = "Exhausted" => attempt = MaxAttempts
  /\ (state = "Reconnecting" /\ next_attempt = None) => attempt = 0

\* Every step keeps attempts, schedule and state in agreement.
LEMMA BudgetStep ==
  ASSUME NoRestart, BufferInv, MuxInv, StepInv, BudgetInv, [Next]_vars
  PROVE  BudgetInv'
<1> USE DEF BudgetInv
<1>0. MaxAttempts \in Nat \ {0} /\ attempt \in Nat /\ attempt <= MaxAttempts
  BY MaxAttemptsAssumption
<1>1. CASE Start
  BY <1>1 DEF Start, NoRestart
<1>2. CASE Disconnect \/ Reconnect \/ Retry
  BY <1>0, <1>2 DEF Disconnect, Reconnect, Retry
<1>3. CASE ConnectFails
  <2>1. state = "Reconnecting" /\ attempt < MaxAttempts
    BY <1>3 DEF ConnectFails, MayDial, StepInv
  <2>2. /\ attempt' = attempt + 1 /\ attempt' \in 0..MaxAttempts
        /\ \/ attempt' = MaxAttempts /\ state' = "Exhausted" /\ next_attempt' = next_attempt
           \/ attempt' < MaxAttempts /\ state' = "Reconnecting" /\ next_attempt' = "armed"
    BY <1>0, <1>3, <2>1 DEF ConnectFails
  <2> QED BY <2>2, NoAttemptAssumption
<1>4. CASE BackoffElapses
  BY <1>4, NoAttemptAssumption DEF BackoffElapses
<1>5. CASE FinishDisconnected
  BY <1>0, <1>5 DEF FinishDisconnected
<1>6. CASE FinishReturns
  BY <1>0, <1>6 DEF FinishReturns
<1>7. CASE TickStalled \/ TickConnected \/ TickReturns \/ ResumeTick \/ ResumeReturns
           \/ FinishConnected
  BY <1>7 DEF TickStalled, TickConnected, TickReturns, ResumeTick, ResumeReturns,
              FinishConnected
<1>8. CASE EngineStep \/ Application \/ UNCHANGED vars
  BY <1>8 DEF EngineStep, Application, vars, sessionVars
<1> QED BY <1>1, <1>2, <1>3, <1>4, <1>5, <1>6, <1>7, <1>8 DEF Next, Pump, End

\* The session counts failed dials up to its budget, no further, and is
\* exhausted exactly when the budget is spent, for every budget.
THEOREM SessionBackoffBudget ==
  ASSUME NoRestart
  PROVE  Spec => []BackoffBudget
<1>1. Init => BudgetInv
  BY MaxAttemptsAssumption DEF Init, BudgetInv
<1>2. BufferInv /\ MuxInv /\ StepInv /\ BudgetInv /\ [Next]_vars => BudgetInv'
  BY BudgetStep
<1>3. BudgetInv /\ StepInv => BackoffBudget
  BY MaxAttemptsAssumption DEF BudgetInv, StepInv, BackoffBudget
<1> QED BY <1>1, <1>2, <1>3, SessionInvariant, PTL DEF Spec

\* A session that lost its transport without knowing it has seen an error.
LinkInv ==
  /\ (state = "Connected" /\ muxer = None) => (step = "finishing" \/ fails > 0)
  /\ (step = "finishing" /\ call = "none" /\ muxer = None /\ outcome = "err") => fails > 0

\* The number of transport errors never falls.
LEMMA FailsGrow ==
  ASSUME MuxInv, [EngineNext]_engineVars
  PROVE  fails \in Nat /\ (fails > 0 => fails' > 0)
<1>1. fails \in Nat
  BY BoundsAssumption DEF MuxInv
<1>2. CASE \/ PushCall \/ ResyncCall \/ Reset \/ AttachTransport \/ DetachTransport
           \/ (\E o \in Outputs : AttachOutput(o)) \/ UNCHANGED engineVars
  BY <1>1, <1>2 DEF PushCall, Push, ResyncCall, Reset, AttachTransport, DetachTransport,
                    AttachOutput, engineVars
<1>3. CASE \/ TickNoTransport \/ TickBegin \/ TickHeaders \/ TickSend \/ TickNoConfig
           \/ TickEnd \/ FinishNoTransport \/ FinishBegin \/ FinishSend
  BY <1>1, <1>3 DEF TickNoTransport, TickBegin, TickHeaders, TickSend, TickNoConfig,
                    TickEnd, FinishNoTransport, FinishBegin, FinishSend
<1>4. CASE \/ TickMaintainFails \/ TickHeadersFail \/ TickSendFails \/ TickFlushFails
           \/ FinishFails \/ FinishEnd \/ ConfigureCall
  <2>1. fails' = fails \/ TransportError
    BY <1>4 DEF TickMaintainFails, TickHeadersFail, TickSendFails, TickFlushFails,
                FinishFails, FinishEnd, ConfigureCall, ConfigureCodecs, TornTag
  <2> QED BY <1>1, <2>1 DEF TransportError
<1> QED BY <1>1, <1>2, <1>3, <1>4 DEF EngineNext, OptionalCalls, Tick, Finish

\* Every step keeps session and engine agreed on the transport.
LEMMA LinkStep ==
  ASSUME NoRestart, NoReset, BufferInv, MuxInv, StepInv, LinkInv, [Next]_vars
  PROVE  LinkInv'
<1> USE DEF LinkInv, Unlocked
<1>0. fails \in Nat /\ (fails > 0 => fails' > 0)
  BY SessionStep, FailsGrow
<1>1. CASE Start \/ Reconnect
  BY <1>1, TransportCalls DEF Start, Reconnect, MayDial, StepInv
<1>2. CASE Disconnect \/ ConnectFails \/ Retry \/ FinishDisconnected
  <2>1. step' # "finishing" /\ state' # "Connected"
    BY <1>2 DEF Disconnect, ConnectFails, MayDial, Retry, FinishDisconnected, StepInv
  <2> QED BY <2>1
<1>3. CASE TickStalled \/ TickReturns \/ ResumeReturns \/ BackoffElapses
  <2>1. UNCHANGED <<state, muxer, call, outcome>>
        /\ (step' = step \/ (step # "finishing" /\ step' # "finishing"))
    BY <1>3 DEF TickStalled, TickReturns, ResumeReturns, BackoffElapses, engineVars
  <2> QED BY <1>0, <2>1
<1>4. CASE TickConnected \/ ResumeTick
  <2>1. UNCHANGED <<state, muxer>> /\ step # "finishing" /\ step' # "finishing"
    BY <1>4 DEF TickConnected, ResumeTick, TickBegin, TickMaintainFails, TickNoTransport
  <2> QED BY <1>0, <2>1
<1>5. CASE FinishConnected
  <2>1. step' = "finishing" /\ (call' = "finish" \/ outcome' = "ok")
    BY <1>5 DEF FinishConnected, FinishBegin, FinishNoTransport
  <2> QED BY <2>1
<1>6. CASE FinishReturns
  <2>1. /\ step' = "none" /\ muxer' = muxer /\ step = "finishing" /\ call = "none"
        /\ state' = "Connected" => outcome # "ok"
    BY <1>6 DEF FinishReturns, engineVars
  <2>2. outcome \in {"ok", "err"}
    BY DEF MuxInv
  <2> QED BY <1>0, <2>1, <2>2
<1>7. CASE EngineStep
  <2>1. /\ UNCHANGED <<state, step>> /\ call # "none" /\ muxer # None
        /\ call \in {"headers", "tick", "finish"}
    BY <1>7, EngineStepMuxer DEF sessionVars, MuxInv
  <2>2. call = "finish" => step = "finishing"
    BY DEF StepInv
  <2>3. call \in {"headers", "tick"} => step # "finishing"
    BY DEF StepInv
  <2> QED BY <1>0, <1>7, EngineStepMuxer, <2>1, <2>2, <2>3
<1>8. CASE Application
  BY <1>0, <1>8, ApplicationMuxer DEF sessionVars
<1>9. CASE UNCHANGED vars
  BY <1>0, <1>9 DEF vars, engineVars, sessionVars
<1> QED BY <1>1, <1>2, <1>3, <1>4, <1>5, <1>6, <1>7, <1>8, <1>9 DEF Next, Pump, End

\* A transport is attached only while the session is connected, and a session
\* that is connected without one is finishing or has seen a transport fail.
THEOREM SessionTransportMatchesState ==
  ASSUME NoRestart, NoReset
  PROVE  Spec => []TransportMatchesState
<1>1. Init => LinkInv
  BY DEF Init, LinkInv
<1>2. BufferInv /\ MuxInv /\ StepInv /\ LinkInv /\ [Next]_vars => LinkInv'
  BY LinkStep
<1>3. StepInv /\ LinkInv => TransportMatchesState
  BY DEF StepInv, LinkInv, TransportMatchesState
<1> QED BY <1>1, <1>2, <1>3, SessionInvariant, PTL DEF Spec
-----------------------------------------------------------------------------
(***************************************************************************)
(* Types of the session, beside those of the engine.                       *)
(***************************************************************************)
ReconnectsInv == reconnects \in 0..conn

\* Connections are only ever added.
LEMMA ConnGrows ==
  ASSUME MuxInv, [EngineNext]_engineVars
  PROVE  /\ conn \in Nat /\ conn' \in {conn, conn + 1}
         /\ AttachTransport => conn' = conn + 1
<1>1. conn \in Nat
  BY BoundsAssumption DEF MuxInv
<1>2. CASE AttachTransport
  BY <1>1, <1>2 DEF AttachTransport
<1>3. CASE \/ PushCall \/ ResyncCall \/ Reset \/ DetachTransport \/ ConfigureCall
           \/ (\E o \in Outputs : AttachOutput(o)) \/ UNCHANGED engineVars
  <2>1. conn' = conn
    BY <1>3 DEF PushCall, Push, ResyncCall, Reset, DetachTransport, ConfigureCall,
                ConfigureCodecs, AttachOutput, engineVars
  <2> QED BY <1>1, <2>1 DEF AttachTransport
<1>4. CASE Tick
  <2>1. conn' = conn
    BY <1>4 DEF Tick, TickNoTransport, TickMaintainFails, TickBegin, TickHeaders,
                TickHeadersFail, TickSend, TickNoConfig, TickSendFails, TickFlushFails,
                TickEnd, AbortTick
  <2> QED BY <1>1, <2>1 DEF AttachTransport
<1>5. CASE Finish
  <2>1. conn' = conn
    BY <1>5 DEF Finish, FinishNoTransport, FinishBegin, FinishSend, FinishFails, FinishEnd
  <2> QED BY <1>1, <2>1 DEF AttachTransport
<1> QED BY <1>2, <1>3, <1>4, <1>5 DEF EngineNext, OptionalCalls

\* Every step keeps reconnects below the connections made.
LEMMA ReconnectsStep ==
  ASSUME MuxInv, ReconnectsInv, [Next]_vars
  PROVE  ReconnectsInv'
<1>1. conn \in Nat /\ conn' \in {conn, conn + 1} /\ (AttachTransport => conn' = conn + 1)
  BY SessionStep, ConnGrows
<1>2. CASE Reconnect
  BY <1>1, <1>2 DEF Reconnect, ReconnectsInv
<1>3. CASE UNCHANGED reconnects
  BY <1>1, <1>3 DEF ReconnectsInv
<1>4. Reconnect \/ UNCHANGED reconnects
  BY DEF Next, Pump, End, Start, TickStalled, TickConnected, TickReturns, Disconnect,
         ConnectFails, ResumeTick, ResumeReturns, BackoffElapses, Retry, FinishConnected,
         FinishReturns, FinishDisconnected, EngineStep, Application, vars, sessionVars
<1> QED BY <1>2, <1>3, <1>4

\* Every variable of the session and of its engine keeps its type.
THEOREM SessionTypeCorrect ==
  ASSUME NoRestart
  PROVE  Spec => []SessionTypeOK
<1> DEFINE IInv == BudgetInv /\ ReconnectsInv
<1>1. Init => IInv
  BY MaxAttemptsAssumption DEF Init, EngineInit, BudgetInv, ReconnectsInv
<1>2. BufferInv /\ MuxInv /\ StepInv /\ IInv /\ [Next]_vars => IInv'
  BY BudgetStep, ReconnectsStep
<1>3. TypeOK /\ MuxInv /\ StepInv /\ IInv => SessionTypeOK
  BY BoundsAssumption DEF BudgetInv, ReconnectsInv, MuxInv, StepInv, SessionTypeOK
<1> QED BY <1>1, <1>2, <1>3, SessionInvariant, SessionDrivesEngine, EngineTypeCorrect,
           PTL DEF Spec

-----------------------------------------------------------------------------
(***************************************************************************)
(* A broken transport.  configure_codecs writes its headers on whatever    *)
(* transport is attached, from outside the session; all else on the wire   *)
(* is written by ticks and finishes, and those the session holds back.     *)
(***************************************************************************)
\* The transport has failed a tick that the session is told about: any but the
\* tick by which it resumes.
Broken == resume.torn = "late tick" \/ (resume.torn = "first tick" /\ conn \in {0, 1})

\* The session has the error in hand, or acts on it already.
Dropping ==
  \/ step = "ticking" /\ Unlocked /\ outcome = "err"
  \/ step = "disconnect"

BrokenInv ==
  /\ Broken => Dropping
  /\ step = "resume" => ~metadata_written
  /\ (step = "resuming" /\ ~Unlocked) => ~metadata_written
  /\ step \in {"resume", "resuming"} => conn \notin {0, 1}
  /\ state \in {"Connected", "Reconnecting", "Exhausted"} => conn # 0

\* A connection after the first is numbered so.
LEMMA SecondConnection ==
  ASSUME MuxInv, AttachTransport
  PROVE  conn' # 0 /\ (conn # 0 => conn' \notin {0, 1})
<1>1. conn \in Nat /\ conn' = conn + 1
  BY BoundsAssumption DEF MuxInv, AttachTransport
<1> QED BY <1>1

\* A running engine call either goes on as it was or ends; what it says of the
\* transport's tear only ever starts from an intact one.
LEMMA EngineStepTorn ==
  ASSUME MuxInv, WireInv, EngineStep
  PROVE  /\ ~Unlocked /\ conn' = conn /\ UNCHANGED sessionVars
         /\ ~Unlocked' => UNCHANGED <<metadata_written, resume>>
         /\ \/ resume' = resume
            \/ resume'.torn = resume.torn
            \/ resume'.torn = "other call"
            \/ /\ resume'.torn = IF metadata_written THEN "late tick" ELSE "first tick"
               /\ call \in {"headers", "tick"} /\ Unlocked' /\ outcome' = "err"
<1>0. call \in {"headers", "tick", "finish"}
  BY DEF EngineStep, MuxInv, Unlocked
<1>1. CASE TickHeaders \/ TickSend \/ FinishSend
  BY <1>0, <1>1 DEF TickHeaders, TickSend, FinishSend, EngineStep, Unlocked
<1>2. CASE TickNoConfig \/ TickEnd \/ FinishEnd
  BY <1>0, <1>2 DEF TickNoConfig, TickEnd, FinishEnd, AbortTick, Release, EngineStep, Unlocked
<1>3. CASE TickHeadersFail \/ TickSendFails \/ TickFlushFails
  <2>1. TornTag /\ AbortTick /\ call \in {"headers", "tick"}
    BY <1>3 DEF TickHeadersFail, TickSendFails, TickFlushFails
  <2>2. call' = "none" /\ outcome' = "err" /\ conn' = conn
    BY <2>1 DEF AbortTick, Release
  <2>3. \/ resume'.torn = resume.torn
        \/ resume'.torn = IF metadata_written THEN "late tick" ELSE "first tick"
    BY <2>1 DEF TornTag, WireInv
  <2> QED BY <2>1, <2>2, <2>3 DEF EngineStep, Unlocked
<1>4. CASE FinishFails
  <2>1. call = "finish" /\ call' = "none" /\ conn' = conn /\ (TornTag \/ resume' = resume)
    BY <1>4 DEF FinishFails, Release
  <2>2. TornTag => resume'.torn = resume.torn \/ resume'.torn = "other call"
    BY <2>1 DEF TornTag, WireInv
  <2> QED BY <2>1, <2>2 DEF EngineStep, Unlocked
<1> QED BY <1>1, <1>2, <1>3, <1>4 DEF EngineStep

\* Every step keeps a broken transport unused.
LEMMA BrokenStep ==
  ASSUME NoRestart, BufferInv, MuxInv, StepInv, WireInv, BrokenInv, [Next]_vars
  PROVE  BrokenInv'
<1> USE DEF BrokenInv, Broken, Dropping
<1>1. CASE Start
  <2>1. /\ conn' # 0 /\ resume'.torn = "intact" /\ step' = step /\ step = "none"
    BY <1>1, SecondConnection DEF Start, AttachTransport, WireInv
  <2> QED BY <2>1
<1>2. CASE Reconnect
  <2>1. state = "Reconnecting"
    BY <1>2 DEF Reconnect, MayDial, StepInv
  <2>2. /\ conn' \notin {0, 1} /\ resume'.torn = "intact" /\ step' = "resume"
        /\ metadata_written' = FALSE
    BY <1>2, <2>1, SecondConnection DEF Reconnect, AttachTransport, WireInv
  <2> QED BY <2>2
<1>3. CASE Disconnect
  <2>1. conn' = conn /\ resume'.torn = "intact" /\ step' = "reconnect" /\ state = "Connected"
    BY <1>3 DEF Disconnect, DetachTransport, StepInv
  <2> QED BY <2>1
<1>4. CASE TickStalled \/ TickReturns \/ ResumeReturns
  <2>1. UNCHANGED engineVars /\ UNCHANGED state
    BY <1>4 DEF TickStalled, TickReturns, ResumeReturns
  <2>2. UNCHANGED <<resume, conn, call, outcome, metadata_written, state>>
    BY <2>1 DEF engineVars
  <2>3. \/ step = "none" /\ step' = "disconnect"
        \/ step = "ticking" /\ step' = (IF outcome = "ok" THEN "none" ELSE "disconnect")
        \/ step = "resuming" /\ step' = "none"
    BY <1>4 DEF TickStalled, TickReturns, ResumeReturns
  <2> QED BY <2>2, <2>3 DEF Unlocked
<1>5. CASE TickConnected \/ ResumeTick
  <2>1. /\ UNCHANGED <<resume, conn, metadata_written, state>>
        /\ \/ step = "none" /\ step' = "ticking"
           \/ step = "resume" /\ step' = "resuming"
    BY <1>5 DEF TickConnected, ResumeTick, TickBegin, TickMaintainFails, TickNoTransport
  <2> QED BY <2>1
<1>6. CASE ConnectFails \/ Retry \/ FinishDisconnected \/ FinishReturns \/ BackoffElapses
  <2>1. UNCHANGED engineVars
    BY <1>6 DEF ConnectFails, Retry, FinishDisconnected, FinishReturns, BackoffElapses
  <2>2. UNCHANGED <<resume, conn, call, outcome, metadata_written>>
    BY <2>1 DEF engineVars
  <2>3. /\ step' = step \/ (step \in {"none", "reconnect", "finishing"} /\ step' = "none")
        /\ \/ state' = state \/ state' = "Finished"
           \/ state \in {"Reconnecting", "Exhausted"}
    BY <1>6 DEF ConnectFails, MayDial, Retry, FinishDisconnected, FinishReturns,
                BackoffElapses, StepInv
  <2> QED BY <2>2, <2>3 DEF Unlocked
<1>7. CASE FinishConnected
  <2>1. /\ UNCHANGED <<resume, conn, state>> /\ step = "none" /\ step' = "finishing"
    BY <1>7 DEF FinishConnected, FinishBegin, FinishNoTransport
  <2> QED BY <2>1
<1>8. CASE EngineStep
  <2>1. /\ ~Unlocked /\ conn' = conn /\ state' = state /\ step' = step
        /\ step \in {"ticking", "resuming", "finishing"}
        /\ call \in {"headers", "tick"} => step \in {"ticking", "resuming"}
    BY <1>8, EngineStepTorn DEF sessionVars, StepInv, MuxInv, Unlocked
  <2>2. ~Broken
    BY <2>1
  <2>3. ~Unlocked' => UNCHANGED <<metadata_written, resume>>
    BY <1>8, EngineStepTorn
  <2>4. Broken' => Dropping'
    <3>1. CASE resume' = resume \/ resume'.torn = resume.torn \/ resume'.torn = "other call"
      BY <2>1, <2>2, <3>1
    <3>2. CASE /\ resume'.torn = IF metadata_written THEN "late tick" ELSE "first tick"
               /\ call \in {"headers", "tick"} /\ Unlocked' /\ outcome' = "err"
      <4>1. CASE step = "ticking"
        BY <2>1, <3>2, <4>1
      <4>2. CASE step = "resuming"
        <5>1. ~metadata_written /\ conn \notin {0, 1}
          BY <2>1, <4>2
        <5>2. resume'.torn = "first tick" /\ conn' \notin {0, 1}
          BY <2>1, <3>2, <5>1
        <5> QED BY <5>2
      <4> QED BY <2>1, <3>2, <4>1, <4>2
    <3> QED BY <1>8, <3>1, <3>2, EngineStepTorn
  <2>5. (step' = "resuming" /\ ~Unlocked') => ~metadata_written'
    BY <2>1, <2>3
  <2>6. step' # "resume"
    BY <2>1
  <2> QED BY <2>1, <2>4, <2>5, <2>6
<1>9. CASE Application
  <2>1. /\ call = "none" /\ call' = "none" /\ outcome' = outcome /\ state' = state
        /\ step' = step
    BY <1>9, ApplicationMuxer DEF sessionVars
  <2>2. /\ conn' = conn /\ (metadata_written' => metadata_written)
        /\ resume'.torn \in {resume.torn, "intact", "other call"}
    <3>1. CASE ResyncCall \/ \E o \in Outputs : AttachOutput(o)
      <4>1. UNCHANGED <<conn, metadata_written, resume>>
        BY <3>1 DEF ResyncCall, AttachOutput
      <4> QED BY <4>1
    <3>2. CASE Reset
      BY <3>2 DEF Reset
    <3>3. ASSUME NEW shapes, Push(shapes)
          PROVE  /\ conn' = conn /\ metadata_written' = metadata_written
                 /\ resume'.torn = resume.torn
      <4>1. resume' = [resume EXCEPT !.evicted =
                         @ \/ PushAll(buffer, [i \in DOMAIN shapes |->
                                                Packet(issued + i, shapes[i])]).dropped
                              > buffer.dropped]
        BY <3>3 DEF Push
      <4>2. \A x : [resume EXCEPT !.evicted = x].torn = resume.torn
        BY Zenon DEF WireInv
      <4> QED BY <3>3, <4>1, <4>2 DEF Push
    <3>4. CASE ConfigureCall
      <4>1. conn' = conn /\ metadata_written' = metadata_written /\ (TornTag \/ resume' = resume)
        BY <3>4 DEF ConfigureCall, ConfigureCodecs
      <4>2. TornTag => resume'.torn \in {resume.torn, "other call"}
        BY <2>1 DEF TornTag, WireInv
      <4> QED BY <4>1, <4>2
    <3> QED BY <1>9, <3>1, <3>2, <3>3, <3>4 DEF Application, OptionalCalls, PushCall
  <2> QED BY <2>1, <2>2 DEF Unlocked
<1>10. CASE UNCHANGED vars
  BY <1>10 DEF vars, engineVars, sessionVars, Unlocked
<1> QED BY <1>1, <1>2, <1>3, <1>4, <1>5, <1>6, <1>7, <1>8, <1>9, <1>10 DEF Next, Pump, End

\* Configuring puts sequence headers on the wire and nothing else.
LEMMA ConfigureWritesHeaders ==
  ASSUME MuxInv, WireInv, ConfigureCall
  PROVE  /\ \A i \in DOMAIN wire : wire'[i] = wire[i]
         /\ \A i \in DOMAIN wire' \ DOMAIN wire : wire'[i].type \in {"avcc", "asc"}
<1> DEFINE Headers == {t \in HeaderTagsNow : t.type \in {"avcc", "asc"}}
<1>1. PICK avcc, asc \in Configs \cup {None} : ConfigureCodecs(avcc, asc)
  BY DEF ConfigureCall
<1>2. CASE wire' = wire
  BY <1>2
<1>3. CASE muxer # None /\ wire' = wire \o SequenceTags(muxer, muxer')
  <2> DEFINE v == IF muxer.avcc # muxer'.avcc THEN <<HeaderTag("avcc")>> ELSE <<>>
             a == IF muxer.asc # muxer'.asc THEN <<HeaderTag("asc")>> ELSE <<>>
  <2>1. HeaderTag("avcc") \in Headers /\ HeaderTag("asc") \in Headers
    BY <1>3, HeaderTagType DEF HeaderTypes, MuxInv
  <2>2. v \in Seq(Headers) /\ a \in Seq(Headers)
    <3> HIDE DEF Headers
    <3>1. \A h \in Headers : <<h>> \in Seq(Headers)
      OBVIOUS
    <3> QED BY <2>1, <3>1, EmptySeq
  <2>3. wire' = wire \o (v \o a)
    BY <1>3 DEF SequenceTags
  <2> HIDE DEF v, a
  <2>4. v \o a \in Seq(Headers)
    BY <2>2, ConcatProperties
  <2> DEFINE t == v \o a
  <2>5. t \in Seq(Headers) /\ wire \in Seq(TagType) /\ wire' = wire \o t
    BY <2>3, <2>4 DEF WireInv
  <2> HIDE DEF t, Headers
  <2>6. /\ Len(wire) \in Nat /\ Len(t) \in Nat /\ DOMAIN wire = 1..Len(wire)
        /\ DOMAIN wire' = 1..(Len(wire) + Len(t))
        /\ \A i \in 1..(Len(wire) + Len(t)) :
             wire'[i] = IF i <= Len(wire) THEN wire[i] ELSE t[i - Len(wire)]
    BY <2>5
  <2>7. ASSUME NEW i \in DOMAIN wire' \ DOMAIN wire
        PROVE  wire'[i].type \in {"avcc", "asc"}
    <3>1. i - Len(wire) \in 1..Len(t) /\ wire'[i] = t[i - Len(wire)]
      BY <2>6, <2>7
    <3>2. wire'[i] \in Headers
      BY <2>5, <3>1, ElementOfSeq
    <3> QED BY <3>2 DEF Headers
  <2>8. \A i \in DOMAIN wire : wire'[i] = wire[i]
    BY <2>6
  <2> QED BY <2>7, <2>8
<1>4. wire' = wire \/ (muxer # None /\ wire' = wire \o SequenceTags(muxer, muxer'))
  BY <1>1 DEF ConfigureCodecs
<1> QED BY <1>2, <1>3, <1>4

\* Only a running call puts media and metadata on the wire, and the tags say how
\* its transport was.
LEMMA BrokenWireStep ==
  ASSUME NoRestart, BufferInv, MuxInv, StepInv, WireInv, BrokenInv,
         BrokenTransportDropped, [Next]_vars
  PROVE  BrokenTransportDropped'
<1>1. CASE wire' = wire
  BY <1>1 DEF BrokenTransportDropped
<1>2. CASE EngineStep
  <2>1. ~Broken
    BY <1>2 DEF BrokenInv, Dropping, StepInv, EngineStep, MuxInv, Unlocked
  <2>2. CASE HeaderStep
    <3>1. /\ WireKept
          /\ \A i \in DOMAIN wire' \ DOMAIN wire : wire'[i] \in HeaderTagsNow
      BY <2>2, HeaderStepWire
    <3>2. \A i \in DOMAIN wire' \ DOMAIN wire :
            wire'[i].torn = resume.torn /\ wire'[i].conn = conn
      BY <3>1 DEF HeaderTagsNow
    <3>3. \A i \in DOMAIN wire' \ DOMAIN wire :
            /\ wire'[i].torn # "late tick"
            /\ wire'[i].torn = "first tick" => wire'[i].conn > 1
      <4>1. resume.torn # "late tick" /\ (resume.torn = "first tick" => conn > 1)
        <5>1. conn \in Nat
          BY BoundsAssumption DEF MuxInv
        <5>2. resume.torn # "late tick" /\ (resume.torn = "first tick" => conn # 0 /\ conn # 1)
          BY <2>1 DEF Broken
        <5>3. \A k \in Nat : k # 0 /\ k # 1 => k > 1
          OBVIOUS
        <5> QED BY <5>1, <5>2, <5>3
      <4> QED BY <3>2, <4>1
    <3>4. \A i \in DOMAIN wire : wire'[i] = wire[i]
      BY <3>1 DEF WireKept
    <3> QED BY <3>3, <3>4 DEF BrokenTransportDropped
  <2>3. CASE MediaStep
    <3> DEFINE n == Len(wire')
    <3>1. /\ WireKept /\ MediaTagOf(wire'[n], NextPacket)
          /\ \A i \in (DOMAIN wire' \ DOMAIN wire) \ {n} : wire'[i] \in HeaderTagsNow
      BY <2>3, MediaStepWire
    <3> HIDE DEF n
    <3>2. \A i \in DOMAIN wire' \ DOMAIN wire :
            wire'[i].torn = resume.torn /\ wire'[i].conn = conn
      BY <3>1 DEF MediaTagOf, HeaderTagsNow
    <3>3. \A i \in DOMAIN wire' \ DOMAIN wire :
            /\ wire'[i].torn # "late tick"
            /\ wire'[i].torn = "first tick" => wire'[i].conn > 1
      <4>1. resume.torn # "late tick" /\ (resume.torn = "first tick" => conn > 1)
        <5>1. conn \in Nat
          BY BoundsAssumption DEF MuxInv
        <5>2. resume.torn # "late tick" /\ (resume.torn = "first tick" => conn # 0 /\ conn # 1)
          BY <2>1 DEF Broken
        <5>3. \A k \in Nat : k # 0 /\ k # 1 => k > 1
          OBVIOUS
        <5> QED BY <5>1, <5>2, <5>3
      <4> QED BY <3>2, <4>1
    <3>4. \A i \in DOMAIN wire : wire'[i] = wire[i]
      BY <3>1 DEF WireKept
    <3> QED BY <3>3, <3>4 DEF BrokenTransportDropped
  <2>4. CASE Quiet \/ FinishEnd
    BY <1>1, <2>4 DEF Quiet, FinishEnd
  <2>5. ~(AttachTransport \/ DetachTransport \/ Reset)
    BY <1>2 DEF EngineStep, AttachTransport, DetachTransport, Reset
  <2> QED BY <2>2, <2>3, <2>4, <2>5, SessionStep, WireEffect
<1>3. CASE Application /\ ConfigureCall
  <2>1. /\ \A i \in DOMAIN wire : wire'[i] = wire[i]
        /\ \A i \in DOMAIN wire' \ DOMAIN wire : wire'[i].type \in {"avcc", "asc"}
    BY <1>3, ConfigureWritesHeaders
  <2>2. "avcc" \notin Tracks \cup {"script"} /\ "asc" \notin Tracks \cup {"script"}
    BY DEF Tracks
  <2> QED BY <2>1, <2>2 DEF BrokenTransportDropped
<1>4. CASE ~EngineStep /\ ~(Application /\ ConfigureCall)
  <2>1. wire' = wire
    BY <1>4 DEF Next, Pump, End, Start, TickStalled, TickConnected, TickReturns, Disconnect,
         Reconnect, ConnectFails, ResumeTick, ResumeReturns, BackoffElapses, Retry,
         FinishConnected, FinishReturns, FinishDisconnected, Application, OptionalCalls,
         PushCall, Push, ResyncCall, Reset, AttachOutput, AttachTransport,
         DetachTransport, TickBegin, TickMaintainFails, TickNoTransport, FinishBegin,
         FinishNoTransport, vars, engineVars
  <2> QED BY <1>1, <2>1
<1> QED BY <1>2, <1>3, <1>4

\* No metadata and no media are written on a transport that failed a tick: the
\* session drops it first, whatever is configured, pushed or cut meanwhile.  The tick by which it resumes is the exception,
\* and there the peer has not had its metadata yet.
THEOREM SessionBrokenTransportDropped ==
  ASSUME NoRestart
  PROVE  Spec => []BrokenTransportDropped
<1>1. Init => BrokenInv /\ BrokenTransportDropped
  BY DEF Init, EngineInit, BrokenInv, Broken, BrokenTransportDropped
<1>2. BufferInv /\ MuxInv /\ StepInv /\ WireInv /\ BrokenInv /\ BrokenTransportDropped
        /\ [Next]_vars => BrokenInv' /\ BrokenTransportDropped'
  BY BrokenStep, BrokenWireStep
<1> QED BY <1>1, <1>2, SessionInvariant, SessionDrivesEngine, WireInvariant, PTL DEF Spec
=============================================================================
