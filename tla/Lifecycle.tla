------------------------------ MODULE Lifecycle ----------------------------
(***************************************************************************)
(* What a stream session promises about its lifecycle, whatever the engine *)
(* and the network do: the abstract specification that module Session      *)
(* implements and that module FfiSession builds on.                        *)
(*                                                                         *)
(* core is the session's state and link says whether it holds a transport. *)
(* A finished session never comes back, giving up takes a failed attempt,  *)
(* only retry leaves Exhausted for the network, and a transport appears    *)
(* only with Connected and never outlives it.                              *)
(***************************************************************************)
VARIABLES core, link

lifecycleVars == <<core, link>>

CoreStates == {"Idle", "Connected", "Reconnecting", "Exhausted", "Finished"}

LifecycleInit == core = "Idle" /\ link = FALSE

Move(from, to) == core = from /\ core' = to

\* The first connection, and every later one.
GoLive  == Move("Idle", "Connected") /\ link' = TRUE
Resume  == Move("Reconnecting", "Connected") /\ link' = TRUE
\* The transport died or stalled.
Lose    == Move("Connected", "Reconnecting") /\ link' = FALSE
GiveUp  == Move("Reconnecting", "Exhausted") /\ UNCHANGED link
Rearm   == Move("Exhausted", "Reconnecting") /\ UNCHANGED link
\* Closing the transport comes before the end of a connected session.
Close   == core = "Connected" /\ link' = FALSE /\ UNCHANGED core
End     == ~link /\ core' = "Finished" /\ UNCHANGED link

LifecycleNext ==
  GoLive \/ Resume \/ Lose \/ GiveUp \/ Rearm \/ Close \/ End

LifecycleSpec == LifecycleInit /\ [][LifecycleNext]_lifecycleVars
=============================================================================
