------------------------------- MODULE Fanout -------------------------------
(***************************************************************************)
(* The tee transport of src/core/src/transport.rs: every buffer goes to    *)
(* all live sinks in the order they were added; the first sink is the      *)
(* primary, whose failures are the caller's, the others are retired when   *)
(* they fail.  A Fanout is used through &mut, so a call is one step; what  *)
(* each sink answers (`fails`, the sinks that fail in this call) is up to  *)
(* the sink.  A buffer is the number of the write that brought it, and     *)
(* `got` what a sink has taken whole since it was added.                   *)
(*                                                                         *)
(* The caller is the engine through its muxer: after an error it writes    *)
(* no more and drops or shuts down the transport (module Session).         *)
(***************************************************************************)
EXTENDS Integers, Sequences

CONSTANTS MaxSinks,   \* bound: sinks added
          MaxWrites   \* bound: write calls

ASSUME BoundsAssumption == MaxSinks \in Nat \ {0} /\ MaxWrites \in Nat

VARIABLES
  slots,     \* Fanout.slots: when a sink was added, and what it has got since
  retired,   \* the sinks whose `alive` has been cleared
  torn,      \* the sinks that failed a write
  written,   \* write calls so far
  broken,    \* has a call returned an error?  then the caller stops
  last       \* the last call and the sinks that failed in it

vars == <<slots, retired, torn, written, broken, last>>

\* The engine takes the transport out of its muxer to shut it down.
InService == last.call # "shutdown"

Primary == 1
Live == DOMAIN slots \ retired

Init ==
  /\ slots = <<>> /\ retired = {} /\ torn = {}
  /\ written = 0 /\ broken = FALSE
  /\ last = [call |-> "none", failed |-> {}]

\* with_primary and add.
Add ==
  /\ InService /\ Len(slots) < MaxSinks
  /\ slots' = Append(slots, [since |-> written, got |-> <<>>])
  /\ UNCHANGED <<retired, torn, written, broken, last>>

Returned(name, ok, fails) ==
  /\ last' = [call |-> name, failed |-> fails]
  /\ broken' = IF ok THEN broken ELSE TRUE

\* Mutant: a relay that fails stays in service.
RetiredMutant(fails) == retired

\* A secondary that fails is retired for good; the primary never is.
Retired(fails) == retired \cup (fails \ {Primary})

\* write: write_all on each live sink, its flush ignored.  A sink that fails
\* may have taken a part of the buffer.  Without a sink it is BrokenPipe; with
\* one, the primary counts as live whatever it answered.
Write(fails) ==
  /\ InService /\ ~broken /\ written < MaxWrites
  /\ written' = written + 1
  /\ slots' = [i \in DOMAIN slots |->
       IF i \in Live \ fails THEN [slots[i] EXCEPT !.got = Append(@, written + 1)]
       ELSE slots[i]]
  /\ retired' = Retired(fails)
  /\ torn' = torn \cup fails
  /\ Returned("write", Primary \notin fails /\ Live # {}, fails)

\* flush: the first live sink that fails ends it, and none is retired.
Flush(fails) ==
  /\ InService /\ ~broken
  /\ Returned("flush", fails = {}, fails)
  /\ UNCHANGED <<slots, retired, torn, written>>

\* Mutant: a relay's error is the caller's.
MaintainOkMutant(fails) == fails = {}

MaintainOk(fails) == Primary \notin fails

\* maintain: on every live sink, with the failures treated as in write.
Maintain(fails) ==
  /\ InService /\ ~broken
  /\ retired' = Retired(fails)
  /\ Returned("maintain", MaintainOk(fails), fails)
  /\ UNCHANGED <<slots, torn, written>>

\* shutdown: every sink is shut down, retired ones too; the first failure is
\* returned.
Shutdown(fails) ==
  /\ InService
  /\ Returned("shutdown", fails = {}, fails)
  /\ UNCHANGED <<slots, retired, torn, written>>

Next ==
  \/ Add
  \/ \E fails \in SUBSET Live : Write(fails)
  \/ \E fails \in SUBSET Live : Flush(fails)
  \/ \E fails \in SUBSET Live : Maintain(fails)
  \/ \E fails \in SUBSET (DOMAIN slots) : Shutdown(fails)

Spec == Init /\ [][Next]_vars

-----------------------------------------------------------------------------
(***************************************************************************)
(* Properties.                                                             *)
(***************************************************************************)

\* The buffers number since+1 to n, in order.
Owed(since, n) == [k \in 1..(n - since) |-> since + k]

\* All live sinks have received the same bytes since they were added, with no
\* hole and no torn buffer, whatever others failed meanwhile.  A primary that
\* failed a write is torn there, and then the caller writes no more.
LiveSinksIdentical ==
  \A i \in Live :
    IF i \in torn
    THEN i = Primary /\ broken
    ELSE slots[i].got = Owed(slots[i].since, written)

\* A write or a maintain fails only with the primary: what happens to a relay
\* is not the caller's concern.
RelayContained ==
  [][last'.call \in {"write", "maintain"} /\ broken' /\ ~broken
       => Primary \in last'.failed \/ slots = <<>>]_vars
=============================================================================
