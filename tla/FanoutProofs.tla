---------------------------- MODULE FanoutProofs ----------------------------
(***************************************************************************)
(* For any number of sinks, writes and failures: the live sinks of a       *)
(* Fanout are identical, and a relay that fails does not break the tee.    *)
(*                                                                         *)
(* LiveSinksIdentical is inductive once it is known that a sink was added  *)
(* in the past and that the primary is never retired: a live sink is torn  *)
(* only if it is the primary, and then the caller has seen the error and   *)
(* writes no more.                                                         *)
(***************************************************************************)
EXTENDS Fanout, TLAPS

Slot == [since : Nat, got : Seq(Nat)]

FanoutTypeOK ==
  /\ slots \in Seq(Slot)
  /\ retired \subseteq DOMAIN slots /\ torn \subseteq DOMAIN slots
  /\ written \in Nat

FanoutInv ==
  /\ FanoutTypeOK
  /\ \A i \in DOMAIN slots : slots[i].since <= written
  /\ Primary \notin retired
  /\ LiveSinksIdentical

\* A sink that has just been added is owed nothing.
LEMMA NothingOwed ==
  ASSUME NEW since \in Nat
  PROVE  Owed(since, since) = <<>>
  BY DEF Owed

\* A complete sink that takes the next buffer is complete again.
LEMMA OwedGrows ==
  ASSUME NEW since \in Nat, NEW n \in Nat, since <= n
  PROVE  Append(Owed(since, n), n + 1) = Owed(since, n + 1)
<1> DEFINE s == [k \in 1..(n - since) |-> since + k]
           t == [k \in 1..(n + 1 - since) |-> since + k]
<1>1. s \in Seq(Nat) /\ Len(s) = n - since
  OBVIOUS
<1>2. t \in Seq(Nat) /\ Len(t) = n + 1 - since
  OBVIOUS
<1>3. Append(s, n + 1) \in Seq(Nat) /\ Len(Append(s, n + 1)) = Len(t)
  BY <1>1, <1>2
<1>4. ASSUME NEW k \in 1..Len(t)  PROVE Append(s, n + 1)[k] = t[k]
  <2>1. CASE k = n + 1 - since
    BY <2>1, <1>1, <1>2
  <2>2. CASE k # n + 1 - since
    BY <2>2, <1>1, <1>2
  <2> QED
    BY <2>1, <2>2
<1>5. Append(s, n + 1) = t
  BY <1>2, <1>3, <1>4
<1> QED
  BY <1>5 DEF Owed

-----------------------------------------------------------------------------
\* There is no sink yet.
LEMMA FanoutInit == Init => FanoutInv
<1> SUFFICES ASSUME Init PROVE FanoutInv
  OBVIOUS
<1>1. slots = <<>> /\ DOMAIN slots = {} /\ retired = {} /\ torn = {} /\ written = 0
  BY DEF Init
<1> QED
  BY <1>1 DEF FanoutInv, FanoutTypeOK, LiveSinksIdentical, Live

\* The new sink is owed nothing yet, the others are as before.
LEMMA AddKeeps == FanoutInv /\ Add => FanoutInv'
<1> SUFFICES ASSUME FanoutInv, Add PROVE FanoutInv'
  OBVIOUS
<1> DEFINE new == [since |-> written, got |-> <<>>]
<1>1. slots' = Append(slots, new)
      /\ UNCHANGED <<written, broken, retired, torn>>
  BY DEF Add
<1>2. new \in Slot
  BY DEF FanoutInv, FanoutTypeOK, Slot
<1>3. /\ slots' \in Seq(Slot)
      /\ DOMAIN slots' = 1..(Len(slots) + 1) /\ DOMAIN slots = 1..Len(slots)
      /\ \A i \in 1..Len(slots) : slots'[i] = slots[i]
      /\ slots'[Len(slots) + 1] = new
  BY <1>1, <1>2 DEF FanoutInv, FanoutTypeOK
<1>4. FanoutTypeOK'
  BY <1>1, <1>3 DEF FanoutInv, FanoutTypeOK
<1>5. (\A i \in DOMAIN slots : slots[i].since <= written)'
  BY <1>1, <1>3 DEF FanoutInv, FanoutTypeOK
<1>6. LiveSinksIdentical'
  <2> SUFFICES ASSUME NEW i \in DOMAIN slots', i \notin retired
               PROVE  IF i \in torn THEN i = Primary /\ broken
                      ELSE slots'[i].got = Owed(slots'[i].since, written)
    BY <1>1 DEF LiveSinksIdentical, Live
  <2>1. CASE i \in DOMAIN slots
    BY <2>1, <1>3 DEF FanoutInv, LiveSinksIdentical, Live
  <2>2. CASE i = Len(slots) + 1
    <3>1. i \notin torn
      BY <2>2, <1>3 DEF FanoutInv, FanoutTypeOK
    <3> QED
      BY <2>2, <3>1, <1>3, NothingOwed DEF FanoutInv, FanoutTypeOK
  <2> QED
    BY <2>1, <2>2, <1>3
<1> QED
  BY <1>1, <1>4, <1>5, <1>6 DEF FanoutInv

\* Every live sink takes the buffer whole or fails; a secondary that fails is
\* no longer live, and a primary that fails makes the call fail.
LEMMA WriteKeeps ==
  ASSUME FanoutInv, NEW fails \in SUBSET Live, Write(fails)
  PROVE  FanoutInv'
<1>1. /\ slots \in Seq(Slot) /\ written \in Nat /\ ~broken
      /\ retired \subseteq DOMAIN slots /\ torn \subseteq DOMAIN slots
  BY DEF FanoutInv, FanoutTypeOK, Write
<1>2. /\ written' = written + 1 /\ torn' = torn \cup fails
      /\ retired' = retired \cup (fails \ {Primary})
      /\ Primary \in fails => broken'
  BY DEF Write, Returned, Retired
<1>3. slots' = [i \in DOMAIN slots |->
       IF i \in Live \ fails THEN [slots[i] EXCEPT !.got = Append(@, written + 1)]
       ELSE slots[i]]
  BY DEF Write
<1>4. ASSUME NEW i \in DOMAIN slots
      PROVE  /\ slots'[i] \in Slot /\ slots'[i].since = slots[i].since
             /\ i \in Live \ fails => slots'[i].got = Append(slots[i].got, written + 1)
  <2>1. slots[i] \in Slot
    BY <1>1
  <2>2. CASE i \in Live \ fails
    <3>1. slots'[i] = [slots[i] EXCEPT !.got = Append(slots[i].got, written + 1)]
      BY <2>2, <1>3
    <3>2. Append(slots[i].got, written + 1) \in Seq(Nat)
      BY <2>1, <1>1 DEF Slot
    <3> QED
      BY <2>1, <3>1, <3>2 DEF Slot
  <2>3. CASE i \notin Live \ fails
    <3>1. slots'[i] = slots[i]
      BY <2>3, <1>3
    <3> QED
      BY <2>1, <2>3, <3>1 DEF Slot
  <2> QED
    BY <2>2, <2>3
<1>5. DOMAIN slots' = DOMAIN slots /\ slots' \in Seq(Slot)
      /\ \A i \in DOMAIN slots : slots[i] \in Slot
  <2>1. DOMAIN slots = 1..Len(slots) /\ Len(slots) \in Nat
    BY <1>1
  <2>2. DOMAIN slots' = DOMAIN slots
    BY <1>3
  <2>3. slots' = [i \in 1..Len(slots) |-> slots'[i]]
    BY <1>3, <2>1
  <2>4. slots' \in [1..Len(slots) -> Slot]
    BY <1>4, <2>1, <2>3
  <2> QED
    BY <1>1, <2>1, <2>2, <2>4
<1>6. FanoutTypeOK'
  BY <1>1, <1>2, <1>5 DEF FanoutTypeOK, Live
<1>7. (\A i \in DOMAIN slots : slots[i].since <= written)'
  BY <1>1, <1>2, <1>4, <1>5 DEF FanoutInv, Slot
<1>8. (Primary \notin retired)'
  BY <1>2 DEF FanoutInv
<1>9. LiveSinksIdentical'
  <2> SUFFICES ASSUME NEW i \in DOMAIN slots', i \notin retired'
               PROVE  IF i \in torn' THEN i = Primary /\ broken'
                      ELSE slots'[i].got = Owed(slots'[i].since, written')
    BY DEF LiveSinksIdentical, Live
  <2>1. i \in Live
    BY <1>2, <1>5 DEF Live
  <2>2. i \notin torn /\ slots[i].got = Owed(slots[i].since, written)
    BY <1>1, <2>1 DEF FanoutInv, LiveSinksIdentical
  <2>3. CASE i \in fails
    BY <2>3, <1>2
  <2>4. CASE i \notin fails
    <3>1. /\ i \notin torn' /\ slots'[i].since = slots[i].since
          /\ slots'[i].got = Append(slots[i].got, written + 1)
      BY <2>1, <2>2, <2>4, <1>2, <1>4, <1>5
    <3>2. slots[i].since \in Nat /\ slots[i].since <= written
      BY <2>1, <1>5 DEF FanoutInv, Slot, Live
    <3> QED
      BY <3>1, <3>2, <2>2, <1>1, <1>2, OwedGrows
  <2> QED
    BY <2>3, <2>4
<1> QED
  BY <1>6, <1>7, <1>8, <1>9 DEF FanoutInv

\* maintain may retire secondaries; apart from that nothing changes that the
\* invariant speaks of, but that an error may break the caller.
LEMMA OthersKeep ==
  ASSUME FanoutInv,
         \/ \E fails \in SUBSET Live : Flush(fails) \/ Maintain(fails)
         \/ \E fails \in SUBSET (DOMAIN slots) : Shutdown(fails)
         \/ UNCHANGED vars
  PROVE  FanoutInv'
<1>1. /\ UNCHANGED <<slots, written, torn>>
      /\ broken => broken'
      /\ retired \subseteq retired' /\ retired' \subseteq DOMAIN slots
      /\ Primary \notin retired'
  <2> USE DEF FanoutInv, FanoutTypeOK, Live
  <2>1. ASSUME NEW fails \in SUBSET Live, Flush(fails) PROVE <1>1!:
    BY <2>1 DEF Flush, Returned
  <2>2. ASSUME NEW fails \in SUBSET Live, Maintain(fails) PROVE <1>1!:
    BY <2>2 DEF Maintain, Returned, Retired
  <2>3. ASSUME NEW fails \in SUBSET (DOMAIN slots), Shutdown(fails) PROVE <1>1!:
    BY <2>3 DEF Shutdown, Returned
  <2>4. CASE UNCHANGED vars
    BY <2>4 DEF vars
  <2> QED
    BY <2>1, <2>2, <2>3, <2>4
<1>2. LiveSinksIdentical'
  BY <1>1 DEF FanoutInv, LiveSinksIdentical, Live
<1> QED
  BY <1>1, <1>2 DEF FanoutInv, FanoutTypeOK

-----------------------------------------------------------------------------
\* The invariant holds in every behaviour.
THEOREM FanoutInvariant == Spec => []FanoutInv
<1>1. FanoutInv /\ [Next]_vars => FanoutInv'
  BY AddKeeps, WriteKeeps, OthersKeep DEF Next
<1> QED
  BY FanoutInit, <1>1, PTL DEF Spec

\* Fanout::write: all live sinks have the same bytes, whatever others failed.
THEOREM FanoutLiveSinksIdentical == Spec => []LiveSinksIdentical
<1>1. FanoutInv => LiveSinksIdentical
  BY DEF FanoutInv
<1> QED
  BY <1>1, FanoutInvariant, PTL

\* Fanout::write and maintain: only the primary's failure is the caller's.
THEOREM FanoutRelayContained == Spec => RelayContained
<1>1. FanoutInv /\ [Next]_vars =>
        [last'.call \in {"write", "maintain"} /\ broken' /\ ~broken
           => Primary \in last'.failed \/ slots = <<>>]_vars
  <2> SUFFICES ASSUME FanoutInv, Next, last'.call \in {"write", "maintain"},
                      broken', ~broken, slots # <<>>
               PROVE  Primary \in last'.failed
    OBVIOUS
  <2>1. Primary \in Live
    BY DEF FanoutInv, FanoutTypeOK, Live, Primary
  <2>2. ~Add
    BY DEF Add
  <2>3. ASSUME NEW fails \in SUBSET Live, Write(fails)
        PROVE  Primary \in last'.failed
    BY <2>1, <2>3 DEF Write, Returned
  <2>4. ASSUME NEW fails \in SUBSET Live, Maintain(fails)
        PROVE  Primary \in last'.failed
    BY <2>4 DEF Maintain, MaintainOk, Returned
  <2>5. ASSUME NEW fails \in SUBSET (DOMAIN slots), Flush(fails) \/ Shutdown(fails)
        PROVE  FALSE
    <3>1. last' = [call |-> "flush", failed |-> fails]
          \/ last' = [call |-> "shutdown", failed |-> fails]
      BY <2>5 DEF Flush, Shutdown, Returned
    <3> QED
      BY <3>1
  <2> QED
    BY <2>2, <2>3, <2>4, <2>5 DEF Next, Live
<1> QED
  BY <1>1, FanoutInvariant, PTL DEF Spec, RelayContained
=============================================================================
