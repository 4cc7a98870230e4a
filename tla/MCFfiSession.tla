---------------------------- MODULE MCFfiSession ---------------------------
(* Who calls what, for the runs of FfiSession. *)
EXTENDS FfiSession

\* Every application thread makes every call.
AllCalls == [a \in Apps |-> Calls]

\* One thread controls the session, any other may only stop it: what the
\* crate's documentation calls safe from any thread.
ControlAndStop == [a \in Apps |-> IF a = "ui" THEN Calls ELSE {"stop"}]
=============================================================================
