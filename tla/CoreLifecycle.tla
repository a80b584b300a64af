--------------------------- MODULE CoreLifecycle ---------------------------
(***************************************************************************)
(* What the retirement machinery of mpvrenderbridge.cpp promises to the    *)
(* rest of the library, without its slots, semaphore and threads: a native *)
(* core is owned by one lease, then retired, then destroyed exactly once   *)
(* by somebody other than the releaser; never more than Capacity cores     *)
(* exist; and retired cores keep being destroyed.                          *)
(***************************************************************************)
EXTENDS Integers, FiniteSets

CONSTANTS Handles,    (* native core handles (libmpv may reuse an address)  *)
          Capacity    (* the bound on outstanding cores                     *)

VARIABLE phase        (* where each handle is in its life                   *)

Outstanding == {h \in Handles : phase[h] # "none"}

Init == phase = [h \in Handles |-> "none"]

Create(h) ==
  /\ phase[h] = "none"
  /\ Cardinality(Outstanding) < Capacity
  /\ phase' = [phase EXCEPT ![h] = "owned"]

Retire(h) ==
  /\ phase[h] = "owned"
  /\ phase' = [phase EXCEPT ![h] = "retired"]

Destroy(h) ==
  /\ phase[h] = "retired"
  /\ phase' = [phase EXCEPT ![h] = "none"]

Next == \E h \in Handles : Create(h) \/ Retire(h) \/ Destroy(h)

\* Some retired core is always eventually destroyed. Which one is left open:
\* the workers take slots first-fit, so no order among them is promised.
Progress == WF_phase(\E h \in Handles : Destroy(h))

Spec == Init /\ [][Next]_phase /\ Progress
=============================================================================
