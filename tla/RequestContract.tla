-------------------------- MODULE RequestContract --------------------------
(***************************************************************************)
(* The asynchronous request contract of API.md 316-321, as MpvPlayer's     *)
(* callers see it: ids are positive and increase, each admitted id gets    *)
(* exactly one terminal notification, none is admitted once the player is  *)
(* shut down or its core is gone, and no admitted request is forgotten.    *)
(***************************************************************************)
EXTENDS Integers

CONSTANT MaxPublicId     (* the largest id; INT_MAX in the code             *)

VARIABLES
  status,                (* what the caller knows about each id             *)
  last,                  (* the last id handed out, 0 before the first      *)
  open                   (* whether requests are still admitted             *)

vars == <<status, last, open>>
Ids == 1 .. MaxPublicId

Init ==
  /\ status = [id \in Ids |-> "unused"]
  /\ last = 0
  /\ open \in BOOLEAN

Admit(id) ==
  /\ open
  /\ id > last
  /\ status[id] = "unused"
  /\ status' = [status EXCEPT ![id] = "pending"]
  /\ last' = id
  /\ UNCHANGED open

\* An id may be spent on a request that is refused after all.
Skip(id) ==
  /\ open
  /\ id > last
  /\ last' = id
  /\ UNCHANGED <<status, open>>

Settle(id) ==
  /\ status[id] = "pending"
  /\ status' = [status EXCEPT ![id] = "settled"]
  /\ UNCHANGED <<last, open>>

Close == open /\ open' = FALSE /\ UNCHANGED <<status, last>>

Next == Close \/ \E id \in Ids : Admit(id) \/ Skip(id) \/ Settle(id)

Spec == Init /\ [][Next]_vars /\ \A id \in Ids : WF_vars(Settle(id))
=============================================================================
