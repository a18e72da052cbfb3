------------------------------ MODULE WorkQueue ------------------------------
(***************************************************************************)
(* What the stream queue promises, whoever works it off and however often  *)
(* the workers die (src/src/domain/stream/queue_service.py,                *)
(* src/src/cli/console.py, cron_queue): a submitted item is worked on at   *)
(* least once or withdrawn; withdrawn items do not come back; and an item  *)
(* that was handed out once is worked on once, and finished by the worker  *)
(* that took it.                                                           *)
(*                                                                         *)
(* StreamQueue implements it: an item's life is its status column, and     *)
(* `again' are the items that two passes hold or that are retried while a  *)
(* pass holds them.                                                        *)
(***************************************************************************)
EXTENDS Naturals

CONSTANT Items

VARIABLES
    life,   \* item -> "unborn", "waiting", "working", "done" or "withdrawn"
    again   \* items handed out a second time before the first came back

vars == <<life, again>>

Present(i) == life[i] \in {"waiting", "working", "done"}

Init ==
    /\ life  = [i \in Items |-> "unborn"]
    /\ again = {}

Become(i, l) == life' = [life EXCEPT ![i] = l]

Submit(i) ==
    /\ life[i] = "unborn"
    /\ Become(i, "waiting")
    /\ UNCHANGED again

Withdraw(items) ==
    /\ \A i \in items : Present(i)
    /\ life' = [i \in Items |-> IF i \in items THEN "withdrawn" ELSE life[i]]
    /\ UNCHANGED again

Resubmit(i) ==
    /\ Present(i)
    /\ Become(i, "waiting")
    /\ again' \in {again, again \cup {i}}

HandOut(items) ==
    /\ \A i \in items : life[i] = "waiting"
    /\ again' = again \cup items
    /\ UNCHANGED life

(* Only what was handed out twice is taken up in another state. *)
Take(i) ==
    /\ Present(i)
    /\ life[i] = "waiting" \/ i \in again
    /\ Become(i, "working")
    /\ UNCHANGED again

Finish(i) ==
    /\ Present(i)
    /\ life[i] = "working" \/ i \in again
    /\ Become(i, "done")
    /\ UNCHANGED again

Next ==
    \/ \E i \in Items : Submit(i) \/ Resubmit(i) \/ Take(i) \/ Finish(i)
    \/ \E items \in SUBSET Items : Withdraw(items) \/ HandOut(items)

Safety == Init /\ [][Next]_vars

(* A waiting item is taken up, if it goes on waiting. *)
Spec == Safety /\ \A i \in Items : WF_vars(life[i] = "waiting" /\ Take(i))
=============================================================================
