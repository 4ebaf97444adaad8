--------------------------- MODULE TaskSuccession ---------------------------
(***************************************************************************)
(* What the controller's tasks promise for each kind of task of each       *)
(* station (a slot): requests are taken up in the order in which they were *)
(* made, at most one is at work, and one that begins supersedes the one    *)
(* before it.  A request may be refused, or end the moment it begins.      *)
(***************************************************************************)
EXTENDS Integers

CONSTANT Slots

VARIABLES
  waiting,  \* the requests of a slot that have not been taken up
  latest,   \* the request of a slot taken up last, -1 if none
  atWork    \* whether it is still at work

vars == <<waiting, latest, atWork>>

Init ==
  /\ waiting = [x \in Slots |-> {}]
  /\ latest = [x \in Slots |-> -1]
  /\ atWork = [x \in Slots |-> FALSE]

IsNext(x, i) == i \in waiting[x] /\ \A j \in waiting[x] : i <= j

\* A request is younger than everything its slot has seen.
Ask(x) ==
  /\ \E i \in waiting'[x] : /\ i > latest[x] /\ \A j \in waiting[x] : i > j
                            /\ waiting'[x] = waiting[x] \cup {i}
  /\ latest'[x] = latest[x]
  /\ atWork'[x] = atWork[x]

Begin(x) ==
  \E i \in waiting[x] : /\ IsNext(x, i)
                        /\ waiting'[x] = waiting[x] \ {i}
                        /\ latest'[x] = i

Refuse(x) ==
  /\ \E i \in waiting[x] : IsNext(x, i) /\ waiting'[x] = waiting[x] \ {i}
  /\ latest'[x] = latest[x]
  /\ atWork'[x] = atWork[x]

End(x) ==
  /\ atWork[x] /\ ~atWork'[x]
  /\ waiting'[x] = waiting[x]
  /\ latest'[x] = latest[x]

Stay(x) ==
  /\ waiting'[x] = waiting[x]
  /\ latest'[x] = latest[x]
  /\ atWork'[x] = atWork[x]

(* One handler may concern several slots, each of which makes one step.    *)
Next == \A x \in Slots : Ask(x) \/ Begin(x) \/ Refuse(x) \/ End(x) \/ Stay(x)

Spec == Init /\ [][Next]_vars

=============================================================================
