--------------------------- MODULE CapturePromise ---------------------------
(***************************************************************************)
(* What offline capture promises about a line of text                      *)
(* (app/lib/providers/capture_queue_providers.dart, the class comment):    *)
(* once it is written down it stays on the device until it is on the       *)
(* server or the user throws it away.  CaptureQueue implements it.         *)
(***************************************************************************)
CONSTANT Lines

VARIABLE place  \* "nowhere", "device", "dropped" or "server"

Init == place = [l \in Lines |-> "nowhere"]

Goes(l, from, to) == place[l] = from /\ place' = [place EXCEPT ![l] = to]

WriteDown(l) == Goes(l, "nowhere", "device")
Arrive(l) == Goes(l, "device", "server")
Drop(l) == Goes(l, "device", "dropped")

(* A line thrown away while its request was on the way may still arrive.   *)
ArriveAnyway(l) == Goes(l, "dropped", "server")

Next == \E l \in Lines : WriteDown(l) \/ Arrive(l) \/ Drop(l) \/ ArriveAnyway(l)

Spec == Init /\ [][Next]_place
=============================================================================
