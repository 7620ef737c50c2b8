---------------------------- MODULE ScanContract ----------------------------
(***************************************************************************)
(* What the scan API keeps towards its client, whatever processes, queues  *)
(* and caches are behind it: a real scan is reported as succeeded only     *)
(* after its hosts were evaluated and their drift events given to the      *)
(* store, and nothing once reported is taken back.  When the events can be *)
(* read is not part of it: they land later, or not at all.  A sample-data  *)
(* scan is reported as succeeded by age alone.                             *)
(***************************************************************************)
CONSTANT Jobs

VARIABLES
  accepted,  \* accepted[j]: "none", "sample" or "real"
  handed,    \* handed[j]: the drift events of j were given to the store
  landed,    \* landed[j]: they can be read by every process
  shown      \* shown[j]: the terminal statuses reported for j

vars == <<accepted, handed, landed, shown>>

Init ==
  /\ accepted = [j \in Jobs |-> "none"]
  /\ handed = [j \in Jobs |-> FALSE]
  /\ landed = [j \in Jobs |-> FALSE]
  /\ shown = [j \in Jobs |-> {}]

Accept(j) ==
  /\ accepted[j] = "none"
  /\ \E kind \in {"sample", "real"} :
       accepted' = [accepted EXCEPT ![j] = kind]
  /\ UNCHANGED <<handed, landed, shown>>

HandOver(j) ==
  /\ accepted[j] = "real"
  /\ handed' = [handed EXCEPT ![j] = TRUE]
  /\ UNCHANGED <<accepted, landed, shown>>

Land(j) ==
  /\ handed[j]
  /\ landed' = [landed EXCEPT ![j] = TRUE]
  /\ UNCHANGED <<accepted, handed, shown>>

ReportSuccess(j) ==
  /\ accepted[j] = "sample" \/ handed[j]
  /\ shown' = [shown EXCEPT ![j] = @ \cup {"succeeded"}]
  /\ UNCHANGED <<accepted, handed, landed>>

ReportFailure(j) ==
  /\ accepted[j] = "real"
  /\ shown' = [shown EXCEPT ![j] = @ \cup {"failed"}]
  /\ UNCHANGED <<accepted, handed, landed>>

Next ==
  \E j \in Jobs :
    Accept(j) \/ HandOver(j) \/ Land(j) \/ ReportSuccess(j) \/ ReportFailure(j)

Spec == Init /\ [][Next]_vars
=============================================================================
