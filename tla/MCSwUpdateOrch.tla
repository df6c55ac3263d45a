---------------------------- MODULE MCSwUpdateOrch ----------------------------
(* Instances of SwUpdateOrch: the kubernetes upgrade thread with its three  *)
(* operator states, over a parallel group and a serial one.                 *)
EXTENDS SwUpdateOrch

KubeTypes == {"kubernetes"}

KubeOperators ==
  [t \in KubeTypes |-> {"pre check", "creating vim", "applying vim"}]

KubeStart == [t \in KubeTypes |-> "pre check"]

KubeNext ==
  [t \in KubeTypes |-> [s \in KubeOperators[t] |->
     CASE s = "pre check" -> {"creating vim", "complete"}
       [] s = "creating vim" -> {"applying vim"}
       [] s = "applying vim" -> {"complete"}]]

GroupsOfTwo == [r \in Subclouds |-> 1 + (r - 1) \div 2]

SecondSerial == [g \in Groups |-> g = 2]

TwoInParallel == [g \in Groups |-> 2]
===============================================================================
