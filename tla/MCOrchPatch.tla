------------------------------ MODULE MCOrchPatch ------------------------------
(* An instance of SwUpdateOrch with the patch thread, which has a setup, next *)
(* to the kubernetes thread.                                                 *)
EXTENDS SwUpdateOrch

PatchAndKube == {"patch", "kubernetes"}

\* Two states of the patch path, the second of which needs the job data again,
\* and one of the kubernetes path.
BriefPath(t) == IF t = "patch" THEN {"updating", "finishing"} ELSE {"kube pre check"}

BriefOperators == [t \in Types |-> BriefPath(t)]

BriefStart == [t \in Types |-> IF t = "patch" THEN "updating" ELSE "kube pre check"]

BriefNext ==
  [t \in Types |-> [s \in BriefPath(t) |->
     IF s = "updating" THEN {"finishing"} ELSE {"complete"}]]

\* One state where only the interplay of the two threads matters.
ShortOperators == [t \in Types |-> {"updating"}]

ShortStart == [t \in Types |-> "updating"]

ShortNext == [t \in Types |-> [s \in {"updating"} |-> {"complete"}]]

OneGroup == [r \in Subclouds |-> 1]

GroupsOfTwo == [r \in Subclouds |-> (r + 1) \div 2]

SecondSerial == [g \in Groups |-> g = 2]

TwoInParallel == [g \in Groups |-> 2]
===============================================================================
