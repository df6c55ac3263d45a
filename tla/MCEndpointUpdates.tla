--------------------------- MODULE MCEndpointUpdates ---------------------------
(* Two patches, one of a release the subcloud does not have; two devices; two *)
(* images of the same content, of which one is for both devices.              *)
EXTENDS EndpointUpdates

CONSTANTS p1, p2

OneContent == [i \in Images |-> "bitstream"]

FirstForBoth == [i \in Images |-> IF i = 1 THEN Devices ELSE {1}]
================================================================================
