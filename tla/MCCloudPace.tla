---------------------------- MODULE MCCloudPace ----------------------------
(* Model values for CloudPace: a minute of four ticks, so that the cap's     *)
(* window opens and closes before the horizon.                              *)
EXTENDS CloudPace

(* The pace the window starts from, and one it can be changed to. *)
Wide   == [delay |-> 1, jitter |-> 1, cap |-> 2]
Narrow == [delay |-> 2, jitter |-> 0, cap |-> 1]

MCPaces == {Wide, Narrow}

(* A Retry-After date one tick past, and a back-off of two ticks. *)
MCBackoffs == {-1, 2}
=============================================================================
