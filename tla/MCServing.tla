------------------------------ MODULE MCServing -------------------------------
(* Serving.tla, small.  Three servers and a lock that is stale after three   *)
(* heartbeats.  Two versions: the first breaks what worked, the second never *)
(* comes up.  Three containers, so two full updates, of which the engine may *)
(* refuse or give up any call and the companion die before any, three times. *)
EXTENDS Serving

AllCalls == {"inspect", "pull", "unpark", "stop", "park", "create", "start", "settle",
             "stopNew", "removeNew", "unparkOld", "startOld"}
==============================================================================
