----------------------------- MODULE MCSandbox -----------------------------
(***************************************************************************)
(* Sandbox on small instances: a behaviour types into the console, or runs *)
(* commands and answers a question, or has a guest busy with its devices.  *)
(***************************************************************************)
EXTENDS Sandbox

Load(calls, methods, packets, console, vsock, prints, cpus) ==
    [calls |-> calls, methods |-> methods, packets |-> packets, prints |-> prints, cpus |-> cpus,
     offers |-> [d \in Devices |-> IF d = "console" THEN console ELSE vsock]]

MCLoads ==
    {Load(3, {"write", "stop"}, 0, 1, 0, 0, FALSE),
     Load(3, {"exec", "reply", "stop"}, 0, 0, 0, 0, FALSE),
     Load(1, {}, 2, 0, 1, 0, FALSE),
     Load(1, {}, 0, 0, 0, 1, TRUE)}
=============================================================================
