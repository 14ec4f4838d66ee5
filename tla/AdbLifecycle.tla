---------------------------- MODULE AdbLifecycle ----------------------------
(***************************************************************************)
(* What the rest of adb relies on about a transport: it comes online only  *)
(* while it starts; it goes offline once, and the main thread is done with *)
(* handle_offline() before the input thread sweeps its sockets; it is freed *)
(* only after the sweep.  AdbTransport implements this with three threads, *)
(* and AdbStreams uses no more of a transport than this.                   *)
(***************************************************************************)
CONSTANT Links

VARIABLE phase

Phase == {"absent", "starting", "online", "offline", "swept", "freed"}

Init == phase \in [Links -> {"absent", "online"}]

Becomes(l, from, to) ==
    /\ phase[l] \in from
    /\ phase' = [phase EXCEPT ![l] = to]

Start(l) == Becomes(l, {"absent"}, "starting")

Online(l) == Becomes(l, {"starting"}, "online")

Offline(l) == Becomes(l, {"starting", "online"}, "offline")

Sweep(l) == Becomes(l, {"offline"}, "swept")

Free(l) == Becomes(l, {"swept"}, "freed")

Next == \E l \in Links :
    Start(l) \/ Online(l) \/ Offline(l) \/ Sweep(l) \/ Free(l)

Spec == Init /\ [][Next]_phase
=============================================================================
