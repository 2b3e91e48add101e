----------------------------- MODULE MCRuntime ------------------------------
(* Both halves of the runtime in one run: the parts under a MUL_MAT_ID call *)
(* (MCIo) and those of a process that runs a model from Python (MCHost).    *)
(* They share nothing: an execution is one of one half, and the other stays *)
(* in its initial state.                                                    *)
EXTENDS MCIo, MCHost

VARIABLE side

runtimeVars == <<side, ioVars, hostVars>>

RuntimeInit ==
  /\ side \in {"io", "host"}
  /\ IoInit /\ (side = "host" => part = "slab")
  /\ HostInit /\ (side = "io" => hostPart = "bank")

IoRuns   == side = "io" /\ IoNext
HostRuns == side = "host" /\ HostNext

RuntimeNext ==
  /\ UNCHANGED side
  /\ \/ IoRuns /\ UNCHANGED hostVars
     \/ HostRuns /\ UNCHANGED ioVars

RuntimeSpec == RuntimeInit /\ [][RuntimeNext]_runtimeVars /\ IoFair /\ HostFair
=============================================================================
