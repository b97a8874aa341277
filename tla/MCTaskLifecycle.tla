--------------------------- MODULE MCTaskLifecycle ---------------------------
(* Small instances of TaskLifecycle: outcome sets for TLC.                 *)
EXTENDS TaskLifecycle

O(w, req) == [w |-> w, req |-> req]
R(res, det) == [res |-> res, det |-> det]

\* One outcome for each row of the diagnosis tables.
AllWorkers == {O("exit0", "REVIEW"), O("exit0", "BLOCKED"), O("exit0", "none"),
               O("exit0", "invalid"), O("exit1", "invalid"), O("signal", "REVIEW"),
               O("timeout", "invalid"), O("launch", "invalid"), O("policy", "REVIEW")}
AllGates == {R("PASS", "none"), R("TIMEOUT", "none"), R("ERROR", "none")}
              \cup {R("FAIL", d) : d \in Details}
AllVerifiers == {R("PASS", "none"), R("policy", "none"), R("launch", "none"),
                 R("timeout", "none"), R("exit1", "none"), R("signal", "none"),
                 R("schema", "none")} \cup {R("FAIL", d) : d \in Details}

\* The outcomes that lead to different controls, for the larger runs.
FewGates == {R("PASS", "none"), R("TIMEOUT", "none")} \cup {R("FAIL", d) : d \in Details}

ThreeWorkers == {O("exit0", "REVIEW"), O("exit0", "BLOCKED"), O("exit1", "invalid")}
TwoWorkers == {O("exit0", "REVIEW"), O("exit0", "BLOCKED")}
GoodWorkers == {O("exit0", "REVIEW")}
Passes == {R("PASS", "none")}
PassOrFail == Passes \cup {R("FAIL", d) : d \in Details}

NoPairs == {}
OneApproved == {<<"t0", "t1">>}
NotDone == States \ {"DONE"}
AllStages == Stages
Resumable == {"loop", "requested", "gate", "verify", "verdict"}
==============================================================================
