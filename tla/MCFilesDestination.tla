------------------------- MODULE MCFilesDestination -------------------------
(* Transfers into one output directory, one of them with single_file. *)
EXTENDS FilesDestination

CONSTANTS r1, r2, r3

MCRuns == {r1, r2, r3}
MCPair == {r1, r2}
MCSingleFile == {{}, {r2}}
MCPlain == {{}}
MCFaults == {{"report"}, {"crash", "remove", "rename", "cleanup", "report"}}
MCNoFault == {{}}
MCCrash == {{"crash"}}
==============================================================================
