----------------------------- MODULE MCHostTools -----------------------------
(* The two host tools, zenuniverse and zenpkg.  They share no file, so of   *)
(* each behaviour one of them is run and the other does nothing.            *)
EXTENDS MCUniverse, MCZenPkg

UniverseAtRest ==
    /\ dir = <<>> /\ inodes = <<>> /\ out = [o \in Outputs |-> Absent]
    /\ cmd = Idle /\ report = NoReport /\ past = {}
    /\ edits = MaxEdits /\ runs = MaxRuns

ZenPkgAtRest ==
    /\ disk = [n \in Names |-> Gone] /\ job = NoJob /\ outcome = NoOutcome
    /\ rewrites = MaxRewrites /\ jobs = MaxJobs

ToolsInit == (Init /\ ZenPkgAtRest) \/ (ZenPkgInit /\ UniverseAtRest)

ToolsNext ==
    \/ Next /\ UNCHANGED zenpkg_vars
    \/ ZenPkgNext /\ UNCHANGED vars

ToolsSpec == ToolsInit /\ [][ToolsNext]_<<vars, zenpkg_vars>>
=============================================================================
