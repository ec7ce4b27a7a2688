------------------------------ MODULE MCWorker ------------------------------
(***************************************************************************)
(* Small instances of the worker: a PDB (d1) and an ELF debug file (d2) in *)
(* a cache that holds one module, so that rows of one batch evict each     *)
(* other's modules.                                                        *)
(***************************************************************************)
EXTENDS Worker

MCSpellings == {"d1", "d2"}
MCCanon == [s \in MCSpellings |-> s]
MCImages == {"pdb", "elf"}
MCDebugId == [m \in MCImages |-> IF m = "pdb" THEN "d1" ELSE "d2"]
MCAliasesOf == [m \in MCImages |-> {MCDebugId[m]}]
MCBytes == [m \in MCImages |-> 1]

MCPaths == {"f1", "f2"}
MCLocations == {"usr"}
MCVisits == [l \in MCLocations |-> {<<"f1", "f2">>}]

Wide(s) == [id |-> s, addr |-> "wide"]
Narrow(s) == [id |-> s, addr |-> "narrow"]
NullId == [id |-> None, addr |-> "wide"]
(* One directory is registered; f1 is d1's file, f2 is d2's, junk or gone. *)
MCInit ==
    /\ CacheInit
    /\ sources = <<[id |-> 0, kind |-> "dir", loc |-> "usr", enabled |-> TRUE, egress |-> FALSE]>>
    /\ next_id = 1 /\ index = EmptyIndex /\ indexed = {}
    /\ disk \in {[p \in Paths |-> IF p = "f1" THEN "pdb" ELSE v] : v \in {"elf", Junk, Absent}}
    /\ disk_changes = 0
    /\ call = Idle /\ answer = NoAnswer /\ spec_manifest = <<>>
    /\ WorkerIdle
MCSpec == MCInit /\ WorkerRuns

MCBatches == {<<NullId, Wide("d1"), Narrow("d2"), Wide("d2"), Wide("d1")>>}
=============================================================================
