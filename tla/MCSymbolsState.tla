--------------------------- MODULE MCSymbolsState ---------------------------
(***************************************************************************)
(* Small instances of the composed state machine and of its registry.  Two *)
(* identities: d1 is a PDB (image pdb), d2 a PDB of the same GUID and      *)
(* another age (pdb2), so both answer to the bare UUID u.  D1 is an        *)
(* upper-case spelling of d1.                                              *)
(*                                                                         *)
(* A behaviour is one of the state machine over one file and one source,   *)
(* or one of the registry alone.  Its sources lie over two files: f1 and   *)
(* f2 are under the directory "usr", which may be walked in either order,  *)
(* and the pattern "pat" matches f2.                                       *)
(***************************************************************************)
EXTENDS SymbolsState

MCSpellings == {"d1", "D1", "d2", "u"}
MCCanon == [s \in Spellings |-> IF s = "D1" THEN "d1" ELSE s]
MCImages == {"pdb", "pdb2"}
MCDebugId == [m \in Images |-> IF m = "pdb" THEN "d1" ELSE "d2"]
MCAliasesOf == [m \in Images |-> {MCDebugId[m], "u"}]
MCBytes == [m \in Images |-> IF m = "pdb" THEN 2 ELSE 1]

MCPaths == {"f1", "f2"}
MCLocations == {"usr", "pat"}
MCVisits == [l \in MCLocations |->
    IF l = "usr" THEN {<<"f1", "f2">>, <<"f2", "f1">>} ELSE {<<"f2">>}]

VARIABLE part   \* what the behaviour is one of: "state" or "registry"

OneFile == disk["f2"] = Absent
OneSource == next_id <= 1 /\ \A i \in DOMAIN sources : sources[i].loc # "pat"

StatePart == part = "state" /\ Next /\ (OneFile /\ OneSource)' /\ UNCHANGED part
(* The locator of a source that no lookup reads is never used: one will do. *)
OneRemote == \A i \in DOMAIN sources : sources[i].kind \in LocalKinds \/ sources[i].loc = "usr"
RegistryPart ==
    /\ part = "registry" /\ RegNext /\ OneRemote'
    /\ UNCHANGED <<cacheVars, call, answer, spec_manifest, part>>

MCInit == Init /\ (part = "registry" \/ (part = "state" /\ OneFile))
MCSpec == MCInit /\ [][StatePart \/ RegistryPart]_<<vars, part>> /\ WF_vars(LookupStep)

(* The state machine without the registry's own behaviours. *)
StateSpec == Init /\ part = "state" /\ OneFile /\ [][StatePart]_<<vars, part>>
=============================================================================
