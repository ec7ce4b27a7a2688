--------------------------- MODULE MCSymbolCache ---------------------------
(***************************************************************************)
(* Small instances of the cache: a PE image and its PDB (one debug-id,     *)
(* d1), a PDB of the same GUID and another age (d2, sharing the bare UUID  *)
(* u) and an ELF file (d3); bad has d2's identity and does not parse.  D1  *)
(* is an upper-case spelling of d1.                                        *)
(*                                                                         *)
(* A behaviour is one of the cache alone under an arbitrary client, which  *)
(* inserts every module from one origin, or one of the whole state machine *)
(* over a fixed set of sources and a fixed disk with two PDBs.             *)
(***************************************************************************)
EXTENDS SymbolsState

MCSpellings == {"d1", "D1", "d2", "d3", "u"}
MCCanon == [s \in MCSpellings |-> IF s = "D1" THEN "d1" ELSE s]
MCImages == {"pe", "pdb", "pdb2", "elf", "bad"}
MCDebugId == [m \in MCImages |->
    CASE m \in {"pe", "pdb"} -> "d1" [] m \in {"pdb2", "bad"} -> "d2" [] m = "elf" -> "d3"]
MCAliasesOf == [m \in MCImages |->
    CASE m \in {"pe", "pdb"} -> {"d1", "u"}
      [] m \in {"pdb2", "bad"} -> {"d2", "u"} [] m = "elf" -> {"d3"}]
MCBytes == [m \in MCImages |->
    CASE m = "pdb" -> 2 [] m = "elf" -> 3 [] OTHER -> 1]
MCUnitBytes == [m \in MCImages |-> 1]

MCPaths == {"f1", "f2"}
MCLocations == {"usr"}
MCVisits == [l \in MCLocations |-> {<<"f1", "f2">>, <<"f2", "f1">>}]

VARIABLE part   \* what the behaviour is one of: "cache" or "frozen"

MCHome == [path |-> "f1", glob |-> FALSE]
CachePart ==
    /\ part = "cache"
    /\ \/ \E s \in Spellings : Lookup(s) \/ record_miss(s) \/ EvictOne(s)
       \/ \E m \in Images \ Unparsable : insert(m, MCHome)
       \/ EvictStep \/ EvictDone \/ EvictAll \/ to_manifest \/ ColdStart
    /\ UNCHANGED <<regVars, diskVars, call, answer, spec_manifest, part>>

(* No source; one; a disabled one and an enabled one. *)
FrozenSources ==
    {<<>>,
     <<[id |-> 0, kind |-> "dir", loc |-> "usr", enabled |-> TRUE, egress |-> FALSE]>>,
     <<[id |-> 0, kind |-> "dir", loc |-> "usr", enabled |-> FALSE, egress |-> FALSE],
       [id |-> 1, kind |-> "glob", loc |-> "usr", enabled |-> TRUE, egress |-> FALSE]>>}
FrozenPart == part = "frozen" /\ FrozenNext /\ UNCHANGED part

MCInit ==
    \/ /\ part = "cache"
       /\ Init /\ disk = [p \in Paths |-> Absent]
    \/ /\ part = "frozen"
       /\ sources \in FrozenSources /\ next_id = Len(sources)
       /\ disk \in [Paths -> {"pdb", "pdb2", "bad", Junk, Absent}]
       /\ FrozenStart

MCSpec == MCInit /\ [][CachePart \/ FrozenPart]_<<vars, part>> /\ WF_vars(InsertEvicts)
=============================================================================
