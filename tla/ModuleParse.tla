---------------------------- MODULE ModuleParse -----------------------------
(***************************************************************************)
(* Parsing of a debug file into a module, and the cheap probe that derives *)
(* its identity for an index (symbols-core, module/mod.rs, module/dwarf.rs,*)
(* module/pdb.rs, id.rs).                                                  *)
(*                                                                         *)
(* The readers of object files, DWARF and PDB are external: each part of a *)
(* file that an operation asks for is read (fine), refused (ERR) or makes  *)
(* the library panic (PANIC), and a part asked for twice answers the same. *)
(* The compilation units and the identifier in the header are properties   *)
(* of the file.                                                            *)
(***************************************************************************)
EXTENDS Integers, Sequences, FiniteSetsExt, Functions

CONSTANTS
    MaxUnits,       \* Limits::max_units
    MaxUnitCount,   \* bound: units of a file
    SourceFiles,    \* bound: the source files a line program may name
    Uuids,          \* bound: GUIDs, UUIDs and build-id notes
    Ages            \* bound: ages of a PDB

ASSUME ParseAssumption ==
    MaxUnits \in Nat /\ MaxUnitCount \in Nat /\ IsFiniteSet(SourceFiles)

VARIABLES
    pdb,      \* whether the file opens with the PDB magic
    header,   \* the identifier in its header: [guid, age]
    large,    \* whether it is longer than Limits::max_parse_bytes
    units,    \* the compilation units of its DWARF
    read,     \* what the readers have answered: part -> "fine", "ERR", "PANIC"
    op,       \* the operation under way: "probe", "parse" or "idle"
    todo,     \* the steps it has still to take
    seen,     \* dwarf_stats: units walked
    stats,    \* dwarf_stats: [files, line]
    outcome   \* the result of each operation: an error kind, PANIC or a module's [identity, info]

parseVars == <<pdb, header, large, units, read, op, todo, seen, stats, outcome>>

(* A unit has no decodable header (the walk ends there), does not decode,  *)
(* panics, has no line program, or has one that names some files.          *)
UnitItems == [is : {"BADHEADER", "BADUNIT", "PANIC", "NOLINE"}, files : {{}}]
             \cup [is : {"LINES"}, files : SUBSET SourceFiles]

Ops == {"probe", "parse"}
Pending == [error |-> "none"]
Failure(kind) == [error |-> kind]
ErrorKinds == {"alloc_cap", "bad_magic", "unsupported_format", "truncated", "bad_build_id",
               "corrupt_line_program"}
IsModule(r) == r.error = "no"

-----------------------------------------------------------------------------
(* The steps of each operation, in order: the part that is read, and the   *)
(* error it fails with, unless the operation does without the part.        *)

Step(part, fails) == [part |-> part, fails |-> fails]

(* identity_from_object, which the probe and the parse of an ELF, Mach-O   *)
(* or PE file both call.                                                   *)
ObjectSteps ==
    <<Step("kind", "bad_magic"), Step("container", "unsupported_format"),
      Step("object", "truncated"), Step("id", "bad_build_id")>>

(* A parse opens the object again, which answers as before. *)
DwarfSteps ==
    ObjectSteps \o <<Step("units", "tolerated"), Step("context", "corrupt_line_program")>>

(* A PDB without a readable machine type has the architecture "unknown",   *)
(* one whose functions cannot be counted has 0 of them.  The parse derives *)
(* the identity in lines of its own.                                       *)
PdbProbeSteps ==
    <<Step("open", "bad_magic"), Step("info", "bad_build_id"), Step("machine", "tolerated")>>

PdbParseSteps ==
    <<Step("open", "bad_magic"), Step("info", "bad_build_id"), Step("machine", "tolerated"),
      Step("data", "truncated"), Step("count", "tolerated")>>

Steps(o) ==
    IF o = "probe" THEN IF pdb THEN PdbProbeSteps ELSE ObjectSteps
    ELSE IF pdb THEN PdbParseSteps ELSE DwarfSteps

-----------------------------------------------------------------------------
ParseInit ==
    /\ pdb \in BOOLEAN /\ large \in BOOLEAN
    /\ header \in [guid : Uuids, age : Ages]
    /\ units \in IF pdb THEN {<<>>} ELSE UNION {[1..n -> UnitItems] : n \in 0..MaxUnitCount}
    /\ read = <<>> /\ op = "idle" /\ todo = <<>>
    /\ seen = 0 /\ stats = [files |-> 0, line |-> FALSE]
    /\ outcome = [o \in Ops |-> Pending]

Finish(r) == op' = "idle" /\ todo' = <<>> /\ outcome' = [outcome EXCEPT ![op] = r]

(* Only a parse looks at the size, before it reads anything. *)
ParseBegin(o) ==
    /\ op = "idle" /\ outcome[o] = Pending
    /\ IF o = "parse" /\ large
       THEN /\ outcome' = [outcome EXCEPT ![o] = Failure("alloc_cap")]
            /\ UNCHANGED <<op, todo>>
       ELSE /\ op' = o /\ todo' = Steps(o)
            /\ UNCHANGED outcome
    /\ UNCHANGED <<pdb, header, large, units, read, seen, stats>>

(* What a part may answer: the kind of container is matched, not decoded,  *)
(* and cannot panic.                                                       *)
Answers(part) ==
    IF part \in DOMAIN read THEN {read[part]}
    ELSE {"fine", "ERR"} \cup IF part = "container" THEN {} ELSE {"PANIC"}

Reading(answer) ==
    /\ op # "idle" /\ todo # <<>> /\ Head(todo).part # "units"
    /\ LET part == Head(todo).part
       IN  /\ answer \in Answers(part)
           /\ read' = [p \in DOMAIN read \cup {part} |-> IF p = part THEN answer ELSE read[p]]
    /\ UNCHANGED <<pdb, header, large, units, seen, stats>>

ReadPart ==
    /\ \E answer \in {"fine", "ERR"} :
          Reading(answer) /\ (answer = "ERR" => Head(todo).fails = "tolerated")
    /\ todo' = Tail(todo)
    /\ UNCHANGED <<op, outcome>>

RefusePart ==
    /\ Reading("ERR") /\ Head(todo).fails # "tolerated"
    /\ Finish(Failure(Head(todo).fails))

(* Mutant of Panicked: the parse is not guarded. *)
Unguarded == Failure("PANIC")

(* A parse runs under catch_unwind; the probe does not. *)
Panicked == Failure(IF op = "parse" THEN "corrupt_line_program" ELSE "PANIC")

PartPanics == Reading("PANIC") /\ Finish(Panicked)

-----------------------------------------------------------------------------
(* The walk of the compilation units. *)

Walking == op = "parse" /\ todo # <<>> /\ Head(todo).part = "units"
AtEnd == seen = Len(units) \/ seen >= MaxUnits

(* The walk ends at the cap, at the last unit, or where no header decodes. *)
EndUnits ==
    /\ Walking
    /\ ~AtEnd => units[seen + 1].is = "BADHEADER"
    /\ todo' = Tail(todo)
    /\ UNCHANGED <<pdb, header, large, units, read, op, seen, stats, outcome>>

(* Mutant of WalkUnit: a unit that does not decode is not counted as seen. *)
WalkUnitUncapped ==
    /\ Walking /\ Len(SelectSeq(SubSeq(units, 1, seen), LAMBDA u : u.is # "BADUNIT")) < MaxUnits
    /\ seen < Len(units) /\ units[seen + 1].is \notin {"BADHEADER", "PANIC"}
    /\ seen' = seen + 1
    /\ stats' = [files |-> stats.files + Cardinality(units[seen + 1].files),
                 line  |-> stats.line \/ units[seen + 1].is = "LINES"]
    /\ UNCHANGED <<pdb, header, large, units, read, op, todo, outcome>>

(* Every unit with a header counts against the cap; one that does not      *)
(* decode adds nothing, and the walk goes on behind it.                    *)
WalkUnit ==
    /\ Walking /\ ~AtEnd
    /\ units[seen + 1].is \notin {"BADHEADER", "PANIC"}
    /\ seen' = seen + 1
    /\ stats' = [files |-> stats.files + Cardinality(units[seen + 1].files),
                 line  |-> stats.line \/ units[seen + 1].is = "LINES"]
    /\ UNCHANGED <<pdb, header, large, units, read, op, todo, outcome>>

UnitPanics ==
    /\ Walking /\ ~AtEnd /\ units[seen + 1].is = "PANIC"
    /\ Finish(Panicked)
    /\ UNCHANGED <<pdb, header, large, units, read, seen, stats>>

-----------------------------------------------------------------------------
(* The end of an operation. *)

MachineArch == IF read["machine"] = "ERR" THEN "unknown" ELSE "known"

identity_from_object ==
    [format |-> "object", arch |-> "known",
     debug_id |-> header, raw_build_id |-> header.guid]

(* Mutant of pdb_identity: the age is left out. *)
pdb_identity_no_age ==
    [format |-> "pdb", arch |-> MachineArch,
     debug_id |-> [header EXCEPT !.age = 0], raw_build_id |-> header.guid]

(* The identity a probe derives from a PDB ... *)
pdb_identity ==
    [format |-> "pdb", arch |-> MachineArch,
     debug_id |-> header, raw_build_id |-> header.guid]

(* ... and the one its parse does. *)
PdbModule_identity ==
    LET guid == header.guid
        age == header.age
    IN  [format |-> "pdb", arch |-> MachineArch,
         debug_id |-> [guid |-> guid, age |-> age], raw_build_id |-> guid]

identity(o) ==
    IF ~pdb THEN identity_from_object
    ELSE IF o = "probe" THEN pdb_identity ELSE PdbModule_identity

(* The triage view of a parsed module.  A PDB is taken to have lines. *)
PdbInfo == [has_dwarf |-> FALSE, has_pdb |-> TRUE, has_line_table |-> TRUE, file_count |-> 0]

DwarfInfo ==
    [has_dwarf |-> stats.line \/ stats.files > 0, has_pdb |-> FALSE,
     has_line_table |-> stats.line, file_count |-> stats.files]

info == IF pdb THEN PdbInfo ELSE DwarfInfo

ParseReturn ==
    /\ op # "idle" /\ todo = <<>>
    /\ Finish([error |-> "no", identity |-> identity(op), info |-> info])
    /\ UNCHANGED <<pdb, header, large, units, read, seen, stats>>

ParseDone == (\A o \in Ops : outcome[o] # Pending) /\ UNCHANGED parseVars

ParseNext ==
    \/ \E o \in Ops : ParseBegin(o)
    \/ ReadPart \/ RefusePart \/ PartPanics
    \/ EndUnits \/ WalkUnit \/ UnitPanics
    \/ ParseReturn \/ ParseDone

ParseSpec == ParseInit /\ [][ParseNext]_parseVars /\ WF_parseVars(ParseNext)

-----------------------------------------------------------------------------
(* Properties *)

(* The index and the cache see the same module: a file that parses has the *)
(* identity its probe gives it (architecture, debug-id and raw build-id),  *)
(* so that it is found under the keys the parsed module is kept under; and *)
(* a file whose probe fails fails to parse for the same reason.  For a PDB *)
(* both derive it in code of their own (module/pdb.rs, parse and           *)
(* pdb_identity).                                                          *)
ProbeAgrees ==
    LET probed == outcome["probe"]
        parsed == outcome["parse"]
    IN  probed # Pending /\ parsed \notin {Pending, Failure("alloc_cap")} =>
          /\ IsModule(parsed) => IsModule(probed) /\ probed.identity = parsed.identity
          /\ probed.error \in ErrorKinds => parsed = probed

(* The statistics of a parse lie between what the units up to the first    *)
(* decode error hold, each source file counted once, and what all units    *)
(* up to the first undecodable header hold, its files counted in every     *)
(* unit; neither looks beyond max_units.  (dwarf_stats goes on behind a    *)
(* unit that does not decode, and adds up the units' files; its comment    *)
(* has it stop there, and count distinct files.)                           *)
StatsOfUnits ==
    LET parsed == outcome["parse"]
        walked == {i \in DOMAIN units :
                     i <= MaxUnits /\ \A j \in 1..i : units[j].is # "BADHEADER"}
        intact == {i \in walked : \A j \in 1..i : units[j].is # "BADUNIT"}
        files == [i \in DOMAIN units |-> Cardinality(units[i].files)]
    IN  IsModule(parsed) /\ ~pdb =>
          /\ parsed.info.file_count >= Cardinality(UNION {units[i].files : i \in intact})
          /\ parsed.info.file_count <= SumFunctionOnSet(files, walked)
          /\ (\E i \in intact : units[i].is = "LINES") => parsed.info.has_line_table
          /\ parsed.info.has_line_table => \E i \in walked : units[i].is = "LINES"

(* "Untrusted bytes yield a clean SymError, never a crash": every parse    *)
(* ends, and it ends in a module or an error kind whatever the readers do. *)
ParseEnds ==
    <>(outcome["parse"].error \in ErrorKinds \cup {"no"})
=============================================================================
