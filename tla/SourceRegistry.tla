--------------------------- MODULE SourceRegistry ---------------------------
(***************************************************************************)
(* The ordered registry of symbol sources and the index of their files     *)
(* (symbols-core, source/mod.rs and source/local.rs), over a file system   *)
(* that other processes change.                                            *)
(*                                                                         *)
(* A source has a numeric id (the N of "srcN"), a kind, the locator its    *)
(* kind requires, and the enabled flag.  The index maps a token to the     *)
(* file that answers to it.  It is built source by source on the first     *)
(* lookup that needs it and thrown away when a source is dropped.          *)
(***************************************************************************)
EXTENDS Ids, SequencesExt

CONSTANTS
    Paths,           \* files of the disk
    Locations,       \* directory roots, glob patterns, URLs and buckets
    Visits,          \* Visits[l]: the orders in which a walk of l may meet its files
    Absent,          \* disk value: no readable file
    Junk,            \* disk value: a readable file that is not a debug file
    MaxIndexFiles,   \* MAX_INDEX_FILES
    MaxSources,      \* bound: source ids given out
    MaxDiskChanges   \* bound: changes of the disk

ASSUME RegistryAssumption ==
    /\ Visits \in [Locations -> SUBSET Seq(Paths)]
    /\ MaxIndexFiles \in Nat /\ MaxSources \in Nat /\ MaxDiskChanges \in Nat
    /\ None \notin Locations
    /\ Absent \notin Images /\ Junk \notin Images

VARIABLES
    sources,     \* sequence of source records, in the order they were added
    next_id,
    index,       \* token -> [path, glob]
    indexed,     \* ids of the sources already walked
    disk,        \* path -> image, Junk or Absent
    disk_changes

regVars == <<sources, next_id, index, indexed>>
diskVars == <<disk, disk_changes>>

LocalKinds == {"dir", "glob"}
RemoteKinds == {"debuginfod", "s3", "http"}
Kinds == LocalKinds \cup RemoteKinds \cup {"inline"}
Source == [id : Nat, kind : Kinds, loc : Locations \cup {None},
           enabled : BOOLEAN, egress : BOOLEAN]
Hit == [path : Paths, glob : BOOLEAN]
EmptyIndex == [t \in Tokens |-> None]

ASSUME HitAssumption == None \notin Hit

SourceIds == {sources[i].id : i \in DOMAIN sources}

-----------------------------------------------------------------------------
(* Operations *)

RegInit ==
    /\ sources = <<>> /\ next_id = 0
    /\ index = EmptyIndex /\ indexed = {}
    /\ disk \in [Paths -> Images \cup {Junk, Absent}]
    /\ disk_changes = 0

(* Mutant of Accepted: the kind is not validated. *)
AcceptedAnyKind(kind, loc) == loc # None \/ kind = "inline"

(* Validation of add: an unknown kind, or a missing locator where the kind *)
(* requires one, is refused and changes nothing.                           *)
Accepted(kind, loc) == kind \in Kinds /\ (loc # None \/ kind = "inline")

(* add; en is the optional enabled argument. *)
add(kind, loc, en) ==
    /\ Accepted(kind, loc) /\ next_id < MaxSources
    /\ LET egress == kind \in RemoteKinds IN
       sources' = Append(sources,
            [id |-> next_id, kind |-> kind, loc |-> loc,
             enabled |-> IF en = None THEN ~egress ELSE en, egress |-> egress])
    /\ next_id' = next_id + 1
    /\ UNCHANGED <<index, indexed>>

(* Mutant of drop_source: the index is kept. *)
drop_source_keeps(id) ==
    /\ \E i \in DOMAIN sources :
         sources[i].id = id /\ sources' = RemoveAt(sources, i)
    /\ UNCHANGED <<index, indexed, next_id>>

(* drop_source of a registered id; an unknown id changes nothing. *)
drop_source(id) ==
    /\ \E i \in DOMAIN sources :
         sources[i].id = id /\ sources' = RemoveAt(sources, i)
    /\ index' = EmptyIndex
    /\ indexed' = {}
    /\ UNCHANGED next_id

(* The sources a lookup may read, and those still to be walked. *)
Searchable(s) == s.enabled /\ s.kind \in LocalKinds
Pending(s) == Searchable(s) /\ s.id \notin indexed

(* Mutant of NothingPending: a disabled or remote source counts as pending. *)
NothingUnwalked == \A i \in DOMAIN sources : sources[i].id \in indexed

(* ensure_indexed is through. *)
NothingPending == \A i \in DOMAIN sources : ~Pending(sources[i])

(* index_glob and index_dir: the positions of w at which a walk meets a    *)
(* file, and of those the first MaxIndexFiles.                             *)
FilesMet(w) == {i \in DOMAIN w : disk[w[i]] # Absent}
Listing(w) == {i \in FilesMet(w) : Cardinality({k \in FilesMet(w) : k <= i}) <= MaxIndexFiles}

(* aliases_of: the tokens a file answers to; none if it is no debug file. *)
aliases_of(p) == IF disk[p] \in Images THEN AliasesOf[disk[p]] ELSE {}

(* Where a walk meets files for t. *)
Hits(w, t) == {i \in Listing(w) : t \in aliases_of(w[i])}

(* Mutant of Indexed: the latest source wins. *)
IndexedLatest(w, glob) ==
    [t \in Tokens |->
        IF Hits(w, t) # {} THEN [path |-> w[Min(Hits(w, t))], glob |-> glob] ELSE index[t]]

(* The index after a walk: the first file met for a token, unless an       *)
(* earlier source already had one.                                         *)
Indexed(w, glob) ==
    [t \in Tokens |->
        IF index[t] = None /\ Hits(w, t) # {}
        THEN [path |-> w[Min(Hits(w, t))], glob |-> glob] ELSE index[t]]

(* One iteration of ensure_indexed: the first pending source is walked. *)
IndexSource ==
    \E i \in DOMAIN sources :
      LET s == sources[i] IN
        /\ Pending(s) /\ \A j \in 1..(i - 1) : ~Pending(sources[j])
        /\ \E w \in Visits[s.loc] : index' = Indexed(w, s.kind = "glob")
        /\ indexed' = indexed \cup {s.id}
        /\ UNCHANGED <<sources, next_id>>

(* The end of locate, once nothing is pending: the file indexed for a      *)
(* token, if it can still be read.                                         *)
Found(t) == index[t] # None /\ disk[index[t].path] # Absent

(* Mutant of restore: the counter is set to the greatest restored id. *)
restore_low(specs) ==
    /\ sources' = specs
    /\ next_id' = Max({0} \cup {specs[i].id : i \in DOMAIN specs})
    /\ index' = EmptyIndex
    /\ indexed' = {}

(* restore in a new process: the sources of the manifest, an id counter    *)
(* past every restored id, an empty index.                                 *)
restore(specs) ==
    /\ sources' = specs
    /\ next_id' = Max({0} \cup {specs[i].id + 1 : i \in DOMAIN specs})
    /\ index' = EmptyIndex
    /\ indexed' = {}

(* Another process writes, replaces or deletes a file (external). *)
DiskChange ==
    /\ disk_changes < MaxDiskChanges
    /\ \E p \in Paths, v \in Images \cup {Junk, Absent} :
         disk[p] # v /\ disk' = [disk EXCEPT ![p] = v]
    /\ disk_changes' = disk_changes + 1

(* One source per kind of each behaviour: "http" stands for every remote.  *)
AddAny == \E kind \in {"dir", "glob", "http", "inline", "bogus"},
             loc \in Locations \cup {None}, en \in {TRUE, FALSE, None} : add(kind, loc, en)

RegNext ==
    \/ AddAny /\ UNCHANGED diskVars
    \/ (\E id \in 0..MaxSources : drop_source(id)) /\ UNCHANGED diskVars
    \/ IndexSource /\ UNCHANGED diskVars
    \/ restore(sources) /\ UNCHANGED diskVars
    \/ DiskChange /\ UNCHANGED regVars

RegSpec == RegInit /\ [][RegNext]_<<regVars, diskVars>>

-----------------------------------------------------------------------------
(* Properties *)

(* Types of the registry's state (source/mod.rs, SourceRegistry). *)
RegTypeOK ==
    /\ sources \in Seq(Source)
    /\ next_id \in Nat
    /\ index \in [Tokens -> Hit \cup {None}]
    /\ indexed \subseteq Nat
    /\ disk \in [Paths -> Images \cup {Junk, Absent}]
    /\ disk_changes \in Nat

(* "Keep next_id ahead of any restored id to avoid collisions": source ids *)
(* are unique, and the counter is past all of them, through drops and      *)
(* restarts; drop_source therefore removes one source.                     *)
UniqueSourceIds ==
    /\ \A i, j \in DOMAIN sources : sources[i].id = sources[j].id => i = j
    /\ \A i \in DOMAIN sources : sources[i].id < next_id

(* The files met by some walk of s. *)
FilesOf(s) == UNION {{w[i] : i \in DOMAIN w} : w \in Visits[s.loc]}

(* The air gap and the drop: every indexed file lies under a source that   *)
(* is registered now, enabled, local and walked.  A dropped, disabled or   *)
(* remote source answers nothing.                                          *)
IndexFromLiveSources ==
    \A t \in Tokens : index[t] # None =>
        \E i \in DOMAIN sources :
            /\ Searchable(sources[i]) /\ sources[i].id \in indexed
            /\ index[t].path \in FilesOf(sources[i])
            /\ index[t].glob = (sources[i].kind = "glob")

(* Sources are walked in the order they were added: no source is walked    *)
(* before an earlier one the lookup may read, and only registered ones     *)
(* count as walked.                                                        *)
WalkedInOrder ==
    /\ indexed \subseteq SourceIds
    /\ \A i, j \in DOMAIN sources :
         i < j /\ sources[j].id \in indexed => ~Pending(sources[i])

(* "Resolve order is the order sources were added; first debug-id match    *)
(* wins": on a disk that does not change, a token is served from a source  *)
(* no later than any walked source every walk of which meets a file for    *)
(* it, and it is served whenever there is such a source.                   *)
CertainlyHas(s, t) ==
    \A w \in Visits[s.loc] : Hits(w, t) # {}

FirstMatchWins ==
    disk_changes = 0 =>
        \A t \in Tokens, j \in DOMAIN sources :
            sources[j].id \in indexed /\ CertainlyHas(sources[j], t) =>
                \E i \in 1..j : /\ sources[i].id \in indexed
                                /\ index[t] # None
                                /\ index[t].path \in FilesOf(sources[i])
                                /\ index[t].glob = (sources[i].kind = "glob")
=============================================================================
