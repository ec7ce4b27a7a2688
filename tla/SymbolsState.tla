---------------------------- MODULE SymbolsState ----------------------------
(***************************************************************************)
(* The symbolication state machine (symbols-core, state.rs) under the      *)
(* worker's global lock (symbols-worker, state.rs): the source registry    *)
(* and the module cache composed by ensure_resident.                       *)
(*                                                                         *)
(* A lookup (resolve or function_name) runs to its end under the lock, so  *)
(* no other call of the worker interleaves with it; the file system does,  *)
(* a parser may panic in it, and the process may die in it.  call holds    *)
(* its program counter:                                                    *)
(*   idle       no call is running                                         *)
(*   locating   neither resident nor a known miss: sources are walked      *)
(*   inserting  a parsed module is in, the eviction loop is running        *)
(* answer is the result of the last call if that was a lookup: the image   *)
(* it resolved against, not_found, or an error frame.                      *)
(***************************************************************************)
EXTENDS SymbolCache, SourceRegistry

CONSTANTS
    Unparsable,   \* images the probe recognises and ParsedModule::parse refuses
    NotFound,     \* answer: not_found
    Failed        \* answer: error:<kind>

ASSUME StateAssumption ==
    /\ Unparsable \subseteq Images
    /\ Origins = Hit
    /\ NotFound \notin Images /\ Failed \notin Images /\ NotFound # Failed
    /\ None \notin Images /\ None \notin Spellings

VARIABLES
    call,          \* [pc, tok]
    answer,        \* [tok, res]
    spec_manifest  \* the sources of the last exported manifest

vars == <<cacheVars, regVars, diskVars, call, answer, spec_manifest>>

Idle == [pc |-> "idle", tok |-> None]
Call == [pc : {"locating", "inserting"}, tok : Spellings] \cup {Idle}
Answer == [tok : Spellings \cup {None}, res : Images \cup {NotFound, Failed, None}]
NoAnswer == [tok |-> None, res |-> None]

Finish(s, r) == call' = Idle /\ answer' = [tok |-> s, res |-> r]

Init ==
    /\ CacheInit /\ RegInit
    /\ call = Idle /\ answer = NoAnswer
    /\ spec_manifest = <<>>

-----------------------------------------------------------------------------
(* The lookup: resolve / function_name and ensure_resident *)

(* The token's module is resident: answer from it.  The module looked up   *)
(* becomes the most recently used one.                                     *)
ResolveHit(s) ==
    /\ call = Idle
    /\ Lookup(s)
    /\ Finish(s, Head(resident').img)
    /\ UNCHANGED <<regVars, diskVars, spec_manifest>>

(* A token in the negative cache is answered without a search. *)
ResolveKnownMiss(s) ==
    /\ call = Idle
    /\ ~is_resident(s) /\ is_known_miss(s)
    /\ Finish(s, NotFound)
    /\ UNCHANGED <<cacheVars, regVars, diskVars, spec_manifest>>

(* Mutant of ResolveSearch: the search is for the aliased debug-id. *)
ResolveSearchAlias(s) ==
    /\ call = Idle
    /\ ~is_resident(s) /\ ~is_known_miss(s) /\ parse_count < MaxParses
    /\ call' = [pc |-> "locating", tok |-> resolve_debug_id(s)]
    /\ answer' = NoAnswer
    /\ UNCHANGED <<cacheVars, regVars, diskVars, spec_manifest>>

(* Neither resident nor known to be missing: search the sources. *)
ResolveSearch(s) ==
    /\ call = Idle
    /\ ~is_resident(s) /\ ~is_known_miss(s) /\ parse_count < MaxParses
    /\ call' = [pc |-> "locating", tok |-> s]
    /\ answer' = NoAnswer
    /\ UNCHANGED <<cacheVars, regVars, diskVars, spec_manifest>>

(* locate, part 1: walk the next pending source. *)
WalkSource ==
    /\ call.pc = "locating"
    /\ IndexSource
    /\ UNCHANGED <<cacheVars, diskVars, call, answer, spec_manifest>>

(* A parser library panics while a walk probes a file.  The lock is        *)
(* poisoned and recovered; the call has no answer.                         *)
WalkPanics ==
    /\ call.pc = "locating" /\ ~NothingPending
    /\ call' = Idle
    /\ UNCHANGED <<cacheVars, regVars, diskVars, answer, spec_manifest>>

(* locate, part 2, without a match or with a file that cannot be read:     *)
(* the miss is recorded.                                                   *)
LocateMiss ==
    /\ call.pc = "locating" /\ NothingPending
    /\ ~Found(Canon[call.tok])
    /\ record_miss(call.tok)
    /\ Finish(call.tok, NotFound)
    /\ UNCHANGED <<regVars, diskVars, spec_manifest>>

(* Mutant of LocateError: the token of a file that does not parse is       *)
(* recorded as a miss.                                                     *)
LocateErrorMisses ==
    /\ call.pc = "locating" /\ NothingPending
    /\ Found(Canon[call.tok])
    /\ disk[index[Canon[call.tok]].path] \in Unparsable \cup {Junk}
    /\ record_miss(call.tok)
    /\ Finish(call.tok, Failed)
    /\ UNCHANGED <<regVars, diskVars, spec_manifest>>

(* The located file does not parse: an error frame, nothing is cached. *)
LocateError ==
    /\ call.pc = "locating" /\ NothingPending
    /\ Found(Canon[call.tok])
    /\ disk[index[Canon[call.tok]].path] \in Unparsable \cup {Junk}
    /\ Finish(call.tok, Failed)
    /\ UNCHANGED <<cacheVars, regVars, diskVars, spec_manifest>>

(* The located file parses: insert what is in the file NOW under its own   *)
(* identity, which a changed disk may have made another than the indexed.  *)
LocateInsert ==
    /\ call.pc = "locating" /\ NothingPending
    /\ Found(Canon[call.tok])
    /\ LET hit == index[Canon[call.tok]] IN
         /\ disk[hit.path] \in Images \ Unparsable
         /\ insert(disk[hit.path], hit)
    /\ call' = [call EXCEPT !.pc = "inserting"]
    /\ UNCHANGED <<regVars, diskVars, answer, spec_manifest>>

InsertEvicts ==
    /\ EvictStep \/ EvictDone
    /\ UNCHANGED <<regVars, diskVars, call, answer, spec_manifest>>

(* Mutant of ResolveAgain: answer from the module just inserted. *)
ResolveAgainLatest ==
    /\ call.pc = "inserting" /\ ~evicting
    /\ Finish(call.tok, Head(resident).img)
    /\ UNCHANGED <<cacheVars, regVars, diskVars, spec_manifest>>

(* ensure_resident returned Ok(true): look the token up again. *)
ResolveAgain ==
    /\ call.pc = "inserting"
    /\ \/ Lookup(call.tok) /\ Finish(call.tok, Head(resident').img)
       \/ /\ ~evicting /\ ~is_resident(call.tok)
          /\ Finish(call.tok, NotFound)
          /\ UNCHANGED cacheVars
    /\ UNCHANGED <<regVars, diskVars, spec_manifest>>

-----------------------------------------------------------------------------
(* The other calls: sources, eviction, the manifest *)

AddSource ==
    /\ call = Idle /\ answer' = NoAnswer
    /\ AddAny
    /\ UNCHANGED <<cacheVars, diskVars, call, spec_manifest>>

DropSource(id) ==
    /\ call = Idle /\ answer' = NoAnswer
    /\ drop_source(id)
    /\ UNCHANGED <<cacheVars, diskVars, call, spec_manifest>>

CacheEvict(s) ==
    /\ call = Idle /\ answer' = NoAnswer
    /\ EvictOne(s)
    /\ UNCHANGED <<regVars, diskVars, call, spec_manifest>>

CacheEvictAll ==
    /\ call = Idle /\ answer' = NoAnswer
    /\ EvictAll
    /\ UNCHANGED <<regVars, diskVars, call, spec_manifest>>

export_manifest ==
    /\ call = Idle /\ answer' = NoAnswer
    /\ to_manifest
    /\ spec_manifest' = sources
    /\ UNCHANGED <<regVars, diskVars, call>>

(* The process ends, in a call or between calls, and a new one imports the *)
(* last exported manifest, or an empty one if its bytes are lost.          *)
Restart ==
    /\ \E kept \in BOOLEAN :
         /\ cold_start(IF kept THEN manifest ELSE EmptyManifest)
         /\ spec_manifest' = IF kept THEN spec_manifest ELSE <<>>
    /\ restore(spec_manifest')
    /\ call' = Idle /\ answer' = NoAnswer
    /\ UNCHANGED diskVars

DiskMoves ==
    /\ DiskChange
    /\ UNCHANGED <<cacheVars, regVars, call, answer, spec_manifest>>

LookupStep ==
    \/ WalkSource \/ LocateMiss \/ LocateError \/ LocateInsert
    \/ InsertEvicts \/ ResolveAgain

StartLookup(s) == ResolveHit(s) \/ ResolveKnownMiss(s) \/ ResolveSearch(s)

Next ==
    \/ \E s \in Spellings : StartLookup(s) \/ CacheEvict(s)
    \/ LookupStep
    \/ WalkPanics
    \/ AddSource
    \/ \E id \in 0..MaxSources : DropSource(id)
    \/ CacheEvictAll
    \/ export_manifest
    \/ Restart
    \/ DiskMoves

(* A call that holds the lock runs on. *)
Spec == Init /\ [][Next]_vars /\ WF_vars(LookupStep)

-----------------------------------------------------------------------------
(* Properties *)

(* Types of the composed state. *)
TypeOK ==
    /\ CacheTypeOK /\ RegTypeOK
    /\ call \in Call
    /\ answer \in Answer
    /\ spec_manifest \in Seq(Source)

(* A frame is never attributed to a stranger: the module a lookup answers  *)
(* from carries a debug-id that the caller's token names, also when files  *)
(* were replaced between the walk and the read, when modules sharing an    *)
(* alias evict each other, and after restarts.                             *)
NoMisattribution ==
    answer.res \in Images => Names(Canon[answer.tok], DebugId[answer.res])

(* A resident module is always found under its own debug-id: the alias is  *)
(* in place and no recorded miss hides it once it is evicted.              *)
ResidentFindable == \A d \in ResidentIds : aliases[d] = d /\ d \notin negative

(* A call that holds the lock returns, whatever the disk does. *)
CallsReturn == (call # Idle) ~> (call = Idle)

(* The files a walk of some searchable source meets on the disk as it is,  *)
(* and those of them that answer to t.                                     *)
Servable ==
    {p \in Paths : \E i \in DOMAIN sources :
        /\ Searchable(sources[i])
        /\ \E w \in Visits[sources[i].loc] : \E k \in Listing(w) : p = w[k]}
Candidates(t) == {p \in Servable : t \in aliases_of(p)}

(* A fixed set of sources on a fixed disk.  SameWalks: two walks of one    *)
(* location list the same files; only a location with more files than      *)
(* MAX_INDEX_FILES may be cut short elsewhere the next time.               *)
SameWalks ==
    \A l \in Locations : \A v, w \in Visits[l] :
        \A k \in Listing(v) : \E j \in Listing(w) : v[k] = w[j]

FrozenStart ==
    /\ CacheInit
    /\ sources \in Seq(Source) /\ next_id \in Nat /\ UniqueSourceIds
    /\ \A i \in DOMAIN sources : Accepted(sources[i].kind, sources[i].loc)
    /\ index = EmptyIndex /\ indexed = {}
    /\ disk \in [Paths -> Images \cup {Junk, Absent}] /\ disk_changes = 0
    /\ SameWalks
    /\ call = Idle /\ answer = NoAnswer /\ spec_manifest = <<>>

FrozenNext ==
    \/ \E s \in Spellings : StartLookup(s) \/ CacheEvict(s)
    \/ LookupStep
    \/ WalkPanics
    \/ CacheEvictAll
    \/ export_manifest
    \/ Restart

(* On a disk and a set of sources that do not change, a lookup answers     *)
(* from the sources, whatever was evicted, missed and restarted before:    *)
(* not_found if no file answers to the token, and else from a module that  *)
(* some source serves and that carries the debug-id of a file answering to *)
(* the token.  If those files have one debug-id, that is the answer's; if  *)
(* a shared UUID names several, it is that of the one parsed last, which   *)
(* the lookups before decide.                                              *)
AnsweredFromSources ==
    answer.tok # None =>
        LET found == Candidates(Canon[answer.tok]) IN
        CASE answer.res = NotFound -> found = {}
          [] answer.res = Failed -> \E p \in found : disk[p] \in Unparsable
          [] OTHER -> /\ \E p \in found : DebugId[disk[p]] = DebugId[answer.res]
                      /\ \E p \in Servable : disk[p] = answer.res

(* "each debug module is parsed exactly once" (symbols-worker state.rs:6), *)
(* short of eviction and of changes of the disk: a lookup by a debug-id    *)
(* never parses a module that is already resident, whatever inserts,       *)
(* misses and restarts came before.                                        *)
ParseOnce ==
    [][LocateInsert /\ disk_changes = 0 /\ (\E m \in Images : DebugId[m] = Canon[call.tok]) =>
        DebugId[disk[index[Canon[call.tok]].path]] \notin ResidentIds]_vars

(* The abstract library this state machine implements: the modules held    *)
(* are the resident ones, and a file is within reach if a walk of some     *)
(* enabled local source meets it.                                          *)
Reach(q) == UNION {FilesOf(q[i]) : i \in {k \in DOMAIN q : Searchable(q[k])}}
Held(q) == {q[i].img : i \in DOMAIN q}
Misses(mf) == {t \in Tokens : mf[t] # None /\ mf[t].miss}
Located(mf) == {t \in Tokens : mf[t] # None /\ mf[t].origin # None}
OriginFiles(mf) == {mf[t].origin.path : t \in Located(mf)}

Lib == INSTANCE Library WITH
    Files <- Paths, Parsable <- Images \ Unparsable,
    reach <- Reach(sources), held <- Held(resident), missing <- negative,
    known <- OriginFiles(entries),
    saved_reach <- Reach(spec_manifest), saved <- Misses(manifest),
    saved_known <- OriginFiles(manifest)

(* The composed cache, index and registry keep the library's promise: a    *)
(* module enters memory only from a file under a source that is live at    *)
(* that moment, or from the origin of a manifest entry, with the content   *)
(* the file has at that moment, never by an index that outlived its        *)
(* source; an eviction, a miss or a dropped source forgets no origin; an   *)
(* answer comes from a resident module; not_found is never said of the     *)
(* debug-id of a resident module; and a restart brings back no module, no  *)
(* source, no origin and no missing token that was not exported            *)
(* (state.rs).                                                             *)
ImplementsLibrary == Lib!Spec

(* "status is 'not_found' until a matching symbol source is registered     *)
(* with add_source" (symbolicate.rs:56): not_found means that no           *)
(* registered source has a file for the token.                             *)
NotFoundMeansNoSource == answer.res = NotFound => Candidates(Canon[answer.tok]) = {}

(* "an evicted module keeps its ManifestEntry so a later address re-parses *)
(* from origin rather than re-discovering it" (cache/mod.rs:8-9), "The     *)
(* resident parsed-module set [...] is rebuilt lazily from origin"         *)
(* (state.rs:183-184): not_found is never said of a token whose entry has  *)
(* for its origin a file that can be read and answers to the token.        *)
ReadAgainFromOrigin ==
    answer.res = NotFound =>
        LET d == resolve_debug_id(answer.tok) IN
        d \in Located(entries) =>
            LET m == disk[entries[d].origin.path] IN
            m \in Images \ Unparsable => Canon[answer.tok] \notin AliasesOf[m]
=============================================================================
