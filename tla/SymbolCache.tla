---------------------------- MODULE SymbolCache ----------------------------
(***************************************************************************)
(* The resident cache of parsed debug modules (symbols-core, cache/mod.rs) *)
(* under an arbitrary client.                                              *)
(*                                                                         *)
(* resident is the LRU map, most recently used first; aliases, entries and *)
(* negative are the durable index that survives eviction; resident_bytes   *)
(* is the counter the byte budget is enforced on.  insert ends in a loop   *)
(* that pops modules until the budget holds: evicting is TRUE while that   *)
(* loop runs, and no other operation starts then (the worker's lock is     *)
(* held).  Wall-clock stamps and the display columns (format, arch, name)  *)
(* are left out.                                                           *)
(***************************************************************************)
EXTENDS Ids, SequencesExt

CONSTANTS
    Bytes,        \* size of an image, ParsedModule::resident_bytes
    Origins,      \* where a debug file was found
    MaxBytes,     \* cache_max_bytes
    MaxModules,   \* cache_max_modules
    MaxParses,    \* bound: inserts per process
    MaxRows       \* bound: lookups of one resident module

ASSUME BudgetAssumption ==
    /\ Bytes \in [Images -> Nat]
    /\ MaxBytes \in Nat /\ MaxModules \in Nat
    /\ MaxParses \in Nat /\ MaxRows \in Nat

VARIABLES
    resident,        \* sequence of [img, rows], most recently used first
    aliases,         \* token -> debug-id
    entries,         \* debug-id -> manifest entry
    negative,        \* tokens proven missing
    resident_bytes,
    parse_count,
    evicting,        \* insert is inside evict_to_budget
    manifest         \* the entries of the last exported manifest

indexVars == <<aliases, entries, negative>>
cacheVars == <<resident, aliases, entries, negative, resident_bytes,
               parse_count, evicting, manifest>>

Resident == [img : Images, rows : Nat]
Entry == [origin : Origins \cup {None}, rows : Nat, miss : BOOLEAN]

ASSUME AbsentAssumption == None \notin Origins /\ None \notin Entry

Manifests == [Tokens -> Entry \cup {None}]
EmptyManifest == [t \in Tokens |-> None]

(* The LRU's capacity is at least one module. *)
Cap == IF MaxModules = 0 THEN 1 ELSE MaxModules

(* u64::saturating_sub *)
SatSub(a, b) == IF a >= b THEN a - b ELSE 0

IdOf(r) == DebugId[r.img]
Ids(q) == {IdOf(q[i]) : i \in DOMAIN q}
ResidentIds == Ids(resident)

(* The bytes the modules of q really occupy. *)
TotalBytes(q) == SumFunction([i \in DOMAIN q |-> Bytes[q[i].img]])

-----------------------------------------------------------------------------
(* Lookups *)

resolve_debug_id(s) == aliases[Canon[s]]
is_known_miss(s) == Canon[s] \in negative
is_resident(s) == resolve_debug_id(s) \in ResidentIds

(* Mutants of FoldBack: the departing module's entry is removed with it;   *)
(* the entry is replaced by the count alone; the count is not persisted.   *)
FoldBackForgets(e, r) == [e EXCEPT ![IdOf(r)] = None]
FoldBackReplaces(e, r) == [e EXCEPT ![IdOf(r)] = [rows |-> r.rows]]
FoldBackSkips(e, r) == e

(* fold_back: persist a departing module's row count in its manifest       *)
(* entry, if it has one.                                                   *)
FoldBack(e, r) ==
    [e EXCEPT ![IdOf(r)] = IF @ = None THEN None ELSE [@ EXCEPT !.rows = r.rows]]

(* The same for every resident module. *)
FoldAll(e, q) ==
    [t \in Tokens |->
        IF e[t] # None /\ t \in Ids(q)
        THEN [e[t] EXCEPT !.rows = q[CHOOSE i \in DOMAIN q : IdOf(q[i]) = t].rows]
        ELSE e[t]]

-----------------------------------------------------------------------------
(* Operations *)

new ==
    /\ resident = <<>>
    /\ aliases = [t \in Tokens |-> None]
    /\ entries = EmptyManifest
    /\ negative = {}
    /\ resident_bytes = 0
    /\ parse_count = 0
    /\ evicting = FALSE

CacheInit == new /\ manifest = EmptyManifest

(* resolve / function_name on a resident module: promote it, count a row.  *)
Lookup(s) ==
    /\ ~evicting
    /\ \E i \in DOMAIN resident :
         /\ IdOf(resident[i]) = resolve_debug_id(s)
         /\ resident[i].rows < MaxRows
         /\ resident' = <<[resident[i] EXCEPT !.rows = @ + 1]>> \o RemoveAt(resident, i)
    /\ UNCHANGED <<indexVars, resident_bytes, parse_count, evicting, manifest>>

(* Mutants of MissEntry: the entry is overwritten; it is not created. *)
MissEntryAlways(t) == [origin |-> None, rows |-> 0, miss |-> TRUE]
MissEntryNever(t) == entries[t]

(* The entry of a token proven missing: an existing one is left as it is. *)
MissEntry(t) ==
    IF entries[t] = None THEN [origin |-> None, rows |-> 0, miss |-> TRUE] ELSE entries[t]

record_miss(s) ==
    /\ ~evicting
    /\ LET t == Canon[s] IN
         /\ aliases' = [aliases EXCEPT ![t] = IF @ = None THEN t ELSE @]
         /\ negative' = negative \cup {t}
         /\ entries' = [entries EXCEPT ![t] = MissEntry(t)]
    /\ UNCHANGED <<resident, resident_bytes, parse_count, evicting, manifest>>

(* LruCache::put of a new key: a full cache drops its least recently used  *)
(* module, and put does not say so.                                        *)
MakeRoom(q) == IF Len(q) = Cap THEN Front(q) ELSE q

(* Mutant of Put: the size of a module that replaces another is not added. *)
PutUncounted(m) ==
    LET r == [img |-> m, rows |-> 0] IN
    \/ \E i \in DOMAIN resident :
         /\ IdOf(resident[i]) = DebugId[m]
         /\ resident' = <<r>> \o RemoveAt(resident, i)
         /\ resident_bytes' = SatSub(resident_bytes, Bytes[resident[i].img])
    \/ /\ DebugId[m] \notin ResidentIds
       /\ resident' = <<r>> \o MakeRoom(resident)
       /\ resident_bytes' = resident_bytes + Bytes[m]

(* LruCache::put and the byte accounting around it. *)
Put(m) ==
    LET r == [img |-> m, rows |-> 0] IN
    \/ \E i \in DOMAIN resident :
         /\ IdOf(resident[i]) = DebugId[m]
         /\ resident' = <<r>> \o RemoveAt(resident, i)
         /\ resident_bytes' =
                SatSub(resident_bytes, Bytes[resident[i].img]) + Bytes[m]
    \/ /\ DebugId[m] \notin ResidentIds
       /\ resident' = <<r>> \o MakeRoom(resident)
       /\ resident_bytes' = resident_bytes + Bytes[m]

(* Mutants of Claimed: every token of a module that held one of m's        *)
(* aliases moves along; the debug-id itself is left out.                   *)
ClaimedMerged(m) ==
    [t \in Tokens |->
        IF \/ t \in AliasesOf[m]
           \/ aliases[t] # None /\ \E a \in AliasesOf[m] : aliases[a] = aliases[t]
        THEN DebugId[m] ELSE aliases[t]]
ClaimedOthers(m) ==
    [t \in Tokens |-> IF t \in AliasesOf[m] \ {DebugId[m]} THEN DebugId[m] ELSE aliases[t]]

(* The aliases after an insert: the latest module claims all of its own. *)
Claimed(m) ==
    [t \in Tokens |-> IF t \in AliasesOf[m] THEN DebugId[m] ELSE aliases[t]]

(* Mutant of StillMissing: an insert leaves the recorded misses alone. *)
StillMissingAll(m) == negative

(* The negative cache after an insert: the debug-id alone is forgiven. *)
StillMissing(m) == negative \ {Canon[DebugId[m]]}

insert(m, o) ==
    /\ ~evicting /\ parse_count < MaxParses
    /\ parse_count' = parse_count + 1
    /\ aliases' = Claimed(m)
    /\ negative' = StillMissing(m)
    /\ entries' = [entries EXCEPT ![DebugId[m]] =
            [origin |-> o, rows |-> 0, miss |-> FALSE]]
    /\ Put(m)
    /\ evicting' = TRUE
    /\ UNCHANGED manifest

(* Mutants of OverBudget: two modules are always kept; none is. *)
OverBudgetKeepTwo == resident_bytes > MaxBytes /\ Len(resident) > 2
OverBudgetKeepNone == resident_bytes > MaxBytes /\ Len(resident) > 0

(* The condition of evict_to_budget's loop. *)
OverBudget == resident_bytes > MaxBytes /\ Len(resident) > 1

(* Mutant of EvictStep: the victim is looked at and not popped. *)
EvictStepPeeks ==
    /\ evicting /\ OverBudget
    /\ entries' = FoldBack(entries, Last(resident))
    /\ UNCHANGED <<resident, aliases, negative, resident_bytes, parse_count, evicting, manifest>>

(* One iteration of the loop, and its exit. *)
EvictStep ==
    /\ evicting /\ OverBudget
    /\ resident' = Front(resident)
    /\ resident_bytes' = SatSub(resident_bytes, Bytes[Last(resident).img])
    /\ entries' = FoldBack(entries, Last(resident))
    /\ UNCHANGED <<aliases, negative, parse_count, evicting, manifest>>

EvictDone ==
    /\ evicting /\ ~OverBudget
    /\ evicting' = FALSE
    /\ UNCHANGED <<resident, indexVars, resident_bytes, parse_count, manifest>>

(* evict(Some(token)); a token that is not resident changes nothing. *)
EvictOne(s) ==
    /\ ~evicting
    /\ \E i \in DOMAIN resident :
         /\ IdOf(resident[i]) = resolve_debug_id(s)
         /\ resident' = RemoveAt(resident, i)
         /\ resident_bytes' = SatSub(resident_bytes, Bytes[resident[i].img])
         /\ entries' = FoldBack(entries, resident[i])
    /\ UNCHANGED <<aliases, negative, parse_count, evicting, manifest>>

(* evict(None) *)
EvictAll ==
    /\ ~evicting
    /\ resident' = <<>>
    /\ resident_bytes' = 0
    /\ entries' = FoldAll(entries, resident)
    /\ UNCHANGED <<aliases, negative, parse_count, evicting, manifest>>

(* to_manifest: fold the live counts into the entries and export them. *)
to_manifest ==
    /\ ~evicting
    /\ entries' = FoldAll(entries, resident)
    /\ manifest' = entries'
    /\ UNCHANGED <<resident, aliases, negative, resident_bytes, parse_count, evicting>>

(* What rehydrate makes of a manifest: the debug-id aliases only. *)
rehydrate(mf) ==
    /\ entries' = mf
    /\ aliases' = [t \in Tokens |-> IF mf[t] = None THEN None ELSE t]
    /\ negative' = {t \in Tokens : mf[t] # None /\ mf[t].miss}

(* The process ends at any moment; a new one starts from the last exported *)
(* manifest, or from an empty one when its bytes are missing or corrupt.   *)
cold_start(mf) ==
    /\ rehydrate(mf)
    /\ manifest' = mf
    /\ resident' = <<>>
    /\ resident_bytes' = 0
    /\ parse_count' = 0
    /\ evicting' = FALSE

ColdStart == \E mf \in {manifest, EmptyManifest} : cold_start(mf)

CacheNext ==
    \/ \E s \in Spellings : Lookup(s) \/ record_miss(s) \/ EvictOne(s)
    \/ \E m \in Images, o \in Origins : insert(m, o)
    \/ EvictStep
    \/ EvictDone
    \/ EvictAll
    \/ to_manifest
    \/ ColdStart

CacheSpec == CacheInit /\ [][CacheNext]_cacheVars /\ WF_cacheVars(EvictStep \/ EvictDone)

-----------------------------------------------------------------------------
(* Properties *)

(* Types of the cache's state (cache/mod.rs, SymbolCache). *)
CacheTypeOK ==
    /\ resident \in Seq(Resident)
    /\ aliases \in [Tokens -> Tokens \cup {None}]
    /\ entries \in Manifests
    /\ negative \subseteq Tokens
    /\ resident_bytes \in Nat
    /\ parse_count \in Nat
    /\ evicting \in BOOLEAN
    /\ manifest \in Manifests

(* The LRU never holds two modules under one debug-id (a part of CacheInv). *)
Distinct(q) == \A i, j \in DOMAIN q : IdOf(q[i]) = IdOf(q[j]) => i = j
UniqueResidents == Distinct(resident)

(* The module-count budget (MaxModules, at least one). *)
ModuleCap == Len(resident) <= Cap

(* "The resident set is bounded by two budgets": once insert has returned, *)
(* there are at most Cap modules and what they REALLY occupy is within the *)
(* byte budget, a single oversized module excepted.  The code enforces the *)
(* bound on the counter, so this rests on NeverUndercounts.                *)
WithinBudgets ==
    /\ ModuleCap
    /\ evicting \/ Len(resident) <= 1 \/ TotalBytes(resident) <= MaxBytes

(* The byte counter never claims less than the resident modules occupy,    *)
(* through replacement, silent drops at the module cap, forced evictions   *)
(* and restarts; so saturating_sub never saturates.                        *)
NeverUndercounts == TotalBytes(resident) <= resident_bytes

(* A resident module is a known one: its manifest entry says where it came *)
(* from and is not a miss, whatever misses are recorded meanwhile.         *)
ResidentIndexed ==
    \A d \in ResidentIds :
        entries[d] # None /\ ~entries[d].miss /\ entries[d].origin # None

(* The index is closed: an alias leads to a debug-id with an entry, and a  *)
(* token in the negative cache has an alias and an entry of its own, so    *)
(* that it shows in cache_status and is exported.                          *)
IndexClosed ==
    /\ \A t \in Tokens : aliases[t] # None => entries[aliases[t]] # None
    /\ \A t \in negative : aliases[t] # None /\ entries[t] # None

(* An alias is either a token's own placeholder or the debug-id of a       *)
(* module that really answers to the token: no sequence of inserts, misses *)
(* and restarts makes a token resolve against a stranger.                  *)
AliasSound ==
    \A t \in Tokens : aliases[t] # None => aliases[t] = t \/ Names(t, aliases[t])

(* The inductive invariant of the cache (proved in SymbolCacheProofs). *)
CacheInv ==
    /\ CacheTypeOK
    /\ UniqueResidents
    /\ ModuleCap
    /\ ResidentIndexed
    /\ IndexClosed
    /\ AliasSound

(* "Monotone: entries are only added or refreshed, never lost": within one *)
(* process no operation removes an entry, forgets a located origin or      *)
(* turns a located module back into a miss.                                *)
EntriesMonotone ==
    [][~ColdStart =>
        \A d \in Tokens : entries[d] # None =>
            /\ entries'[d] # None
            /\ entries[d].origin # None => entries'[d].origin # None
            /\ entries'[d].miss => entries[d].miss]_cacheVars

(* ensure_resident promises its caller a resident module after insert, so  *)
(* the eviction loop of an insert never takes the module just inserted.    *)
MruSurvives ==
    [][evicting /\ ~ColdStart => resident' # <<>> /\ Head(resident') = Head(resident)]_cacheVars

(* The eviction loop ends. *)
EvictionEnds == evicting ~> ~evicting

(* rows_resolved as cache_status reports it for a debug-id: the live count *)
(* of a resident module, else the count in its entry.                      *)
rows_resolved ==
    [d \in Tokens |->
        IF d \in ResidentIds
        THEN resident[CHOOSE i \in DOMAIN resident : IdOf(resident[i]) = d].rows
        ELSE IF entries[d] = None THEN 0 ELSE entries[d].rows]

(* fold_back carries the counts from the resident set to the entries: no   *)
(* lookup, miss, eviction or export lowers the count of any module.  What  *)
(* is left is the insert, which is not cumulative (RowsCumulative): it     *)
(* lowers the count of the module parsed anew and of the one the LRU drops *)
(* at its cap, and of no other.                                            *)
RowsKept ==
    [][~ColdStart =>
        \A d \in Tokens : rows_resolved'[d] < rows_resolved[d] =>
            /\ parse_count' = parse_count + 1
            /\ \/ d = IdOf(Head(resident'))
               \/ Len(resident) = Cap /\ d = IdOf(Last(resident))]_cacheVars

(* rows_resolved counts "Cumulative addresses resolved against the module" *)
(* (cache/mod.rs:61): no step of a process lowers it.                      *)
RowsCumulative ==
    [][~ColdStart => \A d \in Tokens : rows_resolved'[d] >= rows_resolved[d]]_cacheVars

(* "Evict whole modules (LRU) until both budgets are satisfied"            *)
(* (cache/mod.rs:247): a module is popped for the byte budget only while   *)
(* the resident modules really exceed it.                                  *)
NoNeedlessEviction == [][EvictStep => TotalBytes(resident) > MaxBytes]_cacheVars
=============================================================================
