------------------------- MODULE SymbolsStateProofs -------------------------
(***************************************************************************)
(* Proofs about the composed state machine, for every disk and however it  *)
(* changes, every identity assignment the assumptions of Ids allow, every  *)
(* budget, and restarts and panics at every step of a lookup.              *)
(***************************************************************************)
EXTENDS SymbolsState, SymbolCacheProofs, SourceRegistryProofs

(* What the program counter of a lookup knows of the cache: the eviction   *)
(* loop runs only inside an insert, and a token that is being located is   *)
(* not resident.                                                           *)
CallGuards ==
    /\ call = Idle => ~evicting
    /\ call.pc = "locating" => ~evicting /\ ~is_resident(call.tok)

(* The parts of StateInv that speak of the running call. *)
CallInv == call \in Call /\ answer \in Answer /\ NoMisattribution /\ CallGuards

(* The inductive invariant of the state machine. *)
StateInv ==
    /\ CacheInv
    /\ RegInv
    /\ GoodSources(spec_manifest)
    /\ ResidentFindable
    /\ CallInv

-----------------------------------------------------------------------------
(* The program counter *)

(* A lookup under way has a token. *)
LEMMA CallFacts ==
    ASSUME call \in Call
    PROVE  /\ call = Idle => call.pc = "idle"
           /\ call.pc \in {"locating", "inserting"} => call.tok \in Spellings /\ call # Idle
BY DEF Call, Idle

(* A lookup ends with an answer its token names. *)
LEMMA FinishInv ==
    ASSUME NEW s \in Spellings, NEW r \in Images \cup {NotFound, Failed},
           r \in Images => Names(Canon[s], DebugId[r]),
           Finish(s, r), ~evicting'
    PROVE  CallInv'
<1>1. call' = Idle /\ answer' = [tok |-> s, res |-> r]
  BY DEF Finish
<1>2. answer'.tok = s /\ answer'.res = r /\ answer' \in Answer
  BY <1>1 DEF Answer
<1>3. call' \in Call /\ call'.pc = "idle"
  BY <1>1 DEF Call, Idle
<1> QED BY <1>1, <1>2, <1>3 DEF CallInv, NoMisattribution, CallGuards

(* Any other call, or the start of a lookup, leaves no answer. *)
LEMMA NoAnswerProps ==
    ASSUME answer' = NoAnswer
    PROVE  answer' \in Answer /\ NoMisattribution'
<1>1. answer' \in Answer /\ answer'.res = None
  BY DEF NoAnswer, Answer
<1> QED BY <1>1, StateAssumption DEF NoMisattribution

(* A call other than a lookup starts and ends outside of one. *)
LEMMA OtherCallInv ==
    ASSUME StateInv, call = Idle, call' = Idle, answer' = NoAnswer, evicting' = evicting
    PROVE  CallInv'
<1>1. ~evicting' /\ call' \in Call /\ call'.pc = "idle"
  BY DEF StateInv, CallInv, CallGuards, Call, Idle
<1> QED BY <1>1, NoAnswerProps DEF CallInv, CallGuards

-----------------------------------------------------------------------------
(* The cache under the state machine *)

(* Findability is kept while modules only leave. *)
LEMMA FewerResidents ==
    ASSUME ResidentFindable, ResidentIds' \subseteq ResidentIds,
           aliases' = aliases, negative' = negative
    PROVE  ResidentFindable'
BY DEF ResidentFindable

(* A lookup of a resident module answers from a module its token names:    *)
(* the alias is sound, and a placeholder alias is the module's own id.     *)
LEMMA LookupAnswer ==
    ASSUME CacheInv, NEW s \in Spellings, Lookup(s)
    PROVE  /\ Head(resident').img \in Images
           /\ DebugId[Head(resident').img] = aliases[Canon[s]]
           /\ Names(Canon[s], DebugId[Head(resident').img])
           /\ ResidentIds' \subseteq ResidentIds
<1> DEFINE R(i) == RemoveAt(resident, i)
<1>1. PICK i \in DOMAIN resident :
        /\ IdOf(resident[i]) = aliases[Canon[s]]
        /\ resident' = <<[resident[i] EXCEPT !.rows = @ + 1]>> \o R(i)
  BY DEF Lookup, resolve_debug_id
<1> DEFINE x == [resident[i] EXCEPT !.rows = @ + 1]
           m == resident[i].img
<1>2. x \in Resident /\ x.img = m /\ IdOf(x) = IdOf(resident[i]) /\ m \in Images
      /\ IdOf(resident[i]) = DebugId[m] /\ IdOf(resident[i]) \in Tokens
  BY ResidentFacts DEF CacheInv, Resident, IdOf
<1>3. R(i) \in Seq(Resident)
  BY ResidentFacts, RemoveProps DEF CacheInv, CacheTypeOK
<1>4. Distinct(R(i)) /\ Ids(R(i)) \subseteq ResidentIds \ {IdOf(x)} /\ IdOf(x) \in ResidentIds
  BY <1>2, RemoveIds DEF CacheInv, CacheTypeOK, UniqueResidents, ResidentIds, Ids
<1> HIDE DEF x, R
<1>5. resident' = <<x>> \o R(i)
  BY <1>1 DEF x
<1>6. ResidentIds' \subseteq ResidentIds
  <2>1. Ids(<<x>> \o R(i)) \subseteq Ids(R(i)) \cup {IdOf(x)}
    BY <1>2, <1>3, <1>4, ConsIds
  <2> QED BY <1>4, <1>5, <2>1 DEF ResidentIds
<1>7. Head(resident').img = m
  <2>1. (<<x>> \o R(i))[1] = x /\ <<x>> \o R(i) \in Seq(Resident)
    BY <1>2, <1>3, ConsProps
  <2>2. Head(<<x>> \o R(i)) = x
    BY <2>1, HeadTailProperties, ConsProps, <1>2, <1>3
  <2> QED BY <1>2, <1>5, <2>2
<1> HIDE DEF m
<1>8. DebugId[m] = aliases[Canon[s]]
  BY <1>1, <1>2
<1>9. Names(Canon[s], DebugId[m])
  <2>1. Canon[s] \in Tokens /\ aliases[Canon[s]] = DebugId[m] /\ DebugId[m] # None
    BY <1>1, <1>2, IdTypes, NoneAssumption
  <2>2. CASE DebugId[m] = Canon[s]
    BY <1>2, <2>2, IdentityAssumption DEF Names
  <2>3. CASE Names(Canon[s], DebugId[m])
    BY <2>3
  <2> QED BY <2>1, <2>2, <2>3 DEF CacheInv, AliasSound
<1> QED BY <1>2, <1>6, <1>7, <1>8, <1>9

(* A recorded miss hides no resident module. *)
LEMMA MissFindable ==
    ASSUME CacheInv, ResidentFindable, NEW s \in Spellings, ~is_resident(s), record_miss(s)
    PROVE  ResidentFindable'
<1> DEFINE t == Canon[s]
<1>1. t \in Tokens /\ t \notin ResidentIds
  BY IdTypes DEF is_resident, resolve_debug_id, ResidentFindable
<1>2. resident' = resident /\ negative' = negative \cup {t}
      /\ aliases' = [aliases EXCEPT ![t] = IF @ = None THEN t ELSE @]
  BY DEF record_miss
<1>3. ResidentIds' = ResidentIds /\ ResidentIds \subseteq Tokens
  BY <1>2, ResidentFacts DEF CacheInv, ResidentIds, Ids
<1> HIDE DEF t
<1>4. \A d \in ResidentIds : d # t /\ aliases'[d] = aliases[d]
  BY <1>1, <1>2, <1>3 DEF CacheInv, CacheTypeOK
<1> QED BY <1>2, <1>3, <1>4 DEF ResidentFindable

(* An insert claims no other resident module's debug-id. *)
LEMMA InsertFindable ==
    ASSUME CacheInv, ResidentFindable, NEW m \in Images, NEW o, insert(m, o)
    PROVE  ResidentFindable'
<1>1. /\ aliases' = [t \in Tokens |-> IF t \in AliasesOf[m] THEN DebugId[m] ELSE aliases[t]]
      /\ negative' = negative \ {DebugId[m]}
      /\ DebugId[m] \in Tokens /\ DebugId[m] \in AliasesOf[m]
  BY IdTypes, IdentityAssumption DEF insert, Claimed, StillMissing
<1>2. ResidentIds' \subseteq ResidentIds \cup {DebugId[m]}
  BY PutProps DEF insert
<1>3. \A d \in ResidentIds : d \in Tokens /\ \E n \in Images : d = DebugId[n]
  BY ResidentFacts DEF CacheInv, ResidentIds, Ids, IdOf
<1>4. \A d \in ResidentIds : d \in AliasesOf[m] => d = DebugId[m]
  BY <1>3, DebugIdAssumption
<1> QED BY <1>1, <1>2, <1>3, <1>4 DEF ResidentFindable

(* A turn of the eviction loop, or its exit. *)
LEMMA EvictFindable ==
    ASSUME CacheInv, ResidentFindable, EvictStep \/ EvictDone
    PROVE  ResidentFindable' /\ CacheInv'
<1>1. CASE EvictStep
  <2>1. ResidentIds' \subseteq ResidentIds
    BY <1>1, FrontIds, ResidentFacts
       DEF CacheInv, CacheTypeOK, UniqueResidents, EvictStep, OverBudget, ResidentIds
  <2> QED BY <1>1, <2>1, FewerResidents, EvictStepInv DEF EvictStep
<1>2. CASE EvictDone
  <2>1. ResidentIds' = ResidentIds
    BY <1>2 DEF EvictDone, ResidentIds
  <2> QED BY <1>2, <2>1, FewerResidents, EvictDoneInv DEF EvictDone, indexVars
<1> QED BY <1>1, <1>2

(* An unchanged cache. *)
LEMMA SameCache ==
    ASSUME CacheInv, ResidentFindable, UNCHANGED cacheVars
    PROVE  CacheInv' /\ ResidentFindable' /\ evicting' = evicting
<1>1. ResidentIds' = ResidentIds /\ aliases' = aliases /\ negative' = negative
  BY DEF cacheVars, ResidentIds
<1> QED BY <1>1, FewerResidents, CacheStutterInv DEF cacheVars

-----------------------------------------------------------------------------
(* The steps of a lookup *)

(* A lookup that is answered from the resident set, at once or after the   *)
(* insert of its module.                                                   *)
LEMMA AnswerInv ==
    ASSUME StateInv, NEW s \in Spellings, Lookup(s), Finish(s, Head(resident').img),
           UNCHANGED <<regVars, diskVars, spec_manifest>>
    PROVE  StateInv'
<1>1. CacheInv' /\ RegInv'
  BY LookupInv, RegStutterInv DEF StateInv
<1>2. /\ Head(resident').img \in Images
      /\ Names(Canon[s], DebugId[Head(resident').img])
      /\ ResidentIds' \subseteq ResidentIds
  BY LookupAnswer DEF StateInv
<1>3. ~evicting' /\ aliases' = aliases /\ negative' = negative
  BY DEF Lookup, indexVars
<1>4. ResidentFindable'
  BY <1>2, <1>3, FewerResidents DEF StateInv
<1>5. CallInv'
  BY <1>2, <1>3, FinishInv
<1> QED BY <1>1, <1>4, <1>5 DEF StateInv

(* A lookup that ends without a module and without touching the cache. *)
LEMMA RefuseInv ==
    ASSUME StateInv, NEW s \in Spellings, NEW r \in {NotFound, Failed}, ~evicting,
           Finish(s, r), UNCHANGED <<cacheVars, regVars, diskVars, spec_manifest>>
    PROVE  StateInv'
<1>1. CacheInv' /\ RegInv' /\ ResidentFindable' /\ ~evicting'
  BY SameCache, RegStutterInv DEF StateInv
<1>2. CallInv'
  BY <1>1, FinishInv, StateAssumption
<1> QED BY <1>1, <1>2 DEF StateInv

(* A lookup starts to search the sources. *)
LEMMA SearchInv ==
    ASSUME StateInv, NEW s \in Spellings, ResolveSearch(s)
    PROVE  StateInv'
<1>1. CacheInv' /\ RegInv' /\ ResidentFindable' /\ ~evicting'
  BY SameCache, RegStutterInv DEF StateInv, ResolveSearch, CallInv, CallGuards
<1>2. call' = [pc |-> "locating", tok |-> s] /\ answer' = NoAnswer /\ ~is_resident(s)'
  BY DEF ResolveSearch, is_resident, resolve_debug_id, ResidentIds, cacheVars
<1>3. call' \in Call /\ call'.tok = s /\ call' # Idle
  BY <1>2 DEF Call, Idle
<1>4. CallInv'
  BY <1>1, <1>2, <1>3, NoAnswerProps DEF CallInv, CallGuards, is_resident, resolve_debug_id
<1> QED BY <1>1, <1>4 DEF StateInv, ResolveSearch

(* A source is walked for the lookup. *)
LEMMA WalkInv ==
    ASSUME StateInv, WalkSource
    PROVE  StateInv'
<1>1. CacheInv' /\ RegInv' /\ ResidentFindable'
  BY SameCache, IndexSourceInv DEF StateInv, WalkSource
<1>2. CallInv'
  BY DEF StateInv, WalkSource, CallInv, CallGuards, NoMisattribution,
         is_resident, resolve_debug_id, ResidentIds, cacheVars
<1> QED BY <1>1, <1>2 DEF StateInv, WalkSource

(* A parser panics in the walk. *)
LEMMA PanicInv ==
    ASSUME StateInv, WalkPanics
    PROVE  StateInv'
<1>1. CacheInv' /\ RegInv' /\ ResidentFindable' /\ evicting' = evicting
  BY SameCache, RegStutterInv DEF StateInv, WalkPanics
<1>2. call' \in Call /\ call'.pc = "idle" /\ ~evicting'
  BY <1>1 DEF StateInv, WalkPanics, CallInv, CallGuards, Call, Idle
<1>3. CallInv'
  BY <1>2 DEF StateInv, WalkPanics, CallInv, CallGuards, NoMisattribution
<1> QED BY <1>1, <1>3 DEF StateInv, WalkPanics

(* The search fails and the miss is recorded. *)
LEMMA MissInv ==
    ASSUME StateInv, LocateMiss
    PROVE  StateInv'
<1>1. call.tok \in Spellings /\ ~evicting /\ ~is_resident(call.tok)
  BY CallFacts DEF StateInv, LocateMiss, CallInv, CallGuards
<1>2. CacheInv' /\ RegInv' /\ ResidentFindable' /\ evicting' = evicting
  BY <1>1, RecordMissInv, MissFindable, RegStutterInv DEF StateInv, LocateMiss, record_miss
<1>3. CallInv'
  BY <1>1, <1>2, FinishInv, StateAssumption DEF LocateMiss
<1> QED BY <1>2, <1>3 DEF StateInv, LocateMiss

(* The located file is parsed and inserted. *)
LEMMA LocateInsertInv ==
    ASSUME StateInv, LocateInsert
    PROVE  StateInv'
<1> DEFINE hit == index[Canon[call.tok]]
           m == disk[hit.path]
<1>1. call.tok \in Spellings /\ Canon[call.tok] \in Tokens /\ call \in Call
  BY CallFacts, IdTypes DEF StateInv, LocateInsert, CallInv
<1>2. hit \in Hit /\ hit \in Origins
  BY <1>1, StateAssumption DEF StateInv, LocateInsert, Found, RegInv, RegTypeOK
<1>3. m \in Images /\ insert(m, hit)
  BY DEF LocateInsert
<1> HIDE DEF m, hit
<1>4. CacheInv' /\ RegInv' /\ ResidentFindable'
  BY <1>2, <1>3, InsertInv, InsertFindable, RegStutterInv DEF StateInv, LocateInsert
<1>5. call' \in Call /\ call' # Idle /\ call'.pc = "inserting"
  <2>1. call' = [call EXCEPT !.pc = "inserting"] /\ call.pc = "locating"
    BY DEF LocateInsert
  <2>2. call \in [pc : {"locating", "inserting"}, tok : Spellings]
    BY <1>1, <2>1 DEF Call, Idle
  <2> QED BY <2>1, <2>2 DEF Call, Idle
<1>6. CallInv'
  BY <1>5 DEF StateInv, LocateInsert, CallInv, CallGuards, NoMisattribution
<1> QED BY <1>4, <1>6 DEF StateInv, LocateInsert

(* The eviction loop of the insert. *)
LEMMA InsertEvictsInv ==
    ASSUME StateInv, InsertEvicts
    PROVE  StateInv'
<1>1. CacheInv' /\ RegInv' /\ ResidentFindable'
  BY EvictFindable, RegStutterInv DEF StateInv, InsertEvicts
<1>2. evicting
  BY DEF InsertEvicts, EvictStep, EvictDone
<1>3. CallInv'
  BY <1>2 DEF StateInv, InsertEvicts, CallInv, CallGuards, NoMisattribution
<1> QED BY <1>1, <1>3 DEF StateInv, InsertEvicts

(* The lookup after the insert. *)
LEMMA ResolveAgainInv ==
    ASSUME StateInv, ResolveAgain
    PROVE  StateInv'
<1>1. call.tok \in Spellings
  BY CallFacts DEF StateInv, ResolveAgain, CallInv
<1>2. CASE Lookup(call.tok) /\ Finish(call.tok, Head(resident').img)
  BY <1>1, <1>2, AnswerInv DEF ResolveAgain
<1>3. CASE ~evicting /\ Finish(call.tok, NotFound) /\ UNCHANGED cacheVars
  BY <1>1, <1>3, RefuseInv DEF ResolveAgain
<1> QED BY <1>2, <1>3 DEF ResolveAgain

-----------------------------------------------------------------------------
(* The other calls *)

(* Sources are added and dropped. *)
LEMMA SourcesInv ==
    ASSUME StateInv, AddSource \/ \E id \in 0..MaxSources : DropSource(id)
    PROVE  StateInv'
<1>1. /\ UNCHANGED <<cacheVars, diskVars, call, spec_manifest>>
      /\ call = Idle /\ answer' = NoAnswer
  BY DEF AddSource, DropSource
<1>2. CacheInv' /\ ResidentFindable' /\ evicting' = evicting
  BY <1>1, SameCache DEF StateInv
<1>3. RegInv'
  <2>1. CASE AddSource
    BY <1>1, <2>1, AddInv DEF StateInv, AddSource, AddAny
  <2>2. CASE \E id \in 0..MaxSources : DropSource(id)
    BY <1>1, <2>2, DropInv DEF StateInv, DropSource
  <2> QED BY <2>1, <2>2
<1>4. CallInv'
  BY <1>1, <1>2, OtherCallInv
<1> QED BY <1>1, <1>2, <1>3, <1>4 DEF StateInv

(* Modules are evicted on demand. *)
LEMMA CacheEvictInv ==
    ASSUME StateInv, CacheEvictAll \/ \E s \in Spellings : CacheEvict(s)
    PROVE  StateInv'
<1>1. /\ UNCHANGED <<regVars, diskVars, call, spec_manifest>>
      /\ call = Idle /\ answer' = NoAnswer
  BY DEF CacheEvict, CacheEvictAll
<1>2. CacheInv' /\ ResidentFindable' /\ evicting' = evicting
  <2>1. CASE CacheEvictAll
    <3>1. ResidentIds' = {}
      BY <2>1, EmptyResident DEF CacheEvictAll, EvictAll
    <3> QED BY <2>1, <3>1, EvictAllInv, FewerResidents DEF StateInv, CacheEvictAll, EvictAll
  <2>2. ASSUME NEW s \in Spellings, CacheEvict(s)
        PROVE  CacheInv' /\ ResidentFindable' /\ evicting' = evicting
    <3>1. PICK i \in DOMAIN resident : resident' = RemoveAt(resident, i)
      BY <2>2 DEF CacheEvict, EvictOne
    <3>2. ResidentIds' \subseteq ResidentIds
      BY <3>1, RemoveIds DEF StateInv, CacheInv, CacheTypeOK, UniqueResidents, ResidentIds
    <3> QED BY <2>2, <3>2, EvictOneInv, FewerResidents DEF StateInv, CacheEvict, EvictOne
  <2> QED BY <2>1, <2>2
<1>3. RegInv' /\ CallInv'
  BY <1>1, <1>2, RegStutterInv, OtherCallInv DEF StateInv
<1> QED BY <1>1, <1>2, <1>3 DEF StateInv

(* The manifest is exported. *)
LEMMA ExportInv ==
    ASSUME StateInv, export_manifest
    PROVE  StateInv'
<1>1. CacheInv' /\ RegInv'
  BY ToManifestInv, RegStutterInv DEF StateInv, export_manifest
<1>2. ResidentFindable'
  BY FewerResidents DEF StateInv, export_manifest, to_manifest, ResidentIds
<1>3. CallInv'
  BY OtherCallInv DEF export_manifest, to_manifest
<1>4. GoodSources(spec_manifest)'
  BY DEF StateInv, RegInv, export_manifest
<1> QED BY <1>1, <1>2, <1>3, <1>4 DEF StateInv

(* The process restarts, from the last manifest or from none. *)
LEMMA RestartInv ==
    ASSUME StateInv, Restart
    PROVE  StateInv'
<1>1. PICK mf \in {manifest, EmptyManifest} : cold_start(mf)
  BY DEF Restart
<1>2. CacheInv'
  BY <1>1, ColdStartInv DEF StateInv
<1>3. GoodSources(spec_manifest)'
  <2>1. GoodSources(<<>>)
    BY EmptySeq DEF GoodSources
  <2> QED BY <2>1 DEF Restart, StateInv
<1>4. RegInv'
  BY <1>3, RestoreInv DEF StateInv, Restart
<1>5. ResidentIds' = {} /\ ~evicting'
  BY <1>1, EmptyResident DEF cold_start
<1>6. ResidentFindable'
  BY <1>5 DEF ResidentFindable
<1>7. CallInv'
  <2>1. call' \in Call /\ call'.pc = "idle"
    BY DEF Restart, Call, Idle
  <2> QED BY <1>5, <2>1, NoAnswerProps DEF CallInv, CallGuards, Restart
<1> QED BY <1>2, <1>3, <1>4, <1>6, <1>7 DEF StateInv

(* The disk changes, also in the middle of a lookup. *)
LEMMA DiskMovesInv ==
    ASSUME StateInv, DiskMoves
    PROVE  StateInv'
<1>1. CacheInv' /\ RegInv' /\ ResidentFindable'
  BY SameCache, DiskChangeInv DEF StateInv, DiskMoves
<1>2. CallInv'
  BY DEF StateInv, DiskMoves, CallInv, CallGuards, NoMisattribution,
         is_resident, resolve_debug_id, ResidentIds, cacheVars
<1> QED BY <1>1, <1>2 DEF StateInv, DiskMoves

(* Nothing happens. *)
LEMMA StateStutterInv ==
    ASSUME StateInv, UNCHANGED vars
    PROVE  StateInv'
<1>1. CacheInv' /\ RegInv' /\ ResidentFindable'
  BY SameCache, RegStutterInv DEF StateInv, vars
<1>2. CallInv'
  BY DEF StateInv, vars, CallInv, CallGuards, NoMisattribution,
         is_resident, resolve_debug_id, ResidentIds, cacheVars
<1> QED BY <1>1, <1>2 DEF StateInv, vars

-----------------------------------------------------------------------------
(* The theorems *)

(* StateInv holds initially. *)
LEMMA StateInitInv == Init => StateInv
<1> SUFFICES ASSUME Init PROVE StateInv
  OBVIOUS
<1>1. CacheInv /\ RegInv
  BY CacheInitInv, RegInitInv DEF Init
<1>2. GoodSources(spec_manifest)
  BY EmptySeq DEF Init, GoodSources
<1>3. ResidentFindable
  BY EmptySeq DEF Init, CacheInit, new, ResidentFindable, ResidentIds, Ids
<1>4. call \in Call /\ call.pc = "idle" /\ answer \in Answer /\ answer.res = None
  BY DEF Init, Idle, Call, NoAnswer, Answer
<1>5. CallInv
  BY <1>4, StateAssumption DEF Init, CacheInit, new, CallInv, CallGuards, NoMisattribution
<1> QED BY <1>1, <1>2, <1>3, <1>5 DEF StateInv

(* Every step preserves StateInv. *)
LEMMA StateNextInv ==
    ASSUME StateInv, [Next]_vars
    PROVE  StateInv'
<1>1. ASSUME NEW s \in Spellings, StartLookup(s) PROVE StateInv'
  <2>1. CASE ResolveHit(s)
    BY <2>1, AnswerInv DEF ResolveHit
  <2>2. CASE ResolveKnownMiss(s)
    BY <2>2, RefuseInv DEF ResolveKnownMiss, StateInv, CallInv, CallGuards
  <2>3. CASE ResolveSearch(s)
    BY <2>3, SearchInv
  <2> QED BY <1>1, <2>1, <2>2, <2>3 DEF StartLookup
<1>2. CASE LookupStep
  <2>1. CASE WalkSource BY <2>1, WalkInv
  <2>2. CASE LocateMiss BY <2>2, MissInv
  <2>3. CASE LocateError
    BY <2>3, CallFacts, RefuseInv DEF LocateError, StateInv, CallInv, CallGuards
  <2>4. CASE LocateInsert BY <2>4, LocateInsertInv
  <2>5. CASE InsertEvicts BY <2>5, InsertEvictsInv
  <2>6. CASE ResolveAgain BY <2>6, ResolveAgainInv
  <2> QED BY <1>2, <2>1, <2>2, <2>3, <2>4, <2>5, <2>6 DEF LookupStep
<1>3. CASE WalkPanics BY <1>3, PanicInv
<1>4. CASE AddSource \/ \E id \in 0..MaxSources : DropSource(id)
  BY <1>4, SourcesInv
<1>5. CASE CacheEvictAll \/ \E s \in Spellings : CacheEvict(s)
  BY <1>5, CacheEvictInv
<1>6. CASE export_manifest BY <1>6, ExportInv
<1>7. CASE Restart BY <1>7, RestartInv
<1>8. CASE DiskMoves BY <1>8, DiskMovesInv
<1>9. CASE UNCHANGED vars BY <1>9, StateStutterInv
<1> QED BY <1>1, <1>2, <1>3, <1>4, <1>5, <1>6, <1>7, <1>8, <1>9 DEF Next

(* StateInv holds in every reachable state of the state machine. *)
THEOREM StateInvariant == Spec => []StateInv
<1>1. StateInv /\ [Next]_vars => StateInv'
  BY StateNextInv
<1> QED BY <1>1, StateInitInv, PTL DEF Spec

(* The types of the composed state. *)
THEOREM TypesAreKept == Spec => []TypeOK
<1>1. StateInv => TypeOK
  BY DEF StateInv, CacheInv, RegInv, GoodSources, CallInv, TypeOK
<1> QED BY <1>1, StateInvariant, PTL

(* No frame is ever attributed to a module its token does not name,        *)
(* whatever happens to the disk, the cache and the process in between.     *)
THEOREM FramesAreAttributed == Spec => []NoMisattribution
<1>1. StateInv => NoMisattribution
  BY DEF StateInv, CallInv
<1> QED BY <1>1, StateInvariant, PTL

(* A resident module can always be found under its own debug-id.           *)
THEOREM ResidentsAreFindable == Spec => []ResidentFindable
<1>1. StateInv => ResidentFindable
  BY DEF StateInv
<1> QED BY <1>1, StateInvariant, PTL

(* A lookup by a debug-id never parses a module that is resident: on an    *)
(* unchanged disk the indexed file has the debug-id looked up, and were it *)
(* resident, its alias would have led to it.                               *)
THEOREM ModulesAreParsedOnce == Spec => ParseOnce
<1> DEFINE Fresh == LocateInsert /\ disk_changes = 0
                        /\ (\E m \in Images : DebugId[m] = Canon[call.tok]) =>
                        DebugId[disk[index[Canon[call.tok]].path]] \notin ResidentIds
<1>1. ASSUME StateInv PROVE Fresh
  <2> SUFFICES ASSUME LocateInsert, disk_changes = 0, NEW m \in Images, DebugId[m] = Canon[call.tok]
               PROVE  DebugId[disk[index[Canon[call.tok]].path]] \notin ResidentIds
    OBVIOUS
  <2> DEFINE t == Canon[call.tok]
             v == disk[index[t].path]
  <2>1. call.tok \in Spellings /\ t \in Tokens /\ ~is_resident(call.tok)
    BY <1>1, CallFacts, IdTypes DEF StateInv, LocateInsert, CallInv, CallGuards
  <2>2. t \in aliases_of(index[t].path) /\ v \in Images
    BY <1>1, <2>1 DEF StateInv, RegInv, IndexTrue, LocateInsert, Found
  <2>3. DebugId[m] \in AliasesOf[v]
    BY <2>2 DEF aliases_of
  <2>4. DebugId[v] = t
    BY <2>2, <2>3, DebugIdAssumption
  <2>5. t \notin ResidentIds
    BY <1>1, <2>1 DEF StateInv, ResidentFindable, is_resident, resolve_debug_id
  <2> QED BY <2>4, <2>5
<1>2. StateInv /\ [Next]_vars => [Fresh]_vars
  BY <1>1
<1> QED BY <1>2, StateInvariant, PTL DEF Spec, ParseOnce
-----------------------------------------------------------------------------
(* The modules of a sequence of residents *)

LEMMA HeldFacts ==
    ASSUME NEW q \in Seq(Resident)
    PROVE  /\ Len(q) \in Nat /\ DOMAIN q = 1..Len(q)
           /\ \A i \in 1..Len(q) : q[i] \in Resident
           /\ \A n \in Held(q) : n \in Images /\ DebugId[n] \in Ids(q)
           /\ Ids(q) = {DebugId[n] : n \in Held(q)}
<1>1. Len(q) \in Nat /\ DOMAIN q = 1..Len(q)
  BY LenProperties
<1>2. \A i \in 1..Len(q) : q[i] \in Resident
  BY ElementOfSeq
<1> QED BY <1>1, <1>2, IdTypes DEF Held, Ids, IdOf

LEMMA HeldCons ==
    ASSUME NEW q \in Seq(Resident), NEW r \in Resident
    PROVE  /\ Held(<<r>> \o q) = Held(q) \cup {r.img}
           /\ Head(<<r>> \o q) = r
<1> DEFINE f == <<r>> \o q
           n == Len(q)
<1>1. f \in Seq(Resident) /\ Len(f) = n + 1 /\ f[1] = r /\ \A j \in 2..(n + 1) : f[j] = q[j - 1]
  BY ConsProps
<1>2. n \in Nat /\ DOMAIN q = 1..n /\ DOMAIN f = 1..Len(f)
  BY <1>1, HeldFacts
<1>3. Head(f) = r
  BY <1>1, <1>2, HeadTailProperties
<1> HIDE DEF n, f
<1>4. DOMAIN f = 1..(n + 1)
  BY <1>1, <1>2
<1>5. ASSUME NEW i \in 1..n PROVE (i + 1) \in 1..(n + 1) /\ f[i + 1] = q[i]
  <2>1. i + 1 \in 2..(n + 1) /\ (i + 1) - 1 = i
    BY <1>2
  <2> QED BY <1>1, <1>2, <2>1
<1>6. ASSUME NEW j \in 1..(n + 1), j # 1 PROVE (j - 1) \in 1..n /\ f[j] = q[j - 1]
  <2>1. j \in 2..(n + 1) /\ j - 1 \in 1..n
    BY <1>2, <1>6
  <2> QED BY <1>1, <2>1
<1>7. Held(f) \subseteq Held(q) \cup {r.img}
  <2>1. \A j \in DOMAIN f : f[j] = r \/ \E i \in DOMAIN q : f[j] = q[i]
    BY <1>1, <1>2, <1>4, <1>6
  <2> QED BY <2>1 DEF Held
<1>8. Held(q) \cup {r.img} \subseteq Held(f)
  <2>1. 1 \in DOMAIN f
    BY <1>2, <1>4
  <2>2. \A i \in DOMAIN q : \E j \in DOMAIN f : f[j] = q[i]
    BY <1>2, <1>4, <1>5
  <2> QED BY <1>1, <2>1, <2>2 DEF Held
<1> QED BY <1>3, <1>7, <1>8 DEF f

LEMMA HeldRemove ==
    ASSUME NEW q \in Seq(Resident), NEW i \in DOMAIN q
    PROVE  /\ RemoveAt(q, i) \in Seq(Resident)
           /\ Held(q) = Held(RemoveAt(q, i)) \cup {q[i].img}
<1> DEFINE f == RemoveAt(q, i)
           n == Len(q)
<1>1. n \in Nat /\ DOMAIN q = 1..n
  BY HeldFacts
<1>2. f \in Seq(Resident) /\ Len(f) = n - 1
      /\ \A j \in 1..(n - 1) : f[j] = IF j < i THEN q[j] ELSE q[j + 1]
  BY <1>1, RemoveProps
<1>3. DOMAIN f = 1..(n - 1)
  BY <1>2, HeldFacts
<1> HIDE DEF n, f
<1>4. ASSUME NEW j \in DOMAIN f PROVE \E k \in DOMAIN q : f[j] = q[k]
  <2>1. j \in 1..n /\ j + 1 \in 1..n
    BY <1>1, <1>3
  <2> QED BY <1>1, <1>2, <1>3, <2>1
<1>5. ASSUME NEW k \in DOMAIN q, k # i PROVE \E j \in DOMAIN f : f[j] = q[k]
  <2>1. CASE k < i
    <3>1. k \in 1..(n - 1)
      BY <1>1, <2>1
    <3> QED BY <1>2, <1>3, <2>1, <3>1
  <2>2. CASE k > i
    <3>1. k - 1 \in 1..(n - 1) /\ ~(k - 1 < i) /\ (k - 1) + 1 = k
      BY <1>1, <2>2
    <3> QED BY <1>2, <1>3, <3>1
  <2> QED BY <1>1, <1>5, <2>1, <2>2
<1>6. Held(f) \subseteq Held(q)
  BY <1>4 DEF Held
<1>7. Held(q) \subseteq Held(f) \cup {q[i].img}
  BY <1>5 DEF Held
<1> QED BY <1>2, <1>6, <1>7 DEF Held, f

LEMMA HeldFront ==
    ASSUME NEW q \in Seq(Resident), Len(q) >= 1
    PROVE  Front(q) \in Seq(Resident) /\ Held(Front(q)) \subseteq Held(q)
<1> DEFINE f == Front(q)
           n == Len(q)
<1>1. n \in Nat /\ DOMAIN q = 1..n
  BY HeldFacts
<1>2. f \in Seq(Resident) /\ Len(f) = n - 1 /\ \A i \in 1..(n - 1) : f[i] = q[i]
  BY FrontProps
<1>3. DOMAIN f = 1..(n - 1)
  BY <1>2, HeldFacts
<1> HIDE DEF n, f
<1>4. \A j \in DOMAIN f : j \in DOMAIN q /\ f[j] = q[j]
  BY <1>1, <1>2, <1>3
<1> QED BY <1>2, <1>4 DEF Held, f

(* A lookup forgets nothing and answers from what is held. *)
LEMMA LookupHeld ==
    ASSUME CacheInv, NEW s \in Spellings, Lookup(s)
    PROVE  Held(resident') = Held(resident) /\ Head(resident').img \in Held(resident)
<1>1. PICK i \in DOMAIN resident :
        resident' = <<[resident[i] EXCEPT !.rows = @ + 1]>> \o RemoveAt(resident, i)
  BY DEF Lookup
<1> DEFINE x == [resident[i] EXCEPT !.rows = @ + 1]
           q == RemoveAt(resident, i)
<1>2. x \in Resident /\ x.img = resident[i].img
  BY ResidentFacts DEF CacheInv, Resident
<1>3. q \in Seq(Resident) /\ Held(resident) = Held(q) \cup {resident[i].img}
  BY HeldRemove DEF CacheInv, CacheTypeOK
<1> HIDE DEF x, q
<1>4. Held(<<x>> \o q) = Held(q) \cup {x.img} /\ Head(<<x>> \o q) = x
  BY <1>2, <1>3, HeldCons
<1>5. resident' = <<x>> \o q
  BY <1>1 DEF x, q
<1> QED BY <1>2, <1>3, <1>4, <1>5

(* Inserting m holds m, and of what was held nothing else with m's id. *)
LEMMA PutHeld ==
    ASSUME CacheInv, NEW m \in Images, Put(m)
    PROVE  /\ m \in Held(resident')
           /\ Held(resident') \subseteq {n \in Held(resident) : DebugId[n] # DebugId[m]} \cup {m}
<1> DEFINE r == [img |-> m, rows |-> 0]
           Old == {n \in Held(resident) : DebugId[n] # DebugId[m]}
<1>1. r \in Resident /\ r.img = m
  BY DEF Resident
<1>2. resident \in Seq(Resident) /\ Distinct(resident)
  BY DEF CacheInv, CacheTypeOK, UniqueResidents
<1>3. SUFFICES \E q \in Seq(Resident) : resident' = <<r>> \o q /\ Held(q) \subseteq Old
  BY <1>1, HeldCons
<1>4. CASE \E i \in DOMAIN resident :
              IdOf(resident[i]) = DebugId[m] /\ resident' = <<r>> \o RemoveAt(resident, i)
  <2>1. PICK i \in DOMAIN resident :
              IdOf(resident[i]) = DebugId[m] /\ resident' = <<r>> \o RemoveAt(resident, i)
    BY <1>4
  <2> DEFINE q == RemoveAt(resident, i)
  <2>2. q \in Seq(Resident) /\ Held(q) \subseteq Held(resident)
    BY <1>2, HeldRemove
  <2>3. DebugId[m] \notin Ids(q)
    BY <1>2, <2>1, RemoveIds
  <2>4. Held(q) \subseteq Old
    BY <2>2, <2>3, HeldFacts
  <2> QED BY <2>1, <2>2, <2>4
<1>5. CASE DebugId[m] \notin ResidentIds /\ resident' = <<r>> \o MakeRoom(resident)
  <2> DEFINE q == MakeRoom(resident)
  <2>1. q \in Seq(Resident) /\ Held(q) \subseteq Held(resident)
    BY <1>2, HeldFront, IdTypes DEF MakeRoom
  <2>2. Held(resident) \subseteq Old
    BY <1>2, <1>5, HeldFacts DEF ResidentIds
  <2> QED BY <1>5, <2>1, <2>2
<1> QED BY <1>4, <1>5 DEF Put

-----------------------------------------------------------------------------
(* A fixed set of sources on a fixed disk *)

(* The files a lookup may be served from under the sources q, and those of *)
(* them that answer to t.                                                  *)
From(q) ==
    {p \in Paths : \E i \in DOMAIN q :
        /\ Searchable(q[i])
        /\ \E w \in Visits[q[i].loc] : \E k \in Listing(w) : p = w[k]}
Holders(q, t) == {p \in From(q) : t \in aliases_of(p)}

MissIn(e, t) == e[t] # None /\ e[t].miss

(* The index tells no lie and, once nothing is pending, the whole truth.   *)
IndexExact ==
    /\ \A t \in Tokens : index[t] # None => index[t].path \in Holders(sources, t)
    /\ \A i \in DOMAIN sources : Searchable(sources[i]) /\ sources[i].id \in indexed =>
         \A w \in Visits[sources[i].loc] : \A k \in Listing(w) :
             \A t \in aliases_of(w[k]) : index[t] # None

(* A recorded miss, exported or not, is a token no source has a file for.  *)
MissesTrue ==
    /\ \A t \in Tokens : t \in negative \/ MissIn(entries, t) => Holders(sources, t) = {}
    /\ \A t \in Tokens : MissIn(manifest, t) => Holders(spec_manifest, t) = {}

(* What the cache holds came from the sources: its modules, and the        *)
(* debug-ids its aliases lead to.                                          *)
CacheServed ==
    /\ \A n \in Held(resident) : \E p \in From(sources) : disk[p] = n
    /\ \A t \in Tokens : aliases[t] # None =>
         aliases[t] = t \/ \E p \in Holders(sources, t) : DebugId[disk[p]] = aliases[t]

(* A lookup that has inserted its module will find it: it is the most      *)
(* recently used one and the token leads to it.                            *)
InsertedFirst ==
    call.pc = "inserting" =>
        Len(resident) >= 1 /\ aliases[Canon[call.tok]] = IdOf(resident[1])

FrozenInv == SameWalks /\ IndexExact /\ MissesTrue /\ CacheServed /\ InsertedFirst /\ AnsweredFromSources

LEMMA FilesSame ==
    ASSUME disk' = disk
    PROVE  /\ SameWalks' <=> SameWalks
           /\ From(sources)' = From(sources')
           /\ \A t : Holders(sources, t)' = Holders(sources', t)
           /\ \A t : Holders(spec_manifest, t)' = Holders(spec_manifest', t)
           /\ \A p : aliases_of(p)' = aliases_of(p)
           /\ \A w : Listing(w)' = Listing(w)
<1>1. /\ \A p : aliases_of(p)' = aliases_of(p)
      /\ \A w : Listing(w)' = Listing(w)
  BY DEF aliases_of, Listing, FilesMet
<1> QED BY <1>1 DEF SameWalks, From, Holders, Searchable

(* An indexed file is there and answers to its token. *)
LEMMA IndexedFile ==
    ASSUME StateInv, IndexExact, NEW t \in Tokens, index[t] # None
    PROVE  /\ index[t].path \in Holders(sources, t) /\ index[t].path \in From(sources)
           /\ disk[index[t].path] \in Images
           /\ t \in AliasesOf[disk[index[t].path]]
           /\ Found(t)
<1>1. /\ index[t].path \in Holders(sources, t) /\ index[t].path \in From(sources)
      /\ t \in aliases_of(index[t].path)
  BY DEF IndexExact, Holders
<1>2. disk[index[t].path] \in Images /\ t \in AliasesOf[disk[index[t].path]]
  BY <1>1 DEF aliases_of
<1> QED BY <1>1, <1>2, RegistryAssumption DEF Found

(* Once nothing is pending, a token that is not indexed is in no file.     *)
LEMMA NotIndexed ==
    ASSUME IndexExact, NothingPending, NEW t \in Tokens, index[t] = None
    PROVE  Holders(sources, t) = {}
<1> SUFFICES ASSUME NEW p \in Holders(sources, t) PROVE FALSE
  OBVIOUS
<1>1. PICK i \in DOMAIN sources :
        /\ Searchable(sources[i])
        /\ \E w \in Visits[sources[i].loc] : \E k \in Listing(w) : p = w[k]
  BY DEF Holders, From
<1>2. t \in aliases_of(p) /\ sources[i].id \in indexed
  BY <1>1 DEF Holders, NothingPending, Pending
<1> QED BY <1>1, <1>2 DEF IndexExact

LEMMA IndexStays ==
    ASSUME IndexExact, UNCHANGED <<regVars, diskVars>>
    PROVE  IndexExact'
<1>1. sources' = sources /\ index' = index /\ indexed' = indexed /\ disk' = disk
  BY DEF regVars, diskVars
<1> QED BY <1>1, FilesSame DEF IndexExact, Searchable

(* A walk indexes what it meets and forgets nothing. *)
LEMMA WalkExact ==
    ASSUME StateInv, SameWalks, IndexExact, IndexSource, UNCHANGED diskVars
    PROVE  IndexExact'
<1>1. PICK i \in DOMAIN sources :
        /\ Pending(sources[i])
        /\ \E w \in Visits[sources[i].loc] : index' = Indexed(w, sources[i].kind = "glob")
        /\ indexed' = indexed \cup {sources[i].id}
        /\ sources' = sources
  BY DEF IndexSource
<1>2. PICK w \in Visits[sources[i].loc] : index' = Indexed(w, sources[i].kind = "glob")
  BY <1>1
<1>3. Searchable(sources[i]) /\ sources[i].loc \in Locations /\ w \in Seq(Paths)
  <2>1. Searchable(sources[i]) /\ sources[i].loc \in Locations
    BY <1>1 DEF Pending, Searchable, StateInv, RegInv, GoodSources
  <2> QED BY <2>1, RegistryAssumption
<1>4. disk' = disk
  BY DEF diskVars
<1>5. ASSUME NEW t \in Tokens, Hits(w, t) # {}
      PROVE  /\ w[Min(Hits(w, t))] \in Holders(sources, t)
  <2> DEFINE k == Min(Hits(w, t))
  <2>1. Hits(w, t) \in SUBSET Nat
    BY <1>3, LenProperties DEF Hits, Listing, FilesMet
  <2>2. k \in Hits(w, t)
    BY <1>5, <2>1, MinProps
  <2> HIDE DEF k
  <2>3. k \in Listing(w) /\ t \in aliases_of(w[k]) /\ k \in DOMAIN w
    BY <2>2 DEF Hits, Listing, FilesMet
  <2>4. w[k] \in Paths
    BY <1>3, <2>3, LenProperties, ElementOfSeq
  <2> QED BY <1>2, <1>3, <2>3, <2>4 DEF Holders, From, k
<1>6. ASSUME NEW t \in Tokens
      PROVE  /\ index[t] # None => index'[t] = index[t]
             /\ index[t] = None /\ Hits(w, t) # {} =>
                  index'[t] # None /\ index'[t].path = w[Min(Hits(w, t))]
             /\ index[t] = None /\ Hits(w, t) = {} => index'[t] = None
  <2>1. index'[t] = IF index[t] = None /\ Hits(w, t) # {}
                    THEN [path |-> w[Min(Hits(w, t))], glob |-> sources[i].kind = "glob"]
                    ELSE index[t]
    BY <1>2 DEF Indexed
  <2>2. CASE index[t] = None /\ Hits(w, t) # {}
    <3>1. w[Min(Hits(w, t))] \in Paths
      BY <1>5, <2>2 DEF Holders, From
    <3>2. [path |-> w[Min(Hits(w, t))], glob |-> sources[i].kind = "glob"] \in Hit
      BY <3>1 DEF Hit
    <3> QED BY <2>1, <2>2, <3>2, HitAssumption
  <2> QED BY <2>1, <2>2
<1>7. ASSUME NEW t \in Tokens, index'[t] # None
      PROVE  index'[t].path \in Holders(sources', t)
  BY <1>1, <1>5, <1>6, <1>7 DEF IndexExact
<1>8. ASSUME NEW j \in DOMAIN sources', Searchable(sources'[j]), sources'[j].id \in indexed',
             NEW v \in Visits[sources'[j].loc], NEW k \in Listing(v), NEW t \in aliases_of(v[k])
      PROVE  index'[t] # None
  <2>0. t \in Tokens
    BY IdentityAssumption DEF aliases_of
  <2>1. CASE sources[j].id \in indexed
    <3>1. index[t] # None
      BY <1>1, <1>8, <2>1 DEF IndexExact
    <3> QED BY <1>6, <2>0, <3>1
  <2>2. CASE sources[j].id = sources[i].id
    <3>1. j = i
      BY <1>1, <2>2 DEF StateInv, RegInv, UniqueSourceIds
    <3>2. PICK l \in Listing(w) : v[k] = w[l]
      BY <1>1, <1>2, <1>3, <1>8, <3>1 DEF SameWalks
    <3>3. Hits(w, t) # {}
      BY <3>2 DEF Hits
    <3> QED BY <1>6, <2>0, <3>3
  <2> QED BY <1>1, <1>8, <2>1, <2>2
<1> QED BY <1>4, <1>7, <1>8, FilesSame DEF IndexExact, Searchable

LEMMA MissesStay ==
    ASSUME MissesTrue, disk' = disk, UNCHANGED <<sources, spec_manifest, manifest>>,
           \A t \in Tokens : t \in negative' \/ MissIn(entries', t) =>
               t \in negative \/ MissIn(entries, t)
    PROVE  MissesTrue'
BY FilesSame DEF MissesTrue, MissIn

LEMMA ServedStays ==
    ASSUME CacheServed, disk' = disk, UNCHANGED <<sources, aliases>>,
           Held(resident') \subseteq Held(resident)
    PROVE  CacheServed'
<1>1. From(sources)' = From(sources) /\ \A t : Holders(sources, t)' = Holders(sources, t)
  BY FilesSame
<1>2. Held(resident)' = Held(resident')
  BY DEF Held
<1> QED BY <1>1, <1>2 DEF CacheServed

(* How a lookup may end.                                                   *)
LEMMA AnswerTrue ==
    ASSUME NEW s \in Spellings, NEW r, Finish(s, r), disk' = disk, sources' = sources,
           \/ r = NotFound /\ Holders(sources, Canon[s]) = {}
           \/ r = Failed /\ \E p \in Holders(sources, Canon[s]) : disk[p] \in Unparsable
           \/ /\ r \in Images
              /\ \E p \in Holders(sources, Canon[s]) : DebugId[disk[p]] = DebugId[r]
              /\ \E p \in From(sources) : disk[p] = r
    PROVE  AnsweredFromSources' /\ call' = Idle
<1>1. answer'.tok = s /\ answer'.res = r /\ call' = Idle
  BY DEF Finish
<1>2. Servable' = From(sources) /\ Candidates(Canon[s])' = Holders(sources, Canon[s])
  <2>1. Servable' = From(sources)' /\ Candidates(Canon[s])' = Holders(sources, Canon[s])'
    BY DEF Servable, From, Candidates, Holders
  <2> QED BY <2>1, FilesSame
<1>3. r = NotFound => r # Failed /\ r \notin Images
  BY StateAssumption
<1>4. r = Failed => r \notin Images
  BY StateAssumption
<1> QED BY <1>1, <1>2, <1>3, <1>4 DEF AnsweredFromSources

LEMMA AnswerKept ==
    ASSUME AnsweredFromSources, answer' \in {answer, NoAnswer}, disk' = disk, sources' = sources
    PROVE  AnsweredFromSources'
<1>1. Servable' = Servable /\ \A t : Candidates(t)' = Candidates(t)
  <2>1. /\ Servable' = From(sources)' /\ Servable = From(sources)
        /\ \A t : Candidates(t)' = Holders(sources, t)' /\ Candidates(t) = Holders(sources, t)
    BY DEF Servable, From, Candidates, Holders
  <2> QED BY <2>1, FilesSame
<1>2. CASE answer' = NoAnswer
  BY <1>2 DEF NoAnswer, AnsweredFromSources
<1>3. CASE answer' = answer
  BY <1>1, <1>3 DEF AnsweredFromSources
<1> QED BY <1>2, <1>3

(* A lookup answered from the resident set.                                *)
LEMMA AnswerFrozen ==
    ASSUME StateInv, FrozenInv, NEW s \in Spellings, Lookup(s), Finish(s, Head(resident').img),
           UNCHANGED <<regVars, diskVars, spec_manifest>>
    PROVE  FrozenInv'
<1> DEFINE n == Head(resident').img
           t == Canon[s]
<1>1. /\ n \in Images /\ DebugId[n] = aliases[t] /\ n \in Held(resident)
      /\ Held(resident') = Held(resident)
      /\ t \in Tokens /\ DebugId[n] \in Tokens
  BY LookupAnswer, LookupHeld, IdTypes DEF StateInv
<1>2. /\ disk' = disk /\ sources' = sources
      /\ UNCHANGED <<aliases, negative, entries, manifest, spec_manifest>>
  BY DEF Lookup, indexVars, regVars, diskVars
<1>3. PICK p \in From(sources) : disk[p] = n
  BY <1>1 DEF FrozenInv, CacheServed
<1>4. \E h \in Holders(sources, t) : DebugId[disk[h]] = DebugId[n]
  <2>1. CASE aliases[t] = t
    <3>1. t \in AliasesOf[n]
      BY <1>1, <2>1, IdentityAssumption
    <3>2. p \in Holders(sources, t)
      BY <1>1, <1>3, <3>1 DEF Holders, aliases_of
    <3> QED BY <1>3, <3>2
  <2>2. CASE aliases[t] # t
    BY <1>1, <2>2, NoneAssumption DEF FrozenInv, CacheServed
  <2> QED BY <2>1, <2>2
<1>5. AnsweredFromSources' /\ call' = Idle
  BY <1>1, <1>2, <1>3, <1>4, AnswerTrue
<1> HIDE DEF n, t
<1>6. MissesTrue' /\ CacheServed'
  BY <1>1, <1>2, MissesStay, ServedStays DEF FrozenInv
<1>7. SameWalks' /\ IndexExact'
  BY <1>2, FilesSame, IndexStays DEF FrozenInv
<1> QED BY <1>5, <1>6, <1>7 DEF FrozenInv, InsertedFirst, Idle

(* A step that touches neither the index nor what the cache has stored, of *)
(* a lookup that has not inserted a module yet.                            *)
LEMMA QuietFrozen ==
    ASSUME FrozenInv, UNCHANGED <<cacheVars, regVars, diskVars, spec_manifest>>,
           call'.pc # "inserting", AnsweredFromSources'
    PROVE  FrozenInv'
<1>1. /\ disk' = disk /\ sources' = sources /\ Held(resident') = Held(resident)
      /\ UNCHANGED <<aliases, negative, entries, manifest, spec_manifest>>
  BY DEF cacheVars, regVars, diskVars
<1>2. MissesTrue' /\ CacheServed' /\ SameWalks' /\ IndexExact'
  BY <1>1, MissesStay, ServedStays, FilesSame, IndexStays DEF FrozenInv
<1> QED BY <1>2 DEF FrozenInv, InsertedFirst

LEMMA WalkFrozen ==
    ASSUME StateInv, FrozenInv, WalkSource
    PROVE  FrozenInv'
<1>1. /\ disk' = disk /\ sources' = sources /\ Held(resident') = Held(resident)
      /\ UNCHANGED <<aliases, negative, entries, manifest, spec_manifest, call, answer>>
      /\ IndexSource /\ UNCHANGED diskVars /\ call.pc # "inserting"
  BY DEF WalkSource, IndexSource, cacheVars, diskVars
<1>2. MissesTrue' /\ CacheServed' /\ SameWalks' /\ IndexExact' /\ AnsweredFromSources'
  BY <1>1, MissesStay, ServedStays, FilesSame, WalkExact, AnswerKept DEF FrozenInv
<1> QED BY <1>1, <1>2 DEF FrozenInv, InsertedFirst

(* A miss is recorded when every source was searched in vain.              *)
LEMMA MissFrozen ==
    ASSUME StateInv, FrozenInv, LocateMiss
    PROVE  FrozenInv'
<1> DEFINE s == call.tok
           t == Canon[s]
<1>1. s \in Spellings /\ t \in Tokens
  BY CallFacts, IdTypes DEF StateInv, CallInv, LocateMiss
<1>2. Holders(sources, t) = {}
  BY <1>1, IndexedFile, NotIndexed DEF LocateMiss, FrozenInv
<1>3. /\ disk' = disk /\ sources' = sources /\ resident' = resident /\ manifest' = manifest
      /\ spec_manifest' = spec_manifest
      /\ negative' = negative \cup {t}
      /\ aliases' = [aliases EXCEPT ![t] = IF @ = None THEN t ELSE @]
      /\ entries' = [entries EXCEPT ![t] = MissEntry(t)]
      /\ Finish(s, NotFound)
      /\ UNCHANGED <<regVars, diskVars>>
  BY DEF LocateMiss, record_miss, regVars, diskVars
<1> HIDE DEF s, t
<1>4. AnsweredFromSources' /\ call' = Idle
  BY <1>1, <1>2, <1>3, AnswerTrue DEF t
<1>5. /\ From(sources)' = From(sources) /\ \A u : Holders(sources, u)' = Holders(sources, u)
      /\ \A u : Holders(spec_manifest, u)' = Holders(spec_manifest, u)
  BY <1>3, FilesSame
<1>6. ASSUME NEW u \in Tokens, u \in negative' \/ MissIn(entries', u)
      PROVE  Holders(sources, u) = {}
  <2>1. CASE u = t
    BY <1>2, <2>1
  <2>2. CASE u # t
    <3>1. entries'[u] = entries[u]
      BY <1>1, <1>3, <2>2 DEF StateInv, CacheInv, CacheTypeOK, Manifests
    <3> QED BY <1>3, <1>6, <2>2, <3>1 DEF FrozenInv, MissesTrue, MissIn
  <2> QED BY <2>1, <2>2
<1>7. MissesTrue'
  BY <1>3, <1>5, <1>6 DEF FrozenInv, MissesTrue, MissIn
<1>8. CacheServed'
  <2>1. \A u \in Tokens : aliases'[u] = aliases[u] \/ aliases'[u] = u
    BY <1>1, <1>3 DEF StateInv, CacheInv, CacheTypeOK
  <2>2. Held(resident)' = Held(resident)
    BY <1>3 DEF Held
  <2>3. ASSUME NEW u \in Tokens, aliases'[u] # None
        PROVE  \/ aliases'[u] = u
               \/ \E h \in Holders(sources, u) : DebugId[disk[h]] = aliases'[u]
    BY <2>1, <2>3 DEF FrozenInv, CacheServed
  <2>4. \A n \in Held(resident) : \E p \in From(sources) : disk[p] = n
    BY DEF FrozenInv, CacheServed
  <2> QED BY <1>3, <1>5, <2>2, <2>3, <2>4 DEF CacheServed
<1>9. SameWalks' /\ IndexExact'
  BY <1>3, FilesSame, IndexStays DEF FrozenInv
<1> QED BY <1>4, <1>7, <1>8, <1>9 DEF FrozenInv, InsertedFirst, Idle

(* A located file does not parse.                                          *)
LEMMA ErrorFrozen ==
    ASSUME StateInv, FrozenInv, LocateError
    PROVE  FrozenInv'
<1> DEFINE s == call.tok
           p == index[Canon[s]].path
<1>1. s \in Spellings /\ Canon[s] \in Tokens /\ index[Canon[s]] # None
  BY CallFacts, IdTypes DEF StateInv, CallInv, LocateError, Found
<1>2. p \in Holders(sources, Canon[s]) /\ disk[p] \in Images
  BY <1>1, IndexedFile DEF FrozenInv
<1>3. disk[p] \in Unparsable
  BY <1>2, RegistryAssumption DEF LocateError
<1>4. /\ Finish(s, Failed) /\ disk' = disk /\ sources' = sources
      /\ UNCHANGED <<cacheVars, regVars, diskVars, spec_manifest>>
  BY DEF LocateError, regVars, diskVars
<1> HIDE DEF s, p
<1>5. AnsweredFromSources' /\ call' = Idle
  BY <1>1, <1>2, <1>3, <1>4, AnswerTrue
<1>6. call'.pc # "inserting"
  BY <1>5 DEF Idle
<1> QED BY <1>4, <1>5, <1>6, QuietFrozen

(* The located file is inserted: it is the most recently used module and   *)
(* the token leads to it.                                                  *)
LEMMA InsertFrozen ==
    ASSUME StateInv, FrozenInv, LocateInsert
    PROVE  FrozenInv'
<1> DEFINE t == Canon[call.tok]
           p == index[t].path
           m == disk[p]
<1>1. call.tok \in Spellings /\ t \in Tokens /\ index[t] # None
  BY CallFacts, IdTypes DEF StateInv, CallInv, LocateInsert, Found
<1>2. p \in From(sources) /\ m \in Images /\ t \in AliasesOf[m]
  BY <1>1, IndexedFile DEF FrozenInv
<1>3. insert(m, index[t]) /\ call' = [call EXCEPT !.pc = "inserting"]
      /\ UNCHANGED <<regVars, diskVars, answer, spec_manifest>>
  BY DEF LocateInsert
<1>4. disk' = disk /\ sources' = sources /\ manifest' = manifest /\ spec_manifest' = spec_manifest
      /\ Put(m)
  BY <1>3 DEF insert, regVars, diskVars
<1>5. /\ aliases' = [u \in Tokens |-> IF u \in AliasesOf[m] THEN DebugId[m] ELSE aliases[u]]
      /\ negative' \subseteq negative
      /\ entries' = [entries EXCEPT ![DebugId[m]] =
                        [origin |-> index[t], rows |-> 0, miss |-> FALSE]]
      /\ DebugId[m] \in Tokens
  BY <1>2, <1>3, IdTypes DEF insert, Claimed, StillMissing
<1>6. call'.pc = "inserting" /\ call'.tok = call.tok
  <2>1. call \in [pc : {"locating", "inserting"}, tok : Spellings]
    BY DEF StateInv, CallInv, LocateInsert, Call, Idle
  <2> QED BY <1>3, <2>1
<1> HIDE DEF m, p, t
<1>7. Held(resident') \subseteq Held(resident) \cup {m}
  BY <1>2, <1>4, PutHeld DEF StateInv
<1>8. Len(resident') >= 1 /\ resident'[1].img = m
  BY <1>2, <1>4, PutFirst DEF StateInv
<1>9. InsertedFirst'
  BY <1>1, <1>2, <1>5, <1>6, <1>8 DEF InsertedFirst, IdOf, t
<1>10. /\ From(sources)' = From(sources) /\ \A u : Holders(sources, u)' = Holders(sources, u)
       /\ Held(resident)' = Held(resident')
  BY <1>4, FilesSame DEF Held
<1>11. CacheServed'
  <2>1. \A n \in Held(resident') : \E q \in From(sources) : disk[q] = n
    BY <1>2, <1>7 DEF FrozenInv, CacheServed, m
  <2>2. ASSUME NEW u \in Tokens, aliases'[u] # None
        PROVE  \/ aliases'[u] = u
               \/ \E h \in Holders(sources, u) : DebugId[disk[h]] = aliases'[u]
    <3>1. CASE u \in AliasesOf[m]
      <4>1. p \in Holders(sources, u)
        BY <1>2, <3>1 DEF Holders, aliases_of, m
      <4> QED BY <1>5, <3>1, <4>1 DEF m
    <3>2. CASE u \notin AliasesOf[m]
      BY <1>5, <2>2, <3>2 DEF FrozenInv, CacheServed
    <3> QED BY <3>1, <3>2
  <2> QED BY <1>4, <1>10, <2>1, <2>2 DEF CacheServed
<1>12. MissesTrue'
  <2>1. ASSUME NEW u \in Tokens, u \in negative' \/ MissIn(entries', u)
        PROVE  u \in negative \/ MissIn(entries, u)
    <3>1. CASE u = DebugId[m]
      <4>1. ~MissIn(entries', u)
        BY <1>5, <3>1 DEF StateInv, CacheInv, CacheTypeOK, Manifests, MissIn
      <4> QED BY <1>5, <2>1, <4>1
    <3>2. CASE u # DebugId[m]
      <4>1. entries'[u] = entries[u]
        BY <1>5, <3>2 DEF StateInv, CacheInv, CacheTypeOK, Manifests
      <4> QED BY <1>5, <2>1, <4>1 DEF MissIn
    <3> QED BY <3>1, <3>2
  <2> QED BY <1>4, <2>1, MissesStay DEF FrozenInv
<1>13. SameWalks' /\ IndexExact' /\ AnsweredFromSources'
  BY <1>3, <1>4, FilesSame, IndexStays, AnswerKept DEF FrozenInv
<1> QED BY <1>9, <1>11, <1>12, <1>13 DEF FrozenInv

(* The eviction loop of the insert leaves the head of the LRU in place.    *)
LEMMA EvictsFrozen ==
    ASSUME StateInv, FrozenInv, InsertEvicts
    PROVE  FrozenInv'
<1> DEFINE n == Len(resident)
<1>1. /\ disk' = disk /\ UNCHANGED <<sources, aliases, negative, manifest, spec_manifest, answer, call>>
      /\ UNCHANGED <<regVars, diskVars>>
  BY DEF InsertEvicts, EvictStep, EvictDone, indexVars, regVars, diskVars
<1>2. resident \in Seq(Resident) /\ entries \in Manifests /\ n \in Nat
  BY LenProperties DEF StateInv, CacheInv, CacheTypeOK
<1>3. /\ Held(resident') \subseteq Held(resident)
      /\ \A t \in Tokens : MissIn(entries', t) => MissIn(entries, t)
      /\ n >= 1 => Len(resident') >= 1 /\ resident'[1] = resident[1]
  <2>1. CASE EvictStep
    <3>1. n > 1 /\ resident' = Front(resident) /\ entries' = FoldBack(entries, Last(resident))
      BY <2>1 DEF EvictStep, OverBudget
    <3>2. /\ Held(resident') \subseteq Held(resident) /\ Last(resident) \in Resident
          /\ Len(resident') = n - 1 /\ \A i \in 1..(n - 1) : resident'[i] = resident[i]
      <4>1. Len(resident) >= 1
        BY <1>2, <3>1
      <4>2. /\ Last(resident) \in Resident /\ Len(Front(resident)) = Len(resident) - 1
            /\ \A i \in 1..(Len(resident) - 1) : Front(resident)[i] = resident[i]
        BY <1>2, <4>1, FrontProps
      <4>3. Held(Front(resident)) \subseteq Held(resident)
        BY <1>2, <4>1, HeldFront
      <4> QED BY <3>1, <4>2, <4>3
    <3>3. SameButRows(entries, entries')
      BY <1>2, <3>1, <3>2, FoldBackProps
    <3> HIDE DEF n
    <3>4. 1 \in 1..(n - 1) /\ n - 1 >= 1
      BY <1>2, <3>1
    <3> QED BY <3>2, <3>3, <3>4 DEF SameButRows, MissIn
  <2>2. CASE EvictDone
    BY <2>2 DEF EvictDone, indexVars, MissIn
  <2> QED BY <2>1, <2>2 DEF InsertEvicts
<1>4. MissesTrue' /\ CacheServed' /\ SameWalks' /\ IndexExact' /\ AnsweredFromSources'
  BY <1>1, <1>3, MissesStay, ServedStays, FilesSame, IndexStays, AnswerKept DEF FrozenInv
<1>5. InsertedFirst'
  BY <1>1, <1>3 DEF FrozenInv, InsertedFirst
<1> QED BY <1>4, <1>5 DEF FrozenInv

(* After the insert the token finds its module, so not_found is not said.  *)
LEMMA AgainFrozen ==
    ASSUME StateInv, FrozenInv, ResolveAgain
    PROVE  FrozenInv'
<1>1. call.tok \in Spellings
  BY CallFacts DEF StateInv, CallInv, ResolveAgain
<1>2. is_resident(call.tok)
  <2>1. Len(resident) >= 1 /\ aliases[Canon[call.tok]] = IdOf(resident[1])
    BY DEF FrozenInv, InsertedFirst, ResolveAgain
  <2>2. 1 \in DOMAIN resident
    BY <2>1, ResidentFacts DEF StateInv, CacheInv
  <2> QED BY <2>1, <2>2 DEF is_resident, resolve_debug_id, ResidentIds, Ids
<1> QED BY <1>1, <1>2, AnswerFrozen DEF ResolveAgain

(* Modules evicted on demand, and the export of the manifest.              *)
LEMMA OtherFrozen ==
    ASSUME StateInv, FrozenInv,
           export_manifest \/ CacheEvictAll \/ \E s \in Spellings : CacheEvict(s)
    PROVE  FrozenInv'
<1>1. /\ disk' = disk /\ UNCHANGED <<sources, aliases, negative, call>>
      /\ UNCHANGED <<regVars, diskVars>> /\ answer' = NoAnswer /\ call = Idle
  BY DEF export_manifest, to_manifest, CacheEvictAll, EvictAll, CacheEvict, EvictOne, regVars, diskVars
<1>2. resident \in Seq(Resident) /\ entries \in Manifests
  BY DEF StateInv, CacheInv, CacheTypeOK
<1>3. /\ Held(resident') \subseteq Held(resident)
      /\ SameButRows(entries, entries')
  <2>1. CASE export_manifest
    BY <1>2, <2>1, FoldAllProps DEF export_manifest, to_manifest
  <2>2. CASE CacheEvictAll
    <3>1. resident' = <<>> /\ Held(<<>>) = {}
      BY <2>2, EmptySeq DEF CacheEvictAll, EvictAll, Held
    <3> QED BY <1>2, <2>2, <3>1, FoldAllProps DEF CacheEvictAll, EvictAll
  <2>3. ASSUME NEW s \in Spellings, CacheEvict(s)
        PROVE  Held(resident') \subseteq Held(resident) /\ SameButRows(entries, entries')
    <3>1. PICK i \in DOMAIN resident :
            resident' = RemoveAt(resident, i) /\ entries' = FoldBack(entries, resident[i])
      BY <2>3 DEF CacheEvict, EvictOne
    <3>2. resident[i] \in Resident
      BY <3>1, ResidentFacts DEF StateInv, CacheInv
    <3> QED BY <1>2, <3>1, <3>2, HeldRemove, FoldBackProps
  <2> QED BY <2>1, <2>2, <2>3
<1>4. \A t \in Tokens : MissIn(entries', t) => MissIn(entries, t)
  BY <1>3 DEF SameButRows, MissIn
<1>5. CacheServed' /\ SameWalks' /\ IndexExact' /\ AnsweredFromSources'
  BY <1>1, <1>3, ServedStays, FilesSame, IndexStays, AnswerKept DEF FrozenInv
<1>6. MissesTrue'
  <2>1. CASE export_manifest
    <3>1. manifest' = entries' /\ spec_manifest' = sources
      BY <2>1 DEF export_manifest, to_manifest
    <3> QED BY <1>1, <1>4, <3>1, FilesSame DEF FrozenInv, MissesTrue, MissIn
  <2>2. CASE CacheEvictAll \/ \E s \in Spellings : CacheEvict(s)
    <3>1. UNCHANGED <<manifest, spec_manifest>>
      BY <2>2 DEF CacheEvictAll, EvictAll, CacheEvict, EvictOne
    <3> QED BY <1>1, <1>4, <3>1, MissesStay DEF FrozenInv
  <2> QED BY <2>1, <2>2
<1>7. InsertedFirst'
  BY <1>1 DEF InsertedFirst, Idle
<1> QED BY <1>5, <1>6, <1>7 DEF FrozenInv

(* A restart brings back the exported misses with the exported sources.    *)
LEMMA RestartFrozen ==
    ASSUME FrozenInv, Restart
    PROVE  FrozenInv'
<1>1. PICK kept \in BOOLEAN :
        /\ cold_start(IF kept THEN manifest ELSE EmptyManifest)
        /\ spec_manifest' = IF kept THEN spec_manifest ELSE <<>>
  BY DEF Restart
<1> DEFINE mf == IF kept THEN manifest ELSE EmptyManifest
<1>2. /\ sources' = spec_manifest' /\ index' = EmptyIndex /\ indexed' = {}
      /\ answer' = NoAnswer /\ call' = Idle /\ disk' = disk
  BY DEF Restart, restore, diskVars
<1>3. /\ resident' = <<>> /\ manifest' = mf /\ entries' = mf
      /\ aliases' = [t \in Tokens |-> IF mf[t] = None THEN None ELSE t]
      /\ negative' = {t \in Tokens : mf[t] # None /\ mf[t].miss}
  BY <1>1 DEF cold_start, rehydrate
<1>4. \A t \in Tokens : MissIn(mf, t) => Holders(spec_manifest', t) = {}
  <2>1. CASE kept
    BY <1>1, <2>1 DEF FrozenInv, MissesTrue
  <2>2. CASE ~kept
    BY <2>2 DEF MissIn, EmptyManifest
  <2> QED BY <2>1, <2>2
<1> HIDE DEF mf
<1>5. MissesTrue'
  BY <1>2, <1>3, <1>4, FilesSame DEF MissesTrue, MissIn
<1>6. CacheServed'
  <2>1. Held(resident)' = {}
    BY <1>3, EmptySeq DEF Held
  <2> QED BY <1>3, <2>1, NoneAssumption DEF CacheServed
<1>7. IndexExact'
  BY <1>2 DEF IndexExact, EmptyIndex
<1>8. SameWalks' /\ InsertedFirst' /\ AnsweredFromSources'
  BY <1>2, FilesSame DEF FrozenInv, InsertedFirst, Idle, AnsweredFromSources, NoAnswer
<1> QED BY <1>5, <1>6, <1>7, <1>8 DEF FrozenInv

LEMMA FrozenStartInv == FrozenStart => StateInv /\ FrozenInv
<1> SUFFICES ASSUME FrozenStart PROVE StateInv /\ FrozenInv
  OBVIOUS
<1>1. CacheInv
  BY CacheInitInv DEF FrozenStart
<1>2. /\ resident = <<>> /\ aliases = [t \in Tokens |-> None] /\ entries = EmptyManifest
      /\ negative = {} /\ ~evicting /\ manifest = EmptyManifest
      /\ index = EmptyIndex /\ indexed = {}
  BY DEF FrozenStart, CacheInit, new
<1>3. GoodSources(sources)
  <2>1. \A i \in DOMAIN sources : sources[i] \in Source
    BY SourceFacts DEF FrozenStart
  <2> QED BY <2>1 DEF FrozenStart, GoodSources, UniqueSourceIds, Accepted, Source, LocalKinds
<1>4. RegInv
  <2>1. RegTypeOK
    BY <1>2 DEF FrozenStart, RegTypeOK, EmptyIndex
  <2>2. WalkedInOrder /\ IndexFromLiveSources /\ FirstMatchWins /\ IndexTrue
    BY <1>2 DEF WalkedInOrder, IndexFromLiveSources, FirstMatchWins, IndexTrue, EmptyIndex
  <2> QED BY <1>3, <2>1, <2>2 DEF RegInv, FrozenStart
<1>5. GoodSources(spec_manifest)
  BY EmptySeq DEF FrozenStart, GoodSources
<1>6. ResidentFindable /\ Held(resident) = {}
  BY <1>2, EmptySeq DEF ResidentFindable, ResidentIds, Ids, Held
<1>7. call \in Call /\ call.pc = "idle" /\ answer \in Answer /\ answer.res = None /\ answer.tok = None
  BY DEF FrozenStart, Idle, Call, NoAnswer, Answer
<1>8. CallInv
  BY <1>2, <1>7, StateAssumption DEF CallInv, CallGuards, NoMisattribution
<1>9. IndexExact /\ MissesTrue /\ CacheServed /\ InsertedFirst /\ AnsweredFromSources
  BY <1>2, <1>6, <1>7 DEF IndexExact, EmptyIndex, MissesTrue, MissIn, EmptyManifest,
     CacheServed, InsertedFirst, AnsweredFromSources
<1> QED BY <1>1, <1>4, <1>5, <1>6, <1>8, <1>9 DEF StateInv, FrozenInv, FrozenStart

LEMMA FrozenNextInv ==
    ASSUME StateInv, FrozenInv, [FrozenNext]_vars
    PROVE  StateInv' /\ FrozenInv'
<1>1. StateInv'
  BY StateNextInv DEF FrozenNext, Next
<1> SUFFICES FrozenInv'
  BY <1>1
<1>2. ASSUME NEW s \in Spellings, StartLookup(s) PROVE FrozenInv'
  <2>1. CASE ResolveHit(s)
    BY <2>1, AnswerFrozen DEF ResolveHit
  <2>2. CASE ResolveKnownMiss(s)
    <3>1. /\ Finish(s, NotFound) /\ disk' = disk /\ sources' = sources
          /\ UNCHANGED <<cacheVars, regVars, diskVars, spec_manifest>>
      BY <2>2 DEF ResolveKnownMiss, regVars, diskVars
    <3>2. Holders(sources, Canon[s]) = {}
      BY <2>2, IdTypes DEF ResolveKnownMiss, is_known_miss, FrozenInv, MissesTrue
    <3>3. AnsweredFromSources' /\ call' = Idle
      BY <3>1, <3>2, AnswerTrue
    <3>4. call'.pc # "inserting"
      BY <3>3 DEF Idle
    <3> QED BY <3>1, <3>3, <3>4, QuietFrozen
  <2>3. CASE ResolveSearch(s)
    <3>1. /\ call' = [pc |-> "locating", tok |-> s] /\ answer' = NoAnswer
          /\ UNCHANGED <<cacheVars, regVars, diskVars, spec_manifest>>
          /\ disk' = disk /\ sources' = sources
      BY <2>3 DEF ResolveSearch, regVars, diskVars
    <3>2. AnsweredFromSources'
      BY <3>1, AnswerKept DEF FrozenInv
    <3>3. call'.pc # "inserting"
      BY <3>1
    <3> QED BY <3>1, <3>2, <3>3, QuietFrozen
  <2> QED BY <1>2, <2>1, <2>2, <2>3 DEF StartLookup
<1>3. CASE LookupStep
  <2>1. CASE WalkSource BY <2>1, WalkFrozen
  <2>2. CASE LocateMiss BY <2>2, MissFrozen
  <2>3. CASE LocateError BY <2>3, ErrorFrozen
  <2>4. CASE LocateInsert BY <2>4, InsertFrozen
  <2>5. CASE InsertEvicts BY <2>5, EvictsFrozen
  <2>6. CASE ResolveAgain BY <2>6, AgainFrozen
  <2> QED BY <1>3, <2>1, <2>2, <2>3, <2>4, <2>5, <2>6 DEF LookupStep
<1>4. CASE WalkPanics
  <2>1. /\ call'.pc # "inserting" /\ disk' = disk /\ sources' = sources /\ answer' = answer
        /\ UNCHANGED <<cacheVars, regVars, diskVars, spec_manifest>>
    BY <1>4 DEF WalkPanics, Idle, regVars, diskVars
  <2>2. AnsweredFromSources'
    BY <2>1, AnswerKept DEF FrozenInv
  <2> QED BY <2>1, <2>2, QuietFrozen
<1>5. CASE export_manifest \/ CacheEvictAll \/ \E s \in Spellings : CacheEvict(s)
  BY <1>5, OtherFrozen
<1>6. CASE Restart
  BY <1>6, RestartFrozen
<1>7. CASE UNCHANGED vars
  <2>1. /\ UNCHANGED <<cacheVars, regVars, diskVars, spec_manifest, call, answer>>
        /\ disk' = disk /\ sources' = sources /\ Held(resident') = Held(resident)
        /\ UNCHANGED <<resident, aliases, negative, entries, manifest, spec_manifest>>
    BY <1>7 DEF vars, cacheVars, regVars, diskVars
  <2>2. MissesTrue' /\ CacheServed' /\ SameWalks' /\ IndexExact' /\ AnsweredFromSources'
    BY <2>1, MissesStay, ServedStays, FilesSame, IndexStays, AnswerKept DEF FrozenInv
  <2>3. InsertedFirst'
    BY <2>1 DEF FrozenInv, InsertedFirst
  <2> QED BY <2>2, <2>3 DEF FrozenInv
<1> QED BY <1>2, <1>3, <1>4, <1>5, <1>6, <1>7 DEF FrozenNext

(* On a disk and a set of sources that do not change, for every disk,      *)
(* every set of sources and every budget: after any evictions, recorded    *)
(* misses, exports, restarts and panics a lookup says not_found only if no *)
(* file answers to its token, and otherwise answers with a module some     *)
(* source serves, under the debug-id of a file that answers to the token   *)
(* (state.rs, ensure_resident).                                            *)
THEOREM LookupsAnswerFromSources == FrozenStart /\ [][FrozenNext]_vars => []AnsweredFromSources
<1>1. StateInv /\ FrozenInv /\ [FrozenNext]_vars => StateInv' /\ FrozenInv'
  BY FrozenNextInv
<1>2. StateInv /\ FrozenInv => AnsweredFromSources
  BY DEF FrozenInv
<1> QED BY <1>1, <1>2, FrozenStartInv, PTL

-----------------------------------------------------------------------------
(* The cache inside the state machine *)

(* Each step of the state machine is one of the cache's operations, or     *)
(* leaves the cache alone.                                                 *)
LEMMA CacheStep ==
    ASSUME StateInv, [Next]_vars
    PROVE  [CacheNext]_cacheVars
<1>1. call \in Call
  BY DEF StateInv, CallInv
<1>2. ASSUME NEW s \in Spellings, StartLookup(s) PROVE [CacheNext]_cacheVars
  BY <1>2 DEF StartLookup, ResolveHit, ResolveKnownMiss, ResolveSearch, CacheNext
<1>3. CASE LookupStep
  <2>1. CASE WalkSource BY <2>1 DEF WalkSource
  <2>2. CASE LocateMiss BY <1>1, <2>2, CallFacts DEF LocateMiss, CacheNext
  <2>3. CASE LocateError BY <2>3 DEF LocateError
  <2>4. CASE LocateInsert
    <3>1. Canon[call.tok] \in Tokens
      BY <1>1, <2>4, CallFacts, IdTypes DEF LocateInsert
    <3>2. index[Canon[call.tok]] \in Origins
      BY <2>4, <3>1, StateAssumption DEF LocateInsert, Found, StateInv, RegInv, RegTypeOK
    <3>3. \E m \in Images : insert(m, index[Canon[call.tok]])
      BY <2>4 DEF LocateInsert
    <3> QED BY <3>2, <3>3 DEF CacheNext
  <2>5. CASE InsertEvicts BY <2>5 DEF InsertEvicts, CacheNext
  <2>6. CASE ResolveAgain BY <1>1, <2>6, CallFacts DEF ResolveAgain, CacheNext
  <2> QED BY <1>3, <2>1, <2>2, <2>3, <2>4, <2>5, <2>6 DEF LookupStep
<1>4. CASE WalkPanics BY <1>4 DEF WalkPanics
<1>5. CASE AddSource \/ (\E id \in 0..MaxSources : DropSource(id)) \/ DiskMoves
  BY <1>5 DEF AddSource, DropSource, DiskMoves
<1>6. CASE CacheEvictAll \/ \E s \in Spellings : CacheEvict(s)
  BY <1>6 DEF CacheEvictAll, CacheEvict, CacheNext
<1>7. CASE export_manifest BY <1>7 DEF export_manifest, CacheNext
<1>8. CASE Restart BY <1>8 DEF Restart, ColdStart, CacheNext
<1>9. CASE UNCHANGED vars BY <1>9 DEF vars
<1> QED BY <1>2, <1>3, <1>4, <1>5, <1>6, <1>7, <1>8, <1>9 DEF Next

(* So it only ever moves its cache by the cache's operations.              *)
LEMMA CacheRuns == Init /\ [][Next]_vars => CacheInit /\ [][CacheNext]_cacheVars
<1>1. StateInv /\ [Next]_vars => StateInv' /\ [CacheNext]_cacheVars
  BY CacheStep, StateNextInv
<1>2. Init => StateInv /\ CacheInit
  BY StateInitInv DEF Init
<1> QED BY <1>1, <1>2, PTL

(* Whatever is proved of the cache under any client (of SymbolCache, which *)
(* SymbolsState owns: state.rs) holds of it inside the state machine.      *)
THEOREM StateRunsTheCache == Spec => CacheInit /\ [][CacheNext]_cacheVars
BY CacheRuns, PTL DEF Spec

(* Both budgets hold of the real sizes of the modules in the running       *)
(* library too, outside the eviction loop of a lookup.                     *)
THEOREM BudgetsHoldInState == Spec => []WithinBudgets
BY StateRunsTheCache, CacheBudgets, PTL

-----------------------------------------------------------------------------
(* The state machine implements the library, for every disk, every set of  *)
(* sources and every budget: each of its steps is a step of the library or *)
(* leaves the library as it is.                                            *)

(* A miss in the index is in the negative cache: what is exported as       *)
(* missing is missing.                                                     *)
MissesKnown == Misses(entries) \subseteq negative

(* The state machine's invariant, and that. *)
LibInv == StateInv /\ MissesKnown

-----------------------------------------------------------------------------
(* What is missing *)

(* Entries that change in their row counts only: no token becomes missing. *)
LEMMA FoldMisses ==
    ASSUME MissesKnown, SameButRows(entries, entries'), negative' = negative
    PROVE  MissesKnown'
<1>1. \A t \in Tokens : entries'[t] # None /\ entries'[t].miss => entries[t] # None /\ entries[t].miss
  BY DEF SameButRows
<1> QED BY <1>1 DEF MissesKnown, Misses

(* A token recorded as missing; the entry of a located module stays. *)
LEMMA RecordMissKnown ==
    ASSUME CacheInv, MissesKnown, NEW s \in Spellings, record_miss(s)
    PROVE  MissesKnown'
<1> DEFINE t == Canon[s]
<1>1. t \in Tokens /\ entries \in [Tokens -> Entry \cup {None}]
  BY IdTypes DEF CacheInv, CacheTypeOK, Manifests
<1>2. negative' = negative \cup {t} /\ entries' = [entries EXCEPT ![t] = MissEntry(t)]
  BY DEF record_miss
<1> HIDE DEF t
<1>3. \A d \in Tokens : d # t => entries'[d] = entries[d]
  BY <1>1, <1>2
<1> QED BY <1>2, <1>3 DEF MissesKnown, Misses

(* An insert: the entry of the new module is no miss. *)
LEMMA InsertKnown ==
    ASSUME CacheInv, MissesKnown, NEW m \in Images, NEW o, insert(m, o)
    PROVE  MissesKnown' /\ negative' = negative \ {DebugId[m]}
<1> DEFINE e == [origin |-> o, rows |-> 0, miss |-> FALSE]
<1>1. DebugId[m] \in Tokens /\ Canon[DebugId[m]] = DebugId[m]
      /\ entries \in [Tokens -> Entry \cup {None}]
  BY IdTypes DEF CacheInv, CacheTypeOK, Manifests
<1>2. negative' = negative \ {DebugId[m]} /\ entries' = [entries EXCEPT ![DebugId[m]] = e]
  BY <1>1 DEF insert, StillMissing
<1>3. ~e.miss
  OBVIOUS
<1> HIDE DEF e
<1>4. \A d \in Tokens : entries'[d] = IF d = DebugId[m] THEN e ELSE entries[d]
  BY <1>1, <1>2
<1> QED BY <1>2, <1>3, <1>4 DEF MissesKnown, Misses

(* Entries that change in their row counts only keep their origins. *)
LEMMA RowsOrigins ==
    ASSUME SameButRows(entries, entries')
    PROVE  OriginFiles(entries') = OriginFiles(entries)
BY DEF SameButRows, OriginFiles, Located

(* A miss adds an entry without an origin, or none. *)
LEMMA RecordMissOrigins ==
    ASSUME CacheInv, NEW s \in Spellings, record_miss(s)
    PROVE  OriginFiles(entries') = OriginFiles(entries)
<1> DEFINE t == Canon[s]
           e == [origin |-> None, rows |-> 0, miss |-> TRUE]
<1>1. t \in Tokens /\ entries \in [Tokens -> Entry \cup {None}]
  BY IdTypes DEF CacheInv, CacheTypeOK, Manifests
<1>2. entries' = [entries EXCEPT ![t] = IF entries[t] = None THEN e ELSE entries[t]]
  BY DEF record_miss, MissEntry
<1>3. e.origin = None
  OBVIOUS
<1> HIDE DEF e, t
<1>4. \A d \in Tokens : entries'[d] = IF d = t /\ entries[t] = None THEN e ELSE entries[d]
  BY <1>1, <1>2
<1>5. Located(entries') = Located(entries)
  BY <1>3, <1>4 DEF Located
<1>6. \A d \in Located(entries) : entries'[d] = entries[d]
  BY <1>4 DEF Located
<1> QED BY <1>5, <1>6 DEF OriginFiles

(* An insert records where its module was found. *)
LEMMA InsertOrigins ==
    ASSUME CacheInv, NEW m \in Images, NEW h \in Hit, insert(m, h)
    PROVE  /\ h.path \in OriginFiles(entries')
           /\ OriginFiles(entries') \subseteq OriginFiles(entries) \cup {h.path}
<1> DEFINE e == [origin |-> h, rows |-> 0, miss |-> FALSE]
           d == DebugId[m]
<1>1. d \in Tokens /\ entries \in [Tokens -> Entry \cup {None}]
  BY IdTypes DEF CacheInv, CacheTypeOK, Manifests
<1>2. entries' = [entries EXCEPT ![d] = e]
  BY DEF insert
<1>3. e.origin = h /\ h # None /\ e # None
  <2>1. e \in Entry
    BY StateAssumption DEF Entry
  <2> QED BY <2>1, HitAssumption, AbsentAssumption
<1> HIDE DEF e, d
<1>4. \A t \in Tokens : entries'[t] = IF t = d THEN e ELSE entries[t]
  BY <1>1, <1>2
<1>5. d \in Located(entries') /\ entries'[d].origin = h
  BY <1>1, <1>3, <1>4 DEF Located
<1>6. \A t \in Located(entries') : t # d => t \in Located(entries) /\ entries'[t] = entries[t]
  BY <1>4 DEF Located
<1> QED BY <1>5, <1>6 DEF OriginFiles

(* What the new process takes for missing is what the manifest says. *)
LEMMA ColdStartKnown ==
    ASSUME NEW mf, cold_start(mf)
    PROVE  /\ MissesKnown' /\ Held(resident') = {}
           /\ negative' = Misses(mf) /\ manifest' = mf /\ entries' = mf
<1>1. resident' = <<>> /\ negative' = Misses(mf) /\ manifest' = mf /\ entries' = mf
  BY DEF cold_start, rehydrate, Misses
<1>2. Held(<<>>) = {}
  BY EmptySeq DEF Held
<1> QED BY <1>1, <1>2 DEF MissesKnown

-----------------------------------------------------------------------------
(* The steps of a lookup *)

(* The index leads into the reach of the live sources. *)
LEMMA IndexReach ==
    ASSUME RegInv, NEW t \in Tokens, index[t] # None
    PROVE  index[t].path \in Reach(sources)
BY DEF RegInv, IndexFromLiveSources, Reach

(* A token that finds no resident module is no resident module's id. *)
LEMMA NotHeld ==
    ASSUME CacheInv, ResidentFindable, NEW s \in Spellings, ~is_resident(s)
    PROVE  Canon[s] \notin {DebugId[n] : n \in Held(resident)}
<1>1. Canon[s] \notin ResidentIds
  BY DEF ResidentFindable, is_resident, resolve_debug_id
<1> QED BY <1>1, HeldFacts DEF CacheInv, CacheTypeOK, ResidentIds

(* The library's variables follow those they are mapped to. *)
LEMMA SameMap ==
    /\ resident' = resident => Held(resident)' = Held(resident)
    /\ sources' = sources => Reach(sources)' = Reach(sources)
    /\ spec_manifest' = spec_manifest => Reach(spec_manifest)' = Reach(spec_manifest)
    /\ manifest' = manifest => Misses(manifest)' = Misses(manifest)
    /\ manifest' = manifest => OriginFiles(manifest)' = OriginFiles(manifest)
    /\ entries' = entries => OriginFiles(entries)' = OriginFiles(entries)
    /\ Held(resident)' = Held(resident')
    /\ Reach(sources)' = Reach(sources')
    /\ Reach(spec_manifest)' = Reach(spec_manifest')
    /\ Misses(manifest)' = Misses(manifest')
    /\ OriginFiles(entries)' = OriginFiles(entries')
    /\ OriginFiles(manifest)' = OriginFiles(manifest')
BY DEF Held, Reach, FilesOf, Searchable, Misses, OriginFiles, Located

(* The two modules speak of the same identities and silence. *)
LEMMA SameIds ==
    /\ \A t, d : Lib!Names(t, d) <=> Names(t, d)
    /\ Lib!Tokens = Tokens
    /\ Lib!Silent = NoAnswer
BY DEF Lib!Names, Names, Lib!Tokens, Tokens, Lib!Silent, NoAnswer

(* A lookup that is answered from a resident module. *)
LEMMA AnswerStep ==
    ASSUME LibInv, NEW s \in Spellings, Lookup(s), Finish(s, Head(resident').img),
           UNCHANGED <<regVars, diskVars, spec_manifest>>
    PROVE  MissesKnown' /\ Lib!Next
<1>1. /\ Held(resident)' = Held(resident)
      /\ Head(resident').img \in Held(resident)
      /\ Lib!Names(Canon[s], DebugId[Head(resident').img])
  BY LookupHeld, LookupAnswer, SameMap, SameIds DEF LibInv, StateInv
<1>2. UNCHANGED <<disk, Reach(sources), Held(resident), negative, OriginFiles(entries),
                  Reach(spec_manifest), Misses(manifest), OriginFiles(manifest)>>
  BY <1>1, SameMap DEF Lookup, indexVars, regVars, diskVars
<1>3. Lib!AnswerFrom(s)
  BY <1>1, <1>2 DEF Lib!AnswerFrom, Finish, Lib!memory, Lib!disc
<1>4. MissesKnown'
  BY DEF LibInv, MissesKnown, Misses, Lookup, indexVars
<1> QED BY <1>3, <1>4 DEF Lib!Next

(* A lookup that finds nothing, the miss recorded or not. *)
LEMMA MissingStep ==
    ASSUME LibInv, NEW s \in Spellings, ~is_resident(s), Finish(s, NotFound),
           record_miss(s) \/ UNCHANGED cacheVars,
           UNCHANGED <<regVars, diskVars, spec_manifest>>
    PROVE  MissesKnown' /\ Lib!Next
<1>1. Canon[s] \notin Lib!HeldIds
  BY NotHeld DEF LibInv, StateInv, Lib!HeldIds
<1>2. UNCHANGED <<disk, Reach(sources), Held(resident),
                  Reach(spec_manifest), Misses(manifest), OriginFiles(manifest)>>
  BY SameMap DEF record_miss, cacheVars, regVars, diskVars
<1>3. negative' = negative \/ negative' = negative \cup {Canon[s]}
  BY DEF record_miss, cacheVars
<1>4. UNCHANGED OriginFiles(entries)
  BY SameMap, RecordMissOrigins DEF LibInv, StateInv, cacheVars
<1>5. Lib!AnswerMissing(s)
  BY <1>1, <1>2, <1>3, <1>4 DEF Lib!AnswerMissing, Finish, Lib!disc
<1>6. MissesKnown'
  BY RecordMissKnown DEF LibInv, StateInv, MissesKnown, Misses, cacheVars
<1> QED BY <1>5, <1>6 DEF Lib!Next

(* The located file does not parse. *)
LEMMA FailedStep ==
    ASSUME LibInv, LocateError
    PROVE  MissesKnown' /\ Lib!Next
<1> DEFINE p == index[Canon[call.tok]].path
<1>1. call.tok \in Spellings
  BY CallFacts DEF LibInv, StateInv, CallInv, LocateError
<1>2. p \in Reach(sources)
  BY <1>1, IdTypes, IndexReach DEF LocateError, Found, LibInv, StateInv
<1>3. disk[p] \in Unparsable \cup {Junk} /\ disk[p] # Absent
  BY DEF LocateError, Found
<1> HIDE DEF p
<1>4. disk[p] \notin (Images \ Unparsable) \cup {Absent}
  BY <1>3, RegistryAssumption
<1>5. UNCHANGED <<disk, Reach(sources), Held(resident), negative, OriginFiles(entries),
                  Reach(spec_manifest), Misses(manifest), OriginFiles(manifest)>>
  BY SameMap DEF LocateError, cacheVars, regVars, diskVars
<1>6. Lib!AnswerFailed(call.tok)
  BY <1>2, <1>4, <1>5 DEF Lib!AnswerFailed, LocateError, Finish, Lib!memory, Lib!disc
<1>7. MissesKnown'
  BY DEF LibInv, MissesKnown, Misses, LocateError, cacheVars
<1> QED BY <1>1, <1>6, <1>7 DEF Lib!Next

(* The located file is parsed and inserted. *)
LEMMA LoadStep ==
    ASSUME LibInv, LocateInsert
    PROVE  MissesKnown' /\ Lib!Next
<1> DEFINE hit == index[Canon[call.tok]]
           m == disk[hit.path]
<1>1. call.tok \in Spellings
  BY CallFacts DEF LibInv, StateInv, CallInv, LocateInsert
<1>2. hit.path \in Reach(sources)
  BY <1>1, IdTypes, IndexReach DEF LocateInsert, Found, LibInv, StateInv
<1>3. m \in Images \ Unparsable /\ insert(m, hit)
  BY DEF LocateInsert
<1>4. UNCHANGED <<disk, Reach(sources), Reach(spec_manifest), Misses(manifest),
                  OriginFiles(manifest), answer>>
  BY SameMap DEF LocateInsert, insert, regVars, diskVars
<1> HIDE DEF hit
<1>5. MissesKnown' /\ negative' = negative \ {DebugId[m]}
  BY <1>3, InsertKnown DEF LibInv, StateInv
<1>6. /\ m \in Held(resident)'
      /\ Held(resident)' \subseteq {n \in Held(resident) : DebugId[n] # DebugId[m]} \cup {m}
  BY <1>3, PutHeld, SameMap DEF insert, LibInv, StateInv
<1>7. /\ hit.path \in OriginFiles(entries)'
      /\ OriginFiles(entries)' \subseteq OriginFiles(entries) \cup {hit.path}
  <2>1. hit \in Hit
    BY <1>1, IdTypes DEF LocateInsert, Found, LibInv, StateInv, RegInv, RegTypeOK, hit
  <2> QED BY <1>3, <2>1, InsertOrigins, SameMap DEF LibInv, StateInv
<1>8. Lib!Load
  BY <1>2, <1>3, <1>4, <1>5, <1>6, <1>7 DEF Lib!Load, Lib!disc
<1> QED BY <1>5, <1>8 DEF Lib!Next

(* Modules leave; the call goes on, or it is a call that says nothing. *)
LEMMA ForgetStep ==
    ASSUME LibInv, Held(resident') \subseteq Held(resident), SameButRows(entries, entries'),
           answer' \in {answer, NoAnswer},
           UNCHANGED <<negative, manifest, regVars, diskVars, spec_manifest>>
    PROVE  MissesKnown' /\ Lib!Next
<1>1. UNCHANGED <<disk, Reach(sources), negative, OriginFiles(entries),
                  Reach(spec_manifest), Misses(manifest), OriginFiles(manifest)>>
  BY SameMap, RowsOrigins DEF regVars, diskVars
<1>2. Lib!Forget
  BY <1>1, SameMap, SameIds DEF Lib!Forget, Lib!disc
<1>3. MissesKnown'
  BY FoldMisses DEF LibInv
<1> QED BY <1>2, <1>3 DEF Lib!Next

(* Nothing the library knows of changes but possibly the answer. *)
LEMMA AskStep ==
    ASSUME LibInv, UNCHANGED <<cacheVars, sources, diskVars, spec_manifest>>,
           answer' \in {answer, NoAnswer}
    PROVE  MissesKnown' /\ [Lib!Next]_Lib!libVars
<1>1. UNCHANGED <<disk, Reach(sources), Held(resident), negative, OriginFiles(entries),
                  Reach(spec_manifest), Misses(manifest), OriginFiles(manifest)>>
  BY SameMap DEF cacheVars, diskVars
<1>2. ASSUME answer' = NoAnswer PROVE Lib!Next
  BY <1>1, <1>2, SameIds DEF Lib!Next, Lib!Ask, Lib!memory, Lib!disc
<1>3. ASSUME answer' = answer PROVE UNCHANGED Lib!libVars
  BY <1>1, <1>3 DEF Lib!libVars, Lib!memory, Lib!disc
<1>4. MissesKnown'
  BY DEF LibInv, MissesKnown, Misses, cacheVars
<1> QED BY <1>2, <1>3, <1>4

-----------------------------------------------------------------------------
(* The other calls *)

(* A list that keeps its sources keeps what is within their reach. *)
LEMMA ReachOf ==
    ASSUME NEW q, NEW r, \A i \in DOMAIN q : \E j \in DOMAIN r : r[j] = q[i]
    PROVE  Reach(q) \subseteq Reach(r)
BY DEF Reach

(* A source is added at the end, or one is taken out. *)
LEMMA SourcesStep ==
    ASSUME LibInv, AddSource \/ \E id \in 0..MaxSources : DropSource(id)
    PROVE  MissesKnown' /\ Lib!Next
<1>1. sources \in Seq(Source)
  BY DEF LibInv, StateInv, RegInv, RegTypeOK
<1>2. /\ UNCHANGED <<cacheVars, diskVars, spec_manifest>> /\ answer' = NoAnswer
  BY DEF AddSource, DropSource
<1>3. UNCHANGED <<disk, Held(resident), negative, OriginFiles(entries),
                  Reach(spec_manifest), Misses(manifest), OriginFiles(manifest)>>
  BY <1>2, SameMap DEF cacheVars, diskVars
<1>4. ASSUME AddSource PROVE Lib!Widen
  <2> DEFINE n == Len(sources)
  <2>1. PICK src : sources' = Append(sources, src)
    BY <1>4 DEF AddSource, AddAny, add
  <2>2. n \in Nat /\ DOMAIN sources = 1..n
    BY <1>1, SourceFacts
  <2>3. \A i \in DOMAIN sources : sources[i] = sources'[i] /\ i \in DOMAIN sources'
    <3>1. Len(sources') = n + 1 /\ DOMAIN sources' = 1..Len(sources')
      BY <1>1, <2>1
    <3> HIDE DEF n
    <3>2. \A i \in 1..n : i \in 1..(n + 1)
      BY <2>2
    <3>3. \A i \in 1..n : sources'[i] = sources[i]
      BY <1>1, <2>1 DEF n
    <3> QED BY <2>2, <3>1, <3>2, <3>3
  <2>4. Reach(sources) \subseteq Reach(sources)'
    BY <2>3, ReachOf, SameMap
  <2> QED BY <1>2, <1>3, <2>4, SameIds DEF Lib!Widen, Lib!memory, Lib!disc
<1>5. ASSUME NEW id, DropSource(id) PROVE Lib!Narrow
  <2> DEFINE n == Len(sources)
  <2>1. PICK i \in DOMAIN sources : sources' = RemoveAt(sources, i)
    BY <1>5 DEF DropSource, drop_source
  <2>2. n \in Nat /\ DOMAIN sources = 1..n
    BY <1>1, SourceFacts
  <2>3. /\ sources' \in Seq(Source) /\ Len(sources') = n - 1
        /\ \A j \in 1..(n - 1) : sources'[j] = IF j < i THEN sources[j] ELSE sources[j + 1]
    BY <1>1, <2>1, <2>2, RemoveProps
  <2> HIDE DEF n
  <2>4. DOMAIN sources' = 1..(n - 1)
    BY <2>3, SourceFacts
  <2>5. \A j \in 1..(n - 1) : j \in 1..n /\ j + 1 \in 1..n
    BY <2>2
  <2>6. \A j \in DOMAIN sources' : \E k \in DOMAIN sources : sources[k] = sources'[j]
    BY <2>2, <2>3, <2>4, <2>5
  <2>7. Reach(sources)' \subseteq Reach(sources)
    BY <2>6, ReachOf, SameMap
  <2> QED BY <1>2, <1>3, <2>7, SameIds DEF Lib!Narrow, Lib!memory, Lib!disc
<1>6. MissesKnown'
  BY <1>2 DEF LibInv, MissesKnown, Misses, cacheVars
<1> QED BY <1>4, <1>5, <1>6 DEF Lib!Next

(* Modules are evicted on demand. *)
LEMMA EvictCallStep ==
    ASSUME LibInv, CacheEvictAll \/ \E s \in Spellings : CacheEvict(s)
    PROVE  MissesKnown' /\ Lib!Next
<1>1. /\ UNCHANGED <<negative, manifest, regVars, diskVars, spec_manifest>>
      /\ answer' = NoAnswer
  BY DEF CacheEvict, CacheEvictAll, EvictAll, EvictOne
<1>2. resident \in Seq(Resident) /\ entries \in Manifests
  BY DEF LibInv, StateInv, CacheInv, CacheTypeOK
<1>3. Held(resident') \subseteq Held(resident) /\ SameButRows(entries, entries')
  <2>1. ASSUME CacheEvictAll PROVE <1>3!1 /\ <1>3!2
    <3>1. resident' = <<>> /\ entries' = FoldAll(entries, resident)
      BY <2>1 DEF CacheEvictAll, EvictAll
    <3>2. Held(<<>>) = {}
      BY EmptySeq DEF Held
    <3> QED BY <1>2, <3>1, <3>2, FoldAllProps
  <2>2. ASSUME NEW s \in Spellings, CacheEvict(s) PROVE <1>3!1 /\ <1>3!2
    <3>1. PICK i \in DOMAIN resident :
            resident' = RemoveAt(resident, i) /\ entries' = FoldBack(entries, resident[i])
      BY <2>2 DEF CacheEvict, EvictOne
    <3>2. resident[i] \in Resident
      BY <1>2, <3>1, HeldFacts
    <3> QED BY <1>2, <3>1, <3>2, HeldRemove, FoldBackProps
  <2> QED BY <2>1, <2>2
<1> QED BY <1>1, <1>3, ForgetStep

(* The loop of evict_to_budget pops a module, or ends. *)
LEMMA EvictLoopStep ==
    ASSUME LibInv, InsertEvicts
    PROVE  MissesKnown' /\ Lib!Next
<1>1. UNCHANGED <<negative, manifest, regVars, diskVars, spec_manifest, answer>>
  BY DEF InsertEvicts, EvictStep, EvictDone, indexVars
<1>2. resident \in Seq(Resident) /\ entries \in Manifests
  BY DEF LibInv, StateInv, CacheInv, CacheTypeOK
<1>3. CASE EvictStep
  <2>1. Len(resident) \in Nat /\ Len(resident) >= 1 /\ Last(resident) \in Resident
    BY <1>2, <1>3, HeldFacts, FrontProps DEF EvictStep, OverBudget
  <2>2. Held(resident') \subseteq Held(resident)
    BY <1>2, <1>3, <2>1, HeldFront DEF EvictStep
  <2>3. SameButRows(entries, entries')
    BY <1>2, <1>3, <2>1, FoldBackProps DEF EvictStep
  <2> QED BY <1>1, <2>2, <2>3, ForgetStep
<1>4. CASE EvictDone
  <2>1. Held(resident') = Held(resident) /\ SameButRows(entries, entries')
    BY <1>2, <1>4 DEF EvictDone, indexVars, SameButRows
  <2> QED BY <1>1, <2>1, ForgetStep
<1> QED BY <1>3, <1>4 DEF InsertEvicts

(* The manifest is exported. *)
LEMMA SaveStep ==
    ASSUME LibInv, export_manifest
    PROVE  MissesKnown' /\ Lib!Next
<1>1. SameButRows(entries, entries')
  BY FoldAllProps DEF LibInv, StateInv, CacheInv, CacheTypeOK, export_manifest, to_manifest
<1>2. negative' = negative /\ manifest' = entries' /\ spec_manifest' = sources /\ answer' = NoAnswer
  BY DEF export_manifest, to_manifest
<1>3. MissesKnown'
  BY <1>1, <1>2, FoldMisses DEF LibInv
<1>4. Misses(manifest)' \subseteq negative /\ Reach(spec_manifest)' = Reach(sources)
  BY <1>2, <1>3, SameMap DEF MissesKnown, Misses
<1>5. UNCHANGED <<disk, Reach(sources), Held(resident), negative>>
  BY SameMap DEF export_manifest, to_manifest, regVars, diskVars
<1>6. UNCHANGED OriginFiles(entries) /\ OriginFiles(manifest)' = OriginFiles(entries)
  BY <1>1, <1>2, RowsOrigins, SameMap
<1>7. Lib!Save
  BY <1>2, <1>4, <1>5, <1>6, SameIds DEF Lib!Save, Lib!memory
<1> QED BY <1>3, <1>7 DEF Lib!Next

(* The process restarts. *)
LEMMA RestartStep ==
    ASSUME LibInv, Restart
    PROVE  MissesKnown' /\ Lib!Next
<1>1. PICK kept \in BOOLEAN :
        /\ cold_start(IF kept THEN manifest ELSE EmptyManifest)
        /\ spec_manifest' = IF kept THEN spec_manifest ELSE <<>>
  BY DEF Restart
<1>2. sources' = spec_manifest' /\ answer' = NoAnswer /\ disk' = disk
  BY DEF Restart, restore, diskVars
<1>3. /\ MissesKnown' /\ Held(resident)' = {} /\ negative' = Misses(manifest)'
      /\ OriginFiles(entries)' = OriginFiles(manifest)'
  BY <1>1, ColdStartKnown, SameMap
<1>4. Reach(sources)' = Reach(spec_manifest)'
  BY <1>2, SameMap
<1>5. \/ UNCHANGED <<Reach(spec_manifest), Misses(manifest), OriginFiles(manifest)>>
      \/ Reach(spec_manifest)' = {} /\ Misses(manifest)' = {} /\ OriginFiles(manifest)' = {}
  <2>1. CASE kept
    BY <1>1, <2>1, SameMap DEF cold_start
  <2>2. CASE ~kept
    <3>1. manifest' = EmptyManifest /\ spec_manifest' = <<>>
      BY <1>1, <2>2 DEF cold_start
    <3>2. Misses(EmptyManifest) = {} /\ Reach(<<>>) = {} /\ OriginFiles(EmptyManifest) = {}
      BY EmptySeq DEF Misses, EmptyManifest, Reach, OriginFiles, Located
    <3> QED BY <3>1, <3>2, SameMap
  <2> QED BY <2>1, <2>2
<1>6. Lib!Restart
  BY <1>2, <1>3, <1>4, <1>5, SameIds DEF Lib!Restart, Lib!disc
<1> QED BY <1>3, <1>6 DEF Lib!Next

(* Another process changes the disk. *)
LEMMA DisturbStep ==
    ASSUME LibInv, DiskMoves
    PROVE  MissesKnown' /\ Lib!Next
<1>1. UNCHANGED <<Reach(sources), Held(resident), negative, OriginFiles(entries),
                  Reach(spec_manifest), Misses(manifest), OriginFiles(manifest), answer>>
  BY SameMap DEF DiskMoves, cacheVars, regVars
<1>2. disk' # disk
  BY DEF DiskMoves, DiskChange, LibInv, StateInv, RegInv, RegTypeOK
<1>3. MissesKnown'
  BY DEF LibInv, MissesKnown, Misses, DiskMoves, cacheVars
<1> QED BY <1>1, <1>2, <1>3 DEF Lib!Next, Lib!Disturb, Lib!memory, Lib!disc

-----------------------------------------------------------------------------
(* The theorem *)

(* Every step of the state machine is a step of the library or none.       *)
LEMMA LibraryStep ==
    ASSUME LibInv, [Next]_vars
    PROVE  MissesKnown' /\ [Lib!Next]_Lib!libVars
<1>1. ASSUME NEW s \in Spellings, StartLookup(s) PROVE MissesKnown' /\ [Lib!Next]_Lib!libVars
  <2>1. CASE ResolveHit(s)
    BY <2>1, AnswerStep DEF ResolveHit
  <2>2. CASE ResolveKnownMiss(s)
    BY <2>2, MissingStep DEF ResolveKnownMiss
  <2>3. CASE ResolveSearch(s)
    BY <2>3, AskStep DEF ResolveSearch, regVars
  <2> QED BY <1>1, <2>1, <2>2, <2>3 DEF StartLookup
<1>2. CASE LookupStep
  <2> USE CallFacts DEF LibInv, StateInv, CallInv
  <2>1. CASE WalkSource
    BY <2>1, AskStep DEF WalkSource, IndexSource
  <2>2. CASE LocateMiss
    <3>1. call.tok \in Spellings /\ ~is_resident(call.tok)
      BY <2>2 DEF LocateMiss, CallGuards
    <3> QED BY <2>2, <3>1, MissingStep DEF LocateMiss
  <2>3. CASE LocateError
    BY <2>3, FailedStep
  <2>4. CASE LocateInsert
    BY <2>4, LoadStep
  <2>5. CASE InsertEvicts
    BY <2>5, EvictLoopStep
  <2>6. CASE ResolveAgain
    <3>1. call.tok \in Spellings
      BY <2>6 DEF ResolveAgain
    <3> QED BY <2>6, <3>1, AnswerStep, MissingStep DEF ResolveAgain
  <2> QED BY <1>2, <2>1, <2>2, <2>3, <2>4, <2>5, <2>6 DEF LookupStep
<1>3. CASE WalkPanics BY <1>3, AskStep DEF WalkPanics, regVars
<1>4. CASE AddSource \/ \E id \in 0..MaxSources : DropSource(id)
  BY <1>4, SourcesStep
<1>5. CASE CacheEvictAll \/ \E s \in Spellings : CacheEvict(s)
  BY <1>5, EvictCallStep
<1>6. CASE export_manifest BY <1>6, SaveStep
<1>7. CASE Restart BY <1>7, RestartStep
<1>8. CASE DiskMoves BY <1>8, DisturbStep
<1>9. CASE UNCHANGED vars BY <1>9, AskStep DEF vars, regVars
<1> QED BY <1>1, <1>2, <1>3, <1>4, <1>5, <1>6, <1>7, <1>8, <1>9 DEF Next

(* It starts as an empty library. *)
LEMMA LibraryInit == Init => MissesKnown /\ Lib!Init
<1> SUFFICES ASSUME Init PROVE MissesKnown /\ Lib!Init
  OBVIOUS
<1>1. /\ resident = <<>> /\ sources = <<>> /\ spec_manifest = <<>> /\ negative = {}
      /\ manifest = EmptyManifest /\ entries = EmptyManifest /\ answer = NoAnswer
  BY DEF Init, CacheInit, RegInit, new
<1>2. Held(<<>>) = {} /\ Reach(<<>>) = {} /\ Misses(EmptyManifest) = {} /\ OriginFiles(EmptyManifest) = {}
  BY EmptySeq DEF Held, Reach, Misses, EmptyManifest, OriginFiles, Located
<1> QED BY <1>1, <1>2, SameIds DEF Lib!Init, MissesKnown

(* Its behaviours are behaviours of the library.                           *)
LEMMA LibrarySteps == Init /\ [][Next]_vars => ImplementsLibrary
<1>1. Init => StateInv /\ MissesKnown /\ Lib!Init
  BY LibraryInit, StateInitInv
<1>2. StateInv /\ MissesKnown /\ [Next]_vars =>
        StateInv' /\ MissesKnown' /\ [Lib!Next]_Lib!libVars
  BY LibraryStep, StateNextInv DEF LibInv
<1> QED BY <1>1, <1>2, PTL DEF ImplementsLibrary, Lib!Spec

(* The composed state machine implements the library: a module enters      *)
(* memory only from a file under a source that is live at that moment or   *)
(* from a recorded origin, no eviction, miss or dropped source forgets     *)
(* where a module came from, answers come from held modules their token    *)
(* names, not_found is never said of a held module's debug-id, and a       *)
(* restart brings back only what was exported (state.rs, cache/mod.rs,     *)
(* source/mod.rs).                                                         *)
THEOREM StateImplementsLibrary == Spec => ImplementsLibrary
BY LibrarySteps, PTL DEF Spec
=============================================================================
