------------------------- MODULE SymbolCacheProofs -------------------------
(***************************************************************************)
(* Proofs about the cache for every set of images and every budget.  The   *)
(* inductive invariant is CacheInv: the types, the uniqueness of resident  *)
(* debug-ids, the module cap and the closure and soundness of the index.   *)
(***************************************************************************)
EXTENDS SymbolCache, SequenceLemmas

-----------------------------------------------------------------------------
(* The sizes and identities the cache works with have the expected types. *)
LEMMA IdTypes ==
    /\ \A s \in Spellings : Canon[s] \in Tokens
    /\ \A t \in Tokens : Canon[t] = t
    /\ \A m \in Images : DebugId[m] \in Tokens /\ Bytes[m] \in Nat
    /\ \A r \in Resident : r.img \in Images /\ r.rows \in Nat /\ IdOf(r) \in Tokens
    /\ Cap \in Nat /\ Cap >= 1
<1>1. \A s \in Spellings : Canon[s] \in Tokens
  BY DEF Tokens
<1>2. \A t \in Tokens : Canon[t] = t
  BY CanonAssumption DEF Tokens
<1>3. \A m \in Images : DebugId[m] \in Tokens /\ Bytes[m] \in Nat
  BY IdentityAssumption, BudgetAssumption
<1>4. \A r \in Resident : r.img \in Images /\ r.rows \in Nat /\ IdOf(r) \in Tokens
  BY <1>3 DEF Resident, IdOf
<1>5. Cap \in Nat /\ Cap >= 1
  BY BudgetAssumption DEF Cap
<1> QED BY <1>1, <1>2, <1>3, <1>4, <1>5

(* saturating_sub stays in u64. *)
LEMMA SatSubType ==
    ASSUME NEW a \in Nat, NEW b \in Nat
    PROVE  SatSub(a, b) \in Nat
BY DEF SatSub

(* The resident sequence as the provers need it. *)
LEMMA ResidentFacts ==
    ASSUME CacheTypeOK
    PROVE  /\ Len(resident) \in Nat
           /\ DOMAIN resident = 1..Len(resident)
           /\ \A i \in 1..Len(resident) :
                /\ resident[i] \in Resident
                /\ resident[i].img \in Images
                /\ resident[i].rows \in Nat
                /\ IdOf(resident[i]) \in Tokens
BY LenProperties, ElementOfSeq, IdTypes DEF CacheTypeOK

(* Rewriting the row count keeps the rest of an entry. *)
LEMMA EntryRows ==
    ASSUME NEW e \in Entry, NEW n \in Nat
    PROVE  LET f == [e EXCEPT !.rows = n] IN
           f \in Entry /\ f # None /\ f.origin = e.origin /\ f.miss = e.miss
<1>1. [e EXCEPT !.rows = n] \in Entry
  BY DEF Entry
<1> QED BY <1>1, AbsentAssumption DEF Entry

(* fold_back and sync_entries change nothing of an entry but its rows. *)
SameButRows(e, f) ==
    /\ f \in Manifests
    /\ \A t \in Tokens :
        /\ f[t] = None <=> e[t] = None
        /\ e[t] # None => f[t].origin = e[t].origin /\ f[t].miss = e[t].miss

(* fold_back rewrites the row count of one entry and nothing else. *)
LEMMA FoldBackProps ==
    ASSUME NEW e \in Manifests, NEW r \in Resident
    PROVE  SameButRows(e, FoldBack(e, r))
<1> DEFINE d == IdOf(r)
           g == IF e[d] = None THEN None ELSE [e[d] EXCEPT !.rows = r.rows]
<1>1. d \in Tokens /\ e \in [Tokens -> Entry \cup {None}]
  BY IdTypes DEF Manifests
<1>2. /\ g \in Entry \cup {None}
      /\ g = None <=> e[d] = None
      /\ e[d] # None => g.origin = e[d].origin /\ g.miss = e[d].miss
  <2>1. e[d] = None \/ e[d] \in Entry
    BY <1>1
  <2>2. CASE e[d] = None
    BY <2>2
  <2>3. CASE e[d] # None
    BY <2>1, <2>3, EntryRows, IdTypes
  <2> QED BY <2>2, <2>3
<1>3. FoldBack(e, r) = [e EXCEPT ![d] = g]
  BY DEF FoldBack
<1> HIDE DEF d, g
<1>4. [e EXCEPT ![d] = g] \in Manifests
  BY <1>1, <1>2 DEF Manifests
<1> QED BY <1>1, <1>2, <1>3, <1>4 DEF SameButRows

(* sync_entries rewrites row counts and nothing else. *)
LEMMA FoldAllProps ==
    ASSUME NEW e \in Manifests, NEW q \in Seq(Resident)
    PROVE  SameButRows(e, FoldAll(e, q))
<1> DEFINE f == FoldAll(e, q)
           n(t) == q[CHOOSE i \in DOMAIN q : IdOf(q[i]) = t].rows
           hit(t) == e[t] # None /\ t \in Ids(q)
<1>1. f = [t \in Tokens |-> IF hit(t) THEN [e[t] EXCEPT !.rows = n(t)] ELSE e[t]]
  BY DEF FoldAll
<1>2. ASSUME NEW t \in Tokens, hit(t)
      PROVE  n(t) \in Nat
  <2>1. (CHOOSE i \in DOMAIN q : IdOf(q[i]) = t) \in DOMAIN q
    BY <1>2 DEF Ids
  <2>2. \A i \in DOMAIN q : q[i] \in Resident
    BY LenProperties, ElementOfSeq
  <2> QED BY <2>1, <2>2, IdTypes
<1> HIDE DEF f, n
<1>3. ASSUME NEW t \in Tokens
      PROVE  /\ f[t] \in Entry \cup {None}
             /\ f[t] = None <=> e[t] = None
             /\ e[t] # None => f[t].origin = e[t].origin /\ f[t].miss = e[t].miss
  <2>1. e[t] = None \/ e[t] \in Entry
    BY DEF Manifests
  <2>2. CASE hit(t)
    <3>1. f[t] = [e[t] EXCEPT !.rows = n(t)] /\ e[t] \in Entry
      BY <1>1, <2>1, <2>2
    <3> QED BY <3>1, <1>2, <2>2, EntryRows
  <2>3. CASE ~hit(t)
    BY <1>1, <2>1, <2>3
  <2> QED BY <2>2, <2>3
<1>4. f \in Manifests
  BY <1>1, <1>3 DEF Manifests
<1> QED BY <1>3, <1>4 DEF f, SameButRows

-----------------------------------------------------------------------------
(* The debug-ids of the LRU after each of its operations. *)

(* pop_lru forgets the last module's debug-id and no other. *)
LEMMA FrontIds ==
    ASSUME NEW q \in Seq(Resident), Distinct(q), Len(q) >= 1
    PROVE  Distinct(Front(q)) /\ Ids(Front(q)) \subseteq Ids(q)
<1> DEFINE f == Front(q)
           n == Len(q)
<1>1. /\ f \in Seq(Resident) /\ Len(f) = n - 1
      /\ \A i \in 1..(n - 1) : f[i] = q[i]
  BY FrontProps
<1>2. DOMAIN f = 1..(n - 1) /\ DOMAIN q = 1..n /\ n \in Nat
  BY <1>1, LenProperties
<1> HIDE DEF f, n
<1>3. \A i \in DOMAIN f : i \in DOMAIN q /\ f[i] = q[i]
  BY <1>1, <1>2
<1> QED BY <1>3 DEF Distinct, Ids, f

(* pop forgets the debug-id at its position and no other. *)
LEMMA RemoveIds ==
    ASSUME NEW q \in Seq(Resident), Distinct(q), NEW i \in DOMAIN q
    PROVE  /\ Distinct(RemoveAt(q, i))
           /\ Ids(RemoveAt(q, i)) \subseteq Ids(q) \ {IdOf(q[i])}
<1> DEFINE f == RemoveAt(q, i)
           n == Len(q)
           p(j) == IF j < i THEN j ELSE j + 1
<1>1. i \in 1..n /\ n \in Nat /\ DOMAIN q = 1..n
  BY LenProperties
<1>2. /\ f \in Seq(Resident) /\ Len(f) = n - 1
      /\ \A j \in 1..(n - 1) : f[j] = IF j < i THEN q[j] ELSE q[j + 1]
  BY <1>1, RemoveProps
<1>3. DOMAIN f = 1..(n - 1)
  BY <1>2, LenProperties
<1> HIDE DEF f, n
<1>4. \A j \in DOMAIN f : p(j) \in DOMAIN q /\ p(j) # i /\ f[j] = q[p(j)]
  BY <1>1, <1>2, <1>3
<1>5. \A j, k \in DOMAIN f : p(j) = p(k) => j = k
  BY <1>1, <1>3
<1> HIDE DEF p
<1> QED BY <1>4, <1>5 DEF Distinct, Ids, f

(* A new first element adds its debug-id and no other. *)
LEMMA ConsIds ==
    ASSUME NEW q \in Seq(Resident), Distinct(q), NEW r \in Resident, IdOf(r) \notin Ids(q)
    PROVE  Distinct(<<r>> \o q) /\ Ids(<<r>> \o q) \subseteq Ids(q) \cup {IdOf(r)}
<1> DEFINE f == <<r>> \o q
           n == Len(q)
<1>1. /\ f \in Seq(Resident) /\ Len(f) = n + 1 /\ f[1] = r
      /\ \A j \in 2..(n + 1) : f[j] = q[j - 1]
  BY ConsProps
<1>2. DOMAIN f = 1..(n + 1) /\ DOMAIN q = 1..n /\ n \in Nat
  BY <1>1, LenProperties
<1> HIDE DEF f, n
<1>3. \A j \in DOMAIN f : j = 1 \/ (j - 1 \in DOMAIN q /\ f[j] = q[j - 1])
  BY <1>1, <1>2
<1>4. \A j, k \in DOMAIN f : j - 1 = k - 1 => j = k
  BY <1>2
<1>5. \A j \in DOMAIN f : IdOf(f[j]) \in Ids(q) \cup {IdOf(r)} /\ (j # 1 => IdOf(f[j]) \in Ids(q))
  BY <1>1, <1>3 DEF Ids
<1>6. Distinct(f)
  <2> SUFFICES ASSUME NEW j \in DOMAIN f, NEW k \in DOMAIN f, IdOf(f[j]) = IdOf(f[k])
               PROVE  j = k
    BY DEF Distinct
  <2>1. CASE j = 1 \/ k = 1
    BY <2>1, <1>1, <1>5
  <2>2. CASE j # 1 /\ k # 1
    BY <2>2, <1>3, <1>4 DEF Distinct
  <2> QED BY <2>1, <2>2
<1> QED BY <1>5, <1>6 DEF Ids, f

-----------------------------------------------------------------------------
(* Every operation preserves CacheInv. *)

(* An empty cache satisfies the invariant. *)
LEMMA CacheInitInv == CacheInit => CacheInv
<1> SUFFICES ASSUME CacheInit PROVE CacheInv
  OBVIOUS
<1> USE DEF CacheInit, new
<1>1. CacheTypeOK
  BY EmptySeq DEF CacheTypeOK, EmptyManifest, Manifests
<1>2. UniqueResidents /\ ResidentIds = {} /\ ModuleCap
  BY IdTypes, EmptySeq DEF UniqueResidents, Distinct, ResidentIds, Ids, ModuleCap
<1>3. IndexClosed /\ AliasSound
  BY DEF IndexClosed, AliasSound
<1> QED BY <1>1, <1>2, <1>3 DEF CacheInv, ResidentIndexed

(* Folding row counts back keeps what CacheInv says of the index. *)
LEMMA FoldKeepsIndex ==
    ASSUME CacheInv, SameButRows(entries, entries'), ResidentIds' \subseteq ResidentIds,
           aliases' = aliases, negative' = negative
    PROVE  ResidentIndexed' /\ IndexClosed' /\ AliasSound'
<1>1. ResidentIds \subseteq Tokens
  BY ResidentFacts DEF CacheInv, ResidentIds, Ids
<1>2. ResidentIndexed'
  BY <1>1 DEF CacheInv, ResidentIndexed, SameButRows
<1>3. IndexClosed' /\ AliasSound'
  BY DEF CacheInv, CacheTypeOK, IndexClosed, AliasSound, SameButRows
<1> QED BY <1>2, <1>3

(* resolve keeps the invariant. *)
LEMMA LookupInv ==
    ASSUME CacheInv, NEW s \in Spellings, Lookup(s)
    PROVE  CacheInv'
<1> DEFINE R(i) == RemoveAt(resident, i)
<1>1. PICK i \in DOMAIN resident :
        resident' = <<[resident[i] EXCEPT !.rows = @ + 1]>> \o R(i)
  BY DEF Lookup
<1> DEFINE x == [resident[i] EXCEPT !.rows = @ + 1]
<1>2. x \in Resident /\ IdOf(x) = IdOf(resident[i])
  BY ResidentFacts DEF CacheInv, Resident, IdOf
<1>3. R(i) \in Seq(Resident) /\ Len(R(i)) = Len(resident) - 1
  BY ResidentFacts, RemoveProps DEF CacheInv, CacheTypeOK
<1>4. Distinct(R(i)) /\ Ids(R(i)) \subseteq ResidentIds \ {IdOf(x)}
  BY <1>2, RemoveIds DEF CacheInv, CacheTypeOK, UniqueResidents, ResidentIds
<1>5. IdOf(x) \in ResidentIds
  BY <1>2 DEF ResidentIds, Ids
<1> HIDE DEF x, R
<1>6. resident' = <<x>> \o R(i)
  BY <1>1 DEF x
<1>7. resident' \in Seq(Resident) /\ Len(resident') = Len(resident)
  BY <1>2, <1>3, <1>6, ConsProps, ResidentFacts DEF CacheInv
<1>8. Distinct(resident') /\ ResidentIds' \subseteq ResidentIds
  BY <1>2, <1>3, <1>4, <1>5, <1>6, ConsIds DEF ResidentIds
<1>9. CacheTypeOK' /\ UniqueResidents' /\ ModuleCap'
  BY <1>7, <1>8 DEF CacheInv, CacheTypeOK, UniqueResidents, ModuleCap, Lookup, indexVars
<1>10. ResidentIndexed' /\ IndexClosed' /\ AliasSound'
  BY <1>8 DEF CacheInv, ResidentIndexed, IndexClosed, AliasSound, Lookup, indexVars
<1> QED BY <1>9, <1>10 DEF CacheInv

(* record_miss keeps the invariant. *)
LEMMA RecordMissInv ==
    ASSUME CacheInv, NEW s \in Spellings, record_miss(s)
    PROVE  CacheInv'
<1> DEFINE t == Canon[s]
           placeholder == [origin |-> None, rows |-> 0, miss |-> TRUE]
<1>1. t \in Tokens
  BY IdTypes
<1>2. placeholder \in Entry /\ placeholder # None
  <2>1. placeholder \in Entry
    BY DEF Entry
  <2> QED BY <2>1, AbsentAssumption
<1> HIDE DEF placeholder
<1>3. /\ aliases' = [aliases EXCEPT ![t] = IF @ = None THEN t ELSE @]
      /\ negative' = negative \cup {t}
      /\ entries' = [entries EXCEPT ![t] = IF @ = None THEN placeholder ELSE @]
      /\ resident' = resident
  BY DEF record_miss, MissEntry, placeholder
<1> HIDE DEF t
<1>4. CacheTypeOK'
  BY <1>1, <1>2, <1>3 DEF CacheInv, CacheTypeOK, Manifests, record_miss, MissEntry
<1>5. \A d \in Tokens : /\ entries[d] # None => entries'[d] = entries[d]
                        /\ d = t => entries'[d] # None
  BY <1>1, <1>2, <1>3 DEF CacheInv, CacheTypeOK, Manifests
<1>6. ResidentIds' = ResidentIds /\ ResidentIds \subseteq Tokens
  BY <1>3, ResidentFacts DEF CacheInv, ResidentIds, Ids
<1>7. ResidentIndexed'
  BY <1>5, <1>6 DEF CacheInv, ResidentIndexed
<1>8. IndexClosed'
  BY <1>1, <1>3, <1>5, NoneAssumption DEF CacheInv, CacheTypeOK, IndexClosed
<1>9. AliasSound'
  BY <1>1, <1>3 DEF CacheInv, CacheTypeOK, AliasSound
<1> QED BY <1>3, <1>4, <1>7, <1>8, <1>9 DEF CacheInv, UniqueResidents, ModuleCap

(* LruCache::put with the accounting around it. *)
LEMMA PutProps ==
    ASSUME CacheInv, NEW m \in Images, Put(m)
    PROVE  /\ resident' \in Seq(Resident) /\ Len(resident') <= Cap
           /\ Distinct(resident')
           /\ ResidentIds' \subseteq ResidentIds \cup {DebugId[m]}
           /\ resident_bytes' \in Nat
<1> DEFINE r == [img |-> m, rows |-> 0]
<1>1. r \in Resident /\ IdOf(r) = DebugId[m]
  BY DEF Resident, IdOf
<1>2. /\ resident \in Seq(Resident) /\ Distinct(resident)
      /\ Len(resident) <= Cap /\ resident_bytes \in Nat /\ Bytes[m] \in Nat
      /\ Cap \in Nat /\ Cap >= 1
  BY IdTypes DEF CacheInv, CacheTypeOK, UniqueResidents, ModuleCap
<1> HIDE DEF r
<1>3. CASE \E i \in DOMAIN resident :
             /\ IdOf(resident[i]) = DebugId[m]
             /\ resident' = <<r>> \o RemoveAt(resident, i)
             /\ resident_bytes' = SatSub(resident_bytes, Bytes[resident[i].img]) + Bytes[m]
  <2>1. PICK i \in DOMAIN resident :
             /\ IdOf(resident[i]) = DebugId[m]
             /\ resident' = <<r>> \o RemoveAt(resident, i)
             /\ resident_bytes' = SatSub(resident_bytes, Bytes[resident[i].img]) + Bytes[m]
    BY <1>3
  <2> DEFINE R == RemoveAt(resident, i)
  <2>2. R \in Seq(Resident) /\ Len(R) = Len(resident) - 1
    BY ResidentFacts, RemoveProps DEF CacheInv, CacheTypeOK
  <2>3. Distinct(R) /\ Ids(R) \subseteq ResidentIds \ {IdOf(r)}
    BY <1>1, <1>2, <2>1, RemoveIds DEF ResidentIds
  <2>4. resident' = <<r>> \o R
    BY <2>1
  <2> HIDE DEF R
  <2>5. resident' \in Seq(Resident) /\ Len(resident') = Len(resident)
    BY <1>1, <2>2, <2>4, ConsProps, ResidentFacts DEF CacheInv
  <2>6. Distinct(resident') /\ ResidentIds' \subseteq ResidentIds \cup {IdOf(r)}
    BY <1>1, <2>2, <2>3, <2>4, ConsIds DEF ResidentIds
  <2>7. SatSub(resident_bytes, Bytes[resident[i].img]) \in Nat
    BY <1>2, SatSubType, IdTypes, ResidentFacts DEF CacheInv
  <2> QED BY <1>1, <1>2, <2>1, <2>5, <2>6, <2>7
<1>4. CASE /\ DebugId[m] \notin ResidentIds
           /\ resident' = <<r>> \o MakeRoom(resident)
           /\ resident_bytes' = resident_bytes + Bytes[m]
  <2> DEFINE R == MakeRoom(resident)
  <2>1. /\ R \in Seq(Resident) /\ Len(R) + 1 <= Cap
        /\ Distinct(R) /\ Ids(R) \subseteq ResidentIds
    <3> DEFINE n == Len(resident)
    <3>0. n \in Nat /\ n <= Cap
      BY <1>2, ResidentFacts DEF CacheInv
    <3>1. CASE n = Cap
      <4>1. n >= 1 /\ R = Front(resident)
        BY <3>1, <1>2 DEF MakeRoom
      <4>2. R \in Seq(Resident) /\ Len(R) = n - 1
        BY <1>2, <4>1, FrontProps
      <4>3. Distinct(R) /\ Ids(R) \subseteq ResidentIds
        BY <1>2, <4>1, FrontIds DEF ResidentIds
      <4> HIDE DEF R, n
      <4> QED BY <3>0, <3>1, <4>2, <4>3
    <3>2. CASE n # Cap
      <4>1. R = resident
        BY <3>2 DEF MakeRoom
      <4>2. Distinct(R) /\ Ids(R) \subseteq ResidentIds /\ R \in Seq(Resident) /\ Len(R) = n
        BY <1>2, <4>1 DEF ResidentIds
      <4> HIDE DEF R, n
      <4> QED BY <3>0, <3>2, <1>2, <4>2
    <3> QED BY <3>1, <3>2
  <2> HIDE DEF R
  <2>2. resident' = <<r>> \o R
    BY <1>4 DEF R
  <2>3. resident' \in Seq(Resident) /\ Len(resident') <= Cap
    BY <1>1, <2>1, <2>2, ConsProps
  <2>4. Distinct(resident') /\ ResidentIds' \subseteq ResidentIds \cup {IdOf(r)}
    BY <1>1, <1>4, <2>1, <2>2, ConsIds DEF ResidentIds
  <2> QED BY <1>1, <1>2, <1>4, <2>3, <2>4
<1> QED BY <1>3, <1>4 DEF Put, r

(* insert keeps the invariant. *)
LEMMA InsertInv ==
    ASSUME CacheInv, NEW m \in Images, NEW o \in Origins, insert(m, o)
    PROVE  CacheInv'
<1> DEFINE d == DebugId[m]
           e == [origin |-> o, rows |-> 0, miss |-> FALSE]
<1>1. d \in Tokens /\ d \in AliasesOf[m] /\ AliasesOf[m] \subseteq Tokens
  BY IdentityAssumption
<1>2. e \in Entry /\ e # None /\ ~e.miss /\ e.origin # None
  <2>1. e \in Entry
    BY DEF Entry
  <2> QED BY <2>1, AbsentAssumption
<1>3. Put(m)
  BY DEF insert, Claimed, StillMissing
<1>4. /\ aliases' = [t \in Tokens |-> IF t \in AliasesOf[m] THEN d ELSE aliases[t]]
      /\ negative' \subseteq negative
      /\ entries' = [entries EXCEPT ![d] = e]
      /\ parse_count' = parse_count + 1 /\ evicting' = TRUE /\ manifest' = manifest
  BY DEF insert, Claimed, StillMissing
<1> HIDE DEF e, d
<1>5. CacheTypeOK'
  BY <1>1, <1>2, <1>3, <1>4, PutProps DEF CacheInv, CacheTypeOK, Manifests
<1>6. UniqueResidents' /\ ModuleCap' /\ ResidentIds' \subseteq ResidentIds \cup {d}
  BY <1>3, PutProps DEF UniqueResidents, ModuleCap, d
<1>7. \A t \in Tokens : entries'[t] = IF t = d THEN e ELSE entries[t]
  BY <1>4 DEF CacheInv, CacheTypeOK, Manifests
<1>8. ResidentIds \subseteq Tokens
  BY ResidentFacts DEF CacheInv, ResidentIds, Ids
<1>9. ResidentIndexed'
  BY <1>1, <1>2, <1>6, <1>7, <1>8 DEF CacheInv, ResidentIndexed
<1>10. IndexClosed'
  BY <1>1, <1>2, <1>4, <1>7, NoneAssumption DEF CacheInv, CacheTypeOK, IndexClosed
<1>11. AliasSound'
  BY <1>1, <1>4 DEF CacheInv, CacheTypeOK, AliasSound, Names, d
<1> QED BY <1>5, <1>6, <1>9, <1>10, <1>11 DEF CacheInv

(* One turn of the eviction loop keeps the invariant. *)
LEMMA EvictStepInv ==
    ASSUME CacheInv, EvictStep
    PROVE  CacheInv'
<1>1. /\ resident \in Seq(Resident) /\ Distinct(resident) /\ resident_bytes \in Nat
      /\ Len(resident) >= 1 /\ Len(resident) \in Nat /\ Len(resident) <= Cap /\ Cap \in Nat
  BY IdTypes, ResidentFacts
     DEF CacheInv, CacheTypeOK, UniqueResidents, ModuleCap, EvictStep, OverBudget
<1>2. /\ resident' \in Seq(Resident) /\ Len(resident') = Len(resident) - 1
      /\ Last(resident) \in Resident
  BY <1>1, FrontProps DEF EvictStep
<1>3. Distinct(resident') /\ ResidentIds' \subseteq ResidentIds
  BY <1>1, FrontIds DEF EvictStep, ResidentIds
<1>4. SameButRows(entries, entries')
  BY <1>2, FoldBackProps DEF EvictStep, CacheInv, CacheTypeOK
<1>5. resident_bytes' \in Nat
  BY <1>1, <1>2, SatSubType, IdTypes DEF EvictStep
<1>6. Len(resident') <= Cap
  BY <1>1, <1>2
<1>7. CacheTypeOK' /\ UniqueResidents' /\ ModuleCap'
  BY <1>2, <1>3, <1>4, <1>5, <1>6
     DEF CacheInv, CacheTypeOK, UniqueResidents, ModuleCap, EvictStep, SameButRows
<1>8. ResidentIndexed' /\ IndexClosed' /\ AliasSound'
  BY <1>3, <1>4, FoldKeepsIndex DEF EvictStep
<1> QED BY <1>7, <1>8 DEF CacheInv

(* Leaving the eviction loop keeps the invariant. *)
LEMMA EvictDoneInv ==
    ASSUME CacheInv, EvictDone
    PROVE  CacheInv'
BY DEF EvictDone, indexVars, CacheInv, CacheTypeOK, UniqueResidents, ModuleCap,
       ResidentIndexed, ResidentIds, IndexClosed, AliasSound

(* evict(Some(id)) keeps the invariant. *)
LEMMA EvictOneInv ==
    ASSUME CacheInv, NEW s \in Spellings, EvictOne(s)
    PROVE  CacheInv'
<1>1. PICK i \in DOMAIN resident :
         /\ resident' = RemoveAt(resident, i)
         /\ resident_bytes' = SatSub(resident_bytes, Bytes[resident[i].img])
         /\ entries' = FoldBack(entries, resident[i])
  BY DEF EvictOne
<1>2. /\ resident \in Seq(Resident) /\ Distinct(resident) /\ resident_bytes \in Nat
      /\ Len(resident) \in Nat /\ Len(resident) <= Cap /\ Cap \in Nat
      /\ i \in 1..Len(resident) /\ resident[i] \in Resident
  BY IdTypes, ResidentFacts DEF CacheInv, CacheTypeOK, UniqueResidents, ModuleCap
<1>3. resident' \in Seq(Resident) /\ Len(resident') = Len(resident) - 1
  BY <1>1, <1>2, RemoveProps
<1>4. Distinct(resident') /\ ResidentIds' \subseteq ResidentIds
  BY <1>1, <1>2, RemoveIds DEF ResidentIds
<1>5. SameButRows(entries, entries')
  BY <1>1, <1>2, FoldBackProps DEF CacheInv, CacheTypeOK
<1>6. resident_bytes' \in Nat
  BY <1>1, <1>2, SatSubType, IdTypes
<1>7. Len(resident') <= Cap
  BY <1>2, <1>3
<1>8. CacheTypeOK' /\ UniqueResidents' /\ ModuleCap'
  BY <1>3, <1>4, <1>5, <1>6, <1>7
     DEF CacheInv, CacheTypeOK, UniqueResidents, ModuleCap, EvictOne, SameButRows
<1>9. ResidentIndexed' /\ IndexClosed' /\ AliasSound'
  BY <1>4, <1>5, FoldKeepsIndex DEF EvictOne
<1> QED BY <1>8, <1>9 DEF CacheInv

(* The facts about an empty LRU. *)
LEMMA EmptyResident ==
    ASSUME resident' = <<>>
    PROVE  /\ resident' \in Seq(Resident) /\ UniqueResidents' /\ ModuleCap'
           /\ ResidentIds' = {}
BY IdTypes, EmptySeq DEF UniqueResidents, Distinct, ModuleCap, ResidentIds, Ids

(* evict(None) keeps the invariant. *)
LEMMA EvictAllInv ==
    ASSUME CacheInv, EvictAll
    PROVE  CacheInv'
<1>1. /\ resident' \in Seq(Resident) /\ UniqueResidents' /\ ModuleCap' /\ ResidentIds' = {}
  BY EmptyResident DEF EvictAll
<1>2. SameButRows(entries, entries')
  BY FoldAllProps DEF EvictAll, CacheInv, CacheTypeOK
<1>3. CacheTypeOK'
  BY <1>1, <1>2 DEF CacheInv, CacheTypeOK, EvictAll, SameButRows
<1>4. ResidentIndexed' /\ IndexClosed' /\ AliasSound'
  BY <1>1, <1>2, FoldKeepsIndex DEF EvictAll
<1> QED BY <1>1, <1>3, <1>4 DEF CacheInv

(* to_manifest keeps the invariant. *)
LEMMA ToManifestInv ==
    ASSUME CacheInv, to_manifest
    PROVE  CacheInv'
<1>1. SameButRows(entries, entries')
  BY FoldAllProps DEF to_manifest, CacheInv, CacheTypeOK
<1>2. CacheTypeOK' /\ UniqueResidents' /\ ModuleCap' /\ ResidentIds' = ResidentIds
  BY <1>1 DEF CacheInv, CacheTypeOK, UniqueResidents, ModuleCap, ResidentIds,
              to_manifest, SameButRows
<1>3. ResidentIndexed' /\ IndexClosed' /\ AliasSound'
  BY <1>1, <1>2, FoldKeepsIndex DEF to_manifest
<1> QED BY <1>2, <1>3 DEF CacheInv

(* A restart from the last manifest, or from none, keeps the invariant. *)
LEMMA ColdStartInv ==
    ASSUME CacheInv, NEW mf \in {manifest, EmptyManifest}, cold_start(mf)
    PROVE  CacheInv'
<1>1. rehydrate(mf) /\ manifest' = mf
  BY DEF cold_start
<1>2. mf \in Manifests
  BY <1>1 DEF CacheInv, CacheTypeOK, EmptyManifest, Manifests
<1>3. /\ resident' \in Seq(Resident) /\ UniqueResidents' /\ ModuleCap' /\ ResidentIds' = {}
  BY EmptyResident DEF cold_start
<1>4. /\ entries' = mf
      /\ aliases' = [t \in Tokens |-> IF mf[t] = None THEN None ELSE t]
      /\ negative' = {t \in Tokens : mf[t] # None /\ mf[t].miss}
  BY <1>1 DEF rehydrate
<1>5. CacheTypeOK'
  BY <1>1, <1>2, <1>3, <1>4 DEF CacheTypeOK, cold_start
<1>6. ResidentIndexed' /\ IndexClosed' /\ AliasSound'
  BY <1>3, <1>4, NoneAssumption DEF ResidentIndexed, IndexClosed, AliasSound
<1> QED BY <1>3, <1>5, <1>6 DEF CacheInv

(* No operation: nothing changes. *)
LEMMA CacheStutterInv ==
    ASSUME CacheInv, UNCHANGED cacheVars
    PROVE  CacheInv'
BY DEF cacheVars, CacheInv, CacheTypeOK, UniqueResidents, ModuleCap,
       ResidentIndexed, ResidentIds, IndexClosed, AliasSound

(* Every step of the cache keeps the invariant. *)
LEMMA CacheNextInv ==
    ASSUME CacheInv, [CacheNext]_cacheVars
    PROVE  CacheInv'
<1>1. ASSUME NEW s \in Spellings, Lookup(s) PROVE CacheInv'
  BY <1>1, LookupInv
<1>2. ASSUME NEW s \in Spellings, record_miss(s) PROVE CacheInv'
  BY <1>2, RecordMissInv
<1>3. ASSUME NEW s \in Spellings, EvictOne(s) PROVE CacheInv'
  BY <1>3, EvictOneInv
<1>4. ASSUME NEW m \in Images, NEW o \in Origins, insert(m, o) PROVE CacheInv'
  BY <1>4, InsertInv
<1>5. CASE EvictStep BY <1>5, EvictStepInv
<1>6. CASE EvictDone BY <1>6, EvictDoneInv
<1>7. CASE EvictAll BY <1>7, EvictAllInv
<1>8. CASE to_manifest BY <1>8, ToManifestInv
<1>9. CASE ColdStart BY <1>9, ColdStartInv DEF ColdStart
<1>10. CASE UNCHANGED cacheVars BY <1>10, CacheStutterInv
<1> QED BY <1>1, <1>2, <1>3, <1>4, <1>5, <1>6, <1>7, <1>8, <1>9, <1>10 DEF CacheNext

-----------------------------------------------------------------------------
(* The theorems *)

(* CacheInv holds in every reachable state: types, unique debug-ids in the *)
(* LRU, the module cap, located entries for resident modules, a closed     *)
(* index and sound aliases.                                                *)
THEOREM CacheInvariant == CacheSpec => []CacheInv
<1>1. CacheInit => CacheInv
  BY CacheInitInv
<1>2. CacheInv /\ [CacheNext]_cacheVars => CacheInv'
  BY CacheNextInv
<1> QED BY <1>1, <1>2, PTL DEF CacheSpec

(* No sequence of inserts, misses, evictions and restarts makes a token    *)
(* resolve against a module that does not answer to it.                    *)
THEOREM AliasesAreSound == CacheSpec => []AliasSound
<1>1. CacheInv => AliasSound
  BY DEF CacheInv
<1> QED BY <1>1, CacheInvariant, PTL

(* Entries are added or refreshed, never lost, except by a restart: the    *)
(* manifest's monotonicity, step by step.                                  *)
THEOREM EntriesAreMonotone == CacheSpec => EntriesMonotone
<1> DEFINE Kept == \A d \in Tokens : entries[d] # None =>
            /\ entries'[d] # None
            /\ entries[d].origin # None => entries'[d].origin # None
            /\ entries'[d].miss => entries[d].miss
<1>1. ASSUME CacheInv, SameButRows(entries, entries') PROVE Kept
  BY <1>1 DEF SameButRows
<1>2. ASSUME entries' = entries PROVE Kept
  BY <1>2
<1>3. ASSUME CacheInv, NEW s \in Spellings, record_miss(s) PROVE Kept
  BY <1>3, IdTypes DEF record_miss, MissEntry, CacheInv, CacheTypeOK, Manifests
<1>4. ASSUME CacheInv, NEW m \in Images, NEW o \in Origins, insert(m, o) PROVE Kept
  <2> DEFINE e == [origin |-> o, rows |-> 0, miss |-> FALSE]
  <2>1. e # None /\ e.origin # None /\ ~e.miss
    <3>1. e \in Entry
      BY DEF Entry
    <3> QED BY <3>1, AbsentAssumption
  <2>2. entries' = [entries EXCEPT ![DebugId[m]] = e]
    BY <1>4 DEF insert, Claimed, StillMissing
  <2> HIDE DEF e
  <2>3. \A d \in Tokens : entries'[d] = IF d = DebugId[m] THEN e ELSE entries[d]
    BY <1>4, <2>2 DEF CacheInv, CacheTypeOK, Manifests
  <2> QED BY <2>1, <2>3
<1>5. ASSUME CacheInv, [CacheNext]_cacheVars, ~ColdStart PROVE Kept
  <2>1. ASSUME NEW s \in Spellings, Lookup(s) PROVE Kept
    BY <2>1, <1>2 DEF Lookup, indexVars
  <2>2. ASSUME NEW s \in Spellings, EvictOne(s) PROVE Kept
    <3>1. PICK i \in DOMAIN resident : entries' = FoldBack(entries, resident[i])
      BY <2>2 DEF EvictOne
    <3>2. SameButRows(entries, entries')
      BY <1>5, <3>1, ResidentFacts, FoldBackProps DEF CacheInv, CacheTypeOK
    <3> QED BY <1>1, <1>5, <3>2
  <2>3. CASE EvictStep
    <3>1. Last(resident) \in Resident
      BY <1>5, <2>3, FrontProps, ResidentFacts DEF CacheInv, CacheTypeOK, EvictStep, OverBudget
    <3>2. SameButRows(entries, entries')
      BY <1>5, <2>3, <3>1, FoldBackProps DEF CacheInv, CacheTypeOK, EvictStep
    <3> QED BY <1>1, <1>5, <3>2
  <2>4. CASE EvictDone BY <2>4, <1>2 DEF EvictDone, indexVars
  <2>5. CASE EvictAll \/ to_manifest
    <3>1. SameButRows(entries, entries')
      BY <1>5, <2>5, FoldAllProps DEF CacheInv, CacheTypeOK, EvictAll, to_manifest
    <3> QED BY <1>1, <1>5, <3>1
  <2>6. CASE UNCHANGED cacheVars BY <2>6, <1>2 DEF cacheVars
  <2> QED BY <1>3, <1>4, <1>5, <2>1, <2>2, <2>3, <2>4, <2>5, <2>6 DEF CacheNext
<1>6. CacheInv /\ [CacheNext]_cacheVars => [~ColdStart => Kept]_cacheVars
  BY <1>5
<1> QED BY <1>6, CacheInvariant, PTL DEF CacheSpec, EntriesMonotone

(* The state keeps its types.                                              *)
THEOREM CacheTypesAreKept == CacheSpec => []CacheTypeOK
<1>1. CacheInv => CacheTypeOK
  BY DEF CacheInv
<1> QED BY <1>1, CacheInvariant, PTL

(* A resident module always has an entry that says where it came from.     *)
THEOREM ResidentsAreIndexed == CacheSpec => []ResidentIndexed
<1>1. CacheInv => ResidentIndexed
  BY DEF CacheInv
<1> QED BY <1>1, CacheInvariant, PTL

(* Every alias and every recorded miss leads to an entry.                  *)
THEOREM IndexIsClosed == CacheSpec => []IndexClosed
<1>1. CacheInv => IndexClosed
  BY DEF CacheInv
<1> QED BY <1>1, CacheInvariant, PTL

(* A module that was put is at the head of a non-empty LRU. *)
LEMMA PutFirst ==
    ASSUME CacheInv, NEW m \in Images, Put(m)
    PROVE  Len(resident') >= 1 /\ resident'[1].img = m
<1> DEFINE r == [img |-> m, rows |-> 0]
<1>1. resident \in Seq(Resident) /\ r \in Resident /\ r.img = m /\ Cap >= 1
  BY IdTypes DEF CacheInv, CacheTypeOK, Resident
<1>2. \E q \in Seq(Resident) : resident' = <<r>> \o q
  <2>1. ASSUME NEW i \in DOMAIN resident PROVE RemoveAt(resident, i) \in Seq(Resident)
    BY <1>1, LenProperties, RemoveProps
  <2>2. MakeRoom(resident) \in Seq(Resident)
    BY <1>1, IdTypes, FrontProps DEF MakeRoom
  <2> QED BY <2>1, <2>2 DEF Put
<1> HIDE DEF r
<1>3. PICK q \in Seq(Resident) : resident' = <<r>> \o q
  BY <1>2
<1>4. Len(resident') = Len(q) + 1 /\ Len(q) \in Nat /\ resident'[1] = r
  BY <1>1, <1>3, ConsProps, LenProperties
<1> QED BY <1>1, <1>4

(* While the eviction loop runs the LRU is not empty. *)
LoopHasModule == evicting => Len(resident) >= 1

LEMMA LoopHasModuleInv ==
    ASSUME CacheInv, LoopHasModule, [CacheNext]_cacheVars
    PROVE  LoopHasModule'
<1>1. ASSUME NEW s \in Spellings, Lookup(s) \/ record_miss(s) \/ EvictOne(s) PROVE LoopHasModule'
  BY <1>1 DEF LoopHasModule, Lookup, record_miss, EvictOne
<1>2. ASSUME NEW m \in Images, NEW o \in Origins, insert(m, o) PROVE LoopHasModule'
  BY <1>2, PutFirst DEF LoopHasModule, insert
<1>3. CASE EvictStep
  <2> DEFINE n == Len(resident)
  <2>1. n \in Nat /\ n > 1
    BY <1>3, ResidentFacts DEF CacheInv, EvictStep, OverBudget
  <2>2. Len(resident') = n - 1
    BY <1>3, <2>1, FrontProps DEF CacheInv, CacheTypeOK, EvictStep
  <2> HIDE DEF n
  <2>3. Len(resident') >= 1
    BY <2>1, <2>2
  <2> QED BY <2>3 DEF LoopHasModule
<1>4. CASE EvictDone \/ EvictAll \/ to_manifest \/ ColdStart
  BY <1>4 DEF LoopHasModule, EvictDone, EvictAll, to_manifest, ColdStart, cold_start
<1>5. CASE UNCHANGED cacheVars
  BY <1>5 DEF LoopHasModule, cacheVars
<1> QED BY <1>1, <1>2, <1>3, <1>4, <1>5 DEF CacheNext

(* The eviction loop of an insert never takes the module just inserted, on *)
(* which ensure_resident's caller counts: it pops from the other end and   *)
(* stops at one module.                                                    *)
THEOREM InsertedModuleSurvives == CacheSpec => MruSurvives
<1> DEFINE Kept == evicting /\ ~ColdStart => resident' # <<>> /\ Head(resident') = Head(resident)
<1>1. CacheInit => LoopHasModule
  BY DEF CacheInit, new, LoopHasModule
<1>2. CacheInv /\ LoopHasModule /\ [CacheNext]_cacheVars => LoopHasModule'
  BY LoopHasModuleInv
<1>3. ASSUME CacheInv, LoopHasModule, [CacheNext]_cacheVars PROVE [Kept]_cacheVars
  <2> SUFFICES ASSUME CacheNext, evicting, ~ColdStart
               PROVE  resident' # <<>> /\ Head(resident') = Head(resident)
    BY <1>3
  <2> DEFINE n == Len(resident)
  <2>1. resident \in Seq(Resident) /\ n \in Nat /\ n >= 1
    BY <1>3, ResidentFacts DEF CacheInv, CacheTypeOK, LoopHasModule
  <2>2. EvictStep \/ EvictDone
    BY DEF CacheNext, Lookup, record_miss, EvictOne, insert, EvictAll, to_manifest
  <2>3. CASE EvictDone
    BY <2>1, <2>3, EmptySeq DEF EvictDone
  <2>4. CASE EvictStep
    <3>1. n > 1
      BY <2>4 DEF EvictStep, OverBudget
    <3>2. /\ resident' \in Seq(Resident) /\ Len(resident') = n - 1
          /\ \A i \in 1..(n - 1) : resident'[i] = resident[i]
      BY <2>1, <2>4, FrontProps DEF EvictStep
    <3> HIDE DEF n
    <3>3. Len(resident') >= 1 /\ 1 \in 1..(n - 1)
      BY <2>1, <3>1, <3>2
    <3>4. resident' # <<>> /\ resident'[1] = resident[1]
      BY <3>2, <3>3, EmptySeq
    <3> QED BY <2>1, <3>2, <3>3, <3>4, HeadTailProperties DEF n
  <2> QED BY <2>2, <2>3, <2>4
<1> QED BY <1>1, <1>2, <1>3, CacheInvariant, PTL DEF CacheSpec, MruSurvives
-----------------------------------------------------------------------------
(* The byte counter *)

(* The sizes of the modules of a list, and their sum.                      *)
Sizes(q) == [i \in DOMAIN q |-> Bytes[q[i].img]]

LEMMA TotalFacts ==
    ASSUME NEW q \in Seq(Resident)
    PROVE  /\ Len(q) \in Nat
           /\ \A i \in 1..Len(q) : Sizes(q)[i] = Bytes[q[i].img] /\ Sizes(q)[i] \in Nat
           /\ TotalBytes(q) = SumTo(Sizes(q), Len(q))
           /\ TotalBytes(q) \in Nat
           /\ \A i \in 1..Len(q) : Bytes[q[i].img] <= TotalBytes(q)
           /\ Len(q) = 0 => TotalBytes(q) = 0
<1>1. Len(q) \in Nat /\ DOMAIN q = 1..Len(q) /\ \A i \in 1..Len(q) : q[i] \in Resident
  BY LenProperties, ElementOfSeq
<1>2. \A i \in 1..Len(q) : Sizes(q)[i] = Bytes[q[i].img] /\ Sizes(q)[i] \in Nat
  BY <1>1, IdTypes DEF Sizes
<1>3. DOMAIN Sizes(q) = 1..Len(q)
  BY <1>1 DEF Sizes
<1>4. TotalBytes(q) = SumTo(Sizes(q), Len(q))
  BY <1>3 DEF TotalBytes, SumFunction, SumTo, Sizes
<1>5. /\ SumTo(Sizes(q), Len(q)) \in Nat
      /\ Len(q) = 0 => SumTo(Sizes(q), Len(q)) = 0
      /\ \A i \in 1..Len(q) : Sizes(q)[i] <= SumTo(Sizes(q), Len(q))
  BY <1>1, <1>2, SumToStep
<1> QED BY <1>1, <1>2, <1>4, <1>5

(* A module that leaves takes its size with it: R is q without position i. *)
LEMMA TotalWithout ==
    ASSUME NEW q \in Seq(Resident), NEW i \in 1..Len(q), NEW R \in Seq(Resident),
           Len(R) = Len(q) - 1,
           \A j \in 1..(Len(q) - 1) : R[j] = IF j < i THEN q[j] ELSE q[j + 1]
    PROVE  TotalBytes(R) + Bytes[q[i].img] = TotalBytes(q)
<1> DEFINE n == Len(q)
           f == Sizes(q)
           h == Sizes(R)
<1>1. n \in Nat /\ \A j \in 1..n : f[j] = Bytes[q[j].img] /\ f[j] \in Nat
  BY TotalFacts
<1>2. \A j \in 1..(n - 1) : h[j] = Bytes[R[j].img]
  BY TotalFacts
<1>3. \A j \in 1..(n - 1) : j \in 1..n /\ j + 1 \in 1..n
  BY <1>1
<1>4. TotalBytes(q) = SumTo(f, n) /\ TotalBytes(R) = SumTo(h, n - 1)
  BY TotalFacts
<1>5. i \in 1..n
  OBVIOUS
<1>6. ASSUME NEW j \in 1..(n - 1) PROVE h[j] = IF j < i THEN f[j] ELSE f[j + 1]
  <2>1. R[j] = IF j < i THEN q[j] ELSE q[j + 1]
    OBVIOUS
  <2> HIDE DEF f, h, n
  <2>2. CASE j < i BY <2>1, <2>2, <1>1, <1>2, <1>3
  <2>3. CASE ~(j < i) BY <2>1, <2>3, <1>1, <1>2, <1>3
  <2> QED BY <2>2, <2>3
<1> HIDE DEF f, h, n
<1>7. SumTo(h, n - 1) + f[i] = SumTo(f, n)
  BY <1>1, <1>5, <1>6, SumWithout
<1> QED BY <1>1, <1>4, <1>5, <1>7

LEMMA TotalRemove ==
    ASSUME NEW q \in Seq(Resident), NEW i \in 1..Len(q)
    PROVE  /\ RemoveAt(q, i) \in Seq(Resident)
           /\ TotalBytes(RemoveAt(q, i)) + Bytes[q[i].img] = TotalBytes(q)
<1>1. /\ RemoveAt(q, i) \in Seq(Resident)
      /\ Len(RemoveAt(q, i)) = Len(q) - 1
      /\ \A j \in 1..(Len(q) - 1) : RemoveAt(q, i)[j] = IF j < i THEN q[j] ELSE q[j + 1]
  BY RemoveProps
<1> QED BY <1>1, TotalWithout

LEMMA TotalFront ==
    ASSUME NEW q \in Seq(Resident), Len(q) >= 1
    PROVE  /\ Front(q) \in Seq(Resident) /\ Last(q) \in Resident
           /\ TotalBytes(Front(q)) + Bytes[Last(q).img] = TotalBytes(q)
<1>1. /\ Front(q) \in Seq(Resident) /\ Len(Front(q)) = Len(q) - 1
      /\ \A j \in 1..(Len(q) - 1) : Front(q)[j] = q[j]
      /\ Len(q) \in 1..Len(q) /\ Last(q) = q[Len(q)] /\ Last(q) \in Resident
  BY FrontProps
<1>2. \A j \in 1..(Len(q) - 1) : j < Len(q)
  BY LenProperties
<1> QED BY <1>1, <1>2, TotalWithout

LEMMA TotalCons ==
    ASSUME NEW q \in Seq(Resident), NEW r \in Resident
    PROVE  /\ <<r>> \o q \in Seq(Resident)
           /\ TotalBytes(<<r>> \o q) = TotalBytes(q) + Bytes[r.img]
<1> DEFINE p == <<r>> \o q
<1>1. /\ p \in Seq(Resident) /\ Len(p) = Len(q) + 1 /\ p[1] = r
      /\ \A j \in 2..(Len(q) + 1) : p[j] = q[j - 1]
  BY ConsProps
<1> HIDE DEF p
<1>2. Len(q) \in Nat /\ 1 \in 1..Len(p) /\ Len(q) = Len(p) - 1
  BY <1>1, LenProperties
<1>3. ASSUME NEW j \in 1..(Len(p) - 1) PROVE ~(j < 1) /\ q[j] = p[j + 1]
  <2>1. j + 1 \in 2..(Len(q) + 1) /\ (j + 1) - 1 = j
    BY <1>2
  <2> QED BY <1>1, <2>1
<1>4. TotalBytes(q) + Bytes[p[1].img] = TotalBytes(p)
  BY <1>1, <1>2, <1>3, TotalWithout
<1> QED BY <1>1, <1>4 DEF p

(* What is enforced: the counter covers the resident modules, and outside  *)
(* the eviction loop it is within the budget, or one module is left.       *)
BudgetInv ==
    /\ NeverUndercounts
    /\ evicting \/ Len(resident) <= 1 \/ resident_bytes <= MaxBytes

(* A lookup moves a module to the front; its size moves along.             *)
LEMMA LookupBudget ==
    ASSUME CacheInv, BudgetInv, NEW s \in Spellings, Lookup(s)
    PROVE  BudgetInv'
<1>1. PICK i \in DOMAIN resident :
         resident' = <<[resident[i] EXCEPT !.rows = @ + 1]>> \o RemoveAt(resident, i)
  BY DEF Lookup
<1> DEFINE r == [resident[i] EXCEPT !.rows = @ + 1]
           R == RemoveAt(resident, i)
<1>2. resident \in Seq(Resident) /\ i \in 1..Len(resident) /\ resident[i] \in Resident
  BY ResidentFacts DEF CacheInv, CacheTypeOK
<1>3. r \in Resident /\ r.img = resident[i].img
  BY <1>2 DEF Resident
<1>4. /\ R \in Seq(Resident) /\ Len(R) = Len(resident) - 1 /\ Len(resident) \in Nat
      /\ TotalBytes(R) + Bytes[r.img] = TotalBytes(resident)
  BY <1>2, <1>3, TotalRemove, RemoveProps, LenProperties
<1>5. resident' = <<r>> \o R
  BY <1>1
<1> HIDE DEF r, R
<1>6. TotalBytes(resident') = TotalBytes(R) + Bytes[r.img] /\ Len(resident') = Len(R) + 1
  BY <1>3, <1>4, <1>5, TotalCons, ConsProps
<1>7. TotalBytes(resident)' = TotalBytes(resident) /\ Len(resident') = Len(resident)
  BY <1>4, <1>6 DEF TotalBytes
<1> QED BY <1>7 DEF BudgetInv, NeverUndercounts, Lookup

(* An insert counts the new module and gives back no more than the one it  *)
(* replaces; the one a full LRU drops stays counted.                       *)
LEMMA InsertBudget ==
    ASSUME CacheInv, BudgetInv, NEW m \in Images, NEW o \in Origins, insert(m, o)
    PROVE  BudgetInv'
<1> DEFINE r == [img |-> m, rows |-> 0]
           a == TotalBytes(resident)
           b == resident_bytes
<1>1. /\ r \in Resident /\ r.img = m /\ Bytes[m] \in Nat /\ resident \in Seq(Resident)
      /\ a \in Nat /\ b \in Nat /\ a <= b
  BY IdTypes, TotalFacts DEF Resident, CacheInv, CacheTypeOK, BudgetInv, NeverUndercounts
<1> HIDE DEF r
<1>2. CASE \E i \in DOMAIN resident :
             /\ resident' = <<r>> \o RemoveAt(resident, i)
             /\ resident_bytes' = SatSub(resident_bytes, Bytes[resident[i].img]) + Bytes[m]
  <2>1. PICK i \in DOMAIN resident :
             /\ resident' = <<r>> \o RemoveAt(resident, i)
             /\ resident_bytes' = SatSub(resident_bytes, Bytes[resident[i].img]) + Bytes[m]
    BY <1>2
  <2> DEFINE R == RemoveAt(resident, i)
             c == Bytes[resident[i].img]
             t == TotalBytes(R)
  <2>2. R \in Seq(Resident) /\ t + c = a /\ t \in Nat /\ c \in Nat
    <3>1. i \in 1..Len(resident) /\ resident[i] \in Resident
      BY ResidentFacts DEF CacheInv
    <3> QED BY <1>1, <3>1, TotalRemove, TotalFacts, IdTypes
  <2>3. TotalBytes(<<r>> \o R) = t + Bytes[m]
    BY <1>1, <2>2, TotalCons
  <2>4. resident' = <<r>> \o R /\ resident_bytes' = SatSub(b, c) + Bytes[m]
    BY <2>1
  <2> HIDE DEF a, b, c, t, R
  <2>5. TotalBytes(resident') <= resident_bytes'
    BY <1>1, <2>2, <2>3, <2>4 DEF SatSub
  <2> QED BY <2>5 DEF BudgetInv, NeverUndercounts, insert, TotalBytes
<1>3. CASE /\ resident' = <<r>> \o MakeRoom(resident)
           /\ resident_bytes' = resident_bytes + Bytes[m]
  <2> DEFINE R == MakeRoom(resident)
             t == TotalBytes(R)
  <2>1. R \in Seq(Resident) /\ t \in Nat /\ t <= a
    <3>1. CASE Len(resident) = Cap
      <4>1. Len(resident) >= 1 /\ R = Front(resident)
        BY <3>1, IdTypes DEF MakeRoom
      <4>2. /\ Front(resident) \in Seq(Resident) /\ Last(resident) \in Resident
            /\ TotalBytes(Front(resident)) + Bytes[Last(resident).img] = a
        BY <1>1, <4>1, TotalFront
      <4>3. TotalBytes(Front(resident)) \in Nat /\ Bytes[Last(resident).img] \in Nat
        BY <4>2, TotalFacts, IdTypes
      <4> QED BY <1>1, <4>1, <4>2, <4>3
    <3>2. CASE Len(resident) # Cap
      BY <1>1, <3>2 DEF MakeRoom
    <3> QED BY <3>1, <3>2
  <2>2. TotalBytes(<<r>> \o R) = t + Bytes[m]
    BY <1>1, <2>1, TotalCons
  <2>3. resident' = <<r>> \o R /\ resident_bytes' = b + Bytes[m]
    BY <1>3
  <2> HIDE DEF a, b, t, R
  <2>4. TotalBytes(resident') <= resident_bytes'
    BY <1>1, <2>1, <2>2, <2>3
  <2> QED BY <2>4 DEF BudgetInv, NeverUndercounts, insert, TotalBytes
<1> QED BY <1>2, <1>3 DEF insert, Put, r

(* A module that is evicted gives back what was counted for it.            *)
LEMMA EvictBudget ==
    ASSUME CacheInv, BudgetInv, NEW r \in Resident, resident' \in Seq(Resident),
           TotalBytes(resident') + Bytes[r.img] = TotalBytes(resident),
           resident_bytes' = SatSub(resident_bytes, Bytes[r.img])
    PROVE  NeverUndercounts' /\ resident_bytes' <= resident_bytes
<1> DEFINE a == TotalBytes(resident)
           b == resident_bytes
           c == Bytes[r.img]
           t == TotalBytes(resident')
<1>1. a \in Nat /\ b \in Nat /\ c \in Nat /\ t \in Nat /\ a <= b /\ t + c = a
  BY TotalFacts, IdTypes DEF CacheInv, CacheTypeOK, BudgetInv, NeverUndercounts
<1>2. resident_bytes' = SatSub(b, c)
  OBVIOUS
<1> HIDE DEF a, b, c, t
<1>3. t <= resident_bytes' /\ resident_bytes' <= b
  BY <1>1, <1>2 DEF SatSub
<1> QED BY <1>3 DEF NeverUndercounts, TotalBytes, t, b

LEMMA EvictStepBudget ==
    ASSUME CacheInv, BudgetInv, EvictStep
    PROVE  BudgetInv'
<1>1. resident \in Seq(Resident) /\ Len(resident) >= 1
  BY LenProperties DEF CacheInv, CacheTypeOK, EvictStep, OverBudget
<1>2. /\ resident' \in Seq(Resident) /\ Last(resident) \in Resident
      /\ TotalBytes(resident') + Bytes[Last(resident).img] = TotalBytes(resident)
  BY <1>1, TotalFront DEF EvictStep
<1>3. NeverUndercounts'
  BY <1>2, EvictBudget DEF EvictStep
<1> QED BY <1>3 DEF BudgetInv, EvictStep

LEMMA EvictOneBudget ==
    ASSUME CacheInv, BudgetInv, NEW s \in Spellings, EvictOne(s)
    PROVE  BudgetInv'
<1>1. PICK i \in DOMAIN resident :
         /\ resident' = RemoveAt(resident, i)
         /\ resident_bytes' = SatSub(resident_bytes, Bytes[resident[i].img])
  BY DEF EvictOne
<1>2. resident \in Seq(Resident) /\ i \in 1..Len(resident) /\ resident[i] \in Resident
  BY ResidentFacts DEF CacheInv, CacheTypeOK
<1>3. /\ resident' \in Seq(Resident) /\ Len(resident') = Len(resident) - 1
      /\ TotalBytes(resident') + Bytes[resident[i].img] = TotalBytes(resident)
  BY <1>1, <1>2, TotalRemove, RemoveProps
<1>4. NeverUndercounts' /\ resident_bytes' <= resident_bytes
  BY <1>1, <1>2, <1>3, EvictBudget
<1>5. Len(resident) \in Nat /\ resident_bytes \in Nat /\ resident_bytes' \in Nat /\ MaxBytes \in Nat
  BY <1>1, <1>2, LenProperties, SatSubType, IdTypes, BudgetAssumption DEF CacheInv, CacheTypeOK
<1>6. ~evicting => Len(resident') <= 1 \/ resident_bytes' <= MaxBytes
  BY <1>3, <1>4, <1>5 DEF BudgetInv
<1> QED BY <1>4, <1>6 DEF BudgetInv, EvictOne

(* An empty LRU with a counter of 0.                                       *)
LEMMA EmptyBudget ==
    /\ TotalBytes(<<>>) = 0 /\ Len(<<>>) <= 1
    /\ resident' = <<>> /\ resident_bytes' = 0 => BudgetInv'
<1>1. <<>> \in Seq(Resident) /\ Len(<<>>) = 0
  BY EmptySeq
<1>2. TotalBytes(<<>>) = 0
  BY <1>1, TotalFacts
<1>3. Len(<<>>) <= 1
  BY <1>1
<1>4. ASSUME resident' = <<>>, resident_bytes' = 0 PROVE BudgetInv'
  <2>1. TotalBytes(resident)' = TotalBytes(<<>>)
    BY <1>4 DEF TotalBytes
  <2>2. TotalBytes(resident)' <= resident_bytes'
    BY <1>2, <1>4, <2>1
  <2> QED BY <1>3, <1>4, <2>2 DEF BudgetInv, NeverUndercounts
<1> QED BY <1>2, <1>3, <1>4

(* The rest moves neither the modules nor the counter.                     *)
LEMMA QuietBudget ==
    ASSUME BudgetInv, UNCHANGED <<resident, resident_bytes>>,
           evicting' = evicting \/ EvictDone, CacheInv
    PROVE  BudgetInv'
<1>1. TotalBytes(resident)' = TotalBytes(resident)
  BY DEF TotalBytes
<1>2. EvictDone => Len(resident) <= 1 \/ resident_bytes <= MaxBytes
  <2>1. Len(resident) \in Nat /\ resident_bytes \in Nat /\ MaxBytes \in Nat
    BY LenProperties, BudgetAssumption DEF CacheInv, CacheTypeOK
  <2> QED BY <2>1 DEF EvictDone, OverBudget
<1> QED BY <1>1, <1>2 DEF BudgetInv, NeverUndercounts

(* Every step of the cache keeps the counter an upper bound. *)
LEMMA BudgetNextInv ==
    ASSUME CacheInv, BudgetInv, [CacheNext]_cacheVars
    PROVE  BudgetInv'
<1>1. ASSUME NEW s \in Spellings, Lookup(s) PROVE BudgetInv'
  BY <1>1, LookupBudget
<1>2. ASSUME NEW s \in Spellings, record_miss(s) PROVE BudgetInv'
  BY <1>2, QuietBudget DEF record_miss
<1>3. ASSUME NEW s \in Spellings, EvictOne(s) PROVE BudgetInv'
  BY <1>3, EvictOneBudget
<1>4. ASSUME NEW m \in Images, NEW o \in Origins, insert(m, o) PROVE BudgetInv'
  BY <1>4, InsertBudget
<1>5. CASE EvictStep BY <1>5, EvictStepBudget
<1>6. CASE EvictDone BY <1>6, QuietBudget DEF EvictDone
<1>7. CASE EvictAll BY <1>7, EmptyBudget DEF EvictAll
<1>8. CASE to_manifest BY <1>8, QuietBudget DEF to_manifest
<1>9. CASE ColdStart BY <1>9, EmptyBudget DEF ColdStart, cold_start
<1>10. CASE UNCHANGED cacheVars BY <1>10, QuietBudget DEF cacheVars
<1> QED BY <1>1, <1>2, <1>3, <1>4, <1>5, <1>6, <1>7, <1>8, <1>9, <1>10 DEF CacheNext

LEMMA BudgetInvariant == CacheInit /\ [][CacheNext]_cacheVars => [](CacheInv /\ BudgetInv)
<1>1. CacheInit => BudgetInv
  <2>1. CacheInit => resident = <<>> /\ resident_bytes = 0
    BY DEF CacheInit, new
  <2>2. TotalBytes(<<>>) = 0 /\ Len(<<>>) <= 1
    BY EmptyBudget
  <2> QED BY <2>1, <2>2 DEF BudgetInv, NeverUndercounts
<1>2. CacheInv /\ BudgetInv /\ [CacheNext]_cacheVars => CacheInv' /\ BudgetInv'
  BY CacheNextInv, BudgetNextInv
<1> QED BY <1>1, <1>2, CacheInitInv, PTL

(* The byte counter never claims less than the resident modules occupy,    *)
(* whatever is replaced, dropped at the module cap, evicted or restarted.  *)
THEOREM CounterCoversResidents == CacheSpec => []NeverUndercounts
<1>1. BudgetInv => NeverUndercounts
  BY DEF BudgetInv
<1> QED BY <1>1, BudgetInvariant, PTL DEF CacheSpec

LEMMA CacheBudgets == CacheInit /\ [][CacheNext]_cacheVars => []WithinBudgets
<1>1. CacheInv /\ BudgetInv => WithinBudgets
  <2> SUFFICES ASSUME CacheInv, BudgetInv PROVE WithinBudgets
    OBVIOUS
  <2>1. TotalBytes(resident) \in Nat /\ resident_bytes \in Nat /\ MaxBytes \in Nat
    BY TotalFacts, BudgetAssumption DEF CacheInv, CacheTypeOK
  <2>2. resident_bytes <= MaxBytes => TotalBytes(resident) <= MaxBytes
    BY <2>1 DEF BudgetInv, NeverUndercounts
  <2> QED BY <2>2 DEF CacheInv, BudgetInv, WithinBudgets
<1> QED BY <1>1, BudgetInvariant, PTL

(* Once an insert has returned, both budgets hold of the real sizes of the *)
(* resident modules, a single oversized module excepted.                   *)
THEOREM BudgetsHold == CacheSpec => []WithinBudgets
BY CacheBudgets, PTL DEF CacheSpec
-----------------------------------------------------------------------------
(* Row counts *)

(* The count cache_status shows for each debug-id, of an LRU q and entries *)
(* e.                                                                      *)
RowsOf(q, e) ==
    [d \in Tokens |->
        IF d \in Ids(q) THEN q[CHOOSE i \in DOMAIN q : IdOf(q[i]) = d].rows
                        ELSE IF e[d] = None THEN 0 ELSE e[d].rows]

LEMMA RowsFacts ==
    ASSUME NEW q \in Seq(Resident), Distinct(q), NEW e \in Manifests
    PROVE  /\ \A i \in DOMAIN q : RowsOf(q, e)[IdOf(q[i])] = q[i].rows
           /\ \A d \in Tokens \ Ids(q) :
                RowsOf(q, e)[d] = IF e[d] = None THEN 0 ELSE e[d].rows
           /\ \A d \in Tokens : RowsOf(q, e)[d] \in Nat
<1>1. \A i \in DOMAIN q : q[i] \in Resident /\ q[i].rows \in Nat /\ IdOf(q[i]) \in Tokens
  BY LenProperties, ElementOfSeq, IdTypes
<1>2. ASSUME NEW i \in DOMAIN q PROVE RowsOf(q, e)[IdOf(q[i])] = q[i].rows
  <2> DEFINE k == CHOOSE j \in DOMAIN q : IdOf(q[j]) = IdOf(q[i])
  <2>1. k \in DOMAIN q /\ IdOf(q[k]) = IdOf(q[i])
    OBVIOUS
  <2>2. k = i
    BY <2>1 DEF Distinct
  <2>3. IdOf(q[i]) \in Tokens /\ IdOf(q[i]) \in Ids(q)
    BY <1>1 DEF Ids
  <2>4. RowsOf(q, e)[IdOf(q[i])] = q[k].rows
    BY <2>3 DEF RowsOf
  <2> QED BY <2>2, <2>4
<1>3. \A d \in Tokens \ Ids(q) : RowsOf(q, e)[d] = IF e[d] = None THEN 0 ELSE e[d].rows
  BY DEF RowsOf
<1>4. ASSUME NEW d \in Tokens PROVE RowsOf(q, e)[d] \in Nat
  <2>1. CASE d \in Ids(q)
    <3>1. PICK i \in DOMAIN q : d = IdOf(q[i])
      BY <2>1 DEF Ids
    <3> QED BY <1>1, <1>2, <3>1
  <2>2. CASE d \notin Ids(q)
    <3>1. e[d] = None \/ e[d].rows \in Nat
      BY DEF Manifests, Entry
    <3> QED BY <1>3, <2>2, <3>1
  <2> QED BY <2>1, <2>2
<1> QED BY <1>2, <1>3, <1>4

(* A debug-id keeps its count when it is resident before and after with    *)
(* the same count, or resident in neither and its entry is untouched.      *)
LEMMA RowsSame ==
    ASSUME NEW q \in Seq(Resident), Distinct(q), NEW e \in Manifests,
           NEW p \in Seq(Resident), Distinct(p), NEW f \in Manifests,
           NEW d \in Tokens,
           \/ \E i \in DOMAIN q, j \in DOMAIN p :
                 IdOf(q[i]) = d /\ IdOf(p[j]) = d /\ p[j].rows >= q[i].rows
           \/ \E i \in DOMAIN q :
                 /\ IdOf(q[i]) = d /\ d \notin Ids(p)
                 /\ f[d] # None /\ f[d].rows = q[i].rows
           \/ d \notin Ids(q) /\ d \notin Ids(p) /\ f[d] = e[d]
    PROVE  ~(RowsOf(p, f)[d] < RowsOf(q, e)[d])
<1>1. \A i \in DOMAIN q : q[i].rows \in Nat /\ RowsOf(q, e)[IdOf(q[i])] = q[i].rows
  BY LenProperties, ElementOfSeq, IdTypes, RowsFacts
<1>2. \A j \in DOMAIN p : p[j].rows \in Nat /\ RowsOf(p, f)[IdOf(p[j])] = p[j].rows
  BY LenProperties, ElementOfSeq, IdTypes, RowsFacts
<1>3. /\ d \notin Ids(q) => RowsOf(q, e)[d] = IF e[d] = None THEN 0 ELSE e[d].rows
      /\ d \notin Ids(p) => RowsOf(p, f)[d] = IF f[d] = None THEN 0 ELSE f[d].rows
      /\ RowsOf(q, e)[d] \in Nat
  BY RowsFacts
<1>4. ASSUME NEW i \in DOMAIN q, NEW j \in DOMAIN p,
             IdOf(q[i]) = d, IdOf(p[j]) = d, p[j].rows >= q[i].rows
      PROVE  ~(RowsOf(p, f)[d] < RowsOf(q, e)[d])
  <2>1. RowsOf(p, f)[d] = p[j].rows /\ RowsOf(q, e)[d] = q[i].rows
    BY <1>1, <1>2, <1>4
  <2> QED BY <1>1, <1>2, <1>4, <2>1
<1>5. ASSUME NEW i \in DOMAIN q, IdOf(q[i]) = d, d \notin Ids(p),
             f[d] # None, f[d].rows = q[i].rows
      PROVE  ~(RowsOf(p, f)[d] < RowsOf(q, e)[d])
  <2>1. RowsOf(p, f)[d] = q[i].rows /\ RowsOf(q, e)[d] = q[i].rows
    BY <1>1, <1>3, <1>5
  <2> QED BY <1>1, <2>1
<1>6. ASSUME d \notin Ids(q) /\ d \notin Ids(p) /\ f[d] = e[d]
      PROVE  ~(RowsOf(p, f)[d] < RowsOf(q, e)[d])
  <2>1. RowsOf(p, f)[d] = RowsOf(q, e)[d]
    BY <1>3, <1>6
  <2> QED BY <1>3, <2>1
<1> QED BY <1>4, <1>5, <1>6

(* The positions of an LRU that loses its i-th module.                     *)
LEMMA WithoutIds ==
    ASSUME NEW q \in Seq(Resident), Distinct(q), NEW i \in 1..Len(q), NEW R \in Seq(Resident),
           Len(R) = Len(q) - 1,
           \A j \in 1..(Len(q) - 1) : R[j] = IF j < i THEN q[j] ELSE q[j + 1]
    PROVE  /\ \A k \in DOMAIN q : k # i => \E j \in DOMAIN R : R[j] = q[k]
           /\ Ids(R) \subseteq Ids(q) \ {IdOf(q[i])}
           /\ Distinct(R)
<1> DEFINE n == Len(q)
           at(j) == IF j < i THEN j ELSE j + 1
<1>1. DOMAIN q = 1..n /\ DOMAIN R = 1..(n - 1) /\ n \in Nat
  BY LenProperties
<1>2. /\ i \in 1..n
      /\ \A j \in 1..(n - 1) : R[j] = IF j < i THEN q[j] ELSE q[j + 1]
  OBVIOUS
<1> HIDE DEF n
<1>3. ASSUME NEW k \in DOMAIN q, k # i PROVE \E j \in DOMAIN R : R[j] = q[k]
  <2>1. CASE k < i
    BY <1>1, <1>2, <2>1
  <2>2. CASE k > i
    <3>1. k - 1 \in 1..(n - 1) /\ ~(k - 1 < i) /\ (k - 1) + 1 = k
      BY <1>1, <1>2, <2>2
    <3> QED BY <1>1, <1>2, <3>1
  <2> QED BY <1>1, <1>2, <1>3, <2>1, <2>2
<1>4. \A j \in DOMAIN R : at(j) \in DOMAIN q /\ at(j) # i /\ R[j] = q[at(j)]
  BY <1>1, <1>2
<1>5. \A j, k \in DOMAIN R : at(j) = at(k) => j = k
  BY <1>1, <1>2
<1>6. i \in DOMAIN q
  BY <1>1, <1>2
<1> HIDE DEF at
<1>7. Ids(R) \subseteq Ids(q) \ {IdOf(q[i])} /\ Distinct(R)
  BY <1>4, <1>5, <1>6 DEF Distinct, Ids
<1> QED BY <1>3, <1>7

(* No count falls from one state to the next. *)
NoneFalls == \A d \in Tokens : ~(rows_resolved'[d] < rows_resolved[d])

LEMMA RowsAre ==
    rows_resolved = RowsOf(resident, entries) /\ rows_resolved' = RowsOf(resident', entries')
BY DEF rows_resolved, RowsOf, ResidentIds

LEMMA LookupRows ==
    ASSUME CacheInv, CacheInv', NEW s \in Spellings, Lookup(s)
    PROVE  NoneFalls
<1>1. PICK i \in DOMAIN resident :
         resident' = <<[resident[i] EXCEPT !.rows = @ + 1]>> \o RemoveAt(resident, i)
  BY DEF Lookup
<1> DEFINE r == [resident[i] EXCEPT !.rows = @ + 1]
           R == RemoveAt(resident, i)
           n == Len(resident)
<1>2. /\ resident \in Seq(Resident) /\ i \in 1..n /\ resident[i] \in Resident /\ n \in Nat
      /\ DOMAIN resident = 1..n /\ resident[i].rows \in Nat
      /\ Distinct(resident) /\ entries \in Manifests
  BY ResidentFacts DEF CacheInv, CacheTypeOK, UniqueResidents
<1>3. r \in Resident /\ IdOf(r) = IdOf(resident[i]) /\ r.rows = resident[i].rows + 1
  BY <1>2 DEF Resident, IdOf
<1>4. /\ R \in Seq(Resident) /\ Len(R) = n - 1
      /\ \A j \in 1..(n - 1) : R[j] = IF j < i THEN resident[j] ELSE resident[j + 1]
  BY <1>2, RemoveProps
<1>5. \A k \in DOMAIN resident : k # i => \E j \in DOMAIN R : R[j] = resident[k]
  BY <1>2, <1>4, WithoutIds
<1>6. resident' = <<r>> \o R
  BY <1>1
<1>7. resident' \in Seq(Resident) /\ Distinct(resident') /\ entries' = entries /\ entries' \in Manifests
  BY DEF CacheInv, CacheTypeOK, UniqueResidents, Lookup, indexVars
<1> HIDE DEF r, R, n
<1>8. /\ Len(resident') = n /\ DOMAIN resident' = 1..n /\ resident'[1] = r
      /\ \A j \in 2..n : resident'[j] = R[j - 1]
      /\ DOMAIN R = 1..(n - 1)
  BY <1>2, <1>3, <1>4, <1>6, ConsProps, LenProperties
<1>9. \A k \in DOMAIN resident : k # i => \E j \in DOMAIN resident' : resident'[j] = resident[k]
  <2>1. \A j \in DOMAIN R : j + 1 \in 2..n /\ j + 1 \in DOMAIN resident' /\ (j + 1) - 1 = j
    BY <1>2, <1>8
  <2> QED BY <1>5, <1>8, <2>1
<1>10. 1 \in DOMAIN resident'
  BY <1>2, <1>8
<1>11. ASSUME NEW d \in Tokens, d \in Ids(resident)
       PROVE  \E k \in DOMAIN resident, j \in DOMAIN resident' :
                 IdOf(resident[k]) = d /\ IdOf(resident'[j]) = d /\ resident'[j].rows >= resident[k].rows
  <2>1. PICK k \in DOMAIN resident : d = IdOf(resident[k])
    BY <1>11 DEF Ids
  <2>2. CASE k = i
    <3>1. r.rows >= resident[i].rows
      BY <1>2, <1>3
    <3> QED BY <1>3, <1>8, <1>10, <2>1, <2>2, <3>1
  <2>3. CASE k # i
    <3>1. PICK j \in DOMAIN resident' : resident'[j] = resident[k]
      BY <1>9, <2>3
    <3>2. resident[k].rows \in Nat
      BY <1>2, ElementOfSeq, IdTypes
    <3> QED BY <2>1, <3>1, <3>2
  <2> QED BY <2>2, <2>3
<1>12. Ids(resident') \subseteq Ids(resident)
  <2>1. Ids(R) \subseteq Ids(resident) \ {IdOf(r)} /\ Distinct(R)
    BY <1>2, <1>3, <1>4, WithoutIds DEF n
  <2>2. IdOf(r) \in Ids(resident)
    BY <1>2, <1>3 DEF Ids
  <2>3. Ids(<<r>> \o R) \subseteq Ids(R) \cup {IdOf(r)}
    BY <1>3, <1>4, <2>1, ConsIds
  <2> QED BY <1>6, <2>1, <2>2, <2>3
<1>13. ASSUME NEW d \in Tokens PROVE ~(RowsOf(resident', entries')[d] < RowsOf(resident, entries)[d])
  BY <1>2, <1>7, <1>11, <1>12, RowsSame
<1> QED BY <1>13, RowsAre DEF NoneFalls

(* An eviction folds the module's count back into its entry. *)
LEMMA EvictRows ==
    ASSUME CacheInv, CacheInv', NEW i \in 1..Len(resident),
           Len(resident') = Len(resident) - 1,
           \A j \in 1..(Len(resident) - 1) :
               resident'[j] = IF j < i THEN resident[j] ELSE resident[j + 1],
           entries' = FoldBack(entries, resident[i])
    PROVE  NoneFalls
<1> DEFINE r == resident[i]
<1>1. /\ resident \in Seq(Resident) /\ resident' \in Seq(Resident)
      /\ Distinct(resident) /\ Distinct(resident')
      /\ entries \in Manifests /\ entries' \in Manifests
      /\ DOMAIN resident = 1..Len(resident)
      /\ \A k \in DOMAIN resident : resident[k].rows \in Nat
      /\ IdOf(r) \in Tokens
  BY ResidentFacts DEF CacheInv, CacheTypeOK, UniqueResidents
<1>2. /\ \A k \in DOMAIN resident : k # i => \E j \in DOMAIN resident' : resident'[j] = resident[k]
      /\ Ids(resident') \subseteq Ids(resident) \ {IdOf(r)}
  BY <1>1, WithoutIds
<1>3. entries[IdOf(r)] # None /\ entries[IdOf(r)] \in Entry
  <2>1. IdOf(r) \in ResidentIds
    BY <1>1 DEF ResidentIds, Ids
  <2>2. entries[IdOf(r)] # None
    BY <2>1 DEF CacheInv, ResidentIndexed
  <2> QED BY <1>1, <2>2 DEF Manifests
<1>4. /\ entries'[IdOf(r)] # None /\ entries'[IdOf(r)].rows = r.rows
      /\ \A d \in Tokens : d # IdOf(r) => entries'[d] = entries[d]
  <2> DEFINE g == [entries[IdOf(r)] EXCEPT !.rows = r.rows]
  <2>1. g # None /\ g.rows = r.rows
    BY <1>1, <1>3, EntryRows DEF Entry
  <2>2. entries' = [entries EXCEPT ![IdOf(r)] = g]
    BY <1>3 DEF FoldBack
  <2> HIDE DEF g, r
  <2> QED BY <1>1, <2>1, <2>2 DEF Manifests
<1> HIDE DEF r
<1>5. ASSUME NEW d \in Tokens PROVE ~(RowsOf(resident', entries')[d] < RowsOf(resident, entries)[d])
  <2>1. CASE d = IdOf(r)
    BY <1>1, <1>2, <1>4, <2>1, RowsSame DEF r
  <2>2. CASE d # IdOf(r) /\ d \in Ids(resident)
    <3>1. PICK k \in DOMAIN resident : d = IdOf(resident[k])
      BY <2>2 DEF Ids
    <3>2. PICK j \in DOMAIN resident' : resident'[j] = resident[k]
      BY <1>2, <2>2, <3>1 DEF r
    <3>3. resident'[j].rows >= resident[k].rows
      BY <1>1, <3>2
    <3> QED BY <1>1, <3>1, <3>2, <3>3, RowsSame
  <2>3. CASE d \notin Ids(resident) /\ d # IdOf(r)
    BY <1>1, <1>2, <1>4, <2>3, RowsSame
  <2> QED BY <2>1, <2>2, <2>3
<1> QED BY <1>5, RowsAre DEF NoneFalls

(* The modules stay; an entry of another debug-id stays too, or is a new   *)
(* one that counts no row.                                                 *)
LEMMA StayRows ==
    ASSUME CacheInv, CacheInv', resident' = resident,
           \A d \in Tokens \ ResidentIds :
               entries'[d] = entries[d] \/ entries[d] = None
    PROVE  NoneFalls
<1>1. /\ resident \in Seq(Resident) /\ Distinct(resident)
      /\ entries \in Manifests /\ entries' \in Manifests
  BY DEF CacheInv, CacheTypeOK, UniqueResidents
<1>2. ASSUME NEW d \in Tokens PROVE ~(RowsOf(resident', entries')[d] < RowsOf(resident, entries)[d])
  <2>0. RowsOf(resident', entries')[d] \in Nat /\ RowsOf(resident, entries)[d] \in Nat
    BY <1>1, RowsFacts
  <2>1. CASE d \in Ids(resident)
    <3>1. RowsOf(resident', entries')[d] = RowsOf(resident, entries)[d]
      BY <2>1 DEF RowsOf
    <3> QED BY <2>0, <3>1
  <2>2. CASE d \notin Ids(resident)
    <3>1. /\ RowsOf(resident, entries)[d] = IF entries[d] = None THEN 0 ELSE entries[d].rows
          /\ RowsOf(resident', entries')[d] = IF entries'[d] = None THEN 0 ELSE entries'[d].rows
      BY <1>1, <2>2, RowsFacts
    <3>2. entries'[d] = entries[d] \/ entries[d] = None
      BY <2>2 DEF ResidentIds
    <3> QED BY <2>0, <3>1, <3>2
  <2> QED BY <2>1, <2>2
<1> QED BY <1>2, RowsAre DEF NoneFalls

(* sync_entries leaves the entries of the other debug-ids alone, and       *)
(* evict(None) shows the counts it has just folded back.                   *)
LEMMA FoldRows ==
    ASSUME CacheInv, CacheInv', entries' = FoldAll(entries, resident),
           resident' = resident \/ resident' = <<>>
    PROVE  NoneFalls
<1>1. /\ resident \in Seq(Resident) /\ Distinct(resident)
      /\ entries \in Manifests /\ entries' \in Manifests
  BY DEF CacheInv, CacheTypeOK, UniqueResidents
<1>2. \A d \in Tokens \ ResidentIds : entries'[d] = entries[d]
  BY DEF FoldAll, ResidentIds
<1>3. CASE resident' = resident
  BY <1>2, <1>3, StayRows
<1>4. CASE resident' = <<>>
  <2>1. Ids(<<>>) = {} /\ <<>> \in Seq(Resident) /\ Distinct(<<>>)
    BY EmptySeq DEF Ids, Distinct
  <2>2. ASSUME NEW d \in Tokens, d \in ResidentIds
        PROVE  \E i \in DOMAIN resident :
                  IdOf(resident[i]) = d /\ entries'[d] # None /\ entries'[d].rows = resident[i].rows
    <3> DEFINE i == CHOOSE k \in DOMAIN resident : IdOf(resident[k]) = d
    <3>1. i \in DOMAIN resident /\ IdOf(resident[i]) = d
      BY <2>2 DEF ResidentIds, Ids
    <3>2. entries[d] # None /\ entries[d] \in Entry
      BY <1>1, <2>2 DEF CacheInv, ResidentIndexed, Manifests
    <3>3. entries'[d] = [entries[d] EXCEPT !.rows = resident[i].rows]
      BY <2>2, <3>2 DEF FoldAll, ResidentIds
    <3> HIDE DEF i
    <3>4. resident[i].rows \in Nat
      BY <3>1, ResidentFacts DEF CacheInv
    <3>5. entries'[d] # None /\ entries'[d].rows = resident[i].rows
      BY <3>2, <3>3, <3>4, EntryRows DEF Entry
    <3> QED BY <3>1, <3>5
  <2>3. ASSUME NEW d \in Tokens PROVE ~(RowsOf(resident', entries')[d] < RowsOf(resident, entries)[d])
    <3>1. CASE d \in ResidentIds
      BY <1>1, <1>4, <2>1, <2>2, <3>1, RowsSame
    <3>2. CASE d \notin ResidentIds
      BY <1>1, <1>2, <1>4, <2>1, <3>2, RowsSame DEF ResidentIds
    <3> QED BY <3>1, <3>2
  <2> QED BY <2>3, RowsAre DEF NoneFalls
<1> QED BY <1>3, <1>4

(* An insert lowers the count of its own debug-id, and of the module a     *)
(* full LRU drops.                                                         *)
LEMMA InsertRows ==
    ASSUME CacheInv, CacheInv', NEW m \in Images, NEW o \in Origins, insert(m, o),
           NEW d \in Tokens, rows_resolved'[d] < rows_resolved[d]
    PROVE  \/ d = IdOf(Head(resident'))
           \/ Len(resident) = Cap /\ d = IdOf(Last(resident))
<1> DEFINE r == [img |-> m, rows |-> 0]
<1>1. /\ resident \in Seq(Resident) /\ resident' \in Seq(Resident)
      /\ Distinct(resident) /\ Distinct(resident')
      /\ entries \in Manifests /\ entries' \in Manifests
      /\ Len(resident) \in Nat /\ DOMAIN resident = 1..Len(resident)
      /\ \A k \in DOMAIN resident : resident[k] \in Resident /\ resident[k].rows \in Nat
      /\ r \in Resident /\ IdOf(r) = DebugId[m] /\ Cap >= 1 /\ Cap \in Nat
  BY ResidentFacts, IdTypes DEF CacheInv, CacheTypeOK, UniqueResidents, Resident, IdOf
<1>2. \A t \in Tokens : t # DebugId[m] => entries'[t] = entries[t]
  BY DEF insert
<1>3. DebugId[m] \in Tokens
  BY IdTypes
<1>4. PICK R \in Seq(Resident) :
        /\ resident' = <<r>> \o R
        /\ Ids(R) \subseteq Ids(resident)
        /\ \A k \in DOMAIN resident :
              \/ IdOf(resident[k]) = DebugId[m]
              \/ Len(resident) = Cap /\ resident[k] = Last(resident)
              \/ \E j \in DOMAIN R : R[j] = resident[k]
  <2>1. ASSUME NEW i \in DOMAIN resident, IdOf(resident[i]) = DebugId[m],
               resident' = <<r>> \o RemoveAt(resident, i)
        PROVE  \E R \in Seq(Resident) :
                 /\ resident' = <<r>> \o R
                 /\ Ids(R) \subseteq Ids(resident)
                 /\ \A k \in DOMAIN resident :
                       IdOf(resident[k]) = DebugId[m] \/ \E j \in DOMAIN R : R[j] = resident[k]
    <3> DEFINE R == RemoveAt(resident, i)
    <3>1. i \in 1..Len(resident)
      BY <1>1
    <3>2. /\ R \in Seq(Resident) /\ Len(R) = Len(resident) - 1
          /\ \A j \in 1..(Len(resident) - 1) :
                R[j] = IF j < i THEN resident[j] ELSE resident[j + 1]
      BY <1>1, <3>1, RemoveProps
    <3>3. resident' = <<r>> \o R
      BY <2>1
    <3> HIDE DEF R, r
    <3>4. resident \in Seq(Resident) /\ Distinct(resident)
      BY <1>1
    <3>5. /\ \A k \in DOMAIN resident : k # i => \E j \in DOMAIN R : R[j] = resident[k]
          /\ Ids(R) \subseteq Ids(resident)
      BY <3>1, <3>2, <3>4, WithoutIds
    <3> QED BY <2>1, <3>2, <3>3, <3>5
  <2>2. ASSUME DebugId[m] \notin ResidentIds, resident' = <<r>> \o MakeRoom(resident)
        PROVE  \E R \in Seq(Resident) :
                 /\ resident' = <<r>> \o R
                 /\ Ids(R) \subseteq Ids(resident)
                 /\ \A k \in DOMAIN resident :
                       \/ Len(resident) = Cap /\ resident[k] = Last(resident)
                       \/ \E j \in DOMAIN R : R[j] = resident[k]
    <3>1. CASE Len(resident) = Cap
      <4> DEFINE R == Front(resident)
      <4>1. Len(resident) >= 1 /\ resident' = <<r>> \o R
        BY <1>1, <2>2, <3>1 DEF MakeRoom
      <4>2. /\ R \in Seq(Resident) /\ Len(R) = Len(resident) - 1
            /\ \A j \in 1..(Len(resident) - 1) : R[j] = resident[j]
            /\ Last(resident) = resident[Len(resident)] /\ Len(resident) \in 1..Len(resident)
        BY <1>1, <4>1, FrontProps
      <4> HIDE DEF R
      <4>3. PICK i \in 1..Len(resident) : i = Len(resident)
        BY <4>2
      <4>4. \A j \in 1..(Len(resident) - 1) :
               R[j] = IF j < i THEN resident[j] ELSE resident[j + 1]
        <5>1. \A j \in 1..(Len(resident) - 1) : j < i
          BY <1>1, <4>3
        <5> QED BY <4>2, <5>1
      <4> HIDE DEF r
      <4>5. /\ resident \in Seq(Resident) /\ Distinct(resident) /\ i \in 1..Len(resident)
            /\ R \in Seq(Resident) /\ Len(R) = Len(resident) - 1
        BY <1>1, <4>2, <4>3
      <4>6. /\ \A k \in DOMAIN resident :
                  k # i => \E j \in DOMAIN R : R[j] = resident[k]
            /\ Ids(R) \subseteq Ids(resident)
        BY <4>4, <4>5, WithoutIds
      <4> QED BY <3>1, <4>1, <4>2, <4>3, <4>6
    <3>2. CASE Len(resident) # Cap
      BY <1>1, <2>2, <3>2 DEF MakeRoom
    <3> QED BY <3>1, <3>2
  <2> QED BY <2>1, <2>2 DEF insert, Put
<1> HIDE DEF r
<1>5. /\ Len(resident') = Len(R) + 1 /\ Len(R) \in Nat /\ resident'[1] = r
      /\ \A j \in 2..(Len(R) + 1) : resident'[j] = R[j - 1]
      /\ DOMAIN R = 1..Len(R) /\ DOMAIN resident' = 1..Len(resident')
  <2>1. /\ Len(<<r>> \o R) = Len(R) + 1 /\ (<<r>> \o R)[1] = r
        /\ \A j \in 2..(Len(R) + 1) : (<<r>> \o R)[j] = R[j - 1]
    BY <1>1, ConsProps
  <2>2. /\ Len(R) \in Nat /\ DOMAIN R = 1..Len(R) /\ DOMAIN resident' = 1..Len(resident')
    BY <1>1, LenProperties
  <2> QED BY <1>4, <2>1, <2>2
<1>6. Head(resident') = r
  <2>1. resident' # <<>>
    BY <1>5, EmptySeq
  <2> QED BY <1>1, <1>5, <2>1, HeadTailProperties
<1>7. \A j \in DOMAIN R : j + 1 \in DOMAIN resident' /\ resident'[j + 1] = R[j]
  <2>1. \A j \in DOMAIN R : j + 1 \in 2..(Len(R) + 1) /\ (j + 1) - 1 = j /\ j + 1 \in DOMAIN resident'
    BY <1>5
  <2> QED BY <1>5, <2>1
<1>8. Ids(resident') \subseteq Ids(resident) \cup {DebugId[m]}
  <2>1. \A j \in DOMAIN resident' : j = 1 \/ (j - 1 \in DOMAIN R /\ resident'[j] = R[j - 1])
    BY <1>5
  <2>2. \A j \in DOMAIN resident' : IdOf(resident'[j]) \in Ids(R) \cup {DebugId[m]}
    BY <1>1, <1>5, <2>1 DEF Ids
  <2>3. Ids(resident') \subseteq Ids(R) \cup {DebugId[m]}
    BY <2>2 DEF Ids
  <2> QED BY <1>4, <2>3
<1>9. CASE d = DebugId[m]
  BY <1>1, <1>6, <1>9
<1>10. CASE d # DebugId[m] /\ d \notin Ids(resident)
  <2>1. d \notin Ids(resident') /\ entries'[d] = entries[d]
    BY <1>2, <1>8, <1>10
  <2> QED BY <1>1, <1>10, <2>1, RowsSame, RowsAre
<1>11. CASE d # DebugId[m] /\ d \in Ids(resident)
  <2>1. PICK k \in DOMAIN resident : d = IdOf(resident[k])
    BY <1>11 DEF Ids
  <2>2. CASE Len(resident) = Cap /\ resident[k] = Last(resident)
    BY <2>1, <2>2
  <2>3. ASSUME NEW j \in DOMAIN R, R[j] = resident[k] PROVE FALSE
    <3>1. j + 1 \in DOMAIN resident' /\ resident'[j + 1] = resident[k]
      BY <1>7, <2>3
    <3>2. resident'[j + 1].rows >= resident[k].rows
      BY <1>1, <3>1
    <3>3. ~(RowsOf(resident', entries')[d] < RowsOf(resident, entries)[d])
      BY <1>1, <2>1, <3>1, <3>2, RowsSame
    <3> QED BY <3>3, RowsAre
  <2> QED BY <1>4, <1>11, <2>1, <2>2, <2>3
<1> QED BY <1>9, <1>10, <1>11

(* The counts cache_status reports are carried from the resident set to    *)
(* the entries and back: within one process a module's count falls only in *)
(* an insert, for the module parsed anew or the one the LRU drops.         *)
THEOREM CountsAreKept == CacheSpec => RowsKept
<1> DEFINE Falls(d) == rows_resolved'[d] < rows_resolved[d]
           Excused(d) ==
              /\ parse_count' = parse_count + 1
              /\ \/ d = IdOf(Head(resident'))
                 \/ Len(resident) = Cap /\ d = IdOf(Last(resident))
           Kept == ~ColdStart => \A d \in Tokens : Falls(d) => Excused(d)
<1>1. ASSUME CacheInv, CacheInv', [CacheNext]_cacheVars PROVE [Kept]_cacheVars
  <2> SUFFICES ASSUME CacheNext, ~ColdStart, NEW d \in Tokens, Falls(d) PROVE Excused(d)
    BY <1>1
  <2>1. ~NoneFalls
    BY DEF NoneFalls
  <2>2. ASSUME NEW s \in Spellings, Lookup(s) PROVE FALSE
    BY <1>1, <2>1, <2>2, LookupRows
  <2>3. ASSUME NEW s \in Spellings, record_miss(s) PROVE FALSE
    <3>1. \A t \in Tokens : entries'[t] = entries[t] \/ entries[t] = None
      BY <1>1, <2>3, IdTypes DEF record_miss, MissEntry, CacheInv, CacheTypeOK, Manifests
    <3> QED BY <1>1, <2>1, <2>3, <3>1, StayRows DEF record_miss
  <2>4. ASSUME NEW s \in Spellings, EvictOne(s) PROVE FALSE
    <3>1. PICK i \in DOMAIN resident :
             resident' = RemoveAt(resident, i) /\ entries' = FoldBack(entries, resident[i])
      BY <2>4 DEF EvictOne
    <3>2. resident \in Seq(Resident) /\ i \in 1..Len(resident)
      BY <1>1, ResidentFacts DEF CacheInv, CacheTypeOK
    <3>3. /\ Len(resident') = Len(resident) - 1
          /\ \A j \in 1..(Len(resident) - 1) :
                resident'[j] = IF j < i THEN resident[j] ELSE resident[j + 1]
      BY <3>1, <3>2, RemoveProps
    <3> QED BY <1>1, <2>1, <3>1, <3>2, <3>3, EvictRows
  <2>5. CASE EvictStep
    <3>1. resident \in Seq(Resident) /\ Len(resident) >= 1
      BY <1>1, <2>5, LenProperties DEF CacheInv, CacheTypeOK, EvictStep, OverBudget
    <3>2. /\ Len(resident') = Len(resident) - 1 /\ Len(resident) \in 1..Len(resident)
          /\ \A j \in 1..(Len(resident) - 1) : resident'[j] = resident[j] /\ j < Len(resident)
          /\ entries' = FoldBack(entries, resident[Len(resident)])
      BY <2>5, <3>1, FrontProps, LenProperties DEF EvictStep
    <3> QED BY <1>1, <2>1, <3>2, EvictRows
  <2>6. CASE EvictDone
    BY <1>1, <2>1, <2>6, StayRows DEF EvictDone, indexVars
  <2>7. CASE EvictAll
    BY <1>1, <2>1, <2>7, FoldRows DEF EvictAll
  <2>8. CASE to_manifest
    BY <1>1, <2>1, <2>8, FoldRows DEF to_manifest
  <2>9. ASSUME NEW m \in Images, NEW o \in Origins, insert(m, o) PROVE Excused(d)
    BY <1>1, <2>9, InsertRows DEF insert
  <2> QED BY <2>2, <2>3, <2>4, <2>5, <2>6, <2>7, <2>8, <2>9 DEF CacheNext
<1> QED BY <1>1, CacheInvariant, PTL DEF CacheSpec, RowsKept
=============================================================================
