------------------------ MODULE SourceRegistryProofs ------------------------
(***************************************************************************)
(* Proofs about the registry for every disk, every set of sources and      *)
(* every order in which walks meet files.  All four safety properties are  *)
(* proved together: first-match-wins needs the order of the walks, that    *)
(* needs fresh ids, and an index entry that is already there needs a live  *)
(* source it came from.                                                    *)
(***************************************************************************)
EXTENDS SourceRegistry, SequenceLemmas

(* A list of sources add may have produced: typed, unique ids, a locator   *)
(* wherever the kind is local.                                             *)
GoodSources(q) ==
    /\ q \in Seq(Source)
    /\ \A i \in DOMAIN q : q[i].kind \in LocalKinds => q[i].loc \in Locations
    /\ \A i, j \in DOMAIN q : q[i].id = q[j].id => i = j

(* The index says what the files say, as long as the disk does not change. *)
IndexTrue ==
    disk_changes = 0 => \A t \in Tokens : index[t] # None => t \in aliases_of(index[t].path)

(* The inductive invariant of the registry. *)
RegInv ==
    /\ RegTypeOK
    /\ GoodSources(sources)
    /\ UniqueSourceIds
    /\ IndexFromLiveSources
    /\ WalkedInOrder
    /\ FirstMatchWins
    /\ IndexTrue

-----------------------------------------------------------------------------
(* Sources as the provers need them. *)
LEMMA SourceFacts ==
    ASSUME NEW q \in Seq(Source)
    PROVE  /\ Len(q) \in Nat /\ DOMAIN q = 1..Len(q)
           /\ \A i \in DOMAIN q : q[i] \in Source /\ q[i].id \in Nat
<1>1. Len(q) \in Nat /\ DOMAIN q = 1..Len(q)
  BY LenProperties
<1>2. \A i \in 1..Len(q) : q[i] \in Source
  BY ElementOfSeq
<1> QED BY <1>1, <1>2 DEF Source

(* What a walk meets depends on the disk alone. *)
LEMMA SameDisk ==
    ASSUME disk' = disk
    PROVE  \A s, t : CertainlyHas(s, t)' <=> CertainlyHas(s, t)
BY DEF CertainlyHas, Hits, Listing, FilesMet, aliases_of

(* The registry starts in the invariant. *)
LEMMA RegInitInv == RegInit => RegInv
<1> SUFFICES ASSUME RegInit PROVE RegInv
  OBVIOUS
<1>1. sources \in Seq(Source) /\ DOMAIN sources = {}
  BY EmptySeq DEF RegInit
<1>2. RegTypeOK
  BY <1>1 DEF RegInit, RegTypeOK, EmptyIndex
<1>3. GoodSources(sources) /\ UniqueSourceIds
  BY <1>1 DEF GoodSources, UniqueSourceIds
<1>4. IndexFromLiveSources /\ WalkedInOrder /\ FirstMatchWins /\ IndexTrue
  BY DEF RegInit, EmptyIndex, IndexFromLiveSources, WalkedInOrder, FirstMatchWins, IndexTrue
<1> QED BY <1>2, <1>3, <1>4 DEF RegInv

(* add keeps the invariant: the new source comes last under a fresh id. *)
LEMMA AddInv ==
    ASSUME RegInv, NEW kind, NEW loc \in Locations \cup {None}, NEW en \in {TRUE, FALSE, None},
           add(kind, loc, en), UNCHANGED diskVars
    PROVE  RegInv'
<1> DEFINE egress == kind \in RemoteKinds
           enabled == IF en = None THEN ~egress ELSE en
           new == [id |-> next_id, kind |-> kind, loc |-> loc,
                   enabled |-> enabled, egress |-> egress]
           n == Len(sources)
<1>1. sources \in Seq(Source) /\ next_id \in Nat
  BY DEF RegInv, RegTypeOK
<1>2. /\ kind \in Kinds /\ (kind \in LocalKinds => loc \in Locations)
      /\ sources' = Append(sources, new) /\ next_id' = next_id + 1
      /\ index' = index /\ indexed' = indexed /\ disk' = disk /\ disk_changes' = disk_changes
  BY DEF add, Accepted, diskVars, LocalKinds
<1>3. new \in Source /\ new.id = next_id /\ new.kind = kind /\ new.loc = loc
  <2>1. egress \in BOOLEAN
    OBVIOUS
  <2>2. enabled \in BOOLEAN
    <3>1. CASE en = None
      BY <3>1, Zenon
    <3>2. CASE en # None
      BY <3>2, Zenon
    <3> QED BY <3>1, <3>2
  <2> HIDE DEF egress, enabled
  <2> QED BY <1>1, <1>2, <2>1, <2>2 DEF Source
<1> HIDE DEF new
<1>4. n \in Nat /\ DOMAIN sources = 1..n /\ \A i \in 1..n : sources[i] \in Source /\ sources[i].id \in Nat
  BY <1>1, SourceFacts
<1>5. /\ sources' \in Seq(Source) /\ DOMAIN sources' = 1..(n + 1)
      /\ \A i \in 1..n : sources'[i] = sources[i]
      /\ sources'[n + 1] = new
  <2>1. Append(sources, new) \in Seq(Source) /\ Len(Append(sources, new)) = n + 1
    BY <1>1, <1>3, AppendProperties
  <2>2. /\ \A i \in 1..n : Append(sources, new)[i] = sources[i]
        /\ Append(sources, new)[n + 1] = new
    BY <1>1, <1>3, AppendProperties
  <2> QED BY <1>2, <2>1, <2>2, LenProperties
<1> HIDE DEF n
<1>6. RegTypeOK'
  BY <1>1, <1>2, <1>5 DEF RegInv, RegTypeOK
<1>7. \A i \in 1..n : sources[i].id < next_id
  BY <1>4 DEF RegInv, UniqueSourceIds
<1>8. \A i \in 1..(n + 1) : i \in 1..n \/ i = n + 1
  BY <1>4
<1>9. (\A i, j \in DOMAIN sources : sources[i].id = sources[j].id => i = j)'
  <2> SUFFICES ASSUME NEW i \in 1..(n + 1), NEW j \in 1..(n + 1), sources'[i].id = sources'[j].id
               PROVE  i = j
    BY <1>5
  <2>1. CASE i \in 1..n /\ j \in 1..n
    BY <2>1, <1>4, <1>5 DEF RegInv, UniqueSourceIds
  <2>2. CASE i = n + 1 /\ j \in 1..n
    BY <2>2, <1>1, <1>3, <1>4, <1>5, <1>7
  <2>3. CASE i \in 1..n /\ j = n + 1
    BY <2>3, <1>1, <1>3, <1>4, <1>5, <1>7
  <2> QED BY <1>8, <2>1, <2>2, <2>3
<1>10. UniqueSourceIds'
  <2>1. \A i \in 1..(n + 1) : sources'[i].id < next_id + 1
    BY <1>1, <1>3, <1>4, <1>5, <1>7, <1>8
  <2> QED BY <1>2, <1>5, <1>9, <2>1 DEF UniqueSourceIds
<1>11. GoodSources(sources)'
  <2>1. \A i \in 1..(n + 1) : sources'[i].kind \in LocalKinds => sources'[i].loc \in Locations
    BY <1>2, <1>3, <1>4, <1>5, <1>8 DEF RegInv, GoodSources
  <2> QED BY <1>5, <1>9, <2>1 DEF GoodSources
<1>12. IndexFromLiveSources'
  <2> SUFFICES ASSUME NEW t \in Tokens, index[t] # None
               PROVE  \E i \in DOMAIN sources' :
                        /\ Searchable(sources'[i]) /\ sources'[i].id \in indexed
                        /\ index[t].path \in FilesOf(sources'[i])
                        /\ index[t].glob = (sources'[i].kind = "glob")
    BY <1>2 DEF IndexFromLiveSources, Searchable, FilesOf
  <2>1. PICK i \in 1..n :
                        /\ Searchable(sources[i]) /\ sources[i].id \in indexed
                        /\ index[t].path \in FilesOf(sources[i])
                        /\ index[t].glob = (sources[i].kind = "glob")
    BY <1>4 DEF RegInv, IndexFromLiveSources
  <2>2. i \in DOMAIN sources' /\ sources'[i] = sources[i]
    BY <1>4, <1>5
  <2> QED BY <2>1, <2>2
<1>13. \A j \in 1..(n + 1) : sources'[j].id \in indexed => j \in 1..n
  <2>1. new.id \notin indexed
    BY <1>1, <1>3, <1>4, <1>7 DEF RegInv, WalkedInOrder, SourceIds
  <2> QED BY <1>5, <1>8, <2>1
<1>14. WalkedInOrder'
  <2>1. indexed \subseteq {sources'[i].id : i \in DOMAIN sources'}
    <3>1. \A i \in 1..n : i \in DOMAIN sources' /\ sources'[i].id = sources[i].id
      BY <1>4, <1>5
    <3> QED BY <1>4, <3>1 DEF RegInv, WalkedInOrder, SourceIds
  <2>2. ASSUME NEW i \in 1..(n + 1), NEW j \in 1..(n + 1), i < j, sources'[j].id \in indexed
        PROVE  ~Pending(sources[i])'
    <3>1. j \in 1..n /\ i \in 1..n
      BY <1>4, <1>13, <2>2
    <3>2. ~Pending(sources[i])
      BY <1>4, <1>5, <2>2, <3>1 DEF RegInv, WalkedInOrder
    <3> QED BY <1>2, <1>5, <3>1, <3>2 DEF Pending, Searchable
  <2> QED BY <1>2, <1>5, <2>1, <2>2 DEF WalkedInOrder, SourceIds
<1>15. FirstMatchWins'
  <2> SUFFICES ASSUME disk_changes = 0, NEW t \in Tokens, NEW j \in DOMAIN sources',
                      sources'[j].id \in indexed, CertainlyHas(sources'[j], t)
               PROVE  \E i \in 1..j : /\ sources'[i].id \in indexed
                                      /\ index[t] # None
                                      /\ index[t].path \in FilesOf(sources'[i])
                                      /\ index[t].glob = (sources'[i].kind = "glob")
    BY <1>2, SameDisk DEF FirstMatchWins, FilesOf
  <2>1. j \in 1..n /\ sources'[j] = sources[j]
    BY <1>5, <1>13
  <2>2. PICK i \in 1..j : /\ sources[i].id \in indexed
                          /\ index[t] # None
                          /\ index[t].path \in FilesOf(sources[i])
                          /\ index[t].glob = (sources[i].kind = "glob")
    BY <1>4, <2>1 DEF RegInv, FirstMatchWins
  <2>3. sources'[i] = sources[i]
    BY <1>4, <1>5, <2>1
  <2> QED BY <2>2, <2>3
<1>16. IndexTrue'
  BY <1>2 DEF RegInv, IndexTrue, aliases_of
<1> QED BY <1>6, <1>10, <1>11, <1>12, <1>14, <1>15, <1>16 DEF RegInv

(* drop_source keeps the invariant: the index is forgotten with it. *)
LEMMA DropInv ==
    ASSUME RegInv, NEW id, drop_source(id), UNCHANGED diskVars
    PROVE  RegInv'
<1>1. PICK i \in DOMAIN sources : sources' = RemoveAt(sources, i)
  BY DEF drop_source
<1> DEFINE n == Len(sources)
<1>2. n \in Nat /\ DOMAIN sources = 1..n /\ \A j \in 1..n : sources[j] \in Source /\ sources[j].id \in Nat
  BY SourceFacts DEF RegInv, RegTypeOK
<1>3. /\ sources' \in Seq(Source) /\ Len(sources') = n - 1
      /\ \A j \in 1..(n - 1) : sources'[j] = IF j < i THEN sources[j] ELSE sources[j + 1]
  BY <1>1, <1>2, RemoveProps DEF RegInv, RegTypeOK
<1>4. DOMAIN sources' = 1..(n - 1)
  BY <1>3, LenProperties
<1> HIDE DEF n
<1> DEFINE old(j) == IF j < i THEN j ELSE j + 1
<1>5. /\ \A j \in 1..(n - 1) : old(j) \in 1..n /\ sources'[j] = sources[old(j)]
      /\ \A j, k \in 1..(n - 1) : old(j) = old(k) => j = k
  BY <1>2, <1>3
<1> HIDE DEF old
<1>6. index' = EmptyIndex /\ indexed' = {} /\ next_id' = next_id /\ disk' = disk
      /\ disk_changes' = disk_changes
  BY DEF drop_source, diskVars
<1>7. RegTypeOK'
  BY <1>3, <1>6 DEF RegInv, RegTypeOK, EmptyIndex
<1>8. \A j, k \in 1..n : sources[j].id = sources[k].id => j = k
  BY <1>2 DEF RegInv, UniqueSourceIds
<1>9. \A j, k \in 1..(n - 1) : sources'[j].id = sources'[k].id => j = k
  BY <1>5, <1>8
<1>10. UniqueSourceIds'
  <2>1. \A j \in 1..n : sources[j].id < next_id
    BY <1>2 DEF RegInv, UniqueSourceIds
  <2>2. \A j \in 1..(n - 1) : sources'[j].id < next_id
    BY <1>5, <2>1
  <2> QED BY <1>4, <1>6, <1>9, <2>2 DEF UniqueSourceIds
<1>11. GoodSources(sources)'
  <2>1. \A j \in 1..(n - 1) : sources'[j].kind \in LocalKinds => sources'[j].loc \in Locations
    BY <1>2, <1>5 DEF RegInv, GoodSources
  <2> QED BY <1>3, <1>4, <1>9, <2>1 DEF GoodSources
<1>12. (IndexFromLiveSources /\ WalkedInOrder /\ FirstMatchWins /\ IndexTrue)'
  BY <1>6 DEF EmptyIndex, IndexFromLiveSources, WalkedInOrder, FirstMatchWins, IndexTrue
<1> QED BY <1>7, <1>10, <1>11, <1>12 DEF RegInv

(* restore keeps the invariant: the counter is past every restored id. *)
LEMMA RestoreInv ==
    ASSUME RegInv, NEW specs, GoodSources(specs), restore(specs), UNCHANGED diskVars
    PROVE  RegInv'
<1> DEFINE n == Len(specs)
           f == [i \in 1..n |-> specs[i].id + 1]
           S == {0} \cup {f[i] : i \in 1..n}
<1>1. specs \in Seq(Source) /\ n \in Nat /\ DOMAIN specs = 1..n /\ \A i \in 1..n : specs[i].id \in Nat
  BY SourceFacts DEF GoodSources
<1> HIDE DEF n
<1>2. \A i \in 1..n : f[i] \in Nat /\ f[i] = specs[i].id + 1
  BY <1>1
<1>3. {0} \cup {specs[i].id + 1 : i \in DOMAIN specs} = S
  BY <1>1, <1>2
<1> HIDE DEF f
<1>4. Max(S) \in Nat /\ \A y \in S : y <= Max(S)
  BY <1>1, <1>2, MaxProps
<1>5. \A i \in 1..n : specs[i].id + 1 <= Max(S)
  BY <1>2, <1>4
<1> HIDE DEF S
<1>6. sources' = specs /\ next_id' = Max(S) /\ index' = EmptyIndex /\ indexed' = {}
      /\ disk' = disk /\ disk_changes' = disk_changes
  BY <1>3 DEF restore, diskVars
<1>7. RegTypeOK'
  BY <1>1, <1>4, <1>6 DEF RegInv, RegTypeOK, EmptyIndex
<1>8. UniqueSourceIds'
  <2>1. \A i \in 1..n : specs[i].id < Max(S)
    BY <1>1, <1>4, <1>5
  <2> QED BY <1>1, <1>6, <2>1 DEF GoodSources, UniqueSourceIds
<1>9. GoodSources(sources)'
  BY <1>6
<1>10. (IndexFromLiveSources /\ WalkedInOrder /\ FirstMatchWins /\ IndexTrue)'
  BY <1>6 DEF EmptyIndex, IndexFromLiveSources, WalkedInOrder, FirstMatchWins, IndexTrue
<1> QED BY <1>7, <1>8, <1>9, <1>10 DEF RegInv

(* A change of the disk keeps the invariant: the index stays as it is, and *)
(* first-match-wins speaks of an unchanged disk only.                      *)
LEMMA DiskChangeInv ==
    ASSUME RegInv, DiskChange, UNCHANGED regVars
    PROVE  RegInv'
<1>1. sources' = sources /\ next_id' = next_id /\ index' = index /\ indexed' = indexed
  BY DEF regVars
<1>2. disk' \in [Paths -> Images \cup {Junk, Absent}] /\ disk_changes' \in Nat /\ disk_changes' # 0
  BY DEF DiskChange, RegInv, RegTypeOK
<1>3. RegTypeOK'
  BY <1>1, <1>2 DEF RegInv, RegTypeOK
<1>4. GoodSources(sources)' /\ UniqueSourceIds' /\ WalkedInOrder'
  BY <1>1 DEF RegInv, GoodSources, UniqueSourceIds, WalkedInOrder, SourceIds, Pending, Searchable
<1>5. IndexFromLiveSources'
  BY <1>1 DEF RegInv, IndexFromLiveSources, Searchable, FilesOf
<1>6. FirstMatchWins' /\ IndexTrue'
  BY <1>2 DEF FirstMatchWins, IndexTrue
<1> QED BY <1>3, <1>4, <1>5, <1>6 DEF RegInv

(* A step that touches neither registry nor disk. *)
LEMMA RegStutterInv ==
    ASSUME RegInv, UNCHANGED <<regVars, diskVars>>
    PROVE  RegInv'
<1>1. /\ sources' = sources /\ next_id' = next_id /\ index' = index /\ indexed' = indexed
      /\ disk' = disk /\ disk_changes' = disk_changes
  BY DEF regVars, diskVars
<1>2. RegTypeOK' /\ GoodSources(sources)' /\ UniqueSourceIds' /\ WalkedInOrder'
  BY <1>1 DEF RegInv, RegTypeOK, GoodSources, UniqueSourceIds, WalkedInOrder, SourceIds, Pending, Searchable
<1>3. IndexFromLiveSources'
  BY <1>1 DEF RegInv, IndexFromLiveSources, Searchable, FilesOf
<1>4. FirstMatchWins'
  BY <1>1, SameDisk DEF RegInv, FirstMatchWins, FilesOf
<1>5. IndexTrue'
  BY <1>1 DEF RegInv, IndexTrue, aliases_of
<1> QED BY <1>2, <1>3, <1>4, <1>5 DEF RegInv

(* A walk of the first pending source keeps the invariant: it adds a file  *)
(* only where no earlier source had one.                                   *)
LEMMA IndexSourceInv ==
    ASSUME RegInv, IndexSource, UNCHANGED diskVars
    PROVE  RegInv'
<1> DEFINE n == Len(sources)
<1>1. n \in Nat /\ DOMAIN sources = 1..n /\ \A j \in 1..n : sources[j] \in Source /\ sources[j].id \in Nat
  BY SourceFacts DEF RegInv, RegTypeOK
<1>2. PICK i \in 1..n :
        /\ Pending(sources[i]) /\ \A j \in 1..(i - 1) : ~Pending(sources[j])
        /\ \E w \in Visits[sources[i].loc] : index' = Indexed(w, sources[i].kind = "glob")
        /\ indexed' = indexed \cup {sources[i].id}
        /\ UNCHANGED <<sources, next_id>>
  BY <1>1 DEF IndexSource
<1> HIDE DEF n
<1> DEFINE g == sources[i].kind = "glob"
<1>3. PICK w \in Visits[sources[i].loc] : index' = Indexed(w, g)
  BY <1>2
<1>4. Searchable(sources[i]) /\ sources[i].loc \in Locations /\ w \in Seq(Paths)
  BY <1>1, <1>2, RegistryAssumption DEF Pending, Searchable, RegInv, GoodSources
<1>5. g \in BOOLEAN
  OBVIOUS
<1> HIDE DEF g
<1> DEFINE first(t) == w[Min(Hits(w, t))]
<1>6. ASSUME NEW t \in Tokens, Hits(w, t) # {}
      PROVE  /\ first(t) \in Paths /\ first(t) \in FilesOf(sources[i])
             /\ t \in aliases_of(first(t))
  <2>1. Hits(w, t) \in SUBSET DOMAIN w /\ DOMAIN w \in SUBSET Nat
    BY <1>4, LenProperties DEF Hits, Listing, FilesMet
  <2>2. Min(Hits(w, t)) \in DOMAIN w /\ Min(Hits(w, t)) \in Hits(w, t)
    BY <1>6, <2>1, MinProps
  <2>3. first(t) \in Paths
    BY <1>4, <2>2, ElementOfSeq, LenProperties
  <2>4. t \in aliases_of(first(t))
    BY <2>2 DEF Hits
  <2> QED BY <1>3, <2>2, <2>3, <2>4 DEF FilesOf
<1>7. ASSUME NEW t \in Tokens
      PROVE  /\ index[t] = None /\ Hits(w, t) # {} => index'[t] = [path |-> first(t), glob |-> g]
             /\ index[t] # None \/ Hits(w, t) = {} => index'[t] = index[t]
  BY <1>3, <1>7 DEF Indexed
<1> HIDE DEF first
<1>8. ASSUME NEW t \in Tokens
      PROVE  \/ index'[t] = index[t]
             \/ /\ index[t] = None /\ index'[t] \in Hit /\ index'[t] # None
                /\ index'[t].path \in FilesOf(sources[i]) /\ index'[t].glob = g
                /\ t \in aliases_of(index'[t].path)
  <2>1. CASE index[t] = None /\ Hits(w, t) # {}
    <3> DEFINE h == [path |-> first(t), glob |-> g]
    <3>1. h \in Hit /\ h.path = first(t) /\ h.glob = g
      BY <1>5, <1>6, <2>1 DEF Hit
    <3> HIDE DEF h
    <3>2. index'[t] = h
      BY <1>7, <2>1 DEF h
    <3> QED BY <1>6, <2>1, <3>1, <3>2, HitAssumption
  <2>2. CASE ~(index[t] = None /\ Hits(w, t) # {})
    BY <1>7, <2>2
  <2> QED BY <2>1, <2>2
<1>9. /\ sources' = sources /\ next_id' = next_id /\ indexed' = indexed \cup {sources[i].id}
      /\ disk' = disk /\ disk_changes' = disk_changes
  BY <1>2 DEF diskVars
<1>10. RegTypeOK'
  <2>1. index' \in [Tokens -> Hit \cup {None}]
    <3>1. index' = [t \in Tokens |-> index'[t]]
      BY <1>3 DEF Indexed
    <3>2. \A t \in Tokens : index'[t] \in Hit \cup {None}
      BY <1>8 DEF RegInv, RegTypeOK
    <3> QED BY <3>1, <3>2
  <2> QED BY <1>1, <1>9, <2>1 DEF RegInv, RegTypeOK
<1>11. GoodSources(sources)' /\ UniqueSourceIds'
  BY <1>9 DEF RegInv, GoodSources, UniqueSourceIds
<1>12. IndexFromLiveSources'
  <2> SUFFICES ASSUME NEW t \in Tokens, index'[t] # None
               PROVE  \E k \in DOMAIN sources :
                        /\ Searchable(sources[k]) /\ sources[k].id \in indexed'
                        /\ index'[t].path \in FilesOf(sources[k])
                        /\ index'[t].glob = (sources[k].kind = "glob")
    BY <1>9 DEF IndexFromLiveSources, Searchable, FilesOf
  <2>1. CASE index'[t] = index[t]
    BY <1>9, <2>1 DEF RegInv, IndexFromLiveSources
  <2>2. CASE index'[t] # index[t]
    <3>1. i \in DOMAIN sources /\ sources[i].id \in indexed'
      BY <1>1, <1>9
    <3> QED BY <1>4, <1>8, <2>2, <3>1 DEF g
  <2> QED BY <2>1, <2>2
<1>13. WalkedInOrder'
  <2>1. indexed' \subseteq SourceIds'
    BY <1>1, <1>9 DEF RegInv, WalkedInOrder, SourceIds
  <2>2. ASSUME NEW j \in 1..n, NEW k \in 1..n, j < k, sources[k].id \in indexed'
        PROVE  ~(Searchable(sources[j]) /\ sources[j].id \notin indexed')
    <3>1. CASE sources[k].id \in indexed
      BY <1>1, <1>9, <2>2, <3>1 DEF RegInv, WalkedInOrder, Pending
    <3>2. CASE sources[k].id = sources[i].id
      <4>1. k = i
        BY <1>1, <3>2 DEF RegInv, UniqueSourceIds
      <4>2. j \in 1..(i - 1)
        BY <1>1, <2>2, <4>1
      <4> QED BY <1>2, <1>9, <4>2 DEF Pending
    <3> QED BY <1>9, <2>2, <3>1, <3>2
  <2> QED BY <1>1, <1>9, <2>1, <2>2 DEF WalkedInOrder, Pending, Searchable
<1>14. FirstMatchWins'
  <2> SUFFICES ASSUME disk_changes = 0, NEW t \in Tokens, NEW j \in 1..n,
                      sources[j].id \in indexed', CertainlyHas(sources[j], t)
               PROVE  \E k \in 1..j : /\ sources[k].id \in indexed'
                                      /\ index'[t] # None
                                      /\ index'[t].path \in FilesOf(sources[k])
                                      /\ index'[t].glob = (sources[k].kind = "glob")
    BY <1>1, <1>9, SameDisk DEF FirstMatchWins, FilesOf
  <2>1. CASE sources[j].id \in indexed
    <3>1. PICK k \in 1..j : /\ sources[k].id \in indexed
                            /\ index[t] # None
                            /\ index[t].path \in FilesOf(sources[k])
                            /\ index[t].glob = (sources[k].kind = "glob")
      BY <1>1, <2>1 DEF RegInv, FirstMatchWins
    <3>2. index'[t] = index[t]
      BY <1>8, <3>1
    <3> QED BY <1>9, <3>1, <3>2
  <2>2. CASE sources[j].id \notin indexed
    <3>1. j = i
      BY <1>1, <1>9, <2>2 DEF RegInv, UniqueSourceIds
    <3>2. Hits(w, t) # {}
      BY <1>3, <3>1 DEF CertainlyHas
    <3>3. CASE index[t] = None
      <4>1. index'[t] # None /\ index'[t].path \in FilesOf(sources[i]) /\ index'[t].glob = g
        <5>1. index'[t] # index[t]
          <6> DEFINE h == [path |-> first(t), glob |-> g]
          <6>1. h \in Hit
            BY <1>5, <1>6, <3>2 DEF Hit, first
          <6> HIDE DEF h
          <6> QED BY <1>7, <3>2, <3>3, <6>1, HitAssumption DEF h
        <5> QED BY <1>8, <5>1
      <4>2. i \in 1..j
        BY <1>1, <3>1
      <4> QED BY <1>9, <4>1, <4>2 DEF g
    <3>4. CASE index[t] # None
      <4>1. PICK k \in 1..n : /\ sources[k].id \in indexed
                              /\ index[t].path \in FilesOf(sources[k])
                              /\ index[t].glob = (sources[k].kind = "glob")
        BY <1>1, <3>4 DEF RegInv, IndexFromLiveSources
      <4>2. ~(i < k)
        BY <1>1, <1>2, <4>1 DEF RegInv, WalkedInOrder
      <4>3. k \in 1..j
        BY <1>1, <3>1, <4>2
      <4>4. index'[t] = index[t]
        BY <1>8, <3>4
      <4> QED BY <1>9, <3>4, <4>1, <4>3, <4>4
    <3> QED BY <3>3, <3>4
  <2> QED BY <2>1, <2>2
<1>15. IndexTrue'
  <2> SUFFICES ASSUME disk_changes = 0, NEW t \in Tokens, index'[t] # None
               PROVE  t \in aliases_of(index'[t].path)
    BY <1>9 DEF IndexTrue, aliases_of
  <2> QED BY <1>8 DEF RegInv, IndexTrue
<1> QED BY <1>10, <1>11, <1>12, <1>13, <1>14, <1>15 DEF RegInv

-----------------------------------------------------------------------------
(* The theorems *)

(* RegInv holds in every reachable state of the registry. *)
THEOREM RegistryInvariant == RegSpec => []RegInv
<1>1. RegInit => RegInv
  BY RegInitInv
<1>2. ASSUME RegInv, [RegNext]_<<regVars, diskVars>> PROVE RegInv'
  <2>1. CASE AddAny /\ UNCHANGED diskVars
    BY <1>2, <2>1, AddInv DEF AddAny
  <2>2. ASSUME NEW id \in 0..MaxSources, drop_source(id), UNCHANGED diskVars PROVE RegInv'
    BY <1>2, <2>2, DropInv
  <2>3. CASE IndexSource /\ UNCHANGED diskVars
    BY <1>2, <2>3, IndexSourceInv
  <2>4. CASE restore(sources) /\ UNCHANGED diskVars
    BY <1>2, <2>4, RestoreInv DEF RegInv
  <2>5. CASE DiskChange /\ UNCHANGED regVars
    BY <1>2, <2>5, DiskChangeInv
  <2>6. CASE UNCHANGED <<regVars, diskVars>>
    BY <1>2, <2>6, RegStutterInv
  <2> QED BY <1>2, <2>1, <2>2, <2>3, <2>4, <2>5, <2>6 DEF RegNext
<1> QED BY <1>1, <1>2, PTL DEF RegSpec

(* Source ids stay unique and below the counter, through drops and         *)
(* restores.                                                               *)
THEOREM SourceIdsAreUnique == RegSpec => []UniqueSourceIds
<1>1. RegInv => UniqueSourceIds
  BY DEF RegInv
<1> QED BY <1>1, RegistryInvariant, PTL

(* Nothing is served from a dropped, disabled or remote source.            *)
THEOREM OnlyLiveSourcesServe == RegSpec => []IndexFromLiveSources
<1>1. RegInv => IndexFromLiveSources
  BY DEF RegInv
<1> QED BY <1>1, RegistryInvariant, PTL

(* On an unchanged disk the first source that has a file for a token       *)
(* serves it, whatever order the sources were added and walked in.         *)
THEOREM FirstMatchServes == RegSpec => []FirstMatchWins
<1>1. RegInv => FirstMatchWins
  BY DEF RegInv
<1> QED BY <1>1, RegistryInvariant, PTL

(* The registry keeps its types.                                           *)
THEOREM RegistryTypesAreKept == RegSpec => []RegTypeOK
<1>1. RegInv => RegTypeOK
  BY DEF RegInv
<1> QED BY <1>1, RegistryInvariant, PTL

(* Sources are walked in the order they were added, through drops, adds    *)
(* and restores between the lookups that walk them.                        *)
THEOREM SourcesAreWalkedInOrder == RegSpec => []WalkedInOrder
<1>1. RegInv => WalkedInOrder
  BY DEF RegInv
<1> QED BY <1>1, RegistryInvariant, PTL
=============================================================================
