-------------------------- MODULE SourceWalkProofs --------------------------
(***************************************************************************)
(* Proofs about the walk of a source, for every tree, unreadable           *)
(* directories among it, every pattern and every cap.  What a directory    *)
(* source still wants is always reached from what the walk has met and not *)
(* yet dealt with.  The words of a glob source, continued by what the rest *)
(* of its pattern means, are always what the pattern means; once it is     *)
(* expanded, what is still wanted is matched by the words that are left.   *)
(***************************************************************************)
EXTENDS SourceWalk, SequenceLemmas

Entered(u, D) == \A d \in (D \cap Dirs) \ u : Entries[d] \subseteq D

(* What is reached from the entries P without listing the directories u,   *)
(* as InTree says it of the root.                                          *)
Reached(u, P, e) == \A D \in SUBSET Places : Entered(u, D) /\ P \subseteq D => e \in D

(* What the walk has met and not dealt with.                               *)
Pending == listing \cup {stack[i] : i \in DOMAIN stack}

(* A walk never leaves the tree; as long as it counts below the cap, what  *)
(* is still wanted is reached from what is pending; a file is counted when *)
(* it is indexed, the root alone excepted.                                 *)
WalkInv ==
    /\ debug_files \subseteq Files /\ visited \in Nat
    /\ stack \in Seq(Places)
    /\ Root \notin Files => \A i \in DOMAIN stack : stack[i] \notin Files
    /\ IsFiniteSet(found) /\ found \subseteq debug_files
    /\ Root \notin Files => Cardinality(found) <= visited /\ Cardinality(found) <= max_files
    /\ walk_kind = "dir" =>
         /\ stage # "expand" /\ words = <<>>
         /\ Pending \subseteq Places
         /\ \A e \in Pending \cup found : Reached(unreadable, {Root}, e)
         /\ visited <= max_files =>
              \A e \in debug_files : Reached(unreadable, {Root}, e) => e \in found \/ Reached(unreadable, Pending, e)
         /\ stage = "done" /\ visited <= max_files => Pending = {}

LEMMA InTreeIsReached == \A e : InTree(e) <=> Reached(unreadable, {Root}, e)
  BY DEF InTree, Closed, Reached, Entered

(* A set of entries reached and one more, not a directory that is listed   *)
(* outside it.                                                             *)
LEMMA OneMore ==
    ASSUME NEW u, NEW P, NEW Q, NEW d \in Places, NEW e,
           P \subseteq Q \cup {d}, d \in Dirs \ u => Entries[d] \subseteq Q,
           Reached(u, P, e), e # d
    PROVE  Reached(u, Q, e)
<1> SUFFICES ASSUME NEW D \in SUBSET Places, Entered(u, D), Q \subseteq D PROVE e \in D
  BY DEF Reached
<1> DEFINE E == D \cup {d}
<1>1. E \in SUBSET Places /\ P \subseteq E
  OBVIOUS
<1>2. Entered(u, E)
  BY DEF Entered
<1>3. e \in E
  <2> HIDE DEF E
  <2> QED BY <1>1, <1>2 DEF Reached
<1> QED BY <1>3

LEMMA WalkConstants ==
    /\ Root \in Places /\ Dirs \cap Files = {} /\ max_files \in Nat
    /\ \A d \in Dirs : Entries[d] \subseteq Places
  BY WalkAssumption DEF Places

LEMMA WalkStarts == WalkInit => WalkInv
<1> SUFFICES ASSUME WalkInit PROVE WalkInv
  OBVIOUS
<1>1. stack = <<>> \/ (walk_kind = "dir" /\ stack = <<Root>>)
  BY DEF WalkInit
<1>2. /\ debug_files \subseteq Files /\ visited = 0 /\ found = {} /\ listing = {}
      /\ walk_kind = "dir" => stage = "walk" /\ words = <<>> /\ stack = <<Root>>
  BY DEF WalkInit
<1>3. IsFiniteSet(found) /\ Cardinality(found) = 0
  BY <1>2, FS_EmptySet
<1>4. stack \in Seq(Places) /\ \A i \in DOMAIN stack : stack[i] = Root
  <2>1. CASE stack = <<>>
    BY <2>1
  <2>2. CASE stack = <<Root>>
    BY <2>2, WalkConstants
  <2> QED BY <1>1, <2>1, <2>2
<1>5. walk_kind = "dir" => Pending = {Root}
  BY <1>2 DEF Pending
<1>6. Root \notin Files => \A i \in DOMAIN stack : stack[i] \notin Files
  BY <1>4
<1>7. Reached(unreadable, {Root}, Root)
  BY DEF Reached
<1>8. Root \notin Files => Cardinality(found) <= visited /\ Cardinality(found) <= max_files
  BY <1>2, <1>3, WalkConstants
<1>9. ASSUME walk_kind = "dir"
      PROVE  /\ stage # "expand" /\ words = <<>>
             /\ Pending \subseteq Places
             /\ \A e \in Pending \cup found : Reached(unreadable, {Root}, e)
             /\ \A e \in debug_files : Reached(unreadable, {Root}, e) => e \in found \/ Reached(unreadable, Pending, e)
             /\ stage # "done"
  BY <1>2, <1>5, <1>7, <1>9, WalkConstants
<1> QED BY <1>2, <1>3, <1>4, <1>6, <1>8, <1>9 DEF WalkInv

(* Expansion touches nothing of a tree.                                    *)
LEMMA WalkExpands ==
    ASSUME WalkInv, Literal \/ OpenGroup \/ GroupChar \/ CloseGroup \/ Expanded
    PROVE  WalkInv'
<1>1. /\ stage = "expand"
      /\ UNCHANGED <<disk_seen, stack, listing, visited, found>>
  BY DEF Literal, OpenGroup, GroupChar, CloseGroup, Expanded
<1>2. walk_kind # "dir" /\ walk_kind' = walk_kind
  BY <1>1 DEF WalkInv, disk_seen
<1> QED BY <1>1, <1>2 DEF WalkInv, disk_seen

LEMMA WalkMatches ==
    ASSUME WalkInv, NextWord
    PROVE  WalkInv'
<1>1. UNCHANGED <<walk_kind, debug_files, stack, visited, found>>
  BY DEF NextWord, disk_seen
<1>2. walk_kind # "dir"
  BY DEF WalkInv, NextWord
<1> QED BY <1>1, <1>2 DEF WalkInv

(* What is listed of a directory is reached from it, and what was reached  *)
(* through it is reached from its entries, or is the root itself.          *)
LEMMA WalkLists ==
    ASSUME WalkInv, NextDir
    PROVE  WalkInv'
<1> DEFINE d == Last(stack)
<1>1. /\ stage = "walk" /\ listing = {} /\ stack # <<>>
      /\ listing' = IF d \in Dirs \ unreadable THEN Entries[d] ELSE {}
      /\ found' = found \cup ({d} \cap debug_files)
      /\ stack' = Front(stack)
      /\ UNCHANGED <<walk_kind, debug_files, unreadable, words, visited, stage>>
  BY DEF NextDir, Index, disk_seen
<1>2. /\ debug_files \subseteq Files /\ visited \in Nat /\ stack \in Seq(Places)
      /\ Root \notin Files => \A i \in DOMAIN stack : stack[i] \notin Files
      /\ IsFiniteSet(found) /\ found \subseteq debug_files
      /\ Root \notin Files => Cardinality(found) <= visited /\ Cardinality(found) <= max_files
  BY DEF WalkInv
<1>3. /\ d = stack[Len(stack)] /\ Len(stack) \in DOMAIN stack /\ d \in Places
      /\ stack' \in Seq(Places) /\ Len(stack') = Len(stack) - 1
      /\ \A i \in DOMAIN stack' : i \in DOMAIN stack /\ stack'[i] = stack[i]
      /\ \A i \in DOMAIN stack : i \in DOMAIN stack' \/ i = Len(stack)
  BY <1>1, <1>2, FrontProps
<1> HIDE DEF d
<1>4. Root \notin Files => found' = found /\ \A i \in DOMAIN stack' : stack'[i] \notin Files
  BY <1>1, <1>2, <1>3
<1>5. IsFiniteSet(found') /\ found' \subseteq debug_files
  <2>1. IsFiniteSet({d} \cap debug_files)
    BY FS_Singleton, FS_Subset
  <2> QED BY <1>1, <1>2, <2>1, FS_Union
<1>6. ASSUME walk_kind = "dir"
      PROVE  /\ stage' # "expand" /\ words' = <<>>
             /\ Pending' \subseteq Places
             /\ \A e \in Pending' \cup found' : Reached(unreadable, {Root}, e)
             /\ visited' <= max_files =>
                  \A e \in debug_files : Reached(unreadable, {Root}, e) => e \in found' \/ Reached(unreadable, Pending', e)
             /\ stage' # "done"
  <2>1. /\ words = <<>> /\ Pending \subseteq Places
        /\ \A e \in Pending \cup found : Reached(unreadable, {Root}, e)
        /\ visited <= max_files =>
             \A e \in debug_files : Reached(unreadable, {Root}, e) => e \in found \/ Reached(unreadable, Pending, e)
    BY <1>6 DEF WalkInv
  <2>2. Pending' = listing' \cup {stack'[i] : i \in DOMAIN stack'}
    BY DEF Pending
  <2>3. d \in Pending /\ {stack'[i] : i \in DOMAIN stack'} \subseteq Pending
    BY <1>3 DEF Pending
  <2>4. d \in Dirs \ unreadable => listing' = Entries[d] /\ Entries[d] \subseteq Places
    BY <1>1, WalkConstants
  <2>5. d \notin Dirs \ unreadable => listing' = {}
    BY <1>1
  <2>6. \A e \in Pending' : e \in Pending \/ (d \in Dirs \ unreadable /\ e \in Entries[d])
    BY <2>2, <2>3, <2>4, <2>5
  <2>7. Pending' \subseteq Places
    BY <2>1, <2>4, <2>6
  <2>8. ASSUME NEW e \in Pending' \cup found' PROVE Reached(unreadable, {Root}, e)
    <3>1. Reached(unreadable, {Root}, d)
      BY <2>1, <2>3
    <3>2. CASE e \in Pending \cup found \/ e = d
      BY <2>1, <3>1, <3>2
    <3>3. CASE d \in Dirs \ unreadable /\ e \in Entries[d]
      BY <3>1, <3>3 DEF Reached, Entered
    <3> QED BY <1>1, <2>6, <3>2, <3>3
  <2>9. ASSUME visited' <= max_files, NEW e \in debug_files, Reached(unreadable, {Root}, e), e \notin found'
        PROVE  Reached(unreadable, Pending', e)
    <3>1. Reached(unreadable, Pending, e) /\ e # d
      BY <1>1, <2>1, <2>9
    <3>2. Pending \subseteq Pending' \cup {d}
      BY <1>1, <1>3, <2>2 DEF Pending
    <3>3. d \in Dirs \ unreadable => Entries[d] \subseteq Pending'
      BY <2>2, <2>4
    <3> QED BY <1>3, <3>1, <3>2, <3>3, OneMore
  <2> QED BY <1>1, <2>1, <2>7, <2>8, <2>9
<1>7. Root \notin Files => Cardinality(found') <= visited' /\ Cardinality(found') <= max_files
  BY <1>1, <1>2, <1>4
<1> QED BY <1>1, <1>2, <1>3, <1>4, <1>5, <1>6, <1>7 DEF WalkInv

(* A directory waits to be listed; nothing wanted is reached through what  *)
(* is neither a directory nor a file.                                      *)
LEMMA WalkSkips ==
    ASSUME WalkInv, NEW e \in listing, MeetOther(e)
    PROVE  WalkInv'
<1>1. /\ stage = "walk" /\ e \in listing /\ e \notin Files /\ listing' = listing \ {e}
      /\ stack' = IF walk_kind = "dir" /\ e \in Dirs THEN Append(stack, e) ELSE stack
      /\ UNCHANGED <<walk_kind, debug_files, unreadable, words, visited, found, stage>>
  BY DEF MeetOther, disk_seen
<1>2. /\ debug_files \subseteq Files /\ visited \in Nat /\ stack \in Seq(Places)
      /\ Root \notin Files => \A i \in DOMAIN stack : stack[i] \notin Files
      /\ IsFiniteSet(found) /\ found \subseteq debug_files
      /\ Root \notin Files => Cardinality(found) <= visited /\ Cardinality(found) <= max_files
  BY DEF WalkInv
<1>3. /\ stack' \in Seq(Places)
      /\ {stack'[i] : i \in DOMAIN stack'} =
           {stack[i] : i \in DOMAIN stack} \cup (IF walk_kind = "dir" /\ e \in Dirs THEN {e} ELSE {})
  <2>1. CASE walk_kind = "dir" /\ e \in Dirs
    <3>1. e \in Places /\ stack' = Append(stack, e)
      BY <1>1, <2>1 DEF Places
    <3>2. /\ stack' \in Seq(Places) /\ DOMAIN stack' = 1..Len(stack) + 1 /\ DOMAIN stack = 1..Len(stack)
          /\ Len(stack) \in Nat /\ stack'[Len(stack) + 1] = e
          /\ \A i \in 1..Len(stack) : stack'[i] = stack[i]
      BY <1>2, <3>1
    <3> QED BY <2>1, <3>2
  <2>2. CASE ~(walk_kind = "dir" /\ e \in Dirs)
    BY <1>1, <1>2, <2>2
  <2> QED BY <2>1, <2>2
<1>4. Root \notin Files => \A i \in DOMAIN stack' : stack'[i] \notin Files
  <2> SUFFICES ASSUME Root \notin Files, NEW i \in DOMAIN stack' PROVE stack'[i] \notin Files
    OBVIOUS
  <2>1. stack'[i] \in {stack'[k] : k \in DOMAIN stack'}
    OBVIOUS
  <2>2. stack'[i] = e \/ \E k \in DOMAIN stack : stack'[i] = stack[k]
    BY <1>3, <2>1
  <2> QED BY <1>1, <1>2, <2>2
<1>5. ASSUME walk_kind = "dir"
      PROVE  /\ stage' # "expand" /\ words' = <<>>
             /\ Pending' \subseteq Places
             /\ \A x \in Pending' \cup found' : Reached(unreadable', {Root}, x)
             /\ visited' <= max_files =>
                  \A x \in debug_files : Reached(unreadable', {Root}, x) => x \in found' \/ Reached(unreadable', Pending', x)
             /\ stage' # "done"
  <2>1. /\ words = <<>> /\ Pending \subseteq Places
        /\ \A x \in Pending \cup found : Reached(unreadable, {Root}, x)
        /\ visited <= max_files =>
             \A x \in debug_files : Reached(unreadable, {Root}, x) => x \in found \/ Reached(unreadable, Pending, x)
    BY <1>5 DEF WalkInv
  <2>2. Pending' = listing' \cup {stack'[i] : i \in DOMAIN stack'}
    BY DEF Pending
  <2>3. Pending' \subseteq Pending /\ Pending \subseteq Pending' \cup {e} /\ e \in Pending
    BY <1>1, <1>3, <2>2 DEF Pending
  <2>4. ASSUME NEW x \in debug_files, Reached(unreadable, Pending, x)
        PROVE  Reached(unreadable, Pending', x)
    <3>1. CASE e \in Dirs
      <4>1. Pending' = Pending
        BY <1>3, <1>5, <2>2, <2>3, <3>1
      <4> QED BY <2>4, <4>1
    <3>2. CASE e \notin Dirs
      <4>1. x # e /\ e \in Places
        BY <1>1, <1>2, <2>1, <2>3
      <4> QED BY <2>3, <2>4, <3>2, <4>1, OneMore
    <3> QED BY <3>1, <3>2
  <2> QED BY <1>1, <2>1, <2>3, <2>4
<1> QED BY <1>1, <1>2, <1>3, <1>4, <1>5 DEF WalkInv

(* A file is indexed when it is counted, unless it is the one too many.    *)
LEMMA WalkIndexes ==
    ASSUME WalkInv, NEW e \in listing, MeetFile(e)
    PROVE  WalkInv'
<1>1. /\ stage = "walk" /\ e \in listing /\ e \in Files /\ listing' = listing \ {e}
      /\ visited' = visited + 1
      /\ visited' > max_files => found' = found
      /\ ~(visited' > max_files) => found' = found \cup ({e} \cap debug_files) /\ stage' = stage
      /\ visited' > max_files => stage' = "done"
      /\ UNCHANGED <<walk_kind, debug_files, unreadable, words, stack>>
  BY DEF MeetFile, Index, disk_seen
<1>2. /\ debug_files \subseteq Files /\ visited \in Nat /\ stack \in Seq(Places)
      /\ Root \notin Files => \A i \in DOMAIN stack : stack[i] \notin Files
      /\ IsFiniteSet(found) /\ found \subseteq debug_files
      /\ Root \notin Files => Cardinality(found) <= visited /\ Cardinality(found) <= max_files
  BY DEF WalkInv
<1>3. visited' \in Nat /\ max_files \in Nat /\ (visited' > max_files \/ visited' <= max_files)
  BY <1>1, <1>2, WalkConstants
<1>4. found' = found \/ found' = found \cup {e}
  BY <1>1, <1>2, <1>3
<1>5. /\ IsFiniteSet(found') /\ found' \subseteq debug_files
      /\ Cardinality(found) \in Nat /\ Cardinality(found') <= Cardinality(found) + 1
  <2>1. /\ IsFiniteSet(found \cup {e})
        /\ Cardinality(found \cup {e}) = IF e \in found THEN Cardinality(found) ELSE Cardinality(found) + 1
    BY <1>2, FS_AddElement
  <2>2. Cardinality(found) \in Nat
    BY <1>2, FS_CardinalityType
  <2>3. found' \subseteq debug_files
    BY <1>1, <1>2, <1>3
  <2>4. Cardinality(found) <= Cardinality(found) + 1
        /\ Cardinality(found \cup {e}) <= Cardinality(found) + 1
    <3> PICK c \in Nat : c = Cardinality(found)
      BY <2>2
    <3> PICK k : k = Cardinality(found \cup {e})
      OBVIOUS
    <3>1. k = c \/ k = c + 1
      BY <2>1
    <3> QED BY <3>1
  <2>5. CASE found' = found
    BY <1>2, <2>2, <2>3, <2>4, <2>5
  <2>6. CASE found' = found \cup {e}
    BY <2>1, <2>2, <2>3, <2>4, <2>6
  <2> QED BY <1>4, <2>5, <2>6
<1>6. Root \notin Files => Cardinality(found') <= visited' /\ Cardinality(found') <= max_files
  <2> SUFFICES ASSUME Root \notin Files
               PROVE  Cardinality(found') <= visited' /\ Cardinality(found') <= max_files
    OBVIOUS
  <2>1. CASE visited' > max_files
    BY <1>1, <1>2, <1>3, <1>5, <2>1
  <2>2. CASE visited' <= max_files
    <3>1. Cardinality(found') \in Nat
      BY <1>5, FS_CardinalityType
    <3> QED BY <1>1, <1>2, <1>3, <1>5, <2>2, <3>1
  <2> QED BY <1>3, <2>1, <2>2
<1>7. ASSUME walk_kind = "dir"
      PROVE  /\ stage' # "expand" /\ words' = <<>>
             /\ Pending' \subseteq Places
             /\ \A x \in Pending' \cup found' : Reached(unreadable', {Root}, x)
             /\ visited' <= max_files =>
                  \A x \in debug_files : Reached(unreadable', {Root}, x) => x \in found' \/ Reached(unreadable', Pending', x)
             /\ visited' <= max_files => stage' # "done"
  <2>1. /\ words = <<>> /\ Pending \subseteq Places
        /\ \A x \in Pending \cup found : Reached(unreadable, {Root}, x)
        /\ visited <= max_files =>
             \A x \in debug_files : Reached(unreadable, {Root}, x) => x \in found \/ Reached(unreadable, Pending, x)
    BY <1>7 DEF WalkInv
  <2>2. Pending' = listing' \cup {stack[i] : i \in DOMAIN stack}
    BY <1>1 DEF Pending
  <2>3. Pending' \subseteq Pending /\ Pending \subseteq Pending' \cup {e} /\ e \in Pending
    BY <1>1, <2>2 DEF Pending
  <2>4. \A x \in found' : x \in found \/ x = e
    BY <1>4
  <2>5. ASSUME visited' <= max_files, NEW x \in debug_files,
               Reached(unreadable, {Root}, x), x \notin found'
        PROVE  Reached(unreadable, Pending', x)
    <3>1. x \notin found /\ x # e /\ visited <= max_files
      BY <1>1, <1>2, <1>3, <2>5
    <3>2. e \in Places /\ e \notin Dirs
      BY <1>1, <2>1, <2>3, WalkConstants
    <3> QED BY <2>1, <2>3, <2>5, <3>1, <3>2, OneMore
  <2>6. stage' # "expand" /\ (visited' <= max_files => stage' # "done")
    BY <1>1, <1>3
  <2> QED BY <1>1, <2>1, <2>3, <2>4, <2>5, <2>6
<1> QED BY <1>1, <1>2, <1>3, <1>5, <1>6, <1>7 DEF WalkInv

LEMMA WalkEnds ==
    ASSUME WalkInv, EndWalkOfSource
    PROVE  WalkInv'
<1>1. /\ stage = "walk" /\ stage' = "done" /\ listing = {} /\ stack = <<>>
      /\ UNCHANGED <<walk_kind, debug_files, unreadable, words, stack, listing, visited, found>>
  BY DEF EndWalkOfSource, disk_seen
<1>2. Pending' = Pending /\ Pending = {}
  BY <1>1 DEF Pending
<1> QED BY <1>1, <1>2 DEF WalkInv

LEMMA WalkInvariant == WalkSpec => []WalkInv
<1>1. WalkInv /\ [WalkNext]_walkVars => WalkInv'
  <2> SUFFICES ASSUME WalkInv, [WalkNext]_walkVars PROVE WalkInv'
    OBVIOUS
  <2>1. CASE Literal \/ OpenGroup \/ GroupChar \/ CloseGroup \/ Expanded
    BY <2>1, WalkExpands
  <2>2. CASE NextWord
    BY <2>2, WalkMatches
  <2>3. CASE NextDir
    BY <2>3, WalkLists
  <2>4. ASSUME NEW e \in listing, MeetOther(e) PROVE WalkInv'
    BY <2>4, WalkSkips
  <2>5. ASSUME NEW e \in listing, MeetFile(e) PROVE WalkInv'
    BY <2>5, WalkIndexes
  <2>6. CASE EndWalkOfSource
    BY <2>6, WalkEnds
  <2>7. CASE UNCHANGED walkVars
    <3>1. UNCHANGED <<walk_kind, debug_files, unreadable, words, stack, listing, visited, found, stage>>
      BY <2>7 DEF walkVars, disk_seen
    <3>2. Pending' = Pending
      BY <3>1 DEF Pending
    <3> QED BY <3>1, <3>2 DEF WalkInv
  <2>8. Walked => UNCHANGED walkVars
    BY DEF Walked
  <2> QED BY <2>1, <2>2, <2>3, <2>4, <2>5, <2>6, <2>7, <2>8 DEF WalkNext
<1> QED BY <1>1, WalkStarts, PTL DEF WalkSpec

-----------------------------------------------------------------------------
(* What a pattern is made of *)

(* A list written down by its places. *)
LEMMA Listed == ASSUME NEW D, NEW n \in Nat, NEW f \in [1..n -> D] PROVE f \in Seq(D) /\ Len(f) = n
  OBVIOUS

Cat(w, x) == w \o x

(* Joins without the operators of sequences. *)
LEMMA JoinsAre == \A W, X, z : z \in Joins(W, X) <=> \E w \in W, x \in X : z = Cat(w, x)
  BY DEF Joins, Cat

(* Joining is associative, and has the empty sequence for its unit.        *)
LEMMA JoinsTwice ==
    ASSUME NEW C, NEW W, NEW A, NEW X,
           W \in SUBSET Seq(C), A \in SUBSET Seq(C), X \in SUBSET Seq(C)
    PROVE  Joins(Joins(W, A), X) = Joins(W, Joins(A, X))
<1>1. \A w \in W, a \in A, x \in X : Cat(Cat(w, a), x) = Cat(w, Cat(a, x))
  <2> SUFFICES ASSUME NEW w \in W, NEW a \in A, NEW x \in X PROVE (w \o a) \o x = w \o (a \o x)
    BY DEF Cat
  <2>1. w \in Seq(C) /\ a \in Seq(C) /\ x \in Seq(C)
    OBVIOUS
  <2> QED BY ONLY <2>1, ConcatAssociative
<1>2. ASSUME NEW z \in Joins(Joins(W, A), X) PROVE z \in Joins(W, Joins(A, X))
  <2>1. PICK v \in Joins(W, A), x \in X : z = Cat(v, x)
    BY ONLY JoinsAre
  <2>2. PICK w \in W, a \in A : v = Cat(w, a)
    BY ONLY <2>1, JoinsAre
  <2>3. Cat(a, x) \in Joins(A, X) /\ z = Cat(w, Cat(a, x))
    BY ONLY <1>1, <2>1, <2>2, JoinsAre
  <2> QED BY ONLY <2>3, JoinsAre
<1>3. ASSUME NEW z \in Joins(W, Joins(A, X)) PROVE z \in Joins(Joins(W, A), X)
  <2>1. PICK w \in W, v \in Joins(A, X) : z = Cat(w, v)
    BY ONLY JoinsAre
  <2>2. PICK a \in A, x \in X : v = Cat(a, x)
    BY ONLY <2>1, JoinsAre
  <2>3. Cat(w, a) \in Joins(W, A) /\ z = Cat(Cat(w, a), x)
    BY ONLY <1>1, <2>1, <2>2, JoinsAre
  <2> QED BY ONLY <2>3, JoinsAre
<1> QED BY ONLY <1>2, <1>3

LEMMA JoinsEmpty ==
    ASSUME NEW C, NEW W, W \in SUBSET Seq(C), NEW E, E = {<<>>}
    PROVE  Joins(E, W) = W /\ Joins(W, E) = W
<1> PICK e : e = <<>>
  OBVIOUS
<1>1. \A w \in W : Cat(e, w) = w /\ Cat(w, e) = w
  <2> SUFFICES ASSUME NEW w \in W PROVE <<>> \o w = w /\ w \o <<>> = w
    BY DEF Cat
  <2>1. w \in Seq(C)
    OBVIOUS
  <2> QED BY ONLY <2>1, ConcatEmptySeq
<1>2. E = {e}
  OBVIOUS
<1>3. (\A z : z \in Joins(E, W) <=> z \in W) /\ \A z : z \in Joins(W, E) <=> z \in W
  BY ONLY <1>1, <1>2, JoinsAre
<1> QED BY ONLY <1>3

(* Joined sequences are sequences.                                         *)
LEMMA JoinsSeqs ==
    ASSUME NEW C, NEW W, NEW X, W \in SUBSET Seq(C), X \in SUBSET Seq(C)
    PROVE  Joins(W, X) \in SUBSET Seq(C)
<1>1. \A w \in W, x \in X : Cat(w, x) \in Seq(C)
  BY DEF Cat
<1> QED BY ONLY <1>1, JoinsAre

(* Each word is continued by each alternative. *)
LEMMA Continued ==
    ASSUME NEW C, NEW ws \in Seq(Seq(C)), NEW alts \in Seq(Seq(C)), Len(alts) # 0
    PROVE  /\ Continue(ws, alts) \in Seq(Seq(C))
           /\ Range(Continue(ws, alts)) = Joins(Range(ws), Range(alts))
<1> PICK m \in Nat : m = Len(ws)
  OBVIOUS
<1> PICK n \in Nat \ {0} : n = Len(alts)
  OBVIOUS
<1>0. /\ \A x \in 0..(m * n - 1) : x \div n \in 0..(m - 1) /\ x % n \in 0..(n - 1)
      /\ \A i \in 0..(m - 1), j \in 0..(n - 1) :
           i * n + j \in 0..(m * n - 1) /\ (i * n + j) \div n = i /\ (i * n + j) % n = j
  BY ONLY m \in Nat, n \in Nat \ {0}, RowAndCell
<1> PICK l \in Nat : l = m * n
  OBVIOUS
<1> PICK c : c = Continue(ws, alts)
  OBVIOUS
<1>1. c = [k \in 1..l |-> ws[(k - 1) \div n + 1] \o alts[((k - 1) % n) + 1]]
  BY DEF Continue
<1>2. /\ \A i \in 1..m : ws[i] \in Seq(C)
      /\ \A j \in 1..n : alts[j] \in Seq(C)
      /\ Range(ws) = {ws[i] : i \in 1..m} /\ Range(alts) = {alts[j] : j \in 1..n}
  <2>1. DOMAIN ws = 1..m /\ DOMAIN alts = 1..n
    OBVIOUS
  <2>2. Range(ws) = {ws[i] : i \in 1..m} /\ Range(alts) = {alts[j] : j \in 1..n}
    BY <2>1, Zenon DEF Range
  <2>3. (\A i \in 1..m : ws[i] \in Seq(C)) /\ (\A j \in 1..n : alts[j] \in Seq(C))
    OBVIOUS
  <2> QED BY <2>2, <2>3
<1>3. ASSUME NEW k \in 1..l
      PROVE  \E i \in 1..m, j \in 1..n : c[k] = ws[i] \o alts[j]
  <2> PICK x \in 0..(m * n - 1) : x = k - 1
    OBVIOUS
  <2>1. x \div n \in 0..(m - 1) /\ x % n \in 0..(n - 1)
    BY <1>0
  <2> PICK q \in 0..(m - 1) : q = x \div n
    BY <2>1
  <2> PICK r \in 0..(n - 1) : r = x % n
    BY <2>1
  <2>2. c[k] = ws[q + 1] \o alts[r + 1]
    BY <1>1
  <2>3. q + 1 \in 1..m /\ r + 1 \in 1..n
    OBVIOUS
  <2> QED BY <2>2, <2>3
<1>4. ASSUME NEW i \in 1..m, NEW j \in 1..n
      PROVE  \E k \in 1..l : c[k] = ws[i] \o alts[j]
  <2> PICK a \in 0..(m - 1) : a = i - 1
    OBVIOUS
  <2> PICK b \in 0..(n - 1) : b = j - 1
    OBVIOUS
  <2> PICK x : x = a * n + b
    OBVIOUS
  <2>1. x \in 0..(m * n - 1) /\ x \div n = a /\ x % n = b
    BY <1>0
  <2> PICK k \in 1..l : k = x + 1
    BY <2>1
  <2>2. k - 1 = x /\ a + 1 = i /\ b + 1 = j
    BY <2>1
  <2>3. c[k] = ws[(k - 1) \div n + 1] \o alts[((k - 1) % n) + 1]
    BY <1>1
  <2> QED BY <2>1, <2>2, <2>3
<1>5. DOMAIN c = 1..l /\ \A k \in 1..l : c[k] \in Seq(C)
  <2>1. DOMAIN c = 1..l
    BY <1>1
  <2>2. ASSUME NEW k \in 1..l PROVE c[k] \in Seq(C)
    <3> PICK i \in 1..m, j \in 1..n : c[k] = ws[i] \o alts[j]
      BY <1>3
    <3> PICK s \in Seq(C) : s = ws[i]
      BY <1>2
    <3> PICK t \in Seq(C) : t = alts[j]
      BY <1>2
    <3>1. s \o t \in Seq(C)
      BY ONLY s \in Seq(C), t \in Seq(C), JoinProps
    <3> QED BY <3>1
  <2> QED BY <2>1, <2>2
<1>6. c \in Seq(Seq(C))
  <2>1. c = [k \in 1..l |-> c[k]]
    BY <1>1
  <2>2. c \in [1..l -> Seq(C)]
    BY <1>5, <2>1
  <2> QED BY ONLY <2>2, l \in Nat, Listed
<1>7. Range(c) = Joins(Range(ws), Range(alts))
  <2> PICK W, A : W = Range(ws) /\ A = Range(alts)
    OBVIOUS
  <2>1. \A z : z \in Range(c) <=> \E k \in 1..l : z = c[k]
    BY <1>5 DEF Range
  <2>2. /\ \A w : w \in W <=> \E i \in 1..m : w = ws[i]
        /\ \A a : a \in A <=> \E j \in 1..n : a = alts[j]
    BY <1>2
  <2>3. /\ \A k \in 1..l : \E i \in 1..m, j \in 1..n : c[k] = Cat(ws[i], alts[j])
        /\ \A i \in 1..m, j \in 1..n : \E k \in 1..l : c[k] = Cat(ws[i], alts[j])
    BY <1>3, <1>4 DEF Cat
  <2>4. ASSUME NEW z \in Range(c) PROVE z \in Joins(W, A)
    <3>1. PICK k \in 1..l : z = c[k]
      BY <2>1
    <3>2. PICK i \in 1..m, j \in 1..n : c[k] = Cat(ws[i], alts[j])
      BY <2>3
    <3>3. ws[i] \in W /\ alts[j] \in A
      BY <2>2
    <3> QED BY ONLY <3>1, <3>2, <3>3, JoinsAre
  <2>5. ASSUME NEW z \in Joins(W, A) PROVE z \in Range(c)
    <3>1. PICK w \in W, a \in A : z = Cat(w, a)
      BY ONLY JoinsAre
    <3>2. PICK i \in 1..m, j \in 1..n : w = ws[i] /\ a = alts[j]
      BY <2>2
    <3>3. PICK k \in 1..l : c[k] = Cat(ws[i], alts[j])
      BY <2>3
    <3> QED BY <2>1, <3>1, <3>2, <3>3
  <2> QED BY <2>4, <2>5
<1> QED BY <1>6, <1>7

(* The parts split makes of a text are the alternatives in it. *)
LEMMA Splits ==
    ASSUME NEW C, NEW text \in Seq(C)
    PROVE  /\ Split(text) \in Seq(Seq(C)) /\ Len(Split(text)) # 0
           /\ Range(Split(text)) = Alternatives(text)
<1> DEFINE S0 == {i \in DOMAIN text : text[i] = Comma}
           T0 == S0 \cup {Len(text) + 1}
           n0 == Cardinality(T0)
           e0 == CHOOSE f \in [1..n0 -> T0] : \A i, j \in 1..n0 : i < j => f[i] < f[j]
           cut(a, b) == SubSeq(text, a + 1, b - 1)
           gap(a, b) == a < b /\ \A i \in (a + 1)..(b - 1) : text[i] # Comma
           part(k) == SubSeq(text, IF k = 1 THEN 1 ELSE e0[k - 1] + 1, e0[k] - 1)
           D == {d \in ({0} \cup S0) \X T0 :
                   d[1] < d[2] /\ \A k \in d[1] + 1..d[2] - 1 : text[k] # Comma}
<1>1. Split(text) = [k \in 1..n0 |-> part(k)]
  BY DEF Split
<1>2. Alternatives(text) = {SubSeq(text, c[1] + 1, c[2] - 1) : c \in D}
  BY DEF Alternatives
<1>3. /\ \A x \in S0 : x \in 1..Len(text)
      /\ \A i \in 1..Len(text) : i \notin S0 <=> text[i] # Comma
      /\ Len(text) \in Nat /\ T0 \in SUBSET Nat /\ IsFiniteSet(T0)
  <2>1. Len(text) \in Nat /\ DOMAIN text = 1..Len(text)
    OBVIOUS
  <2>2. \A x \in S0 : x \in 1..Len(text)
    BY <2>1
  <2>3. \A i \in 1..Len(text) : i \notin S0 <=> text[i] # Comma
    BY <2>1
  <2> HIDE DEF S0
  <2>4. \A x \in T0 : x \in 1..(Len(text) + 1)
    BY <2>1, <2>2
  <2>5. T0 \in SUBSET (1..(Len(text) + 1)) /\ T0 \in SUBSET Nat
    BY <2>1, <2>4
  <2>6. IsFiniteSet(1..(Len(text) + 1))
    BY <2>1, FS_Interval
  <2> HIDE DEF T0
  <2>7. IsFiniteSet(T0)
    BY ONLY <2>5, <2>6, FS_Subset
  <2> QED BY <2>1, <2>2, <2>3, <2>5, <2>7
<1>4. Ascends(T0, e0)
  <2> DEFINE Good(f) == \A i, j \in 1..n0 : i < j => f[i] < f[j]
  <2>1. \E f : Ascends(T0, f)
    <3> HIDE DEF T0
    <3> QED BY <1>3, Ascending
  <2>2. \A f : Ascends(T0, f) <=> f \in [1..n0 -> T0] /\ Good(f)
    <3> HIDE DEF T0
    <3> QED BY DEF Ascends
  <2>3. e0 = CHOOSE f \in [1..n0 -> T0] : Good(f)
    OBVIOUS
  <2> HIDE DEF Good, n0, T0, e0
  <2> QED BY <2>1, <2>2, <2>3
<1>5. \A c \in D : c[1] \in {0} \cup S0 /\ c[2] \in T0 /\ gap(c[1], c[2])
  <2> HIDE DEF S0, T0
  <2> QED OBVIOUS
<1>6. ASSUME NEW a \in {0} \cup S0, NEW b \in T0, gap(a, b)
      PROVE  <<a, b>> \in D
  <2> HIDE DEF S0, T0
  <2> QED BY <1>6
<1>7. \A k \in 1..n0 : part(k) = cut(Before(e0, k), e0[k])
  <2> HIDE DEF n0, e0
  <2>1. \A k : (IF k = 1 THEN 1 ELSE e0[k - 1] + 1) = Before(e0, k) + 1
    BY DEF Before
  <2> QED BY <2>1, Zenon
<1> HIDE DEF part
<1>8. T0 = S0 \cup {Len(text) + 1}
  OBVIOUS
<1>9. n0 = Cardinality(T0)
  OBVIOUS
<1> HIDE DEF e0, n0, T0, S0, D
<1>10. Parted(S0, T0, n0, e0)
  BY <1>3, <1>4, <1>8, <1>9, Neighbours
<1>11. \A a \in {0} \cup S0, b \in T0 :
        /\ a \in 0..Len(text) /\ b \in 1..(Len(text) + 1)
        /\ (\A i \in (a + 1)..(b - 1) : i \notin S0) <=> \A i \in (a + 1)..(b - 1) : text[i] # Comma
  <2> SUFFICES ASSUME NEW a \in {0} \cup S0, NEW b \in T0
               PROVE  /\ a \in 0..Len(text) /\ b \in 1..(Len(text) + 1)
                      /\ \A i \in (a + 1)..(b - 1) : i \in 1..Len(text)
    BY <1>3
  <2>1. a \in 0..Len(text) /\ b \in 1..(Len(text) + 1)
    BY <1>3, <1>8
  <2> QED BY <1>3, <2>1
<1>12. \A k \in 1..n0 : gap(Before(e0, k), e0[k])
  BY <1>10, <1>11 DEF Parted
<1>13. \A a \in {0} \cup S0, b \in T0 : gap(a, b) => \E k \in 1..n0 : e0[k] = b /\ Before(e0, k) = a
  <2> SUFFICES ASSUME NEW a \in {0} \cup S0, NEW b \in T0, gap(a, b)
               PROVE  \E k \in 1..n0 : e0[k] = b /\ Before(e0, k) = a
    OBVIOUS
  <2>1. a < b /\ \A i \in (a + 1)..(b - 1) : i \notin S0
    BY <1>11
  <2>2. \E k \in 1..n0 : e0[k] = b /\ a = Before(e0, k)
    BY <1>10, <2>1 DEF Parted
  <2> QED BY <2>2
<1> HIDE DEF gap
<1>14. \A z : z \in Alternatives(text) <=> \E k \in 1..n0 : z = cut(Before(e0, k), e0[k])
  <2>1. \A z : z \in Alternatives(text) <=> \E c \in D : z = cut(c[1], c[2])
    BY <1>2
  <2> HIDE DEF cut
  <2>2. \A z : z \in Alternatives(text) => \E k \in 1..n0 : z = cut(Before(e0, k), e0[k])
    <3> SUFFICES ASSUME NEW z \in Alternatives(text)
                 PROVE  \E k \in 1..n0 : z = cut(Before(e0, k), e0[k])
      OBVIOUS
    <3>1. PICK c \in D : z = cut(c[1], c[2])
      BY <2>1
    <3>2. PICK k \in 1..n0 : e0[k] = c[2] /\ Before(e0, k) = c[1]
      BY <1>5, <1>13
    <3> QED BY <3>1, <3>2
  <2>3. ASSUME NEW k \in 1..n0 PROVE cut(Before(e0, k), e0[k]) \in Alternatives(text)
    <3> PICK c : c = <<Before(e0, k), e0[k]>>
      OBVIOUS
    <3>1. c \in D
      BY <1>6, <1>10, <1>12 DEF Parted
    <3>2. c[1] = Before(e0, k) /\ c[2] = e0[k]
      OBVIOUS
    <3> QED BY <2>1, <3>1, <3>2
  <2> QED BY <2>2, <2>3
<1>15. \A a \in {0} \cup S0, b \in T0 : cut(a, b) \in Seq(C)
  <2> SUFFICES ASSUME NEW a \in 0..Len(text), NEW b \in 1..(Len(text) + 1)
               PROVE SubSeq(text, a + 1, b - 1) \in Seq(C)
    BY <1>11
  <2> QED OBVIOUS
<1> HIDE DEF cut
<1> PICK q : q = Split(text)
  OBVIOUS
<1>16. /\ q \in [1..n0 -> Seq(C)] /\ \A k \in 1..n0 : q[k] = cut(Before(e0, k), e0[k])
  <2>1. \A k \in 1..n0 : part(k) \in Seq(C)
    <3> SUFFICES ASSUME NEW k \in 1..n0 PROVE part(k) \in Seq(C)
      OBVIOUS
    <3>1. Before(e0, k) \in {0} \cup S0 /\ e0[k] \in T0
      BY <1>10 DEF Parted
    <3>2. cut(Before(e0, k), e0[k]) \in Seq(C)
      BY <1>15, <3>1
    <3> QED BY <1>7, <3>2
  <2>2. \A k \in 1..n0 : q[k] = part(k)
    BY <1>1
  <2>3. q = [k \in 1..n0 |-> part(k)]
    BY <1>1
  <2>4. q \in [1..n0 -> Seq(C)]
    BY ONLY <2>1, <2>3
  <2> QED BY <1>7, <2>2, <2>4
<1>17. q \in Seq(Seq(C)) /\ Len(q) = n0 /\ DOMAIN q = 1..n0
  <2>1. n0 \in Nat
    BY <1>10 DEF Parted
  <2>2. q \in [1..n0 -> Seq(C)]
    BY <1>16
  <2>3. q \in Seq(Seq(C)) /\ Len(q) = n0
    BY ONLY <2>1, <2>2, Listed
  <2> QED BY <2>2, <2>3
<1>18. Range(q) = Alternatives(text)
  <2>1. Range(q) = {q[k] : k \in 1..n0}
    BY <1>17, Zenon DEF Range
  <2>2. \A z : z \in Range(q) <=> z \in Alternatives(text)
    BY <1>14, <1>16, <2>1
  <2> QED BY <2>2
<1>19. n0 # 0
  BY <1>10 DEF Parted
<1> QED BY <1>17, <1>18, <1>19

-----------------------------------------------------------------------------
(* What a pattern means *)

(* The braces are two characters. *)
LEMMA Apart == OpenBrace # CloseBrace
  BY Zenon DEF OpenBrace, CloseBrace

(* The end of the group a pattern opens with, and what is behind it.       *)
EndOf(p) == Min({k \in DOMAIN p : p[k] = CloseBrace} \cup {Len(p) + 1})
Behind(p) == SubSeq(p, EndOf(p) + 1, Len(p))

(* The meaning of a pattern, from that of what is behind its first         *)
(* character and of what is behind its first group.                        *)
Means(p, char, behind) ==
    IF Head(p) # OpenBrace THEN Joins({<<Head(p)>>}, char)
    ELSE Joins(Alternatives(SubSeq(p, 2, EndOf(p) - 1)), behind)

MeaningStep(F, p) == IF p = <<>> THEN {<<>>} ELSE Means(p, F[Tail(p)], F[Behind(p)])

(* Patterns of up to k characters. *)
UpTo(k) == UNION {[1..n -> Chars] : n \in 0..k}

LEMMA UpToIs ==
    ASSUME NEW k \in Nat
    PROVE  \A p : p \in UpTo(k) <=> p \in Seq(Chars) /\ Len(p) <= k
<1>1. ASSUME NEW p \in UpTo(k) PROVE p \in Seq(Chars) /\ Len(p) <= k
  <2> PICK n \in 0..k : p \in [1..n -> Chars]
    BY DEF UpTo
  <2> QED BY Listed
<1>2. ASSUME NEW p \in Seq(Chars), Len(p) <= k PROVE p \in UpTo(k)
  <2>1. Len(p) \in 0..k /\ p \in [1..Len(p) -> Chars]
    BY <1>2
  <2> QED BY <2>1 DEF UpTo
<1> QED BY <1>1, <1>2

(* A group ends at its first closing brace, or with the pattern.           *)
LEMMA EndProps ==
    ASSUME NEW p \in Seq(Chars)
    PROVE  /\ EndOf(p) \in 1..(Len(p) + 1)
           /\ EndOf(p) = Len(p) + 1 \/ p[EndOf(p)] = CloseBrace
           /\ \A k \in 1..(EndOf(p) - 1) : p[k] # CloseBrace
<1> DEFINE S == {k \in DOMAIN p : p[k] = CloseBrace} \cup {Len(p) + 1}
<1>1. DOMAIN p = 1..Len(p) /\ Len(p) \in Nat
  OBVIOUS
<1>2. /\ S \in SUBSET Nat /\ S # {}
      /\ \A k \in S : k \in 1..(Len(p) + 1) /\ (k = Len(p) + 1 \/ p[k] = CloseBrace)
      /\ \A k \in 1..Len(p) : p[k] = CloseBrace => k \in S
  BY <1>1
<1>3. EndOf(p) = Min(S)
  BY DEF EndOf
<1> HIDE DEF S
<1>4. Min(S) \in S /\ \A k \in S : Min(S) <= k
  BY <1>2, MinProps
<1> PICK e : e = Min(S)
  OBVIOUS
<1>5. e \in 1..(Len(p) + 1) /\ (e = Len(p) + 1 \/ p[e] = CloseBrace)
  BY <1>2, <1>4
<1>6. \A k \in 1..(e - 1) : p[k] # CloseBrace
  <2> SUFFICES ASSUME NEW k \in 1..(e - 1), p[k] = CloseBrace PROVE FALSE
    OBVIOUS
  <2>1. k \in 1..Len(p) /\ k < e
    BY <1>1, <1>5
  <2> QED BY <1>2, <1>4, <1>5, <2>1
<1> QED BY <1>3, <1>5, <1>6

(* What is behind the first character or group of a pattern is shorter.    *)
LEMMA Shorter ==
    ASSUME NEW p \in Seq(Chars), p # <<>>
    PROVE  /\ Head(p) \in Chars
           /\ Tail(p) \in Seq(Chars) /\ Len(Tail(p)) < Len(p)
           /\ SubSeq(p, 2, EndOf(p) - 1) \in Seq(Chars)
           /\ Behind(p) \in Seq(Chars)
           /\ Len(Behind(p)) < Len(p)
<1> PICK e \in 1..(Len(p) + 1) : e = EndOf(p)
  BY EndProps
<1>1. Len(p) \in Nat \ {0}
  OBVIOUS
<1>2. SubSeq(p, 2, e - 1) \in Seq(Chars)
  BY <1>1
<1>3. SubSeq(p, e + 1, Len(p)) \in Seq(Chars) /\ Len(SubSeq(p, e + 1, Len(p))) < Len(p)
  BY <1>1
<1> QED BY <1>1, <1>2, <1>3 DEF Behind

(* One step of the meaning looks at shorter patterns alone. *)
LEMMA StepLocal ==
    ASSUME NEW p \in Seq(Chars), NEW F, NEW G,
           \A q \in Seq(Chars) : Len(q) < Len(p) => F[q] = G[q]
    PROVE  MeaningStep(F, p) = MeaningStep(G, p)
<1>1. CASE p = <<>>
  BY <1>1 DEF MeaningStep
<1>2. CASE p # <<>>
  <2>1. F[Tail(p)] = G[Tail(p)] /\ F[Behind(p)] = G[Behind(p)]
    BY <1>2, Shorter
  <2> QED BY <1>2, <2>1, Zenon DEF MeaningStep
<1> QED BY <1>1, <1>2

(* The recursion has a solution. *)
LEMMA MeaningExists == \E F : F = [p \in Patterns |-> MeaningStep(F, p)]
<1> DEFINE Good(k) == \E F : F = [p \in UpTo(k) |-> MeaningStep(F, p)]
           Bad == {k \in 0..MaxPattern : ~Good(k)}
<1>0. MaxPattern \in Nat
  BY WalkAssumption
<1>1. SUFFICES ASSUME Bad # {} PROVE FALSE
  <2>1. MaxPattern \in 0..MaxPattern
    BY <1>0
  <2>2. Good(MaxPattern)
    BY <2>1
  <2> QED BY <2>2 DEF Patterns, UpTo
<1>2. Min(Bad) \in Bad /\ \A i \in Bad : Min(Bad) <= i
  <2>1. Bad \in SUBSET Nat
    OBVIOUS
  <2> HIDE DEF Bad
  <2> QED BY <1>1, <2>1, MinProps
<1>3. PICK k \in 0..MaxPattern : k = Min(Bad) /\ ~Good(k)
  BY <1>2
<1>4. k # 0
  <2> PICK F : F = [p \in UpTo(0) |-> {<<>>}]
    OBVIOUS
  <2>1. \A p \in UpTo(0) : MeaningStep(F, p) = {<<>>}
    <3>1. \A p \in UpTo(0) : p \in Seq(Chars) /\ Len(p) <= 0
      BY UpToIs
    <3> QED BY <3>1 DEF MeaningStep
  <2>2. F = [p \in UpTo(0) |-> MeaningStep(F, p)]
    BY <2>1
  <2>3. Good(0)
    BY <2>2
  <2> HIDE DEF Good
  <2> QED BY <1>3, <2>3
<1>5. Good(k - 1)
  <2>1. k - 1 \in 0..MaxPattern /\ k - 1 \notin Bad
    <3> HIDE DEF Bad
    <3> QED BY <1>0, <1>2, <1>3, <1>4
  <2> HIDE DEF Good
  <2> QED BY <2>1
<1>6. PICK F : F = [p \in UpTo(k - 1) |-> MeaningStep(F, p)]
  BY <1>5
<1>7. /\ \A p \in UpTo(k) : p \in Seq(Chars) /\ Len(p) <= k
      /\ \A p \in Seq(Chars) : Len(p) < k => p \in UpTo(k) /\ p \in UpTo(k - 1)
  <2>1. k \in Nat /\ k - 1 \in Nat
    BY <1>0, <1>4
  <2>2. /\ \A p : p \in UpTo(k) <=> p \in Seq(Chars) /\ Len(p) <= k
        /\ \A p : p \in UpTo(k - 1) <=> p \in Seq(Chars) /\ Len(p) <= k - 1
    BY ONLY <2>1, UpToIs
  <2>3. \A p \in Seq(Chars) : Len(p) < k => Len(p) <= k - 1 /\ Len(p) <= k
    BY <2>1
  <2> QED BY <2>2, <2>3
<1>8. PICK H : /\ DOMAIN H = UpTo(k) /\ H = [p \in UpTo(k) |-> H[p]]
               /\ \A p \in UpTo(k) : H[p] = MeaningStep(F, p)
  <2> DEFINE H == [p \in UpTo(k) |-> MeaningStep(F, p)]
  <2>1. \A p \in UpTo(k) : H[p] = MeaningStep(F, p)
    OBVIOUS
  <2>2. DOMAIN H = UpTo(k) /\ H = [p \in UpTo(k) |-> H[p]]
    OBVIOUS
  <2> QED BY <2>1, <2>2
<1>9. ASSUME NEW p \in UpTo(k) PROVE H[p] = MeaningStep(H, p)
  <2>1. p \in Seq(Chars) /\ Len(p) <= k
    BY <1>7
  <2>2. ASSUME NEW q \in Seq(Chars), Len(q) < Len(p) PROVE F[q] = H[q]
    <3>1. Len(q) < k
      BY <2>1, <2>2
    <3>2. q \in UpTo(k) /\ q \in UpTo(k - 1)
      BY <1>7, <3>1
    <3>3. F[q] = MeaningStep(F, q)
      BY <1>6, <3>2, Zenon
    <3> QED BY <1>8, <3>2, <3>3
  <2>3. MeaningStep(F, p) = MeaningStep(H, p)
    BY <2>1, <2>2, StepLocal
  <2> QED BY <1>8, <2>3
<1>10. H = [p \in UpTo(k) |-> MeaningStep(H, p)]
  BY <1>8, <1>9
<1> HIDE DEF Bad
<1> QED BY <1>3, <1>10

(* ... which is the meaning. *)
LEMMA MeaningIs ==
    ASSUME NEW p \in Patterns
    PROVE  Meaning[p] = MeaningStep(Meaning, p)
<1>1. Meaning = CHOOSE F : F = [q \in Patterns |-> MeaningStep(F, q)]
  BY DEF Meaning, MeaningStep, Means, EndOf, Behind
<1>2. Meaning = [q \in Patterns |-> MeaningStep(Meaning, q)]
  BY <1>1, MeaningExists
<1> QED BY <1>2, Zenon

(* Patterns are the texts up to the bound. *)
LEMMA PatternsAre == \A p : p \in Patterns <=> p \in Seq(Chars) /\ Len(p) <= MaxPattern
<1>1. MaxPattern \in Nat
  BY WalkAssumption
<1> QED BY <1>1, UpToIs DEF Patterns, UpTo

(* A pattern means patterns without groups. *)
LEMMA MeaningSeqs ==
    ASSUME NEW p \in Patterns
    PROVE  Meaning[p] \in SUBSET Seq(Chars)
<1> DEFINE Wrong == {q \in Patterns : ~(Meaning[q] \in SUBSET Seq(Chars))}
           Bad == {Len(q) : q \in Wrong}
<1>1. SUFFICES ASSUME Wrong # {} PROVE FALSE
  OBVIOUS
<1>2. Bad \in SUBSET Nat /\ Bad # {}
  <2>1. \A q \in Wrong : Len(q) \in Nat
    <3> SUFFICES ASSUME NEW q \in Patterns PROVE Len(q) \in Nat
      OBVIOUS
    <3>1. q \in Seq(Chars)
      BY PatternsAre
    <3> QED BY <3>1
  <2> HIDE DEF Wrong
  <2> QED BY <1>1, <2>1
<1>3. Min(Bad) \in Bad /\ \A n \in Bad : Min(Bad) <= n
  <2> HIDE DEF Bad
  <2> QED BY <1>2, MinProps
<1>4. PICK q \in Wrong : Len(q) = Min(Bad)
  BY <1>3
<1>5. /\ q \in Patterns /\ q \in Seq(Chars) /\ Len(q) \in Nat /\ Len(q) <= MaxPattern
      /\ ~(Meaning[q] \in SUBSET Seq(Chars))
  BY PatternsAre
<1>6. ASSUME NEW r \in Seq(Chars), Len(r) < Len(q) PROVE Meaning[r] \in SUBSET Seq(Chars)
  <2>1. r \in Patterns
    BY <1>5, <1>6, PatternsAre, WalkAssumption
  <2>2. r \in Wrong => Len(r) \in Bad
    OBVIOUS
  <2> HIDE DEF Bad
  <2>3. r \notin Wrong
    BY <1>3, <1>4, <1>5, <1>6, <2>2
  <2> QED BY <2>1, <2>3
<1> HIDE DEF Wrong, Bad
<1>7. Meaning[q] = MeaningStep(Meaning, q)
  BY <1>5, MeaningIs
<1>8. CASE q = <<>>
  <2>1. <<>> \in Seq(Chars)
    OBVIOUS
  <2> QED BY <1>5, <1>7, <1>8, <2>1 DEF MeaningStep
<1>9. CASE q # <<>>
  <2> PICK M : M = Meaning[Tail(q)]
    OBVIOUS
  <2> PICK N : N = Meaning[Behind(q)]
    OBVIOUS
  <2> PICK A : A = Alternatives(SubSeq(q, 2, EndOf(q) - 1))
    OBVIOUS
  <2>0. /\ Head(q) \in Chars /\ Tail(q) \in Seq(Chars) /\ Len(Tail(q)) < Len(q)
        /\ Behind(q) \in Seq(Chars) /\ Len(Behind(q)) < Len(q)
    BY <1>5, <1>9, Shorter
  <2>1. M \in SUBSET Seq(Chars) /\ N \in SUBSET Seq(Chars)
    BY <1>6, <2>0
  <2> PICK H : H = {<<Head(q)>>}
    OBVIOUS
  <2>4. H \in SUBSET Seq(Chars)
    BY <2>0
  <2>2. A \in SUBSET Seq(Chars)
    <3> PICK t \in Seq(Chars) : t = SubSeq(q, 2, EndOf(q) - 1)
      BY <1>5, <1>9, Shorter
    <3>1. Split(t) \in Seq(Seq(Chars)) /\ Range(Split(t)) = Alternatives(t)
      BY Splits
    <3>2. \A x \in Range(Split(t)) : x \in Seq(Chars)
      BY <3>1 DEF Range
    <3> QED BY <3>1, <3>2
  <2>3. Meaning[q] = IF Head(q) # OpenBrace THEN Joins(H, M) ELSE Joins(A, N)
    BY <1>7, <1>9, Zenon DEF MeaningStep, Means
  <2>5. Joins(H, M) \in SUBSET Seq(Chars) /\ Joins(A, N) \in SUBSET Seq(Chars)
    BY ONLY <2>1, <2>2, <2>4, JoinsSeqs
  <2> QED BY <1>5, <2>3, <2>5
<1> QED BY <1>8, <1>9

(* Counting a character one place further. *)
CountOf(p, c, i) == Cardinality({k \in 1..i : p[k] = c})

LEMMA CountStep ==
    ASSUME NEW p, NEW c, NEW i \in Nat
    PROVE  /\ CountOf(p, c, i) \in Nat /\ CountOf(p, c, 0) = 0
           /\ CountOf(p, c, i + 1) = CountOf(p, c, i) + IF p[i + 1] = c THEN 1 ELSE 0
<1> PICK S : S = {k \in 1..i : p[k] = c}
  OBVIOUS
<1>1. IsFiniteSet(S) /\ Cardinality(S) \in Nat
  <2>1. IsFiniteSet(1..i) /\ S \in SUBSET (1..i)
    BY FS_Interval
  <2>2. IsFiniteSet(S)
    BY ONLY <2>1, FS_Subset
  <2> QED BY <2>2, FS_CardinalityType
<1>2. CountOf(p, c, 0) = 0
  <2>1. {k \in 1..0 : p[k] = c} = {}
    OBVIOUS
  <2> QED BY <2>1, FS_EmptySet DEF CountOf
<1>3. {k \in 1..(i + 1) : p[k] = c} = IF p[i + 1] = c THEN S \cup {i + 1} ELSE S
  OBVIOUS
<1>4. Cardinality(S \cup {i + 1}) = Cardinality(S) + 1
  <2>1. i + 1 \notin S
    OBVIOUS
  <2> QED BY <1>1, <2>1, FS_AddElement
<1> QED BY <1>1, <1>2, <1>3, <1>4 DEF CountOf

(* The open braces one place further. *)
LEMMA OpenStep ==
    /\ OpenAt(0) = 0
    /\ \A i \in Nat :
        /\ OpenAt(i) \in Int
        /\ OpenAt(i + 1) = OpenAt(i) + IF pattern[i + 1] = OpenBrace THEN 1
                                       ELSE IF pattern[i + 1] = CloseBrace THEN -1 ELSE 0
<1> DEFINE o(i) == CountOf(pattern, OpenBrace, i)
           c(i) == CountOf(pattern, CloseBrace, i)
<1>1. \A i \in Nat : OpenAt(i) = o(i) - c(i)
  BY DEF OpenAt, CountOf
<1>2. /\ o(0) = 0 /\ c(0) = 0
      /\ \A i \in Nat : /\ o(i) \in Nat /\ c(i) \in Nat
                        /\ o(i + 1) = o(i) + IF pattern[i + 1] = OpenBrace THEN 1 ELSE 0
                        /\ c(i + 1) = c(i) + IF pattern[i + 1] = CloseBrace THEN 1 ELSE 0
  BY CountStep
<1> HIDE DEF o, c
<1>3. \A i \in Nat : i + 1 \in Nat
  OBVIOUS
<1> QED BY <1>1, <1>2, <1>3, Apart

LEMMA ShortPattern ==
    ASSUME NEW p \in Patterns, NEW q \in Seq(Chars), Len(q) < Len(p)
    PROVE  q \in Patterns
<1>1. p \in Seq(Chars) /\ Len(p) <= MaxPattern
  BY PatternsAre
<1>2. Len(p) \in Nat /\ Len(q) \in Nat /\ MaxPattern \in Nat
  BY <1>1, WalkAssumption
<1>3. Len(q) <= MaxPattern
  BY <1>1, <1>2
<1> QED BY <1>3, PatternsAre

-----------------------------------------------------------------------------
(* The expansion of a pattern *)

(* What is left of the pattern, from the brace of the open group on.       *)
Left == IF depth = 0 THEN rest ELSE <<OpenBrace>> \o group \o rest

(* The words, and what the rest of the pattern means, make up what the     *)
(* pattern means.                                                          *)
Expanding ==
    /\ listing = {} /\ found = {} /\ visited = 0
    /\ words \in Seq(Seq(Chars)) /\ group \in Seq(Chars)
    /\ \E k \in 0..Len(pattern) : rest = SubSeq(pattern, k + 1, Len(pattern)) /\ depth = OpenAt(k)
    /\ depth # 0 => \A i \in DOMAIN group : group[i] # CloseBrace
    /\ Left \in Patterns
    /\ Joins(Range(words), Meaning[Left]) = Meaning[pattern]

(* What the words still to be matched and the current listing hold.        *)
Matchable == listing \cup UNION {Matches[w] : w \in Range(words) \cap DOMAIN Matches}

Matching ==
    /\ words \in Seq(Seq(Chars))
    /\ \A e \in Matchable \cup found : Matched(e)
    /\ visited <= max_files => \A e \in debug_files : Matched(e) => e \in found \cup Matchable
    /\ stage = "done" /\ visited <= max_files => Matchable = {}

GlobTypes ==
    /\ stack = <<>> /\ debug_files \in SUBSET Files /\ found \in SUBSET debug_files
    /\ visited \in Nat /\ pattern \in Patterns /\ stage \in {"expand", "walk", "done"}

(* The expansion keeps the meaning of a pattern; then what it means and is *)
(* not found yet is matched by the words that are left.                    *)
GlobInv ==
    walk_kind = "glob" =>
      GlobTypes /\ (PlainGroups => IF stage = "expand" THEN Expanding ELSE Matching)

(* Where the expansion is in a plain pattern. *)
LEMMA Position ==
    ASSUME pattern \in Patterns, PlainGroups, NEW k \in 0..Len(pattern),
           rest = SubSeq(pattern, k + 1, Len(pattern))
    PROVE  /\ OpenAt(k) \in {0, 1} /\ rest \in Seq(Chars)
           /\ rest = <<>> => OpenAt(k) = 0
           /\ rest # <<>> =>
                /\ k + 1 \in 0..Len(pattern) /\ Head(rest) \in Chars
                /\ Tail(rest) = SubSeq(pattern, k + 2, Len(pattern)) /\ Tail(rest) \in Seq(Chars)
                /\ OpenAt(k + 1) \in {0, 1}
                /\ OpenAt(k + 1) = OpenAt(k) + IF Head(rest) = OpenBrace THEN 1
                                               ELSE IF Head(rest) = CloseBrace THEN -1 ELSE 0
<1>1. pattern \in Seq(Chars) /\ Len(pattern) \in Nat /\ DOMAIN pattern = 1..Len(pattern) /\ k \in Nat
  <2>1. pattern \in Seq(Chars)
    BY PatternsAre
  <2> QED BY <2>1
<1>2. \A i \in 0..Len(pattern) : OpenAt(i) \in {0, 1}
  <2> SUFFICES ASSUME NEW i \in 0..Len(pattern) PROVE OpenAt(i) \in {0, 1}
    OBVIOUS
  <2>1. CASE i = 0
    BY <2>1, OpenStep
  <2>2. CASE i # 0
    BY <1>1, <2>2 DEF PlainGroups
  <2> QED BY <2>1, <2>2
<1>3. rest \in Seq(Chars)
  BY <1>1
<1>4. ASSUME rest = <<>> PROVE OpenAt(k) = 0
  <2>1. k = Len(pattern)
    <3> PICK p \in Seq(Chars) : p = pattern
      BY <1>1
    <3>1. ASSUME NEW i \in 1..Len(p) PROVE SubSeq(p, i, Len(p)) # <<>>
      <4> PICK n \in Nat : n = Len(p)
        OBVIOUS
      <4>1. \A j \in i..n : p[j] \in Chars
        OBVIOUS
      <4>2. i \in Int /\ n \in Int /\ i <= n
        OBVIOUS
      <4>3. Len(SubSeq(p, i, n)) = IF i <= n THEN n - i + 1 ELSE 0
        BY ONLY <4>1, <4>2, SubSeqProperties
      <4>4. Len(SubSeq(p, i, n)) # 0
        BY <4>2, <4>3
      <4>5. Len(<<>>) = 0
        OBVIOUS
      <4> QED BY ONLY <4>4, <4>5, n = Len(p), Zenon
    <3> PICK n \in Nat : n = Len(pattern)
      BY <1>1
    <3>2. ~(k + 1 \in 1..n)
      BY <1>4, <3>1
    <3>3. k \in 0..n
      OBVIOUS
    <3>4. k = n
      BY ONLY n \in Nat, <3>2, <3>3
    <3> QED BY <3>4
  <2>2. CASE pattern = <<>>
    BY <2>1, <2>2, OpenStep
  <2>3. CASE pattern # <<>>
    BY <2>1, <2>3 DEF PlainGroups
  <2> QED BY <2>2, <2>3
<1>5. ASSUME rest # <<>>
      PROVE  /\ k + 1 \in 0..Len(pattern) /\ Head(rest) = pattern[k + 1] /\ Head(rest) \in Chars
             /\ Tail(rest) = SubSeq(pattern, k + 2, Len(pattern)) /\ Tail(rest) \in Seq(Chars)
  <2>1. k + 1 \in 1..Len(pattern)
    BY <1>1, <1>5
  <2> PICK n, j : n = Len(pattern) /\ j = k + 1
    OBVIOUS
  <2>2. j \in 1..Len(pattern) /\ n \in j..Len(pattern)
    BY <1>1, <2>1
  <2>3. Head(SubSeq(pattern, j, n)) = pattern[j] /\ Tail(SubSeq(pattern, j, n)) = SubSeq(pattern, j + 1, n)
    BY ONLY <1>1, <2>2, HeadTailOfSubSeq
  <2>4. j + 1 = k + 2
    BY <1>1
  <2>5. Head(rest) = pattern[k + 1] /\ Tail(rest) = SubSeq(pattern, k + 2, Len(pattern))
    BY <2>3, <2>4
  <2>6. Head(rest) \in Chars /\ Tail(rest) \in Seq(Chars)
    BY <1>3, <1>5
  <2> QED BY <2>1, <2>5, <2>6
<1>6. OpenAt(k + 1) = OpenAt(k) + IF pattern[k + 1] = OpenBrace THEN 1
                                  ELSE IF pattern[k + 1] = CloseBrace THEN -1 ELSE 0
  BY <1>1, OpenStep
<1>7. rest # <<>> => OpenAt(k + 1) \in {0, 1}
  BY <1>2, <1>5
<1>8. rest # <<>> =>
        OpenAt(k + 1) = OpenAt(k) + IF Head(rest) = OpenBrace THEN 1
                                    ELSE IF Head(rest) = CloseBrace THEN -1 ELSE 0
  BY <1>5, <1>6
<1> QED BY <1>2, <1>3, <1>4, <1>5, <1>7, <1>8

(* What depends on the source alone stays. *)
LEMMA Kept ==
    ASSUME UNCHANGED disk_seen
    PROVE  /\ walk_kind' = walk_kind /\ debug_files' = debug_files /\ pattern' = pattern
           /\ PlainGroups' <=> PlainGroups
           /\ \A i : OpenAt(i)' = OpenAt(i)
           /\ \A e : Matched(e)' <=> Matched(e)
<1>1. walk_kind' = walk_kind /\ debug_files' = debug_files /\ pattern' = pattern
  BY DEF disk_seen
<1>2. \A i : OpenAt(i)' = OpenAt(i)
  BY <1>1 DEF OpenAt
<1>3. PlainGroups' <=> PlainGroups
  BY <1>1 DEF PlainGroups, OpenAt
<1>4. \A e : Matched(e)' <=> Matched(e)
  BY <1>1 DEF Matched
<1> QED BY <1>1, <1>2, <1>3, <1>4

(* A step of the expansion. *)
LEMMA ExpandStep ==
    ASSUME GlobInv, walk_kind = "glob", PlainGroups, stage = "expand",
           Literal \/ OpenGroup \/ GroupChar \/ CloseGroup
    PROVE  /\ GlobTypes /\ Expanding
           /\ UNCHANGED <<disk_seen, stack, listing, visited, found, stage>>
           /\ pattern' = pattern /\ \A i : OpenAt(i)' = OpenAt(i)
<1>1. GlobTypes /\ Expanding
  BY DEF GlobInv
<1>2. UNCHANGED <<disk_seen, stack, listing, visited, found, stage>>
  BY DEF Literal, OpenGroup, GroupChar, CloseGroup
<1>3. pattern' = pattern /\ \A i : OpenAt(i)' = OpenAt(i)
  BY <1>2, Kept
<1> QED BY <1>1, <1>2, <1>3

(* Literal, OpenGroup, GroupChar and CloseGroup keep the meaning. *)
LEMMA LiteralMeaning ==
    ASSUME GlobInv, walk_kind = "glob", PlainGroups, Literal
    PROVE  Expanding'
<1>0. stage = "expand" /\ depth = 0 /\ rest # <<>> /\ Head(rest) # OpenBrace
      /\ words' = Continue(words, <<(<<Head(rest)>>)>>) /\ rest' = Tail(rest)
      /\ UNCHANGED <<group, depth>>
  BY DEF Literal
<1>1. /\ GlobTypes /\ Expanding
      /\ UNCHANGED <<disk_seen, stack, listing, visited, found, stage>>
      /\ pattern' = pattern /\ \A i : OpenAt(i)' = OpenAt(i)
  BY <1>0, ExpandStep
<1>2. PICK k \in 0..Len(pattern) : rest = SubSeq(pattern, k + 1, Len(pattern)) /\ depth = OpenAt(k)
  BY <1>1 DEF Expanding
<1>3. /\ k + 1 \in 0..Len(pattern) /\ Head(rest) \in Chars
      /\ Tail(rest) = SubSeq(pattern, k + 2, Len(pattern)) /\ Tail(rest) \in Seq(Chars)
      /\ OpenAt(k + 1) = 0 /\ rest \in Seq(Chars)
  <2>1. /\ k + 1 \in 0..Len(pattern) /\ Head(rest) \in Chars
        /\ Tail(rest) = SubSeq(pattern, k + 2, Len(pattern)) /\ Tail(rest) \in Seq(Chars)
        /\ OpenAt(k + 1) \in {0, 1} /\ rest \in Seq(Chars)
        /\ OpenAt(k + 1) = OpenAt(k) + IF Head(rest) = OpenBrace THEN 1
                                       ELSE IF Head(rest) = CloseBrace THEN -1 ELSE 0
    BY <1>0, <1>1, <1>2, Position DEF GlobTypes
  <2> PICK o : o = OpenAt(k + 1)
    OBVIOUS
  <2>2. o \in {0, 1} /\ o = 0 + IF Head(rest) = CloseBrace THEN -1 ELSE 0
    BY <1>0, <1>2, <2>1
  <2>3. o = 0
    BY ONLY <2>2
  <2> QED BY <2>1, <2>3
<1>4. Left = rest /\ Left' = Tail(rest) /\ rest \in Patterns
  BY <1>0, <1>1 DEF Left, Expanding
<1>5. Tail(rest) \in Patterns
  <2>1. Len(Tail(rest)) < Len(rest)
    BY <1>0, <1>3, Shorter
  <2> QED BY <1>3, <1>4, <2>1, ShortPattern
<1> PICK M : M = Meaning[Tail(rest)]
  OBVIOUS
<1> PICK W : W = Range(words)
  OBVIOUS
<1> PICK H : H = {<<Head(rest)>>}
  OBVIOUS
<1>6. Meaning[rest] = Joins(H, M)
  BY <1>0, <1>4, MeaningIs DEF MeaningStep, Means
<1>7. M \in SUBSET Seq(Chars) /\ H \in SUBSET Seq(Chars) /\ W \in SUBSET Seq(Chars)
  <2>1. M \in SUBSET Seq(Chars)
    BY <1>5, MeaningSeqs
  <2>2. H \in SUBSET Seq(Chars)
    BY <1>3
  <2>3. W \in SUBSET Seq(Chars)
    BY <1>1 DEF Range, Expanding
  <2> QED BY <2>1, <2>2, <2>3
<1>8. words' \in Seq(Seq(Chars)) /\ Range(words') = Joins(W, H)
  <2> PICK alts : alts = <<(<<Head(rest)>>)>>
    OBVIOUS
  <2>1. alts \in Seq(Seq(Chars)) /\ Len(alts) # 0 /\ Range(alts) = H
    <3>1. alts \in Seq(Seq(Chars)) /\ Len(alts) = 1 /\ DOMAIN alts = 1..1 /\ alts[1] = <<Head(rest)>>
      BY <1>3
    <3> QED BY <3>1 DEF Range
  <2>2. words \in Seq(Seq(Chars)) /\ words' = Continue(words, alts)
    BY <1>0, <1>1 DEF Expanding
  <2>3. /\ Continue(words, alts) \in Seq(Seq(Chars))
        /\ Range(Continue(words, alts)) = Joins(Range(words), Range(alts))
    BY ONLY <2>1, <2>2, Continued
  <2> QED BY ONLY <2>1, <2>2, <2>3, W = Range(words)
<1>9. Joins(W, Joins(H, M)) = Meaning[pattern]
  BY <1>1, <1>4, <1>6 DEF Expanding
<1>10. Joins(Joins(W, H), M) = Meaning[pattern]
  BY ONLY <1>7, <1>9, JoinsTwice
<1>11. Joins(Range(words'), Meaning[Left']) = Meaning[pattern']
  BY <1>1, <1>4, <1>8, <1>10
<1>12. \E i \in 0..Len(pattern') : rest' = SubSeq(pattern', i + 1, Len(pattern')) /\ depth' = OpenAt(i)'
  <2>1. k + 1 + 1 = k + 2
    OBVIOUS
  <2>2. rest' = SubSeq(pattern', k + 1 + 1, Len(pattern')) /\ depth' = OpenAt(k + 1)'
    BY <1>0, <1>1, <1>2, <1>3, <2>1
  <2> QED BY <1>1, <1>3, <2>2
<1> QED BY <1>0, <1>1, <1>4, <1>5, <1>8, <1>11, <1>12 DEF Expanding

(* A group that is closed, in front of what follows it. *)
LEMMA GroupOf ==
    ASSUME NEW g \in Seq(Chars), NEW r \in Seq(Chars), r # <<>>, Head(r) = CloseBrace,
           \A i \in DOMAIN g : g[i] # CloseBrace,
           NEW p, p = <<OpenBrace>> \o g \o r
    PROVE  /\ p \in Seq(Chars) /\ p # <<>> /\ Head(p) = OpenBrace
           /\ SubSeq(p, 2, EndOf(p) - 1) = g /\ Behind(p) = Tail(r)
<1> PICK m \in Nat : m = Len(g)
  OBVIOUS
<1> PICK n \in Nat \ {0} : n = Len(r)
  OBVIOUS
<1>0. OpenBrace \in Chars
  BY DEF Chars
<1> PICK o \in Chars : o = OpenBrace
  BY <1>0
<1>1. /\ p \in Seq(Chars) /\ Len(p) = 1 + m + n /\ p[1] = o
      /\ \A i \in 1..m : p[i + 1] = g[i]
      /\ \A j \in 1..n : p[m + 1 + j] = r[j]
  <2>1. p = (<<o>> \o g) \o r
    OBVIOUS
  <2> PICK q : q = <<o>> \o g
    OBVIOUS
  <2>2. q \in Seq(Chars) /\ Len(q) = 1 + m /\ q[1] = o /\ \A i \in 1..m : q[i + 1] = g[i]
    OBVIOUS
  <2>3. /\ p \in Seq(Chars) /\ Len(p) = 1 + m + n
        /\ \A i \in 1..(1 + m) : p[i] = q[i]
        /\ \A j \in 1..n : p[m + 1 + j] = r[j]
    BY <2>1, <2>2
  <2>4. p[1] = o
    BY <2>2, <2>3
  <2>5. \A i \in 1..m : p[i + 1] = g[i]
    BY <2>2, <2>3
  <2> QED BY <2>3, <2>4, <2>5
<1>2. r[1] = CloseBrace /\ \A i \in 1..m : g[i] # CloseBrace
  <2>1. Head(r) = r[1] /\ DOMAIN g = 1..m
    OBVIOUS
  <2> QED BY <2>1
<1>3. EndOf(p) = m + 2
  <2> PICK e : e = EndOf(p)
    OBVIOUS
  <2>1. /\ e \in 1..(Len(p) + 1) /\ (e = Len(p) + 1 \/ p[e] = CloseBrace)
        /\ \A k \in 1..(e - 1) : p[k] # CloseBrace
    BY <1>1, EndProps
  <2>2. p[m + 2] = CloseBrace /\ p[1] # CloseBrace
    <3>1. p[m + 1 + 1] = r[1] /\ m + 1 + 1 = m + 2
      BY <1>1
    <3> QED BY <1>1, <1>2, <3>1, Apart
  <2>3. e <= m + 2
    <3>1. m + 2 \in 1..(e - 1) \/ e <= m + 2
      BY <1>1, <2>1
    <3> QED BY <2>1, <2>2, <3>1
  <2>4. p[e] = CloseBrace
    BY <1>1, <2>1, <2>3
  <2>5. ~(e \in 2..(m + 1))
    <3> SUFFICES ASSUME NEW i \in 1..m, e = i + 1 PROVE FALSE
      OBVIOUS
    <3> QED BY <1>1, <1>2, <2>4
  <2>6. e # 1
    BY <2>2, <2>4
  <2> QED BY <1>1, <2>1, <2>3, <2>5, <2>6
<1>4. SubSeq(p, 2, m + 1) = g
  <2> PICK s : s = SubSeq(p, 2, m + 1)
    OBVIOUS
  <2>1. \A i \in 2..(m + 1) : p[i] \in Chars
    BY <1>1
  <2>2. s \in Seq(Chars) /\ Len(s) = m /\ \A i \in 1..m : s[i] = p[i + 1]
    <3>1. /\ s \in Seq(Chars) /\ Len(s) = (IF 2 <= m + 1 THEN m + 1 - 2 + 1 ELSE 0)
          /\ \A i \in 1..(m + 1 - 2 + 1) : s[i] = p[2 + i - 1]
      <4>1. 2 \in Int /\ m + 1 \in Int
        OBVIOUS
      <4> QED BY ONLY <2>1, <4>1, s = SubSeq(p, 2, m + 1), SubSeqProperties
    <3> QED BY <3>1
  <2>3. \A i \in 1..m : s[i] = g[i]
    BY <1>1, <2>2
  <2> QED BY <2>2, <2>3, SeqEqual
<1>5. SubSeq(p, m + 3, m + 1 + n) = Tail(r)
  <2> PICK s : s = SubSeq(p, m + 3, m + 1 + n)
    OBVIOUS
  <2> PICK t : t = Tail(r)
    OBVIOUS
  <2>1. \A i \in (m + 3)..(m + 1 + n) : p[i] \in Chars
    BY <1>1
  <2>2. s \in Seq(Chars) /\ Len(s) = n - 1 /\ \A i \in 1..(n - 1) : s[i] = p[m + 1 + (i + 1)]
    <3>1. /\ s \in Seq(Chars) /\ Len(s) = (IF m + 3 <= m + 1 + n THEN m + 1 + n - (m + 3) + 1 ELSE 0)
          /\ \A i \in 1..(m + 1 + n - (m + 3) + 1) : s[i] = p[m + 3 + i - 1]
      <4>1. m + 3 \in Int /\ m + 1 + n \in Int
        OBVIOUS
      <4> QED BY ONLY <2>1, <4>1, s = SubSeq(p, m + 3, m + 1 + n), SubSeqProperties
    <3> QED BY <3>1
  <2>3. t \in Seq(Chars) /\ Len(t) = n - 1 /\ \A i \in 1..(n - 1) : t[i] = r[i + 1]
    OBVIOUS
  <2>4. \A i \in 1..(n - 1) : s[i] = t[i]
    BY <1>1, <2>2, <2>3
  <2> QED BY <2>2, <2>3, <2>4, SeqEqual
<1>6. p # <<>> /\ Head(p) = OpenBrace
  BY <1>1
<1>7. EndOf(p) - 1 = m + 1 /\ EndOf(p) + 1 = m + 3 /\ Len(p) = m + 1 + n
  BY <1>1, <1>3
<1> QED BY <1>1, <1>4, <1>5, <1>6, <1>7 DEF Behind

(* A character moves from the rest of the pattern to the open group. *)
LEMMA GroupGrows ==
    ASSUME NEW g \in Seq(Chars), NEW r \in Seq(Chars), r # <<>>
    PROVE  /\ <<Head(r)>> \o Tail(r) = r
           /\ <<OpenBrace>> \o Append(g, Head(r)) \o Tail(r) = <<OpenBrace>> \o g \o r
           /\ <<OpenBrace>> \o <<>> \o Tail(r) = <<OpenBrace>> \o Tail(r)
<1> PICK h, t : h = Head(r) /\ t = Tail(r)
  OBVIOUS
<1>0. h \in Chars /\ t \in Seq(Chars)
  OBVIOUS
<1> PICK o \in Chars : o = OpenBrace
  BY DEF Chars
<1>1. <<h>> \o t = r
  BY <1>0
<1> PICK a, b : a = <<o>> /\ b = <<h>>
  OBVIOUS
<1>2. a \in Seq(Chars) /\ b \in Seq(Chars) /\ Append(g, h) = g \o b /\ g \o b \in Seq(Chars) /\ a \o g \in Seq(Chars)
  BY <1>0
<1>3. (a \o (g \o b)) \o t = ((a \o g) \o b) \o t
  BY <1>0, <1>2, ConcatAssociative
<1>4. ((a \o g) \o b) \o t = (a \o g) \o (b \o t)
  BY <1>0, <1>2, ConcatAssociative
<1>5. a \o <<>> = a
  BY <1>2, ConcatEmptySeq
<1> QED BY <1>1, <1>2, <1>3, <1>4, <1>5

(* A step that leaves the words alone and moves a character into a group. *)
LEMMA SameLeft ==
    ASSUME Expanding, UNCHANGED <<words, listing, visited, found>>, pattern' = pattern,
           \A i : OpenAt(i)' = OpenAt(i), group' \in Seq(Chars),
           depth' # 0 => \A i \in DOMAIN group' : group'[i] # CloseBrace,
           NEW k \in 0..Len(pattern), rest' = SubSeq(pattern, k + 1, Len(pattern)), depth' = OpenAt(k),
           Left' = Left
    PROVE  Expanding'
<1>1. Joins(Range(words'), Meaning[Left']) = Meaning[pattern']
  BY DEF Expanding
<1>2. \E i \in 0..Len(pattern') : rest' = SubSeq(pattern', i + 1, Len(pattern')) /\ depth' = OpenAt(i)'
  OBVIOUS
<1> QED BY <1>1, <1>2 DEF Expanding

LEMMA OpenGroupMeaning ==
    ASSUME GlobInv, walk_kind = "glob", PlainGroups, OpenGroup
    PROVE  Expanding'
<1>0. /\ stage = "expand" /\ depth = 0 /\ rest # <<>> /\ Head(rest) = OpenBrace
      /\ depth' = 1 /\ group' = <<>> /\ rest' = Tail(rest) /\ words' = words
  BY DEF OpenGroup
<1>1. /\ GlobTypes /\ Expanding
      /\ UNCHANGED <<disk_seen, stack, listing, visited, found, stage>>
      /\ pattern' = pattern /\ \A i : OpenAt(i)' = OpenAt(i)
  BY <1>0, ExpandStep
<1>2. PICK k \in 0..Len(pattern) : rest = SubSeq(pattern, k + 1, Len(pattern)) /\ depth = OpenAt(k)
  BY <1>1 DEF Expanding
<1>3. /\ k + 1 \in 0..Len(pattern)
      /\ Tail(rest) = SubSeq(pattern, k + 2, Len(pattern)) /\ rest \in Seq(Chars)
      /\ OpenAt(k + 1) = OpenAt(k) + 1
  BY <1>0, <1>1, <1>2, Position DEF GlobTypes
<1>4. Left' = Left
  <2>1. /\ <<Head(rest)>> \o Tail(rest) = rest
        /\ <<OpenBrace>> \o <<>> \o Tail(rest) = <<OpenBrace>> \o Tail(rest)
    BY <1>0, <1>3, GroupGrows
  <2>2. depth' # 0
    BY <1>0
  <2>3. Left' = <<OpenBrace>> \o group' \o rest'
    BY <2>2, Zenon DEF Left
  <2>4. Left = rest
    BY <1>0, Zenon DEF Left
  <2> QED BY <1>0, <2>1, <2>3, <2>4, Zenon
<1>5. rest' = SubSeq(pattern, (k + 1) + 1, Len(pattern)) /\ depth' = OpenAt(k + 1)
  <2>1. (k + 1) + 1 = k + 2
    OBVIOUS
  <2> QED BY <1>0, <1>2, <1>3, <2>1
<1>6. group' \in Seq(Chars) /\ \A i \in DOMAIN group' : group'[i] # CloseBrace
  BY <1>0
<1>7. UNCHANGED <<words, listing, visited, found>>
  BY <1>0, <1>1
<1> QED BY <1>1, <1>3, <1>4, <1>5, <1>6, <1>7, SameLeft

LEMMA GroupCharMeaning ==
    ASSUME GlobInv, walk_kind = "glob", PlainGroups, GroupChar
    PROVE  Expanding'
<1>0. /\ stage = "expand" /\ depth > 0 /\ rest # <<>> /\ depth' > 0
      /\ depth' = depth + (IF Head(rest) = OpenBrace THEN 1 ELSE IF Head(rest) = CloseBrace THEN -1 ELSE 0)
      /\ group' = Append(group, Head(rest)) /\ rest' = Tail(rest) /\ words' = words
  BY DEF GroupChar
<1>1. /\ GlobTypes /\ Expanding
      /\ UNCHANGED <<disk_seen, stack, listing, visited, found, stage>>
      /\ pattern' = pattern /\ \A i : OpenAt(i)' = OpenAt(i)
  BY <1>0, ExpandStep
<1>2. PICK k \in 0..Len(pattern) : rest = SubSeq(pattern, k + 1, Len(pattern)) /\ depth = OpenAt(k)
  BY <1>1 DEF Expanding
<1>3. /\ k + 1 \in 0..Len(pattern) /\ Head(rest) \in Chars /\ OpenAt(k) \in {0, 1}
      /\ Tail(rest) = SubSeq(pattern, k + 2, Len(pattern)) /\ rest \in Seq(Chars)
      /\ OpenAt(k + 1) \in {0, 1}
      /\ OpenAt(k + 1) = OpenAt(k) + IF Head(rest) = OpenBrace THEN 1
                                     ELSE IF Head(rest) = CloseBrace THEN -1 ELSE 0
  BY <1>0, <1>1, <1>2, Position DEF GlobTypes
<1>4. depth' = OpenAt(k + 1) /\ depth = 1 /\ depth' = 1 /\ Head(rest) # CloseBrace
  <2>1. depth' = OpenAt(k + 1)
    BY <1>0, <1>2, <1>3
  <2>2. depth \in {0, 1} /\ depth' \in {0, 1}
    BY <1>2, <1>3, <2>1
  <2>3. depth = 1 /\ depth' = 1
    BY <1>0, <2>2
  <2> QED BY <1>0, <2>1, <2>3, Apart
<1>5. /\ group \in Seq(Chars) /\ group' \in Seq(Chars)
      /\ \A i \in DOMAIN group' : group'[i] # CloseBrace
  <2>1. group \in Seq(Chars) /\ \A i \in DOMAIN group : group[i] # CloseBrace
    BY <1>1, <1>4 DEF Expanding
  <2>2. group' \in Seq(Chars) /\ Len(group') = Len(group) + 1
    BY <1>0, <1>3, <2>1
  <2>3. ASSUME NEW i \in 1..Len(group') PROVE group'[i] # CloseBrace
    <3>1. CASE i = Len(group) + 1
      BY <1>0, <1>4, <2>1, <3>1
    <3>2. CASE i # Len(group) + 1
      <4>1. i \in 1..Len(group) /\ i \in DOMAIN group
        BY <2>1, <2>2, <3>2
      <4>2. group'[i] = group[i]
        BY <1>0, <2>1, <4>1
      <4> QED BY <2>1, <4>1, <4>2
    <3> QED BY <3>1, <3>2
  <2> QED BY <2>1, <2>2, <2>3
<1>6. Left' = Left
  <2>1. <<OpenBrace>> \o Append(group, Head(rest)) \o Tail(rest) = <<OpenBrace>> \o group \o rest
    BY <1>0, <1>3, <1>5, GroupGrows
  <2>0. depth # 0 /\ depth' # 0
    BY <1>4
  <2>2. Left = <<OpenBrace>> \o group \o rest
    BY <2>0, Zenon DEF Left
  <2>3. Left' = <<OpenBrace>> \o group' \o rest'
    BY <2>0, Zenon DEF Left
  <2> QED BY <1>0, <2>1, <2>2, <2>3, Zenon
<1>7. rest' = SubSeq(pattern, (k + 1) + 1, Len(pattern))
  <2>1. (k + 1) + 1 = k + 2
    OBVIOUS
  <2> QED BY <1>0, <1>3, <2>1
<1>8. UNCHANGED <<words, listing, visited, found>>
  BY <1>0, <1>1
<1> QED BY <1>1, <1>3, <1>4, <1>5, <1>6, <1>7, <1>8, SameLeft

LEMMA CloseGroupMeaning ==
    ASSUME GlobInv, walk_kind = "glob", PlainGroups, CloseGroup
    PROVE  Expanding'
<1>0. /\ stage = "expand" /\ depth > 0 /\ words' = Continue(words, Split(group)) /\ depth' = 0
      /\ group' = group
  BY DEF CloseGroup
<1>1. /\ GlobTypes /\ Expanding
      /\ UNCHANGED <<disk_seen, stack, listing, visited, found, stage>>
      /\ pattern' = pattern /\ \A i : OpenAt(i)' = OpenAt(i)
  BY <1>0, ExpandStep
<1>2. PICK k \in 0..Len(pattern) : rest = SubSeq(pattern, k + 1, Len(pattern)) /\ depth = OpenAt(k)
  BY <1>1 DEF Expanding
<1>3. rest # <<>> /\ depth = 1 /\ Head(rest) = CloseBrace /\ rest' = Tail(rest)
  <2>1. rest # <<>>
    BY <1>0, <1>1, <1>2, Position DEF GlobTypes
  <2> QED BY <2>1 DEF CloseGroup
<1>4. /\ k + 1 \in 0..Len(pattern)
      /\ Tail(rest) = SubSeq(pattern, k + 2, Len(pattern)) /\ rest \in Seq(Chars) /\ Tail(rest) \in Seq(Chars)
      /\ OpenAt(k + 1) = 0
  <2>1. /\ k + 1 \in 0..Len(pattern)
        /\ Tail(rest) = SubSeq(pattern, k + 2, Len(pattern)) /\ rest \in Seq(Chars) /\ Tail(rest) \in Seq(Chars)
        /\ OpenAt(k + 1) = OpenAt(k) + IF Head(rest) = OpenBrace THEN 1
                                       ELSE IF Head(rest) = CloseBrace THEN -1 ELSE 0
    BY <1>1, <1>2, <1>3, Position DEF GlobTypes
  <2>2. OpenAt(k + 1) = 1 + -1
    BY <1>2, <1>3, <2>1, Apart
  <2> QED BY <2>1, <2>2
<1>5. group \in Seq(Chars) /\ \A i \in DOMAIN group : group[i] # CloseBrace
  BY <1>1, <1>3 DEF Expanding
<1> PICK p : p = Left
  OBVIOUS
<1>6. /\ p = <<OpenBrace>> \o group \o rest /\ Left' = Tail(rest) /\ p \in Patterns
  BY <1>0, <1>1, <1>3 DEF Left, Expanding
<1>7. /\ p # <<>> /\ Head(p) = OpenBrace /\ p \in Seq(Chars)
      /\ SubSeq(p, 2, EndOf(p) - 1) = group /\ Behind(p) = Tail(rest)
  BY <1>3, <1>4, <1>5, <1>6, GroupOf
<1>8. Tail(rest) \in Patterns
  <2>1. Len(Behind(p)) < Len(p)
    BY <1>7, Shorter
  <2> QED BY <1>4, <1>6, <1>7, <2>1, ShortPattern
<1> PICK M : M = Meaning[Tail(rest)]
  OBVIOUS
<1> PICK W : W = Range(words)
  OBVIOUS
<1> PICK A : A = Alternatives(group)
  OBVIOUS
<1>9. Meaning[p] = Joins(A, M)
  BY <1>6, <1>7, MeaningIs DEF MeaningStep, Means
<1>10. Split(group) \in Seq(Seq(Chars)) /\ Len(Split(group)) # 0 /\ Range(Split(group)) = A
  BY <1>5, Splits
<1>11. M \in SUBSET Seq(Chars) /\ A \in SUBSET Seq(Chars) /\ W \in SUBSET Seq(Chars)
  <2>1. M \in SUBSET Seq(Chars)
    BY <1>8, MeaningSeqs
  <2>2. A \in SUBSET Seq(Chars)
    BY <1>10 DEF Range
  <2>3. W \in SUBSET Seq(Chars)
    BY <1>1 DEF Range, Expanding
  <2> QED BY <2>1, <2>2, <2>3
<1>12. words' \in Seq(Seq(Chars)) /\ Range(words') = Joins(W, A)
  <2>1. words \in Seq(Seq(Chars))
    BY <1>1 DEF Expanding
  <2> PICK alts : alts = Split(group)
    OBVIOUS
  <2>2. /\ Continue(words, alts) \in Seq(Seq(Chars))
        /\ Range(Continue(words, alts)) = Joins(Range(words), Range(alts))
    <3>1. alts \in Seq(Seq(Chars)) /\ Len(alts) # 0
      BY <1>10
    <3> QED BY ONLY <2>1, <3>1, Continued
  <2> QED BY <1>0, <1>10, <2>2, Zenon
<1>13. Joins(W, Joins(A, M)) = Meaning[pattern]
  BY <1>1, <1>9 DEF Expanding
<1>14. Joins(Joins(W, A), M) = Meaning[pattern]
  BY ONLY <1>11, <1>13, JoinsTwice
<1>15. Joins(Range(words'), Meaning[Left']) = Meaning[pattern']
  BY <1>1, <1>6, <1>12, <1>14
<1>16. \E i \in 0..Len(pattern') : rest' = SubSeq(pattern', i + 1, Len(pattern')) /\ depth' = OpenAt(i)'
  <2>1. (k + 1) + 1 = k + 2
    OBVIOUS
  <2>2. rest' = SubSeq(pattern', (k + 1) + 1, Len(pattern')) /\ depth' = OpenAt(k + 1)'
    BY <1>0, <1>1, <1>3, <1>4, <2>1
  <2> QED BY <1>1, <1>4, <2>2
<1> QED BY <1>0, <1>1, <1>5, <1>6, <1>8, <1>12, <1>15, <1>16 DEF Expanding

(* Before the first character nothing is expanded. *)
LEMMA GlobInit ==
    ASSUME WalkInit
    PROVE  GlobInv
<1> SUFFICES ASSUME walk_kind = "glob" PROVE GlobTypes /\ Expanding /\ stage = "expand"
  BY DEF GlobInv
<1>1. /\ stage = "expand" /\ stack = <<>> /\ pattern \in Patterns /\ debug_files \in SUBSET Files
      /\ listing = {} /\ found = {} /\ visited = 0 /\ rest = pattern /\ group = <<>> /\ depth = 0
      /\ words = <<(<<>>)>>
  BY DEF WalkInit
<1>2. GlobTypes
  BY <1>1 DEF GlobTypes
<1>3. pattern \in Seq(Chars)
  BY <1>1, PatternsAre
<1>4. /\ 0 \in 0..Len(pattern) /\ rest = SubSeq(pattern, 0 + 1, Len(pattern)) /\ depth = OpenAt(0)
  <2>1. Len(pattern) \in Nat /\ SubSeq(pattern, 1, Len(pattern)) = pattern
    BY <1>3
  <2> QED BY <1>1, <2>1, OpenStep
<1>5. words \in Seq(Seq(Chars)) /\ Range(words) = {<<>>} /\ group \in Seq(Chars)
  <2>1. words \in Seq(Seq(Chars)) /\ group \in Seq(Chars)
    BY <1>1
  <2>2. DOMAIN words = 1..1 /\ words[1] = <<>>
    BY <1>1
  <2> QED BY <2>1, <2>2 DEF Range
<1>6. Left = pattern
  BY <1>1, Zenon DEF Left
<1>7. Joins(Range(words), Meaning[Left]) = Meaning[pattern]
  <2> PICK M, E : M = Meaning[pattern] /\ E = {<<>>}
    OBVIOUS
  <2>1. M \in SUBSET Seq(Chars)
    BY <1>1, MeaningSeqs
  <2>2. Joins(E, M) = M
    BY ONLY <2>1, E = {<<>>}, JoinsEmpty
  <2> QED BY <1>5, <1>6, <2>2, Zenon
<1> QED BY <1>1, <1>2, <1>4, <1>5, <1>6, <1>7 DEF Expanding

(* The expanded words are what the pattern means. *)
LEMMA ExpandedGlob ==
    ASSUME GlobInv, walk_kind = "glob", PlainGroups, Expanded
    PROVE  Matching'
<1>0. /\ stage = "expand" /\ stage' = "walk" /\ depth = 0 /\ rest = <<>>
      /\ UNCHANGED <<disk_seen, words, listing, visited, found>>
  BY DEF Expanded
<1>1. GlobTypes /\ Expanding
  BY <1>0 DEF GlobInv
<1>2. Left = <<>> /\ <<>> \in Patterns
  BY <1>0, <1>1 DEF Left, Expanding
<1> PICK W, E : W = Range(words) /\ E = {<<>>}
  OBVIOUS
<1>3. Meaning[<<>>] = E
  BY <1>2, MeaningIs DEF MeaningStep
<1>4. W \in SUBSET Seq(Chars) /\ words \in Seq(Seq(Chars))
  BY <1>1 DEF Expanding, Range
<1>5. Joins(W, E) = W
  BY ONLY <1>4, E = {<<>>}, JoinsEmpty
<1>6. W = Meaning[pattern]
  BY <1>1, <1>2, <1>3, <1>5 DEF Expanding
<1>7. \A e : e \in Matchable <=> Matched(e)
  <2>1. listing = {}
    BY <1>1 DEF Expanding
  <2> QED BY <1>6, <2>1 DEF Matchable, Matched
<1>8. found = {} /\ Matchable' = Matchable /\ \A e : Matched(e)' <=> Matched(e)
  BY <1>0, <1>1, Kept DEF Expanding, Matchable
<1>9. words' \in Seq(Seq(Chars)) /\ found' = {} /\ debug_files' = debug_files
  BY <1>0, <1>4, <1>8 DEF disk_seen
<1> QED BY <1>0, <1>7, <1>8, <1>9 DEF Matching

(* The words and the listing are used up. *)
LEMMA MatchStep ==
    ASSUME GlobInv, walk_kind = "glob", PlainGroups, stage = "walk",
           \/ NextWord \/ \E e \in listing : MeetOther(e) \/ MeetFile(e)
           \/ EndWalkOfSource
    PROVE  Matching'
<1>1. GlobTypes /\ Matching /\ max_files \in Nat
  BY WalkAssumption DEF GlobInv
<1>2. UNCHANGED disk_seen
  BY DEF NextWord, MeetOther, MeetFile, EndWalkOfSource
<1>3. debug_files' = debug_files /\ \A e : Matched(e)' <=> Matched(e)
  BY <1>2, Kept
<1>4. CASE NextWord
  <2>0. /\ stage = "walk" /\ listing = {} /\ words # <<>> /\ words' = Tail(words)
        /\ listing' = (IF Head(words) \in DOMAIN Matches THEN Matches[Head(words)] ELSE {})
        /\ UNCHANGED <<visited, found, stage>>
    BY <1>4 DEF NextWord
  <2>1. words \in Seq(Seq(Chars))
    BY <1>1 DEF Matching
  <2>2. words' \in Seq(Seq(Chars)) /\ Range(words) = {Head(words)} \cup Range(words')
    <3> PICK n \in Nat \ {0} : n = Len(words)
      BY <2>0, <2>1
    <3>1. /\ words' \in Seq(Seq(Chars)) /\ DOMAIN words = 1..n /\ DOMAIN words' = 1..(n - 1)
          /\ Head(words) = words[1] /\ \A i \in 1..(n - 1) : words'[i] = words[i + 1]
      BY <2>0, <2>1
    <3>2. ASSUME NEW z \in Range(words) PROVE z = Head(words) \/ z \in Range(words')
      <4> PICK i \in 1..n : z = words[i]
        BY <3>1 DEF Range
      <4>1. CASE i = 1
        BY <3>1, <4>1
      <4>2. CASE i # 1
        <5>1. i - 1 \in 1..(n - 1) /\ (i - 1) + 1 = i
          BY <4>2
        <5> QED BY <3>1, <5>1 DEF Range
      <4> QED BY <4>1, <4>2
    <3>3. ASSUME NEW z \in Range(words') PROVE z \in Range(words)
      <4> PICK i \in 1..(n - 1) : z = words'[i]
        BY <3>1 DEF Range
      <4>1. i + 1 \in 1..n
        OBVIOUS
      <4> QED BY <3>1, <4>1 DEF Range
    <3>4. Head(words) \in Range(words)
      <4>1. 1 \in 1..n
        OBVIOUS
      <4> QED BY <3>1, <4>1 DEF Range
    <3> QED BY <3>1, <3>2, <3>3, <3>4
  <2>3. Matchable' = Matchable
    <3> PICK h, R, S : h = Head(words) /\ R = Range(words) /\ S = Range(words')
      OBVIOUS
    <3>1. Matchable = UNION {Matches[w] : w \in R \cap DOMAIN Matches}
      BY <2>0 DEF Matchable
    <3>2. Matchable' = (IF h \in DOMAIN Matches THEN Matches[h] ELSE {})
                       \cup UNION {Matches[w] : w \in S \cap DOMAIN Matches}
      BY <2>0 DEF Matchable
    <3>3. R = {h} \cup S
      BY <2>2
    <3>4. \A e : e \in Matchable <=> e \in Matchable'
      BY ONLY <3>1, <3>2, <3>3
    <3> QED BY <3>4
  <2> QED BY <1>1, <1>3, <2>0, <2>2, <2>3 DEF Matching
<1>5. ASSUME NEW e \in listing, MeetOther(e) \/ MeetFile(e) PROVE Matching'
  <2>1. words' = words /\ listing' = listing \ {e}
    BY <1>5 DEF MeetOther, MeetFile
  <2>2. /\ Matchable' \subseteq Matchable /\ Matchable \subseteq Matchable' \cup {e} /\ e \in Matchable
        /\ words' \in Seq(Seq(Chars))
    BY <1>1, <2>1 DEF Matchable, Matching
  <2>3. Matched(e) /\ debug_files \in SUBSET Files /\ found \in SUBSET debug_files /\ visited \in Nat
    BY <1>1, <2>2 DEF Matching, GlobTypes
  <2>4. CASE MeetOther(e)
    <3>1. e \notin Files /\ UNCHANGED <<visited, found, stage>> /\ stage = "walk"
      BY <2>4 DEF MeetOther
    <3>2. e \notin debug_files
      BY <2>3, <3>1
    <3> QED BY <1>1, <1>3, <2>2, <3>1, <3>2 DEF Matching
  <2>5. CASE MeetFile(e) /\ visited' <= max_files
    <3>1. found' = found \cup ({e} \cap debug_files) /\ stage' = "walk" /\ visited <= max_files
      <4>1. visited' = visited + 1 /\ ~(visited' > max_files) /\ stage = "walk"
        BY <1>1, <2>3, <2>5 DEF MeetFile
      <4> QED BY <1>1, <2>3, <2>5, <4>1 DEF MeetFile, Index
    <3> QED BY <1>1, <1>3, <2>2, <2>3, <3>1 DEF Matching
  <2>6. CASE MeetFile(e) /\ ~(visited' <= max_files)
    <3>1. found' = found
      <4>1. visited' = visited + 1 /\ visited' > max_files
        BY <1>1, <2>3, <2>6 DEF MeetFile
      <4> QED BY <2>6, <4>1 DEF MeetFile
    <3> QED BY <1>1, <1>3, <2>2, <2>6, <3>1 DEF Matching
  <2> QED BY <1>5, <2>4, <2>5, <2>6
<1>6. CASE EndWalkOfSource
  <2>0. /\ listing = {} /\ words = <<>> /\ UNCHANGED <<words, listing, visited, found>>
    BY <1>6 DEF EndWalkOfSource
  <2>1. Matchable = {} /\ Matchable' = Matchable
    <3>1. Range(words) = {}
      <4>1. DOMAIN words = {}
        BY <2>0
      <4> QED BY <4>1 DEF Range
    <3> QED BY <2>0, <3>1 DEF Matchable
  <2> QED BY <1>1, <1>3, <2>0, <2>1 DEF Matching
<1> QED BY <1>4, <1>5, <1>6

(* Every step of a walk keeps the invariant of glob sources. *)
LEMMA GlobNext ==
    ASSUME GlobInv, [WalkNext]_walkVars
    PROVE  GlobInv'
<1>1. ASSUME UNCHANGED walkVars PROVE GlobInv'
  <2>1. /\ UNCHANGED disk_seen
        /\ UNCHANGED <<rest, group, depth, words, stack, listing, visited, found, stage>>
    BY <1>1 DEF walkVars
  <2>2. (Expanding' <=> Expanding) /\ (Matching' <=> Matching) /\ (GlobTypes' <=> GlobTypes)
    BY <2>1, Kept DEF Expanding, Matching, GlobTypes, Left, Matchable
  <2> QED BY <2>1, <2>2, Kept DEF GlobInv
<1>2. CASE WalkNext
  <2>1. UNCHANGED disk_seen
    BY <1>2 DEF WalkNext, Literal, OpenGroup, GroupChar, CloseGroup, Expanded, NextWord, NextDir,
                MeetOther, MeetFile, EndWalkOfSource, Walked, walkVars
  <2>2. SUFFICES ASSUME walk_kind = "glob" PROVE GlobTypes' /\ (PlainGroups => IF stage' = "expand" THEN Expanding' ELSE Matching')
    BY <2>1, Kept DEF GlobInv
  <2>3. GlobTypes
    BY <2>2 DEF GlobInv
  <2>4. /\ walk_kind' = walk_kind /\ debug_files' = debug_files /\ pattern' = pattern
    BY <2>1, Kept
  <2>5. CASE Literal \/ OpenGroup \/ GroupChar \/ CloseGroup
    <3>1. stage = "expand" /\ UNCHANGED <<stack, visited, found, stage>>
      BY <2>5 DEF Literal, OpenGroup, GroupChar, CloseGroup
    <3>2. GlobTypes'
      BY <2>3, <2>4, <3>1 DEF GlobTypes
    <3>3. PlainGroups => Expanding'
      BY <2>2, <2>5, LiteralMeaning, OpenGroupMeaning, GroupCharMeaning, CloseGroupMeaning
    <3> QED BY <3>1, <3>2, <3>3
  <2>6. CASE Expanded
    <3>1. stage' = "walk" /\ UNCHANGED <<stack, visited, found>>
      BY <2>6 DEF Expanded
    <3>2. GlobTypes'
      BY <2>3, <2>4, <3>1 DEF GlobTypes
    <3> QED BY <2>2, <2>6, <3>1, <3>2, ExpandedGlob
  <2>7. CASE NextWord \/ (\E e \in listing : MeetOther(e) \/ MeetFile(e)) \/ EndWalkOfSource
    <3>1. stage = "walk" /\ stage' \in {"walk", "done"}
      BY <2>7 DEF NextWord, MeetOther, MeetFile, EndWalkOfSource
    <3>2. stack' = <<>>
      BY <2>2, <2>3, <2>7 DEF NextWord, MeetOther, MeetFile, EndWalkOfSource, GlobTypes
    <3>3. visited' \in Nat /\ found' \in SUBSET debug_files
      BY <2>3, <2>7 DEF NextWord, MeetOther, MeetFile, EndWalkOfSource, GlobTypes, Index
    <3>4. GlobTypes'
      BY <2>3, <2>4, <3>1, <3>2, <3>3 DEF GlobTypes
    <3>5. PlainGroups => Matching'
      BY <2>2, <2>7, <3>1, MatchStep
    <3> QED BY <3>1, <3>4, <3>5
  <2>8. CASE NextDir
    BY <2>3, <2>8 DEF NextDir, GlobTypes
  <2>9. CASE Walked
    <3>1. GlobInv'
      BY <1>1, <2>9 DEF Walked
    <3>2. PlainGroups' <=> PlainGroups
      BY <2>1, Kept
    <3> QED BY <2>2, <2>4, <3>1, <3>2 DEF GlobInv
  <2> QED BY <1>2, <2>5, <2>6, <2>7, <2>8, <2>9 DEF WalkNext
<1> QED BY <1>1, <1>2

(* It holds throughout a walk. *)
LEMMA GlobInvariant == WalkSpec => []GlobInv
<1>1. WalkInit => GlobInv
  BY GlobInit
<1>2. GlobInv /\ [WalkNext]_walkVars => GlobInv'
  BY GlobNext
<1> QED BY <1>1, <1>2, PTL DEF WalkSpec

-----------------------------------------------------------------------------
(* A directory source indexes the debug files of its tree, a glob source   *)
(* those of the meaning of its pattern (groups closed and not nested), all *)
(* of them unless the cap cuts the walk short, whatever cannot be listed   *)
(* and in whatever order entries are met; and no more files than the cap   *)
(* (index_dir, visit, index_glob, expand_braces).                          *)
THEOREM SourcesAreFound == WalkSpec => []WalkFindsAll
<1>1. WalkSpec => [](walk_kind \in {"dir", "glob"})
  <2>1. WalkInit => walk_kind \in {"dir", "glob"}
    BY DEF WalkInit
  <2>2. walk_kind \in {"dir", "glob"} /\ [WalkNext]_walkVars => (walk_kind \in {"dir", "glob"})'
    BY DEF WalkNext, Literal, OpenGroup, GroupChar, CloseGroup, Expanded, NextWord, NextDir,
           MeetOther, MeetFile, EndWalkOfSource, Walked, walkVars, disk_seen
  <2> QED BY <2>1, <2>2, PTL DEF WalkSpec
<1>2. ASSUME WalkInv, walk_kind = "dir", stage = "done", visited <= max_files
      PROVE  found = Wanted
  <2>1. /\ found \subseteq debug_files /\ Pending = {}
        /\ \A e \in found : Reached(unreadable, {Root}, e)
        /\ \A e \in debug_files : Reached(unreadable, {Root}, e) => e \in found \/ Reached(unreadable, Pending, e)
    BY <1>2 DEF WalkInv
  <2>2. \A e : ~Reached(unreadable, {}, e)
    <3>1. Entered(unreadable, {}) /\ {} \in SUBSET Places
      BY DEF Entered
    <3> QED BY <3>1 DEF Reached
  <2>3. Wanted = {e \in debug_files : Reached(unreadable, {Root}, e)}
    BY <1>2, InTreeIsReached DEF Wanted
  <2> QED BY <2>1, <2>2, <2>3
<1>3. ASSUME GlobInv, walk_kind = "glob", PlainGroups, stage = "done", visited <= max_files
      PROVE  found = Wanted
  <2>1. found \subseteq debug_files /\ Matching
    BY <1>3 DEF GlobInv, GlobTypes
  <2>2. /\ \A e \in found : Matched(e)
        /\ \A e \in debug_files : Matched(e) => e \in found
    BY <1>3, <2>1 DEF Matching
  <2>3. Wanted = {e \in debug_files : Matched(e)}
    BY <1>3 DEF Wanted
  <2> QED BY <2>1, <2>2, <2>3
<1>4. WalkInv /\ GlobInv /\ walk_kind \in {"dir", "glob"} => WalkFindsAll
  <2> SUFFICES ASSUME WalkInv, GlobInv, walk_kind \in {"dir", "glob"} PROVE WalkFindsAll
    OBVIOUS
  <2>1. Root \notin Files => Cardinality(found) <= max_files
    BY DEF WalkInv
  <2>2. stage = "done" /\ visited <= max_files /\ PlainGroups => found = Wanted
    BY <1>2, <1>3
  <2> QED BY <2>1, <2>2 DEF WalkFindsAll
<1> QED BY <1>1, <1>4, WalkInvariant, GlobInvariant, PTL
=============================================================================
