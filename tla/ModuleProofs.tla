---------------------------- MODULE ModuleProofs ----------------------------
(***************************************************************************)
(* Theorems of a parsed module (module/mod.rs, dwarf.rs, pdb.rs): whatever *)
(* the DWARF and PDB readers yield, the result for an address has the      *)
(* shape of an inline chain, its frames are the reader's, and the fast     *)
(* path agrees with it; the symbol of an address is the nearest below it,  *)
(* also where the table is not sorted by RVA; a probe and a parse of one   *)
(* file agree, and the statistics of a parse lie between those of the      *)
(* units before the first decode error and those of all units it walked.   *)
(***************************************************************************)
EXTENDS FrameResolve, ModuleParse, SequenceLemmas, TLAPS

(* Nothing covers the address: it cannot be probed, or the reader has no   *)
(* frame for it.                                                           *)
Uncovered ==
    \/ ~probe_ok
    \/ format = "pdb" /\ lookup = "none"
    \/ lookup = "frames" /\ walk = <<>>

(* What was collected is the beginning of what the reader yields.          *)
Collected ==
    /\ walk \in Seq(Items) /\ raw \in Seq(Names \cup {None})
    /\ Len(raw) <= MaxDepth /\ Len(raw) <= Len(walk)
    /\ \A i \in 1..Len(raw) : raw[i] = walk[i]

(* A result is an error of the reader, no line where nothing covers the    *)
(* address, or what was collected.                                         *)
Result ==
    \/ frames = <<error_frame>> /\ (probe_ok \/ lookup = "CTX")
    \/ frames = <<no_line_frame>> /\ Uncovered
    \/ frames = Expand(raw) /\ raw # <<>> /\ lookup = "frames" /\ probe_ok

(* The inductive invariant of the resolution.                              *)
FrameInv ==
    /\ lookup \in Lookups /\ Collected
    /\ pc = "start" => raw = <<>>
    /\ pc = "walking" => lookup = "frames" /\ probe_ok
    /\ pc = "done" => Result

-----------------------------------------------------------------------------
(* FrameInv holds initially.                                               *)
LEMMA FrameInitInv == Init => FrameInv
<1> SUFFICES ASSUME Init PROVE FrameInv
  OBVIOUS
<1>1. walk \in Seq(Items)
  <2>1. CASE lookup = "frames"
    BY <2>1 DEF Init
  <2>2. CASE lookup # "frames"
    BY <2>2 DEF Init
  <2> QED BY <2>1, <2>2
<1>2. raw = <<>> /\ Len(raw) = 0 /\ pc = "start" /\ lookup \in Lookups
  BY DEF Init
<1>3. Len(walk) \in Nat
  BY <1>1
<1> QED BY <1>1, <1>2, <1>3, FrameAssumption DEF FrameInv, Collected

(* The inputs do not change.                                               *)
LEMMA InputKept ==
    ASSUME UNCHANGED input, Collected, raw' = raw
    PROVE  Collected' /\ Lookups' = Lookups /\ lookup' = lookup /\ walk' = walk /\ format' = format
           /\ probe_ok' = probe_ok /\ no_line_frame' = no_line_frame /\ Uncovered' = Uncovered
<1>1. format' = format /\ symtab' = symtab /\ addr' = addr /\ lookup' = lookup /\ walk' = walk
  BY DEF input
<1>2. Items' = Items /\ Lookups' = Lookups
  BY <1>1 DEF Items, Lookups
<1>3. Collected'
  BY <1>1, <1>2 DEF Collected
<1>4. no_line_frame' = no_line_frame
  <2>1. symbol_for(addr)' = symbol_for(addr)
    BY <1>1 DEF symbol_for
  <2> QED BY <1>1, <2>1 DEF no_line_frame, blank_frame
<1>5. probe_ok' = probe_ok
  BY <1>1 DEF probe_ok
<1> QED BY <1>1, <1>2, <1>3, <1>4, <1>5 DEF Uncovered

(* A frame is taken.                                                       *)
LEMMA TakeFrameInv == ASSUME FrameInv, TakeFrame PROVE FrameInv'
<1>1. /\ pc = "walking" /\ pc' = pc /\ UNCHANGED input
      /\ raw' = Append(raw, NextItem) /\ NextItem \in Names \cup {None}
      /\ Len(raw) < MaxDepth
  BY DEF TakeFrame
<1>2. format' = format /\ addr' = addr /\ lookup' = lookup /\ walk' = walk
  BY <1>1 DEF input
<1> DEFINE n == Len(raw)
           k == Len(walk)
<1>3. /\ raw \in Seq(Names \cup {None}) /\ walk \in Seq(Items) /\ n \in Nat /\ k \in Nat /\ n <= k
      /\ \A i \in 1..n : raw[i] = walk[i]
  BY DEF FrameInv, Collected
<1>4. n < k /\ NextItem = walk[n + 1]
  BY <1>1, <1>3, FrameAssumption DEF NextItem
<1>5. /\ raw' \in Seq(Names \cup {None}) /\ Len(raw') = n + 1
      /\ raw'[n + 1] = walk[n + 1] /\ \A i \in 1..n : raw'[i] = raw[i]
  BY <1>1, <1>3, <1>4
<1> HIDE DEF n, k
<1>6. \A i \in 1..(n + 1) : raw'[i] = walk[i]
  <2>1. \A i \in 1..(n + 1) : i \in 1..n \/ i = n + 1
    BY <1>3
  <2> QED BY <1>3, <1>5, <2>1
<1>7. n + 1 <= k /\ n + 1 <= MaxDepth
  BY <1>1, <1>3, <1>4, FrameAssumption DEF n
<1>8. Collected'
  BY <1>2, <1>3, <1>5, <1>6, <1>7 DEF Collected, Items, k
<1>9. lookup' \in Lookups' /\ probe_ok' = probe_ok
  BY <1>2 DEF FrameInv, Lookups, probe_ok
<1> QED BY <1>1, <1>2, <1>8, <1>9 DEF FrameInv

(* The walk ends, without a panic.                                         *)
LEMMA EndWalkInv == ASSUME FrameInv, EndWalk PROVE FrameInv'
<1>1. /\ pc = "walking" /\ pc' = "done" /\ UNCHANGED input /\ raw' = raw
      /\ StopReason \in {"cap", "END", "ERR"}
      /\ frames' = IF raw # <<>> THEN Expand(raw)
                   ELSE <<IF StopReason = "ERR" THEN error_frame ELSE no_line_frame>>
  BY DEF EndWalk, Return
<1>2. lookup = "frames" /\ probe_ok /\ Collected /\ lookup \in Lookups
  BY <1>1 DEF FrameInv
<1>3. /\ Collected' /\ Lookups' = Lookups /\ lookup' = lookup
      /\ probe_ok' = probe_ok /\ no_line_frame' = no_line_frame /\ Uncovered' = Uncovered
  BY <1>1, <1>2, InputKept
<1>4. CASE raw # <<>>
  <2>1. frames' = Expand(raw)' /\ raw' # <<>>
    BY <1>1, <1>4 DEF Expand
  <2> QED BY <1>1, <1>2, <1>3, <2>1 DEF FrameInv, Result
<1>5. CASE raw = <<>> /\ StopReason = "ERR"
  BY <1>1, <1>2, <1>3, <1>5 DEF FrameInv, Result, error_frame, blank_frame
<1>6. CASE raw = <<>> /\ StopReason # "ERR"
  <2>1. Len(raw) = 0 /\ walk \in Seq(Items)
    BY <1>2, <1>6 DEF Collected
  <2>2. walk = <<>>
    <3>1. SUFFICES ASSUME walk # <<>> PROVE FALSE
      OBVIOUS
    <3>2. Len(walk) \in Nat /\ Len(walk) # 0 /\ walk[1] \in Items
      BY <2>1, <3>1
    <3>3. StopReason = walk[1]
      BY <2>1, <3>2, FrameAssumption DEF StopReason, NextItem
    <3> QED BY <1>1, <1>6, <3>2, <3>3, FrameAssumption DEF Items
  <2>3. Uncovered /\ frames' = <<no_line_frame>>
    BY <1>1, <1>2, <1>6, <2>2 DEF Uncovered
  <2> QED BY <1>1, <1>2, <1>3, <2>3 DEF FrameInv, Result
<1> QED BY <1>4, <1>5, <1>6

(* The lookup ends early, or with a panic.                                 *)
LEMMA ReturnInv ==
    ASSUME FrameInv, ResolveEarly \/ WalkPanics
    PROVE  FrameInv'
<1>1. /\ pc' = "done" /\ UNCHANGED input /\ raw' = raw
      /\ \/ frames' = <<error_frame>> /\ (probe_ok \/ lookup = "CTX")
         \/ frames' = <<no_line_frame>> /\ Uncovered
  <2>1. CASE ResolveEarly
    BY <2>1 DEF ResolveEarly, Return, Uncovered, FrameInv, Lookups
  <2>2. CASE WalkPanics
    BY <2>2 DEF WalkPanics, Return, FrameInv
  <2> QED BY <2>1, <2>2
<1>2. /\ Collected' /\ Lookups' = Lookups /\ lookup' = lookup /\ probe_ok' = probe_ok
      /\ no_line_frame' = no_line_frame /\ Uncovered' = Uncovered
  BY <1>1, InputKept DEF FrameInv
<1> QED BY <1>1, <1>2 DEF FrameInv, Result, error_frame, blank_frame

(* Every step preserves FrameInv.                                          *)
LEMMA FrameNextInv == ASSUME FrameInv, [Next]_vars PROVE FrameInv'
<1>1. CASE ResolveWalk
  <2>1. pc' = "walking" /\ lookup = "frames" /\ probe_ok /\ UNCHANGED input /\ raw' = raw
    BY <1>1 DEF ResolveWalk
  <2> QED BY <2>1, InputKept DEF FrameInv
<1>2. CASE Done \/ UNCHANGED vars
  <2>1. UNCHANGED input /\ raw' = raw /\ pc' = pc /\ frames' = frames
    BY <1>2 DEF Done, vars, input
  <2> QED BY <2>1, InputKept DEF FrameInv, Result, Expand, error_frame, blank_frame
<1> QED BY <1>1, <1>2, ReturnInv, TakeFrameInv, EndWalkInv DEF Next

(* FrameInv holds in every reachable state.                                *)
THEOREM FrameInvariant == Spec => []FrameInv
<1>1. FrameInv /\ [Next]_vars => FrameInv'
  BY FrameNextInv
<1> QED BY <1>1, FrameInitInv, PTL DEF Spec

-----------------------------------------------------------------------------
(* "Always returns at least one row": a finished resolution is an inline   *)
(* chain of at most MaxDepth frames, or a single frame without a line,     *)
(* which is not inline.                                                    *)
THEOREM ResultsAreChains == Spec => []ChainShape
<1>1. ASSUME FrameInv, pc = "done"
      PROVE  /\ Len(frames) \in 1..MaxDepth
             /\ \A i \in DOMAIN frames :
                  /\ frames[i].depth = i - 1
                  /\ frames[i].inline <=> i < Len(frames)
                  /\ frames[i].status # "ok" => Len(frames) = 1 /\ ~frames[i].inline
  <2>1. CASE frames = <<error_frame>> \/ frames = <<no_line_frame>>
    <3>1. PICK f : frames = <<f>> /\ f.depth = 0 /\ f.inline = FALSE
      BY <2>1 DEF error_frame, no_line_frame, blank_frame
    <3>2. Len(frames) = 1 /\ DOMAIN frames = {1} /\ frames[1] = f
      BY <3>1
    <3>3. 1 \in 1..MaxDepth /\ \A i \in DOMAIN frames : i = 1 /\ frames[i] = f
      BY <3>1, <3>2, FrameAssumption
    <3>4. ~f.inline
      BY <3>1
    <3> QED BY <3>1, <3>2, <3>3, <3>4
  <2>2. CASE frames = Expand(raw) /\ raw # <<>>
    <3> DEFINE n == Len(raw)
    <3>1. n \in Nat /\ n # 0 /\ n <= MaxDepth /\ DOMAIN raw = 1..n
      BY <1>1, <2>2 DEF FrameInv, Collected
    <3>2. frames = [i \in 1..n |->
                     [depth |-> i - 1, inline |-> i < n, function |-> raw[i], status |-> "ok"]]
      BY <2>2, <3>1 DEF Expand
    <3> HIDE DEF n
    <3>3. Len(frames) = n /\ DOMAIN frames = 1..n
      BY <3>1, <3>2
    <3>4. ASSUME NEW i \in 1..n
          PROVE  frames[i].depth = i - 1 /\ frames[i].status = "ok"
      BY <3>2
    <3>5. ASSUME NEW i \in 1..n PROVE frames[i].inline <=> i < n
      BY <3>2, Zenon
    <3>6. n \in 1..MaxDepth
      BY <3>1, FrameAssumption
    <3> QED BY <3>3, <3>4, <3>5, <3>6
  <2> QED BY <1>1, <2>1, <2>2 DEF FrameInv, Result
<1>2. FrameInv => ChainShape
  <2> SUFFICES ASSUME FrameInv, pc = "done"
               PROVE  /\ Len(frames) \in 1..MaxDepth
                      /\ \A i \in DOMAIN frames :
                           /\ frames[i].depth = i - 1
                           /\ i < Len(frames) => frames[i].inline
                           /\ frames[i].status # "ok" => Len(frames) = 1 /\ ~frames[i].inline
                      /\ ~frames[Len(frames)].inline
    BY DEF ChainShape
  <2>1. Len(frames) \in DOMAIN frames
    BY <1>1, FrameAssumption DEF FrameInv, Result, Expand
  <2> QED BY <1>1, <2>1
<1> QED BY <1>2, FrameInvariant, PTL

(* A line is never invented: an ok frame is the reader's, in its place.    *)
THEOREM NothingIsInvented == Spec => []FramesFromReader
<1>1. ASSUME FrameInv, pc = "done", NEW i \in DOMAIN frames, frames[i].status = "ok"
      PROVE  lookup = "frames" /\ i <= Len(walk) /\ frames[i].function = walk[i]
  <2>1. frames # <<error_frame>> /\ frames # <<no_line_frame>>
    <3>1. ASSUME NEW f, frames = <<f>>, f.status # "ok" PROVE FALSE
      BY <1>1, <3>1
    <3>2. error_frame.status # "ok" /\ no_line_frame.status # "ok"
      BY DEF error_frame, no_line_frame, blank_frame
    <3> QED BY <3>1, <3>2
  <2>2. frames = Expand(raw) /\ lookup = "frames"
    BY <1>1, <2>1 DEF FrameInv, Result
  <2> DEFINE n == Len(raw)
             k == Len(walk)
  <2>3. /\ n \in Nat /\ k \in Nat /\ n <= k /\ DOMAIN raw = 1..n
        /\ \A j \in 1..n : raw[j] = walk[j]
    BY <1>1 DEF FrameInv, Collected
  <2>4. i \in 1..n /\ frames[i].function = raw[i]
    BY <1>1, <2>2, <2>3 DEF Expand
  <2> HIDE DEF n, k
  <2> QED BY <2>2, <2>3, <2>4 DEF k
<1>2. FrameInv => FramesFromReader
  BY <1>1 DEF FramesFromReader
<1> QED BY <1>2, FrameInvariant, PTL

(* Where the innermost frame has a function, function_name returns it.     *)
THEOREM FastPathIsInnermost == Spec => []FastPathAgrees
<1>1. ASSUME FrameInv, pc = "done", frames[1].function # None
      PROVE  function_name = frames[1].function
  <2>1. CASE frames = <<error_frame>>
    BY <1>1, <2>1 DEF error_frame, blank_frame
  <2>2. CASE frames = <<no_line_frame>> /\ Uncovered
    <3>1. format # "pdb" /\ frames[1].function = symbol_for(addr)
      BY <1>1, <2>2 DEF no_line_frame, blank_frame
    <3> QED BY <2>2, <3>1 DEF Uncovered, function_name, InnermostName, ReaderPanics
  <2>3. CASE frames = Expand(raw) /\ raw # <<>> /\ lookup = "frames" /\ probe_ok
    <3>1. /\ Len(raw) \in Nat /\ Len(raw) # 0 /\ Len(walk) \in Nat /\ Len(raw) <= Len(walk)
          /\ raw[1] \in Names \cup {None} /\ raw[1] = walk[1] /\ 1 \in DOMAIN raw
      BY <1>1, <2>3 DEF FrameInv, Collected
    <3>2. frames[1].function = walk[1] /\ walk # <<>>
      BY <2>3, <3>1 DEF Expand
    <3>3. walk[1] \in Names /\ walk[1] # "PANIC" /\ walk[1] # None
      BY <1>1, <3>1, <3>2, FrameAssumption
    <3> QED BY <2>3, <3>2, <3>3 DEF function_name, InnermostName, ReaderPanics
  <2> QED BY <1>1, <2>1, <2>2, <2>3 DEF FrameInv, Result
<1>2. FrameInv => FastPathAgrees
  BY <1>1 DEF FastPathAgrees
<1> QED BY <1>2, FrameInvariant, PTL

-----------------------------------------------------------------------------
(* The symbol table *)

(* The symbols that are first at their address: one of each address, and   *)
(* for every symbol the first one that starts where it does.               *)
LEMMA FirstsProps ==
    ASSUME NEW tab \in Seq(Symbol)
    PROVE  /\ FirstSymbols(tab) \in SUBSET Symbol /\ IsFiniteSet(FirstSymbols(tab))
           /\ \A s, t \in FirstSymbols(tab) : s.addr = t.addr => s = t
           /\ \A i \in DOMAIN tab : \E k \in DOMAIN tab :
                /\ k <= i /\ tab[k] \in FirstSymbols(tab) /\ tab[k].addr = tab[i].addr
                /\ \A j \in 1..(k - 1) : tab[j].addr # tab[i].addr
<1> DEFINE n == Len(tab)
           firsts == {i \in DOMAIN tab : \A j \in 1..(i - 1) : tab[j].addr # tab[i].addr}
<1>1. n \in Nat /\ DOMAIN tab = 1..n /\ \A i \in 1..n : tab[i] \in Symbol
  OBVIOUS
<1>2. FirstSymbols(tab) = {tab[i] : i \in firsts}
  BY DEF FirstSymbols
<1>3. IsFiniteSet(firsts)
  <2>1. IsFiniteSet(1..n)
    BY <1>1, FS_Interval
  <2> QED BY <1>1, <2>1, FS_Subset
<1>4. IsFiniteSet({tab[i] : i \in firsts})
  <2> PICK I : I = firsts
    OBVIOUS
  <2> DEFINE f == [i \in I |-> tab[i]]
  <2>1. f \in Surjection(I, {tab[i] : i \in I})
    BY DEF Surjection
  <2>2. IsFiniteSet(I)
    BY <1>3
  <2>3. IsFiniteSet({tab[i] : i \in I})
    <3> HIDE DEF f, firsts
    <3> QED BY <2>1, <2>2, FS_Surjection
  <2> QED BY <2>3
<1>5. ASSUME NEW i \in firsts, NEW k \in firsts, tab[i].addr = tab[k].addr PROVE i = k
  <2>1. i \in 1..n /\ k \in 1..n
    BY <1>1
  <2>2. ~(i < k)
    <3>1. SUFFICES ASSUME i < k PROVE FALSE
      OBVIOUS
    <3>2. i \in 1..(k - 1)
      BY <2>1, <3>1
    <3> QED BY <1>5, <3>2
  <2>3. ~(k < i)
    <3>1. SUFFICES ASSUME k < i PROVE FALSE
      OBVIOUS
    <3>2. k \in 1..(i - 1)
      BY <2>1, <3>1
    <3> QED BY <1>5, <3>2
  <2> QED BY <2>1, <2>2, <2>3
<1>6. ASSUME NEW i \in 1..n
      PROVE  \E k \in 1..n :
               /\ k <= i /\ k \in firsts /\ tab[k].addr = tab[i].addr
               /\ \A j \in 1..(k - 1) : tab[j].addr # tab[i].addr
  <2> DEFINE Same == {j \in 1..n : tab[j].addr = tab[i].addr}
  <2>1. Same \in SUBSET Nat /\ Same # {} /\ i \in Same
    BY <1>1
  <2>2. Min(Same) \in Same /\ \A j \in Same : Min(Same) <= j
    <3> HIDE DEF Same
    <3> QED BY <2>1, MinProps
  <2>3. PICK k \in Same : k = Min(Same)
    BY <2>2
  <2>4. k \in 1..n /\ k <= i /\ tab[k].addr = tab[i].addr
    BY <2>1, <2>2, <2>3
  <2>5. ASSUME NEW j \in 1..(k - 1) PROVE tab[j].addr # tab[i].addr
    <3>1. j \in 1..n /\ j < k
      BY <1>1, <2>4
    <3>2. j \notin Same
      <4> HIDE DEF Same
      <4> QED BY <2>2, <2>3, <2>4, <3>1
    <3> QED BY <3>1, <3>2
  <2>6. k \in firsts
    BY <1>1, <2>4, <2>5
  <2> QED BY <2>4, <2>5, <2>6
<1>7. \A s, t \in FirstSymbols(tab) : s.addr = t.addr => s = t
  <2> HIDE DEF firsts
  <2> QED BY <1>2, <1>5
<1>8. FirstSymbols(tab) \in SUBSET Symbol
  BY <1>1, <1>2
<1> QED
  <2> HIDE DEF firsts, n
  <2> QED BY <1>1, <1>2, <1>4, <1>6, <1>7, <1>8

(* parse's table: the symbols that are first at their address, each in one *)
(* place, in the order of their addresses.                                 *)
LEMMA SortedProps ==
    ASSUME NEW tab \in Seq(Symbol)
    PROVE  LET syms == SortedSymbols(tab) IN
           /\ syms \in Seq(FirstSymbols(tab))
           /\ \A i, j \in 1..Len(syms) : i < j => syms[i].addr < syms[j].addr
           /\ \A s \in FirstSymbols(tab) : \E i \in 1..Len(syms) : syms[i] = s
<1> PICK T : T = FirstSymbols(tab)
  OBVIOUS
<1>1. T \in SUBSET Symbol /\ IsFiniteSet(T) /\ \A s, t \in T : s.addr = t.addr => s = t
  BY FirstsProps
<1> DEFINE key == [s \in Symbol |-> s.addr]
<1>2. \A s \in T : s.addr \in Nat /\ key[s] = s.addr
  BY <1>1, FrameAssumption DEF Symbol, Addrs
<1>3. (\A s \in T : key[s] \in Nat) /\ \A s, t \in T : key[s] = key[t] => s = t
  BY <1>1, <1>2
<1>4. PICK g : InOrder(key, T, g)
  <2> HIDE DEF key
  <2> QED BY <1>1, <1>3, OrderExists
<1> DEFINE Fits(f) == \A i, j \in 1..Cardinality(T) : i < j => f[i].addr < f[j].addr
<1>5. \A f \in [1..Cardinality(T) -> T] : Fits(f) <=> InOrder(key, T, f)
  <2> SUFFICES ASSUME NEW f \in [1..Cardinality(T) -> T] PROVE Fits(f) <=> InOrder(key, T, f)
    OBVIOUS
  <2>1. \A i \in 1..Cardinality(T) : key[f[i]] = f[i].addr
    BY <1>2
  <2> HIDE DEF key
  <2> QED BY <2>1 DEF InOrder
<1>6. g \in [1..Cardinality(T) -> T] /\ Fits(g)
  <2>1. g \in [1..Cardinality(T) -> T]
    BY <1>4 DEF InOrder
  <2> HIDE DEF key, Fits
  <2> QED BY <1>4, <1>5, <2>1
<1> DEFINE syms == CHOOSE f \in [1..Cardinality(T) -> T] : Fits(f)
<1>7. syms \in [1..Cardinality(T) -> T] /\ Fits(syms)
  BY <1>6
<1>8. SortedSymbols(tab) = syms
  BY DEF SortedSymbols
<1> PICK q : q = syms
  OBVIOUS
<1>9. InOrder(key, T, q) /\ Fits(q)
  <2> HIDE DEF key, Fits
  <2> QED BY <1>5, <1>7
<1>10. q \in Seq(T) /\ Len(q) = Cardinality(T) /\ \A s \in T : \E i \in 1..Len(q) : q[i] = s
  <2> PICK k : k = key
    OBVIOUS
  <2>1. InOrder(k, T, q)
    BY <1>9
  <2>2. IsFiniteSet(T) /\ \A s \in T : k[s] \in Nat
    BY <1>1, <1>3
  <2> HIDE DEF key, syms, Fits
  <2>3. q \in Seq(T) /\ Len(q) = Cardinality(T)
    BY <2>1, <2>2, OrderProps
  <2>4. \A s \in T : \E i \in 1..Len(q) : q[i] = s
    BY <2>1, <2>2, OrderProps
  <2> QED BY <2>3, <2>4
<1>11. \A i, j \in 1..Len(q) : i < j => q[i].addr < q[j].addr
  BY <1>9, <1>10
<1> HIDE DEF syms
<1> QED BY <1>8, <1>10, <1>11
(* The search finds the last symbol at or below an address, if one is.     *)
LEMMA NearestProps ==
    ASSUME NEW T \in SUBSET Symbol, NEW syms \in Seq(T), NEW a \in Addrs
    PROVE  LET i == NearestBelow(syms, a) IN
           \/ i = 0 /\ \A j \in 1..Len(syms) : ~(syms[j].addr <= a)
           \/ /\ i \in 1..Len(syms) /\ syms[i].addr <= a
              /\ \A j \in 1..Len(syms) : syms[j].addr <= a => j <= i
<1> DEFINE n == Len(syms)
           I == {j \in 1..n : syms[j].addr <= a}
<1>1. n \in Nat
  OBVIOUS
<1>2. NearestBelow(syms, a) = IF I # {} THEN Max(I) ELSE 0
  BY DEF NearestBelow, SelectLastInSeq
<1>3. CASE I = {}
  BY <1>2, <1>3
<1>4. CASE I # {}
  <2>1. Max(I) \in I /\ \A j \in I : j <= Max(I)
    <3>1. I \in SUBSET (1..n)
      OBVIOUS
    <3> HIDE DEF I, n
    <3> QED BY <1>1, <1>4, <3>1, GreatestIndex
  <2>2. PICK i : i = Max(I)
    OBVIOUS
  <2>3. i \in I /\ \A j \in I : j <= i
    BY <2>1, <2>2
  <2>4. NearestBelow(syms, a) = i
    <3> HIDE DEF I
    <3> QED BY <1>2, <1>4, <2>2
  <2>5. i \in 1..n /\ syms[i].addr <= a /\ \A j \in 1..n : syms[j].addr <= a => j <= i
    BY <2>3
  <2> HIDE DEF I, n
  <2> QED BY <2>4, <2>5 DEF n
<1> QED BY <1>3, <1>4

(* The symbol of an address: the one with the greatest start at or below   *)
(* it, the first of the table where several start there.                   *)
LEMMA SymbolFor ==
    ASSUME NEW a \in Addrs, symtab \in Seq(Symbol)
    PROVE  LET below == {i \in DOMAIN symtab : symtab[i].addr <= a}
               best == {i \in below : \A j \in below :
                          \/ symtab[j].addr < symtab[i].addr
                          \/ symtab[j].addr = symtab[i].addr /\ i <= j}
           IN  /\ below = {} => symbol_for(a) = None
               /\ below # {} => \E i \in best : symbol_for(a) = symtab[i].name
<1> DEFINE n == Len(symtab)
           syms == SortedSymbols(symtab)
           firsts == FirstSymbols(symtab)
           k == NearestBelow(syms, a)
           below == {i \in DOMAIN symtab : symtab[i].addr <= a}
<1>1. /\ n \in Nat /\ DOMAIN symtab = 1..n
      /\ \A i \in 1..n : symtab[i] \in Symbol /\ symtab[i].addr \in Nat
  <2>1. n \in Nat /\ DOMAIN symtab = 1..n /\ \A i \in 1..n : symtab[i] \in Symbol
    OBVIOUS
  <2>2. \A s \in Symbol : s.addr \in Nat
    BY FrameAssumption DEF Symbol, Addrs
  <2> HIDE DEF n
  <2> QED BY <2>1, <2>2
<1>2. a \in Nat
  BY FrameAssumption DEF Addrs
<1>3. /\ firsts \in SUBSET Symbol
      /\ \A i \in 1..n : \E j \in 1..n :
           /\ j <= i /\ symtab[j] \in firsts /\ symtab[j].addr = symtab[i].addr
           /\ \A l \in 1..(j - 1) : symtab[l].addr # symtab[i].addr
  <2>1. /\ FirstSymbols(symtab) \in SUBSET Symbol
        /\ \A i \in DOMAIN symtab : \E j \in DOMAIN symtab :
             /\ j <= i /\ symtab[j] \in FirstSymbols(symtab) /\ symtab[j].addr = symtab[i].addr
             /\ \A l \in 1..(j - 1) : symtab[l].addr # symtab[i].addr
    BY FirstsProps
  <2> HIDE DEF n
  <2> QED BY <1>1, <2>1
<1>4. /\ syms \in Seq(firsts)
      /\ \A i, j \in 1..Len(syms) : i < j => syms[i].addr < syms[j].addr
      /\ \A s \in firsts : \E i \in 1..Len(syms) : syms[i] = s
  BY SortedProps
<1>5. \/ k = 0 /\ \A j \in 1..Len(syms) : ~(syms[j].addr <= a)
      \/ /\ k \in 1..Len(syms) /\ syms[k].addr <= a
         /\ \A j \in 1..Len(syms) : syms[j].addr <= a => j <= k
  <2> HIDE DEF syms, firsts
  <2> QED BY <1>3, <1>4, NearestProps
<1>6. symbol_for(a) = IF k = 0 THEN None ELSE syms[k].name
  BY DEF symbol_for
<1>7. \A s \in firsts : \E i \in 1..n : symtab[i] = s /\ \A j \in 1..(i - 1) : symtab[j].addr # s.addr
  BY <1>1 DEF FirstSymbols
<1> HIDE DEF syms, firsts, n, k
<1>8. ASSUME NEW i \in 1..n, symtab[i].addr <= a
      PROVE  \E j \in 1..Len(syms) : syms[j].addr = symtab[i].addr
  <2>1. PICK j \in 1..n : symtab[j] \in firsts /\ symtab[j].addr = symtab[i].addr
    BY <1>3
  <2>2. PICK m \in 1..Len(syms) : syms[m] = symtab[j]
    BY <1>4, <2>1
  <2> QED BY <2>1, <2>2
<1>9. CASE k = 0
  <2>1. Len(syms) \in Nat /\ \A j \in 1..Len(syms) : ~(syms[j].addr <= a)
    BY <1>4, <1>5, <1>9
  <2>2. below = {}
    BY <1>1, <1>8, <2>1
  <2> QED BY <1>6, <1>9, <2>2
<1>10. CASE k # 0
  <2>1. k \in 1..Len(syms) /\ syms[k].addr <= a /\ syms[k] \in firsts
        /\ \A j \in 1..Len(syms) : syms[j].addr <= a => j <= k
    BY <1>4, <1>5, <1>10
  <2>2. PICK i \in 1..n : symtab[i] = syms[k] /\ \A j \in 1..(i - 1) : symtab[j].addr # syms[k].addr
    BY <1>7, <2>1
  <2>3. i \in below /\ symbol_for(a) = symtab[i].name
    BY <1>1, <1>6, <1>10, <2>1, <2>2
  <2>4. ASSUME NEW j \in below
        PROVE  \/ symtab[j].addr < symtab[i].addr
               \/ symtab[j].addr = symtab[i].addr /\ i <= j
    <3>1. j \in 1..n /\ symtab[j].addr <= a /\ symtab[j].addr \in Nat /\ symtab[i].addr \in Nat
      BY <1>1, <2>4
    <3>2. PICK m \in 1..Len(syms) : syms[m].addr = symtab[j].addr
      BY <1>8, <3>1
    <3>3. m <= k /\ m \in Nat /\ k \in Nat
      <4>1. syms[m].addr <= a
        BY <3>1, <3>2
      <4>2. m <= k
        BY <2>1, <4>1
      <4>3. Len(syms) \in Nat
        BY <1>4
      <4> QED BY <2>1, <4>2, <4>3
    <3>4. symtab[j].addr <= symtab[i].addr
      <4>1. CASE m = k
        BY <2>2, <3>1, <3>2, <4>1
      <4>2. CASE m < k
        <5>1. syms[m].addr < syms[k].addr
          BY <1>4, <2>1, <4>2
        <5> QED BY <2>2, <3>1, <3>2, <5>1
      <4> QED BY <3>3, <4>1, <4>2
    <3>5. symtab[j].addr = symtab[i].addr => i <= j
      <4>1. SUFFICES ASSUME symtab[j].addr = symtab[i].addr, j < i PROVE FALSE
        BY <1>1, <3>1
      <4>2. j \in 1..(i - 1)
        BY <1>1, <3>1, <4>1
      <4> QED BY <2>2, <4>1, <4>2
    <3> QED BY <3>1, <3>4, <3>5
  <2> QED BY <2>3, <2>4
<1> QED BY <1>9, <1>10

(* The symbol table is one, and the address is an address.                 *)
TableInv == symtab \in Seq(Symbol) /\ addr \in Addrs

(* TableInv holds in every reachable state.                                *)
LEMMA TableInvariant == Spec => []TableInv
<1>1. Init => TableInv
  <2> SUFFICES ASSUME Init PROVE TableInv
    OBVIOUS
  <2>1. symtab \in Seq(Symbol)
    BY DEF Init
  <2>2. addr \in Addrs
    <3>1. cell \in Cells /\ addr = address_at(cell) /\ address_at(cell) # None
      BY DEF Init
    <3>2. addr = cell.value % (MaxAddr + 1) /\ cell.value \in Int
      BY <3>1, FrameAssumption DEF address_at, Cells, Unsigned, Signed
    <3> QED BY <3>2, FrameAssumption DEF Addrs
  <2> QED BY <2>1, <2>2 DEF TableInv
<1>2. TableInv /\ [Next]_vars => TableInv'
  <2> SUFFICES ASSUME TableInv, [Next]_vars PROVE TableInv'
    OBVIOUS
  <2>1. UNCHANGED input
    BY DEF Next, ResolveEarly, ResolveWalk, TakeFrame, EndWalk, WalkPanics, Done, vars, input
  <2> QED BY <2>1 DEF input, TableInv
<1> QED BY <1>1, <1>2, PTL DEF Spec

(* The fallback for an address the debug information does not cover        *)
(* (dwarf.rs, symbol_for: a binary search of the sorted, deduplicated      *)
(* table) names the nearest symbol at or below it, of the symbols in the   *)
(* order of the file.                                                      *)
THEOREM NearestIsFound == Spec => []NearestSymbol
<1>1. TableInv => NearestSymbol
  BY SymbolFor DEF TableInv, NearestSymbol
<1> QED BY <1>1, TableInvariant, PTL

-----------------------------------------------------------------------------
(* The types of the resolution *)

(* The frames of a result are frames.                                      *)
LEMMA ResultFrames ==
    ASSUME FrameInv, TableInv, pc = "done"
    PROVE  frames \in Seq(Frame)
<1>1. \A name \in Names \cup {None}, status \in Status :
         [blank_frame(status) EXCEPT !.function = name] \in Frame
  BY DEF Frame, blank_frame
<1>2. error_frame \in Frame
  BY DEF Frame, error_frame, blank_frame, Status
<1>3. no_line_frame \in Frame
  <2>1. symbol_for(addr) \in Names \cup {None}
    <3> DEFINE below == {i \in DOMAIN symtab : symtab[i].addr <= addr}
    <3>1. /\ below = {} => symbol_for(addr) = None
          /\ below # {} => \E i \in below : symbol_for(addr) = symtab[i].name
      BY SymbolFor DEF TableInv
    <3>2. \A i \in DOMAIN symtab : symtab[i] \in Symbol
      BY DEF TableInv
    <3>3. \A i \in DOMAIN symtab : symtab[i].name \in Names
      BY <3>2 DEF Symbol
    <3> QED BY <3>1, <3>3
  <2>2. "no_line" \in Status /\ None \in Names \cup {None}
    BY DEF Status
  <2>3. CASE format = "pdb"
    BY <2>2, <2>3 DEF no_line_frame, Frame, blank_frame
  <2>4. CASE format # "pdb"
    <3>1. no_line_frame = [blank_frame("no_line") EXCEPT !.function = symbol_for(addr)]
      BY <2>4 DEF no_line_frame
    <3> QED BY <1>1, <2>1, <2>2, <3>1
  <2> QED BY <2>3, <2>4
<1>4. Expand(raw) \in Seq(Frame)
  <2> DEFINE n == Len(raw)
  <2>1. n \in Nat /\ DOMAIN raw = 1..n /\ \A i \in 1..n : raw[i] \in Names \cup {None}
    BY DEF FrameInv, Collected
  <2> HIDE DEF n
  <2>2. ASSUME NEW i \in 1..n
        PROVE  [depth |-> i - 1, inline |-> i < n, function |-> raw[i], status |-> "ok"] \in Frame
    <3>1. i - 1 \in Nat /\ raw[i] \in Names \cup {None} /\ "ok" \in Status
      BY <2>1 DEF Status
    <3>2. (i < n) \in BOOLEAN
      BY <2>1, SMT
    <3> QED BY <3>1, <3>2, Zenon DEF Frame
  <2>3. [i \in 1..n |-> [depth |-> i - 1, inline |-> i < n, function |-> raw[i], status |-> "ok"]]
          \in [1..n -> Frame]
    BY <2>2, Zenon
  <2>4. Expand(raw) \in [1..n -> Frame]
    BY <2>1, <2>3 DEF Expand, n
  <2> QED BY <2>1, <2>4
<1>5. frames = <<error_frame>> \/ frames = <<no_line_frame>> \/ frames = Expand(raw)
  BY DEF FrameInv, Result
<1>6. \A f \in Frame : <<f>> \in Seq(Frame)
  OBVIOUS
<1> QED BY <1>2, <1>3, <1>4, <1>5, <1>6, Zenon

(* The places of a resolution, and why it ended.                           *)
PlaceInv ==
    /\ pc \in {"start", "walking", "done"}
    /\ pc # "done" => frames = <<>>
    /\ cut \in {"END", "cap", "ERR"}

(* Types of the resolution's state, the frames of the result among them    *)
(* (frame.rs, ResolvedFrame): its depth, its name and its status.          *)
THEOREM FrameTypes == Spec => []FrameTypeOK
<1>1. Init => PlaceInv
  BY DEF Init, PlaceInv
<1>2. PlaceInv /\ [Next]_vars => PlaceInv'
  BY DEF PlaceInv, Next, ResolveEarly, ResolveWalk, TakeFrame, EndWalk, WalkPanics, Done, Return, vars
<1>3. FrameInv /\ TableInv /\ PlaceInv => FrameTypeOK
  <2> SUFFICES ASSUME FrameInv, TableInv, PlaceInv PROVE FrameTypeOK
    OBVIOUS
  <2>1. frames \in Seq(Frame)
    <3>1. CASE pc = "done"
      BY <3>1, ResultFrames
    <3>2. CASE pc # "done"
      BY <3>2 DEF PlaceInv
    <3> QED BY <3>1, <3>2
  <2> QED BY <2>1 DEF FrameTypeOK, FrameInv, TableInv, PlaceInv, Collected
<1> QED BY <1>1, <1>2, <1>3, FrameInvariant, TableInvariant, PTL DEF Spec

-----------------------------------------------------------------------------
(* Parsing and probing a file *)

(* The walk of the units has come to its end.                              *)
UnitsDone == AtEnd \/ units[seen + 1].is = "BADHEADER"

(* An operation gets past a step whose part was read, or which it does     *)
(* without.                                                                *)
Passed(step) ==
    IF step.part = "units" THEN UnitsDone
    ELSE /\ step.part \in DOMAIN read /\ read[step.part] \in {"fine", "ERR"}
         /\ read[step.part] = "ERR" => step.fails = "tolerated"

(* It has got past the steps in front of the i-th.                         *)
Through(o, i) == \A j \in 1..(i - 1) : Passed(Steps(o)[j])

(* It is in front of its i-th step.                                        *)
At(i) ==
    /\ todo = SubSeq(Steps(op), i, Len(Steps(op)))
    /\ Through(op, i)

(* It failed at the i-th: the part is refused, or the readers panic.       *)
Refused(o, i) ==
    LET step == Steps(o)[i] IN
    /\ step.part # "units" /\ step.fails # "tolerated"
    /\ step.part \in DOMAIN read /\ read[step.part] = "ERR"
    /\ outcome[o] = Failure(step.fails)

Broken(o, i) ==
    LET step == Steps(o)[i] IN
    /\ step.part # "units" => step.part \in DOMAIN read /\ read[step.part] = "PANIC"
    /\ outcome[o] = Failure(IF o = "parse" THEN "corrupt_line_program" ELSE "PANIC")

FailedAt(o) == \E i \in 1..Len(Steps(o)) : Through(o, i) /\ (Refused(o, i) \/ Broken(o, i))

(* It has returned a module.                                               *)
Succeeded(o) ==
    /\ Through(o, Len(Steps(o)) + 1)
    /\ IsModule(outcome[o]) /\ outcome[o].identity = identity(o)
    /\ o = "parse" => outcome[o].info = info

TooLarge(o) == o = "parse" /\ outcome[o] = Failure("alloc_cap")

(* The statistics are those of the units walked.                           *)
FileCounts == [i \in DOMAIN units |-> Cardinality(units[i].files)]

Walked ==
    /\ units \in Seq(UnitItems) /\ seen \in 0..Len(units) /\ seen <= MaxUnits
    /\ \A i \in 1..seen : units[i].is # "BADHEADER"
    /\ stats.files = SumTo(FileCounts, seen)
    /\ stats.line = (\E i \in 1..seen : units[i].is = "LINES")

(* An operation under way has no result and is in front of one of its      *)
(* parts; one with a result came to it in one of these ways.               *)
Running == op \in Ops => outcome[op] = Pending /\ \E i \in 1..(Len(Steps(op)) + 1) : At(i)

Settled == \A o \in Ops : outcome[o] # Pending => FailedAt(o) \/ Succeeded(o) \/ TooLarge(o)

(* The inductive invariant of the two operations.                          *)
ParseInv ==
    /\ pdb \in BOOLEAN /\ header \in [guid : Uuids, age : Ages]
    /\ op \in Ops \cup {"idle"} /\ DOMAIN outcome = Ops
    /\ Walked /\ Running /\ Settled

PartNames == {"open", "info", "machine", "data", "count",
              "kind", "container", "object", "id", "units", "context"}
StepSet == [part : PartNames, fails : ErrorKinds \cup {"tolerated"}]

(* The steps of the probe, with which a parse begins too. *)
Identify == Steps("probe")

(* The steps of the operations on a PDB, in order. *)
LEMMA PdbFacts ==
    /\ PdbProbeSteps \in Seq(StepSet) /\ Len(PdbProbeSteps) = 3
    /\ PdbParseSteps \in Seq(StepSet) /\ Len(PdbParseSteps) = 5
    /\ PdbProbeSteps[3].part = "machine"
    /\ \A j \in 1..3 : PdbParseSteps[j] = PdbProbeSteps[j] /\ PdbProbeSteps[j].part # "units"
<1> PICK s1 : s1 = Step("open", "bad_magic")
  OBVIOUS
<1> PICK s2 : s2 = Step("info", "bad_build_id")
  OBVIOUS
<1> PICK s3 : s3 = Step("machine", "tolerated")
  OBVIOUS
<1> PICK s4 : s4 = Step("data", "truncated")
  OBVIOUS
<1> PICK s5 : s5 = Step("count", "tolerated")
  OBVIOUS
<1>1. /\ s1 \in StepSet /\ s2 \in StepSet /\ s3 \in StepSet /\ s4 \in StepSet /\ s5 \in StepSet
      /\ s1.part # "units" /\ s2.part # "units" /\ s3.part = "machine"
  BY DEF Step, StepSet, PartNames, ErrorKinds
<1>2. PdbProbeSteps = <<s1, s2, s3>> /\ PdbParseSteps = <<s1, s2, s3, s4, s5>>
  BY DEF PdbProbeSteps, PdbParseSteps
<1>3. \A j \in 1..3 : j = 1 \/ j = 2 \/ j = 3
  OBVIOUS
<1> QED BY <1>1, <1>2, <1>3

(* The steps of the operations on an object file, in order. *)
LEMMA ObjectFacts ==
    /\ ObjectSteps \in Seq(StepSet) /\ Len(ObjectSteps) = 4
    /\ \A j \in 1..4 : ObjectSteps[j].part # "units"
    /\ DwarfSteps \in Seq(StepSet) /\ Len(DwarfSteps) = 6
    /\ \A j \in 1..4 : DwarfSteps[j] = ObjectSteps[j]
    /\ DwarfSteps[5].part = "units"
<1> PICK s1 : s1 = Step("kind", "bad_magic")
  OBVIOUS
<1> PICK s2 : s2 = Step("container", "unsupported_format")
  OBVIOUS
<1> PICK s3 : s3 = Step("object", "truncated")
  OBVIOUS
<1> PICK s4 : s4 = Step("id", "bad_build_id")
  OBVIOUS
<1> PICK s5 : s5 = Step("units", "tolerated")
  OBVIOUS
<1> PICK s6 : s6 = Step("context", "corrupt_line_program")
  OBVIOUS
<1>1. /\ s1 \in StepSet /\ s2 \in StepSet /\ s3 \in StepSet /\ s4 \in StepSet
      /\ s5 \in StepSet /\ s6 \in StepSet
      /\ s1.part # "units" /\ s2.part # "units" /\ s3.part # "units" /\ s4.part # "units"
      /\ s5.part = "units"
  BY DEF Step, StepSet, PartNames, ErrorKinds
<1>2. ObjectSteps = <<s1, s2, s3, s4>> /\ DwarfSteps = <<s1, s2, s3, s4>> \o <<s5, s6>>
  BY DEF ObjectSteps, DwarfSteps
<1>3. /\ DwarfSteps \in Seq(StepSet) /\ Len(DwarfSteps) = 6 /\ DwarfSteps[5] = s5
      /\ \A j \in 1..4 : DwarfSteps[j] = ObjectSteps[j]
  <2> PICK a : a = <<s1, s2, s3, s4>>
    OBVIOUS
  <2> PICK b : b = <<s5, s6>>
    OBVIOUS
  <2>1. /\ a \in Seq(StepSet) /\ Len(a) = 4 /\ b \in Seq(StepSet) /\ Len(b) = 2
        /\ b[1] = s5
    BY <1>1
  <2>2. /\ a \o b \in Seq(StepSet) /\ Len(a \o b) = Len(a) + Len(b)
        /\ \A j \in 1..(Len(a) + Len(b)) : (a \o b)[j] = IF j <= Len(a) THEN a[j] ELSE b[j - Len(a)]
    BY <2>1, ConcatProperties
  <2>3. (a \o b)[5] = b[1] /\ \A j \in 1..4 : (a \o b)[j] = a[j]
    BY <2>1, <2>2
  <2> QED BY <1>2, <2>1, <2>2, <2>3
<1>4. \A j \in 1..4 : j = 1 \/ j = 2 \/ j = 3 \/ j = 4
  OBVIOUS
<1> QED BY <1>1, <1>2, <1>3, <1>4

(* What the operations read, in order. *)
LEMMA IdentifyFacts ==
    ASSUME pdb \in BOOLEAN
    PROVE  /\ Identify \in Seq(StepSet) /\ Len(Identify) = IF pdb THEN 3 ELSE 4
           /\ pdb => Identify[3].part = "machine"
           /\ \A j \in 1..Len(Identify) : Identify[j].part # "units"
<1>1. CASE pdb
  BY <1>1, PdbFacts DEF Identify, Steps
<1>2. CASE ~pdb
  BY <1>2, ObjectFacts DEF Identify, Steps
<1> QED BY <1>1, <1>2

LEMMA StepsFacts ==
    ASSUME pdb \in BOOLEAN
    PROVE  LET k == Len(Identify) IN
           /\ k \in Nat /\ k \in {3, 4}
           /\ Steps("probe") = Identify
           /\ Steps("parse") \in Seq(StepSet) /\ Len(Steps("parse")) = k + 2
           /\ \A j \in 1..k : Steps("parse")[j] = Identify[j]
           /\ ~pdb => Steps("parse")[k + 1].part = "units"
<1>1. CASE pdb
  <2>1. /\ Identify = PdbProbeSteps /\ Steps("probe") = PdbProbeSteps
        /\ Steps("parse") = PdbParseSteps
    BY <1>1 DEF Identify, Steps
  <2> QED BY <1>1, <2>1, PdbFacts
<1>2. CASE ~pdb
  <2>1. /\ Identify = ObjectSteps /\ Steps("probe") = ObjectSteps
        /\ Steps("parse") = DwarfSteps
    BY <1>2 DEF Identify, Steps
  <2> QED BY <1>2, <2>1, ObjectFacts
<1> QED BY <1>1, <1>2

LEMMA StepsLength ==
    ASSUME pdb \in BOOLEAN, NEW o \in Ops
    PROVE  /\ Steps(o) \in Seq(StepSet) /\ Len(Steps(o)) \in Nat
           /\ Len(Identify) \in 3..Len(Steps(o))
           /\ \A j \in 1..Len(Identify) : Steps(o)[j] = Identify[j]
<1> DEFINE k == Len(Identify)
<1>1. o = "probe" \/ o = "parse"
  BY DEF Ops
<1>2. /\ Identify \in Seq(StepSet) /\ k \in Nat /\ k \in {3, 4}
      /\ Steps("probe") = Identify
      /\ Steps("parse") \in Seq(StepSet) /\ Len(Steps("parse")) = k + 2
      /\ \A j \in 1..k : Steps("parse")[j] = Identify[j]
  BY IdentifyFacts, StepsFacts
<1> HIDE DEF k
<1>3. k \in 3..k /\ k \in 3..(k + 2) /\ k + 2 \in Nat
  BY <1>2
<1>4. CASE o = "probe"
  BY <1>2, <1>3, <1>4 DEF k
<1>5. CASE o = "parse"
  BY <1>2, <1>3, <1>5 DEF k
<1> QED BY <1>1, <1>4, <1>5

(* The part an operation reads next.                                       *)
LEMMA AtFacts ==
    ASSUME pdb \in BOOLEAN, op \in Ops, NEW i \in 1..(Len(Steps(op)) + 1), At(i)
    PROVE  /\ todo = <<>> => i = Len(Steps(op)) + 1
           /\ todo # <<>> => /\ i \in 1..Len(Steps(op)) /\ Head(todo) = Steps(op)[i]
                             /\ Tail(todo) = SubSeq(Steps(op), i + 1, Len(Steps(op)))
                             /\ i + 1 \in 1..(Len(Steps(op)) + 1)
<1> DEFINE s == Steps(op)
           n == Len(s)
<1>1. s \in Seq(StepSet) /\ n \in Nat /\ i \in 1..(n + 1) /\ todo = SubSeq(s, i, n)
  BY StepsLength DEF At
<1>2. Len(todo) = IF i <= n THEN n - i + 1 ELSE 0
  <2>1. \A j \in i..n : s[j] \in StepSet
    BY <1>1
  <2> QED BY <1>1, <2>1, SubSeqProperties
<1>3. CASE i <= n
  <2>1. i \in 1..n /\ n \in i..Len(s)
    BY <1>1, <1>3
  <2>2. Head(todo) = s[i] /\ Tail(todo) = SubSeq(s, i + 1, n)
    BY <1>1, <2>1, HeadTailOfSubSeq
  <2>3. Len(todo) # 0 /\ i + 1 \in 1..(n + 1)
    BY <1>1, <1>2, <1>3
  <2> QED BY <2>1, <2>2, <2>3
<1>4. CASE i > n
  <2>1. i = n + 1 /\ todo = <<>>
    BY <1>1, <1>2, <1>4, SubSeqEmpty
  <2> QED BY <2>1
<1> QED BY <1>1, <1>3, <1>4

(* What has been read stays as it was read.                                *)
ReadKept == \A p \in DOMAIN read : p \in DOMAIN read' /\ read'[p] = read[p]

(* A part an operation has got past stays so, ...                          *)
LEMMA PassedKept ==
    ASSUME ReadKept, units' = units, seen' = seen \/ ~UnitsDone
    PROVE  \A p : Passed(p) => Passed(p)'
<1> SUFFICES ASSUME NEW p, Passed(p) PROVE Passed(p)'
  OBVIOUS
<1>1. CASE p.part = "units"
  BY <1>1 DEF Passed, UnitsDone, AtEnd
<1>2. CASE p.part # "units"
  BY <1>2 DEF Passed, ReadKept
<1> QED BY <1>1, <1>2

(* ... and what an operation came to stays what it is.                     *)
LEMMA ResultKept ==
    ASSUME pdb \in BOOLEAN, pdb' = pdb, header' = header, ReadKept, \A p : Passed(p) => Passed(p)',
           NEW o \in Ops, o = "probe" \/ stats' = stats, outcome'[o] = outcome[o],
           FailedAt(o) \/ Succeeded(o) \/ TooLarge(o)
    PROVE  FailedAt(o)' \/ Succeeded(o)' \/ TooLarge(o)'
<1>1. Steps(o)' = Steps(o)
  BY DEF Steps
<1>2. \A i : Through(o, i) => Through(o, i)'
  BY <1>1 DEF Through
<1>3. CASE FailedAt(o)
  <2>1. PICK i \in 1..Len(Steps(o)) : Through(o, i) /\ (Refused(o, i) \/ Broken(o, i))
    BY <1>3 DEF FailedAt
  <2>2. Refused(o, i) => Refused(o, i)'
    BY <1>1 DEF Refused, ReadKept
  <2>3. Broken(o, i) => Broken(o, i)'
    BY <1>1 DEF Broken, ReadKept
  <2> QED BY <1>1, <1>2, <2>1, <2>2, <2>3 DEF FailedAt
<1>4. CASE Succeeded(o)
  <2>1. Through(o, Len(Steps(o)) + 1)'
    BY <1>1, <1>2, <1>4 DEF Succeeded
  <2>2. pdb => "machine" \in DOMAIN read
    <3>1. ASSUME pdb PROVE "machine" \in DOMAIN read
      <4>1. Identify[3].part = "machine" /\ Len(Identify) = 3
        BY <3>1, IdentifyFacts
      <4>2. 3 \in 1..Len(Steps(o)) /\ Steps(o)[3].part = "machine"
        BY <4>1, StepsLength
      <4>3. 3 \in 1..(Len(Steps(o)) + 1 - 1)
        BY <4>2, StepsLength
      <4>4. Passed(Steps(o)[3])
        BY <1>4, <4>3 DEF Succeeded, Through
      <4> QED BY <4>2, <4>4 DEF Passed
    <3> QED BY <3>1
  <2>3. identity(o)' = identity(o)
    <3>1. pdb => MachineArch' = MachineArch
      BY <2>2 DEF MachineArch, ReadKept
    <3> QED BY <3>1 DEF identity, identity_from_object, pdb_identity, PdbModule_identity
  <2>4. o = "parse" => info' = info
    BY DEF info, PdbInfo, DwarfInfo
  <2> QED BY <1>1, <1>4, <2>1, <2>3, <2>4 DEF Succeeded
<1>5. CASE TooLarge(o)
  BY <1>5 DEF TooLarge
<1> QED BY <1>3, <1>4, <1>5

(* A part is read.                                                         *)
LEMMA ReadingFacts ==
    ASSUME NEW a, Reading(a)
    PROVE  /\ op # "idle" /\ todo # <<>> /\ Head(todo).part # "units"
           /\ UNCHANGED <<pdb, header, large, units, seen, stats>>
           /\ ReadKept /\ Head(todo).part \in DOMAIN read' /\ read'[Head(todo).part] = a
<1>1. ASSUME NEW p \in DOMAIN read PROVE p \in DOMAIN read' /\ read'[p] = read[p]
  BY DEF Reading, Answers
<1> QED BY <1>1 DEF Reading, ReadKept

(* An operation goes on behind the part at which it was.                   *)
LEMMA GoOn ==
    ASSUME pdb \in BOOLEAN, NEW o \in Ops, op = o, Running, todo # <<>>, todo' = Tail(todo),
           op' = o, outcome' = outcome, pdb' = pdb, header' = header,
           \A p : Passed(p) => Passed(p)', NEW h, h = Head(todo), Passed(h)'
    PROVE  Running'
<1>1. PICK i \in 1..(Len(Steps(o)) + 1) : At(i)
  BY DEF Running
<1> DEFINE n == Len(Steps(o))
<1>2. /\ i \in 1..n /\ Head(todo) = Steps(o)[i] /\ i + 1 \in 1..(n + 1) /\ n \in Nat
      /\ Tail(todo) = SubSeq(Steps(o), i + 1, n)
  BY <1>1, AtFacts, StepsLength
<1>3. Steps(o)' = Steps(o)
  BY DEF Steps
<1>4. \A j \in 1..(i + 1 - 1) : j \in 1..(i - 1) \/ j = i
  BY <1>2
<1>5. \A j \in 1..(i - 1) : Passed(Steps(o)[j])'
  <2>1. \A j \in 1..(i - 1) : Passed(Steps(o)[j])
    BY <1>1 DEF At, Through
  <2> QED BY <1>3, <2>1
<1>6. Passed(Steps(o)[i])'
  BY <1>2, <1>3
<1>7. Through(o, i + 1)'
  BY <1>4, <1>5, <1>6 DEF Through
<1>8. At(i + 1)'
  BY <1>2, <1>3, <1>7 DEF At
<1>9. op' = o /\ outcome'[o] = Pending
  BY DEF Running
<1> QED BY <1>2, <1>3, <1>8, <1>9 DEF Running

(* The results of the operations whose outcome stays are good ones.        *)
LEMMA SettledKept ==
    ASSUME pdb \in BOOLEAN, pdb' = pdb, header' = header, Settled, ReadKept, \A p : Passed(p) => Passed(p)',
           NEW o \in Ops, o = "probe" \/ stats' = stats, outcome'[o] = outcome[o],
           outcome'[o] # Pending
    PROVE  FailedAt(o)' \/ Succeeded(o)' \/ TooLarge(o)'
BY ResultKept DEF Settled

(* An operation ends with a result of its own.                             *)
LEMMA Ends ==
    ASSUME pdb \in BOOLEAN, pdb' = pdb, header' = header, NEW o \in Ops, op = o, Settled, DOMAIN outcome = Ops,
           ReadKept, \A p : Passed(p) => Passed(p)', stats' = stats,
           NEW r, Finish(r), FailedAt(o)' \/ Succeeded(o)'
    PROVE  op' = "idle" /\ Running' /\ Settled' /\ DOMAIN outcome' = Ops
<1>1. op' = "idle" /\ DOMAIN outcome' = Ops /\ \A x \in Ops \ {o} : outcome'[x] = outcome[x]
  BY DEF Finish
<1>2. op' \notin Ops
  BY <1>1 DEF Ops
<1>3. ASSUME NEW x \in Ops, outcome'[x] # Pending
      PROVE  FailedAt(x)' \/ Succeeded(x)' \/ TooLarge(x)'
  <2>1. CASE x = o
    BY <2>1
  <2>2. CASE x # o
    BY <1>1, <1>3, <2>2, SettledKept
  <2> QED BY <2>1, <2>2
<1> QED BY <1>1, <1>2, <1>3 DEF Running, Settled

(* The part at which an operation fails.                                   *)
LEMMA FailsAt ==
    ASSUME pdb \in BOOLEAN, pdb' = pdb, header' = header, NEW o \in Ops, op = o, Running, todo # <<>>,
           DOMAIN outcome = Ops, \A p : Passed(p) => Passed(p)',
           NEW r, Finish(r),
           \/ /\ r = Failure(Head(todo).fails)
              /\ Head(todo).part # "units" /\ Head(todo).fails # "tolerated"
              /\ Head(todo).part \in DOMAIN read' /\ read'[Head(todo).part] = "ERR"
           \/ /\ r = Panicked
              /\ Head(todo).part # "units" =>
                    Head(todo).part \in DOMAIN read' /\ read'[Head(todo).part] = "PANIC"
    PROVE  FailedAt(o)'
<1>1. PICK i \in 1..(Len(Steps(o)) + 1) : At(i)
  BY DEF Running
<1>2. i \in 1..Len(Steps(o)) /\ Head(todo) = Steps(o)[i]
  BY <1>1, AtFacts
<1>3. Steps(o)' = Steps(o)
  BY DEF Steps
<1>4. Through(o, i)'
  BY <1>1, <1>3 DEF At, Through
<1>5. outcome'[o] = r
  BY DEF Finish
<1>6. r = Panicked => r = Failure(IF o = "parse" THEN "corrupt_line_program" ELSE "PANIC")
  BY DEF Panicked
<1>7. Refused(o, i)' \/ Broken(o, i)'
  BY <1>2, <1>3, <1>5, <1>6 DEF Refused, Broken
<1> QED BY <1>2, <1>3, <1>4, <1>7 DEF FailedAt

(* The counts are numbers. *)
LEMMA CountTypes ==
    ASSUME units \in Seq(UnitItems)
    PROVE  /\ Len(units) \in Nat /\ DOMAIN units = 1..Len(units)
           /\ \A i \in 1..Len(units) : FileCounts[i] = Cardinality(units[i].files)
                                       /\ FileCounts[i] \in Nat /\ IsFiniteSet(units[i].files)
                                       /\ units[i] \in UnitItems
<1>1. \A i \in 1..Len(units) : units[i] \in UnitItems
  OBVIOUS
<1>2. ASSUME NEW u \in UnitItems PROVE IsFiniteSet(u.files) /\ Cardinality(u.files) \in Nat
  <2>1. u.files \in SUBSET SourceFiles
    BY DEF UnitItems
  <2>2. IsFiniteSet(u.files)
    BY <2>1, ParseAssumption, FS_Subset
  <2> QED BY <2>2, FS_CardinalityType
<1> QED BY <1>1, <1>2 DEF FileCounts

(* ParseInv holds initially.                                               *)
LEMMA ParseInitInv == ParseInit => ParseInv
<1> SUFFICES ASSUME ParseInit PROVE ParseInv
  OBVIOUS
<1>1. units \in Seq(UnitItems)
  <2>1. CASE pdb
    BY <2>1 DEF ParseInit
  <2>2. CASE ~pdb
    <3>1. PICK n \in 0..MaxUnitCount : units \in [1..n -> UnitItems]
      BY <2>2 DEF ParseInit
    <3> QED BY <3>1, ParseAssumption
  <2> QED BY <2>1, <2>2
<1>2. Walked
  <2>1. seen = 0 /\ stats.files = 0 /\ stats.line = FALSE
    BY DEF ParseInit
  <2>2. Len(units) \in Nat
    BY <1>1
  <2>3. SumTo(FileCounts, 0) = 0
    BY SumToStep
  <2>4. \A i \in 1..seen : FALSE
    BY <2>1
  <2>5. stats.line = (\E i \in 1..seen : units[i].is = "LINES")
    BY <2>1, <2>4, Zenon
  <2>6. seen \in 0..Len(units) /\ seen <= MaxUnits
    BY <2>1, <2>2, ParseAssumption
  <2> QED BY <1>1, <2>1, <2>3, <2>4, <2>5, <2>6 DEF Walked
<1>3. /\ pdb \in BOOLEAN /\ header \in [guid : Uuids, age : Ages]
      /\ op = "idle" /\ DOMAIN outcome = Ops
      /\ \A o \in Ops : outcome[o] = Pending
  BY DEF ParseInit
<1>4. Running /\ Settled
  BY <1>3 DEF Running, Settled, Ops
<1> QED BY <1>2, <1>3, <1>4 DEF ParseInv

(* A unit is walked.                                                       *)
LEMMA WalkUnitInv ==
    ASSUME ParseInv, WalkUnit
    PROVE  ParseInv'
<1>1. /\ op = "parse" /\ ~UnitsDone /\ ~AtEnd /\ units[seen + 1].is # "BADHEADER"
      /\ seen' = seen + 1
      /\ UNCHANGED <<pdb, header, units, read, op, todo, outcome>>
      /\ stats'.files = stats.files + Cardinality(units[seen + 1].files)
      /\ stats'.line = (stats.line \/ units[seen + 1].is = "LINES")
  BY DEF WalkUnit, Walking, UnitsDone
<1>2. /\ units \in Seq(UnitItems) /\ seen \in 0..Len(units) /\ seen <= MaxUnits
      /\ \A i \in 1..seen : units[i].is # "BADHEADER"
      /\ stats.files = SumTo(FileCounts, seen)
      /\ stats.line = (\E i \in 1..seen : units[i].is = "LINES")
  BY DEF ParseInv, Walked
<1> PICK n : n = seen + 1
  OBVIOUS
<1> PICK k : k = Len(units)
  OBVIOUS
<1>3. k \in Nat /\ seen \in Nat /\ n \in Nat /\ n \in 1..k /\ n <= MaxUnits /\ n - 1 = seen /\ n > 0
  <2>1. k \in Nat /\ seen # k /\ ~(seen >= MaxUnits)
    BY <1>1, <1>2 DEF AtEnd
  <2> QED BY <1>2, <2>1, ParseAssumption
<1>4. \A i \in 1..n : i \in 1..seen \/ i = n
  BY <1>3
<1>5. Walked'
  <2>1. FileCounts' = FileCounts
    BY <1>1 DEF FileCounts
  <2>2. \A i \in 1..n : FileCounts[i] \in Nat
    BY <1>2, <1>3, CountTypes
  <2>3. SumTo(FileCounts, n) = SumTo(FileCounts, n - 1) + FileCounts[n]
    BY <1>3, <2>2, SumToStep
  <2>4. FileCounts[n] = Cardinality(units[n].files)
    BY <1>2, <1>3, CountTypes
  <2>5. stats'.files = SumTo(FileCounts', seen')
    BY <1>1, <1>2, <1>3, <2>1, <2>3, <2>4
  <2>6. stats'.line = (\E i \in 1..n : units[i].is = "LINES")
    <3>1. seen \in Nat /\ \A i \in 1..seen : i \in 1..n
      BY <1>3
    <3>2. n \in 1..n
      BY <1>3
    <3>3. (stats.line \/ units[n].is = "LINES") = (\E i \in 1..n : units[i].is = "LINES")
      BY <1>2, <1>4, <3>1, <3>2, Zenon
    <3> QED BY <1>1, <3>3
  <2>7. \A i \in 1..n : units[i].is # "BADHEADER"
    BY <1>1, <1>2, <1>4
  <2>8. units' = units /\ seen' = n /\ n \in 0..Len(units) /\ n <= MaxUnits
    BY <1>1, <1>3
  <2>9. stats'.line = (\E i \in 1..seen' : units'[i].is = "LINES")
    BY <2>6, <2>8
  <2>10. \A i \in 1..seen' : units'[i].is # "BADHEADER"
    BY <2>7, <2>8
  <2>11. units' \in Seq(UnitItems) /\ seen' \in 0..Len(units') /\ seen' <= MaxUnits
    BY <1>2, <2>8
  <2> QED BY <2>5, <2>9, <2>10, <2>11 DEF Walked
<1>6. ReadKept
  BY <1>1 DEF ReadKept
<1>7. \A p : Passed(p) => Passed(p)'
  BY <1>1, <1>6, PassedKept
<1>8. pdb \in BOOLEAN /\ Settled /\ outcome["parse"] = Pending
  BY <1>1 DEF ParseInv, Running, Ops
<1>9. ASSUME NEW o \in Ops, outcome'[o] # Pending
      PROVE  FailedAt(o)' \/ Succeeded(o)' \/ TooLarge(o)'
  <2>1. o = "probe"
    BY <1>1, <1>8, <1>9 DEF Ops
  <2> QED BY <1>1, <1>6, <1>7, <1>8, <1>9, <2>1, SettledKept
<1>10. Running'
  <2>1. PICK i \in 1..(Len(Steps("parse")) + 1) : At(i)
    BY <1>1 DEF ParseInv, Running, Ops
  <2>2. Steps("parse")' = Steps("parse")
    BY <1>1 DEF Steps
  <2>3. \A j \in 1..(i - 1) : Passed(Steps("parse")[j])'
    <3>1. \A j \in 1..(i - 1) : Passed(Steps("parse")[j])
      BY <1>1, <2>1 DEF At, Through
    <3> QED BY <1>7, <2>2, <3>1
  <2>4. At(i)'
    BY <1>1, <2>1, <2>2, <2>3 DEF At, Through
  <2> QED BY <1>1, <1>8, <2>1, <2>2, <2>4 DEF Running
<1> QED BY <1>1, <1>5, <1>9, <1>10 DEF ParseInv, Settled

(* The walk of the units rests.                                            *)
LEMMA WalkedKept ==
    ASSUME Walked, UNCHANGED <<units, seen, stats>>
    PROVE  Walked'
BY DEF Walked, FileCounts

(* A part is read, refused, or makes the readers panic.                    *)
LEMMA ReadInv ==
    ASSUME ParseInv, ReadPart \/ RefusePart \/ PartPanics
    PROVE  ParseInv'
<1>1. PICK a : Reading(a)
  BY DEF ReadPart, RefusePart, PartPanics
<1>2. /\ op \in Ops /\ todo # <<>> /\ Head(todo).part # "units"
      /\ UNCHANGED <<pdb, header, units, seen, stats>> /\ ReadKept /\ Walked'
      /\ pdb \in BOOLEAN /\ Running /\ Settled /\ DOMAIN outcome = Ops
  BY <1>1, ReadingFacts, WalkedKept DEF ParseInv
<1>3. \A p : Passed(p) => Passed(p)'
  BY <1>2, PassedKept
<1>4. CASE ReadPart
  <2>1. PICK b \in {"fine", "ERR"} : Reading(b) /\ (b = "ERR" => Head(todo).fails = "tolerated")
    BY <1>4 DEF ReadPart
  <2>2. todo' = Tail(todo) /\ op' = op /\ outcome' = outcome
    BY <1>4 DEF ReadPart
  <2> PICK h : h = Head(todo)
    OBVIOUS
  <2>3. h.part # "units" /\ h.part \in DOMAIN read' /\ read'[h.part] = b
    BY <2>1, ReadingFacts
  <2>4. Passed(h)'
    BY <1>2, <2>1, <2>3 DEF Passed
  <2>5. Running'
    BY <1>2, <1>3, <2>2, <2>4, GoOn
  <2>6. Settled'
    BY <1>2, <1>3, <2>2, SettledKept DEF Settled
  <2> QED BY <1>2, <2>2, <2>5, <2>6 DEF ParseInv
<1>5. CASE RefusePart \/ PartPanics
  <2>1. PICK r : /\ Finish(r)
                 /\ \/ /\ r = Failure(Head(todo).fails) /\ Head(todo).fails # "tolerated"
                       /\ Reading("ERR")
                    \/ r = Panicked /\ Reading("PANIC")
    BY <1>5 DEF RefusePart, PartPanics
  <2> PICK o \in Ops : op = o
    BY <1>2
  <2>2. FailedAt(o)'
    BY <1>2, <1>3, <2>1, ReadingFacts, FailsAt
  <2>3. op' = "idle" /\ Running' /\ Settled' /\ DOMAIN outcome' = Ops
    BY <1>2, <1>3, <2>1, <2>2, Ends
  <2> QED BY <1>2, <2>3 DEF ParseInv
<1> QED BY <1>4, <1>5

(* The walk of the units ends, or panics.                                  *)
LEMMA UnitsInv ==
    ASSUME ParseInv, EndUnits \/ UnitPanics
    PROVE  ParseInv'
<1>1. /\ op \in Ops /\ todo # <<>> /\ Head(todo).part = "units"
      /\ UNCHANGED <<pdb, header, units, seen, stats, read>>
  BY DEF EndUnits, UnitPanics, Walking, Ops
<1>2. /\ ReadKept /\ Walked' /\ pdb \in BOOLEAN /\ Running /\ Settled /\ DOMAIN outcome = Ops
  BY <1>1, WalkedKept DEF ParseInv, ReadKept
<1>3. \A p : Passed(p) => Passed(p)'
  BY <1>1, <1>2, PassedKept
<1>4. CASE EndUnits
  <2>1. UnitsDone /\ todo' = Tail(todo) /\ op' = op /\ outcome' = outcome
    BY <1>4 DEF EndUnits, UnitsDone
  <2> PICK h : h = Head(todo)
    OBVIOUS
  <2>2. Passed(h)'
    BY <1>1, <2>1 DEF Passed, UnitsDone, AtEnd
  <2>3. Running'
    BY <1>1, <1>2, <1>3, <2>1, <2>2, GoOn
  <2>4. Settled'
    BY <1>1, <1>2, <1>3, <2>1, SettledKept DEF Settled
  <2> QED BY <1>1, <1>2, <2>1, <2>3, <2>4 DEF ParseInv
<1>5. CASE UnitPanics
  <2>1. Finish(Panicked)
    BY <1>5 DEF UnitPanics
  <2> PICK o \in Ops : op = o
    BY <1>1
  <2>2. FailedAt(o)'
    BY <1>1, <1>2, <1>3, <2>1, FailsAt
  <2>3. op' = "idle" /\ Running' /\ Settled' /\ DOMAIN outcome' = Ops
    BY <1>1, <1>2, <1>3, <2>1, <2>2, Ends
  <2> QED BY <1>1, <1>2, <2>3 DEF ParseInv
<1> QED BY <1>4, <1>5

(* An operation returns a module. *)
LEMMA ReturnModuleInv ==
    ASSUME ParseInv, ParseReturn
    PROVE  ParseInv'
<1> PICK r : r = [error |-> "no", identity |-> identity(op), info |-> info]
  OBVIOUS
<1> PICK o : o = op
  OBVIOUS
<1>1. /\ o \in Ops /\ todo = <<>> /\ Finish(r) /\ UNCHANGED <<pdb, header, units, read, seen, stats>>
      /\ pdb \in BOOLEAN /\ Running /\ Settled /\ DOMAIN outcome = Ops
  BY DEF ParseReturn, ParseInv
<1>2. ReadKept /\ Walked'
  BY <1>1, WalkedKept DEF ParseInv, ReadKept
<1>3. \A p : Passed(p) => Passed(p)'
  BY <1>1, <1>2, PassedKept
<1>4. PICK i \in 1..(Len(Steps(o)) + 1) : At(i)
  BY <1>1 DEF Running
<1>5. Steps(o)' = Steps(o) /\ identity(o)' = identity(o) /\ info' = info
  BY <1>1 DEF Steps, identity, identity_from_object, pdb_identity, PdbModule_identity, MachineArch, info, PdbInfo, DwarfInfo
<1>6. Through(o, Len(Steps(o)) + 1)
  BY <1>1, <1>4, AtFacts DEF At
<1>7. Through(o, Len(Steps(o)) + 1)'
  BY <1>3, <1>5, <1>6 DEF Through
<1>8. outcome'[o] = r
  BY <1>1 DEF Finish
<1>9. r.error = "no" /\ r.identity = identity(o) /\ r.info = info
  OBVIOUS
<1>10. Succeeded(o)'
  BY <1>5, <1>7, <1>8, <1>9 DEF Succeeded, IsModule
<1>11. op' = "idle" /\ Running' /\ Settled' /\ DOMAIN outcome' = Ops
  BY <1>1, <1>2, <1>3, <1>10, Ends
<1> QED BY <1>1, <1>2, <1>11 DEF ParseInv

(* An operation begins, or ends at once because the file is too large.     *)
LEMMA BeginInv ==
    ASSUME ParseInv, NEW o \in Ops, ParseBegin(o)
    PROVE  ParseInv'
<1>1. /\ op = "idle" /\ outcome[o] = Pending /\ UNCHANGED <<pdb, header, units, read, seen, stats>>
      /\ pdb \in BOOLEAN /\ Settled /\ DOMAIN outcome = Ops
  BY DEF ParseBegin, ParseInv
<1>2. ReadKept /\ Walked'
  BY <1>1, WalkedKept DEF ParseInv, ReadKept
<1>3. \A p : Passed(p) => Passed(p)'
  BY <1>1, <1>2, PassedKept
<1>4. CASE o = "parse" /\ large
  <2>1. /\ outcome' = [outcome EXCEPT ![o] = Failure("alloc_cap")] /\ op' = op
    BY <1>4 DEF ParseBegin
  <2>2. TooLarge(o)'
    BY <1>1, <1>4, <2>1 DEF TooLarge
  <2>3. ASSUME NEW x \in Ops, outcome'[x] # Pending
        PROVE  FailedAt(x)' \/ Succeeded(x)' \/ TooLarge(x)'
    <3>1. CASE x = o BY <2>2, <3>1
    <3>2. CASE x # o BY <1>1, <1>2, <1>3, <2>1, <2>3, <3>2, SettledKept
    <3> QED BY <3>1, <3>2
  <2>4. Running' /\ DOMAIN outcome' = Ops /\ op' = "idle"
    BY <1>1, <2>1 DEF Running, Ops
  <2> QED BY <1>1, <1>2, <2>3, <2>4 DEF ParseInv, Settled
<1>5. CASE ~(o = "parse" /\ large)
  <2>1. op' = o /\ todo' = Steps(o) /\ outcome' = outcome
    BY <1>5 DEF ParseBegin
  <2>2. Settled'
    BY <1>1, <1>2, <1>3, <2>1, SettledKept DEF Settled
  <2>3. Steps(o)' = Steps(o)
    BY <1>1 DEF Steps
  <2>4. /\ todo' = SubSeq(Steps(o), 1, Len(Steps(o))) /\ Len(Steps(o)) \in Nat
        /\ 1 \in 1..(Len(Steps(o)) + 1)
    BY <1>1, <2>1, StepsLength, SubSeqFull
  <2>5. Through(o, 1)'
    BY DEF Through
  <2>6. At(1)'
    BY <2>1, <2>3, <2>4, <2>5 DEF At
  <2>7. Running'
    BY <1>1, <2>1, <2>3, <2>4, <2>6 DEF Running
  <2> QED BY <1>1, <1>2, <2>1, <2>2, <2>7 DEF ParseInv
<1> QED BY <1>4, <1>5

(* Every step preserves ParseInv. *)
LEMMA ParseNextInv == ASSUME ParseInv, [ParseNext]_parseVars PROVE ParseInv'
<1>1. CASE ParseDone \/ UNCHANGED parseVars
  <2>1. UNCHANGED <<pdb, header, units, read, op, todo, seen, stats, outcome>>
    BY <1>1 DEF ParseDone, parseVars
  <2>2. pdb \in BOOLEAN /\ Settled /\ Running /\ ReadKept /\ Walked'
    BY <2>1, WalkedKept DEF ParseInv, ReadKept
  <2>3. \A p : Passed(p) => Passed(p)'
    BY <2>1, <2>2, PassedKept
  <2>4. Settled'
    BY <2>1, <2>2, <2>3, SettledKept DEF Settled
  <2>5. Steps(op)' = Steps(op)
    BY <2>1 DEF Steps
  <2>6. \A i : At(i) => At(i)'
    BY <2>1, <2>5, <2>3 DEF At, Through, Steps
  <2>7. Running'
    BY <2>1, <2>2, <2>5, <2>6 DEF Running
  <2> QED BY <2>1, <2>2, <2>4, <2>7 DEF ParseInv
<1> QED BY <1>1, BeginInv, ReadInv, UnitsInv, WalkUnitInv, ReturnModuleInv DEF ParseNext

(* ParseInv holds in every reachable state. *)
THEOREM ParseInvariant == ParseSpec => []ParseInv
<1>1. ParseInv /\ [ParseNext]_parseVars => ParseInv'
  BY ParseNextInv
<1> QED BY <1>1, ParseInitInv, PTL DEF ParseSpec

(* The identity parts come first in both operations. *)
LEMMA Prefix ==
    ASSUME pdb \in BOOLEAN, NEW k, k = Len(Identify)
    PROVE  /\ k \in Nat /\ Len(Steps("probe")) = k /\ Len(Steps("parse")) = k + 2
           /\ \A j \in 1..k : /\ Steps("probe")[j] = Identify[j]
                              /\ Steps("parse")[j] = Identify[j] /\ Identify[j].part # "units"
           /\ ~pdb => Steps("parse")[k + 1].part = "units"
BY StepsFacts, IdentifyFacts

(* What failed is no module. *)
LEMMA FailedIsNoModule ==
    ASSUME pdb \in BOOLEAN, NEW o \in Ops, FailedAt(o)
    PROVE  ~IsModule(outcome[o])
<1>1. PICK i \in 1..Len(Steps(o)) : Refused(o, i) \/ Broken(o, i)
  BY DEF FailedAt
<1>2. Steps(o)[i] \in StepSet
  BY StepsLength
<1>3. Steps(o)[i].fails # "no"
  BY <1>2 DEF StepSet, ErrorKinds
<1> QED BY <1>1, <1>3 DEF Refused, Broken, Failure, IsModule

(* A file that parses has the identity of its probe, and one whose probe   *)
(* fails fails to parse for the same reason (id.rs, module/mod.rs,         *)
(* module/pdb.rs), for every order of the two and every answer of the      *)
(* readers.                                                                *)
THEOREM ProbesAgree == ParseSpec => []ProbeAgrees
<1>1. ASSUME ParseInv, outcome["probe"] # Pending,
             outcome["parse"] \notin {Pending, Failure("alloc_cap")}
      PROVE  /\ IsModule(outcome["parse"]) =>
                  IsModule(outcome["probe"]) /\ outcome["probe"].identity = outcome["parse"].identity
             /\ outcome["probe"].error \in ErrorKinds => outcome["parse"] = outcome["probe"]
  <2> PICK k : k = Len(Identify)
    OBVIOUS
  <2>1. /\ FailedAt("probe") \/ Succeeded("probe")
        /\ FailedAt("parse") \/ Succeeded("parse")
        /\ pdb \in BOOLEAN
    BY <1>1 DEF ParseInv, Settled, Ops, TooLarge
  <2>2. /\ k \in Nat /\ Len(Steps("probe")) = k /\ Len(Steps("parse")) = k + 2
        /\ \A j \in 1..k : /\ Steps("probe")[j] = Identify[j]
                           /\ Steps("parse")[j] = Identify[j] /\ Identify[j].part # "units"
    BY <2>1, Prefix
  <2>3. ASSUME Succeeded("parse") PROVE \A j \in 1..k : Passed(Identify[j])
    <3>1. \A j \in 1..(k + 2 + 1 - 1) : Passed(Steps("parse")[j])
      BY <2>2, <2>3 DEF Succeeded, Through
    <3>2. \A j \in 1..k : j \in 1..(k + 2 + 1 - 1)
      BY <2>2
    <3> QED BY <2>2, <3>1, <3>2
  <2>4. ASSUME FailedAt("probe")
        PROVE  \E i \in 1..k :
                 /\ \A j \in 1..(i - 1) : Passed(Identify[j])
                 /\ ~Passed(Identify[i])
                 /\ \/ /\ Identify[i].fails # "tolerated"
                       /\ Identify[i].part \in DOMAIN read /\ read[Identify[i].part] = "ERR"
                       /\ outcome["probe"] = Failure(Identify[i].fails)
                    \/ outcome["probe"] = Failure("PANIC")
    <3>1. PICK i \in 1..k : Through("probe", i) /\ (Refused("probe", i) \/ Broken("probe", i))
      BY <2>2, <2>4 DEF FailedAt
    <3>2. \A j \in 1..(i - 1) : j \in 1..k
      BY <2>2
    <3>3. \A j \in 1..(i - 1) : Passed(Identify[j])
      BY <2>2, <3>1, <3>2 DEF Through
    <3>4. Steps("probe")[i] = Identify[i] /\ Identify[i].part # "units"
      BY <2>2
    <3>5. ~Passed(Identify[i])
      BY <3>1, <3>4 DEF Refused, Broken, Passed
    <3>6. CASE Refused("probe", i)
      BY <3>3, <3>4, <3>5, <3>6 DEF Refused
    <3>7. CASE Broken("probe", i)
      <4>1. outcome["probe"] = Failure("PANIC")
        BY <3>7 DEF Broken
      <4> QED BY <3>3, <3>5, <4>1
    <3> QED BY <3>1, <3>6, <3>7
  <2>5. ASSUME Succeeded("parse")
        PROVE  Succeeded("probe")
    BY <2>1, <2>3, <2>4, <2>5
  <2>6. IsModule(outcome["parse"]) => Succeeded("parse")
    BY <2>1, FailedIsNoModule DEF Ops
  <2>7. ASSUME IsModule(outcome["parse"])
        PROVE  IsModule(outcome["probe"]) /\ outcome["probe"].identity = outcome["parse"].identity
    <3>1. header = [guid |-> header.guid, age |-> header.age]
      BY <1>1 DEF ParseInv
    <3>2. identity("probe") = identity("parse")
      BY <3>1, Zenon DEF identity, pdb_identity, PdbModule_identity
    <3> QED BY <2>5, <2>6, <2>7, <3>2 DEF Succeeded
  <2>8. ASSUME outcome["probe"].error \in ErrorKinds
        PROVE  outcome["parse"] = outcome["probe"]
    <3>1. ~IsModule(outcome["probe"]) /\ outcome["probe"] # Failure("PANIC")
      BY <2>8 DEF IsModule, Failure, ErrorKinds
    <3>2. FailedAt("probe") /\ ~Succeeded("probe")
      BY <2>1, <3>1 DEF Succeeded
    <3>3. PICK i \in 1..k :
                 /\ \A j \in 1..(i - 1) : Passed(Identify[j])
                 /\ ~Passed(Identify[i])
                 /\ Identify[i].fails # "tolerated"
                 /\ Identify[i].part \in DOMAIN read /\ read[Identify[i].part] = "ERR"
                 /\ outcome["probe"] = Failure(Identify[i].fails)
      BY <2>4, <3>1, <3>2
    <3>4. FailedAt("parse")
      BY <2>1, <2>5, <3>2
    <3>5. PICK l \in 1..(k + 2) : Through("parse", l) /\ (Refused("parse", l) \/ Broken("parse", l))
      BY <2>2, <3>4 DEF FailedAt
    <3>6. ~(i < l)
      <4>1. SUFFICES ASSUME i < l PROVE FALSE
        OBVIOUS
      <4>2. i \in 1..(l - 1)
        BY <2>2, <4>1
      <4> QED BY <2>2, <3>3, <3>5, <4>2 DEF Through
    <3>7. ~(l < i)
      <4>1. SUFFICES ASSUME l < i PROVE FALSE
        OBVIOUS
      <4>2. l \in 1..(i - 1) /\ l \in 1..k
        BY <2>2, <4>1
      <4>3. Passed(Identify[l]) /\ Steps("parse")[l] = Identify[l] /\ Identify[l].part # "units"
        BY <2>2, <3>3, <4>2
      <4> QED BY <3>5, <4>3 DEF Refused, Broken, Passed
    <3>8. l = i
      BY <2>2, <3>6, <3>7
    <3>9. Steps("parse")[l] = Identify[i] /\ Identify[i].part # "units"
      BY <2>2, <3>8
    <3> QED BY <3>3, <3>5, <3>9 DEF Refused, Broken
  <2> QED BY <2>7, <2>8
<1>2. ParseInv => ProbeAgrees
  BY <1>1 DEF ProbeAgrees
<1> QED BY <1>2, ParseInvariant, PTL

(* The files of the first m units: at most as many as their counts add up  *)
(* to.                                                                     *)
LEMMA UnionCount ==
    ASSUME NEW n \in Nat, NEW F, NEW c,
           \A i \in 1..n : IsFiniteSet(F[i]) /\ c[i] = Cardinality(F[i]) /\ c[i] \in Nat
    PROVE  /\ IsFiniteSet(UNION {F[i] : i \in 1..n})
           /\ Cardinality(UNION {F[i] : i \in 1..n}) <= SumTo(c, n)
<1> DEFINE U(m) == UNION {F[i] : i \in 1..m}
           Good(m) == IsFiniteSet(U(m)) /\ Cardinality(U(m)) <= SumTo(c, m)
           Bad == {m \in 0..n : ~Good(m)}
<1>1. Good(0)
  <2>1. U(0) = {}
    OBVIOUS
  <2>2. IsFiniteSet(U(0)) /\ Cardinality(U(0)) = 0
    <3> HIDE DEF U
    <3> QED BY <2>1, FS_EmptySet
  <2>3. SumTo(c, 0) = 0
    BY SumToStep
  <2> QED BY <2>2, <2>3
<1>2. ASSUME NEW m \in 1..n, Good(m - 1) PROVE Good(m)
  <2>1. U(m) = U(m - 1) \cup F[m]
    <3>1. \A i \in 1..m : i \in 1..(m - 1) \/ i = m
      OBVIOUS
    <3>2. m \in 1..m /\ \A i \in 1..(m - 1) : i \in 1..m
      OBVIOUS
    <3> QED BY <3>1, <3>2, Zenon
  <2> PICK A : A = U(m - 1)
    OBVIOUS
  <2> PICK B : B = F[m]
    OBVIOUS
  <2>2. /\ IsFiniteSet(A \cup B) /\ IsFiniteSet(A \cap B)
        /\ Cardinality(A \cup B) = Cardinality(A) + Cardinality(B) - Cardinality(A \cap B)
    <3> HIDE DEF U
    <3> QED BY <1>2, FS_Union, FS_Intersection
  <2>3. Cardinality(A) \in Nat /\ Cardinality(B) \in Nat /\ Cardinality(A \cap B) \in Nat
    <3> HIDE DEF U
    <3> QED BY <1>2, <2>2, FS_CardinalityType
  <2>4. SumTo(c, m) = SumTo(c, m - 1) + c[m] /\ SumTo(c, m - 1) \in Nat /\ c[m] = Cardinality(B)
    <3>1. /\ m \in Nat /\ m > 0 /\ m - 1 \in Nat
          /\ \A i \in 1..m : i \in 1..n
          /\ \A i \in 1..(m - 1) : i \in 1..n
      OBVIOUS
    <3>2. (\A i \in 1..m : c[i] \in Nat) /\ \A i \in 1..(m - 1) : c[i] \in Nat
      BY <3>1
    <3> QED BY <3>1, <3>2, SumToStep
  <2>5. Cardinality(A) <= SumTo(c, m - 1)
    <3> HIDE DEF U
    <3> QED BY <1>2
  <2> HIDE DEF U
  <2> QED BY <2>1, <2>2, <2>3, <2>4, <2>5
<1>3. Bad = {}
  <2>1. SUFFICES ASSUME Bad # {} PROVE FALSE
    OBVIOUS
  <2> HIDE DEF Good
  <2>2. Bad \in SUBSET Nat
    OBVIOUS
  <2>3. PICK m \in Bad : \A y \in Bad : m <= y
    <3> HIDE DEF Bad
    <3> QED BY <2>1, <2>2, MinProps
  <2>4. m \in 0..n /\ ~Good(m) /\ m # 0
    BY <1>1
  <2>5. m \in 1..n /\ m - 1 \in 0..n /\ ~(m <= m - 1)
    BY <2>4
  <2>6. Good(m - 1)
    BY <2>3, <2>5
  <2> QED BY <1>2, <2>4, <2>5, <2>6
<1>4. Good(n)
  <2> HIDE DEF Good
  <2> QED BY <1>3
<1> QED BY <1>4

(* The statistics of a parsed module lie between those of the units before *)
(* the first decode error and those of all units in front of the first     *)
(* undecodable header, none of them beyond the cap max_units               *)
(* (module/dwarf.rs, dwarf_stats), for every file and every cap.           *)
THEOREM StatsAreOfUnits == ParseSpec => []StatsOfUnits
<1> DEFINE walked == {i \in DOMAIN units :
                        i <= MaxUnits /\ \A j \in 1..i : units[j].is # "BADHEADER"}
<1>1. ASSUME ParseInv, IsModule(outcome["parse"]), ~pdb
      PROVE  /\ outcome["parse"].info.file_count = SumFunctionOnSet(FileCounts, walked)
             /\ outcome["parse"].info.has_line_table = (\E i \in walked : units[i].is = "LINES")
             /\ outcome["parse"].info.file_count \in Nat
             /\ IsFiniteSet(UNION {units[i].files : i \in walked})
             /\ Cardinality(UNION {units[i].files : i \in walked}) <= SumFunctionOnSet(FileCounts, walked)
  <2> PICK k : k = Len(Identify)
    OBVIOUS
  <2> PICK n : n = Len(units)
    OBVIOUS
  <2>1. outcome["parse"] # Pending /\ outcome["parse"] # Failure("alloc_cap") /\ ~FailedAt("parse")
    BY <1>1, FailedIsNoModule DEF ParseInv, Ops, Pending, Failure, IsModule
  <2>2. Succeeded("parse") /\ pdb \in BOOLEAN
    BY <1>1, <2>1 DEF ParseInv, Settled, Ops, TooLarge
  <2>3. k \in Nat /\ Len(Steps("parse")) = k + 2 /\ Steps("parse")[k + 1].part = "units"
    BY <1>1, <2>2, Prefix
  <2>4. UnitsDone
    <3>1. k + 1 \in 1..(Len(Steps("parse")) + 1 - 1)
      BY <2>3
    <3> QED BY <2>2, <2>3, <3>1 DEF Succeeded, Through, Passed
  <2>5. /\ outcome["parse"].info.file_count = stats.files
        /\ outcome["parse"].info.has_line_table = stats.line
    BY <1>1, <2>2 DEF Succeeded, info, DwarfInfo
  <2>6. /\ units \in Seq(UnitItems) /\ seen \in 0..n /\ seen <= MaxUnits
        /\ n \in Nat /\ DOMAIN units = 1..n
        /\ \A i \in 1..seen : units[i].is # "BADHEADER"
    BY <1>1, CountTypes DEF ParseInv, Walked
  <2>7. walked = 1..seen
    <3>1. ASSUME NEW i \in 1..seen PROVE i \in walked
      <4>1. i \in 1..n /\ i <= MaxUnits /\ \A j \in 1..i : j \in 1..seen
        BY <2>6, ParseAssumption
      <4> QED BY <2>6, <4>1
    <3>2. ASSUME NEW i \in walked PROVE i \in 1..seen
      <4>1. i \in 1..n /\ i <= MaxUnits /\ \A j \in 1..i : units[j].is # "BADHEADER"
        BY <2>6
      <4>2. SUFFICES ASSUME i > seen PROVE FALSE
        BY <2>6, <4>1
      <4>3. ~AtEnd
        BY <2>6, <4>1, <4>2, ParseAssumption DEF AtEnd
      <4>4. seen + 1 \in 1..i
        BY <2>6, <4>1, <4>2
      <4> QED BY <2>4, <4>1, <4>3, <4>4 DEF UnitsDone
    <3> HIDE DEF walked
    <3> QED BY <3>1, <3>2
  <2>8. SumTo(FileCounts, seen) \in Nat
    <3>1. seen \in Nat /\ \A i \in 1..seen : i \in 1..n
      BY <2>6
    <3> QED BY <2>6, <3>1, CountTypes, SumToStep
  <2>9. stats.files = SumTo(FileCounts, seen) /\ stats.line = (\E i \in 1..seen : units[i].is = "LINES")
    BY <1>1 DEF ParseInv, Walked
  <2>10. /\ IsFiniteSet(UNION {units[i].files : i \in 1..seen})
        /\ Cardinality(UNION {units[i].files : i \in 1..seen}) <= SumTo(FileCounts, seen)
    <3> DEFINE F == [i \in 1..seen |-> units[i].files]
    <3>1. \A i \in 1..seen : /\ F[i] = units[i].files /\ IsFiniteSet(F[i])
                             /\ FileCounts[i] = Cardinality(F[i]) /\ FileCounts[i] \in Nat
      BY <2>6, CountTypes
    <3>2. {F[i] : i \in 1..seen} = {units[i].files : i \in 1..seen}
      OBVIOUS
    <3>3. seen \in Nat
      BY <2>6
    <3> HIDE DEF F
    <3>4. /\ IsFiniteSet(UNION {F[i] : i \in 1..seen})
          /\ Cardinality(UNION {F[i] : i \in 1..seen}) <= SumTo(FileCounts, seen)
      BY <3>1, <3>3, UnionCount
    <3> QED BY <3>2, <3>4
  <2> HIDE DEF walked
  <2> QED BY <2>5, <2>7, <2>8, <2>9, <2>10 DEF SumTo
<1>2. ASSUME ParseInv, IsModule(outcome["parse"]), ~pdb,
             NEW intact \in SUBSET walked
      PROVE  outcome["parse"].info.file_count >= Cardinality(UNION {units[i].files : i \in intact})
  <2> PICK W : W = UNION {units[i].files : i \in walked}
    OBVIOUS
  <2> PICK I : I = UNION {units[i].files : i \in intact}
    OBVIOUS
  <2>1. IsFiniteSet(W) /\ I \subseteq W
    BY <1>1, <1>2
  <2>2. Cardinality(I) <= Cardinality(W) /\ Cardinality(I) \in Nat /\ Cardinality(W) \in Nat
    BY <2>1, FS_Subset, FS_CardinalityType
  <2>3. outcome["parse"].info.file_count \in Nat
    BY <1>1, <1>2
  <2> QED BY <1>1, <1>2, <2>2, <2>3
<1>3. ParseInv => StatsOfUnits
  <2> DEFINE intact == {i \in walked : \A j \in 1..i : units[j].is # "BADUNIT"}
             info_of == outcome["parse"].info
  <2> SUFFICES ASSUME ParseInv, IsModule(outcome["parse"]), ~pdb
               PROVE  /\ info_of.file_count >= Cardinality(UNION {units[i].files : i \in intact})
                      /\ info_of.file_count <= SumFunctionOnSet(FileCounts, walked)
                      /\ (\E i \in intact : units[i].is = "LINES") => info_of.has_line_table
                      /\ info_of.has_line_table => \E i \in walked : units[i].is = "LINES"
    BY DEF StatsOfUnits, FileCounts
  <2>1. intact \in SUBSET walked
    OBVIOUS
  <2>2. info_of.file_count >= Cardinality(UNION {units[i].files : i \in intact})
    <3> HIDE DEF walked, intact
    <3> QED BY <1>2, <2>1
  <2>3. /\ info_of.file_count = SumFunctionOnSet(FileCounts, walked) /\ info_of.file_count \in Nat
        /\ info_of.has_line_table = (\E i \in walked : units[i].is = "LINES")
    BY <1>1
  <2>4. info_of.file_count <= SumFunctionOnSet(FileCounts, walked)
    <3> HIDE DEF walked
    <3> QED BY <2>3
  <2>5. (\E i \in intact : units[i].is = "LINES") => info_of.has_line_table
    <3> HIDE DEF walked, intact
    <3> QED BY <2>1, <2>3, Zenon
  <2>6. info_of.has_line_table => \E i \in walked : units[i].is = "LINES"
    <3> HIDE DEF walked
    <3> QED BY <2>3, Zenon
  <2> QED BY <2>2, <2>4, <2>5, <2>6
<1> QED BY <1>3, ParseInvariant, PTL
=============================================================================
