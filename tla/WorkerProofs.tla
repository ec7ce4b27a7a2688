---------------------------- MODULE WorkerProofs ----------------------------
(***************************************************************************)
(* Theorems of the worker: whatever calls the clients interleave, it does  *)
(* nothing but steps of SymbolsState, so that the invariant of the state   *)
(* machine holds under it; at most one call is inside the lock; and every  *)
(* finished batch is aligned with its rows.                                *)
(***************************************************************************)
EXTENDS Worker, SymbolsStateProofs

Places == {"idle", "waiting", "rows", "lookup", "emit"}
Inside == {"rows", "lookup"}
Fields == {"pc", "fn", "cells", "row", "arg", "out"}
Results == Images \cup {NotFound, Failed, None}

(* A value belongs to a row. *)
Fits(cell, r) == r \in Images => readable(cell) /\ Names(Canon[cell.id], DebugId[r])

(* A batch under way has a value for every row in front of the current     *)
(* one; its lookup is about a row that can be read.                        *)
Answered(q) ==
    /\ q.out \in Seq(Results)
    /\ Len(q.out) = q.row - 1 /\ q.row <= Len(q.cells) + 1
    /\ \A i \in 1..Len(q.out) : Fits(q.cells[i], q.out[i])
    /\ q.pc = "lookup" => q.row <= Len(q.cells) /\ readable(q.cells[q.row])
    /\ q.pc = "emit" => q.row > Len(q.cells)

Demangled(q) ==
    q.pc = "emit" => q.out = [i \in DOMAIN q.cells |-> q.cells[i].id]

(* What holds of one call. *)
GoodCall(q) ==
    /\ DOMAIN q = Fields
    /\ q.pc \in Places /\ q.fn \in ScalarFns \cup TableFns \cup {None}
    /\ q.cells \in Seq(Cells) /\ q.row \in Nat
    /\ q.pc \in Inside => q.fn \in ResolveFns
    /\ q.fn \in ResolveFns => Answered(q)
    /\ q.fn = "demangle" => Demangled(q)

GoodCalls == DOMAIN query = Clients /\ \A c \in Clients : GoodCall(query[c])

(* The lock is held by the call that is inside it, and the lookup under    *)
(* way is about that call's current row.                                   *)
Owner ==
    /\ lock \in Clients \cup {None}
    /\ \A c \in Clients :
         /\ lock = c <=> query[c].pc \in Inside
         /\ query[c].pc = "lookup" => call # Idle /\ call.tok = CurrentCell(c).id
    /\ call # Idle => \E c \in Clients : query[c].pc = "lookup"

Counted == poisoned \in BOOLEAN /\ calls \in [Clients -> 0..MaxCalls]

(* The inductive invariant of the worker. *)
WorkerInv == StateInv /\ GoodCalls /\ Owner /\ Counted

-----------------------------------------------------------------------------
(* The worker's steps are steps of the state machine *)

(* An identifier that can be read is a spelling. *)
LEMMA ReadableId ==
    ASSUME NEW cell \in Cells, readable(cell)
    PROVE  cell.id \in Spellings
BY DEF Cells, readable

(* The current cell of a batch is a cell.                                  *)
LEMMA CurrentCellType ==
    ASSUME NEW q, GoodCall(q), q.row <= Len(q.cells), q.row # 0
    PROVE  q.cells[q.row] \in Cells
BY DEF GoodCall

(* The row of a batch inside the lock is at least 1.                       *)
LEMMA RowPositive ==
    ASSUME NEW q, GoodCall(q), q.pc \in Inside
    PROVE  q.row \in Nat \ {0} /\ q.fn \in ResolveFns /\ Answered(q)
<1>1. Len(q.out) \in Nat
  BY DEF GoodCall, Answered
<1> DEFINE n == Len(q.out)
<1>2. n \in Nat /\ n = q.row - 1
  BY <1>1 DEF GoodCall, Answered
<1> HIDE DEF n
<1> QED BY <1>2 DEF GoodCall

(* Every step of the worker is one of the state machine, or leaves it as   *)
(* it is.                                                                  *)
LEMMA WorkerStep ==
    ASSUME GoodCalls, [WorkerNext]_<<vars, workerVars>>
    PROVE  [Next]_vars
<1>1. ASSUME NEW c \in Clients, StartRow(c) PROVE [Next]_vars
  <2>1. GoodCall(query[c]) /\ query[c].row <= Len(query[c].cells) /\ query[c].pc \in Inside
    BY <1>1 DEF GoodCalls, StartRow, InRows, Inside
  <2>2. CurrentCell(c) \in Cells
    BY <2>1, RowPositive, CurrentCellType DEF CurrentCell
  <2>3. CurrentCell(c).id \in Spellings
    BY <1>1, <2>2, ReadableId DEF StartRow
  <2> QED BY <1>1, <2>3 DEF StartRow, Next
<1>2. ASSUME NEW c \in Clients, StepRow(c) PROVE [Next]_vars
  BY <1>2 DEF StepRow, Next
<1>3. ASSUME NEW c \in Clients, PanicRow(c) PROVE [Next]_vars
  BY <1>3 DEF PanicRow, Next
<1>4. ASSUME NEW c \in Clients, AddCall(c) \/ DropCall(c) \/ EvictCall(c) PROVE [Next]_vars
  BY <1>4 DEF AddCall, DropCall, EvictCall, Next
<1>5. ASSUME NEW c \in Clients,
             \/ CallScalar(c) \/ CallTable(c) \/ RefuseCall(c) \/ Demangle(c)
             \/ StartBatch(c) \/ NullRow(c) \/ EndBatch(c) \/ Emit(c)
             \/ ListSources(c) \/ CacheStatus(c) \/ InfoCall(c)
      PROVE  UNCHANGED vars
  BY <1>5 DEF CallScalar, CallTable, Begin, RefuseCall, Demangle, StartBatch, NullRow,
              EndBatch, Emit, ListSources, CacheStatus, InfoCall
<1>6. CASE DiskMoves
  BY <1>6 DEF Next
<1>7. CASE UNCHANGED <<vars, workerVars>>
  BY <1>7
<1> QED BY <1>1, <1>2, <1>3, <1>4, <1>5, <1>6, <1>7 DEF WorkerNext, Serve

-----------------------------------------------------------------------------
(* One call changes *)

(* A call is replaced by a good one. *)
LEMMA Replaced ==
    ASSUME GoodCalls, NEW c \in Clients, NEW q, GoodCall(q), query' = [query EXCEPT ![c] = q]
    PROVE  /\ GoodCalls' /\ query'[c] = q
           /\ \A x \in Clients \ {c} : query'[x] = query[x]
<1>1. query'[c] = q /\ DOMAIN query' = Clients /\ \A x \in Clients \ {c} : query'[x] = query[x]
  BY DEF GoodCalls
<1>2. \A x \in Clients : GoodCall(query'[x])
  BY <1>1 DEF GoodCalls
<1> QED BY <1>1, <1>2 DEF GoodCalls

(* A call outside the lock changes and stays outside. *)
LEMMA QuietOwner ==
    ASSUME GoodCalls, Owner, NEW c \in Clients, NEW q, GoodCall(q),
           query' = [query EXCEPT ![c] = q],
           query[c].pc \notin Inside, q.pc \notin Inside, lock' = lock, call' = call
    PROVE  GoodCalls' /\ Owner'
<1>1. /\ GoodCalls' /\ query'[c] = q
      /\ \A x \in Clients \ {c} : query'[x] = query[x]
  BY Replaced
<1>2. \A x \in Clients : (lock' = x <=> query'[x].pc \in Inside)
  BY <1>1 DEF Owner
<1>3. ASSUME NEW x \in Clients, query'[x].pc = "lookup"
      PROVE  call' # Idle /\ call'.tok = query'[x].cells[query'[x].row].id
  <2>1. x # c
    BY <1>1, <1>3 DEF Inside
  <2> QED BY <1>1, <1>3, <2>1 DEF Owner, CurrentCell
<1>4. ASSUME call' # Idle PROVE \E x \in Clients : query'[x].pc = "lookup"
  <2>1. PICK x \in Clients : query[x].pc = "lookup"
    BY <1>4 DEF Owner
  <2> QED BY <1>1, <2>1 DEF Inside
<1> QED BY <1>1, <1>2, <1>3, <1>4 DEF Owner, CurrentCell

(* The owner of the lock changes and stays inside, or leaves; no lookup is *)
(* under way but its own.                                                  *)
LEMMA OwnerMoves ==
    ASSUME GoodCalls, Owner, NEW c \in Clients, NEW q, GoodCall(q),
           query' = [query EXCEPT ![c] = q],
           query[c].pc \in Inside \/ lock = None,
           lock' = IF q.pc \in Inside THEN c ELSE None,
           q.pc = "lookup" <=> call' # Idle,
           q.pc = "lookup" => call'.tok = q.cells[q.row].id
    PROVE  GoodCalls' /\ Owner'
<1>1. /\ GoodCalls' /\ query'[c] = q
      /\ \A x \in Clients \ {c} : query'[x] = query[x]
  BY Replaced
<1>2. \A x \in Clients \ {c} : query'[x].pc \notin Inside
  BY <1>1, WorkerAssumption DEF Owner
<1>3. \A x \in Clients : (lock' = x <=> query'[x].pc \in Inside)
  BY <1>1, <1>2, WorkerAssumption
<1>4. ASSUME NEW x \in Clients, query'[x].pc = "lookup"
      PROVE  call' # Idle /\ call'.tok = query'[x].cells[query'[x].row].id
  <2>1. x = c
    BY <1>2, <1>4 DEF Inside
  <2> QED BY <1>1, <1>4, <2>1
<1>5. call' # Idle => \E x \in Clients : query'[x].pc = "lookup"
  BY <1>1
<1> QED BY <1>1, <1>3, <1>4, <1>5 DEF Owner, CurrentCell

-----------------------------------------------------------------------------
(* What a good call becomes *)

(* A call begins.                                                          *)
LEMMA BegunCall ==
    ASSUME NEW fn \in ScalarFns \cup TableFns, NEW cells \in Seq(Cells), NEW x
    PROVE  GoodCall([NoCall EXCEPT !.pc = "waiting", !.fn = fn, !.cells = cells, !.arg = x])
<1> DEFINE q == [NoCall EXCEPT !.pc = "waiting", !.fn = fn, !.cells = cells, !.arg = x]
<1>1. /\ DOMAIN q = Fields /\ q.pc = "waiting" /\ q.fn = fn /\ q.cells = cells
      /\ q.row = 1 /\ q.out = <<>>
  BY DEF NoCall, Fields
<1> HIDE DEF q
<1>2. Len(q.out) = 0 /\ q.out \in Seq(Results) /\ Len(q.cells) \in Nat
  BY <1>1
<1>3. Answered(q)
  BY <1>1, <1>2 DEF Answered
<1> QED BY <1>1, <1>3 DEF GoodCall, Places, Inside, Demangled, q

(* No call is a good call.                                                 *)
LEMMA NoCallGood == GoodCall(NoCall) /\ NoCall.pc = "idle"
<1>1. /\ DOMAIN NoCall = Fields /\ NoCall.pc = "idle" /\ NoCall.fn = None
      /\ NoCall.cells = <<>> /\ NoCall.row = 1 /\ NoCall.out = <<>>
  BY DEF NoCall, Fields
<1>2. Len(NoCall.out) = 0 /\ NoCall.out \in Seq(Results) /\ Len(NoCall.cells) = 0
      /\ NoCall.cells \in Seq(Cells)
  BY <1>1
<1>3. Answered(NoCall)
  BY <1>1, <1>2 DEF Answered
<1> QED BY <1>1, <1>2, <1>3 DEF GoodCall, Places, Inside, Demangled

(* A table call keeps its result.                                          *)
LEMMA ProducedCall ==
    ASSUME NEW q, GoodCall(q), q.fn \in TableFns, NEW r
    PROVE  GoodCall([q EXCEPT !.pc = "emit", !.out = <<r>>])
BY DEF GoodCall, Fields, Places, Inside, TableFns, ResolveFns, ScalarFns

(* A demangled column is kept.                                             *)
LEMMA DemangledCall ==
    ASSUME NEW q, GoodCall(q), q.fn = "demangle"
    PROVE  GoodCall([q EXCEPT !.pc = "emit", !.out = [i \in DOMAIN q.cells |-> q.cells[i].id]])
BY DEF GoodCall, Fields, Places, Inside, ResolveFns, Demangled

(* A batch moves on without a value: it gets the lock, starts a lookup or  *)
(* ends.                                                                   *)
LEMMA MovedCall ==
    ASSUME NEW q, GoodCall(q), q.fn \in ResolveFns, NEW pc \in {"rows", "lookup", "emit"},
           pc = "lookup" => q.row <= Len(q.cells) /\ readable(q.cells[q.row]),
           pc = "emit" => q.row > Len(q.cells)
    PROVE  GoodCall([q EXCEPT !.pc = pc])
<1> DEFINE q2 == [q EXCEPT !.pc = pc]
<1>1. /\ DOMAIN q2 = Fields /\ q2.pc = pc /\ q2.fn = q.fn /\ q2.cells = q.cells
      /\ q2.row = q.row /\ q2.out = q.out
  BY DEF GoodCall, Fields
<1> HIDE DEF q2
<1>2. Answered(q2)
  BY <1>1 DEF GoodCall, Answered
<1> QED BY <1>1, <1>2 DEF GoodCall, Places, ResolveFns, q2

(* A value is pushed.                                                      *)
LEMMA PushedCall ==
    ASSUME NEW q, GoodCall(q), q.pc \in Inside, q.row <= Len(q.cells),
           NEW r \in Results, Fits(q.cells[q.row], r)
    PROVE  GoodCall([q EXCEPT !.pc = "rows", !.row = q.row + 1, !.out = Append(q.out, r)])
<1> DEFINE q2 == [q EXCEPT !.pc = "rows", !.row = q.row + 1, !.out = Append(q.out, r)]
           n == Len(q.out)
           k == Len(q.cells)
<1>1. q.fn \in ResolveFns /\ Answered(q) /\ q.row \in Nat /\ q.cells \in Seq(Cells)
  BY DEF GoodCall
<1>2. q.out \in Seq(Results) /\ n \in Nat /\ n = q.row - 1 /\ k \in Nat /\ q.row <= k
  BY <1>1 DEF Answered
<1>3. /\ DOMAIN q2 = Fields /\ q2.pc = "rows" /\ q2.fn = q.fn /\ q2.cells = q.cells
      /\ q2.row = q.row + 1 /\ q2.out = Append(q.out, r)
  BY DEF GoodCall, Fields
<1>4. /\ q2.out \in Seq(Results) /\ Len(q2.out) = n + 1
      /\ q2.out[n + 1] = r /\ \A i \in 1..n : q2.out[i] = q.out[i]
  BY <1>2, <1>3
<1>5. \A i \in 1..n : Fits(q.cells[i], q.out[i])
  BY <1>1 DEF Answered
<1> HIDE DEF q2, n
<1>6. \A i \in 1..(n + 1) : i \in 1..n \/ i = n + 1
  BY <1>2
<1>7. n + 1 = q.row
  BY <1>1, <1>2
<1>8. \A i \in 1..(n + 1) : Fits(q2.cells[i], q2.out[i])
  BY <1>3, <1>4, <1>5, <1>6, <1>7
<1>9. n + 1 = q2.row - 1 /\ q2.row <= Len(q2.cells) + 1
  BY <1>1, <1>2, <1>3
<1>10. Answered(q2)
  BY <1>3, <1>4, <1>8, <1>9 DEF Answered
<1> QED BY <1>1, <1>3, <1>10 DEF GoodCall, Places, ResolveFns, q2

-----------------------------------------------------------------------------
(* What a lookup hands to its row *)

(* An answer to s: of no module, or of one that s names.                   *)
Answers(s) ==
    /\ answer.tok = s /\ answer.res \in Results
    /\ answer.res \in Images => Names(Canon[s], DebugId[answer.res])

(* A finished call leaves such an answer.                                  *)
LEMMA FinishAnswers ==
    ASSUME StateInv', NEW s \in Spellings, NEW r, Finish(s, r)
    PROVE  call' = Idle /\ Answers(s)'
BY DEF StateInv, CallInv, NoMisattribution, Answer, Answers, Results, Finish

(* The first step of a lookup.                                             *)
LEMMA StartAnswers ==
    ASSUME StateInv', NEW s \in Spellings, StartLookup(s)
    PROVE  IF call' = Idle THEN Answers(s)' ELSE call'.tok = s
<1>1. CASE ResolveHit(s) BY <1>1, FinishAnswers DEF ResolveHit
<1>2. CASE ResolveKnownMiss(s) BY <1>2, FinishAnswers DEF ResolveKnownMiss
<1>3. CASE ResolveSearch(s)
  BY <1>3, StateAssumption DEF ResolveSearch, Idle
<1> QED BY <1>1, <1>2, <1>3 DEF StartLookup

(* A later step. *)
LEMMA StepAnswers ==
    ASSUME StateInv, StateInv', call # Idle, LookupStep, NEW s, s = call.tok
    PROVE  IF call' = Idle THEN Answers(s)' ELSE call'.tok = s
<1>1. s \in Spellings /\ call \in [pc : {"locating", "inserting"}, tok : Spellings]
  BY DEF StateInv, CallInv, Call
<1>2. CASE WalkSource BY <1>2 DEF WalkSource
<1>3. CASE LocateMiss
  <2>1. Finish(s, NotFound)
    BY <1>3 DEF LocateMiss
  <2> QED BY <1>1, <2>1, FinishAnswers
<1>4. CASE LocateError
  <2>1. Finish(s, Failed)
    BY <1>4 DEF LocateError
  <2> QED BY <1>1, <2>1, FinishAnswers
<1>5. CASE LocateInsert
  <2>1. call' = [call EXCEPT !.pc = "inserting"]
    BY <1>5 DEF LocateInsert
  <2>2. call'.pc = "inserting" /\ call'.tok = s
    BY <1>1, <2>1
  <2>3. call' # Idle
    BY <2>2 DEF Idle
  <2> QED BY <2>2, <2>3
<1>6. CASE InsertEvicts
  <2>1. call' = call
    BY <1>6 DEF InsertEvicts
  <2> QED BY <2>1
<1>7. CASE ResolveAgain
  <2>1. PICK r : Finish(s, r)
    BY <1>7 DEF ResolveAgain
  <2> QED BY <1>1, <2>1, FinishAnswers
<1> QED BY <1>2, <1>3, <1>4, <1>5, <1>6, <1>7 DEF LookupStep

(* Its value fits the row the lookup is about.                             *)
LEMMA ValueFits ==
    ASSUME NEW cell \in Cells, readable(cell), Answers(cell.id)', NEW fn
    PROVE  Value(fn, answer'.res) \in Results /\ Fits(cell, Value(fn, answer'.res))
BY StateAssumption DEF Answers, Value, Fits, Results

-----------------------------------------------------------------------------
(* The actions *)

(* A row gets its value, while its batch holds the lock.                   *)
LEMMA RowPushed ==
    ASSUME GoodCalls, Owner, NEW c \in Clients, query[c].pc \in Inside,
           query[c].row <= Len(query[c].cells), lock' = lock, call' = Idle,
           NEW r, PushRow(c, r), Value(query[c].fn, r) \in Results,
           Fits(CurrentCell(c), Value(query[c].fn, r))
    PROVE  GoodCalls' /\ Owner'
<1> DEFINE v == Value(query[c].fn, r)
           q == [query[c] EXCEPT !.pc = "rows", !.row = query[c].row + 1,
                             !.out = Append(query[c].out, v)]
<1>1. GoodCall(query[c])
  BY DEF GoodCalls
<1>2. GoodCall(q)
  BY <1>1, PushedCall DEF CurrentCell
<1>3. query' = [query EXCEPT ![c] = q]
  BY DEF PushRow
<1>4. q.pc = "rows"
  BY <1>1 DEF GoodCall, Fields
<1>5. lock' = c
  BY DEF Owner
<1> HIDE DEF q
<1> QED BY <1>2, <1>3, <1>4, <1>5, OwnerMoves DEF Inside

(* A row begins: it is looked up, at once or not.                          *)
LEMMA StartRowOwner ==
    ASSUME StateInv', GoodCalls, Owner, NEW c \in Clients, StartRow(c)
    PROVE  GoodCalls' /\ Owner'
<1> PICK cell : cell = CurrentCell(c)
  OBVIOUS
<1>1. /\ GoodCall(query[c]) /\ query[c].pc \in Inside /\ query[c].row <= Len(query[c].cells)
      /\ readable(cell) /\ StartLookup(cell.id) /\ lock' = lock
  BY DEF GoodCalls, StartRow, InRows, Inside
<1>2. cell \in Cells /\ query[c].fn \in ResolveFns
  BY <1>1, RowPositive, CurrentCellType DEF CurrentCell
<1>3. cell.id \in Spellings
  BY <1>1, <1>2, ReadableId
<1>4. IF call' = Idle THEN Answers(cell.id)' ELSE call'.tok = cell.id
  BY <1>1, <1>3, StartAnswers
<1>5. CASE call' = Idle
  <2>1. /\ Value(query[c].fn, answer'.res) \in Results
        /\ Fits(cell, Value(query[c].fn, answer'.res))
    BY <1>1, <1>2, <1>4, <1>5, ValueFits
  <2>2. PushRow(c, answer'.res)
    BY <1>5 DEF StartRow
  <2> QED BY <1>1, <1>5, <2>1, <2>2, RowPushed
<1>6. CASE call' # Idle
  <2> DEFINE q == [query[c] EXCEPT !.pc = "lookup"]
  <2>1. query' = [query EXCEPT ![c] = q]
    BY <1>6 DEF StartRow
  <2>2. GoodCall(q)
    BY <1>1, <1>2, MovedCall DEF CurrentCell
  <2>3. q.pc = "lookup" /\ q.cells = query[c].cells /\ q.row = query[c].row
    BY <1>1 DEF GoodCall, Fields
  <2>4. call'.tok = q.cells[q.row].id
    BY <1>4, <1>6, <2>3 DEF CurrentCell
  <2>5. lock' = c
    BY <1>1 DEF Owner
  <2> HIDE DEF q
  <2> QED BY <1>1, <1>6, <2>1, <2>2, <2>3, <2>4, <2>5, OwnerMoves DEF Inside
<1> QED BY <1>5, <1>6

(* A lookup goes on: its row waits, or gets the answer.                    *)
LEMMA StepRowOwner ==
    ASSUME StateInv, StateInv', GoodCalls, Owner, NEW c \in Clients, StepRow(c)
    PROVE  GoodCalls' /\ Owner'
<1> PICK cell : cell = CurrentCell(c)
  OBVIOUS
<1>1. /\ GoodCall(query[c]) /\ query[c].pc = "lookup" /\ query[c].pc \in Inside
      /\ LookupStep /\ lock' = lock /\ call # Idle /\ call.tok = cell.id
  BY DEF GoodCalls, StepRow, Inside, Owner
<1>2. query[c].row <= Len(query[c].cells) /\ readable(cell)
  BY <1>1, RowPositive DEF Answered, CurrentCell
<1>3. cell \in Cells
  BY <1>1, <1>2, RowPositive, CurrentCellType DEF CurrentCell
<1>4. IF call' = Idle THEN Answers(cell.id)' ELSE call'.tok = cell.id
  <2>1. cell.id = call.tok
    BY <1>1
  <2> QED BY <1>1, <2>1, StepAnswers
<1>5. CASE call' = Idle
  <2>1. /\ Value(query[c].fn, answer'.res) \in Results
        /\ Fits(cell, Value(query[c].fn, answer'.res))
    BY <1>2, <1>3, <1>4, <1>5, ValueFits
  <2>2. PushRow(c, answer'.res)
    BY <1>5 DEF StepRow
  <2> QED BY <1>1, <1>2, <1>5, <2>1, <2>2, RowPushed
<1>6. CASE call' # Idle
  <2>1. query' = query
    BY <1>6 DEF StepRow
  <2> QED BY <1>1, <1>4, <1>6, <2>1 DEF GoodCalls, Owner, CurrentCell, Inside
<1> QED BY <1>5, <1>6

(* A row without a lookup.                                                 *)
LEMMA NullRowOwner ==
    ASSUME GoodCalls, Owner, NEW c \in Clients, NullRow(c)
    PROVE  GoodCalls' /\ Owner'
<1>1. /\ query[c].pc = "rows" /\ query[c].row <= Len(query[c].cells)
      /\ PushRow(c, NotFound) /\ UNCHANGED vars /\ lock' = lock
  BY DEF NullRow, InRows
<1>2. \A x \in Clients : query[x].pc # "lookup"
  BY <1>1, WorkerAssumption DEF Owner, Inside
<1>3. call' = Idle
  BY <1>1, <1>2 DEF Owner, vars
<1>4. Value(query[c].fn, NotFound) \in Results /\ Value(query[c].fn, NotFound) \notin Images
  BY StateAssumption DEF Value, Results
<1> QED BY <1>1, <1>3, <1>4, RowPushed DEF Inside, Fits

(* A batch gets the lock, or gives it back.                                *)
LEMMA BatchOwner ==
    ASSUME GoodCalls, Owner, NEW c \in Clients, StartBatch(c) \/ EndBatch(c)
    PROVE  GoodCalls' /\ Owner'
<1> DEFINE to(pc) == [query[c] EXCEPT !.pc = pc]
<1>1. GoodCall(query[c]) /\ call' = call
  BY DEF GoodCalls, StartBatch, EndBatch, vars
<1>2. \A pc \in {"rows", "emit"} : to(pc).pc = pc
  BY <1>1 DEF GoodCall, Fields
<1>3. CASE StartBatch(c)
  <2>1. lock = None /\ lock' = c /\ query' = [query EXCEPT ![c] = to("rows")]
        /\ query[c].fn \in ResolveFns
    BY <1>3 DEF StartBatch, Acquire
  <2>2. call' = Idle
    BY <1>1, <2>1, WorkerAssumption DEF Owner, Inside
  <2>3. GoodCall(to("rows")) /\ to("rows").pc = "rows"
    BY <1>1, <1>2, <2>1, MovedCall
  <2> HIDE DEF to
  <2> QED BY <2>1, <2>2, <2>3, OwnerMoves DEF Inside
<1>4. CASE EndBatch(c)
  <2>1. /\ query[c].pc = "rows" /\ query[c].row > Len(query[c].cells)
        /\ lock' = None /\ query' = [query EXCEPT ![c] = to("emit")]
    BY <1>4 DEF EndBatch
  <2>2. query[c].fn \in ResolveFns
    BY <1>1, <2>1 DEF GoodCall, Inside
  <2>3. \A x \in Clients : query[x].pc # "lookup"
    BY <2>1, WorkerAssumption DEF Owner, Inside
  <2>4. call' = Idle
    BY <1>1, <2>3 DEF Owner
  <2>5. GoodCall(to("emit")) /\ to("emit").pc = "emit"
    BY <1>1, <1>2, <2>1, <2>2, MovedCall
  <2> HIDE DEF to
  <2> QED BY <2>1, <2>4, <2>5, OwnerMoves DEF Inside
<1> QED BY <1>3, <1>4

(* A panic ends the call and frees the lock.                               *)
LEMMA PanicOwner ==
    ASSUME GoodCalls, Owner, NEW c \in Clients, PanicRow(c)
    PROVE  GoodCalls' /\ Owner'
<1>1. /\ query[c].pc = "lookup" /\ call' = Idle
      /\ query' = [query EXCEPT ![c] = NoCall] /\ lock' = None
  BY DEF PanicRow, WalkPanics
<1> QED BY <1>1, NoCallGood, OwnerMoves DEF Inside

(* What happens outside the lock, or in one hold of it: a call begins, is  *)
(* refused, is served by a table function or by demangle, and ends.        *)
LEMMA OutsideOwner ==
    ASSUME GoodCalls, Owner, NEW c \in Clients,
           \/ CallScalar(c) \/ CallTable(c) \/ RefuseCall(c) \/ Demangle(c) \/ Emit(c)
           \/ AddCall(c) \/ DropCall(c) \/ ListSources(c) \/ CacheStatus(c)
           \/ EvictCall(c) \/ InfoCall(c)
    PROVE  GoodCalls' /\ Owner'
<1>1. GoodCall(query[c])
  BY DEF GoodCalls
<1>2. CASE CallScalar(c) \/ CallTable(c)
  <2>0. PICK fn \in ScalarFns \cup TableFns, cells \in Seq(Cells) : \E x : Begin(c, fn, cells, x)
    <3>1. <<>> \in Seq(Cells)
      OBVIOUS
    <3> QED BY <1>2, <3>1, WorkerAssumption DEF CallScalar, CallTable
  <2>1. PICK x : Begin(c, fn, cells, x)
    BY <2>0
  <2> DEFINE q == [NoCall EXCEPT !.pc = "waiting", !.fn = fn, !.cells = cells, !.arg = x]
  <2>2. GoodCall(q)
    BY BegunCall
  <2>3. /\ query[c] = NoCall /\ query' = [query EXCEPT ![c] = q]
        /\ lock' = lock /\ call' = call
    BY <2>1 DEF Begin, vars
  <2>4. q.pc = "waiting" /\ query[c].pc = "idle"
    BY <2>3, NoCallGood DEF NoCall
  <2> HIDE DEF q
  <2> QED BY <2>2, <2>3, <2>4, QuietOwner DEF Inside
<1>3. CASE RefuseCall(c) \/ Emit(c)
  <2>1. /\ query[c].pc \in {"waiting", "emit"} /\ query' = [query EXCEPT ![c] = NoCall]
        /\ lock' = lock /\ call' = call
    BY <1>3 DEF RefuseCall, Emit, vars
  <2> QED BY <2>1, NoCallGood, QuietOwner DEF Inside
<1>4. CASE Demangle(c)
  <2> DEFINE q == [query[c] EXCEPT !.pc = "emit",
                     !.out = [i \in DOMAIN query[c].cells |-> query[c].cells[i].id]]
  <2>1. /\ query[c].pc = "waiting" /\ query[c].fn = "demangle"
        /\ query' = [query EXCEPT ![c] = q] /\ lock' = lock /\ call' = call
    BY <1>4 DEF Demangle, vars
  <2>2. GoodCall(q) /\ q.pc = "emit"
    BY <1>1, <2>1, DemangledCall DEF GoodCall, Fields
  <2> HIDE DEF q
  <2> QED BY <2>1, <2>2, QuietOwner DEF Inside
<1>5. CASE \/ AddCall(c) \/ DropCall(c) \/ ListSources(c) \/ CacheStatus(c)
           \/ EvictCall(c) \/ InfoCall(c)
  <2>0. PICK fn \in TableFns : \E r : Produce(c, fn, r)
    BY <1>5 DEF AddCall, DropCall, ListSources, CacheStatus, EvictCall, InfoCall, TableFns
  <2>1. PICK r : Produce(c, fn, r)
    BY <2>0
  <2> DEFINE q == [query[c] EXCEPT !.pc = "emit", !.out = <<r>>]
  <2>2. call' = call
    BY <1>5 DEF AddCall, DropCall, ListSources, CacheStatus, EvictCall, InfoCall,
                AddSource, DropSource, CacheEvictAll, vars
  <2>3. /\ query[c].pc = "waiting" /\ query[c].fn = fn
        /\ query' = [query EXCEPT ![c] = q] /\ lock' = lock
    BY <2>1 DEF Produce, Acquire, WantsLock
  <2>4. GoodCall(q) /\ q.pc = "emit"
    BY <1>1, <2>3, ProducedCall DEF GoodCall, Fields
  <2> HIDE DEF q
  <2> QED BY <2>2, <2>3, <2>4, QuietOwner DEF Inside
<1> QED BY <1>2, <1>3, <1>4, <1>5

(* The poison flag and the number of calls keep their types.               *)
LEMMA CountedInv ==
    ASSUME Counted, [WorkerNext]_<<vars, workerVars>>
    PROVE  Counted'
<1>1. ASSUME NEW c \in Clients, CallScalar(c) \/ CallTable(c) PROVE Counted'
  <2>1. calls[c] < MaxCalls /\ calls' = [calls EXCEPT ![c] = @ + 1] /\ poisoned' = poisoned
    BY <1>1 DEF CallScalar, CallTable, Begin
  <2>2. calls[c] + 1 \in 0..MaxCalls
    BY <2>1, WorkerAssumption DEF Counted
  <2> QED BY <2>1, <2>2 DEF Counted
<1>2. ASSUME NEW c \in Clients, Serve(c) PROVE UNCHANGED <<poisoned, calls>>
  BY <1>2 DEF Serve, StartBatch, NullRow, StartRow, StepRow, EndBatch, Demangle, RefuseCall,
              AddCall, DropCall, ListSources, CacheStatus, EvictCall, InfoCall, Emit, Produce
<1>3. ASSUME NEW c \in Clients, PanicRow(c) PROVE poisoned' = TRUE /\ calls' = calls
  BY <1>3 DEF PanicRow
<1> QED BY <1>1, <1>2, <1>3 DEF WorkerNext, workerVars, Counted

-----------------------------------------------------------------------------
(* The theorems *)

(* WorkerInv holds initially.                                              *)
LEMMA WorkerInitInv == WorkerInit => WorkerInv
<1> SUFFICES ASSUME WorkerInit PROVE WorkerInv
  OBVIOUS
<1>1. StateInv /\ call = Idle
  BY StateInitInv DEF WorkerInit, Init
<1>2. GoodCalls
  BY NoCallGood DEF WorkerInit, WorkerIdle, GoodCalls
<1>3. Owner
  BY <1>1, NoCallGood, WorkerAssumption DEF WorkerInit, WorkerIdle, Owner, Inside
<1>4. Counted
  <2>1. 0 \in 0..MaxCalls
    BY WorkerAssumption
  <2>2. poisoned = FALSE /\ calls = [c \in Clients |-> 0]
    BY DEF WorkerInit, WorkerIdle
  <2>3. calls \in [Clients -> 0..MaxCalls]
    BY <2>1, <2>2
  <2> QED BY <2>2, <2>3 DEF Counted
<1> QED BY <1>1, <1>2, <1>3, <1>4 DEF WorkerInv

(* Every step of the worker preserves WorkerInv.                           *)
LEMMA WorkerNextInv ==
    ASSUME WorkerInv, [WorkerNext]_<<vars, workerVars>>
    PROVE  WorkerInv'
<1>1. StateInv' /\ Counted'
  BY WorkerStep, StateNextInv, CountedInv DEF WorkerInv
<1>2. ASSUME NEW c \in Clients, CallScalar(c) \/ CallTable(c) \/ Serve(c) \/ PanicRow(c)
      PROVE  GoodCalls' /\ Owner'
  BY <1>1, <1>2, StartRowOwner, StepRowOwner, NullRowOwner, BatchOwner, PanicOwner, OutsideOwner
     DEF WorkerInv, Serve
<1>3. CASE (DiskMoves /\ UNCHANGED workerVars) \/ UNCHANGED <<vars, workerVars>>
  <2>1. call' = call /\ lock' = lock /\ query' = query
    BY <1>3 DEF DiskMoves, workerVars, vars
  <2>2. GoodCalls /\ Owner
    BY DEF WorkerInv
  <2>3. GoodCalls'
    BY <2>1, <2>2 DEF GoodCalls
  <2>4. Owner'
    BY <2>1, <2>2 DEF Owner, CurrentCell
  <2> QED BY <1>1, <2>3, <2>4 DEF WorkerInv
<1> QED BY <1>1, <1>2, <1>3 DEF WorkerNext, WorkerInv

(* WorkerInv holds in every reachable state of the worker.                 *)
THEOREM WorkerInvariant == WorkerSpec => []WorkerInv
<1>1. WorkerInv /\ [WorkerNext]_<<vars, workerVars>> => WorkerInv'
  BY WorkerNextInv
<1> QED BY <1>1, WorkerInitInv, PTL DEF WorkerSpec, WorkerRuns

(* The worker does nothing but steps of the state machine: no interleaving *)
(* of calls lets two of them run inside it at a time.                      *)
THEOREM WorkerRunsTheState == WorkerSpec => Init /\ [][Next]_vars
<1>1. WorkerInv /\ [WorkerNext]_<<vars, workerVars>> => [Next]_vars
  BY WorkerStep DEF WorkerInv
<1>2. WorkerInit => Init
  BY DEF WorkerInit
<1> QED BY <1>1, <1>2, WorkerInvariant, PTL DEF WorkerSpec, WorkerRuns

(* What a lookup promises holds under concurrent calls and after panics    *)
(* that poisoned the lock in the middle of a walk: a frame is attributed   *)
(* to a module its token names, a resident module is found, and the first  *)
(* source with a file for a token serves it (state.rs, with_state).        *)
THEOREM PanicsCostNothing ==
    WorkerSpec => [](NoMisattribution /\ ResidentFindable /\ FirstMatchWins)
<1>1. WorkerInv => NoMisattribution /\ ResidentFindable /\ FirstMatchWins
  BY DEF WorkerInv, StateInv, CallInv, RegInv
<1> QED BY <1>1, WorkerInvariant, PTL

(* At most one call is inside the lock, the lookup under way is that       *)
(* call's, and the worker's state keeps its types.                         *)
THEOREM LockIsExclusive == WorkerSpec => []WorkerTypeOK
<1>1. WorkerInv => WorkerTypeOK
  BY DEF WorkerInv, GoodCalls, GoodCall, Owner, Counted, WorkerTypeOK, Inside, Places
<1> QED BY <1>1, WorkerInvariant, PTL

(* Every finished batch has one value per row, and no row carries a frame  *)
(* of a module its own identifier does not name.                           *)
THEOREM BatchesAreAligned == WorkerSpec => []RowsAligned
<1>1. ASSUME WorkerInv, NEW c \in Clients, query[c].pc = "emit", query[c].fn \in ScalarFns
      PROVE  LET q == query[c] IN
             /\ Len(q.out) = Len(q.cells)
             /\ \A i \in DOMAIN q.out :
                  IF q.fn = "demangle" THEN q.out[i] = None <=> q.cells[i].id = None
                  ELSE q.out[i] \in Images =>
                         readable(q.cells[i]) /\ Names(Canon[q.cells[i].id], DebugId[q.out[i]])
  <2> DEFINE q == query[c]
             n == Len(q.out)
             k == Len(q.cells)
  <2>1. GoodCall(q) /\ q.cells \in Seq(Cells) /\ k \in Nat /\ DOMAIN q.cells = 1..k
    BY <1>1 DEF WorkerInv, GoodCalls, GoodCall
  <2>2. CASE q.fn = "demangle"
    <3>1. q.out = [i \in 1..k |-> q.cells[i].id]
      BY <1>1, <2>1, <2>2 DEF GoodCall, Demangled
    <3>2. Len(q.out) = k
      BY <2>1, <3>1
    <3> QED BY <2>1, <2>2, <3>1, <3>2
  <2>3. CASE q.fn # "demangle"
    <3>1. Answered(q) /\ q.row \in Nat /\ q.pc = "emit"
      BY <1>1, <2>1, <2>3 DEF GoodCall, ScalarFns
    <3>2. n \in Nat /\ n = q.row - 1 /\ q.row <= k + 1 /\ q.row > k /\ DOMAIN q.out = 1..n
      BY <3>1 DEF Answered
    <3>3. \A i \in 1..n : Fits(q.cells[i], q.out[i])
      BY <3>1 DEF Answered
    <3> HIDE DEF n, k
    <3>4. n = k
      BY <2>1, <3>1, <3>2
    <3> QED BY <2>3, <3>2, <3>3, <3>4 DEF Fits, n, k
  <2> QED BY <2>2, <2>3
<1>2. WorkerInv => RowsAligned
  BY <1>1 DEF RowsAligned
<1> QED BY <1>2, WorkerInvariant, PTL

(* While a call is inside the lock only its own rows move the state.       *)
LEMMA IsolatedStep ==
    ASSUME WorkerInv, [WorkerNext]_<<vars, workerVars>>,
           NEW c \in Clients, query[c].pc \in Inside
    PROVE  /\ UNCHANGED <<sources, next_id>>
           /\ \/ StartRow(c) \/ StepRow(c) \/ PanicRow(c)
              \/ UNCHANGED <<cacheVars, regVars, call, answer>>
<1>1. lock = c /\ lock # None /\ \A d \in Clients : query[d].pc \in Inside => d = c
  BY WorkerAssumption DEF WorkerInv, Owner
<1>2. ASSUME NEW d \in Clients, AddCall(d) \/ DropCall(d) \/ EvictCall(d) PROVE FALSE
  BY <1>1, <1>2 DEF AddCall, DropCall, EvictCall, Produce, Acquire
<1>3. ASSUME NEW d \in Clients,
             \/ CallScalar(d) \/ CallTable(d) \/ RefuseCall(d) \/ Demangle(d)
             \/ StartBatch(d) \/ NullRow(d) \/ EndBatch(d) \/ Emit(d)
             \/ ListSources(d) \/ CacheStatus(d) \/ InfoCall(d)
      PROVE  UNCHANGED vars
  BY <1>3 DEF CallScalar, CallTable, Begin, RefuseCall, Demangle, StartBatch, NullRow,
              EndBatch, Emit, ListSources, CacheStatus, InfoCall
<1>4. ASSUME NEW d \in Clients, StartRow(d) \/ StepRow(d) \/ PanicRow(d)
      PROVE  d = c
  BY <1>1, <1>4 DEF StartRow, StepRow, PanicRow, InRows, Inside
<1>5. CASE StartRow(c) \/ StepRow(c) \/ PanicRow(c)
  <2>1. (\E s : StartLookup(s)) \/ LookupStep \/ WalkPanics
    BY <1>5 DEF StartRow, StepRow, PanicRow
  <2>2. UNCHANGED <<sources, next_id>>
    BY <2>1 DEF StartLookup, ResolveHit, ResolveKnownMiss, ResolveSearch, LookupStep, WalkSource,
       IndexSource, LocateMiss, LocateError, LocateInsert, InsertEvicts, ResolveAgain, WalkPanics,
       regVars
  <2> QED BY <1>5, <2>2
<1>6. CASE UNCHANGED vars
  BY <1>6 DEF vars, regVars
<1>7. CASE DiskMoves
  BY <1>7 DEF DiskMoves, regVars
<1> QED BY <1>2, <1>3, <1>4, <1>5, <1>6, <1>7 DEF WorkerNext, Serve

(* A batch is isolated: for any number of clients and any calls of theirs, *)
(* the sources stay as they are from its first row to its last, and what   *)
(* is resident, missing and indexed changes by its own rows alone          *)
(* (state.rs, with_state).                                                 *)
THEOREM BatchesAreIsolated == WorkerSpec => BatchIsolated
<1>1. WorkerInv /\ [WorkerNext]_<<vars, workerVars>> =>
        [\A c \in Clients : query[c].pc \in {"rows", "lookup"} =>
            /\ UNCHANGED <<sources, next_id>>
            /\ \/ StartRow(c) \/ StepRow(c) \/ PanicRow(c)
               \/ UNCHANGED <<cacheVars, regVars, call, answer>>]_<<vars, workerVars>>
  BY IsolatedStep DEF Inside
<1> QED BY <1>1, WorkerInvariant, PTL DEF WorkerSpec, WorkerRuns, BatchIsolated

(* Seen through the map of SymbolsState, concurrent calls with panics are  *)
(* behaviours of the abstract library: modules enter memory only from      *)
(* files within reach of the sources or on record as their origin, and     *)
(* answers come from them.                                                 *)
THEOREM WorkerImplementsLibrary == WorkerSpec => ImplementsLibrary
BY WorkerRunsTheState, LibrarySteps, PTL

(* Outside an eviction loop both budgets hold of the real sizes of the     *)
(* resident modules, for any number of clients (cache/mod.rs,              *)
(* evict_to_budget, under the lock of state.rs).                           *)
THEOREM BudgetsHoldInWorker == WorkerSpec => []WithinBudgets
BY WorkerRunsTheState, CacheRuns, CacheBudgets, PTL
=============================================================================
