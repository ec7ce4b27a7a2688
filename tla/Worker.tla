------------------------------- MODULE Worker -------------------------------
(***************************************************************************)
(* The SQL surface of the worker (symbols-worker): concurrent calls of its *)
(* scalar and table functions over the one SymbolsState behind the global  *)
(* mutex (state.rs, with_state).                                           *)
(*                                                                         *)
(* A scalar call holds the lock for a whole batch of rows; a table call    *)
(* takes it for one operation of the state, keeps what that returned, and  *)
(* emits it after the lock is free.  A panic under the lock poisons it;    *)
(* with_state recovers it.  A call is in one of the places                 *)
(*   idle, waiting   not called; called, and without the lock              *)
(*   rows            holds the lock, between two rows of its batch         *)
(*   lookup          holds the lock, inside the lookup of a row            *)
(*   emit            has its result, and no lock                           *)
(* demangle needs no state and takes no lock.  The Arrow buffers, the      *)
(* demangler and the framework that schedules the calls are external.      *)
(***************************************************************************)
EXTENDS SymbolsState

CONSTANTS
    Clients,      \* connections, each with at most one call under way
    Batches,      \* batches of rows a scalar function may be called with
    MaxCalls      \* bound: calls of one client

VARIABLES
    lock,         \* the client that holds the mutex, or None
    poisoned,     \* the mutex's poison flag
    query,        \* client -> its call
    calls         \* client -> number of calls made

workerVars == <<lock, poisoned, query, calls>>

ResolveFns == {"symbolicate", "inline_frames", "function_name"}
ScalarFns == ResolveFns \cup {"demangle"}
TableFns == {"add_source", "drop_source", "sources", "cache_status", "cache_evict", "module_info"}

(* A row: an identifier and an address column's cell.  The cell is null or *)
(* of an integer type: "wide" has 32 or 64 bits, "narrow" 8 or 16.  The    *)
(* identifier is also the mangled name that demangle is given.             *)
Cells == [id : Spellings \cup {None}, addr : {"wide", "narrow", None}]

ASSUME WorkerAssumption ==
    /\ Batches \subseteq Seq(Cells)
    /\ MaxCalls \in Nat /\ None \notin Clients
    /\ {"only", "missing", "unknown"} \cap (Spellings \cup {None}) = {}

NoCall == [pc |-> "idle", fn |-> None, cells |-> <<>>, row |-> 1, arg |-> None, out |-> <<>>]

WorkerIdle ==
    /\ lock = None /\ poisoned = FALSE
    /\ query = [c \in Clients |-> NoCall]
    /\ calls = [c \in Clients |-> 0]

WorkerInit == Init /\ WorkerIdle

-----------------------------------------------------------------------------
(* Calls *)

Begin(c, fn, cells, arg) ==
    /\ query[c] = NoCall /\ calls[c] < MaxCalls
    /\ query' = [query EXCEPT ![c] =
            [NoCall EXCEPT !.pc = "waiting", !.fn = fn, !.cells = cells, !.arg = arg]]
    /\ calls' = [calls EXCEPT ![c] = @ + 1]
    /\ UNCHANGED <<vars, lock, poisoned>>

(* The arguments kept here: the debug_id of cache_evict, the filters       *)
(* enabled_only and resident_only, a required argument that is missing     *)
(* (or, for add_source, null), and a language demangle does not know (or a *)
(* column that is no VARCHAR).                                             *)
Args(fn) ==
    CASE fn = "cache_evict" -> Spellings \cup {None}
      [] fn \in {"sources", "cache_status"} -> {None, "only"}
      [] fn \in {"add_source", "drop_source", "module_info"} -> {None, "missing"}
      [] fn = "demangle" -> {None, "unknown"}
      [] OTHER -> {None}

CallScalar(c) == \E fn \in ScalarFns, b \in Batches : \E x \in Args(fn) : Begin(c, fn, b, x)

CallTable(c) == \E fn \in TableFns : \E x \in Args(fn) : Begin(c, fn, <<>>, x)

(* A call whose arguments are refused fails before it takes the lock. *)
RefuseCall(c) ==
    /\ query[c].pc = "waiting" /\ query[c].arg \in {"missing", "unknown"}
    /\ query' = [query EXCEPT ![c] = NoCall]
    /\ UNCHANGED <<vars, lock, poisoned, calls>>

WantsLock(c) == query[c].pc = "waiting" /\ query[c].fn # "demangle" /\ query[c].arg # "missing"

(* Mutants of Acquire: there is no mutual exclusion; a poisoned mutex      *)
(* stays closed.                                                           *)
AcquireUnlocked(c) == WantsLock(c)
AcquireUnpoisoned(c) == lock = None /\ WantsLock(c) /\ ~poisoned

(* with_state: wait for the mutex, recover it if a panic poisoned it. *)
Acquire(c) == lock = None /\ WantsLock(c)

(* The result of a table call, kept for next_batch. *)
Produce(c, fn, r) ==
    /\ Acquire(c) /\ query[c].fn = fn
    /\ query' = [query EXCEPT ![c] = [@ EXCEPT !.pc = "emit", !.out = <<r>>]]
    /\ UNCHANGED <<lock, poisoned, calls>>

-----------------------------------------------------------------------------
(* Scalar functions: process *)

StartBatch(c) ==
    /\ Acquire(c) /\ query[c].fn \in ResolveFns
    /\ lock' = c
    /\ query' = [query EXCEPT ![c] = [@ EXCEPT !.pc = "rows"]]
    /\ UNCHANGED <<vars, poisoned, calls>>

(* build_id_at and address_at read the row. *)
readable(cell) == cell.id # None /\ cell.addr = "wide"

(* What a function makes of a lookup's result: symbolicate has a status,   *)
(* the others an empty list or NULL.                                       *)
Value(fn, r) == IF fn = "symbolicate" \/ r \in Images THEN r ELSE None

CurrentCell(c) == query[c].cells[query[c].row]

PushRow(c, r) ==
    query' = [query EXCEPT ![c] = [query[c] EXCEPT !.pc = "rows", !.row = query[c].row + 1,
                           !.out = Append(query[c].out, Value(query[c].fn, r))]]

InRows(c) == query[c].pc = "rows" /\ query[c].row <= Len(query[c].cells)

(* Mutant of NullRow: the row is skipped. *)
SkipRow(c) ==
    /\ InRows(c) /\ ~readable(CurrentCell(c))
    /\ query' = [query EXCEPT ![c] = [query[c] EXCEPT !.row = query[c].row + 1]]
    /\ UNCHANGED <<vars, lock, poisoned, calls>>

(* A row with an unreadable cell is not found, without a lookup. *)
NullRow(c) ==
    /\ InRows(c) /\ ~readable(CurrentCell(c))
    /\ PushRow(c, NotFound)
    /\ UNCHANGED <<vars, lock, poisoned, calls>>

(* A row is looked up, at once or in further steps. *)
StartRow(c) ==
    /\ InRows(c) /\ readable(CurrentCell(c))
    /\ StartLookup(CurrentCell(c).id)
    /\ IF call' = Idle THEN PushRow(c, answer'.res)
                       ELSE query' = [query EXCEPT ![c] = [@ EXCEPT !.pc = "lookup"]]
    /\ UNCHANGED <<lock, poisoned, calls>>

StepRow(c) ==
    /\ query[c].pc = "lookup"
    /\ LookupStep
    /\ IF call' = Idle THEN PushRow(c, answer'.res) ELSE UNCHANGED query
    /\ UNCHANGED <<lock, poisoned, calls>>

(* A panic unwinds through with_state: the call is lost, the lock free. *)
PanicRow(c) ==
    /\ query[c].pc = "lookup"
    /\ WalkPanics
    /\ query' = [query EXCEPT ![c] = NoCall]
    /\ lock' = None /\ poisoned' = TRUE
    /\ UNCHANGED calls

EndBatch(c) ==
    /\ query[c].pc = "rows" /\ query[c].row > Len(query[c].cells)
    /\ query' = [query EXCEPT ![c] = [@ EXCEPT !.pc = "emit"]]
    /\ lock' = None
    /\ UNCHANGED <<vars, poisoned, calls>>

(* demangle, over the whole column at once: a null row is null, and any    *)
(* name has a demangled form, which is itself if nothing else.             *)
Demangle(c) ==
    /\ query[c].pc = "waiting" /\ query[c].fn = "demangle" /\ query[c].arg = None
    /\ query' = [query EXCEPT ![c] = [@ EXCEPT !.pc = "emit",
                    !.out = [i \in DOMAIN query[c].cells |-> query[c].cells[i].id]]]
    /\ UNCHANGED <<vars, lock, poisoned, calls>>

-----------------------------------------------------------------------------
(* Table functions: producer *)

AddCall(c) ==
    \/ AddSource /\ Produce(c, "add_source", [id |-> next_id])
    \/ Produce(c, "add_source", [refused |-> TRUE]) /\ UNCHANGED vars

DropCall(c) ==
    \E id \in 0..MaxSources :
        \/ DropSource(id) /\ Produce(c, "drop_source", TRUE)
        \/ id \notin SourceIds /\ Produce(c, "drop_source", FALSE) /\ UNCHANGED vars

(* sources() and cache_status(): a snapshot, filtered once the lock is     *)
(* free.                                                                   *)
ListSources(c) ==
    /\ Produce(c, "sources", IF query[c].arg = "only" THEN SelectSeq(sources, LAMBDA s : s.enabled)
                                                     ELSE sources)
    /\ UNCHANGED vars

(* status: the resident modules with their live counts, then the entries   *)
(* that are not resident, where a recorded miss has the origin not_found.  *)
Listed == {t \in Tokens : t \in ResidentIds \/ entries[t] # None}
status(ids) ==
    [d \in ids |->
        [rows |-> rows_resolved[d], resident |-> d \in ResidentIds,
         origin |-> IF entries[d] = None THEN None
                    ELSE IF d \notin ResidentIds /\ entries[d].origin = None /\ entries[d].miss
                         THEN NotFound ELSE entries[d].origin]]

CacheStatus(c) ==
    /\ Produce(c, "cache_status",
               status(IF query[c].arg = "only" THEN Listed \cap ResidentIds ELSE Listed))
    /\ UNCHANGED vars

(* cache_evict.  Its debug_id is declared by name (position -1) and read   *)
(* as the first positional argument (const_str(0)), of which there is      *)
(* none: the whole resident set goes.                                      *)
EvictCall(c) ==
    /\ CacheEvictAll
    /\ Produce(c, "cache_evict", TotalBytes(resident))

(* module_info: one row about the file, or none; the state is not touched. *)
InfoCall(c) ==
    /\ \E p \in Paths :
         Produce(c, "module_info", IF disk[p] \in Images \ Unparsable THEN <<disk[p]>> ELSE <<>>)
    /\ UNCHANGED vars

(* next_batch: the result is handed out once, with no lock held. *)
Emit(c) ==
    /\ query[c].pc = "emit"
    /\ query' = [query EXCEPT ![c] = NoCall]
    /\ UNCHANGED <<vars, lock, poisoned, calls>>

-----------------------------------------------------------------------------
Serve(c) ==
    \/ StartBatch(c) \/ NullRow(c) \/ StartRow(c) \/ StepRow(c) \/ EndBatch(c)
    \/ Demangle(c) \/ RefuseCall(c)
    \/ AddCall(c) \/ DropCall(c) \/ ListSources(c) \/ CacheStatus(c)
    \/ EvictCall(c) \/ InfoCall(c)
    \/ Emit(c)

WorkerNext ==
    \/ \E c \in Clients : CallScalar(c) \/ CallTable(c) \/ Serve(c) \/ PanicRow(c)
    \/ DiskMoves /\ UNCHANGED workerVars

(* A client that waits gets the lock at some time: there are finitely many *)
(* calls, so a mutex without fairness is enough.                           *)
WorkerRuns ==
    /\ [][WorkerNext]_<<vars, workerVars>>
    /\ WF_<<vars, workerVars>>(\E c \in Clients : Serve(c))

WorkerSpec == WorkerInit /\ WorkerRuns

-----------------------------------------------------------------------------
(* Properties *)

(* Types of the worker's state, and who owns it: the mutex is held by the  *)
(* one call that is inside with_state across steps, and the lookup under   *)
(* way is that call's.                                                     *)
WorkerTypeOK ==
    /\ lock \in Clients \cup {None}
    /\ poisoned \in BOOLEAN
    /\ \A c \in Clients :
         /\ query[c].pc \in {"idle", "waiting", "rows", "lookup", "emit"}
         /\ query[c].fn \in ScalarFns \cup TableFns \cup {None}
         /\ lock = c <=> query[c].pc \in {"rows", "lookup"}
         /\ query[c].pc = "lookup" => call # Idle
    /\ call # Idle => \E c \in Clients : query[c].pc = "lookup"
    /\ calls \in [Clients -> 0..MaxCalls]

(* process returns one value per row, in the order of the rows, and a row  *)
(* never carries a frame of a module its own identifier does not name:     *)
(* null rows, misses, errors and what other clients and the disk do shift  *)
(* nothing.  A demangled column is null exactly where its input is.        *)
RowsAligned ==
    \A c \in Clients : query[c].pc = "emit" /\ query[c].fn \in ScalarFns =>
        LET q == query[c] IN
        /\ Len(q.out) = Len(q.cells)
        /\ \A i \in DOMAIN q.out :
             IF q.fn = "demangle" THEN q.out[i] = None <=> q.cells[i].id = None
             ELSE q.out[i] \in Images =>
                    readable(q.cells[i]) /\ Names(Canon[q.cells[i].id], DebugId[q.out[i]])

(* "Modules are owned and accessed only under this lock" (state.rs): from  *)
(* its first row to its last a batch sees one list of sources, and what is *)
(* resident, missing and indexed changes by its own rows alone, whatever   *)
(* the other clients call meanwhile.                                       *)
BatchIsolated ==
    [][\A c \in Clients : query[c].pc \in {"rows", "lookup"} =>
        /\ UNCHANGED <<sources, next_id>>
        /\ \/ StartRow(c) \/ StepRow(c) \/ PanicRow(c)
           \/ UNCHANGED <<cacheVars, regVars, call, answer>>]_<<vars, workerVars>>

(* "A poisoned lock is recovered": every call returns, also after another  *)
(* client's call has panicked under the lock.                              *)
CallsServed == \A c \in Clients : (query[c].pc # "idle") ~> (query[c].pc = "idle")

(* "With debug_id => set, evict just that module" (table/cache.rs:199): a  *)
(* cache_evict with a debug_id leaves every other module resident.         *)
EvictsOnlyNamed ==
    [][\A c \in Clients :
        EvictCall(c) /\ query[c].arg # None =>
            \A d \in ResidentIds :
                d # resolve_debug_id(query[c].arg) => d \in Ids(resident')]_<<vars, workerVars>>
=============================================================================
