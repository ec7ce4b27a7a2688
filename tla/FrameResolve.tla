---------------------------- MODULE FrameResolve ----------------------------
(***************************************************************************)
(* Resolution of one address against one parsed module (symbols-core,      *)
(* module/mod.rs, module/dwarf.rs, module/pdb.rs).                         *)
(*                                                                         *)
(* The DWARF and PDB readers are external.  What they do for the queried   *)
(* address is the input of a behaviour: lookup says how the frame lookup   *)
(* starts, walk what the frame iterator yields, innermost frame first,     *)
(* where ERR is a decode error and PANIC a panic of the library.  Frames   *)
(* carry a function name, or None where the reader has none; file, line    *)
(* and column travel with it and are left out.                             *)
(***************************************************************************)
EXTENDS SequencesExt

CONSTANTS
    Names,        \* function names
    None,         \* no name
    MaxAddr,      \* u64::MAX
    MaxRva,       \* u32::MAX, the largest address of a PDB
    MaxDepth,     \* Limits::max_inline_depth
    MaxSymbols,   \* bound: entries of a symbol table
    MaxWalk       \* bound: items of a frame iterator

ASSUME FrameAssumption ==
    /\ MaxAddr \in Nat /\ MaxRva \in Nat /\ MaxRva < MaxAddr
    /\ MaxDepth \in Nat \ {0} /\ MaxSymbols \in Nat /\ MaxWalk \in Nat
    /\ None \notin Names /\ {"END", "cap", "ERR", "PANIC"} \cap (Names \cup {None}) = {}

VARIABLES
    format,    \* "dwarf" or "pdb"
    symtab,    \* text symbols in file order: sequence of [addr, name]
    cell,      \* the cell of the address column: an integer of some width
    addr,      \* the queried address
    lookup,    \* how the reader's lookup starts (Lookups)
    walk,      \* the items of the reader's frame iterator
    pc,        \* "start", "walking", "done"
    raw,       \* function names collected so far
    frames,    \* the result of resolve
    cut        \* why the walk ended: "END", "cap" or "ERR"

vars == <<format, symtab, cell, addr, lookup, walk, pc, raw, frames, cut>>
input == <<format, symtab, cell, addr, lookup, walk>>

Addrs == 0..MaxAddr
Symbol == [addr : Addrs, name : Names]

(* A PDB reader decodes all frames of an address at once, and may fail to  *)
(* build its context (CTX); a DWARF reader decodes them one by one.        *)
Lookups == IF format = "pdb" THEN {"frames", "none", "ERR", "PANIC", "CTX"}
                             ELSE {"frames", "ERR", "PANIC"}
Items == Names \cup {None} \cup IF format = "pdb" THEN {} ELSE {"ERR", "PANIC"}

Status == {"ok", "no_line", "error"}
Frame == [depth : Nat, inline : BOOLEAN, function : Names \cup {None}, status : Status]

-----------------------------------------------------------------------------
(* The address column.  64 bits count MaxAddr + 1 values and 32 bits       *)
(* MaxRva + 1; the value of a narrower integer is never read, and 0 stands *)
(* for all of them.                                                        *)

Unsigned(max) == 0..max
Signed(max) == -((max + 1) \div 2)..(max - 1) \div 2

Cells ==
    [type : {"UInt64"}, value : Unsigned(MaxAddr)] \cup [type : {"Int64"}, value : Signed(MaxAddr)]
    \cup [type : {"UInt32"}, value : Unsigned(MaxRva)] \cup [type : {"Int32"}, value : Signed(MaxRva)]
    \cup [type : {"UInt16", "Int16", "UInt8", "Int8"}, value : {0}]

(* `as u64` of a 64-bit or a 32-bit cell: modulo 2^64, so that a negative  *)
(* value of either signed width is extended by its sign.  A column of any  *)
(* other type has no address, like a null cell.                            *)
address_at(c) ==
    IF c.type \in {"UInt64", "Int64", "UInt32", "Int32"} THEN c.value % (MaxAddr + 1) ELSE None

-----------------------------------------------------------------------------
(* The symbol table *)

(* parse: a stable sort by address, then the first symbol of each address. *)
FirstSymbols(tab) ==
    {tab[i] : i \in {i \in DOMAIN tab : \A j \in 1..(i - 1) : tab[j].addr # tab[i].addr}}

SortedSymbols(tab) ==
    LET size == Cardinality(FirstSymbols(tab))
    IN  CHOOSE syms \in [1..size -> FirstSymbols(tab)] :
            \A i, j \in 1..size : i < j => syms[i].addr < syms[j].addr

(* Mutant of NearestBelow: a symbol that starts at the address is skipped. *)
StrictlyBelow(syms, a) == SelectLastInSeq(syms, LAMBDA s : s.addr < a)

(* slice::binary_search_by_key on distinct keys: the index of the symbol   *)
(* at a, else of the last one below it; 0 when there is none.              *)
NearestBelow(syms, a) == SelectLastInSeq(syms, LAMBDA s : s.addr <= a)

symbol_for(a) ==
    LET syms == SortedSymbols(symtab)
        i == NearestBelow(syms, a)
    IN  IF i = 0 THEN None ELSE syms[i].name

-----------------------------------------------------------------------------
(* Frames *)

blank_frame(status) == [depth |-> 0, inline |-> FALSE, function |-> None, status |-> status]
error_frame == blank_frame("error")
no_line_frame ==
    IF format = "pdb" THEN blank_frame("no_line")
    ELSE [blank_frame("no_line") EXCEPT !.function = symbol_for(addr)]

(* Mutants of Expand: the last frame is inline too; the chain is reversed. *)
ExpandAllInline(names) ==
    [i \in DOMAIN names |->
        [depth |-> i - 1, inline |-> i <= Len(names), function |-> names[i], status |-> "ok"]]
ExpandReversed(names) ==
    [i \in DOMAIN names |->
        [depth |-> i - 1, inline |-> i < Len(names), status |-> "ok",
         function |-> names[Len(names) + 1 - i]]]

(* The collected names as frames: all but the last are inline. *)
Expand(names) ==
    [i \in DOMAIN names |->
        [depth |-> i - 1, inline |-> i < Len(names), function |-> names[i], status |-> "ok"]]

Return(fs) == pc' = "done" /\ frames' = fs

(* The probe of a DWARF module is half-open, [addr, addr + 1); a PDB's     *)
(* addresses are 32 bits wide.                                             *)
probe_ok == IF format = "pdb" THEN addr <= MaxRva ELSE addr # MaxAddr

(* A row without an address reaches no module (NullRow of module Worker). *)
Init ==
    /\ format \in {"dwarf", "pdb"}
    /\ symtab \in UNION {[1..n -> Symbol] : n \in 0..MaxSymbols}
    /\ cell \in {c \in Cells : address_at(c) # None}
    /\ addr = address_at(cell)
    /\ lookup \in Lookups
    /\ walk \in IF lookup = "frames" THEN UNION {[1..n -> Items] : n \in 0..MaxWalk} ELSE {<<>>}
    /\ pc = "start" /\ raw = <<>> /\ frames = <<>> /\ cut = "END"

(* The lookup ends before a frame is read: no line where the address       *)
(* cannot be probed or nothing covers it, an error frame where the reader  *)
(* fails or panics.  A PDB builds its context before it looks at the       *)
(* address.                                                                *)
ResolveEarly ==
    /\ pc = "start"
    /\ \/ lookup = "CTX" /\ Return(<<error_frame>>)
       \/ lookup # "CTX" /\ ~probe_ok /\ Return(<<no_line_frame>>)
       \/ probe_ok /\ lookup \in {"ERR", "PANIC"} /\ Return(<<error_frame>>)
       \/ probe_ok /\ lookup = "none" /\ Return(<<no_line_frame>>)
    /\ UNCHANGED <<input, raw, cut>>

ResolveWalk ==
    /\ pc = "start" /\ probe_ok /\ lookup = "frames"
    /\ pc' = "walking"
    /\ UNCHANGED <<input, raw, frames, cut>>

(* What the iterator yields next. *)
NextItem == IF Len(raw) < Len(walk) THEN walk[Len(raw) + 1] ELSE "END"

(* Mutant of TakeFrame: a decode error is taken for a frame. *)
TakeAnyItem ==
    /\ pc = "walking" /\ Len(raw) < MaxDepth
    /\ NextItem \in Items
    /\ raw' = Append(raw, NextItem)
    /\ UNCHANGED <<input, pc, frames, cut>>

(* One iteration of the loop: the next frame, below the depth cap. *)
TakeFrame ==
    /\ pc = "walking" /\ Len(raw) < MaxDepth
    /\ NextItem \in Names \cup {None}
    /\ raw' = Append(raw, NextItem)
    /\ UNCHANGED <<input, pc, frames, cut>>

(* The loop ends: at the cap, at the end, or at a decode error.  What was  *)
(* collected is expanded.                                                  *)
StopReason ==
    IF Len(raw) >= MaxDepth THEN "cap" ELSE NextItem

(* Mutant of EndWalk: after a decode error the iterator is asked again. *)
EndWalkRetries ==
    /\ pc = "walking" /\ StopReason \in {"cap", "END", "ERR"}
    /\ IF StopReason = "ERR" THEN UNCHANGED <<pc, frames, cut>>
       ELSE /\ cut' = StopReason
            /\ Return(IF raw # <<>> THEN Expand(raw) ELSE <<no_line_frame>>)
    /\ UNCHANGED <<input, raw>>

EndWalk ==
    /\ pc = "walking" /\ StopReason \in {"cap", "END", "ERR"}
    /\ cut' = StopReason
    /\ Return(IF raw # <<>> THEN Expand(raw)
              ELSE <<IF StopReason = "ERR" THEN error_frame ELSE no_line_frame>>)
    /\ UNCHANGED <<input, raw>>

(* catch_unwind around the whole resolution. *)
WalkPanics ==
    /\ pc = "walking" /\ StopReason = "PANIC"
    /\ Return(<<error_frame>>)
    /\ UNCHANGED <<input, raw, cut>>

Done == pc = "done" /\ UNCHANGED vars

Next ==
    \/ ResolveEarly \/ ResolveWalk
    \/ TakeFrame \/ EndWalk \/ WalkPanics
    \/ Done

Spec == Init /\ [][Next]_vars /\ WF_vars(Next)

-----------------------------------------------------------------------------
(* The fast path: the innermost function name without the frames.  A panic *)
(* of the reader gives no name.                                            *)

(* Mutant of InnermostName: the outermost frame is taken. *)
OutermostName ==
    IF lookup = "frames" /\ walk # <<>> /\ walk[Len(walk)] \in Names THEN walk[Len(walk)] ELSE None

InnermostName ==
    IF lookup = "frames" /\ walk # <<>> /\ walk[1] \in Names THEN walk[1] ELSE None

ReaderPanics == lookup = "PANIC" \/ (lookup = "frames" /\ walk # <<>> /\ walk[1] = "PANIC")

function_name ==
    IF format = "pdb" THEN IF probe_ok THEN InnermostName ELSE None
    ELSE IF ~probe_ok THEN symbol_for(addr)
    ELSE IF ReaderPanics THEN None
    ELSE IF InnermostName # None THEN InnermostName ELSE symbol_for(addr)

-----------------------------------------------------------------------------
(* Properties *)

(* Types of the resolution's state (frame.rs, ResolvedFrame). *)
FrameTypeOK ==
    /\ addr \in Addrs
    /\ lookup \in Lookups
    /\ walk \in Seq(Items)
    /\ pc \in {"start", "walking", "done"}
    /\ raw \in Seq(Names \cup {None})
    /\ frames \in Seq(Frame)
    /\ cut \in {"END", "cap", "ERR"}

(* "Always returns at least one row": a finished resolution has a frame    *)
(* and at most MaxDepth of them, numbered from the innermost; anything but *)
(* a resolved chain is a single frame, and not an inline one.  All frames  *)
(* but the last are inline, and the last is not, unless the reader had     *)
(* more to yield: how a chain that was cut labels its last frame is the    *)
(* subject of PhysicalFrameLast.                                           *)
ChainShape ==
    pc = "done" =>
        /\ Len(frames) \in 1..MaxDepth
        /\ \A i \in DOMAIN frames :
             /\ frames[i].depth = i - 1
             /\ i < Len(frames) => frames[i].inline
             /\ frames[i].status # "ok" => Len(frames) = 1 /\ ~frames[i].inline
        /\ frames[Len(frames)].inline => Len(frames) < Len(walk)

(* No line is ever invented for a reader that failed: ok frames are what   *)
(* the reader yielded, in its order.                                       *)
FramesFromReader ==
    pc = "done" =>
        \A i \in DOMAIN frames : frames[i].status = "ok" =>
            /\ lookup = "frames" /\ i <= Len(walk)
            /\ frames[i].function = walk[i]

(* The nearest-below fallback names the symbol with the greatest start at  *)
(* or below the address, the first of the file where several start there,  *)
(* and nothing only when no symbol starts there or below.                  *)
NearestSymbol ==
    LET below == {i \in DOMAIN symtab : symtab[i].addr <= addr}
        best == {i \in below : \A j \in below :
                    \/ symtab[j].addr < symtab[i].addr
                    \/ symtab[j].addr = symtab[i].addr /\ i <= j}
    IN  IF below = {} THEN symbol_for(addr) = None
        ELSE \E i \in best : symbol_for(addr) = symtab[i].name

(* function_name and resolve agree: where the innermost frame of resolve   *)
(* has a function, the fast path returns the same one.                     *)
FastPathAgrees ==
    pc = "done" /\ frames[1].function # None => function_name = frames[1].function

(* A resolution ends. *)
ResolveEnds == <>(pc = "done")

(* "Corrupt inline tree mid-walk: keep what we have, mark error."          *)
(* (dwarf.rs:190).                                                         *)
MidWalkErrorMarked ==
    pc = "done" /\ cut = "ERR" => \E i \in DOMAIN frames : frames[i].status = "error"

(* "True for synthesized inline frames, false for the physical frame"      *)
(* (frame.rs:44), "innermost-first with the physical frame last"           *)
(* (module/mod.rs:95): of a chain the reader decodes without an error,     *)
(* only the frame it yields last, the physical one, is not inline, also    *)
(* where max_inline_depth cuts the chain.                                  *)
PhysicalFrameLast ==
    pc = "done" /\ Range(walk) \subseteq Names \cup {None} =>
        \A i \in DOMAIN frames :
            frames[i].status = "ok" /\ ~frames[i].inline => i = Len(walk)
=============================================================================
