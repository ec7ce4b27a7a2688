--------------------------- MODULE MCFrameResolve ---------------------------
(***************************************************************************)
(* One piece of symbols-core at a time, the others at rest: a behaviour    *)
(* resolves an address against a parsed module, or probes and parses a     *)
(* file, or indexes a file and looks a frame's identifier up, or walks a   *)
(* source.                                                                 *)
(*                                                                         *)
(* Symbol tables have up to two symbols over four addresses, the last one  *)
(* standing for u64::MAX and the last two lying beyond a PDB's range;      *)
(* frame iterators up to three items under a depth cap of two.  Files have *)
(* up to three units under a cap of two, whose line programs name one      *)
(* source file or none.  Identifiers are those of MCIdentity.  A source is *)
(* a tree of two directories, or a pattern of up to five characters whose  *)
(* words overlap in f1; three files exceed the cap of two.                 *)
(***************************************************************************)
EXTENDS FrameResolve, ModuleParse, MCIdentity, SourceWalk

MCMatches == [w \in {<<>>, <<"a">>, <<"a", "a">>} |->
    CASE w = <<>> -> {"f1", "f3"} [] w = <<"a">> -> {"f1", "sub"} [] OTHER -> {"f2"}]
MCEntries == [d \in {"top", "sub"} |->
    IF d = "top" THEN {"f1", "sub", "link"} ELSE {"f2", "f3"}]

(* A resolution that found nothing and is over. *)
NoAddress ==
    /\ format = "dwarf" /\ symtab = <<>> /\ cell = [type |-> "UInt64", value |-> 0] /\ addr = 0
    /\ lookup = "frames" /\ walk = <<>> /\ pc = "done" /\ raw = <<>> /\ cut = "END"
    /\ frames = <<blank_frame("no_line")>>

(* A file too large to be parsed or probed for: both operations are over. *)
NoFile ==
    /\ pdb = TRUE /\ large = TRUE /\ units = <<>>
    /\ header \in [guid : Uuids, age : {0}]
    /\ read = <<>> /\ op = "idle" /\ todo = <<>>
    /\ seen = 0 /\ stats = [files |-> 0, line |-> FALSE]
    /\ outcome = [o \in Ops |-> Failure("alloc_cap")]

(* A frame of a file without a build-id has been looked up in vain. *)
NoIdentifier ==
    /\ file = [format |-> "other", id |-> <<>>, age |-> 0] /\ index = {} /\ located = FALSE
    /\ frame = [of |-> [format |-> "ELF", id |-> <<>>, age |-> 0], form |-> "raw", token |-> <<>>]

(* The walk of an empty tree is over. *)
NoWalk ==
    /\ walk_kind = "dir" /\ debug_files = {} /\ unreadable = {} /\ pattern = <<>>
    /\ rest = <<>> /\ group = <<>> /\ depth = 0 /\ words = <<>> /\ stack = <<>>
    /\ listing = {} /\ visited = 0 /\ found = {} /\ stage = "done"

MCInit ==
    \/ Init /\ NoFile /\ NoIdentifier /\ NoWalk
    \/ ParseInit /\ NoAddress /\ NoIdentifier /\ NoWalk
    \/ IdInit /\ NoAddress /\ NoFile /\ NoWalk
    \/ WalkInit /\ NoAddress /\ NoFile /\ NoIdentifier

MCNext ==
    \/ Next /\ UNCHANGED <<parseVars, idVars, walkVars>>
    \/ ParseNext /\ UNCHANGED <<vars, idVars, walkVars>>
    \/ IdNext /\ UNCHANGED <<vars, parseVars, walkVars>>
    \/ WalkNext /\ UNCHANGED <<vars, parseVars, idVars>>

MCSpec ==
    /\ MCInit /\ [][MCNext]_<<vars, parseVars, idVars, walkVars>>
    /\ WF_vars(Next) /\ WF_parseVars(ParseNext)
=============================================================================
