----------------------------- MODULE SourceWalk -----------------------------
(***************************************************************************)
(* The walk of one local source (symbols-core, source/local.rs): a         *)
(* directory tree, or a glob pattern whose braces are expanded first.      *)
(* SourceRegistry takes the order in which a walk meets files as given;    *)
(* this is how they are found.                                             *)
(*                                                                         *)
(* A pattern is a sequence of characters, of which only braces and commas  *)
(* matter.  The glob library is external: Matches[w] is what the pattern w *)
(* without braces matches.                                                 *)
(***************************************************************************)
EXTENDS Integers, SequencesExt

CONSTANTS
    Letters,     \* the characters of a pattern that are neither brace nor comma
    MaxPattern,  \* bound: characters of a pattern
    Matches,     \* word -> the files and directories it matches, links followed
    Dirs, Files, \* directories and files
    Entries,     \* directory -> the entries in it: directories, files, or neither (links)
    Root,        \* the path of a directory source
    max_files    \* MAX_INDEX_FILES

(* The characters expand_braces tells apart. *)
OpenBrace == "{"
CloseBrace == "}"
Comma == ","

ASSUME WalkAssumption ==
    /\ Letters \cap {OpenBrace, CloseBrace, Comma} = {} /\ MaxPattern \in Nat /\ max_files \in Nat
    /\ Dirs \cap Files = {} /\ Root \in Dirs \cup Files

VARIABLES
    walk_kind,   \* "dir" or "glob"
    debug_files, \* the files with a recognizable identity
    unreadable,  \* the directories that cannot be listed
    pattern,     \* the pattern of a glob source
    rest,        \* expand_braces: what is left of it
    group,       \* expand_braces: the text of the open group
    depth,       \* expand_braces: open braces
    words,       \* the expanded patterns, then those still to be matched
    stack,       \* the directories still to be listed
    listing,     \* the entries of the current directory or word, not yet met
    visited,     \* files met
    found,       \* files indexed
    stage        \* "expand", "walk" or "done"

disk_seen == <<walk_kind, debug_files, unreadable, pattern>>
walkVars == <<disk_seen, rest, group, depth, words, stack, listing, visited, found, stage>>

Chars == Letters \cup {OpenBrace, CloseBrace, Comma}
Patterns == UNION {[1..n -> Chars] : n \in 0..MaxPattern}

WalkInit ==
    /\ walk_kind \in {"dir", "glob"}
    /\ debug_files \in SUBSET Files
    /\ unreadable \in IF walk_kind = "dir" THEN SUBSET Dirs ELSE {{}}
    /\ pattern \in IF walk_kind = "glob" THEN Patterns ELSE {<<>>}
    /\ rest = pattern /\ group = <<>> /\ depth = 0
    /\ words = (IF walk_kind = "glob" THEN <<(<<>>)>> ELSE <<>>)
    /\ stack = (IF walk_kind = "dir" THEN <<Root>> ELSE <<>>)
    /\ listing = {} /\ visited = 0 /\ found = {}
    /\ stage = IF walk_kind = "glob" THEN "expand" ELSE "walk"

-----------------------------------------------------------------------------
(* expand_braces *)

(* Every word continued by every alternative, word by word. *)
Continue(ws, alts) ==
    [k \in 1..Len(ws) * Len(alts) |->
        ws[(k - 1) \div Len(alts) + 1] \o alts[((k - 1) % Len(alts)) + 1]]

(* str::split(','): the texts between commas, one more than commas. *)
Split(text) ==
    LET stops == {i \in DOMAIN text : text[i] = Comma} \cup {Len(text) + 1}
        n == Cardinality(stops)
        ends == CHOOSE f \in [1..n -> stops] : \A i, j \in 1..n : i < j => f[i] < f[j]
    IN  [k \in 1..n |-> SubSeq(text, IF k = 1 THEN 1 ELSE ends[k - 1] + 1, ends[k] - 1)]

(* Outside a group any character but an opening brace belongs to every word. *)
Literal ==
    /\ stage = "expand" /\ depth = 0 /\ rest # <<>> /\ Head(rest) # OpenBrace
    /\ words' = Continue(words, <<(<<Head(rest)>>)>>)
    /\ rest' = Tail(rest)
    /\ UNCHANGED <<disk_seen, group, depth, stack, listing, visited, found, stage>>

OpenGroup ==
    /\ stage = "expand" /\ depth = 0 /\ rest # <<>> /\ Head(rest) = OpenBrace
    /\ depth' = 1 /\ group' = <<>> /\ rest' = Tail(rest)
    /\ UNCHANGED <<disk_seen, words, stack, listing, visited, found, stage>>

(* Inside a group nested braces are counted, and kept as text. *)
GroupChar ==
    /\ stage = "expand" /\ depth > 0 /\ rest # <<>>
    /\ depth' = depth + (IF Head(rest) = OpenBrace THEN 1 ELSE IF Head(rest) = CloseBrace THEN -1 ELSE 0)
    /\ depth' > 0
    /\ group' = Append(group, Head(rest))
    /\ rest' = Tail(rest)
    /\ UNCHANGED <<disk_seen, words, stack, listing, visited, found, stage>>

(* Mutant of CloseGroup: the text behind the last comma is forgotten. *)
CloseGroupShort ==
    /\ stage = "expand" /\ depth > 0
    /\ \/ rest = <<>> /\ UNCHANGED rest
       \/ depth = 1 /\ rest # <<>> /\ Head(rest) = CloseBrace /\ rest' = Tail(rest)
    /\ words' = Continue(words, IF Len(Split(group)) > 1 THEN Front(Split(group)) ELSE Split(group))
    /\ depth' = 0
    /\ UNCHANGED <<disk_seen, group, stack, listing, visited, found, stage>>

(* The group ends at its closing brace, or with the pattern: every comma   *)
(* in it, a nested one too, separates alternatives.                        *)
CloseGroup ==
    /\ stage = "expand" /\ depth > 0
    /\ \/ rest = <<>> /\ UNCHANGED rest
       \/ depth = 1 /\ rest # <<>> /\ Head(rest) = CloseBrace /\ rest' = Tail(rest)
    /\ words' = Continue(words, Split(group))
    /\ depth' = 0
    /\ UNCHANGED <<disk_seen, group, stack, listing, visited, found, stage>>

Expanded ==
    /\ stage = "expand" /\ depth = 0 /\ rest = <<>>
    /\ stage' = "walk"
    /\ UNCHANGED <<disk_seen, rest, group, depth, words, stack, listing, visited, found>>

-----------------------------------------------------------------------------
(* index_glob and index_dir *)

(* aliases_of: a debug file goes into the index, any other is skipped. *)
Index(f) == found' = found \cup ({f} \cap debug_files)

(* The next word is matched; one that is no pattern matches nothing. *)
NextWord ==
    /\ stage = "walk" /\ listing = {} /\ words # <<>>
    /\ listing' = IF Head(words) \in DOMAIN Matches THEN Matches[Head(words)] ELSE {}
    /\ words' = Tail(words)
    /\ UNCHANGED <<disk_seen, rest, group, depth, stack, visited, found, stage>>

(* The directory pushed last is listed; the root may be a file, which is   *)
(* indexed without being counted.                                          *)
NextDir ==
    /\ stage = "walk" /\ listing = {} /\ stack # <<>>
    /\ LET d == Last(stack) IN
       /\ listing' = IF d \in Dirs \ unreadable THEN Entries[d] ELSE {}
       /\ Index(d)
    /\ stack' = Front(stack)
    /\ UNCHANGED <<disk_seen, rest, group, depth, words, visited, stage>>

(* A directory in a tree is walked later; one matched by a glob, and what  *)
(* is neither file nor directory in a tree, are skipped.                   *)
MeetOther(e) ==
    /\ stage = "walk" /\ e \in listing \ Files
    /\ listing' = listing \ {e}
    /\ stack' = IF walk_kind = "dir" /\ e \in Dirs THEN Append(stack, e) ELSE stack
    /\ UNCHANGED <<disk_seen, rest, group, depth, words, visited, found, stage>>

(* A file counts, and is indexed, up to the cap; the one behind it ends    *)
(* the walk.  The count runs on from one word and directory to the next.   *)
MeetFile(e) ==
    /\ stage = "walk" /\ e \in listing \cap Files
    /\ visited' = visited + 1
    /\ listing' = listing \ {e}
    /\ IF visited' > max_files THEN stage' = "done" /\ UNCHANGED found
                               ELSE Index(e) /\ UNCHANGED stage
    /\ UNCHANGED <<disk_seen, rest, group, depth, words, stack>>

EndWalkOfSource ==
    /\ stage = "walk" /\ listing = {} /\ words = <<>> /\ stack = <<>>
    /\ stage' = "done"
    /\ UNCHANGED <<disk_seen, rest, group, depth, words, stack, listing, visited, found>>

Walked == stage = "done" /\ UNCHANGED walkVars

WalkNext ==
    \/ Literal \/ OpenGroup \/ GroupChar \/ CloseGroup \/ Expanded
    \/ NextWord \/ NextDir
    \/ \E e \in listing : MeetOther(e) \/ MeetFile(e)
    \/ EndWalkOfSource \/ Walked

WalkSpec == WalkInit /\ [][WalkNext]_walkVars /\ WF_walkVars(WalkNext)

-----------------------------------------------------------------------------
(* Properties *)

(* The patterns of which the documentation speaks: groups are closed and   *)
(* not nested.                                                             *)
OpenAt(i) == Cardinality({k \in 1..i : pattern[k] = OpenBrace}) - Cardinality({k \in 1..i : pattern[k] = CloseBrace})
PlainGroups ==
    /\ \A i \in DOMAIN pattern : OpenAt(i) \in {0, 1}
    /\ pattern # <<>> => OpenAt(Len(pattern)) = 0

(* What stands between two commas next to each other, or before the first  *)
(* or behind the last.                                                     *)
Alternatives(text) ==
    LET commas == {k \in DOMAIN text : text[k] = Comma} IN
    {SubSeq(text, c[1] + 1, c[2] - 1) :
        c \in {d \in ({0} \cup commas) \X (commas \cup {Len(text) + 1}) :
                 d[1] < d[2] /\ \A k \in d[1] + 1..d[2] - 1 : text[k] # Comma}}

(* Each text of W followed by each of X. *)
Joins(W, X) == {w \o x : w \in W, x \in X}

(* What such a pattern means: one alternative for each group. *)
Meaning[p \in Patterns] ==
    IF p = <<>> THEN {<<>>}
    ELSE IF Head(p) # OpenBrace THEN Joins({<<Head(p)>>}, Meaning[Tail(p)])
    ELSE LET end == Min({k \in DOMAIN p : p[k] = CloseBrace} \cup {Len(p) + 1}) IN
         Joins(Alternatives(SubSeq(p, 2, end - 1)), Meaning[SubSeq(p, end + 1, Len(p))])

(* The entries of the directories that can be listed and are reached from  *)
(* the root by directories that can.                                       *)
Closed(D) == Root \in D /\ \A d \in (D \cap Dirs) \ unreadable : Entries[d] \subseteq D
Places == Dirs \cup Files \cup UNION {Entries[d] : d \in Dirs}
InTree(e) == \A D \in SUBSET Places : Closed(D) => e \in D

Matched(e) == \E w \in Meaning[pattern] \cap DOMAIN Matches : e \in Matches[w]

Wanted == {e \in debug_files : IF walk_kind = "dir" THEN InTree(e) ELSE Matched(e)}

(* A walk that stays below its cap indexes exactly the debug files of the  *)
(* tree or of the meaning of the pattern, whatever it cannot list, and in  *)
(* whatever order it meets them; no walk indexes more files than the cap.  *)
WalkFindsAll ==
    /\ Root \notin Files => Cardinality(found) <= max_files
    /\ stage = "done" /\ visited <= max_files /\ PlainGroups => found = Wanted
=============================================================================
