------------------------------ MODULE Identity ------------------------------
(***************************************************************************)
(* Derivation of a debug file's identity and the match of a frame against  *)
(* it (symbols-core, id.rs and module/pdb.rs): the algorithm behind the    *)
(* constants Canon, DebugId and AliasesOf of Ids.                          *)
(*                                                                         *)
(* A symbol file is indexed under its aliases; then a frame arrives that   *)
(* was taken in some module, and names it in one of the forms a caller has *)
(* at hand (debug-id, bare UUID, raw build-id) and in some spelling.  A    *)
(* byte is a pair of hex digits and an identifier a sequence of digits, so *)
(* that lengths count.  Real GUIDs have 16 bytes and 16 digits; the        *)
(* instances have fewer.                                                   *)
(***************************************************************************)
EXTENDS SequencesExt, Integers

CONSTANTS
    Digits,     \* the hex digits, lower case, in their order
    Upper,      \* their upper-case forms, which are the digits themselves for 0 to 9
    GuidLen,    \* bytes of a GUID (16)
    MaxNote,    \* bound: bytes of an ELF build-id note
    MaxAge      \* bound: age of a PE or PDB file

(* What canonical_token drops: a dash, the braces, white space. *)
Separators == {"dash", "open", "close", "space"}

ASSUME IdentityConstants ==
    /\ Digits \in Seq(STRING) /\ Upper \in Seq(STRING)
    /\ Len(Digits) >= 2 /\ Len(Upper) = Len(Digits)
    /\ \A i, j \in DOMAIN Digits :
         Digits[i] = Digits[j] \/ Upper[i] = Upper[j] \/ Upper[i] = Digits[j] => i = j
    /\ \A i \in DOMAIN Digits : Digits[i] \notin Separators /\ Upper[i] \notin Separators
    /\ GuidLen \in Nat \ {0, 1} /\ MaxNote \in Nat /\ MaxAge \in Nat

VARIABLES
    file,     \* the header of the indexed symbol file
    index,    \* its aliases, once it is indexed
    frame,    \* [of, form, token]: what a frame names, how, and in which characters
    located   \* whether the index has it

idVars == <<file, index, frame, located>>

Digit == {Digits[i] : i \in DOMAIN Digits}
Bytes == {<<x, y>> : x \in Digit, y \in Digit}
Zero == <<Digits[1], Digits[1]>>
Guids == [1..GuidLen -> Bytes]
Notes == UNION {[1..n -> Bytes] : n \in 0..MaxNote}

(* The identifying part of a header: the build-id note of ELF, the UUID of *)
(* Mach-O, GUID (as stored: little-endian) and age of PE and PDB.  A file  *)
(* without one, or of another kind, has no identity.                       *)
Headers ==
    [format : {"ELF"}, id : Notes, age : {0}] \cup
    [format : {"MachO"}, id : Guids, age : {0}] \cup
    [format : {"PE", "PDB"}, id : Guids, age : 0..MaxAge] \cup
    [format : {"other"}, id : {<<>>}, age : {0}]

-----------------------------------------------------------------------------
(* Derivation *)

hex_encode(bytes) ==
    [i \in 1..2 * Len(bytes) |-> bytes[(i + 1) \div 2][IF i % 2 = 1 THEN 1 ELSE 2]]

(* from_guid_age reads the first fields of a GUID as little-endian: here,  *)
(* its first two bytes change places.                                      *)
Swapped(g) == [g EXCEPT ![1] = g[2], ![2] = g[1]]

(* An ELF note is cut, or padded with zeros, to the length of a GUID. *)
NoteGuid(note) == [i \in 1..GuidLen |-> IF i <= Len(note) THEN note[i] ELSE Zero]

(* Mutant of Uuid: the GUID of a PE file is taken as stored. *)
UuidAsStored(h) ==
    CASE h.format = "ELF" -> Swapped(NoteGuid(h.id))
      [] h.format \in {"MachO", "PE"} -> h.id
      [] h.format = "PDB" -> Swapped(h.id)

(* The UUID in network order.  A Mach-O UUID is in that order already; the *)
(* PDB reader hands it out so.                                             *)
Uuid(h) ==
    CASE h.format = "ELF" -> Swapped(NoteGuid(h.id))
      [] h.format = "MachO" -> h.id
      [] h.format \in {"PE", "PDB"} -> Swapped(h.id)

(* The raw build-id: of a PE file the GUID as stored, of a PDB the UUID. *)
raw_build_id(h) == hex_encode(IF h.format = "PDB" THEN Uuid(h) ELSE h.id)

(* The age in hex digits, without leading zeros. *)
AgeDigits[n \in 0..MaxAge] ==
    LET b == Len(Digits) IN
    (IF n < b THEN <<>> ELSE AgeDigits[n \div b]) \o <<Digits[(n % b) + 1]>>

(* Mutant of debug_id_str: the age is left out. *)
debug_id_no_age(h) == hex_encode(Uuid(h))

debug_id_str(h) == hex_encode(Uuid(h)) \o AgeDigits[h.age]

(* to_ascii_lowercase *)
lower(ch) ==
    IF \E i \in DOMAIN Upper : Upper[i] = ch
    THEN Digits[CHOOSE i \in DOMAIN Upper : Upper[i] = ch] ELSE ch

(* Mutant of canonical_token: case is kept. *)
canonical_case(s) == SelectSeq(s, LAMBDA ch : ch \notin Separators)

(* canonical_token: separators go, upper case becomes lower case. *)
canonical_token(s) ==
    LET token[i \in 0..Len(s)] ==
            IF i = 0 THEN <<>>
            ELSE IF s[i] \in Separators THEN token[i - 1]
            ELSE Append(token[i - 1], lower(s[i]))
    IN  token[Len(s)]

aliases(h) ==
    IF h.format = "other" THEN {}
    ELSE {canonical_token(t) : t \in {debug_id_str(h), hex_encode(Uuid(h)), raw_build_id(h)}}

-----------------------------------------------------------------------------
(* Indexing a file and matching a frame *)

Forms == {"debug_id", "uuid", "raw"}
Named(h, form) ==
    CASE form = "debug_id" -> debug_id_str(h)
      [] form = "uuid" -> hex_encode(Uuid(h))
      [] form = "raw" -> raw_build_id(h)

(* Spellings of a token: as it is, or as a GUID in a registry is written. *)
Plain(t) == t
Braced(t) ==
    LET up == [i \in DOMAIN t |-> Upper[CHOOSE k \in DOMAIN Digits : Digits[k] = t[i]]]
    IN  IF up = <<>> THEN <<"open", "space", "close">>
        ELSE <<"open", Head(up), "dash">> \o Tail(up) \o <<"close">>

NoFrame ==
    [of |-> [format |-> "none", id |-> <<>>, age |-> 0], form |-> "none", token |-> <<>>]

IdInit ==
    /\ file \in Headers
    /\ index = {} /\ frame = NoFrame /\ located = FALSE

(* probe_identity of a file, as the indexer of a source calls it. *)
IndexFile ==
    /\ index = {} /\ frame = NoFrame /\ file.format # "other"
    /\ index' = aliases(file)
    /\ UNCHANGED <<file, frame, located>>

(* locate: the frame's token is looked up in the index. *)
Locate ==
    /\ frame = NoFrame /\ (index # {} \/ file.format = "other")
    /\ \E h \in {x \in Headers : x.format # "other"}, form \in Forms :
         \E t \in {Plain(Named(h, form)), Braced(Named(h, form))} :
            /\ frame' = [of |-> h, form |-> form, token |-> t]
            /\ located' = (canonical_token(t) \in index)
    /\ UNCHANGED <<file, index>>

IdNext == IndexFile \/ Locate

IdSpec == IdInit /\ [][IdNext]_idVars

-----------------------------------------------------------------------------
(* Properties *)

(* The file holds the symbols of the frame's module: the same note or      *)
(* UUID, or the PE image and the PDB of one build.                         *)
SameBuild(g, h) ==
    /\ g.id = h.id /\ g.age = h.age
    /\ g.format = h.format \/ {g.format, h.format} = {"PE", "PDB"}

(* "Resolve is a key lookup, never a filename guess": a frame finds the    *)
(* symbols of its module by debug-id and by bare UUID, however they are    *)
(* spelled, also where the image is a PE file and the symbols are a PDB.   *)
FrameFindsItsFile ==
    frame # NoFrame =>
        (SameBuild(file, frame.of) /\ frame.form # "raw" => located)

(* A debug-id leads to a file of that debug-id and no other: no bare UUID  *)
(* and no raw build-id reads like it.  An age of one digit is assumed; the *)
(* ages of real files are, and a longer one can make a debug-id as long as *)
(* a build-id note.  (DebugIdAssumption of module Ids.)                    *)
DebugIdsApart ==
    frame # NoFrame =>
        (frame.form = "debug_id" /\ frame.of.age < Len(Digits) /\ located =>
            Uuid(file) = Uuid(frame.of) /\ file.age = frame.of.age)

(* Canonical tokens are stable and of digits alone, as every map of the    *)
(* program assumes, both as keys of an index and as what a frame is looked *)
(* up by.  (CanonAssumption of module Ids.)                                *)
CanonicalKeys ==
    \A t \in index \cup {canonical_token(frame.token)} :
        canonical_token(t) = t /\ t \in Seq(Digit)

(* "A frame carries the build-id of the module it executed in; the         *)
(* matching debug file carries the same identifier" (id.rs:4): the raw     *)
(* build-id finds the symbols too.                                         *)
RawBuildIdMatches ==
    frame # NoFrame => (SameBuild(file, frame.of) => located)
=============================================================================
