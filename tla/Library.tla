------------------------------ MODULE Library ------------------------------
(***************************************************************************)
(* What the symbol service promises, without the cache, the index and the  *)
(* lock that implement it: a lending library of debug modules.             *)
(*                                                                         *)
(* The library holds some modules and may drop any of them, but keeps a    *)
(* record of the file each was taken from.  It takes a module in from a    *)
(* file within reach, that is, under a source that is registered, enabled  *)
(* and local at that moment, or from a file it has on record, and it takes *)
(* what the file contains at that moment.  It answers a caller from a      *)
(* module it holds and the caller's token names, or says that it has none, *)
(* or that such a file cannot be read.  What it remembers across a restart *)
(* are the sources, the missing tokens and the records it saved.           *)
(***************************************************************************)
EXTENDS Ids

CONSTANTS
    Files,      \* files of the disk
    Parsable,   \* images that can be parsed
    Absent,     \* disk value: no readable file
    NotFound,   \* answer: not_found
    Failed      \* answer: error:<kind>

VARIABLES
    disk,         \* file -> image, or something that is no image
    reach,        \* the files under the live sources
    held,         \* the modules in memory
    missing,      \* tokens known to have no module
    known,        \* files on record: modules were taken from them
    saved_reach,  \* reach as last exported
    saved,        \* missing tokens as last exported
    saved_known,  \* records as last exported
    answer        \* [tok, res] of the last lookup, if that was the last call

memory == <<held, missing, known>>
disc == <<saved_reach, saved, saved_known>>
libVars == <<disk, reach, memory, disc, answer>>

Silent == [tok |-> None, res |-> None]
HeldIds == {DebugId[m] : m \in held}

Init ==
    /\ held = {} /\ missing = {} /\ known = {} /\ reach = {}
    /\ saved_reach = {} /\ saved = {} /\ saved_known = {}
    /\ answer = Silent

-----------------------------------------------------------------------------
(* A lookup begins, or a call that says nothing is made. *)
Ask ==
    /\ answer' = Silent
    /\ UNCHANGED <<disk, reach, memory, disc>>

(* The answer comes from a module that is held and that s names. *)
AnswerFrom(s) ==
    /\ \E m \in held : /\ Names(Canon[s], DebugId[m])
                       /\ answer' = [tok |-> s, res |-> m]
    /\ UNCHANGED <<disk, reach, memory, disc>>

(* Nothing is found for s, which is then remembered or not; never when the *)
(* module with the debug-id s is held.                                     *)
AnswerMissing(s) ==
    /\ Canon[s] \notin HeldIds
    /\ missing' = missing \/ missing' = missing \cup {Canon[s]}
    /\ answer' = [tok |-> s, res |-> NotFound]
    /\ UNCHANGED <<disk, reach, held, known, disc>>

(* The file cannot be parsed; nothing is remembered of it. *)
AnswerFailed(s) ==
    /\ \E f \in reach \cup known : disk[f] \notin Parsable \cup {Absent}
    /\ answer' = [tok |-> s, res |-> Failed]
    /\ UNCHANGED <<disk, reach, memory, disc>>

(* A module is taken in: it replaces the one of its debug-id, others may   *)
(* have to make room, its debug-id is missing no more, and its file is on  *)
(* record.                                                                 *)
Load ==
    /\ \E f \in reach \cup known :
         LET m == disk[f] IN
         /\ m \in Parsable
         /\ m \in held'
         /\ held' \subseteq {n \in held : DebugId[n] # DebugId[m]} \cup {m}
         /\ missing' = missing \ {DebugId[m]}
         /\ f \in known' /\ known' \subseteq known \cup {f}
    /\ UNCHANGED <<disk, reach, disc, answer>>

(* Modules are dropped, in the course of a lookup or by a call; the files  *)
(* they came from stay on record.                                          *)
Forget ==
    /\ held' \subseteq held
    /\ answer' \in {answer, Silent}
    /\ UNCHANGED <<disk, reach, missing, known, disc>>

(* A source is added: no file goes out of reach.  One is dropped: none     *)
(* comes into reach, and what is held stays held.                          *)
Widen ==
    /\ reach \subseteq reach'
    /\ answer' = Silent
    /\ UNCHANGED <<disk, memory, disc>>

Narrow ==
    /\ reach' \subseteq reach
    /\ answer' = Silent
    /\ UNCHANGED <<disk, memory, disc>>

(* The manifest is exported: it lists the sources, the files on record,    *)
(* and of the missing tokens those that never had a module.                *)
Save ==
    /\ saved_reach' = reach
    /\ saved' \subseteq missing
    /\ saved_known' = known
    /\ answer' = Silent
    /\ UNCHANGED <<disk, reach, memory>>

(* A new process starts with what was saved, or with nothing. *)
Restart ==
    /\ \/ UNCHANGED disc
       \/ saved_reach' = {} /\ saved' = {} /\ saved_known' = {}
    /\ reach' = saved_reach' /\ missing' = saved' /\ known' = saved_known' /\ held' = {}
    /\ answer' = Silent
    /\ UNCHANGED disk

(* Another process changes the disk. *)
Disturb == disk' # disk /\ UNCHANGED <<reach, memory, disc, answer>>

Next ==
    \/ \E s \in Spellings : AnswerFrom(s) \/ AnswerMissing(s) \/ AnswerFailed(s)
    \/ Ask \/ Load \/ Forget \/ Widen \/ Narrow \/ Save \/ Restart \/ Disturb

Spec == Init /\ [][Next]_libVars
=============================================================================
