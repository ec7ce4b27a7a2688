-------------------------------- MODULE Ids --------------------------------
(***************************************************************************)
(* Module identity as the rest of the system sees it (symbols-core,        *)
(* id.rs).  A caller names a module by some SPELLING of an identifier;     *)
(* canonical_token maps it to the TOKEN every map of the program is keyed  *)
(* by.  A debug file (an IMAGE) has one debug-id and a set of aliases, all *)
(* of them tokens.                                                         *)
(*                                                                         *)
(* Two images may share a debug-id: a PE image and its PDB carry the same  *)
(* GUID and age, a stripped ELF file and its .debug file the same build-id *)
(* note.  They may also share an alias without sharing the debug-id: two   *)
(* PDBs of one GUID and different ages have the same bare UUID.            *)
(***************************************************************************)

CONSTANTS
    Spellings,   \* identifier strings as callers write them
    Canon,       \* canonical_token, as a function on Spellings
    Images,      \* debug files the probe recognises
    DebugId,     \* Identity::debug_id_str of an image
    AliasesOf,   \* Identity::aliases of an image
    None         \* the absent Option

(* The canonical spellings: lower case, without separators.                *)
Tokens == {Canon[s] : s \in Spellings}

ASSUME CanonAssumption ==
    /\ Canon \in [Spellings -> Spellings]
    /\ \A s \in Spellings : Canon[Canon[s]] = Canon[s]

ASSUME IdentityAssumption ==
    /\ DebugId \in [Images -> Tokens]
    /\ AliasesOf \in [Images -> SUBSET Tokens]
    /\ \A m \in Images : DebugId[m] \in AliasesOf[m]

(* No debug-id is an alias of a module with another debug-id.  A debug-id  *)
(* is 32 hex digits of GUID and an age; the other aliases are the 32       *)
(* digits alone or a raw build-id, which has another length unless its     *)
(* producer chose 33 to 40 digits to match.                                *)
ASSUME DebugIdAssumption ==
    \A m, n \in Images : DebugId[m] \in AliasesOf[n] => DebugId[m] = DebugId[n]

ASSUME NoneAssumption == None \notin Tokens

(* t names the debug-id d: some image with that debug-id is looked up by t *)
Names(t, d) == \E m \in Images : DebugId[m] = d /\ t \in AliasesOf[m]
=============================================================================
