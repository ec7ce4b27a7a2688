----------------------------- MODULE MCIdentity -----------------------------
(***************************************************************************)
(* Two digits, of which one has no upper-case form; GUIDs of two bytes;    *)
(* build-id notes of up to three: shorter than, as long as and longer than *)
(* a GUID; ages of one and two digits.                                     *)
(***************************************************************************)
EXTENDS Identity

MCDigits == <<"0", "a">>
MCUpper == <<"0", "A">>
=============================================================================
