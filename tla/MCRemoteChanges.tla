--------------------------- MODULE MCRemoteChanges ---------------------------
(***************************************************************************)
(* Three revisions of two keys, the loop's requests and another one.       *)
(***************************************************************************)
EXTENDS RemoteChanges

MCKeyOf == <<1, 2, 1>>
=============================================================================
