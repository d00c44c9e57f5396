---------------------------- MODULE MCFolderSync ----------------------------
(* FolderSync for TLC: two folders that are never renamed or removed.      *)
EXTENDS FolderSync, TLC

CONSTANTS a, b, c, inbox, archive

\* Room for one item in each folder.
OneAndOne == (a :> inbox) @@ (c :> archive)

\* Two items in one folder.
TwoInInbox == (a :> inbox) @@ (b :> inbox)

\* Keys are opaque.
OpaqueKeys == Permutations(Keys)
=============================================================================
