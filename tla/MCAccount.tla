----------------------------- MODULE MCAccount -----------------------------
(* Account for TLC: a user folder, the drafts folder and a calendar.       *)
EXTENDS Account, TLC

CONSTANTS work, drafts, cal, w, d, c

\* One item for each folder; a moved item becomes the other folder's.
Homes == [i \in Items |-> CASE i = w -> work [] i = c -> cal [] OTHER -> drafts]

\* Every operator, over bounded and unbounded operands, and nested.
Trees == <<[op |-> "inMailbox", folder |-> work],
           [op |-> "inMailbox", folder |-> drafts],
           [op |-> "other"],
           [op |-> "NOT", of |-> {1}],
           [op |-> "OR", of |-> {1, 3}],
           [op |-> "AND", of |-> {2, 4, 5}],
           [op |-> "OR", of |-> {1, 2}],
           [op |-> "inMailbox", folder |-> cal]>>
=============================================================================
