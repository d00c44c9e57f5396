------------------------------- MODULE Feed -------------------------------
(***************************************************************************)
(* What `*/changes` promises a JMAP client, with no log, no page, no       *)
(* watermark and no coalescing: store/state.py seen from outside.          *)
(*                                                                         *)
(* Objects change at numbered moments.  A client that follows holds a      *)
(* position and a copy; an answer takes it forward to a later position and *)
(* tells it which objects it must look at again to be right up to there.   *)
(* The bridge may at any time decline, and the client starts over.         *)
(*                                                                         *)
(* ChangeLog implements this specification (ChangeLog!FeedSpec).           *)
(***************************************************************************)
EXTENDS Naturals

CONSTANT Ids    \* the objects

VARIABLES
    version,    \* version[i]: the number of the change that wrote i, 0 when absent
    touched,    \* touched[i]: the number of the last change of i, 0 when none
    now,        \* the number of the last change of any kind
    position,   \* the client's state string
    copy,       \* copy[i]: the version of i the client holds, 0 when none
    due,        \* the objects the client was told of and has yet to fetch
    following   \* FALSE: the client has no copy to bring up to date

vars == <<version, touched, now, position, copy, due, following>>

TypeOK ==
    /\ version \in [Ids -> Nat]
    /\ touched \in [Ids -> Nat]
    /\ now \in Nat
    /\ position \in Nat
    /\ copy \in [Ids -> Nat]
    /\ due \in SUBSET Ids
    /\ following \in BOOLEAN

Nothing == [i \in Ids |-> 0]

Init ==
    /\ version = Nothing
    /\ touched = Nothing
    /\ now = 0
    /\ position = 0
    /\ copy = Nothing
    /\ due = {}
    /\ following = FALSE

\* The next change: an object is written, or destroyed, or is another type's.
Change ==
    /\ now' = now + 1
    /\ \/ UNCHANGED <<version, touched>>
       \/ \E i \in Ids : /\ touched' = [touched EXCEPT ![i] = now']
                         /\ version' \in {[version EXCEPT ![i] = v] : v \in {0, now'}}
    /\ UNCHANGED <<position, copy, due, following>>

\* Start over: read every object.  The position may be older than what was read
\* (the numbers of an object's last change can be forgotten), never newer.
Restart ==
    /\ ~following
    /\ following' = TRUE
    /\ copy' = version
    /\ position' \in 0..now
    /\ UNCHANGED <<version, touched, now, due>>

\* An answer of */changes up to position p: objects to fetch, objects that are
\* gone.  An object changed by then and not named is one the client has right.
Tell(p, fetch, gone) ==
    /\ following
    /\ due = {}
    /\ p \in position..now
    /\ \A i \in gone : touched[i] > p \/ version[i] = 0
    /\ position' = p
    /\ copy' = [i \in Ids |-> IF i \in gone THEN 0 ELSE copy[i]]
    /\ due' = fetch
    /\ \A i \in Ids \ fetch : touched[i] <= p => copy'[i] = version[i]
    /\ UNCHANGED <<version, touched, now, following>>

\* Get the objects that were named, as they are by now.
Fetch ==
    /\ following
    /\ copy' = [i \in Ids |-> IF i \in due THEN version[i] ELSE copy[i]]
    /\ due' = {}
    /\ UNCHANGED <<version, touched, now, position, following>>

\* The bridge cannot calculate changes: the client gives its copy up.
Decline ==
    /\ following
    /\ due = {}
    /\ following' = FALSE
    /\ UNCHANGED <<version, touched, now, position, copy, due>>

Next ==
    \/ Change
    \/ Restart
    \/ \E p \in 0..now : \E fetch, gone \in SUBSET Ids : Tell(p, fetch, gone)
    \/ Fetch
    \/ Decline

Spec == Init /\ [][Next]_vars

-----------------------------------------------------------------------------

\* The promise: whatever changed no later than the client's position is right
\* in its copy, or named to it and not fetched yet (state.py get_changes).
Promise ==
    /\ now >= position
    /\ \A i \in Ids : version[i] \in {0, touched[i]} /\ touched[i] <= now
    /\ following => \A i \in Ids \ due : touched[i] <= position => copy[i] = version[i]

=============================================================================
