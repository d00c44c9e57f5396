----------------------------- MODULE QueryChanges -----------------------------
(***************************************************************************)
(* */query and */queryChanges: jmap/filtering.py's compute_query_changes   *)
(* over the change log, for Mailbox and Email alike.  The diff does not    *)
(* track sort positions.  It removes every object that changed and adds    *)
(* back, at its index in the current result, every one that still matches. *)
(*                                                                         *)
(* A client keeps the list of ids its query gave it and splices the diffs  *)
(* into it as RFC 8620 section 5.6 tells it to, while the bridge writes    *)
(* objects, moves them in the order or out of the match, and prunes.  A    *)
(* call is one step: the diff and the current result are read in two       *)
(* transactions, but every writer waits for the caller's command_lock.     *)
(*                                                                         *)
(* The log, its answers and its pruning are those of ChangeLog; its own    *)
(* client stands still.                                                    *)
(***************************************************************************)
EXTENDS ChangeLog, Sequences, SequencesExt

CONSTANTS
    Places,    \* sort keys: no two matching objects have the same
    Limits     \* values of maxChanges that the client uses

ASSUME QueryChangesAssumption ==
    /\ Places \subseteq Nat \ {0}
    /\ Limits \subseteq Nat \ {0}

VARIABLES
    place,    \* place[i]: sort key of object i, 0 when it does not match
    follower  \* the client: its list of ids and the query state it has

queryVars == <<vars, place, follower>>

\* "has": a list to keep up to date; "cut": history, whether a diff it has
\* spliced in was cut short by maxChanges.
Follower == [has   : BOOLEAN,
             token : Nat,
             ids   : Seq(Ids),
             cut   : BOOLEAN]

NoList == [has |-> FALSE, token |-> 0, ids |-> <<>>, cut |-> FALSE]

QueryInit ==
    /\ Init
    /\ place = [i \in Ids |-> 0]
    /\ follower = NoList

-----------------------------------------------------------------------------
(* The bridge *)

Matching == {i \in Ids : place[i] # 0}

\* The elements of the finite set S in ascending order of their keys.
InOrder(S, key) ==
    CHOOSE s \in [1..Cardinality(S) -> S] :
        \A m, n \in 1..Cardinality(S) : m < n => key[s[m]] < key[s[n]]

\* The ids of the query's whole result, sorted.
Result == InOrder(Matching, place)

Index(ids, i) == CHOOSE n \in DOMAIN ids : ids[n] = i

\* Fault: an object that no longer matches is left alone.
ComputeQueryChangesMatching(lists, current) ==
    LET fresh == (lists.created \cup lists.updated) \cap ToSet(current)
    IN  [removed |-> lists.destroyed \cup fresh,
         added   |-> InOrder(fresh, [i \in fresh |-> Index(current, i)])]

\* Fault: updated objects stay where they are.
ComputeQueryChangesInPlace(lists, current) ==
    LET fresh == lists.created \cap ToSet(current)
        stale == lists.updated \ ToSet(current)
    IN  [removed |-> lists.destroyed \cup lists.created \cup stale,
         added   |-> InOrder(fresh, [i \in fresh |-> Index(current, i)])]

\* What to remove, and what to add in the order of its index.
ComputeQueryChanges(lists, current) ==
    LET fresh == (lists.created \cup lists.updated) \cap ToSet(current)
    IN  [removed |-> lists.destroyed \cup lists.created \cup lists.updated,
         added   |-> InOrder(fresh, [i \in fresh |-> Index(current, i)])]

\* An object of the queried type is written, with where it sorts from now on.
WriteAt(i, change, p) ==
    /\ Write(Watched, i, change)
    /\ p # 0 => change # "destroyed" /\ \A j \in Ids \ {i} : place[j] # p
    /\ place' = [place EXCEPT ![i] = p]
    /\ UNCHANGED follower

WriteOther(t, i, change) ==
    /\ t # Watched
    /\ Write(t, i, change)
    /\ UNCHANGED <<place, follower>>

Prune == PruneChangeLog /\ UNCHANGED <<place, follower>>

-----------------------------------------------------------------------------
(* The client *)

Query ==
    /\ ~follower.has
    /\ follower' = [has |-> TRUE, token |-> CurrentState(Watched), ids |-> Result, cut |-> FALSE]
    /\ UNCHANGED <<vars, place>>

\* The list without the ids that are removed.
Kept(ids, removed) ==
    LET left == {n \in DOMAIN ids : ids[n] \notin removed}
        at == InOrder(left, [n \in left |-> n])
    IN  [n \in 1..Cardinality(left) |-> ids[at[n]]]

\* An id is put at its index, or at the end of a list that is too short.
Put(ids, i, current) == InsertAt(ids, Min({Index(current, i), Len(ids) + 1}), i)

\* Take out what is removed, then put in what is added, lowest index first.
Splice(ids, diff, current) ==
    LET list[n \in 0..Len(diff.added)] ==
            IF n = 0 THEN Kept(ids, diff.removed) ELSE Put(list[n - 1], diff.added[n], current)
    IN  list[Len(diff.added)]

\* */queryChanges with maxChanges = max: get_changes may answer with a first part.
AskQueryChanges(max) ==
    LET answer == GetChanges(Watched, follower.token, max)
        diff == ComputeQueryChanges(answer.lists, Result)
    IN  /\ follower.has
        /\ Answerable(Watched, follower.token)
        /\ follower' = [has   |-> TRUE,
                        token |-> answer.newState,
                        ids   |-> Splice(follower.ids, diff, Result),
                        cut   |-> follower.cut \/ answer.more]
        /\ UNCHANGED <<vars, place>>

\* cannotCalculateChanges: the client queries anew.
QueryChangesRefused ==
    /\ follower.has
    /\ ~Answerable(Watched, follower.token)
    /\ follower' = NoList
    /\ UNCHANGED <<vars, place>>

Follow == Query \/ (\E max \in Limits : AskQueryChanges(max)) \/ QueryChangesRefused

QueryNext ==
    \/ \E i \in Ids, change \in Changes, p \in Places \cup {0} : WriteAt(i, change, p)
    \/ \E t \in Types, i \in Ids, change \in Changes : WriteOther(t, i, change)
    \/ Prune
    \/ Follow

QuerySpec == QueryInit /\ [][QueryNext]_queryVars

-----------------------------------------------------------------------------
(* Properties *)

CaughtUp ==
    /\ follower.has
    /\ follower.token = CurrentState(Watched)
    /\ follower.token >= pruned

\* "never missing a real change" (README): a client that has followed the diffs
\* to the current state lists the matching objects, each once, in however many
\* parts it has asked for them.
MembersExact ==
    CaughtUp => ToSet(follower.ids) = Matching /\ IsInjective(follower.ids)

\* And in their order, if no diff was cut short: objects that are not reported
\* keep their places, and the index of a reported one is where it goes.
OrderExact == CaughtUp /\ ~follower.cut => follower.ids = Result

\* "so the client repositions it" (filtering.py): in their order, whatever
\* maxChanges the client used.
PositionsExact == CaughtUp => follower.ids = Result

=============================================================================
