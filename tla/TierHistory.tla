----------------------------- MODULE TierHistory -----------------------------
(***************************************************************************)
(* Paging through the tier history of one account: GET .../tier/history of *)
(* routes/tier.ts over getTierHistory, in the PostgreSQL repository and in *)
(* the one the tests run on, while setTier of module KycTier adds rows.    *)
(* Of a row only its id and its assigned_at matter here.                   *)
(***************************************************************************)
EXTENDS Naturals, FiniteSets

CONSTANTS Repos,     \* the repositories considered: "pg", "memory"
          Limit,     \* rows per page
          Skew,      \* how far the clocks of two instances may differ
          MaxClock,  \* bound on the clock
          MaxRows    \* bound on the rows, and on their ids

ASSUME PagingAssumption == /\ Repos \subseteq {"pg", "memory"}
                           /\ Limit \in 1 .. 200
                           /\ Skew \in Nat /\ MaxClock \in Nat /\ MaxRows \in Nat

VARIABLES repo,      \* which repository it is
          clock,
          rows,      \* tier_history: [at : assigned_at, id : place of the ULID in the order of ids]
          reading,   \* does a client follow cursors now?
          cursor,    \* the cursor of the last page; NoRow, when there is none
          page,      \* the last page
          got,       \* history: the pages before it
          start,     \* history: the rows there were when the client began
          followed   \* history: the cursors the client has followed

vars == <<repo, clock, rows, reading, cursor, page, got, start, followed>>

Row   == [at : Nat, id : Nat]
NoRow == [at |-> 0, id |-> 0]

TypeOK ==
    /\ repo \in Repos
    /\ clock \in Nat
    /\ rows \in SUBSET Row /\ IsFiniteSet(rows)
    /\ \A x, y \in rows : x.id = y.id => x = y
    /\ reading \in BOOLEAN
    /\ cursor \in rows \cup {NoRow}
    /\ page \subseteq rows /\ got \subseteq rows /\ start \subseteq rows /\ followed \subseteq rows

Init ==
    /\ repo \in Repos
    /\ clock = Skew + 1
    /\ rows = {[at |-> clock, id |-> 1]}
    /\ reading = FALSE
    /\ cursor = NoRow
    /\ page = {} /\ got = {} /\ start = {} /\ followed = {}

Tick == clock < MaxClock /\ clock' = clock + 1
        /\ UNCHANGED <<repo, rows, reading, cursor, page, got, start, followed>>

\* setTier opens an assignment, dated by the instance that runs it.
Assign ==
    /\ Cardinality(rows) < MaxRows
    /\ \E id \in 1 .. MaxRows, at \in (clock - Skew) .. clock :
          /\ \A x \in rows : x.id # id
          /\ rows' = rows \cup {[at |-> at, id |-> id]}
    /\ UNCHANGED <<repo, clock, reading, cursor, page, got, start, followed>>

\* ORDER BY assigned_at DESC, id DESC: x comes before y.
Above(x, y) == x.at > y.at \/ (x.at = y.at /\ x.id > y.id)

\* Mutant: rows as old as the cursor's are sought too.
SeekSame(c) == CASE c = NoRow -> rows
                 [] c # NoRow /\ repo = "pg" -> {x \in rows : x.at <= c.at}
                 [] c # NoRow /\ repo = "memory" -> {x \in rows : x = c \/ Above(c, x)}

\* The rows a page is taken from: older than the cursor's, or from it on.
Seek(c) == CASE c = NoRow -> rows
             [] c # NoRow /\ repo = "pg" -> {x \in rows : x.at < c.at}
             [] c # NoRow /\ repo = "memory" -> {x \in rows : x = c \/ Above(c, x)}

Rank(x, S) == Cardinality({y \in S : Above(y, x)})

Items(S) == {x \in S : Rank(x, S) < Limit}

\* Mutant: the query does not fetch the extra row.
NoNext(S) == NoRow

\* The extra row fetched: the cursor is the first row of the page to come.
NextCursor(S) == IF Cardinality(S) > Limit THEN CHOOSE x \in S : Rank(x, S) = Limit ELSE NoRow

\* A request without a cursor.  The rail keeps nothing between two pages, so
\* one client that reads to the end stands for any number of them.
FirstPage ==
    /\ ~reading
    /\ page' = Items(rows)
    /\ cursor' = NextCursor(rows)
    /\ reading' = (NextCursor(rows) # NoRow)
    /\ got' = {} /\ start' = rows /\ followed' = {}
    /\ UNCHANGED <<repo, clock, rows>>

\* The request with the cursor of the last page.
FollowCursor ==
    /\ reading
    /\ page' = Items(Seek(cursor))
    /\ cursor' = NextCursor(Seek(cursor))
    /\ reading' = (NextCursor(Seek(cursor)) # NoRow)
    /\ got' = got \cup page
    /\ followed' = followed \cup {cursor}
    /\ UNCHANGED <<repo, clock, rows, start>>

Next == Tick \/ Assign \/ FirstPage \/ FollowCursor

Spec == Init /\ [][Next]_vars

-----------------------------------------------------------------------------
(* Properties.                                                             *)

\* Every page is older than all pages before it, and so no assignment is given
\* twice, whatever ties there are and whatever is assigned meanwhile.
PagesDescend == \A x \in page, y \in got : Above(y, x)

Given == got \cup page

\* What paging loses is at its seams: an assignment that was there at the
\* beginning and is not given is as old as one of the cursors.  The repository
\* of the tests loses nothing.
LossOnlyAtCursors ==
    ~reading => \A x \in start \ Given : repo = "pg" /\ \E c \in followed : c.at = x.at
=============================================================================
