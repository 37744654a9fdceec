--------------------------- MODULE RecordsProofs ---------------------------
(***************************************************************************)
(* Theorems about the tables that only grow, of TierHistory, AuditChain    *)
(* and Idempotency, for any bounds, clocks, writers, keys and requests.    *)
(* Their states are apart, and so are the three invariants.                *)
(*                                                                         *)
(* Of TierHistory: the order of a listing is total, so that a page is what *)
(* is above its cursor.  Of AuditChain: the lock makes the decision of an  *)
(* append current, and a current decision keeps the log rooted and linear  *)
(* wherever the times of its entries are.  Of Idempotency: a row, once     *)
(* stored, is never written again, so what holds of it keeps holding, and  *)
(* who missed it missed it for good.                                       *)
(***************************************************************************)
EXTENDS TierHistory, AuditPromises, IdempotencyPromises, SequenceTheorems, FiniteSetTheorems, TLAPS

CONSTANTS Writers, MaxEntries,
          Keys, Bodies, Requests, NoKey, NoBody, MaxRuns

VARIABLES writer, request

Audit == INSTANCE AuditChain
Idem  == INSTANCE Idempotency

-----------------------------------------------------------------------------
(* TierHistory                                                             *)

\* Rows of which no two have one id.
Listing(S) ==
    /\ S \subseteq [at : Nat, id : Nat \ {0}] /\ IsFiniteSet(S)
    /\ \A x, y \in S : x.id = y.id => x = y

\* ORDER BY assigned_at DESC, id DESC leaves no ties.
LEMMA AboveOrders ==
    ASSUME NEW S, Listing(S)
    PROVE  /\ \A x \in S : ~Above(x, x)
           /\ \A x, y \in S : x = y \/ Above(x, y) \/ Above(y, x)
           /\ \A x, y, z \in S : Above(x, y) /\ Above(y, z) => Above(x, z)
  BY DEF Listing, Above

\* What is above a row ranks before it.
LEMMA RankFollowsOrder ==
    ASSUME NEW S, Listing(S), NEW x \in S, NEW y \in S, Above(y, x)
    PROVE  Rank(y, S) \in Nat /\ Rank(x, S) \in Nat /\ Rank(y, S) < Rank(x, S)
<1> DEFINE A == {z \in S : Above(z, y)}
           B == {z \in S : Above(z, x)}
<1>1. A \in SUBSET B /\ y \in B /\ y \notin A
  BY AboveOrders
<1>2. IsFiniteSet(S) /\ B \in SUBSET S
  BY DEF Listing
<1>3. IsFiniteSet(B)
  BY <1>2, FS_Subset
<1> HIDE DEF A, B
<1>4. /\ IsFiniteSet(A) /\ Cardinality(A) <= Cardinality(B)
      /\ Cardinality(B) = Cardinality(A) => B = A
  BY <1>1, <1>3, FS_Subset
<1>5. Cardinality(A) \in Nat /\ Cardinality(B) \in Nat
  BY <1>3, <1>4, FS_CardinalityType
<1>6. Cardinality(A) < Cardinality(B)
  BY <1>1, <1>4, <1>5
<1> QED  BY <1>5, <1>6 DEF Rank, A, B

LEMMA RankRange ==
    ASSUME NEW S, Listing(S), NEW x \in S
    PROVE  Cardinality(S) \in Nat \ {0} /\ Rank(x, S) \in 0 .. (Cardinality(S) - 1)
<1> DEFINE B == {z \in S : Above(z, x)}
<1>1. B \in SUBSET S /\ x \notin B /\ IsFiniteSet(S)
  BY AboveOrders DEF Listing
<1> HIDE DEF B
<1>2. /\ IsFiniteSet(B) /\ Cardinality(B) <= Cardinality(S)
      /\ Cardinality(S) = Cardinality(B) => S = B
  BY <1>1, FS_Subset
<1>3. Cardinality(B) \in Nat /\ Cardinality(S) \in Nat
  BY <1>1, <1>2, FS_CardinalityType
<1>4. Cardinality(B) < Cardinality(S)
  BY <1>1, <1>2, <1>3
<1>5. Cardinality(S) \in Nat \ {0} /\ Cardinality(B) \in 0 .. (Cardinality(S) - 1)
  BY <1>3, <1>4
<1> QED  BY <1>5 DEF Rank, B

\* Every place in a listing is taken: as many ranks as rows, and no two alike.
LEMMA RankOnto ==
    ASSUME NEW S, Listing(S), NEW i \in Nat, i < Cardinality(S)
    PROVE  \E x \in S : Rank(x, S) = i
<1> DEFINE n == Cardinality(S)
           T == 0 .. (n - 1)
           f == [x \in S |-> Rank(x, S)]
<1>1. IsFiniteSet(S) /\ n \in Nat
  BY FS_CardinalityType DEF Listing
<1>2. i \in T /\ 0 \in Int /\ n - 1 \in Int /\ ~(0 > n - 1)
  BY <1>1
<1>3. IsFiniteSet(T) /\ Cardinality(T) = n
  <2> HIDE DEF n
  <2>1. IsFiniteSet(T) /\ Cardinality(T) = IF 0 > n - 1 THEN 0 ELSE (n - 1) - 0 + 1
    BY <1>2, FS_Interval
  <2> QED  BY <1>1, <1>2, <2>1
<1>4. f \in [S -> T]
  BY RankRange
<1>5. \A x, y \in S : f[x] = f[y] => x = y
  <2> SUFFICES ASSUME NEW x \in S, NEW y \in S, Rank(x, S) = Rank(y, S), x # y PROVE FALSE
    OBVIOUS
  <2>1. Above(x, y) \/ Above(y, x)
    BY AboveOrders
  <2> QED  BY <2>1, RankFollowsOrder
<1>6. f \in Injection(S, T)
  BY <1>4, <1>5 DEF Injection, IsInjective
<1> HIDE DEF n, T, f
<1>7. f \in Surjection(S, T)
  BY <1>3, <1>6, FS_Injection DEF n
<1>8. \E x \in S : f[x] = i
  BY <1>2, <1>7 DEF Surjection
<1> QED  BY <1>8 DEF f

\* A page is a top of what it is taken from, and its cursor the first of the rest.
LEMMA PageFacts ==
    ASSUME NEW S, Listing(S)
    PROVE  /\ Items(S) \subseteq S
           /\ NextCursor(S) = NoRow => Items(S) = S
           /\ NextCursor(S) # NoRow =>
                 /\ NextCursor(S) \in S
                 /\ \A x \in Items(S) : Above(x, NextCursor(S))
                 /\ \A x \in S \ Items(S) : x = NextCursor(S) \/ Above(NextCursor(S), x)
<1>0. Limit \in Nat \ {0} /\ Cardinality(S) \in Nat
  BY PagingAssumption, FS_CardinalityType DEF Listing
<1>1. Items(S) \subseteq S
  BY DEF Items
<1>2. CASE ~(Cardinality(S) > Limit)
  <2>1. NextCursor(S) = NoRow
    BY <1>2 DEF NextCursor
  <2>2. \A x \in S : Rank(x, S) < Limit
    <3> TAKE x \in S
    <3>1. Cardinality(S) \in Nat /\ Rank(x, S) \in 0 .. (Cardinality(S) - 1)
      BY RankRange
    <3> QED  BY <1>0, <1>2, <3>1
  <2> QED  BY <1>1, <2>1, <2>2 DEF Items
<1>3. CASE Cardinality(S) > Limit
  <2> DEFINE c == NextCursor(S)
  <2>1. \E x \in S : Rank(x, S) = Limit
    BY <1>0, <1>3, RankOnto
  <2>2. c \in S /\ Rank(c, S) = Limit
    BY <1>3, <2>1 DEF NextCursor
  <2> HIDE DEF c
  <2>3. c # NoRow
    BY <2>2 DEF Listing, NoRow
  <2>4. ASSUME NEW x \in S, Rank(x, S) < Limit PROVE Above(x, c)
    <3>1. x # c
      BY <1>0, <2>2, <2>4
    <3>2. ~Above(c, x)
      <4> SUFFICES ASSUME Above(c, x) PROVE FALSE
        OBVIOUS
      <4>1. Rank(x, S) \in Nat /\ Rank(c, S) < Rank(x, S)
        BY <2>2, RankFollowsOrder
      <4> QED  BY <1>0, <2>2, <2>4, <4>1
    <3> QED  BY <2>2, <3>1, <3>2, AboveOrders
  <2>5. ASSUME NEW x \in S, ~(Rank(x, S) < Limit) PROVE x = c \/ Above(c, x)
    <3>1. ~Above(x, c)
      <4> SUFFICES ASSUME Above(x, c) PROVE FALSE
        OBVIOUS
      <4>1. Rank(x, S) < Rank(c, S)
        BY <2>2, RankFollowsOrder
      <4> QED  BY <2>2, <2>5, <4>1
    <3> QED  BY <2>2, <3>1, AboveOrders
  <2> QED  BY <1>1, <2>2, <2>3, <2>4, <2>5 DEF Items, c
<1> QED  BY <1>2, <1>3

\* A row of the beginning is given, still to come, or as old as a cursor of "pg".
NothingElseLost ==
    \A x \in start \ Given : \/ reading /\ (x = cursor \/ Above(cursor, x))
                             \/ repo = "pg" /\ \E c \in followed : c.at = x.at

PagingInv ==
    /\ repo \in Repos
    /\ clock \in Nat /\ clock >= Skew + 1
    /\ Listing(rows)
    /\ reading \in BOOLEAN /\ cursor \in rows \cup {NoRow}
    /\ reading => cursor \in rows /\ \A x \in Given : Above(x, cursor)
    /\ page \subseteq rows /\ got \subseteq rows /\ start \subseteq rows /\ followed \subseteq rows
    /\ PagesDescend
    /\ NothingElseLost

LEMMA PagingInit == Init => PagingInv
<1> SUFFICES ASSUME Init PROVE PagingInv
  OBVIOUS
<1>1. clock = Skew + 1 /\ rows = {[at |-> clock, id |-> 1]} /\ Skew \in Nat
  BY PagingAssumption DEF Init
<1>2. Listing(rows)
  <2> DEFINE w == [at |-> clock, id |-> 1]
  <2>1. w \in [at : Nat, id : Nat \ {0}] /\ rows = {w}
    BY <1>1
  <2> HIDE DEF w
  <2>2. IsFiniteSet(rows)
    BY <2>1, FS_Singleton
  <2> QED  BY <2>1, <2>2 DEF Listing
<1>3. clock \in Nat /\ clock >= Skew + 1
  BY <1>1
<1>4. /\ repo \in Repos /\ reading = FALSE /\ cursor = NoRow
      /\ page = {} /\ got = {} /\ start = {} /\ followed = {}
  BY DEF Init
<1> QED  BY <1>2, <1>3, <1>4 DEF PagingInv, PagesDescend, NothingElseLost, Given

LEMMA FirstStep == ASSUME PagingInv, FirstPage PROVE PagingInv'
<1> DEFINE c == NextCursor(rows)
<1>1. /\ page' = Items(rows) /\ cursor' = c /\ reading' = (c # NoRow)
      /\ got' = {} /\ start' = rows /\ followed' = {} /\ UNCHANGED <<repo, clock, rows>>
  BY DEF FirstPage
<1>2. /\ Items(rows) \subseteq rows
      /\ c = NoRow => Items(rows) = rows
      /\ c # NoRow => /\ c \in rows
                      /\ \A x \in Items(rows) : Above(x, c)
                      /\ \A x \in rows \ Items(rows) : x = c \/ Above(c, x)
  BY PageFacts DEF PagingInv
<1> HIDE DEF c
<1>3. PagesDescend' /\ Given' = Items(rows)
  BY <1>1 DEF PagesDescend, Given
<1>4. NothingElseLost'
  BY <1>1, <1>2, <1>3 DEF NothingElseLost
<1> QED  BY <1>1, <1>2, <1>3, <1>4 DEF PagingInv, Listing

LEMMA FollowStep == ASSUME PagingInv, FollowCursor PROVE PagingInv'
<1> DEFINE S == Seek(cursor)
           c == NextCursor(S)
<1>1. /\ page' = Items(S) /\ cursor' = c /\ reading' = (c # NoRow) /\ reading
      /\ got' = got \cup page /\ followed' = followed \cup {cursor} /\ UNCHANGED <<repo, clock, rows, start>>
  BY DEF FollowCursor
<1>2. cursor \in rows /\ cursor # NoRow /\ \A x \in Given : x \in rows /\ Above(x, cursor)
  BY <1>1 DEF PagingInv, Given, Listing, NoRow
<1>3. \/ repo = "pg" /\ S = {x \in rows : x.at < cursor.at}
      \/ repo = "memory" /\ S = {x \in rows : x = cursor \/ Above(cursor, x)}
  BY <1>2, PagingAssumption DEF PagingInv, Seek
<1>4. /\ S \in SUBSET rows
      /\ \A x \in S : x = cursor \/ Above(cursor, x)
      /\ \A x \in rows \ S : x = cursor \/ Above(cursor, x) => repo = "pg" /\ cursor.at = x.at
  BY <1>2, <1>3 DEF Above, PagingInv, Listing
<1> HIDE DEF S
<1>5. Listing(S)
  <2>1. IsFiniteSet(S)
    BY <1>4, FS_Subset DEF PagingInv, Listing
  <2> QED  BY <1>4, <2>1 DEF PagingInv, Listing
<1>6. /\ Items(S) \subseteq S
      /\ c = NoRow => Items(S) = S
      /\ c # NoRow => /\ c \in S
                      /\ \A x \in Items(S) : Above(x, c)
                      /\ \A x \in S \ Items(S) : x = c \/ Above(c, x)
  BY <1>5, PageFacts
<1> HIDE DEF c
<1>7. \A x \in S, y \in Given : Above(y, x)
  <2> TAKE x \in S, y \in Given
  <2>1. Above(y, cursor) /\ (x = cursor \/ Above(cursor, x)) /\ x \in rows /\ y \in rows
    BY <1>2, <1>4
  <2> QED  BY <1>2, <2>1, AboveOrders DEF PagingInv
<1>8. PagesDescend' /\ Given' = Given \cup Items(S)
  BY <1>1, <1>6, <1>7 DEF PagesDescend, Given
<1>9. NothingElseLost'
  <2> SUFFICES ASSUME NEW x \in start, x \notin Given, x \notin Items(S)
               PROVE  \/ c # NoRow /\ (x = c \/ Above(c, x))
                      \/ repo = "pg" /\ \E d \in followed \cup {cursor} : d.at = x.at
    BY <1>1, <1>8 DEF NothingElseLost
  <2>1. x \in rows
    BY DEF PagingInv
  <2>2. CASE x \in S
    BY <1>6, <2>2
  <2>3. CASE x \notin S
    BY <1>4, <2>1, <2>3 DEF PagingInv, NothingElseLost
  <2> QED  BY <2>2, <2>3
<1>10. c # NoRow => \A x \in Given' : Above(x, c)
  BY <1>6, <1>7, <1>8
<1>11. page' \subseteq rows /\ got' \subseteq rows /\ followed' \subseteq rows /\ c \in rows \cup {NoRow} /\ (c # NoRow => c \in rows)
  BY <1>1, <1>2, <1>4, <1>6 DEF PagingInv
<1> QED  BY <1>1, <1>8, <1>9, <1>10, <1>11 DEF PagingInv, Listing

LEMMA AssignStep == ASSUME PagingInv, Assign PROVE PagingInv'
<1>1. PICK id \in 1 .. MaxRows, at \in (clock - Skew) .. clock :
        (\A x \in rows : x.id # id) /\ rows' = rows \cup {[at |-> at, id |-> id]}
  BY DEF Assign
<1> DEFINE w == [at |-> at, id |-> id]
<1>2. w \in [at : Nat, id : Nat \ {0}] /\ w.id = id
  BY PagingAssumption DEF PagingInv
<1> HIDE DEF w
<1>3. rows' = rows \cup {w} /\ \A x \in rows : x.id # w.id
  BY <1>1, <1>2 DEF w
<1>4. Listing(rows)'
  <2>1. IsFiniteSet(rows')
    BY <1>3, FS_AddElement DEF PagingInv, Listing
  <2>2. rows' \subseteq [at : Nat, id : Nat \ {0}] /\ \A x, y \in rows' : x.id = y.id => x = y
    BY <1>2, <1>3 DEF PagingInv, Listing
  <2> QED  BY <2>1, <2>2 DEF Listing
<1>5. UNCHANGED <<repo, clock, reading, cursor, page, got, start, followed>> /\ rows \subseteq rows'
  BY <1>3 DEF Assign
<1> QED  BY <1>4, <1>5 DEF PagingInv, PagesDescend, NothingElseLost, Given

LEMMA PagingStep == PagingInv /\ [Next]_vars => PagingInv'
<1> SUFFICES ASSUME PagingInv, [Next]_vars PROVE PagingInv'
  OBVIOUS
<1>1. CASE Tick
  BY <1>1, PagingAssumption DEF Tick, PagingInv, Listing, PagesDescend, NothingElseLost, Given
<1>2. CASE UNCHANGED vars
  BY <1>2 DEF vars, PagingInv, Listing, PagesDescend, NothingElseLost, Given
<1> QED  BY <1>1, <1>2, AssignStep, FirstStep, FollowStep DEF Next

\* All of the invariant holds in every reachable state.
THEOREM PagingInductive == Spec => []PagingInv
  BY PagingInit, PagingStep, PTL DEF Spec

\* The listing and what a client has read of it have their types.
THEOREM PagingTypeCorrect == Spec => []TypeOK
<1>1. PagingInv => TypeOK
  BY DEF PagingInv, Listing, TypeOK, Row
<1> QED  BY <1>1, PagingInductive, PTL

\* GET .../tier/history: whatever is assigned between pages and whatever ties
\* there are, a page is older than all pages before it.
THEOREM PagesGoDown == Spec => []PagesDescend
  BY PagingInductive, PTL DEF PagingInv

\* What paging over PostgreSQL loses is as old as a cursor that was followed;
\* the repository of the tests loses nothing.
THEOREM LostAtSeams == Spec => []LossOnlyAtCursors
<1>1. PagingInv => LossOnlyAtCursors
  BY DEF PagingInv, NothingElseLost, LossOnlyAtCursors
<1> QED  BY <1>1, PagingInductive, PTL

-----------------------------------------------------------------------------
(* AuditChain                                                              *)

Entry == [at : Nat, prev : Nat]

\* Nobody else is inside the lock.
OneHolder == \A v, w \in Writers : Audit!Holds(v) /\ Audit!Holds(w) => v = w

\* OneRoot and LinearWhenOrdered of one entry.
Linked(i) ==
    /\ IF i = 1 THEN entries[i].prev = 0 ELSE entries[i].prev \in 1 .. (i - 1)
    /\ i > 1 /\ (\A j \in 1 .. (i - 2) : entries[j].at < entries[i - 1].at) => entries[i].prev = i - 1

AllLinked == \A i \in DOMAIN entries : Linked(i)

AuditInv == Audit!TypeOK /\ OneHolder /\ Audit!DecisionIsCurrent /\ AllLinked

USE DEF Audit!At, Audit!Set, Audit!Busy

LEMMA LinkedGives == AllLinked /\ entries \in Seq(Entry) => OneRoot /\ LinearWhenOrdered
<1> SUFFICES ASSUME AllLinked, entries \in Seq(Entry) PROVE OneRoot /\ LinearWhenOrdered
  OBVIOUS
<1>1. Len(entries) \in Nat /\ DOMAIN entries = 1 .. Len(entries)
  BY LenProperties
<1>2. OneRoot
  BY DEF AllLinked, Linked, OneRoot
<1>3. LinearWhenOrdered
  BY <1>1, SMTT(60) DEF AllLinked, Linked, LinearWhenOrdered
<1> QED  BY <1>2, <1>3

\* A decision that is current links the entry that is appended by it.
LEMMA AppendLinks ==
    ASSUME NEW e \in Entry, entries \in Seq(Entry), AllLinked, e.prev \in Audit!LastHash,
           entries' = Append(entries, e)
    PROVE  AllLinked'
<1> DEFINE n == Len(entries)
<1>1. /\ n \in Nat /\ DOMAIN entries = 1 .. n
      /\ entries' \in Seq(Entry) /\ Len(entries') = n + 1 /\ DOMAIN entries' = 1 .. (n + 1)
      /\ entries'[n + 1] = e
      /\ \A i \in 1 .. n : entries'[i] = entries[i] /\ entries[i] \in Entry
  BY AppendProperties, ElementOfSeq, LenProperties
<1>2. ASSUME NEW i \in 1 .. n  PROVE Linked(i)'
  <2>1. Linked(i) /\ \A j \in 1 .. i : entries'[j] = entries[j]
    BY <1>1 DEF AllLinked
  <2>2. entries'[i] = entries[i] /\ i \in Nat
    BY <2>1
  <2>3. ASSUME i > 1  PROVE /\ entries'[i - 1] = entries[i - 1]
                            /\ \A j \in 1 .. (i - 2) : entries'[j] = entries[j]
    BY <2>1, <2>3
  <2>4. CASE i = 1
    BY <2>1, <2>2, <2>4 DEF Linked
  <2>5. CASE i > 1
    BY <2>1, <2>2, <2>3, <2>5 DEF Linked
  <2> QED  BY <2>4, <2>5
<1>3. CASE n = 0
  <2>1. e.prev = 0
    BY <1>1, <1>3 DEF Audit!LastHash, Audit!Newest
  <2> QED  BY <1>1, <1>3, <2>1 DEF AllLinked, Linked
<1>4. CASE n > 0
  <2>1. entries # <<>>
    BY <1>1, <1>4
  <2>2. e.prev \in 1 .. n /\ \A j \in 1 .. n : entries[j].at <= entries[e.prev].at
    BY <1>1, <2>1 DEF Audit!LastHash, Audit!Newest
  <2>3. ASSUME \A j \in 1 .. (n - 1) : entries[j].at < entries[n].at  PROVE e.prev = n
    <3>1. entries[n].at <= entries[e.prev].at /\ entries[n].at \in Nat /\ entries[e.prev].at \in Nat
      BY <1>1, <1>4, <2>2 DEF Entry
    <3> QED  BY <1>1, <1>4, <2>2, <2>3, <3>1
  <2>4. ASSUME NEW k \in Nat, k = n + 1  PROVE Linked(k)'
    <3>1. k # 1 /\ k - 1 = n /\ k - 2 = n - 1 /\ k - 1 \in 1 .. n /\ entries'[k].prev = e.prev
      BY <1>1, <1>4, <2>4
    <3>2. ASSUME \A j \in 1 .. (k - 2) : entries'[j].at < entries'[k - 1].at  PROVE e.prev = n
      <4>1. entries'[k - 1] = entries[n] /\ \A j \in 1 .. (n - 1) : entries'[j] = entries[j]
        BY <1>1, <1>4, <3>1
      <4> QED  BY <2>3, <3>1, <3>2, <4>1
    <3> QED  BY <2>2, <3>1, <3>2 DEF Linked
  <2> QED  BY <1>1, <1>2, <2>4 DEF AllLinked
<1> QED  BY <1>1, <1>3, <1>4

\* The typing of AuditChain in the form the steps need.
LEMMA AuditTyped ==
    ASSUME Audit!TypeOK, NEW w \in Writers
    PROVE  /\ writer \in [Writers -> [stage : Audit!Stages, at : Nat, prev : Nat]]
           /\ writer[w].at \in Nat /\ writer[w].prev \in Nat /\ writer[w].at <= clock
           /\ Len(entries) \in Nat /\ clock \in Nat
  BY LenProperties DEF Audit!TypeOK

LEMMA AuditInit == Audit!Init => AuditInv
  BY DEF Audit!Init, AuditInv, Audit!TypeOK, OneHolder, Audit!Holds, Audit!DecisionIsCurrent, AllLinked, Audit!Idle, Audit!Stages

\* A step of w that changes neither the log nor the clock.
LEMMA WriterStep ==
    ASSUME AuditInv, NEW w \in Writers, NEW s \in Audit!Stages, NEW p \in Nat, NEW a \in Nat,
           writer' = [writer EXCEPT ![w] = [stage |-> s, at |-> a, prev |-> p]],
           a <= clock, p <= Len(entries),
           s \in {"read", "insert"} => \A v \in Writers \ {w} : ~Audit!Holds(v),
           s = "insert" => p \in Audit!LastHash,
           UNCHANGED <<entries, clock>>
    PROVE  AuditInv'
<1>1. Audit!TypeOK'
  BY DEF AuditInv, Audit!TypeOK
<1>2. /\ writer'[w].stage = s /\ writer'[w].prev = p
      /\ \A v \in Writers \ {w} : writer'[v] = writer[v]
  BY DEF AuditInv, Audit!TypeOK
<1>3. OneHolder'
  BY <1>2 DEF AuditInv, OneHolder, Audit!Holds
<1>4. Audit!LastHash' = Audit!LastHash
  BY DEF Audit!LastHash, Audit!Newest
<1>5. Audit!DecisionIsCurrent'
  BY <1>2, <1>4 DEF AuditInv, Audit!DecisionIsCurrent
<1>6. AllLinked'
  BY DEF AuditInv, AllLinked, Linked
<1> QED  BY <1>1, <1>3, <1>5, <1>6 DEF AuditInv

LEMMA AuditStep == AuditInv /\ [Audit!Next]_(Audit!vars) => AuditInv'
<1> SUFFICES ASSUME AuditInv, [Audit!Next]_(Audit!vars) PROVE AuditInv'  OBVIOUS
<1>0. Audit!TypeOK /\ OneHolder /\ Audit!DecisionIsCurrent /\ AllLinked
  BY DEF AuditInv
<1>1. CASE Audit!Tick
  <2>1. Audit!TypeOK'
    BY <1>0, <1>1 DEF Audit!Tick, Audit!TypeOK
  <2>2. Audit!LastHash' = Audit!LastHash
    BY <1>1 DEF Audit!Tick, Audit!LastHash, Audit!Newest
  <2> QED  BY <1>0, <1>1, <2>1, <2>2 DEF Audit!Tick, AuditInv, OneHolder, Audit!Holds, Audit!DecisionIsCurrent, AllLinked, Linked
<1>2. ASSUME NEW w \in Writers, Audit!Begin(w) PROVE AuditInv'
  <2>1. clock \in Nat /\ Len(entries) \in Nat
    BY <1>0, AuditTyped
  <2>2. 0 <= Len(entries) /\ clock <= clock /\ 0 \in Nat /\ "lock" \in Audit!Stages
    BY <2>1 DEF Audit!Stages
  <2>3. writer' = [writer EXCEPT ![w] = [stage |-> "lock", at |-> clock, prev |-> 0]]
    BY <1>2 DEF Audit!Begin
  <2> QED  BY <1>2, <2>1, <2>2, <2>3, WriterStep DEF Audit!Begin
<1>3. ASSUME NEW w \in Writers, Audit!Lock(w) PROVE AuditInv'
  <2>1. writer' = [writer EXCEPT ![w] = [stage |-> "read", at |-> writer[w].at, prev |-> 0]]
    BY <1>3 DEF Audit!Lock
  <2>2. Len(entries) \in Nat /\ writer[w].at <= clock /\ writer[w].at \in Nat
    BY <1>0, AuditTyped
  <2>3. 0 <= Len(entries) /\ 0 \in Nat /\ "read" \in Audit!Stages
    BY <2>2 DEF Audit!Stages
  <2> QED  BY <1>3, <2>1, <2>2, <2>3, WriterStep DEF Audit!Lock
<1>4. ASSUME NEW w \in Writers, Audit!ReadLast(w) PROVE AuditInv'
  <2>1. PICK last \in Audit!LastHash : writer' = [writer EXCEPT ![w] = [stage |-> "insert", at |-> writer[w].at, prev |-> last]]
    BY <1>4 DEF Audit!ReadLast
  <2>2. last \in Nat /\ last <= Len(entries)
    BY <1>0, <2>1, LenProperties DEF Audit!LastHash, Audit!Newest, Audit!TypeOK
  <2>3. \A v \in Writers \ {w} : ~Audit!Holds(v)
    BY <1>0, <1>4 DEF Audit!ReadLast, OneHolder, Audit!Holds
  <2> QED  BY <1>0, <1>4, <2>1, <2>2, <2>3, AuditTyped, WriterStep DEF Audit!ReadLast, Audit!Stages
<1>5. ASSUME NEW w \in Writers, Audit!Insert(w) PROVE AuditInv'
  <2> DEFINE e == [at |-> writer[w].at, prev |-> writer[w].prev]
  <2>1. e \in Entry /\ entries \in Seq(Entry)
    BY <1>0, AuditTyped DEF Entry, Audit!TypeOK
  <2>2. entries' = Append(entries, e) /\ clock' = clock /\ writer' = [writer EXCEPT ![w] = Audit!Idle]
    BY <1>5 DEF Audit!Insert
  <2>3. AllLinked'
    <3>1. e.prev \in Audit!LastHash
      BY <1>0, <1>5 DEF Audit!Insert, Audit!DecisionIsCurrent
    <3> HIDE DEF e
    <3> QED  BY <1>0, <2>1, <2>2, <3>1, AppendLinks
  <2>4. entries' \in Seq(Entry) /\ Len(entries') = Len(entries) + 1 /\ Len(entries) \in Nat
    BY <2>1, <2>2, AppendProperties, LenProperties
  <2>5. writer'[w] = Audit!Idle /\ \A v \in Writers \ {w} : writer'[v] = writer[v]
    BY <1>0, <2>2 DEF Audit!TypeOK
  <2>6. writer' \in [Writers -> [stage : Audit!Stages, at : Nat, prev : Nat]]
    BY <1>0, <2>2 DEF Audit!TypeOK, Audit!Idle, Audit!Stages
  <2>7. \A v \in Writers : writer'[v].at <= clock' /\ writer'[v].prev <= Len(entries')
    <3> TAKE v \in Writers
    <3>1. CASE v = w
      BY <1>0, <2>2, <2>4, <2>5, <3>1 DEF Audit!Idle, Audit!TypeOK
    <3>2. CASE v # w
      <4>1. writer'[v] = writer[v] /\ writer[v].prev \in Nat /\ writer[v].prev <= Len(entries) /\ writer[v].at <= clock
        BY <1>0, <2>5, <3>2 DEF Audit!TypeOK
      <4> QED  BY <2>2, <2>4, <4>1
    <3> QED  BY <3>1, <3>2
  <2>8. Audit!TypeOK'
    BY <1>0, <2>2, <2>4, <2>6, <2>7 DEF Audit!TypeOK, Entry
  <2>9. \A v \in Writers : ~Audit!Holds(v)'
    BY <1>0, <1>5, <2>5 DEF Audit!Insert, OneHolder, Audit!Holds, Audit!Idle
  <2>10. OneHolder' /\ Audit!DecisionIsCurrent'
    BY <2>9 DEF OneHolder, Audit!DecisionIsCurrent, Audit!Holds
  <2> QED  BY <2>3, <2>8, <2>10 DEF AuditInv
<1>6. ASSUME NEW w \in Writers, Audit!Abort(w) PROVE AuditInv'
  <2>1. clock \in Nat /\ Len(entries) \in Nat
    BY <1>0, AuditTyped
  <2>2. 0 <= Len(entries) /\ 0 <= clock /\ 0 \in Nat /\ "idle" \in Audit!Stages
    BY <2>1 DEF Audit!Stages
  <2>3. writer' = [writer EXCEPT ![w] = [stage |-> "idle", at |-> 0, prev |-> 0]]
    BY <1>6 DEF Audit!Abort, Audit!Idle
  <2> QED  BY <1>6, <2>1, <2>2, <2>3, WriterStep, ZenonT(60) DEF Audit!Abort
<1>7. CASE UNCHANGED Audit!vars
  <2>1. Audit!LastHash' = Audit!LastHash
    BY <1>7 DEF Audit!vars, Audit!LastHash, Audit!Newest
  <2> QED  BY <1>0, <1>7, <2>1 DEF Audit!vars, AuditInv, Audit!TypeOK, OneHolder, Audit!Holds, Audit!DecisionIsCurrent, AllLinked, Linked
<1> QED  BY <1>1, <1>2, <1>3, <1>4, <1>5, <1>6, <1>7 DEF Audit!Next, Audit!Continue

\* All of the invariant holds in every reachable state.
THEOREM AuditInductive == Audit!Spec => []AuditInv
  BY AuditInit, AuditStep, PTL DEF Audit!Spec

\* The state of the log and of the appends has its type.
THEOREM AuditTypeCorrect == Audit!Spec => []Audit!TypeOK
  BY AuditInductive, PTL DEF AuditInv

\* The entries form one tree rooted at the first, whatever overlaps.
THEOREM SingleRoot == Audit!Spec => []OneRoot
<1>1. AuditInv => OneRoot
  BY LinkedGives DEF AuditInv, Audit!TypeOK, Entry
<1> QED  BY <1>1, AuditInductive, PTL

\* Appends committed in the order in which they began form a chain.
THEOREM OrderedIsLinear == Audit!Spec => []LinearWhenOrdered
<1>1. AuditInv => LinearWhenOrdered
  BY LinkedGives DEF AuditInv, Audit!TypeOK, Entry
<1> QED  BY <1>1, AuditInductive, PTL

\* The lock makes the hash an append has read the last one when it inserts.
THEOREM LockProtects == Audit!Spec => []Audit!DecisionIsCurrent
  BY AuditInductive, PTL DEF AuditInv

-----------------------------------------------------------------------------
(* Idempotency                                                             *)

Run == [key : Keys, body : Bodies, prior : Nat, at : Nat]

\* The TTL has passed over the row of k at time t.
Over(k, t) == Idem!Stored(k) /\ t > row[k].at + Ttl

\* A row holds the answer of a run for its key and body, for Ttl ticks.
RowOK(k) ==
    Idem!Stored(k) => /\ row[k].run \in DOMAIN runs
                 /\ runs[row[k].run].key = k
                 /\ runs[row[k].run].body = row[k].body
                 /\ row[k].expires = row[k].at + Ttl

\* A request stores what its own run answered; one that asked after a stored
\* answer finds the row, and passes it only when it is over.
RequestOK(r) ==
    LET q == request[r] IN
    /\ q.stage = "store" => /\ q.run \in DOMAIN runs
                            /\ runs[q.run].key = q.key
                            /\ runs[q.run].body = q.body
    /\ q.stage # "idle" /\ q.prior # 0 => Idem!Stored(q.key)
    /\ q.stage \in {"handle", "store"} /\ q.prior # 0 => Over(q.key, clock)

RunOK(i) == runs[i].prior # 0 => Over(runs[i].key, runs[i].at)

AnswerOK(a) ==
    /\ a.run \in DOMAIN runs /\ runs[a.run].key = a.key /\ runs[a.run].body = a.body
    /\ a.prior # 0 => Idem!Stored(a.key) /\ (a.run = row[a.key].run \/ Over(a.key, a.at))

Facts ==
    /\ \A k \in Keys : RowOK(k)
    /\ \A r \in Requests : RequestOK(r)
    /\ \A i \in DOMAIN runs : RunOK(i)
    /\ \A a \in answers : AnswerOK(a)

AnswersInv == Idem!IdempotencyAssumption /\ Idem!TypeOK /\ Facts

\* What every step leaves as it is: stored rows, past runs, and time that has passed.
Grows ==
    /\ \A k \in Keys : Idem!Stored(k) => row'[k] = row[k]
    /\ clock <= clock'
    /\ \A i \in DOMAIN runs : i \in DOMAIN runs' /\ runs'[i] = runs[i]

USE DEF Idem!At, Idem!Set, Idem!Busy

\* What is known of the past stays known.
LEMMA Kept ==
    ASSUME AnswersInv, Idem!TypeOK', Grows
    PROVE  /\ \A k \in Keys : row'[k] = row[k] => RowOK(k)'
           /\ \A r \in Requests : request'[r] = request[r] => RequestOK(r)'
           /\ \A i \in DOMAIN runs : RunOK(i)'
           /\ \A a \in answers : AnswerOK(a)'
<1>0. Idem!TypeOK /\ Facts
  BY DEF AnswersInv
<1>1. /\ clock \in Nat /\ clock' \in Nat /\ clock <= clock' /\ Ttl \in Nat
      /\ \A k \in Keys : row[k].at \in Nat /\ row[k].run \in Nat
  BY <1>0 DEF AnswersInv, Idem!IdempotencyAssumption, Idem!TypeOK, Grows
<1>2. \A k \in Keys, t \in Nat : Over(k, t) => Over(k, t)'
  BY DEF Over, Idem!Stored, Grows
<1>3. \A k \in Keys : Idem!Stored(k) => Idem!Stored(k)' /\ row'[k] = row[k]
  BY DEF Idem!Stored, Grows
<1>4. ASSUME NEW k \in Keys, row'[k] = row[k]  PROVE RowOK(k)'
  BY <1>0, <1>4 DEF Facts, RowOK, Idem!Stored, Grows
<1>5. ASSUME NEW r \in Requests, request'[r] = request[r]  PROVE RequestOK(r)'
  <2> DEFINE q == request[r]
  <2>1. RequestOK(r) /\ (q.stage # "idle" => q.key \in Keys)
    BY <1>0 DEF Facts, Idem!TypeOK
  <2>2. q.stage = "store" => /\ q.run \in DOMAIN runs'
                             /\ runs'[q.run].key = q.key /\ runs'[q.run].body = q.body
    BY <2>1 DEF RequestOK, Grows
  <2>3. q.stage # "idle" /\ q.prior # 0 => row'[q.key] = row[q.key] /\ row'[q.key].run # 0
    BY <2>1, <1>3 DEF RequestOK, Idem!Stored
  <2>4. q.stage \in {"handle", "store"} /\ q.prior # 0 => row'[q.key].run # 0 /\ clock' > row'[q.key].at + Ttl
    <3> SUFFICES ASSUME q.stage \in {"handle", "store"}, q.prior # 0
                 PROVE  row'[q.key].run # 0 /\ clock' > row'[q.key].at + Ttl
      OBVIOUS
    <3>1. q.key \in Keys /\ row'[q.key] = row[q.key] /\ row'[q.key].run # 0 /\ clock > row[q.key].at + Ttl
      BY <2>1, <2>3 DEF RequestOK, Over
    <3> QED  BY <1>1, <3>1
  <2> QED  BY <1>5, <2>2, <2>3, <2>4 DEF RequestOK, Over, Idem!Stored
<1>6. ASSUME NEW i \in DOMAIN runs  PROVE RunOK(i)'
  <2>1. runs[i].key \in Keys /\ runs[i].at \in Nat /\ runs'[i] = runs[i] /\ RunOK(i)
    <3>1. runs[i] \in Run
      BY <1>0, <1>6, ElementOfSeq, LenProperties DEF Idem!TypeOK, Run
    <3> QED  BY <1>0, <1>6, <3>1 DEF Facts, Grows, Run
  <2> QED  BY <2>1, <1>3 DEF RunOK, Over, Idem!Stored
<1>7. ASSUME NEW a \in answers  PROVE AnswerOK(a)'
  <2>1. a.key \in Keys /\ a.at \in Nat /\ AnswerOK(a)
    BY <1>0 DEF Idem!TypeOK, Facts
  <2>2. a.run \in DOMAIN runs' /\ runs'[a.run] = runs[a.run]
    BY <2>1 DEF AnswerOK, Grows
  <2> QED  BY <2>1, <2>2, <1>3 DEF AnswerOK, Over, Idem!Stored
<1> QED  BY <1>4, <1>5, <1>6, <1>7

LEMMA AnswersInit == Idem!IdempotencyAssumption /\ Idem!Init => AnswersInv
  BY DEF Idem!IdempotencyAssumption, Idem!Init, AnswersInv, Idem!TypeOK, Facts, RowOK, RequestOK, RunOK, AnswerOK, Idem!Stored, Idem!Idle, Idem!NoRow, Idem!Stages

\* A step of r that only changes the request itself.
LEMMA RequestStep ==
    ASSUME AnswersInv, NEW r \in Requests, Idem!TypeOK', UNCHANGED <<clock, row, runs>>, answers' = answers,
           \A s \in Requests \ {r} : request'[s] = request[s], RequestOK(r)'
    PROVE  AnswersInv'
<1>1. Grows
  BY DEF AnswersInv, Idem!TypeOK, Grows
<1>2. \A k \in Keys : RowOK(k)'
  BY <1>1, Kept
<1>3. \A s \in Requests : RequestOK(s)'
  BY <1>1, Kept
<1>4. \A i \in DOMAIN runs' : RunOK(i)'
  BY <1>1, Kept
<1>5. \A a \in answers' : AnswerOK(a)'
  BY <1>1, Kept
<1> QED  BY <1>2, <1>3, <1>4, <1>5 DEF AnswersInv, Facts

\* A request that has ended.
LEMMA IdleOK == ASSUME NEW r \in Requests, request'[r] = Idem!Idle PROVE RequestOK(r)'
  BY DEF RequestOK, Idem!Idle

LEMMA AnswersStep == AnswersInv /\ [Idem!Next]_(Idem!vars) => AnswersInv'
<1> SUFFICES ASSUME AnswersInv, [Idem!Next]_(Idem!vars) PROVE AnswersInv'  OBVIOUS
<1>0. Idem!TypeOK /\ Facts
  BY DEF AnswersInv
<1>a. \A r \in Requests : request[r] \in [stage : Idem!Stages, key : Keys \cup {NoKey}, body : Bodies \cup {NoBody}, prior : Nat, run : Nat]
  BY <1>0 DEF Idem!TypeOK
<1>b. clock \in Nat /\ Ttl \in Nat /\ Len(runs) \in Nat /\ DOMAIN runs = 1 .. Len(runs)
  BY <1>0, LenProperties DEF AnswersInv, Idem!IdempotencyAssumption, Idem!TypeOK
<1>c. Idem!Idle \in [stage : Idem!Stages, key : Keys \cup {NoKey}, body : Bodies \cup {NoBody}, prior : Nat, run : Nat] /\ Idem!Idle.stage = "idle"
  BY DEF Idem!Idle, Idem!Stages
<1>1. CASE Idem!Tick
  <2>1. Idem!TypeOK' /\ Grows
    BY <1>0, <1>1, <1>b DEF Idem!Tick, Idem!TypeOK, Grows
  <2>2. Facts'
    BY <1>1, <2>1, Kept DEF Idem!Tick, Facts
  <2> QED  BY <2>1, <2>2 DEF AnswersInv
<1>2. ASSUME NEW r \in Requests, NEW k \in Keys, NEW b \in Bodies, Idem!Ask(r, k, b) PROVE AnswersInv'
  <2> DEFINE p == IF Idem!Live(k) THEN row[k].run ELSE 0
  <2>1. p \in Nat /\ (p # 0 => Idem!Stored(k))
    BY <1>0 DEF Idem!Live, Idem!TypeOK
  <2>2. request' = [request EXCEPT ![r] = [stage |-> "lookup", key |-> k, body |-> b, prior |-> p, run |-> 0]]
    BY <1>2 DEF Idem!Ask
  <2> HIDE DEF p
  <2>3. Idem!TypeOK'
    BY <1>0, <1>2, <2>1, <2>2 DEF Idem!Ask, Idem!TypeOK, Idem!Stages
  <2>4. request'[r].stage = "lookup" /\ request'[r].key = k /\ request'[r].prior = p
    BY <1>0, <2>2 DEF Idem!TypeOK
  <2>5. RequestOK(r)'
    BY <1>2, <2>1, <2>4 DEF Idem!Ask, RequestOK, Idem!Stored
  <2>6. \A s \in Requests \ {r} : request'[s] = request[s]
    BY <1>0, <2>2 DEF Idem!TypeOK
  <2> QED  BY <1>2, <2>3, <2>5, <2>6, RequestStep DEF Idem!Ask
<1>3. ASSUME NEW r \in Requests, Idem!Conflict(r) \/ Idem!Abort(r) PROVE AnswersInv'
  <2>1. request' = [request EXCEPT ![r] = Idem!Idle] /\ UNCHANGED <<clock, row, runs, answers>>
    BY <1>3 DEF Idem!Conflict, Idem!Abort
  <2>2. Idem!TypeOK' /\ request'[r] = Idem!Idle /\ \A s \in Requests \ {r} : request'[s] = request[s]
    BY <1>0, <1>c, <2>1 DEF Idem!TypeOK
  <2> QED  BY <2>1, <2>2, IdleOK, RequestStep
<1>4. ASSUME NEW r \in Requests, Idem!Miss(r) PROVE AnswersInv'
  <2> DEFINE q == request[r]
  <2>1. q.key \in Keys /\ q.body \in Bodies /\ q.prior \in Nat /\ q.stage = "lookup" /\ ~Idem!Live(q.key)
    BY <1>0, <1>4, <1>a DEF Idem!Miss, Idem!TypeOK
  <2>2. request' = [request EXCEPT ![r] = [stage |-> "handle", key |-> q.key, body |-> q.body, prior |-> q.prior, run |-> 0]]
    BY <1>4 DEF Idem!Miss
  <2>3. q.prior # 0 => Over(q.key, clock)
    <3>1. q.prior # 0 => Idem!Stored(q.key)
      BY <1>0, <2>1 DEF Facts, RequestOK
    <3>2. Idem!Stored(q.key) => row[q.key].expires = row[q.key].at + Ttl
      BY <1>0, <2>1 DEF Facts, RowOK
    <3>3. row[q.key].at \in Nat
      BY <1>0, <2>1 DEF Idem!TypeOK
    <3> QED  BY <1>b, <2>1, <3>1, <3>2, <3>3 DEF Idem!Live, Over
  <2>4. Idem!TypeOK'
    BY <1>0, <1>4, <2>1, <2>2 DEF Idem!Miss, Idem!TypeOK, Idem!Stages
  <2>5. request'[r].stage = "handle" /\ request'[r].key = q.key /\ request'[r].prior = q.prior
    BY <1>0, <2>2 DEF Idem!TypeOK
  <2>6. RequestOK(r)'
    BY <1>4, <2>3, <2>5 DEF Idem!Miss, RequestOK, Over, Idem!Stored
  <2>7. \A s \in Requests \ {r} : request'[s] = request[s]
    BY <1>0, <2>2 DEF Idem!TypeOK
  <2> QED  BY <1>4, <2>4, <2>6, <2>7, RequestStep DEF Idem!Miss
<1>5. ASSUME NEW r \in Requests, Idem!Replay(r) PROVE AnswersInv'
  <2> DEFINE q == request[r]
             new == Idem!Answer(q, row[q.key].run)
  <2>1. q.key \in Keys /\ q.body \in Bodies /\ q.prior \in Nat /\ row[q.key].run \in Nat
    BY <1>0, <1>5, <1>a DEF Idem!Replay, Idem!TypeOK
  <2>2. /\ request' = [request EXCEPT ![r] = Idem!Idle] /\ UNCHANGED <<clock, row, runs>>
        /\ answers' = answers \cup {new}
        /\ Idem!Stored(q.key) /\ row[q.key].body = q.body
    BY <1>5 DEF Idem!Replay, Idem!Live
  <2>3. new \in [key : Keys, body : Bodies, prior : Nat, run : Nat, at : Nat]
    BY <1>b, <2>1 DEF Idem!Answer
  <2>4. AnswerOK(new)
    <3>1. RowOK(q.key)
      BY <1>0, <2>1 DEF Facts
    <3> QED  BY <2>2, <3>1 DEF AnswerOK, RowOK, Idem!Answer
  <2> HIDE DEF new
  <2>5. Idem!TypeOK'
    BY <1>0, <1>c, <2>2, <2>3 DEF Idem!TypeOK
  <2>6. Grows
    BY <1>b, <2>2 DEF Grows
  <2>7. request'[r] = Idem!Idle /\ \A s \in Requests \ {r} : request'[s] = request[s]
    BY <1>0, <2>2 DEF Idem!TypeOK
  <2>8. \A s \in Requests : RequestOK(s)'
    BY <2>5, <2>6, <2>7, IdleOK, Kept
  <2>9. (\A k \in Keys : RowOK(k)') /\ (\A i \in DOMAIN runs' : RunOK(i)') /\ \A a \in answers : AnswerOK(a)'
    BY <2>2, <2>5, <2>6, Kept
  <2>10. ASSUME NEW a, a = new PROVE AnswerOK(a)'
    BY <2>2, <2>4, <2>10 DEF AnswerOK, Over, Idem!Stored
  <2>11. \A a \in answers' : AnswerOK(a)'
    BY <2>2, <2>9, <2>10
  <2> QED  BY <2>5, <2>8, <2>9, <2>11 DEF AnswersInv, Facts
<1>6. ASSUME NEW r \in Requests, Idem!Handle(r) PROVE AnswersInv'
  <2> DEFINE q == request[r]
             new == [key |-> q.key, body |-> q.body, prior |-> q.prior, at |-> clock]
             n == Len(runs) + 1
  <2>1. q.key \in Keys /\ q.body \in Bodies /\ q.prior \in Nat /\ q.stage = "handle"
    BY <1>0, <1>6, <1>a DEF Idem!Handle, Idem!TypeOK
  <2>2. /\ runs' = Append(runs, new) /\ UNCHANGED <<clock, row, answers>>
        /\ request' = [request EXCEPT ![r] = [stage |-> "store", key |-> q.key, body |-> q.body, prior |-> q.prior, run |-> n]]
    BY <1>6 DEF Idem!Handle
  <2>3. new \in Run /\ runs \in Seq(Run) /\ n \in Nat
    BY <1>0, <1>b, <2>1 DEF Idem!TypeOK, Run
  <2>4. q.prior # 0 => Over(q.key, clock)
    BY <1>0, <2>1 DEF Facts, RequestOK
  <2>5. new.key = q.key /\ new.body = q.body /\ new.prior = q.prior /\ new.at = clock
    OBVIOUS
  <2> HIDE DEF new
  <2>6. /\ runs' \in Seq(Run) /\ DOMAIN runs' = 1 .. n /\ runs'[n] = new
        /\ \A i \in DOMAIN runs : i \in DOMAIN runs' /\ runs'[i] = runs[i]
    BY <1>b, <2>2, <2>3, AppendProperties, LenProperties
  <2>7. Idem!TypeOK'
    <3>1. request' \in [Requests -> [stage : Idem!Stages, key : Keys \cup {NoKey}, body : Bodies \cup {NoBody}, prior : Nat, run : Nat]]
      BY <1>0, <2>1, <2>2, <2>3 DEF Idem!TypeOK, Idem!Stages
    <3>2. \A s \in Requests : /\ request'[s].stage # "idle" => request'[s].key \in Keys /\ request'[s].body \in Bodies
                              /\ request'[s].stage = "store" => request'[s].run \in DOMAIN runs'
      BY <1>0, <1>b, <2>1, <2>2, <2>3, <2>6 DEF Idem!TypeOK
    <3> QED  BY <1>0, <2>2, <2>6, <3>1, <3>2 DEF Idem!TypeOK, Run
  <2>8. Grows
    BY <1>b, <2>2, <2>6 DEF Grows
  <2>9. /\ request'[r].stage = "store" /\ request'[r].key = q.key /\ request'[r].body = q.body
        /\ request'[r].prior = q.prior /\ request'[r].run = n
        /\ \A s \in Requests \ {r} : request'[s] = request[s]
    BY <1>0, <2>2 DEF Idem!TypeOK
  <2>10. RequestOK(r)'
    BY <1>b, <2>2, <2>3, <2>4, <2>5, <2>6, <2>9 DEF RequestOK, Over, Idem!Stored
  <2>11. /\ \A k \in Keys : RowOK(k)'
         /\ \A s \in Requests : RequestOK(s)'
         /\ \A i \in DOMAIN runs : RunOK(i)'
         /\ \A a \in answers' : AnswerOK(a)'
    BY <2>2, <2>7, <2>8, <2>9, <2>10, Kept
  <2>12. ASSUME NEW i, i = n PROVE RunOK(i)'
    BY <2>2, <2>4, <2>5, <2>6, <2>12 DEF RunOK, Over, Idem!Stored
  <2>13. \A i \in DOMAIN runs' : RunOK(i)'
    BY <1>b, <2>6, <2>11, <2>12
  <2> QED  BY <2>7, <2>11, <2>13 DEF AnswersInv, Facts
<1>7. ASSUME NEW r \in Requests, Idem!Store(r) PROVE AnswersInv'
  <2> DEFINE q == request[r]
             new == Idem!Answer(q, q.run)
             made == Idem!NewRow(q)
  <2>1. q.key \in Keys /\ q.body \in Bodies /\ q.prior \in Nat /\ q.stage = "store" /\ q.run \in Nat
    BY <1>0, <1>7, <1>a DEF Idem!Store, Idem!TypeOK
  <2>2. /\ request' = [request EXCEPT ![r] = Idem!Idle] /\ UNCHANGED <<clock, runs>>
        /\ answers' = answers \cup {new}
        /\ row' = IF Idem!Stored(q.key) THEN row ELSE [row EXCEPT ![q.key] = made]
    BY <1>7 DEF Idem!Store
  <2>3. /\ q.run \in DOMAIN runs /\ runs[q.run].key = q.key /\ runs[q.run].body = q.body
        /\ q.prior # 0 => Over(q.key, clock)
    BY <1>0, <2>1 DEF Facts, RequestOK
  <2>4. /\ new \in [key : Keys, body : Bodies, prior : Nat, run : Nat, at : Nat]
        /\ new.key = q.key /\ new.body = q.body /\ new.prior = q.prior /\ new.run = q.run /\ new.at = clock
    BY <1>b, <2>1 DEF Idem!Answer
  <2>5. /\ made \in [body : Bodies \cup {NoBody}, run : Nat, at : Nat, expires : Nat]
        /\ made.body = q.body /\ made.run = q.run /\ made.at = clock /\ made.expires = clock + Ttl
    BY <1>b, <2>1 DEF Idem!NewRow
  <2> HIDE DEF new, made
  <2>6. /\ row' \in [Keys -> [body : Bodies \cup {NoBody}, run : Nat, at : Nat, expires : Nat]]
        /\ \A k \in Keys : row'[k] = row[k] \/ (k = q.key /\ row'[k] = made /\ ~Idem!Stored(k))
    <3>1. CASE Idem!Stored(q.key)
      BY <1>0, <2>2, <3>1 DEF Idem!TypeOK
    <3>2. CASE ~Idem!Stored(q.key)
      BY <1>0, <2>1, <2>2, <2>5, <3>2 DEF Idem!TypeOK
    <3> QED  BY <3>1, <3>2
  <2>7. Idem!TypeOK'
    BY <1>0, <1>c, <2>2, <2>4, <2>6 DEF Idem!TypeOK
  <2>8. Grows
    BY <1>b, <2>2, <2>6 DEF Grows
  <2>9. request'[r] = Idem!Idle /\ \A s \in Requests \ {r} : request'[s] = request[s]
    BY <1>0, <2>2 DEF Idem!TypeOK
  <2>10. \A s \in Requests : RequestOK(s)'
    BY <2>7, <2>8, <2>9, IdleOK, Kept
  <2>11. \A k \in Keys : RowOK(k)'
    <3> TAKE k \in Keys
    <3>1. CASE row'[k] = row[k]
      BY <2>7, <2>8, <3>1, Kept
    <3>2. CASE k = q.key /\ row'[k] = made
      BY <2>2, <2>3, <2>5, <3>2 DEF RowOK, Idem!Stored
    <3> QED  BY <2>6, <3>1, <3>2
  <2>12. (\A i \in DOMAIN runs' : RunOK(i)') /\ \A a \in answers : AnswerOK(a)'
    BY <2>2, <2>7, <2>8, Kept
  <2>13. ASSUME NEW a, a = new PROVE AnswerOK(a)'
    <3>1. q.prior # 0 => Idem!Stored(q.key) /\ row'[q.key] = row[q.key] /\ clock > row[q.key].at + Ttl
      BY <2>1, <2>3, <2>8 DEF Over, Grows
    <3> QED  BY <2>2, <2>3, <2>4, <2>13, <3>1 DEF AnswerOK, Over, Idem!Stored
  <2>14. \A a \in answers' : AnswerOK(a)'
    BY <2>2, <2>12, <2>13
  <2> QED  BY <2>7, <2>10, <2>11, <2>12, <2>14 DEF AnswersInv, Facts
<1>8. CASE UNCHANGED Idem!vars
  BY <1>0, <1>8 DEF Idem!vars, AnswersInv, Idem!TypeOK, Facts, RowOK, RequestOK, RunOK, AnswerOK, Over, Idem!Stored
<1> QED  BY <1>1, <1>2, <1>3, <1>4, <1>5, <1>6, <1>7, <1>8 DEF Idem!Next

\* All of the invariant holds in every reachable state.
THEOREM AnswersInductive == ASSUME Idem!IdempotencyAssumption PROVE Idem!Spec => []AnswersInv
<1>1. Idem!Init => AnswersInv
  BY AnswersInit
<1> QED  BY <1>1, AnswersStep, PTL DEF Idem!Spec

\* The rows, requests and histories have their types.
THEOREM AnswersTypeCorrect == ASSUME Idem!IdempotencyAssumption PROVE Idem!Spec => []Idem!TypeOK
<1>1. Idem!Spec => []AnswersInv
  BY AnswersInductive
<1> QED  BY <1>1, PTL DEF AnswersInv

\* Nobody is answered for another key or another body.
THEOREM RightAnswer == ASSUME Idem!IdempotencyAssumption PROVE Idem!Spec => []AnswerIsToTheQuestion
<1>1. AnswersInv => AnswerIsToTheQuestion
  BY DEF AnswersInv, Facts, AnswerOK, AnswerIsToTheQuestion
<1>2. Idem!Spec => []AnswersInv
  BY AnswersInductive
<1> QED  BY <1>1, <1>2, PTL

\* Who asks after a stored answer gets it, until the TTL has passed.
THEOREM LateAskers == ASSUME Idem!IdempotencyAssumption PROVE Idem!Spec => []LateAskersReplay
<1>1. AnswersInv => LateAskersReplay
  BY DEF AnswersInv, Facts, AnswerOK, Over, LateAskersReplay
<1>2. Idem!Spec => []AnswersInv
  BY AnswersInductive
<1> QED  BY <1>1, <1>2, PTL

\* A stored answer keeps the handler from running until the TTL has passed.
THEOREM NoSecondRun == ASSUME Idem!IdempotencyAssumption PROVE Idem!Spec => []Idem!StoredNeverRunsAgain
<1>1. AnswersInv => Idem!StoredNeverRunsAgain
  BY DEF AnswersInv, Facts, RunOK, Over, Idem!StoredNeverRunsAgain
<1>2. Idem!Spec => []AnswersInv
  BY AnswersInductive
<1> QED  BY <1>1, <1>2, PTL
=============================================================================
