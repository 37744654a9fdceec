----------------------------- MODULE AuditChain -----------------------------
(***************************************************************************)
(* The hash-chained audit log of services/auditLogger.ts.  An append is a  *)
(* transaction: BEGIN, the advisory lock, the SELECT of the last hash, the *)
(* INSERT and COMMIT.  A row's created_at is the NOW() of its transaction, *)
(* which is the time of BEGIN, and not of the INSERT.                      *)
(*                                                                         *)
(* A hash is named by the place of its entry in `entries`, in the order of *)
(* commit; 0 is no hash.  SHA-256 over a fresh id is taken as injective.   *)
(***************************************************************************)
EXTENDS AuditPromises

CONSTANTS Writers,      \* appends that can be in flight together
          MaxEntries,   \* bound on the entries of the log
          MaxClock      \* bound on the database clock

ASSUME AuditAssumption == MaxEntries \in Nat \ {0} /\ MaxClock \in Nat \ {0}

VARIABLES clock,        \* the database clock, in units in which two BEGINs may tie
          writer        \* the appends in flight

vars == <<entries, clock, writer>>

Stages == {"idle", "lock", "read", "insert"}

Busy(stage, at, prev) == [stage |-> stage, at |-> at, prev |-> prev]

Idle == Busy("idle", 0, 0)

TypeOK ==
    /\ entries \in Seq([at : Nat, prev : Nat])
    /\ clock \in Nat
    /\ writer \in [Writers -> [stage : Stages, at : Nat, prev : Nat]]
    /\ \A w \in Writers : writer[w].at <= clock /\ writer[w].prev <= Len(entries)

Init == entries = <<>> /\ clock = 1 /\ writer = [w \in Writers |-> Idle]

At(w, s)  == writer[w].stage = s
Set(w, q) == writer' = [writer EXCEPT ![w] = q]

\* Mutant: the oldest row.
Oldest == {i \in DOMAIN entries : \A j \in DOMAIN entries : entries[i].at <= entries[j].at}

\* The rows ORDER BY created_at DESC LIMIT 1 may return; any, when they tie.
Newest == {i \in DOMAIN entries : \A j \in DOMAIN entries : entries[j].at <= entries[i].at}

LastHash == IF entries = <<>> THEN {0} ELSE Newest

Tick == clock < MaxClock /\ clock' = clock + 1 /\ UNCHANGED <<entries, writer>>

\* db.transaction: BEGIN fixes NOW().
Begin(w) ==
    /\ At(w, "idle")
    /\ Len(entries) < MaxEntries
    /\ Set(w, Busy("lock", clock, 0))
    /\ UNCHANGED <<entries, clock>>

\* The advisory lock is held until COMMIT or ROLLBACK.
Holds(w) == writer[w].stage \in {"read", "insert"}

\* Mutant: no lock.
Pass(w) == At(w, "lock") /\ Set(w, Busy("read", writer[w].at, 0)) /\ UNCHANGED <<entries, clock>>

\* SELECT pg_advisory_xact_lock.
Lock(w) ==
    /\ At(w, "lock")
    /\ \A v \in Writers : ~Holds(v)
    /\ Set(w, Busy("read", writer[w].at, 0))
    /\ UNCHANGED <<entries, clock>>

\* SELECT entry_hash.
ReadLast(w) ==
    /\ At(w, "read")
    /\ \E last \in LastHash : Set(w, Busy("insert", writer[w].at, last))
    /\ UNCHANGED <<entries, clock>>

\* Mutant: the transaction is never ended.
InsertOnly(w) ==
    /\ At(w, "insert")
    /\ Len(entries) < MaxEntries
    /\ entries' = Append(entries, [at |-> writer[w].at, prev |-> writer[w].prev])
    /\ UNCHANGED <<clock, writer>>

\* INSERT and COMMIT.
Insert(w) ==
    /\ At(w, "insert")
    /\ entries' = Append(entries, [at |-> writer[w].at, prev |-> writer[w].prev])
    /\ Set(w, Idle)
    /\ UNCHANGED clock

\* The process dies or a statement throws: ROLLBACK, the caller answers 500.
Abort(w) == ~At(w, "idle") /\ Set(w, Idle) /\ UNCHANGED <<entries, clock>>

Continue(w) == Lock(w) \/ ReadLast(w) \/ Insert(w)

Next == Tick \/ \E w \in Writers : Begin(w) \/ Continue(w) \/ Abort(w)

Spec == Init /\ [][Next]_vars

\* A statement comes back or its transaction aborts, and the lock queue is
\* first come, first served.
FairSpec == Spec /\ \A w \in Writers : SF_vars(Continue(w))

-----------------------------------------------------------------------------
(* Properties of the writers; those of the log are in AuditPromises.       *)

\* Who holds the lock decides by the log as it is when it inserts.
DecisionIsCurrent == \A w \in Writers : At(w, "insert") => writer[w].prev \in LastHash

\* No append waits for the lock forever, also when those before it abort.
AppendsComplete == \A w \in Writers : At(w, "lock") ~> At(w, "idle")
=============================================================================
