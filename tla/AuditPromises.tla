--------------------------- MODULE AuditPromises ---------------------------
(***************************************************************************)
(* What readers of the audit log, of services/auditLogger.ts, may rely on  *)
(* however AuditChain writes it: statements about the rows alone.          *)
(***************************************************************************)
EXTENDS Naturals, Sequences

VARIABLE entries   \* audit_log in commit order: created_at and previous_hash; see AuditChain

-----------------------------------------------------------------------------
\* However appends overlap, the log has one root and every other entry hashes
\* over an entry committed before it: following previous_hash always ends at
\* the first entry.
OneRoot == \A i \in DOMAIN entries : IF i = 1 THEN entries[i].prev = 0 ELSE entries[i].prev \in 1 .. (i - 1)

\* The chain forks only where BEGINs and COMMITs disagree: an entry that began
\* strictly after all those committed before it is what the next one links to.
\* In particular appends that do not overlap form one chain.
LinearWhenOrdered ==
    \A i \in 2 .. Len(entries) :
        (\A j \in 1 .. (i - 2) : entries[j].at < entries[i - 1].at) => entries[i].prev = i - 1
=============================================================================
