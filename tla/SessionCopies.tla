---------------------------- MODULE SessionCopies ----------------------------
(***************************************************************************)
(* The engines of the research side take rows that their caller has loaded *)
(* in its session.  copies[s][r] is what session s holds of row r, NoCopy  *)
(* when it holds nothing.  A method checks and changes the copy; its       *)
(* commit flushes what it changed.                                         *)
(***************************************************************************)
EXTENDS Rows

CONSTANTS Sessions, NoCopy

NoCopies(R) == [s \in Sessions |-> [r \in R |-> NoCopy]]

Holds(copies, s, r) == copies[s][r] # NoCopy

\* Session s reads row r from the table, or has just written it.
Keep(copies, s, r, row) == [copies EXCEPT ![s][r] = row]

\* Table rows after session s has changed its copy of r to now and committed.
Write(rows, copies, s, r, now) ==
    [rows EXCEPT ![r] = Flush(@, copies[s][r], now)]

\* A failed commit is rolled back, or the session is closed: either way the
\* session holds nothing any more.
Forget(copies, s) == [copies EXCEPT ![s] = [r \in DOMAIN @ |-> NoCopy]]

\* A step changed the copy that some session held of r, which was not what
\* the table had.
ByStaleCopy(copies, nextCopies, rows, r) ==
    \E s \in Sessions : /\ copies[s][r] \notin {NoCopy, rows[r]}
                        /\ nextCopies[s][r] \notin {NoCopy, copies[s][r]}
=============================================================================
