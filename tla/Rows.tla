-------------------------------- MODULE Rows --------------------------------
(***************************************************************************)
(* What a database session writes.  sessionmaker(autoflush=False,          *)
(* expire_on_commit=False): a session keeps the rows it has loaded, never  *)
(* refreshes them, and a flush emits for each changed row an UPDATE of the *)
(* attributes that differ from their loaded values.                        *)
(***************************************************************************)

\* A session that wrote whole rows, for comparison.
FlushWholeRow(row, loaded, now) == now

\* The table's row after the session that had loaded one row and changed it
\* to now is flushed: its changed attributes, the others as the table has them.
Flush(row, loaded, now) ==
    [f \in DOMAIN row |-> IF now[f] # loaded[f] THEN now[f] ELSE row[f]]
=============================================================================
