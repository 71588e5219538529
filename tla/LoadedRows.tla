----------------------------- MODULE LoadedRows -----------------------------
(***************************************************************************)
(* What a commit of the application's database sessions does to a row that *)
(* was loaded earlier: SQLAlchemy writes the columns whose value differs   *)
(* from the loaded one, no row has a version, and no statement asks for    *)
(* the value it replaces (create_session_maker of app/db/session.py).      *)
(* A commit merges with what was committed since, column by column.        *)
(***************************************************************************)

\* row is what the database holds, seen what the session loaded, wanted what the
\* request made of it.
Merged(row, seen, wanted) ==
  [c \in DOMAIN row |-> IF wanted[c] = seen[c] THEN row[c] ELSE wanted[c]]
=============================================================================
