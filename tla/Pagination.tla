----------------------------- MODULE Pagination -----------------------------
(***************************************************************************)
(* The pages of list_executions (src/src/api/executions.py) and            *)
(* list_workflows (src/src/api/workflows.py), which are one query on two   *)
(* tables.  A row is its created_at and its id; both are compared by       *)
(* PostgreSQL, and both columns never change.  The filters compare columns *)
(* that never change for a committed execution: they make the table        *)
(* smaller and nothing else.                                               *)
(***************************************************************************)
EXTENDS Integers, SequencesExt

\* ORDER BY created_at ASC, id ASC
Precedes(x, y) ==
  x.created < y.created \/ (x.created = y.created /\ x.id < y.id)

\* A cursor is what encode_cursor makes of the last row: its created_at in ISO
\* format, which has all digits of the column, and its id.  decode_cursor gives
\* both back.  None asks for the first page.
NoCursor == [created |-> 0, id |-> 0, first |-> TRUE]

encode_cursor(row) == [created |-> row.created, id |-> row.id, first |-> FALSE]

\* Mistake: rows with the cursor's created_at are left out.
Following_strictly(rows, cursor) ==
  IF cursor.first THEN rows
  ELSE {x \in rows : x.created > cursor.created}

\* Mistake: the id is not compared.
Following_or_equal(rows, cursor) ==
  IF cursor.first THEN rows
  ELSE {x \in rows : x.created >= cursor.created}

\* The WHERE clause for a cursor.
Following(rows, cursor) ==
  IF cursor.first THEN rows
  ELSE {x \in rows : /\ x.created >= cursor.created
                     /\ ~(x.created = cursor.created /\ x.id <= cursor.id)}

\* The place of a row in the order, and the rows by their places.
Place(x, rows) == 1 + Cardinality({y \in rows : Precedes(y, x)})

Sorted(rows) ==
  [i \in 1..Cardinality(rows) |-> CHOOSE x \in rows : Place(x, rows) = i]

\* LIMIT limit + 1: one row more than the page, to see whether there are more.
Fetched(rows, cursor, limit) ==
  LET sorted == Sorted(Following(rows, cursor))
  IN  SubSeq(sorted, 1, IF Len(sorted) > limit THEN limit + 1 ELSE Len(sorted))

has_more(fetched, limit) == Len(fetched) > limit

PageOf(fetched, limit) ==
  IF has_more(fetched, limit) THEN SubSeq(fetched, 1, limit) ELSE fetched

next_cursor(fetched, limit) ==
  IF has_more(fetched, limit) THEN encode_cursor(fetched[limit]) ELSE NoCursor
=============================================================================
