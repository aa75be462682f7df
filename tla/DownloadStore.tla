--------------------------- MODULE DownloadStore ---------------------------
(***************************************************************************)
(* The downloads table (internal/store/downloads.go).  The table is a      *)
(* function from row ids to rows; every statement the store runs on it is  *)
(* an operator from a table to a table, so that a caller's step is the     *)
(* statement it issues.  SQLite runs one statement at a time               *)
(* (SetMaxOpenConns(1)), so a statement is one atomic step, and a method   *)
(* that issues two of them is two steps.                                   *)
(*                                                                         *)
(* Left out of a row: byte counts, requested_by, error text and the times  *)
(* other than queued_at, which orders the queue.                           *)
(*                                                                         *)
(* An operator named ...Bug, here and in the other modules, is the         *)
(* definition after it with a plausible mistake in it.  No specification   *)
(* uses it; put in its place it makes TLC find a property violated, which  *)
(* is how we know that the property watches that code.                     *)
(***************************************************************************)
EXTENDS Naturals

CONSTANTS MaxId,    \* bound: row ids are 1..MaxId
          Models,   \* model names, up to letter case (COLLATE NOCASE)
          NoModel   \* the name of no model

ASSUME StoreAssumption == /\ MaxId \in Nat
                          /\ NoModel \notin Models

Ids == 1..MaxId

Active    == {"queued", "downloading"}
Retryable == {"failed", "cancelled"}
Finished  == Retryable \cup {"completed"}

\* A row; attempts is kept only as "has it been started yet".
Row == [status : Active \cup Finished, model : Models, at : Nat, tried : BOOLEAN]

NoRow == [status |-> "none", model |-> NoModel, at |-> 0, tried |-> FALSE]

Present(rows, id) == rows[id] # NoRow

IsQueued(rows, id) == rows[id].status = "queued"

\* (Bug: an upsert, which brings a deleted row back.)
UpdateBug(rows, id, row) == [rows EXCEPT ![id] = row]

\* UPDATE downloads SET ... WHERE id = ?: a row that is gone stays gone.
Update(rows, id, row) ==
    IF Present(rows, id) THEN [rows EXCEPT ![id] = row] ELSE rows

\* (Bug: only looks at what waits.)
ActiveOfBug(rows, m) == {id \in Ids : IsQueued(rows, id) /\ rows[id].model = m}

\* The rows ActiveDownloads returns for a model.
ActiveOf(rows, m) == {id \in Ids : rows[id].status \in Active /\ rows[id].model = m}

\* INTEGER PRIMARY KEY without AUTOINCREMENT: one more than the largest id in
\* the table, so the id of a deleted last row is given out again.
IsNewId(rows, id) == /\ \A i \in Ids : i >= id => ~Present(rows, i)
                     /\ id > 1 => Present(rows, id - 1)

\* The insert of EnqueueDownload's transaction.
EnqueueDownload(rows, id, m, now) ==
    [rows EXCEPT ![id] = [status |-> "queued", model |-> m, at |-> now, tried |-> FALSE]]

\* ORDER BY queued_at, id LIMIT 1
IsNextQueued(rows, id) ==
    /\ IsQueued(rows, id)
    /\ \A i \in Ids : IsQueued(rows, i) =>
          \/ rows[id].at < rows[i].at
          \/ rows[id].at = rows[i].at /\ id <= i

StartDownload(rows, id) ==
    Update(rows, id, [status |-> "downloading", model |-> rows[id].model,
                      at |-> rows[id].at, tried |-> TRUE])

FinishDownload(rows, id, status) == Update(rows, id, [rows[id] EXCEPT !.status = status])

\* keepPosition: an interrupted download keeps its queued_at.
RequeueKeepingPlace(rows, id) == Update(rows, id, [rows[id] EXCEPT !.status = "queued"])

\* (Bug: a retry keeps its place.)
RequeueAtBackBug(rows, id, now) ==
    Update(rows, id, [rows[id] EXCEPT !.status = "queued"])

\* ~keepPosition: a retry goes to the back.
RequeueAtBack(rows, id, now) ==
    Update(rows, id, [status |-> "queued", model |-> rows[id].model,
                      at |-> now, tried |-> rows[id].tried])

SetDownloadModel(rows, id, m) ==
    IF rows[id].status \in Finished THEN [rows EXCEPT ![id].model = m] ELSE rows

\* (Bug: nothing is swept at boot.)
RequeueInterruptedBug(rows) == rows

\* Rows left "downloading" by an unclean shutdown go back to their place.  It is
\* a query and an update of each row it found, but while no worker runs nothing
\* else writes to such a row, so it is one step here.
RequeueInterrupted(rows) ==
    [id \in Ids |-> IF rows[id].status = "downloading"
                    THEN [rows[id] EXCEPT !.status = "queued"]
                    ELSE rows[id]]

\* (Bug: deletes a download that is waiting or running.)
DeleteDownloadsBug(rows, S) == [id \in Ids |-> IF id \in S THEN NoRow ELSE rows[id]]

\* DeleteDownload of each id in S, which ClearFinishedDownloads does for all.
DeleteDownloads(rows, S) ==
    [id \in Ids |-> IF id \in S /\ rows[id].status \in Finished THEN NoRow ELSE rows[id]]
=============================================================================
