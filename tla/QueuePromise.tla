---------------------------- MODULE QueuePromise ----------------------------
(***************************************************************************)
(* What the download queue promises its users, whatever the process, the   *)
(* handlers and Ollama do: each row of the table goes through its          *)
(* lifecycle one legal change at a time, one download runs at a time, the  *)
(* queue is served in the order it was joined, an interrupted download     *)
(* keeps its place, and a model is never in the queue twice.  The promise  *)
(* is void from the first stale write on (variable broken).                *)
(***************************************************************************)
EXTENDS Naturals

CONSTANTS Ids, Models, NoModel

VARIABLES row,    \* id -> status, model and place in the queue
          broken  \* a stale write has happened

Gone     == [status |-> "none", model |-> NoModel, at |-> 0]
Waiting  == {id \in Ids : row[id].status = "queued"}
Running  == {id \in Ids : row[id].status = "downloading"}
Settled  == {id \in Ids : row[id].status \in {"completed", "failed", "cancelled"}}

\* Nothing but row id is active for model m.
OnlyOf(id, m) == \A i \in (Waiting \cup Running) \ {id} : row[i].model # m

\* at is behind everything that waits or runs.
AtTheBack(at) == \A i \in Waiting \cup Running : row[i].at < at

Init == row = [id \in Ids |-> Gone] /\ broken \in BOOLEAN

Submit(id) ==
    /\ row[id] = Gone
    /\ row' = [row EXCEPT ![id] = row'[id]]
    /\ row'[id].status = "queued"
    /\ OnlyOf(id, row'[id].model) /\ AtTheBack(row'[id].at)

Start(id) ==
    /\ id \in Waiting
    /\ Running = {}
    /\ \A i \in Waiting : row[id].at <= row[i].at
    /\ row' = [row EXCEPT ![id].status = "downloading"]

\* The running download settles, or is put back where it was.
Settle(id) ==
    /\ id \in Running
    /\ \E s \in {"completed", "failed", "cancelled", "queued"} :
          row' = [row EXCEPT ![id].status = s]

Withdraw(id) == id \in Waiting /\ row' = [row EXCEPT ![id].status = "cancelled"]

\* A failed or cancelled download may be given another model, and joins again.
Correct(id) ==
    /\ row[id].status \in {"failed", "cancelled"}
    /\ row' = [row EXCEPT ![id].model = row'[id].model]

Rejoin(id) ==
    /\ row[id].status \in {"failed", "cancelled"}
    /\ \E at \in {row'[id].at} :
          AtTheBack(at) /\ row' = [row EXCEPT ![id].status = "queued", ![id].at = at]
    /\ OnlyOf(id, row[id].model)

Forget(S) == row' = [id \in Ids |-> IF id \in S THEN Gone ELSE row[id]]

Next ==
    \/ /\ broken' = broken
       /\ \/ \E id \in Ids : \/ Submit(id) \/ Start(id) \/ Settle(id) \/ Withdraw(id)
                             \/ Correct(id) \/ Rejoin(id)
          \/ \E S \in SUBSET Settled : Forget(S)
    \/ broken'   \* nothing is promised any more

Spec == Init /\ [][Next]_<<row, broken>>
=============================================================================
