----------------------------- MODULE ApiPollers -----------------------------
(***************************************************************************)
(* The machines the hub polls over an API (hub/main.go): one row of        *)
(* api_machines, the goroutine that polls it, the machine row its results  *)
(* are stored in, and the requests that create, change, poll and delete    *)
(* it.  A request is a sequence of steps, and cancelling a poller does not *)
(* stop the poll it is in the middle of.                                   *)
(***************************************************************************)
EXTENDS Integers, FiniteSets

CONSTANTS
  Pollers,      \* goroutines, 1..n, each started once
  Settings,     \* what the row says: adapter, address, credentials, interval
  Requests,     \* requests in flight at once
  PollerBudgets \* sums of edits, deletions, forced polls, restarts, polls, errors

VARIABLES
  api,          \* the row: settings, or NoRow
  machine,      \* the row "api-<id>" of machines: "none", "online", "error"
  entry,        \* apiPollers[id], 0 when none
  poller,       \* [Pollers -> [pc, settings, cancelled]]
  request,      \* [Requests -> [pc, settings]]
  overlapped,   \* since the start, has an edit met an edit or a deletion?
  pollerBudget

pollerVars == <<api, machine, entry, poller, request, overlapped, pollerBudget>>

NoRow == "absent"
Unstarted == [pc |-> "new", settings |-> NoRow, cancelled |-> FALSE]
NoRequest == [pc |-> "idle", settings |-> NoRow]

Running == {p \in Pollers : poller[p].pc \in {"waiting", "polling"}}

\* The pollers that go on after the poll they are in.
Loose == {p \in Running : ~poller[p].cancelled}

\* The requests that are to start a poller, and those that are to stop it.
Editing == {q \in Requests : request[q].pc \in {"update", "restart"}}
Deleting == {q \in Requests : request[q].pc \in {"stop", "delete_row", "delete_machine"}}

Paid(k) ==
  pollerBudget[k] > 0 /\ pollerBudget' = [pollerBudget EXCEPT ![k] = @ - 1]

Init ==
  /\ api = NoRow /\ machine = "none" /\ entry = 0
  /\ poller = [p \in Pollers |-> Unstarted]
  /\ request = [q \in Requests |-> NoRequest] /\ overlapped = FALSE
  /\ pollerBudget \in PollerBudgets

\* The next goroutine to start, 0 when all have been.
NextPoller ==
  LET new == {p \in Pollers : poller[p].pc = "new"}
  IN IF new = {} THEN 0 ELSE CHOOSE p \in new : \A q \in new : p <= q

\* startAPIPoller and stopAPIPoller cancel the poller the entry names.
Cancel_Forgotten(ps) == ps
Cancel(ps) == IF entry = 0 THEN ps ELSE [ps EXCEPT ![entry].cancelled = TRUE]

StartPoller(s) ==
  /\ NextPoller # 0
  /\ poller' = [Cancel(poller) EXCEPT ![NextPoller] =
                  [pc |-> "waiting", settings |-> s, cancelled |-> FALSE]]
  /\ entry' = NextPoller

Become(q, pc, s) == request' = [request EXCEPT ![q] = [pc |-> pc, settings |-> s]]

-----------------------------------------------------------------------------
(***************************************************************************)
(* Requests.                                                               *)
(***************************************************************************)

\* handleCreateAPIMachine: an id that nothing is known of yet, and once the
\* row is there the list shows it to everybody.
Create(q, s) ==
  /\ api = NoRow /\ machine = "none"
  /\ \A p \in Pollers : poller[p] = Unstarted
  /\ \A r \in Requests : request[r] = NoRequest
  /\ api' = s
  /\ Become(q, "restart", s)
  /\ UNCHANGED <<machine, entry, poller, overlapped, pollerBudget>>

\* handleUpdateAPIMachine reads the row, and fails when there is none.
BeginUpdate(q, s) ==
  /\ request[q] = NoRequest /\ api # NoRow /\ Paid("update")
  /\ Become(q, "update", s)
  /\ overlapped' = (overlapped \/ Editing \cup Deleting # {})
  /\ UNCHANGED <<api, machine, entry, poller>>

\* The UPDATE touches no row when a deletion was faster.
WriteUpdate(q) ==
  /\ request[q].pc = "update"
  /\ api' = IF api = NoRow THEN NoRow ELSE request[q].settings
  /\ Become(q, "restart", request[q].settings)
  /\ UNCHANGED <<machine, entry, poller, overlapped, pollerBudget>>

\* startAPIPoller, the end of a creation and of an update.
EndUpdate(q) ==
  /\ request[q].pc = "restart"
  /\ StartPoller(request[q].settings)
  /\ Become(q, "idle", NoRow)
  /\ UNCHANGED <<api, machine, overlapped, pollerBudget>>

BeginDelete(q) ==
  /\ request[q] = NoRequest /\ api # NoRow /\ Paid("delete")
  /\ Become(q, "stop", NoRow)
  /\ overlapped' = (overlapped \/ Editing # {})
  /\ UNCHANGED <<api, machine, entry, poller>>

StopPoller(q) ==
  /\ request[q].pc = "stop"
  /\ poller' = Cancel(poller)
  /\ entry' = 0
  /\ Become(q, "delete_row", NoRow)
  /\ UNCHANGED <<api, machine, overlapped, pollerBudget>>

DeleteRow(q) ==
  /\ request[q].pc = "delete_row"
  /\ api' = NoRow
  /\ Become(q, "delete_machine", NoRow)
  /\ UNCHANGED <<machine, entry, poller, overlapped, pollerBudget>>

\* A statement that writes the row fails: the request ends there, and a deletion
\* leaves a row without a poller until the next edit or start.
WriteFails(q) ==
  /\ request[q].pc \in {"update", "delete_row"} /\ Paid("fault")
  /\ Become(q, "idle", NoRow)
  /\ UNCHANGED <<api, machine, entry, poller, overlapped>>

\* An error of this transaction goes unnoticed.
DeleteMachine(q) ==
  /\ request[q].pc = "delete_machine"
  /\ machine' \in {"none", machine}
  /\ Become(q, "idle", NoRow)
  /\ UNCHANGED <<api, entry, poller, overlapped, pollerBudget>>

\* handleForceAPIPoll: read the row, poll, and store what came back.
BeginForce(q) ==
  /\ request[q] = NoRequest /\ api # NoRow /\ Paid("force")
  /\ Become(q, "force", api)
  /\ UNCHANGED <<api, machine, entry, poller, overlapped>>

EndForce(q) ==
  /\ request[q].pc = "force"
  /\ machine' \in {"online", machine}
  /\ Become(q, "idle", NoRow)
  /\ UNCHANGED <<api, entry, poller, overlapped, pollerBudget>>

-----------------------------------------------------------------------------
(***************************************************************************)
(* The poller goroutine.                                                   *)
(***************************************************************************)

\* It looks at its context only between polls.
Wake(p) ==
  /\ poller[p].pc = "waiting"
  /\ IF poller[p].cancelled
     THEN poller' = [poller EXCEPT ![p].pc = "done"] /\ UNCHANGED pollerBudget
     ELSE poller' = [poller EXCEPT ![p].pc = "polling"] /\ Paid("poll")
  /\ UNCHANGED <<api, machine, entry, request, overlapped>>

\* storeAPIPollResult or markAPIMachineError: both upsert the machine.
Store(p) ==
  /\ poller[p].pc = "polling"
  /\ poller' = [poller EXCEPT ![p].pc = "waiting"]
  /\ machine' \in {"online", "error"}
  /\ UNCHANGED <<api, entry, request, overlapped, pollerBudget>>

\* A restart ends every goroutine, and startAPIPollers starts what is saved.
HubRestart ==
  /\ Paid("restart")
  /\ request' = [q \in Requests |-> NoRequest] /\ overlapped' = FALSE
  /\ LET ended == [p \in Pollers |->
                     IF p \in Running THEN [poller[p] EXCEPT !.pc = "done"]
                     ELSE poller[p]]
     IN IF api = NoRow THEN poller' = ended /\ entry' = 0
        ELSE /\ NextPoller # 0
             /\ poller' = [ended EXCEPT ![NextPoller] =
                             [pc |-> "waiting", settings |-> api, cancelled |-> FALSE]]
             /\ entry' = NextPoller
  /\ UNCHANGED <<api, machine>>

Next ==
  \/ \E q \in Requests :
       \/ WriteUpdate(q) \/ EndUpdate(q)
       \/ BeginDelete(q) \/ StopPoller(q) \/ DeleteRow(q) \/ DeleteMachine(q)
       \/ BeginForce(q) \/ EndForce(q) \/ WriteFails(q)
       \/ \E s \in Settings : Create(q, s) \/ BeginUpdate(q, s)
  \/ \E p \in Pollers : Wake(p) \/ Store(p)
  \/ HubRestart

Spec == Init /\ [][Next]_pollerVars

-----------------------------------------------------------------------------
(***************************************************************************)
(* However edits, deletions and restarts interleave, at most one poller    *)
(* goes on after the poll it is in, and it is the one the table can stop   *)
(* (startAPIPoller, stopAPIPoller).                                        *)
(***************************************************************************)
OnePoller == \A p \in Loose : p = entry

(***************************************************************************)
(* Once no edit and no deletion is under way, what goes on polling polls   *)
(* with what the row says, and nothing polls a row that is gone, unless an *)
(* edit overlapped an edit or a deletion since the hub started: then the   *)
(* slower of the two starts its poller last, with settings the row no      *)
(* longer has or for a row no request finds (handleUpdateAPIMachine,       *)
(* handleDeleteAPIMachine).                                                *)
(***************************************************************************)
PollsTheRow ==
  (~overlapped /\ Editing \cup Deleting = {}) => \A p \in Loose : poller[p].settings = api

(***************************************************************************)
(* "Delete associated machine and metrics" (handleDeleteAPIMachine): once  *)
(* the row is gone and no request is under way, the machine is gone too.   *)
(***************************************************************************)
DeletedIsGone ==
  (api = NoRow /\ \A q \in Requests : request[q] = NoRequest) => machine = "none"
=============================================================================
