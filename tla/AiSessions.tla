----------------------------- MODULE AiSessions -----------------------------
(***************************************************************************)
(* The AI-sessions switch and the snapshot it governs, for one machine     *)
(* (hub/ai_sessions.go, agent/aiscan Gate, agent/ai_sessions.go).          *)
(*                                                                         *)
(* An administrator turns the feature on or off; the hub tells the agent   *)
(* with frames written by goroutines of their own (one per registration,   *)
(* one per toggle), the agent scans only while its gate is open, and the   *)
(* hub keeps the latest report while the feature is on.  Sockets drop and  *)
(* are displaced, the hub restarts, a write of the setting fails, and the  *)
(* machine may be deleted.                                                 *)
(***************************************************************************)
EXTENDS Integers, Sequences, FiniteSets

CONSTANTS
  Conns,      \* the agent's sockets, 1..n, each used once and in this order
  Toggles,    \* the administrator's requests to flip the switch
  AiBudgets   \* sums of what may happen: connections, flips of the switch,
              \* hub restarts, database faults, revocations, deletions

VARIABLES
  saved,      \* the row of hub_settings
  config,     \* aiSessionsCfg: [loaded, enabled, rev]
  registry,   \* s.agents[machine]: a socket, 0 when none
  snapshot,   \* whether the store holds a report of the machine
  sends,      \* config writes under way: [to, enabled, rev], rev 0 unread
  toggle,     \* [Toggles -> [pc, enabled, rev]]
  link,       \* [Conns -> "new" | "open" | "closed"], the socket
  serving,    \* sockets whose handler has not returned
  line,       \* [Conns -> Seq of config frames], hub to agent
  reports,    \* sockets with a report on its way to the hub
  ingest,     \* sockets whose handler has passed the registration check
  gate,       \* aiGate of the agent: [state, applied, rev]
  scan,       \* sockets with a scan in progress in the agent
  deleted,    \* the machine has been deleted
  aiBudget

aiVars == <<saved, config, registry, snapshot, sends, toggle, link, serving,
            line, reports, ingest, gate, scan, deleted, aiBudget>>

Unloaded == [loaded |-> FALSE, enabled |-> FALSE, rev |-> 0]
ClosedGate == [state |-> "unknown", applied |-> FALSE, rev |-> 0]

Idle == [pc |-> "idle", enabled |-> FALSE, rev |-> 0]

Init ==
  /\ saved \in BOOLEAN
  /\ config = Unloaded
  /\ registry = 0 /\ snapshot = FALSE /\ sends = {}
  /\ toggle = [t \in Toggles |-> Idle]
  /\ link = [c \in Conns |-> "new"] /\ serving = {}
  /\ line = [c \in Conns |-> << >>]
  /\ reports = {} /\ ingest = {}
  /\ gate = ClosedGate /\ scan = {}
  /\ deleted = FALSE
  /\ aiBudget \in AiBudgets

\* The configurations the first use of the switch may load: the saved one, or
\* "off" when the settings table cannot be read.
Loads ==
  IF config.loaded THEN {config}
  ELSE {[loaded |-> TRUE, enabled |-> e, rev |-> 1] :
          e \in {saved} \cup (IF aiBudget.fault > 0 THEN {FALSE} ELSE {})}

Paid(k) == aiBudget[k] > 0 /\ aiBudget' = [aiBudget EXCEPT ![k] = @ - 1]

\* Loading with the wrong value has cost a fault.
PaidLoad(c) ==
  aiBudget' = IF c.enabled = saved \/ config.loaded THEN aiBudget
              ELSE [aiBudget EXCEPT !.fault = @ - 1]

-----------------------------------------------------------------------------
(***************************************************************************)
(* Sockets.                                                                *)
(***************************************************************************)

\* The agent's current socket: it has left every older one.
On(c) == link[c] = "open" /\ \A d \in Conns : d > c => link[d] = "new"

Close(c) ==
  /\ link' = [link EXCEPT ![c] = "closed"]
  /\ line' = [line EXCEPT ![c] = << >>]

(* runAgent has authenticated a new socket: the gate is reset, the hub      *)
(* registers the socket, closes the one it displaces and sends the switch.  *)
Connect(c) ==
  /\ ~deleted /\ Paid("connect")
  /\ link[c] = "new" /\ \A d \in Conns : d < c => link[d] # "new"
  /\ link' = [d \in Conns |-> IF d = c THEN "open"
                              ELSE IF d < c THEN "closed" ELSE link[d]]
  /\ serving' = serving \cup {c}
  /\ registry' = c
  /\ gate' = ClosedGate
  /\ sends' = sends \cup {[to |-> c, enabled |-> FALSE, rev |-> 0]}
  /\ line' = [d \in Conns |-> << >>]
  /\ UNCHANGED <<saved, config, snapshot, toggle, reports, ingest, scan, deleted>>

Drop(c) ==
  /\ On(c)
  /\ Close(c)
  /\ UNCHANGED <<saved, config, registry, snapshot, sends, toggle, serving,
                 reports, ingest, gate, scan, deleted, aiBudget>>

(* The handler's exit: unregisterAgentConnection, and the snapshot goes     *)
(* only when the entry was still this socket's.                            *)
Unregister(c) ==
  /\ c \in serving /\ link[c] = "closed" /\ c \notin ingest
  /\ serving' = serving \ {c}
  /\ reports' = reports \ {c}
  /\ registry' = IF registry = c THEN 0 ELSE registry
  /\ snapshot' = IF registry = c THEN FALSE ELSE snapshot
  /\ UNCHANGED <<saved, config, sends, toggle, link, line, ingest, gate, scan,
                 deleted, aiBudget>>

(* handleRevokeAgentCredential closes the socket and unregisters it from    *)
(* another goroutine: a handler may be inside an ingest meanwhile.          *)
Revoke ==
  /\ registry # 0 /\ Paid("revoke")
  /\ Close(registry)
  /\ registry' = 0
  /\ snapshot' = FALSE
  /\ UNCHANGED <<saved, config, sends, toggle, serving, reports, ingest, gate,
                 scan, deleted>>

\* Deletion holds the barrier every ingest runs under.
BarrierFree_Ignored == TRUE
BarrierFree == ingest = {}

(* handleDeleteMachine: no handshake and no ingest runs meanwhile.          *)
Delete ==
  /\ ~deleted /\ BarrierFree /\ Paid("delete")
  /\ deleted' = TRUE
  /\ registry' = 0
  /\ IF registry = 0 THEN UNCHANGED <<link, line>> ELSE Close(registry)
  /\ snapshot' = FALSE
  /\ UNCHANGED <<saved, config, sends, toggle, serving, reports, ingest, gate,
                 scan>>

HubRestart ==
  /\ Paid("restart")
  /\ config' = Unloaded
  /\ registry' = 0 /\ snapshot' = FALSE /\ sends' = {}
  /\ toggle' = [t \in Toggles |-> Idle]
  /\ link' = [c \in Conns |-> IF link[c] = "open" THEN "closed" ELSE link[c]]
  /\ serving' = {} /\ reports' = {} /\ ingest' = {}
  /\ line' = [c \in Conns |-> << >>]
  /\ UNCHANGED <<saved, gate, scan, deleted>>

-----------------------------------------------------------------------------
(***************************************************************************)
(* The switch and its frames.                                              *)
(***************************************************************************)

\* What a toggle does once the switch has flipped: off empties the store.
AfterFlip_NoClear(v) == "cast"
AfterFlip(v) == IF v THEN "cast" ELSE "clear"

(* setAISessionsEnabled under the config lock: the row, then the pair.      *)
(* A row that cannot be written changes nothing and answers 500.            *)
Flip(t, v) ==
  /\ toggle[t].pc = "idle" /\ Paid("flip")
  /\ LET rev == (IF config.loaded THEN config.rev ELSE 1) + 1
     IN /\ config' = [loaded |-> TRUE, enabled |-> v, rev |-> rev]
        /\ toggle' = [toggle EXCEPT ![t] =
                        [pc |-> AfterFlip(v), enabled |-> v, rev |-> rev]]
  /\ saved' = v
  /\ UNCHANGED <<registry, snapshot, sends, link, serving, line, reports,
                 ingest, gate, scan, deleted>>

Clear(t) ==
  /\ toggle[t].pc = "clear"
  /\ snapshot' = FALSE
  /\ toggle' = [toggle EXCEPT ![t].pc = "cast"]
  /\ UNCHANGED <<saved, config, registry, sends, link, serving, line, reports,
                 ingest, gate, scan, deleted, aiBudget>>

(* broadcastAISessionsConfig: one goroutine per registered socket, with the *)
(* pair the toggle captured.                                               *)
Cast(t) ==
  /\ toggle[t].pc = "cast"
  /\ toggle' = [toggle EXCEPT ![t] = Idle]
  /\ sends' = IF registry = 0 THEN sends
              ELSE sends \cup {[to |-> registry, enabled |-> toggle[t].enabled,
                                rev |-> toggle[t].rev]}
  /\ UNCHANGED <<saved, config, registry, snapshot, link, serving, line, reports,
                 ingest, gate, scan, deleted, aiBudget>>

(* sendAISessionsConfig reads the pair, and writes it later.                *)
ReadConfig(m) ==
  /\ m \in sends /\ m.rev = 0
  /\ \E c \in Loads :
       /\ config' = c
       /\ PaidLoad(c)
       /\ sends' = (sends \ {m}) \cup
                     {[to |-> m.to, enabled |-> c.enabled, rev |-> c.rev]}
  /\ UNCHANGED <<saved, registry, snapshot, toggle, link, serving, line, reports,
                 ingest, gate, scan, deleted>>

WriteConfig(m) ==
  /\ m \in sends /\ m.rev > 0
  /\ sends' = sends \ {m}
  /\ line' = IF link[m.to] = "open"
             THEN [line EXCEPT ![m.to] =
                     Append(@, [enabled |-> m.enabled, rev |-> m.rev])]
             ELSE line
  /\ UNCHANGED <<saved, config, registry, snapshot, toggle, link, serving,
                 reports, ingest, gate, scan, deleted, aiBudget>>

\* Gate.Apply: after the first decision only a higher revision counts.
Newer_Any(f) == TRUE
Newer(f) == ~gate.applied \/ f.rev > gate.rev

Applied(f) ==
  IF Newer(f) THEN [state |-> IF f.enabled THEN "enabled" ELSE "disabled",
                    applied |-> TRUE, rev |-> f.rev]
  ELSE gate

ApplyConfig(c) ==
  /\ On(c) /\ line[c] # << >>
  /\ gate' = Applied(Head(line[c]))
  /\ line' = [line EXCEPT ![c] = Tail(@)]
  /\ UNCHANGED <<saved, config, registry, snapshot, sends, toggle, link, serving,
                 reports, ingest, scan, deleted, aiBudget>>

-----------------------------------------------------------------------------
(***************************************************************************)
(* Reports.                                                                *)
(***************************************************************************)

(* sendAISessions: the gate is asked before the scan, the report written    *)
(* after it, so a disable may fall between the two.                        *)
StartScan(c) ==
  /\ On(c) /\ gate.state = "enabled" /\ c \notin scan
  /\ scan' = scan \cup {c}
  /\ UNCHANGED <<saved, config, registry, snapshot, sends, toggle, link, serving,
                 line, reports, ingest, gate, deleted, aiBudget>>

SendReport(c) ==
  /\ c \in scan
  /\ scan' = scan \ {c}
  /\ reports' = IF link[c] = "open" THEN reports \cup {c} ELSE reports
  /\ UNCHANGED <<saved, config, registry, snapshot, sends, toggle, link, serving,
                 line, ingest, gate, deleted, aiBudget>>

(* ingestFrame and isRegisteredConnection: a socket that is no longer the   *)
(* registered one is refused and its handler returns.                      *)
BeginIngest(c) ==
  /\ c \in reports /\ c \in serving /\ c \notin ingest
  /\ reports' = reports \ {c}
  /\ IF registry = c
     THEN ingest' = ingest \cup {c} /\ UNCHANGED <<link, line>>
     ELSE Close(c) /\ UNCHANGED ingest
  /\ UNCHANGED <<saved, config, registry, snapshot, sends, toggle, serving, gate,
                 scan, deleted, aiBudget>>

(* The check of the switch and the store, together under the config lock.   *)
FinishIngest(c) ==
  /\ c \in ingest
  /\ ingest' = ingest \ {c}
  /\ \E k \in Loads :
       /\ config' = k
       /\ PaidLoad(k)
       /\ snapshot' = k.enabled
  /\ UNCHANGED <<saved, registry, sends, toggle, link, serving, line, reports,
                 gate, scan, deleted>>

-----------------------------------------------------------------------------
Hub(c) == Unregister(c) \/ BeginIngest(c) \/ FinishIngest(c)
Finish(t) == Clear(t) \/ Cast(t)

Next ==
  \/ \E c \in Conns : Connect(c) \/ Drop(c) \/ ApplyConfig(c) \/ StartScan(c)
                      \/ SendReport(c) \/ Hub(c)
  \/ \E t \in Toggles : Finish(t) \/ \E v \in BOOLEAN : Flip(t, v)
  \/ \E m \in sends : ReadConfig(m) \/ WriteConfig(m)
  \/ Revoke \/ Delete \/ HubRestart

(***************************************************************************)
(* Goroutines that have something to do eventually do it.  Nobody has to   *)
(* connect, toggle, or fail.                                               *)
(***************************************************************************)
Fair ==
  /\ \A c \in Conns : /\ WF_aiVars(Hub(c)) /\ WF_aiVars(ApplyConfig(c))
                      /\ WF_aiVars(StartScan(c)) /\ WF_aiVars(SendReport(c))
  /\ \A t \in Toggles : WF_aiVars(Finish(t))
  /\ WF_aiVars(\E m \in sends : ReadConfig(m) \/ WriteConfig(m))

Spec == Init /\ [][Next]_aiVars
LiveSpec == Spec /\ Fair

-----------------------------------------------------------------------------
(***************************************************************************)
(* Once the switch is off and the request that turned it off has emptied   *)
(* the store, or once the machine is deleted, no report is kept, whatever  *)
(* was in flight (setAISessionsEnabled, ingestAISessions,                  *)
(* handleDeleteMachine).                                                   *)
(***************************************************************************)
NothingKept ==
  /\ (config.loaded /\ ~config.enabled
        /\ \A t \in Toggles : toggle[t].pc # "clear") => ~snapshot
  /\ deleted => ~snapshot

(***************************************************************************)
(* However registration sends and toggle broadcasts are delayed, an agent  *)
(* that stays connected ends up scanning exactly when the switch the hub   *)
(* holds is on, and then its report is kept (Gate.Apply, and the revision  *)
(* of every frame).                                                        *)
(***************************************************************************)
GateFollowsSwitch ==
  <>[](registry # 0 /\ link[registry] = "open" =>
         /\ config.loaded
         /\ gate.state = (IF config.enabled THEN "enabled" ELSE "disabled")
         /\ snapshot = config.enabled)
=============================================================================
