-------------------------- MODULE ServicesProofs ----------------------------
(***************************************************************************)
(* The services of a live connection, for any sockets, toggles and         *)
(* targets.                                                                *)
(*                                                                         *)
(* Of the AI-session switch: nothing is kept of a machine once the switch  *)
(* is off and the store was emptied, or once the machine is deleted.  Of a *)
(* terminal: a refusal that was noted has been shown to every browser that *)
(* came.  Of a bulk command: what is on the wire or in the waiter's        *)
(* channel is what happened on the machine, and before the write nothing   *)
(* happens there.                                                          *)
(***************************************************************************)
EXTENDS Services, TLAPS

TypeOK ==
  /\ saved \in BOOLEAN
  /\ config \in [loaded : BOOLEAN, enabled : BOOLEAN, rev : Nat]
  /\ toggle \in [Toggles -> [pc : {"idle", "clear", "cast"}, enabled : BOOLEAN, rev : Nat]]
  /\ deleted \in BOOLEAN

(* A switch nobody has loaded has let nothing in.                           *)
NothingUnloaded == ~config.loaded => ~snapshot

(* A switch that is off has let nothing in since the store was emptied.     *)
NothingWhenOff ==
  (config.loaded /\ ~config.enabled
     /\ \A t \in Toggles : toggle[t].pc # "clear") => ~snapshot

(* A deleted machine has no socket, no ingest and no report.                *)
NothingOfDeleted == deleted => registry = 0 /\ ingest = {} /\ ~snapshot

IInv == TypeOK /\ NothingUnloaded /\ NothingWhenOff /\ NothingOfDeleted

(***************************************************************************)
(* A load yields a loaded switch, and the present one once it is loaded    *)
(* (aiSessionsConfig).                                                     *)
(***************************************************************************)
LEMMA LoadsLoad ==
  ASSUME TypeOK, NEW c \in Loads
  PROVE  /\ c \in [loaded : BOOLEAN, enabled : BOOLEAN, rev : Nat]
         /\ c.loaded
         /\ config.loaded => c = config
<1>1. CASE config.loaded
  BY <1>1 DEF Loads, TypeOK
<1>2. CASE ~config.loaded
  <2>1. PICK e \in {saved, FALSE} : c = [loaded |-> TRUE, enabled |-> e, rev |-> 1]
    BY <1>2 DEF Loads
  <2>2. e \in BOOLEAN
    BY DEF TypeOK
  <2>. QED BY <1>2, <2>1, <2>2
<1>. QED BY <1>1, <1>2

(***************************************************************************)
(* Steps that leave the switch, the toggles and the store alone.           *)
(***************************************************************************)
LEMMA Elsewhere ==
  ASSUME IInv, UNCHANGED <<saved, config, toggle, snapshot, deleted>>,
         deleted => registry' = 0 /\ ingest' = {}
  PROVE  IInv'
BY DEF IInv, TypeOK, NothingUnloaded, NothingWhenOff, NothingOfDeleted

(***************************************************************************)
(* Steps that empty the store and leave the switch alone.                  *)
(***************************************************************************)
LEMMA Emptied ==
  ASSUME IInv, ~snapshot', UNCHANGED <<saved, config>>, TypeOK',
         deleted' => registry' = 0 /\ ingest' = {}
  PROVE  IInv'
BY DEF IInv, TypeOK, NothingUnloaded, NothingWhenOff, NothingOfDeleted

(***************************************************************************)
(* Every step keeps the invariant.                                         *)
(***************************************************************************)
LEMMA NextInv == ASSUME IInv, Next PROVE IInv'
<1>. USE ServicesAssumption
<1>0. TypeOK /\ (deleted => registry = 0 /\ ingest = {})
  BY DEF IInv, NothingOfDeleted
<1>1. ASSUME NEW c \in Conns, Connect(c) PROVE IInv'
  BY <1>0, <1>1, Elsewhere DEF Connect
<1>2. ASSUME NEW c \in Conns, Drop(c) \/ ApplyConfig(c) \/ StartScan(c) \/ SendReport(c)
      PROVE  IInv'
  BY <1>0, <1>2, Elsewhere DEF Drop, ApplyConfig, StartScan, SendReport
<1>3. ASSUME NEW c \in Conns, Unregister(c) PROVE IInv'
  <2>1. /\ UNCHANGED <<saved, config, toggle, deleted, ingest>>
        /\ registry' = 0 \/ registry' = registry
        /\ snapshot' = snapshot \/ ~snapshot'
    BY <1>3 DEF Unregister
  <2>. QED BY <1>0, <2>1 DEF IInv, TypeOK, NothingUnloaded, NothingWhenOff, NothingOfDeleted
<1>4. ASSUME NEW c \in Conns, BeginIngest(c) PROVE IInv'
  <2>1. /\ UNCHANGED <<saved, config, toggle, snapshot, deleted, registry>>
        /\ registry = c \/ ingest' = ingest
    BY <1>4 DEF BeginIngest
  <2>. QED BY <1>0, <2>1, Elsewhere
<1>5. ASSUME NEW c \in Conns, FinishIngest(c) PROVE IInv'
  <2>1. PICK k \in Loads : config' = k /\ snapshot' = k.enabled
    BY <1>5 DEF FinishIngest
  <2>2. ~deleted /\ UNCHANGED <<saved, toggle, deleted>>
    BY <1>0, <1>5 DEF FinishIngest
  <2>. QED BY <1>0, <2>1, <2>2, LoadsLoad
           DEF IInv, TypeOK, NothingUnloaded, NothingWhenOff, NothingOfDeleted
<1>6. ASSUME NEW t \in Toggles, NEW v \in BOOLEAN, Flip(t, v) PROVE IInv'
  <2> DEFINE r == (IF config.loaded THEN config.rev ELSE 1) + 1
  <2>0. r \in Nat
    BY <1>0 DEF TypeOK
  <2>1. /\ config' = [loaded |-> TRUE, enabled |-> v, rev |-> r]
        /\ toggle' = [toggle EXCEPT ![t] = [pc |-> AfterFlip(v), enabled |-> v, rev |-> r]]
    BY <1>6 DEF Flip
  <2> HIDE DEF r
  <2>2. saved' = v /\ UNCHANGED <<snapshot, deleted, registry, ingest>>
    BY <1>6 DEF Flip
  <2>3. TypeOK'
    BY <1>0, <2>0, <2>1, <2>2 DEF TypeOK, AfterFlip
  <2>4. ~v => toggle'[t].pc = "clear"
    BY <1>0, <2>1 DEF AfterFlip, TypeOK
  <2>. QED BY <2>1, <2>2, <2>3, <2>4
           DEF IInv, NothingUnloaded, NothingWhenOff, NothingOfDeleted
<1>7. ASSUME NEW t \in Toggles, Clear(t) PROVE IInv'
  <2>1. TypeOK'
    BY <1>0, <1>7 DEF Clear, TypeOK
  <2>. QED BY <1>0, <1>7, <2>1, Emptied DEF Clear
<1>8. ASSUME NEW t \in Toggles, Cast(t) PROVE IInv'
  <2>1. TypeOK'
    BY <1>0, <1>8 DEF Cast, Idle, TypeOK
  <2>2. \A u \in Toggles : toggle'[u].pc # "clear" => toggle[u].pc # "clear"
    BY <1>0, <1>8 DEF Cast, TypeOK
  <2>3. UNCHANGED <<config, snapshot, deleted, registry, ingest>>
    BY <1>8 DEF Cast
  <2>. QED BY <2>1, <2>2, <2>3 DEF IInv, NothingUnloaded, NothingWhenOff, NothingOfDeleted
<1>9. ASSUME NEW m \in sends, ReadConfig(m) PROVE IInv'
  <2>1. PICK k \in Loads : config' = k
    BY <1>9 DEF ReadConfig
  <2>2. UNCHANGED <<saved, toggle, snapshot, deleted, registry, ingest>>
    BY <1>9 DEF ReadConfig
  <2>. QED BY <1>0, <2>1, <2>2, LoadsLoad
           DEF IInv, TypeOK, NothingUnloaded, NothingWhenOff, NothingOfDeleted
<1>10. ASSUME NEW m \in sends, WriteConfig(m) PROVE IInv'
  BY <1>0, <1>10, Elsewhere DEF WriteConfig
<1>11. CASE Revoke
  <2>1. TypeOK'
    BY <1>0, <1>11 DEF Revoke, TypeOK
  <2>. QED BY <1>0, <1>11, <2>1, Emptied DEF Revoke
<1>12. CASE Delete
  <2>1. TypeOK'
    BY <1>0, <1>12 DEF Delete, TypeOK
  <2>2. ingest = {}
    BY <1>12 DEF Delete, BarrierFree
  <2>. QED BY <1>12, <2>1, <2>2, Emptied DEF Delete
<1>13. CASE HubRestart
  <2>1. TypeOK'
    BY <1>0, <1>13 DEF HubRestart, Unloaded, Idle, TypeOK
  <2>. QED BY <1>13, <2>1
           DEF HubRestart, Unloaded, IInv, NothingUnloaded, NothingWhenOff, NothingOfDeleted
<1>. QED BY <1>1, <1>2, <1>3, <1>4, <1>5, <1>6, <1>7, <1>8, <1>9, <1>10, <1>11, <1>12, <1>13
         DEF Next, Hub, Finish

(***************************************************************************)
(* Whatever reports, toggles, revocations and restarts overlap: no report  *)
(* is kept once the switch is off and its request has emptied the store,   *)
(* or once the machine is deleted.                                         *)
(***************************************************************************)
THEOREM NothingIsKept == Spec => []NothingKept
<1>1. Init => IInv
  <2> SUFFICES ASSUME Init PROVE IInv
    OBVIOUS
  <2>1. /\ saved \in BOOLEAN /\ config = Unloaded /\ toggle = [t \in Toggles |-> Idle]
        /\ deleted = FALSE /\ snapshot = FALSE
    BY DEF Init
  <2>2. TypeOK
    BY <2>1 DEF Unloaded, Idle, TypeOK
  <2>. QED BY <2>1, <2>2 DEF IInv, NothingUnloaded, NothingWhenOff, NothingOfDeleted
<1>2. IInv /\ [Next]_aiVars => IInv'
  <2> SUFFICES ASSUME IInv, [Next]_aiVars PROVE IInv'
    OBVIOUS
  <2>1. CASE Next
    BY <2>1, NextInv
  <2>2. CASE UNCHANGED aiVars
    BY <2>2, Elsewhere DEF IInv, NothingOfDeleted, aiVars
  <2>. QED BY <2>1, <2>2
<1>3. IInv => NothingKept
  BY DEF IInv, NothingWhenOff, NothingOfDeleted, NothingKept
<1>. QED BY <1>1, <1>2, <1>3, PTL DEF Spec

-----------------------------------------------------------------------------
(***************************************************************************)
(* The terminal.  A browser that has not dialled has no socket, a reason   *)
(* is only noted by the refusal that goes on to tell the browser it found, *)
(* and who takes that browser's place later is told or about to be.        *)
(***************************************************************************)
SocketStates == {"none", "open", "closed"}

TermType ==
  /\ ws \in [Term!Sockets -> SocketStates]
  /\ handler \in [Term!Sockets -> {"idle", "found", "telling", "waiting", "done"}]
  /\ listed \in BOOLEAN /\ failed \in BOOLEAN
  /\ held \in Browsers \cup {"none"} /\ heard \in Browsers \cup {"none"}

Undialled == \A b \in Browsers : handler[b] \in {"idle", "found"} => ws[b] = "none"

\* The browser b has been told, is about to be, or has gone.
Served(b) == (ws[b] = "open" /\ handler[b] # "telling") => b \in told

TermInv ==
  /\ TermType
  /\ Undialled
  /\ failed => /\ refusal \in {"telling", "done"}
               /\ held \notin {heard, "none"} => Served(held)
               /\ refusal = "done" /\ heard # "none" => Served(heard)
  /\ refusal = "telling" => heard # "none"

(***************************************************************************)
(* The teardown closes sockets and opens none (cleanupTerminalSession).    *)
(***************************************************************************)
LEMMA CleanupCloses ==
  ASSUME TermType, Term!Cleanup
  PROVE  /\ ws' \in [Term!Sockets -> SocketStates] /\ listed' \in BOOLEAN
         /\ \A s \in Term!Sockets : /\ ws'[s] = "open" => ws[s] = "open"
                                    /\ ws[s] = "none" => ws'[s] = "none"
BY DEF TermType, SocketStates, Term!Cleanup

(***************************************************************************)
(* Both roles dial (handleTerminalWS).                                     *)
(***************************************************************************)
LEMMA BrowsersDial == Browsers \subseteq Term!Sockets /\ "agent" \in Term!Sockets
BY DEF Term!Sockets

(***************************************************************************)
(* A step that opens no socket, ends nobody's telling and notes no reason  *)
(* keeps the invariant.                                                    *)
(***************************************************************************)
LEMMA TermQuiet ==
  ASSUME TermInv, TermType',
         \A s \in Term!Sockets : /\ ws'[s] = "open" => ws[s] = "open"
                                 /\ ws[s] = "none" => ws'[s] = "none"
                                 /\ handler[s] = "telling" => handler'[s] = "telling"
                                 /\ handler'[s] \in {"idle", "found"} => handler[s] \in {"idle", "found"},
         UNCHANGED <<failed, held, heard, told>>,
         refusal' = refusal \/ (refusal = "none" /\ refusal' \in {"looked", "done"})
  PROVE  TermInv'
<1>1. Undialled'
  BY BrowsersDial DEF TermInv, Undialled
<1>2. ASSUME NEW b \in Browsers, Served(b) PROVE Served(b)'
  BY <1>2, BrowsersDial DEF Served
<1>3. held # "none" => held \in Browsers
  BY DEF TermInv, TermType
<1>4. heard # "none" => heard \in Browsers
  BY DEF TermInv, TermType
<1>. QED BY <1>1, <1>2, <1>3, <1>4 DEF TermInv

(***************************************************************************)
(* Every step of the hub, the agent and the browsers keeps it.             *)
(***************************************************************************)
LEMMA TermStep ==
  ASSUME "agent" \notin Browsers
  PROVE  TermInv /\ [Term!Next]_Term!termVars => TermInv'
<1> SUFFICES ASSUME TermInv, [Term!Next]_Term!termVars PROVE TermInv'
  OBVIOUS
<1>0. TermType
  BY DEF TermInv
<1>1. CASE Term!Start \/ Term!SendStart \/ Term!AgentAnswers \/ Term!ReadRefusal
  <2>1. UNCHANGED <<ws, held, failed, heard, told, handler>> /\ listed' \in BOOLEAN
    BY <1>0, <1>1 DEF Term!Start, Term!SendStart, Term!AgentAnswers, Term!ReadRefusal, TermType
  <2>2. refusal' = refusal \/ (refusal = "none" /\ refusal' \in {"looked", "done"})
    BY <1>1 DEF Term!Start, Term!SendStart, Term!AgentAnswers, Term!ReadRefusal
  <2>3. TermType'
    BY <1>0, <2>1 DEF TermType
  <2>. QED BY <2>1, <2>2, <2>3, TermQuiet
<1>2. CASE Term!CloseByUser \/ Term!Expire \/ \E s \in Term!Sockets : Term!EndRelay(s)
  <2>1. UNCHANGED <<held, failed, heard, told, handler, refusal>>
    BY <1>2 DEF Term!CloseByUser, Term!Expire, Term!EndRelay
  <2>2. Term!Cleanup \/ UNCHANGED <<listed, ws>>
    BY <1>2 DEF Term!CloseByUser, Term!Expire, Term!EndRelay
  <2>3. TermType'
    BY <1>0, <2>1, <2>2, CleanupCloses DEF TermType
  <2>. QED BY <1>0, <2>1, <2>2, <2>3, CleanupCloses, TermQuiet
<1>3. CASE Term!NoteRefusal
  <2>1. UNCHANGED <<ws, held, told, handler, listed>> /\ refusal = "looked"
    BY <1>3 DEF Term!NoteRefusal
  <2>2. CASE UNCHANGED <<failed, heard>> /\ refusal' = "done"
    BY <2>1, <2>2 DEF TermInv, TermType, Undialled
  <2>3. CASE failed' = TRUE /\ heard' = held /\ refusal' = IF held = "none" THEN "done" ELSE "telling"
    BY <2>1, <2>3 DEF TermInv, TermType, Undialled
  <2>. QED BY <1>3, <2>2, <2>3 DEF Term!NoteRefusal
<1>4. CASE Term!TellBrowser
  <2>1. /\ UNCHANGED <<held, failed, heard, handler>> /\ refusal = "telling" /\ refusal' = "done"
        /\ told' = IF ws[heard] = "open" THEN told \cup {heard} ELSE told
        /\ Term!Cleanup
    BY <1>4 DEF Term!TellBrowser, Term!Tell
  <2>2. TermType' /\ Undialled'
    BY <1>0, <2>1, CleanupCloses, BrowsersDial DEF TermInv, TermType, Undialled
  <2>3. ASSUME NEW b \in Browsers, Served(b) \/ b = heard PROVE Served(b)'
    BY <1>0, <2>1, <2>3, CleanupCloses, BrowsersDial DEF Served
  <2>4. held # "none" => held \in Browsers
    BY <1>0 DEF TermType
  <2>5. heard # "none" => heard \in Browsers
    BY <1>0 DEF TermType
  <2>. QED BY <2>1, <2>2, <2>3, <2>4, <2>5 DEF TermInv
<1>5. ASSUME NEW b \in Browsers, Term!RefuseBrowser(b) PROVE TermInv'
  <2>1. /\ UNCHANGED <<held, failed, heard, refusal>> /\ handler[b] = "telling"
        /\ handler' = [handler EXCEPT ![b] = "done"]
        /\ told' = IF ws[b] = "open" THEN told \cup {b} ELSE told
        /\ Term!Cleanup
    BY <1>5 DEF Term!RefuseBrowser, Term!Tell
  <2>2. TermType' /\ Undialled'
    BY <1>0, <2>1, CleanupCloses, BrowsersDial DEF TermInv, TermType, Undialled
  <2>3. ASSUME NEW o \in Browsers, Served(o) PROVE Served(o)'
    BY <1>0, <2>1, <2>3, CleanupCloses, BrowsersDial DEF Served, TermType
  <2>4. held # "none" => held \in Browsers
    BY <1>0 DEF TermType
  <2>5. heard # "none" => heard \in Browsers
    BY <1>0 DEF TermType
  <2>. QED BY <2>1, <2>2, <2>3, <2>4, <2>5 DEF TermInv
<1>6. ASSUME NEW s \in Term!Sockets, Term!FindSession(s) PROVE TermInv'
  <2>1. PICK h \in {"found", "done"} : handler' = [handler EXCEPT ![s] = h]
    BY <1>6 DEF Term!FindSession
  <2>2. handler[s] = "idle" /\ UNCHANGED <<listed, ws, held, failed, heard, told, refusal>>
    BY <1>6 DEF Term!FindSession
  <2>3. TermType'
    BY <1>0, <2>1, <2>2 DEF TermType
  <2>. QED BY <1>0, <2>1, <2>2, <2>3, TermQuiet DEF TermType
<1>7. ASSUME NEW s \in Term!Sockets, Term!Attach(s) PROVE TermInv'
  <2>1. handler[s] = "found" /\ UNCHANGED <<listed, failed, heard, told, refusal>>
    BY <1>7 DEF Term!Attach
  <2>2. CASE s = "agent" /\ failed
    <3>1. handler' = [handler EXCEPT ![s] = "done"] /\ UNCHANGED <<ws, held>>
      BY <1>7, <2>2 DEF Term!Attach
    <3>2. TermType'
      BY <1>0, <2>1, <3>1 DEF TermType
    <3>. QED BY <1>0, <2>1, <3>1, <3>2, TermQuiet DEF TermType
  <2>3. CASE s = "agent" /\ ~failed
    <3>1. PICK h \in {"done", "waiting"} : handler' = [handler EXCEPT ![s] = h]
      BY <1>7, <2>3 DEF Term!Attach, Term!IsRefused
    <3>2. ws' = [ws EXCEPT ![s] = "open"] /\ UNCHANGED held
      BY <1>7, <2>3 DEF Term!Attach
    <3>. QED BY <1>0, <2>1, <2>3, <3>1, <3>2 DEF TermInv, TermType, Undialled, SocketStates,
                Term!Sockets
  <2>4. CASE s # "agent"
    <3>1. PICK h \in {"telling", "done", "waiting"} : /\ handler' = [handler EXCEPT ![s] = h]
                                                      /\ failed => h = "telling"
      BY <1>7, <2>4 DEF Term!Attach, Term!IsRefused
    <3>2. ws' = [ws EXCEPT ![s] = "open"] /\ held' = s /\ s \in Browsers
      BY <1>7, <2>4 DEF Term!Attach, Term!Sockets
    <3>3. TermType' /\ Undialled'
      BY <1>0, <2>1, <3>1, <3>2, BrowsersDial DEF TermInv, TermType, Undialled, SocketStates
    <3>4. failed => Served(s)'
      BY <1>0, <3>1, <3>2, BrowsersDial DEF Served, TermType
    <3>5. ASSUME NEW b \in Browsers, b # s, Served(b) PROVE Served(b)'
      BY <1>0, <2>1, <3>1, <3>2, <3>5, BrowsersDial DEF Served, TermType
    <3>6. heard # "none" => heard \in Browsers
      BY <1>0 DEF TermType
    <3>. QED BY <2>1, <3>2, <3>3, <3>4, <3>5, <3>6 DEF TermInv
  <2>. QED BY <2>2, <2>3, <2>4
<1>8. ASSUME NEW s \in Term!Sockets, Term!GiveUp(s) PROVE TermInv'
  <2>1. /\ UNCHANGED <<held, failed, heard, told, refusal>> /\ handler[s] = "waiting"
        /\ handler' = [handler EXCEPT ![s] = "done"]
    BY <1>8 DEF Term!GiveUp
  <2>2. Term!Cleanup \/ UNCHANGED <<listed, ws>>
    BY <1>8 DEF Term!GiveUp
  <2>3. TermType'
    BY <1>0, <2>1, <2>2, CleanupCloses DEF TermType
  <2>. QED BY <1>0, <2>1, <2>2, <2>3, CleanupCloses, TermQuiet DEF TermType
<1>9. ASSUME NEW s \in Term!Sockets, Term!StartRelay(s) \/ Term!PeerCloses(s) PROVE TermInv'
  <2>1. UNCHANGED <<listed, held, failed, heard, told, handler, refusal>>
    BY <1>9 DEF Term!StartRelay, Term!PeerCloses
  <2>2. UNCHANGED ws \/ (ws[s] = "open" /\ ws' = [ws EXCEPT ![s] = "closed"])
    BY <1>9 DEF Term!StartRelay, Term!PeerCloses
  <2>3. TermType'
    BY <1>0, <2>1, <2>2 DEF TermType, SocketStates
  <2>. QED BY <1>0, <2>1, <2>2, <2>3, TermQuiet DEF TermType
<1>10. ASSUME NEW d \in Term!Directions, Term!Leave(d) \/ Term!CloseDone(d) PROVE TermInv'
  <2>1. UNCHANGED <<listed, ws, held, failed, heard, told, handler, refusal>>
    BY <1>10 DEF Term!Leave, Term!CloseDone
  <2>. QED BY <1>0, <2>1, TermQuiet DEF TermType
<1>11. CASE UNCHANGED Term!termVars
  BY <1>0, <1>11, TermQuiet DEF Term!termVars, TermType
<1>. QED BY <1>1, <1>2, <1>3, <1>4, <1>5, <1>6, <1>7, <1>8, <1>9, <1>10, <1>11
         DEF Term!Next, Term!Work

(***************************************************************************)
(* No session has begun.                                                   *)
(***************************************************************************)
LEMMA TermInit == Term!Init => TermInv
<1> SUFFICES ASSUME Term!Init PROVE TermInv
  OBVIOUS
<1>1. TermType
  BY DEF Term!Init, TermType, SocketStates
<1>2. Undialled
  BY BrowsersDial DEF Term!Init, Undialled
<1>. QED BY <1>1, <1>2 DEF Term!Init, TermInv

(***************************************************************************)
(* The invariant is about the browser the session names and the one the    *)
(* refusal found, and so is the promise.                                   *)
(***************************************************************************)
LEMMA TermShown == TermInv => Term!RefusalIsShown
BY DEF TermInv, Served, Term!RefusalIsShown

(***************************************************************************)
(* An agent's refusal reaches the browser whether it came before or after, *)
(* unless the session was closed in between (failTerminalSessionFromAgent, *)
(* handleTerminalWS).                                                      *)
(***************************************************************************)
THEOREM RefusalReachesBrowser == Term!Spec => []Term!RefusalIsShown
<1>1. TermInv /\ [Term!Next]_Term!termVars => TermInv'
  BY TermStep, ServicesAssumption DEF ServicesAssumption
<1>. QED BY <1>1, TermInit, TermShown, PTL DEF Term!Spec

-----------------------------------------------------------------------------
(***************************************************************************)
(* The bulk command.  Until the write nothing has happened on a machine;   *)
(* from then on the wire and the waiter's channel carry its outcome.       *)
(***************************************************************************)
Unwritten == {"none", "look", "register", "write", "stuck"}
Unsent == {"not connected", "unsent", "send failed"}

Results == Unsent \cup {"none", "success", "failure", "accepted", "timeout", "unknown"}

BulkType ==
  /\ worker \in [Targets -> Unwritten \cup {"wait", "done"}]
  /\ result \in [Targets -> Results]
  /\ wire \in [Targets -> {"none", "command", "good", "bad"}]
  /\ answer \in [Targets -> {"none", "good", "bad"}]
  /\ outcome \in [Targets -> {"not run", "done", "failed", "torn"}]

Faithful(t) ==
  /\ t \in todo => worker[t] = "none"
  /\ worker[t] \in Unwritten \cup {"wait"} => result[t] = "none"
  /\ worker[t] \in Unwritten \/ result[t] \in Unsent =>
        outcome[t] = "not run" /\ wire[t] = "none" /\ answer[t] = "none"
  /\ wire[t] = "command" => outcome[t] = "not run" /\ answer[t] = "none"
  /\ wire[t] = "good" \/ answer[t] = "good" \/ result[t] = "success" => outcome[t] = "done"
  /\ wire[t] = "bad" \/ answer[t] = "bad" \/ result[t] = "failure" => outcome[t] = "failed"

BulkInv == BulkType /\ \A t \in Targets : Faithful(t)

(* A step leaves the machine u alone.                                       *)
Apart(u) ==
  /\ worker'[u] = worker[u] /\ result'[u] = result[u] /\ wire'[u] = wire[u]
  /\ answer'[u] = answer[u] /\ outcome'[u] = outcome[u]

(***************************************************************************)
(* A step about one machine has to keep the claims about that machine.     *)
(***************************************************************************)
LEMMA BulkAt ==
  ASSUME BulkInv, NEW t \in Targets, todo' \subseteq todo, BulkType', Faithful(t)',
         \A u \in Targets \ {t} : Apart(u)
  PROVE  BulkInv'
<1>1. ASSUME NEW u \in Targets \ {t} PROVE Faithful(u)'
  <2>1. Faithful(u) /\ Apart(u)
    BY <1>1 DEF BulkInv
  <2>2. u \in todo' => u \in todo
    OBVIOUS
  <2>. QED BY <2>1, <2>2, ZenonT(60) DEF Faithful, Apart
<1>. QED BY <1>1 DEF BulkInv

(***************************************************************************)
(* A worker that ends has told its result.                                 *)
(***************************************************************************)
LEMMA BulkEnds ==
  ASSUME BulkType, NEW t \in Targets, NEW r \in Results, Bulk!End(t, r)
  PROVE  /\ worker' \in [Targets -> Unwritten \cup {"wait", "done"}]
         /\ result' \in [Targets -> Results]
         /\ worker'[t] = "done" /\ result'[t] = r
         /\ \A u \in Targets \ {t} : worker'[u] = worker[u] /\ result'[u] = result[u]
<1>1. "done" \in Unwritten \cup {"wait", "done"}
  OBVIOUS
<1>. QED BY <1>1 DEF BulkType, Bulk!End

(***************************************************************************)
(* Every step of the workers, the agents, the sockets and the client keeps *)
(* it.                                                                     *)
(***************************************************************************)
LEMMA BulkStep == BulkInv /\ [Bulk!Next]_Bulk!cmdVars => BulkInv'
<1> SUFFICES ASSUME BulkInv, [Bulk!Next]_Bulk!cmdVars PROVE BulkInv'
  OBVIOUS
<1>1. CASE Bulk!Cancel
  BY <1>1 DEF Bulk!Cancel, BulkInv, BulkType, Faithful
<1>0. BulkType /\ \A t \in Targets : Faithful(t)
  BY DEF BulkInv
<1>2. ASSUME NEW t \in Targets, Bulk!Dispatch(t) PROVE BulkInv'
  <2>1. Faithful(t) /\ t \in todo /\ todo' = todo \ {t} /\ UNCHANGED <<wire, answer, outcome>>
    BY <1>0, <1>2 DEF Bulk!Dispatch
  <2>2. BulkType' /\ \A u \in Targets \ {t} : Apart(u)
    BY <1>0, <1>2, <2>1 DEF Bulk!Dispatch, Apart, BulkType, Unwritten, Unsent, Results
  <2>3. \/ worker'[t] = "done" /\ result'[t] = "unsent"
        \/ worker'[t] = "look" /\ result'[t] = result[t]
    BY <1>0, <1>2 DEF Bulk!Dispatch, BulkType
  <2>4. Faithful(t)'
    BY <2>1, <2>3 DEF Faithful, Unwritten, Unsent
  <2>. QED BY <2>1, <2>2, <2>4, BulkAt
<1>3. ASSUME NEW t \in Targets, Bulk!Look(t) PROVE BulkInv'
  <2>1. Faithful(t) /\ UNCHANGED <<todo, answer, outcome, wire>> /\ worker[t] = "look"
    BY <1>0, <1>3 DEF Bulk!Look
  <2>2. CASE Bulk!End(t, "not connected")
    <3>0. worker'[t] = "done" /\ result'[t] = "not connected"
      BY <1>0, <2>2, BulkEnds DEF Unsent, Results
    <3>1. Faithful(t)'
      BY <2>1, <2>2, <3>0 DEF Faithful, Unwritten, Unsent
    <3>. QED BY <1>0, <2>1, <2>2, <3>1, BulkEnds, BulkAt DEF BulkType, Apart, Unsent, Results
  <2>3. CASE worker' = [worker EXCEPT ![t] = "register"] /\ UNCHANGED result
    <3>1. Faithful(t)'
      BY <1>0, <2>1, <2>3 DEF BulkType, Faithful, Unwritten, Unsent
    <3>. QED BY <1>0, <2>1, <2>3, <3>1, BulkAt DEF BulkType, Apart, Unwritten
  <2>. QED BY <1>3, <2>2, <2>3 DEF Bulk!Look
<1>4. ASSUME NEW t \in Targets, Bulk!Register(t) PROVE BulkInv'
  <2>1. Faithful(t) /\ UNCHANGED <<todo, answer, outcome, wire>> /\ worker[t] = "register"
    BY <1>0, <1>4 DEF Bulk!Register
  <2>2. CASE Bulk!End(t, "unsent")
    <3>0. worker'[t] = "done" /\ result'[t] = "unsent"
      BY <1>0, <2>2, BulkEnds DEF Unsent, Results
    <3>1. Faithful(t)'
      BY <2>1, <2>2, <3>0 DEF Faithful, Unwritten, Unsent
    <3>. QED BY <1>0, <2>1, <2>2, <3>1, BulkEnds, BulkAt DEF BulkType, Apart, Unsent, Results
  <2>3. CASE worker' = [worker EXCEPT ![t] = "write"] /\ UNCHANGED result
    <3>1. Faithful(t)'
      BY <1>0, <2>1, <2>3 DEF BulkType, Faithful, Unwritten, Unsent
    <3>. QED BY <1>0, <2>1, <2>3, <3>1, BulkAt DEF BulkType, Apart, Unwritten
  <2>. QED BY <1>4, <2>2, <2>3 DEF Bulk!Register
<1>5. ASSUME NEW t \in Targets, Bulk!Write(t) PROVE BulkInv'
  <2>1. Faithful(t) /\ UNCHANGED <<todo, answer, outcome>> /\ worker[t] = "write"
    BY <1>0, <1>5 DEF Bulk!Write
  <2>2. ASSUME NEW r \in {"unsent", "send failed"}, Bulk!End(t, r), UNCHANGED wire PROVE BulkInv'
    <3>0. worker'[t] = "done" /\ result'[t] = r
      BY <1>0, <2>2, BulkEnds DEF Unsent, Results
    <3>1. Faithful(t)'
      BY <2>1, <2>2, <3>0 DEF Faithful, Unwritten, Unsent
    <3>. QED BY <1>0, <2>1, <2>2, <3>1, BulkEnds, BulkAt DEF BulkType, Apart, Unsent, Results
  <2>3. CASE /\ wire' = [wire EXCEPT ![t] = "command"] /\ worker' = [worker EXCEPT ![t] = "wait"]
             /\ UNCHANGED result
    <3>1. Faithful(t)'
      BY <1>0, <2>1, <2>3 DEF BulkType, Faithful, Unwritten, Unsent
    <3>. QED BY <1>0, <2>1, <2>3, <3>1, BulkAt DEF BulkType, Apart, Unwritten
  <2>4. CASE worker' = [worker EXCEPT ![t] = "stuck"] /\ UNCHANGED <<result, wire>>
    <3>1. Faithful(t)'
      BY <1>0, <2>1, <2>4 DEF BulkType, Faithful, Unwritten, Unsent
    <3>. QED BY <1>0, <2>1, <2>4, <3>1, BulkAt DEF BulkType, Apart, Unwritten
  <2>. QED BY <1>5, <2>2, <2>3, <2>4 DEF Bulk!Write
<1>11. ASSUME NEW t \in Targets, Bulk!Fail(t) PROVE BulkInv'
  <2>1. /\ Faithful(t) /\ UNCHANGED <<todo, answer, outcome, wire>> /\ worker[t] = "stuck"
        /\ Bulk!End(t, "send failed")
    BY <1>0, <1>11 DEF Bulk!Fail
  <2>2. worker'[t] = "done" /\ result'[t] = "send failed"
    BY <1>0, <2>1, BulkEnds DEF Unsent, Results
  <2>3. Faithful(t)'
    BY <2>1, <2>2 DEF Faithful, Unwritten, Unsent
  <2>. QED BY <1>0, <2>1, <2>3, BulkEnds, BulkAt DEF BulkType, Apart, Unsent, Results
<1>6. ASSUME NEW t \in Targets, Bulk!Wait(t) PROVE BulkInv'
  <2>1. Faithful(t) /\ UNCHANGED <<todo, wire, answer, outcome>> /\ worker[t] = "wait"
    BY <1>0, <1>6 DEF Bulk!Wait
  <2>2. PICK r \in {"success", "failure", "accepted", "timeout", "unknown"} :
           /\ Bulk!End(t, r)
           /\ r = "success" => answer[t] = "good"
           /\ r = "failure" => answer[t] = "bad"
    BY <1>6 DEF Bulk!Wait, Bulk!NoAnswer
  <2>3. Faithful(t)'
    BY <1>0, <2>1, <2>2, BulkEnds DEF Faithful, Unwritten, Unsent, Results
  <2>. QED BY <1>0, <2>1, <2>2, <2>3, BulkEnds, BulkAt DEF BulkType, Apart, Results
<1>7. ASSUME NEW t \in Targets, Bulk!Execute(t) PROVE BulkInv'
  <2>1. Faithful(t) /\ UNCHANGED <<todo, worker, result, answer>> /\ wire[t] = "command"
    BY <1>0, <1>7 DEF Bulk!Execute
  <2>2. PICK o \in {"done", "failed", "torn"}, w \in {"none", "good", "bad"} :
           /\ outcome' = [outcome EXCEPT ![t] = o] /\ wire' = [wire EXCEPT ![t] = w]
           /\ w = "good" => o = "done"
           /\ w = "bad" => o = "failed"
    BY <1>7 DEF Bulk!Execute, Bulk!Suppressed
  <2>3. BulkType' /\ \A u \in Targets \ {t} : Apart(u)
    BY <1>0, <2>1, <2>2 DEF BulkType, Apart
  <2>4. Faithful(t)'
    BY <1>0, <2>1, <2>2 DEF BulkType, Faithful, Unwritten, Unsent
  <2>. QED BY <2>1, <2>3, <2>4, BulkAt
<1>8. ASSUME NEW t \in Targets, Bulk!Disconnect(t) PROVE BulkInv'
  BY <1>8 DEF Bulk!Disconnect, BulkInv, BulkType, Faithful, Unwritten, Unsent
<1>9. ASSUME NEW t \in Targets, Bulk!Receive(t) PROVE BulkInv'
  BY <1>9, ZenonT(60) DEF Bulk!Receive, BulkInv, BulkType, Faithful, Unwritten, Unsent
<1>10. CASE UNCHANGED Bulk!cmdVars
  BY <1>10 DEF Bulk!cmdVars, BulkInv, BulkType, Faithful
<1>. QED BY <1>1, <1>2, <1>3, <1>4, <1>5, <1>6, <1>7, <1>8, <1>9, <1>10, <1>11
         DEF Bulk!Next, Bulk!Work

(***************************************************************************)
(* A request that is about to be dispatched.                               *)
(***************************************************************************)
LEMMA BulkInit == Bulk!Init \/ BulkAtRest => BulkInv
BY ZenonT(60) DEF Bulk!Init, BulkAtRest, BulkInv, BulkType, Faithful, Unwritten, Unsent, Results

(***************************************************************************)
(* What the client is told of a machine is what happened there.            *)
(***************************************************************************)
LEMMA BulkTrue == BulkInv => Bulk!AnswersAreTrue
BY DEF BulkInv, BulkType, Faithful, Unwritten, Unsent, Bulk!AnswersAreTrue

(***************************************************************************)
(* However the client, the sockets and the timers cut in: a machine        *)
(* reported as not reached never runs the command, success and failure are *)
(* the outcomes there, and a command that takes its own agent down is      *)
(* never reported as failed.                                               *)
(***************************************************************************)
THEOREM BulkAnswersTrue == Bulk!Spec => []Bulk!AnswersAreTrue
BY BulkInit, BulkStep, BulkTrue, PTL DEF Bulk!Spec

-----------------------------------------------------------------------------
(***************************************************************************)
(* All three together, the specification of the runs.                      *)
(***************************************************************************)
THEOREM ServicesAreSafe == ServicesSpec => [](NothingKept /\ AnswersAreTrue)
<1>1. ServicesInit => Init /\ Term!Init /\ (Bulk!Init \/ BulkAtRest)
  BY DEF ServicesInit, AiAtRest
<1>2. [ServicesNext]_servicesVars => [Next]_aiVars
  BY DEF ServicesNext, servicesVars
<1>3. [ServicesNext]_servicesVars => [Term!Next]_Term!termVars
  BY DEF ServicesNext, servicesVars, termVars, Term!termVars
<1>4. [ServicesNext]_servicesVars => [Bulk!Next]_Bulk!cmdVars
  BY DEF ServicesNext, servicesVars, bulkVars, Bulk!cmdVars
<1>5. TermInv /\ BulkInv => AnswersAreTrue
  BY BulkTrue, TermShown DEF AnswersAreTrue
<1>6. TermInv /\ [Term!Next]_Term!termVars => TermInv'
  BY TermStep, ServicesAssumption DEF ServicesAssumption
<1>. QED BY <1>1, <1>2, <1>3, <1>4, <1>5, <1>6, NothingIsKept, TermInit, BulkInit, BulkStep, PTL
         DEF ServicesSpec, Spec
=============================================================================
