----------------------------- MODULE Enrollment -----------------------------
(***************************************************************************)
(* How a machine gets, replaces and loses its durable credential: the      *)
(* install tokens and agent_credentials rows of the hub, the WebSocket      *)
(* handshake of hub/agentws.go, and the two files (active and pending) in   *)
(* which agent/main.go and agent/credential_handoff.go keep secrets.        *)
(*                                                                         *)
(* A secret stands for itself and for its SHA-256: the hub stores and       *)
(* compares hashes only, and two secrets never share one.  A token or a     *)
(* staged secret does not carry an instant but whether it has expired.      *)
(* The machines row, its online status and the frames that carry no         *)
(* credential are not part of this module.                                  *)
(***************************************************************************)
EXTENDS Naturals, Sequences, FiniteSets

CONSTANTS
  Machines, NoMachine,     \* machine ids; one agent process runs on each
  Windows,                 \* the machines with a wipeable BLOXOS_TOKEN
  Enrolled,                \* the machines that hold a credential initially
  Tokens, NoToken,         \* install tokens, each minted at most once
  Secrets, NoSecret,       \* values generateAgentSecret can draw (a bound)
  Conns, NoConn,           \* agent sockets open at a time (a bound)
  Faults,                  \* what may go wrong, see MayHappen
  Calms                    \* whether faults and operators may stop for good

ASSUME EnrollmentAssumption ==
  /\ Windows \subseteq Machines /\ Enrolled \subseteq Machines
  /\ IsFiniteSet(Enrolled)
  /\ NoMachine \notin Machines /\ NoToken \notin Tokens
  /\ NoSecret \notin Secrets /\ NoConn \notin Conns
  /\ Calms \in BOOLEAN

VARIABLES
  tok,      \* the tokens table
  cred,     \* the agent_credentials table
  agents,   \* Server.agents: the registered connection of each machine
  ws,       \* the locals of the handleAgentWS call that serves each socket
  up,       \* frames on their way to the hub, per socket
  down,     \* frames on their way to the agent, per socket
  file,     \* what a machine keeps across restarts: two secrets, one token
  proc,     \* the agent process of each machine
  calm      \* TRUE: from here on nothing fails and no operator intervenes

hubVars == <<tok, cred, agents, ws>>
netVars == <<up, down>>
vars == <<tok, cred, agents, ws, up, down, file, proc, calm>>

-----------------------------------------------------------------------------
(* Shapes of the state.                                                    *)

Token == [state : {"unminted", "live", "used", "expired", "gone"},
          target : Machines \cup {NoMachine}]

Credential == [active : Secrets \cup {NoSecret},
               pending : Secrets \cup {NoSecret},
               expired : BOOLEAN]

NoCredential == [active |-> NoSecret, pending |-> NoSecret, expired |-> FALSE]

(* peer is the machine whose agent dialled; id is secretMachineID; issued   *)
(* is the secret behind freshPendingSecretHash (phase "fresh") or           *)
(* stagedPendingSecretHash (phases "live" and "promote").                   *)
Handler == [phase : {"free", "secret", "pending", "cas", "token", "open",
                     "fresh", "live", "promote"},
            peer : Machines \cup {NoMachine},
            secret : Secrets \cup {NoSecret},
            token : Tokens \cup {NoToken},
            id : Machines \cup {NoMachine},
            promoted : BOOLEAN,
            issued : Secrets \cup {NoSecret},
            closed : BOOLEAN]

FreeHandler == [phase |-> "free", peer |-> NoMachine, secret |-> NoSecret,
                token |-> NoToken, id |-> NoMachine, promoted |-> FALSE,
                issued |-> NoSecret, closed |-> FALSE]

(* The phases in which a handler holds the read side of agentAuthMu.        *)
AuthPending == {"secret", "pending", "cas", "token", "open", "fresh"}

DownFrame == [type : {"rejected"}] \cup
             [type : {"enrolled", "enrollment_confirmed"}, secret : Secrets]

Disk == [active : Secrets \cup {NoSecret}, pending : Secrets \cup {NoSecret},
         token : Tokens \cup {NoToken}]

Process == [up : BOOLEAN, conn : Conns \cup {NoConn},
            token : Tokens \cup {NoToken},
            secret : Secrets \cup {NoSecret}, usedPending : BOOLEAN,
            hadPending : BOOLEAN, rejected : Secrets \cup {NoSecret}]

NoProcess == [up |-> FALSE, conn |-> NoConn, token |-> NoToken,
              secret |-> NoSecret, usedPending |-> FALSE,
              hadPending |-> FALSE, rejected |-> NoSecret]

(* A process starts when it finds an active secret or a token; otherwise    *)
(* main exits.                                                              *)
Started(d) == [NoProcess EXCEPT !.up = d.active # NoSecret \/ d.token # NoToken,
                                !.token = d.token]

TypeOK ==
  /\ tok \in [Tokens -> Token]
  /\ cred \in [Machines -> Credential]
  /\ agents \in [Machines -> Conns \cup {NoConn}]
  /\ ws \in [Conns -> Handler]
  /\ up \in [Conns -> Seq({"metrics", "enrollment_committed"})]
  /\ down \in [Conns -> Seq(DownFrame)]
  /\ file \in [Machines -> Disk]
  /\ proc \in [Machines -> Process]
  /\ calm \in BOOLEAN

(* Enrolled machines start with a secret that both sides hold.             *)
Init ==
  /\ tok = [t \in Tokens |-> [state |-> "unminted", target |-> NoMachine]]
  /\ \E s \in [Machines -> Secrets \cup {NoSecret}] :
       /\ \A m \in Machines : s[m] = NoSecret <=> m \notin Enrolled
       /\ \A m, n \in Enrolled : s[m] = s[n] => m = n
       /\ cred = [m \in Machines |-> [NoCredential EXCEPT !.active = s[m]]]
       /\ file = [m \in Machines |->
                    [active |-> s[m], pending |-> NoSecret, token |-> NoToken]]
  /\ agents = [m \in Machines |-> NoConn]
  /\ ws = [c \in Conns |-> FreeHandler]
  /\ up = [c \in Conns |-> <<>>]
  /\ down = [c \in Conns |-> <<>>]
  /\ proc = [m \in Machines |-> Started(file[m])]
  /\ calm = FALSE

-----------------------------------------------------------------------------
(* Faults.  A fault or an operator's action happens only before the calm.  *)

MayHappen(fault) == fault \in Faults /\ ~calm

CalmDown == /\ Calms /\ ~calm
            /\ calm' = TRUE
            /\ UNCHANGED <<hubVars, netVars, file, proc>>

Attached(c) == \E m \in Machines : proc[m].conn = c

(* What generateAgentSecret may return: a value nobody holds any more is as *)
(* good as one never drawn.                                                 *)
InUse(s) ==
  \/ \E m \in Machines : s \in {cred[m].active, cred[m].pending, file[m].active,
                                file[m].pending, proc[m].secret, proc[m].rejected}
  \/ \E c \in Conns : \/ s \in {ws[c].secret, ws[c].issued}
                      \/ \E i \in 1..Len(down[c]) :
                           down[c][i].type # "rejected" /\ down[c][i].secret = s

FreshSecrets == {s \in Secrets : ~InUse(s)}

-----------------------------------------------------------------------------
(* The hub's tables.                                                       *)

(* handleCreateToken: a generic install token.                              *)
handleCreateToken(t) ==
  /\ MayHappen("mint") /\ tok[t].state = "unminted"
  /\ tok' = [tok EXCEPT ![t].state = "live"]
  /\ UNCHANGED <<cred, agents, ws, netVars, file, proc, calm>>

(* handleWindowsReenrollment: a token bound to one enrolled machine.        *)
handleWindowsReenrollment(t, m) ==
  /\ MayHappen("reenroll") /\ tok[t].state = "unminted"
  /\ m \in Windows /\ cred[m].active # NoSecret
  /\ tok' = [tok EXCEPT ![t] = [state |-> "live", target |-> m]]
  /\ UNCHANGED <<cred, agents, ws, netVars, file, proc, calm>>

(* Time passes a token's expires_at, or a staged secret's.                  *)
ExpireToken(t) ==
  /\ MayHappen("expire") /\ tok[t].state = "live"
  /\ tok' = [tok EXCEPT ![t].state = "expired"]
  /\ UNCHANGED <<cred, agents, ws, netVars, file, proc, calm>>

ExpirePending(m) ==
  /\ MayHappen("expire") /\ cred[m].pending # NoSecret /\ ~cred[m].expired
  /\ cred' = [cred EXCEPT ![m].expired = TRUE]
  /\ UNCHANGED <<tok, agents, ws, netVars, file, proc, calm>>

deleteExpiredTokens ==
  /\ \E t \in Tokens : tok[t].state = "expired"
  /\ tok' = [t \in Tokens |-> IF tok[t].state = "expired"
                              THEN [tok[t] EXCEPT !.state = "gone"] ELSE tok[t]]
  /\ UNCHANGED <<cred, agents, ws, netVars, file, proc, calm>>

(* validateAgentToken: neither used, nor expired, nor unknown.              *)
TokenValid(t) == t # NoToken /\ tok[t].state = "live"

(* The checks consumeTokenAndStoreCredential repeats in its transaction.    *)
MayConsume_NoRecheck(t, m) == cred[m].active = NoSecret
MayConsume(t, m) ==
  /\ TokenValid(t)
  /\ tok[t].target \in {NoMachine, m}
  /\ cred[m].active = NoSecret

(* The checks stageTargetedCredential makes in its transaction.             *)
MayStage(t, m) == TokenValid(t) /\ tok[t].target = m /\ cred[m].active # NoSecret

(* The row it leaves: s pending with a deadline ahead, active untouched.    *)
StagedRow_Replaces(m, s) == [active |-> s, pending |-> NoSecret, expired |-> FALSE]
StagedRow(m, s) == [active |-> cred[m].active, pending |-> s, expired |-> FALSE]

(* promotePendingCredentialCAS: exactly s, strictly before its deadline.    *)
Promotable(m, s) == cred[m].pending = s /\ ~cred[m].expired

(* The row after promotePendingCredentialCAS: the secret promoted, an       *)
(* expired one cleared, any other left alone.  The two clocks that judge    *)
(* the deadline are one here.                                               *)
AfterCAS_PromotesExpired(m, s) ==
  IF cred[m].pending # s THEN cred[m]
  ELSE [active |-> s, pending |-> NoSecret, expired |-> FALSE]
AfterCAS(m, s) ==
  IF cred[m].pending # s THEN cred[m]
  ELSE [active |-> IF cred[m].expired THEN cred[m].active ELSE s,
        pending |-> NoSecret, expired |-> FALSE]

-----------------------------------------------------------------------------
(* The handshake handler.                                                  *)

(* A write reaches the agent only while it still reads this socket.         *)
Send(c, frame) ==
  down' = IF Attached(c) THEN [down EXCEPT ![c] = Append(@, frame)] ELSE down

(* enrollment_confirmed names the secret it confirms.                       *)
Confirmation(s) == [type |-> "enrollment_confirmed", secret |-> s]

(* registerAgentConnection: the new socket owns the entry, the one it       *)
(* displaces is closed; h is the handler of c afterwards, rest the frames   *)
(* of c left to read.                                                       *)
Register(m, c, h, rest) ==
  LET old == agents[m] IN
  /\ agents' = [agents EXCEPT ![m] = c]
  /\ ws' = [d \in Conns |-> IF d = c THEN h
                            ELSE IF d = old THEN [ws[d] EXCEPT !.closed = TRUE]
                            ELSE ws[d]]
  /\ up' = [d \in Conns |-> IF d = c THEN rest
                            ELSE IF d = old THEN <<>> ELSE up[d]]

(* A return from handleAgentWS: ws.Close and unregisterAgentConnection.     *)
Leave(c) ==
  /\ ws' = [ws EXCEPT ![c] = FreeHandler]
  /\ up' = [up EXCEPT ![c] = <<>>]
  /\ agents' = [m \in Machines |-> IF agents[m] = c THEN NoConn ELSE agents[m]]

(* A 401 before the upgrade.                                                *)
Reject(c) == Leave(c) /\ Send(c, [type |-> "rejected"])

(* An invalid secret: 401, unless there is a token to fall back to.         *)
SecretInvalid(c) ==
  \/ /\ ws[c].token = NoToken
     /\ Reject(c)
  \/ /\ ws[c].token # NoToken
     /\ ws' = [ws EXCEPT ![c].secret = NoSecret, ![c].phase = "token"]
     /\ UNCHANGED <<agents, netVars>>

(* lookupActiveCredential, the first statement of validateAgentSecret.      *)
LookupActive(c) ==
  /\ ws[c].phase = "secret"
  /\ LET hit == {m \in Machines : cred[m].active = ws[c].secret} IN
     ws' = [ws EXCEPT ![c] =
              IF @.secret = NoSecret THEN [@ EXCEPT !.phase = "token"]
              ELSE IF hit = {} THEN [@ EXCEPT !.phase = "pending"]
              ELSE [@ EXCEPT !.phase = "token", !.id = CHOOSE m \in hit : TRUE]]
  /\ UNCHANGED <<tok, cred, agents, netVars, file, proc, calm>>

(* The second statement: is this some machine's pending secret?  No such    *)
(* row is an invalid secret, whatever the first statement would say by now. *)
LookupPending(c) ==
  /\ ws[c].phase = "pending"
  /\ \/ /\ \E m \in Machines : cred[m].pending = ws[c].secret
        /\ ws' = [ws EXCEPT ![c].phase = "cas"]
        /\ UNCHANGED <<agents, netVars>>
     \/ /\ \A m \in Machines : cred[m].pending # ws[c].secret
        /\ SecretInvalid(c)
  /\ UNCHANGED <<tok, cred, file, proc, calm>>

(* promotePendingCredentialCAS for the row found, and when it promotes      *)
(* nothing a second lookupActiveCredential: whoever won the race may have   *)
(* made the secret active.                                                  *)
PromotePending(c) ==
  LET s == ws[c].secret
      promotes == {m \in Machines : Promotable(m, s)}
      hit == {m \in Machines : cred[m].active = s} IN
  /\ ws[c].phase = "cas"
  /\ cred' = [m \in Machines |-> AfterCAS(m, s)]
  /\ \/ /\ \E m \in promotes :
             ws' = [ws EXCEPT ![c].phase = "token", ![c].id = m, ![c].promoted = TRUE]
        /\ UNCHANGED <<agents, netVars>>
     \/ /\ promotes = {}
        /\ \E m \in hit : ws' = [ws EXCEPT ![c].phase = "token", ![c].id = m]
        /\ UNCHANGED <<agents, netVars>>
     \/ /\ promotes = {} /\ hit = {}
        /\ SecretInvalid(c)
  /\ UNCHANGED <<tok, file, proc, calm>>

(* A database error in any of them counts as a miss.                        *)
LookupFails(c) ==
  /\ MayHappen("dberror")
  /\ \/ /\ ws[c].phase = "secret" /\ ws[c].secret # NoSecret
        /\ ws' = [ws EXCEPT ![c].phase = "pending"]
        /\ UNCHANGED <<agents, netVars>>
     \/ ws[c].phase \in {"pending", "cas"} /\ SecretInvalid(c)
  /\ UNCHANGED <<tok, cred, file, proc, calm>>

(* dualCredentialTargetedReenroll.                                          *)
Dual(c) == ws[c].id # NoMachine /\ TokenValid(ws[c].token)
           /\ tok[ws[c].token].target = ws[c].id

(* validateAgentToken, then one of three ways on: 401, an ordinary          *)
(* reconnect that is registered (and confirmed when this very call promoted *)
(* its secret or it still carries a token), or an upgraded socket that must *)
(* name its machine in its first metrics frame.                             *)
VerifyToken(c) ==
  LET sent == IF Attached(c) THEN <<"metrics">> ELSE <<>> IN
  /\ ws[c].phase = "token"
  /\ \/ /\ ws[c].id = NoMachine /\ ~TokenValid(ws[c].token)
        /\ Reject(c)
     \/ /\ ws[c].id # NoMachine /\ ~Dual(c)
        /\ Register(ws[c].id, c, [ws[c] EXCEPT !.phase = "live"], sent)
        /\ IF ws[c].promoted \/ ws[c].token # NoToken
           THEN Send(c, Confirmation(ws[c].secret)) ELSE UNCHANGED down
     \/ /\ Dual(c) \/ (ws[c].id = NoMachine /\ TokenValid(ws[c].token))
        /\ ws' = [ws EXCEPT ![c].phase = "open"]
        /\ up' = [up EXCEPT ![c] = sent]
        /\ UNCHANGED <<agents, down>>
  /\ UNCHANGED <<tok, cred, file, proc, calm>>

(* The next frame of a socket the hub has not closed.                       *)
Reads(c, type) == ~ws[c].closed /\ up[c] # <<>> /\ Head(up[c]) = type

TargetOf(c) == tok[ws[c].token].target

(* First metrics frame, refused: the credential or the token names another  *)
(* machine, a generic token meets an existing credential, or the token was  *)
(* spent since the handshake.  Nothing is written.                          *)
RefuseEnrollment(c) ==
  LET m == ws[c].peer IN
  /\ ws[c].phase = "open" /\ Reads(c, "metrics")
  /\ \/ ws[c].id \notin {NoMachine, m}
     \/ TargetOf(c) \notin {NoMachine, m}
     \/ cred[m].active # NoSecret /\ ~MayStage(ws[c].token, m)
  /\ Leave(c)
  /\ UNCHANGED <<tok, cred, down, file, proc, calm>>

(* First metrics frame under a token for this very machine: the new secret  *)
(* is staged beside the active one and the token is spent.  The socket is   *)
(* registered unless the write of the secret fails.                         *)
StageReenrollment(c) ==
  LET m == ws[c].peer IN
  /\ ws[c].phase = "open" /\ Reads(c, "metrics")
  /\ ws[c].id \in {NoMachine, m} /\ MayStage(ws[c].token, m)
  /\ \E s \in FreshSecrets :
       /\ tok' = [tok EXCEPT ![ws[c].token].state = "used"]
       /\ cred' = [cred EXCEPT ![m] = StagedRow(m, s)]
       /\ \/ /\ Register(m, c, [ws[c] EXCEPT !.phase = "live", !.issued = s],
                          Tail(up[c]))
             /\ Send(c, [type |-> "enrolled", secret |-> s])
          \/ /\ ~Attached(c)
             /\ Leave(c)
             /\ UNCHANGED down
  /\ UNCHANGED <<file, proc, calm>>

(* First metrics frame of a machine without a credential: a secret is       *)
(* issued and nothing is written yet.                                       *)
IssueFresh(c) ==
  LET m == ws[c].peer IN
  /\ ws[c].phase = "open" /\ Reads(c, "metrics")
  /\ ws[c].id \in {NoMachine, m} /\ TargetOf(c) \in {NoMachine, m}
  /\ cred[m].active = NoSecret
  /\ \E s \in FreshSecrets :
       /\ ws' = [ws EXCEPT ![c].phase = "fresh", ![c].issued = s]
       /\ up' = [up EXCEPT ![c] = Tail(@)]
       /\ Send(c, [type |-> "enrolled", secret |-> s])
  /\ UNCHANGED <<tok, cred, agents, file, proc, calm>>

(* enrollment_committed of a fresh enrollment, the commit point: token and  *)
(* credential in one transaction, then registration and confirmation.       *)
CommitFresh(c) ==
  LET m == ws[c].peer  s == ws[c].issued IN
  /\ ws[c].phase = "fresh" /\ Reads(c, "enrollment_committed")
  /\ \/ /\ MayConsume(ws[c].token, m)
        /\ tok' = [tok EXCEPT ![ws[c].token].state = "used"]
        /\ cred' = [cred EXCEPT ![m] = [NoCredential EXCEPT !.active = s]]
        /\ Register(m, c, [ws[c] EXCEPT !.phase = "live", !.issued = NoSecret],
                    Tail(up[c]))
        /\ Send(c, Confirmation(s))
     \/ /\ ~MayConsume(ws[c].token, m)
        /\ Leave(c)
        /\ UNCHANGED <<tok, cred, down>>
  /\ UNCHANGED <<file, proc, calm>>

(* A frame of an established socket: metrics are ingested (not modelled),   *)
(* an enrollment_committed goes on to the promotion if this connection      *)
(* staged a secret and still owns its registry entry.                       *)
ReadLive(c) ==
  LET m == ws[c].peer IN
  /\ ws[c].phase = "live" /\ up[c] # <<>> /\ ~ws[c].closed
  /\ \/ /\ agents[m] # c \/ (Reads(c, "enrollment_committed") /\ ws[c].issued = NoSecret)
        /\ Leave(c)
     \/ /\ agents[m] = c
        /\ Reads(c, "metrics") \/ ws[c].issued # NoSecret
        /\ up' = [up EXCEPT ![c] = Tail(@)]
        /\ ws' = IF Reads(c, "metrics") THEN ws ELSE [ws EXCEPT ![c].phase = "promote"]
        /\ UNCHANGED agents
  /\ UNCHANGED <<tok, cred, down, file, proc, calm>>

(* promotePendingCredentialCAS for the staged secret, then the confirmation *)
(* (the write fails when the socket was closed meanwhile).                  *)
PromoteStaged(c) ==
  LET m == ws[c].peer  s == ws[c].issued IN
  /\ ws[c].phase = "promote"
  /\ cred' = [cred EXCEPT ![m] = AfterCAS(m, s)]
  /\ \/ /\ Promotable(m, s) /\ ~ws[c].closed
        /\ ws' = [ws EXCEPT ![c].phase = "live", ![c].issued = NoSecret]
        /\ Send(c, Confirmation(s))
        /\ UNCHANGED <<agents, up>>
     \/ /\ ~Promotable(m, s) \/ ws[c].closed
        /\ Leave(c)
        /\ UNCHANGED down
  /\ UNCHANGED <<tok, file, proc, calm>>

(* The read fails: the socket is closed, its peer is gone and every frame   *)
(* is read, or a deadline passes (the auth window or the idle timeout).     *)
ReadError(c) ==
  /\ ws[c].phase \in {"open", "fresh", "live"}
  /\ \/ ws[c].closed
     \/ ~Attached(c) /\ up[c] = <<>>
     \/ MayHappen("timeout")
  /\ Leave(c)
  /\ UNCHANGED <<tok, cred, down, file, proc, calm>>

HubRestart ==
  /\ MayHappen("restart")
  /\ ws' = [c \in Conns |-> FreeHandler]
  /\ up' = [c \in Conns |-> <<>>]
  /\ agents' = [m \in Machines |-> NoConn]
  /\ UNCHANGED <<tok, cred, down, file, proc, calm>>

(* The write side of agentAuthMu: no handler is between its first           *)
(* statement and its registration.                                          *)
AuthIdle_NoLock == TRUE
AuthIdle == \A c \in Conns : ws[c].phase \notin AuthPending

(* The credential row goes, and the registered socket is closed.            *)
RemoveCredential(m) ==
  LET old == agents[m] IN
  /\ AuthIdle
  /\ cred' = [cred EXCEPT ![m] = NoCredential]
  /\ agents' = [agents EXCEPT ![m] = NoConn]
  /\ ws' = [c \in Conns |-> IF c = old THEN [ws[c] EXCEPT !.closed = TRUE] ELSE ws[c]]
  /\ up' = [c \in Conns |-> IF c = old THEN <<>> ELSE up[c]]
  /\ UNCHANGED <<tok, down, file, proc, calm>>

handleRevokeAgentCredential(m) == MayHappen("revoke") /\ RemoveCredential(m)

handleDeleteMachine(m) == MayHappen("delete") /\ RemoveCredential(m)

-----------------------------------------------------------------------------
(* The agent.                                                              *)

(* The agent's end of the socket closes: what the hub sent is lost, and so  *)
(* may be the last frames the agent sent.                                   *)
Detach(m) ==
  LET c == proc[m].conn IN
  IF c = NoConn THEN UNCHANGED netVars
  ELSE /\ down' = [down EXCEPT ![c] = <<>>]
       /\ \E n \in 0..Len(up[c]) : up' = [up EXCEPT ![c] = SubSeq(@, 1, n)]

(* An operator runs an install command on m: the token is kept for the      *)
(* service and the service restarted.  No secret file is touched.           *)
Install(m, t) ==
  /\ MayHappen("install") /\ tok[t].state # "unminted" /\ file[m].token # t
  /\ file' = [file EXCEPT ![m].token = t]
  /\ proc' = [proc EXCEPT ![m] = Started(file'[m])]
  /\ Detach(m)
  /\ UNCHANGED <<hubVars, calm>>

(* Restore-PreviousInstall after the installer's completion gate times out  *)
(* on an enrolled machine: the token is taken back.                         *)
RollbackInstall(m) ==
  /\ MayHappen("install") /\ m \in Windows
  /\ file[m].token # NoToken /\ file[m].active # NoSecret
  /\ file' = [file EXCEPT ![m].token = NoToken]
  /\ proc' = [proc EXCEPT ![m] = Started(file'[m])]
  /\ Detach(m)
  /\ UNCHANGED <<hubVars, calm>>

(* The process dies and the service manager starts it again.                *)
Restart(m) ==
  /\ MayHappen("crash") /\ proc[m].up
  /\ proc' = [proc EXCEPT ![m] = Started(file[m])]
  /\ Detach(m)
  /\ UNCHANGED <<hubVars, file, calm>>

(* selectCredentialCandidate: a pending secret first, unless it is the one  *)
(* the hub is known to have rejected and there is an active one.            *)
UsePending_IgnoresRejection(pending, active, rejected) == pending # NoSecret
UsePending(pending, active, rejected) ==
  pending # NoSecret /\ (pending # rejected \/ active = NoSecret)

(* One iteration of connectLoop up to the dial.                             *)
Dial(m, c) ==
  LET d == file[m]
      usePending == UsePending(d.pending, d.active, proc[m].rejected)
      secret == IF usePending THEN d.pending ELSE d.active IN
  /\ proc[m].up /\ proc[m].conn = NoConn
  /\ secret # NoSecret \/ proc[m].token # NoToken
  /\ ws[c].phase = "free" /\ ~Attached(c) /\ down[c] = <<>>
  /\ ws' = [ws EXCEPT ![c] = [FreeHandler EXCEPT !.phase = "secret", !.peer = m,
                                !.secret = secret, !.token = proc[m].token]]
  /\ proc' = [proc EXCEPT ![m] = [@ EXCEPT !.conn = c, !.secret = secret,
                  !.usedPending = usePending, !.hadPending = d.pending # NoSecret]]
  /\ UNCHANGED <<tok, cred, agents, netVars, file, calm>>

(* nextRejectedPendingSecret, and back to the top of connectLoop.           *)
NextRejected(p, is401) ==
  IF p.usedPending /\ is401 THEN p.secret
  ELSE IF ~p.hadPending THEN NoSecret ELSE p.rejected

Redial(m, is401) ==
  proc' = [proc EXCEPT ![m] =
             [@ EXCEPT !.conn = NoConn, !.secret = NoSecret, !.usedPending = FALSE,
                       !.hadPending = FALSE, !.rejected = NextRejected(proc[m], is401)]]

(* The connection ends for the agent: the hub closed it and every frame is  *)
(* read, or the network or the pong deadline ended it.                      *)
Disconnect(m) ==
  LET c == proc[m].conn IN
  /\ c # NoConn
  /\ \/ MayHappen("drop")
     \/ ws[c].phase = "free" /\ down[c] = <<>>
     \/ ws[c].closed /\ down[c] = <<>>
  /\ Detach(m) /\ Redial(m, FALSE)
  /\ UNCHANGED <<hubVars, file, calm>>

Receives(m, type) ==
  LET c == proc[m].conn IN c # NoConn /\ down[c] # <<>> /\ Head(down[c]).type = type

(* classifyDialAuthOutcome saw a 401.                                       *)
ReceiveRejection(m) ==
  /\ Receives(m, "rejected")
  /\ Detach(m) /\ Redial(m, TRUE)
  /\ UNCHANGED <<hubVars, file, calm>>

(* handleEnrolledFrame: the secret is saved to the pending file, then the   *)
(* hub is told; a failed save tells it nothing and closes the connection.   *)
handleEnrolledFrame_NotDurable(m) ==
  LET c == proc[m].conn IN
  /\ Receives(m, "enrolled")
  /\ down' = [down EXCEPT ![c] = Tail(@)]
  /\ up' = [up EXCEPT ![c] = Append(@, "enrollment_committed")]
  /\ UNCHANGED <<hubVars, file, proc, calm>>
handleEnrolledFrame(m) ==
  LET c == proc[m].conn IN
  /\ Receives(m, "enrolled")
  /\ \/ /\ file' = [file EXCEPT ![m].pending = Head(down[c]).secret]
        /\ down' = [down EXCEPT ![c] = Tail(@)]
        /\ up' = IF ws[c].phase = "free" \/ ws[c].closed THEN up
                 ELSE [up EXCEPT ![c] = Append(@, "enrollment_committed")]
        /\ UNCHANGED proc
     \/ /\ MayHappen("savefail")
        /\ Detach(m) /\ Redial(m, FALSE)
        /\ UNCHANGED file
  /\ UNCHANGED <<hubVars, calm>>

(* The disks handleEnrollmentConfirmed may leave behind when the hub        *)
(* confirms s: pending promoted by rename; or s already active, a leftover  *)
(* pending file removed best effort; or, matching neither, no change.       *)
(* Dropping the token on disk is best effort on Windows, and not done       *)
(* elsewhere.                                                               *)
Wiped(m, d) == IF m \in Windows THEN {d, [d EXCEPT !.token = NoToken]} ELSE {d}

Confirms(m, s) == s \in {file[m].pending, file[m].active}

ConfirmedDisk_AnyHash(m, s) ==
  Wiped(m, [file[m] EXCEPT !.active = file[m].pending, !.pending = NoSecret])
ConfirmedDisk(m, s) ==
  IF file[m].pending = s
  THEN Wiped(m, [file[m] EXCEPT !.active = s, !.pending = NoSecret])
  ELSE Wiped(m, file[m]) \cup Wiped(m, [file[m] EXCEPT !.pending = NoSecret])

handleEnrollmentConfirmed(m) ==
  LET c == proc[m].conn IN
  /\ Receives(m, "enrollment_confirmed")
  /\ LET s == Head(down[c]).secret IN
     \/ /\ Confirms(m, s)
        /\ \E d \in ConfirmedDisk(m, s) : file' = [file EXCEPT ![m] = d]
        /\ proc' = [proc EXCEPT ![m].token = NoToken]
        /\ down' = [down EXCEPT ![c] = Tail(@)]
        /\ UNCHANGED up
     \/ /\ ~Confirms(m, s) \/ MayHappen("savefail")
        /\ Detach(m) /\ Redial(m, FALSE)
        /\ UNCHANGED file
  /\ UNCHANGED <<hubVars, calm>>

-----------------------------------------------------------------------------
HubStep(c) ==
  \/ LookupActive(c) \/ LookupPending(c) \/ PromotePending(c) \/ VerifyToken(c)
  \/ RefuseEnrollment(c) \/ StageReenrollment(c) \/ IssueFresh(c)
  \/ CommitFresh(c) \/ ReadLive(c) \/ PromoteStaged(c) \/ ReadError(c)

AgentStep(m) ==
  \/ \E c \in Conns : Dial(m, c)
  \/ Disconnect(m) \/ ReceiveRejection(m)
  \/ handleEnrolledFrame(m) \/ handleEnrollmentConfirmed(m)

Environment ==
  \/ CalmDown \/ deleteExpiredTokens \/ HubRestart
  \/ \E c \in Conns : LookupFails(c)
  \/ \E t \in Tokens : handleCreateToken(t) \/ ExpireToken(t)
  \/ \E m \in Machines :
       \/ ExpirePending(m) \/ RollbackInstall(m) \/ Restart(m)
       \/ handleRevokeAgentCredential(m) \/ handleDeleteMachine(m)
       \/ \E t \in Tokens : handleWindowsReenrollment(t, m) \/ Install(m, t)

Next == \/ \E c \in Conns : HubStep(c)
        \/ \E m \in Machines : AgentStep(m)
        \/ Environment

Spec == Init /\ [][Next]_vars

(* Every handler goroutine and every agent process keeps running; nothing   *)
(* is assumed of operators, faults or clocks.                               *)
Fairness == /\ \A c \in Conns : WF_vars(HubStep(c))
            /\ \A m \in Machines : WF_vars(AgentStep(m))

LiveSpec == Spec /\ Fairness

-----------------------------------------------------------------------------
(* Properties.                                                             *)

(* Revocation and deletion really cut a machine off: a registered socket,   *)
(* the one that ingests frames and takes commands, always belongs to a      *)
(* machine that holds a credential, although authentication and the         *)
(* registration it ends in are several steps.                               *)
RegisteredHasCredential ==
  \A m \in Machines : agents[m] # NoConn => cred[m].active # NoSecret

(* The secrets validateAgentSecret would accept from m.                     *)
Accepted(m) == ({cred[m].active} \cup (IF cred[m].expired THEN {} ELSE {cred[m].pending}))
                 \ {NoSecret}

(* A machine the hub considers enrolled is never left with files in which   *)
(* the hub recognises nothing, whatever frame is lost and whoever crashes.  *)
NotStranded ==
  \A m \in Machines : cred[m].active # NoSecret =>
    Accepted(m) \cap {file[m].active, file[m].pending} # {}

(* connectLoop gives up on a pending secret only when the active one it     *)
(* falls back to is the one the hub takes: the rejected secret has not      *)
(* become the hub's active credential.                                      *)
FallbackIsValid ==
  \A m \in Machines :
    proc[m].rejected # NoSecret /\ file[m].pending = proc[m].rejected
      /\ file[m].active # NoSecret
    => cred[m].active # proc[m].rejected

(* One token, one machine: every credential beyond the initial ones is      *)
(* paid for by a token of its own, so two machines that run the same        *)
(* install command never both end up enrolled.                              *)
CredentialsPaid ==
  Cardinality({m \in Machines : cred[m].active # NoSecret})
    <= Cardinality(Enrolled) + Cardinality({t \in Tokens : tok[t].state = "used"})

(* An existing credential is replaced only by the secret that was staged    *)
(* beside it, before that one's deadline; a generic token never takes a     *)
(* machine over.                                                            *)
ReplacedOnlyByStaged ==
  [][\A m \in Machines :
       cred[m].active # NoSecret /\ cred'[m].active \notin {NoSecret, cred[m].active}
       => cred'[m].active = cred[m].pending /\ ~cred[m].expired]_vars

(* The agent overwrites its active file only with the secret the hub holds  *)
(* active at that moment (or the machine was revoked while the confirmation *)
(* was in flight).                                                          *)
PromotesWhatHubHolds ==
  [][\A m \in Machines :
       file'[m].active # file[m].active
       => cred[m].active \in {NoSecret, file'[m].active}]_vars

(* Once the network and the operators leave it alone, an agent whose        *)
(* machine is enrolled gets back to a registered connection: it does not    *)
(* circle between a pending secret that is refused and its fallback.        *)
Reconnects ==
  \A m \in Machines :
    calm ~> (agents[m] # NoConn \/ cred[m].active = NoSecret)

=============================================================================
