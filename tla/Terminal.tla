------------------------------ MODULE Terminal ------------------------------
(***************************************************************************)
(* One web terminal: the hub's session, the agent's socket and those of    *)
(* the browsers that dial with its token, the timers that give up on a     *)
(* side that never comes, the agent's refusal, the relays                  *)
(* (hub/terminal.go), and the agent's two copying goroutines               *)
(* (agent/main_linux.go).                                                  *)
(***************************************************************************)
EXTENDS Integers, FiniteSets

CONSTANT Browsers   \* sockets dialled with the browser's token

Sockets == {"agent"} \cup Browsers

VARIABLES
  listed,     \* the session is in termSessions
  ws,         \* [Sockets -> "none" | "open" | "closed"]
  held,       \* session.BrowserWS, "none" before the first browser
  failed,     \* session.FailReason is set
  heard,      \* the browser the refusal found in the session
  told,       \* browsers that were shown the reason
  starter,    \* handleStartTerminal: "idle", "insert", "send", "done"
  expiry,     \* the timer of the terminal token: "off", "armed", "fired"
  command,    \* start_terminal: "none", "sent", "refused", "dialing", "done"
  refusal,    \* failTerminalSessionFromAgent: "none", "looked", "telling", "done"
  handler,    \* [Sockets -> "idle" | "found" | "telling" | "waiting" | "done"]
  relay,      \* by the socket that started it: "off", "starting", "on", "ended"
  mate,       \* the browser that relay copies to and from
  copier      \* the agent's goroutines: "off", "on", "leaving", "left"

termVars == <<listed, ws, held, failed, heard, told, starter, expiry, command, refusal,
              handler, relay, mate, copier>>

Directions == {"out", "in"}     \* from the PTY, and to it

Init ==
  /\ listed = FALSE
  /\ ws = [s \in Sockets |-> "none"] /\ held = "none"
  /\ failed = FALSE /\ heard = "none" /\ told = {}
  /\ starter = "idle" /\ expiry = "off"
  /\ command = "none" /\ refusal = "none"
  /\ handler = [s \in Sockets |-> "idle"]
  /\ relay = [s \in Sockets |-> "off"] /\ mate = [s \in Sockets |-> "none"]
  /\ copier = [d \in Directions |-> "off"]

(* cleanupTerminalSession: only the caller that takes the session out of    *)
(* the table closes sockets, the two the session names.                    *)
Cleanup ==
  /\ listed' = FALSE
  /\ ws' = IF ~listed THEN ws
           ELSE [s \in Sockets |->
                   IF s \in {"agent", held} /\ ws[s] = "open" THEN "closed" ELSE ws[s]]

-----------------------------------------------------------------------------
(***************************************************************************)
(* Starting, closing, giving up.                                           *)
(***************************************************************************)

Start ==
  /\ starter = "idle"
  /\ starter' = "send"
  /\ listed' = TRUE
  /\ expiry' = "armed"
  /\ UNCHANGED <<ws, held, failed, heard, told, command, refusal, handler, relay, mate, copier>>

(* The command is written, without a deadline, or the session is taken out  *)
(* again.                                                                  *)
SendStart ==
  /\ starter = "send"
  /\ starter' = "done"
  /\ \/ command' = "sent" /\ UNCHANGED listed
     \/ listed' = FALSE /\ UNCHANGED command
  /\ UNCHANGED <<ws, held, failed, heard, told, expiry, refusal, handler, relay, mate, copier>>

CloseByUser ==
  /\ listed /\ starter = "done"
  /\ Cleanup
  /\ UNCHANGED <<held, failed, heard, told, starter, expiry, command, refusal, handler,
                 relay, mate, copier>>

(* Thirty seconds after the start: no agent, no session.                    *)
Expire ==
  /\ expiry = "armed"
  /\ expiry' = "fired"
  /\ IF listed /\ ws["agent"] = "none" THEN Cleanup ELSE UNCHANGED <<listed, ws>>
  /\ UNCHANGED <<held, failed, heard, told, starter, command, refusal, handler, relay, mate,
                 copier>>

-----------------------------------------------------------------------------
(***************************************************************************)
(* The agent.                                                              *)
(***************************************************************************)

AgentAnswers ==
  /\ command = "sent"
  /\ command' \in {"refused", "dialing", "done"}
  /\ UNCHANGED <<listed, ws, held, failed, heard, told, starter, expiry, refusal, handler,
                 relay, mate, copier>>

(* The hub reads the refusal: it finds the session, and under its lock      *)
(* notes the reason and which browser is there.                            *)
ReadRefusal ==
  /\ command = "refused" /\ refusal = "none"
  /\ refusal' = IF listed THEN "looked" ELSE "done"
  /\ UNCHANGED <<listed, ws, held, failed, heard, told, starter, expiry, command, handler,
                 relay, mate, copier>>

NoteRefusal ==
  /\ refusal = "looked"
  /\ IF ws["agent"] # "none" THEN refusal' = "done" /\ UNCHANGED <<failed, heard>>
     ELSE /\ failed' = TRUE
          /\ heard' = held
          /\ refusal' = IF held = "none" THEN "done" ELSE "telling"
  /\ UNCHANGED <<listed, ws, held, told, starter, expiry, command, handler, relay, mate,
                 copier>>

Tell(b) == told' = IF ws[b] = "open" THEN told \cup {b} ELSE told

TellBrowser ==
  /\ refusal = "telling"
  /\ refusal' = "done"
  /\ Tell(heard)
  /\ Cleanup
  /\ UNCHANGED <<held, failed, heard, starter, expiry, command, handler, relay, mate, copier>>

-----------------------------------------------------------------------------
(***************************************************************************)
(* The sockets' handlers (handleTerminalWS).                               *)
(***************************************************************************)

\* The browser's token is good for a minute, not for one socket.
MayDial(s) == IF s = "agent" THEN command = "dialing"
              ELSE starter = "done" /\ command # "none"

FindSession(s) ==
  /\ handler[s] = "idle" /\ MayDial(s)
  /\ handler' = [handler EXCEPT ![s] = IF listed THEN "found" ELSE "done"]
  /\ command' = IF s = "agent" THEN "done" ELSE command
  /\ UNCHANGED <<listed, ws, held, failed, heard, told, starter, expiry, refusal, relay, mate,
                 copier>>

\* A browser that comes after the refusal is told the reason.
IsRefused_Ignored(s) == FALSE
IsRefused(s) == s # "agent" /\ failed

(* The upgrade is done and the socket becomes the session's, in the place   *)
(* of an earlier browser, whatever happened since it was found.  Whoever    *)
(* finds both sides there starts a relay.                                  *)
Attach(s) ==
  /\ handler[s] = "found"
  /\ IF s = "agent" /\ failed
     THEN /\ handler' = [handler EXCEPT ![s] = "done"]
          /\ UNCHANGED <<ws, held, relay, copier>>
     ELSE /\ ws' = [ws EXCEPT ![s] = "open"]
          /\ held' = IF s = "agent" THEN held ELSE s
          /\ copier' = IF s = "agent" THEN [d \in Directions |-> "on"] ELSE copier
          /\ IF IsRefused(s)
             THEN handler' = [handler EXCEPT ![s] = "telling"] /\ UNCHANGED relay
             ELSE IF ws'["agent"] # "none" /\ held' # "none"
             THEN /\ handler' = [handler EXCEPT ![s] = "done"]
                  /\ relay' = [relay EXCEPT ![s] = "starting"]
             ELSE handler' = [handler EXCEPT ![s] = "waiting"] /\ UNCHANGED relay
  /\ UNCHANGED <<listed, failed, heard, told, starter, expiry, command, refusal, mate>>

RefuseBrowser(b) ==
  /\ handler[b] = "telling"
  /\ handler' = [handler EXCEPT ![b] = "done"]
  /\ Tell(b)
  /\ Cleanup
  /\ UNCHANGED <<held, failed, heard, starter, expiry, command, refusal, relay, mate, copier>>

\* Thirty seconds later the session is given up unless both sides came.
Missing_Both == ws["agent"] = "none" /\ held = "none"
Missing == ws["agent"] = "none" \/ held = "none"

GiveUp(s) ==
  /\ handler[s] = "waiting"
  /\ handler' = [handler EXCEPT ![s] = "done"]
  /\ IF Missing THEN Cleanup ELSE UNCHANGED <<listed, ws>>
  /\ UNCHANGED <<held, failed, heard, told, starter, expiry, command, refusal, relay, mate,
                 copier>>

-----------------------------------------------------------------------------
(***************************************************************************)
(* The relays, and the agent's end of them.                                *)
(***************************************************************************)

StartRelay(s) ==
  /\ relay[s] = "starting"
  /\ relay' = [relay EXCEPT ![s] = "on"]
  /\ mate' = [mate EXCEPT ![s] = held]
  /\ UNCHANGED <<listed, ws, held, failed, heard, told, starter, expiry, command, refusal,
                 handler, copier>>

\* A tab is closed, a shell exits, a network goes away.
PeerCloses(s) ==
  /\ ws[s] = "open"
  /\ ws' = [ws EXCEPT ![s] = "closed"]
  /\ UNCHANGED <<listed, held, failed, heard, told, starter, expiry, command, refusal,
                 handler, relay, mate, copier>>

Broken(s) == relay[s] = "on" /\ "closed" \in {ws["agent"], ws[mate[s]]}

\* On a socket that fails, or after thirty minutes without a byte either way.
EndRelay(s) ==
  /\ relay[s] = "on"
  /\ relay' = [relay EXCEPT ![s] = "ended"]
  /\ Cleanup
  /\ UNCHANGED <<held, failed, heard, told, starter, expiry, command, refusal, handler, mate,
                 copier>>

\* The agent's goroutines leave on an error of the PTY or of the socket, and
\* each closes `done` unless it finds it closed.
Leave(d) ==
  /\ copier[d] = "on"
  /\ copier' = [copier EXCEPT ![d] =
                  IF "left" \in {copier[e] : e \in Directions} THEN "left" ELSE "leaving"]
  /\ UNCHANGED <<listed, ws, held, failed, heard, told, starter, expiry, command, refusal,
                 handler, relay, mate>>

CloseDone(d) ==
  /\ copier[d] = "leaving"
  /\ copier' = [copier EXCEPT ![d] =
                  IF "left" \in {copier[e] : e \in Directions} THEN "panic" ELSE "left"]
  /\ UNCHANGED <<listed, ws, held, failed, heard, told, starter, expiry, command, refusal,
                 handler, relay, mate>>

Work ==
  \/ Expire \/ ReadRefusal \/ NoteRefusal \/ TellBrowser
  \/ \E b \in Browsers : RefuseBrowser(b)
  \/ \E s \in Sockets : Attach(s) \/ GiveUp(s) \/ StartRelay(s) \/ (Broken(s) /\ EndRelay(s))

Next ==
  \/ Start \/ SendStart \/ CloseByUser \/ AgentAnswers \/ Work
  \/ \E s \in Sockets : FindSession(s) \/ PeerCloses(s) \/ EndRelay(s)
  \/ \E d \in Directions : Leave(d) \/ CloseDone(d)

(***************************************************************************)
(* Timers fire, handlers go on, a relay notices a socket that is closed.   *)
(* The command may never be written, nobody has to answer or to dial, and  *)
(* a relay that keeps hearing from a side has no end.                      *)
(***************************************************************************)
Fair == WF_termVars(Work)

Spec == Init /\ [][Next]_termVars
LiveSpec == Spec /\ Fair

-----------------------------------------------------------------------------
\* A relay between two sockets that are open.
Serving == \E s \in Sockets : relay[s] = "on" /\ {ws["agent"], ws[mate[s]]} = {"open"}

(***************************************************************************)
(* A session holds one of the user's three places (maxTerminalSessions).   *)
(* Whichever side comes first, late, twice or never, and whatever is       *)
(* refused, closed or left unanswered meanwhile, it leaves the table, or a *)
(* relay serves it.                                                        *)
(***************************************************************************)
SessionEnds == listed ~> (~listed \/ Serving)

(***************************************************************************)
(* An agent's refusal reaches the browser, whether it came before or after *)
(* it, unless the session was closed in between                            *)
(* (failTerminalSessionFromAgent, handleTerminalWS).  A browser that       *)
(* another one replaced before the refusal is not the session's any more.  *)
(***************************************************************************)
RefusalIsShown ==
  (failed /\ refusal = "done") =>
    \A b \in {heard, held} \ {"none"} :
      (ws[b] = "open" /\ handler[b] # "telling") => b \in told

(***************************************************************************)
(* "A check-then-close select is not atomic: two of them can both see the  *)
(* channel open and the second close panics the process" (terminalRelay,   *)
(* where it is avoided): the agent's end must not panic either.            *)
(***************************************************************************)
AgentNeverPanics == \A d \in Directions : copier[d] # "panic"

(***************************************************************************)
(* A session that is over and has no handler left keeps no socket open     *)
(* ("the single teardown path", handleCloseTerminal).                      *)
(***************************************************************************)
SocketsClosed ==
  (starter = "done" /\ ~listed /\ refusal # "telling"
     /\ \A s \in Sockets : relay[s] \notin {"starting", "on"} /\ handler[s] \in {"idle", "done"})
    => \A s \in Sockets : ws[s] # "open"
=============================================================================
