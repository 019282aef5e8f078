------------------------------ MODULE Services ------------------------------
(***************************************************************************)
(* What the hub and an agent do over a live connection for a user who      *)
(* waits: the AI-session switch (AiSessions, which this module extends), a *)
(* terminal session (Term) and a bulk command (Bulk).  They share no       *)
(* state: a behaviour is about one of them, and the others are at rest, in *)
(* a state in which their fairness asks for nothing.                       *)
(***************************************************************************)
EXTENDS AiSessions

CONSTANTS Browsers, Targets, Severing, Concurrency

VARIABLES
    part,               \* "ai", "terminal" or "bulk"
    listed, ws, held, failed, heard, told, starter, expiry, command, refusal, handler,
    relay, mate, copier,
    todo, slots, worker, result, pending, wire, answer, outcome, online, deaf, canceled

Term == INSTANCE Terminal
Bulk == INSTANCE Commands

termVars ==
    <<listed, ws, held, failed, heard, told, starter, expiry, command, refusal, handler,
      relay, mate, copier>>
bulkVars ==
    <<todo, slots, worker, result, pending, wire, answer, outcome, online, deaf, canceled>>
servicesVars == <<part, aiVars, termVars, bulkVars>>

\* No socket is numbered 0, which stands for none in the registry, and a browser is
\* neither the agent nor none.
ASSUME ServicesAssumption == 0 \notin Conns /\ {"agent", "none"} \cap Browsers = {}

\* A switch that is off and that nobody touches.
AiAtRest == Init /\ saved = FALSE /\ \A k \in DOMAIN aiBudget : aiBudget[k] = 0

\* A request that was canceled before it reached anybody.
BulkAtRest ==
    /\ todo = {} /\ slots = 0 /\ pending = {} /\ canceled = TRUE /\ online = {} /\ deaf = {}
    /\ worker = [t \in Targets |-> "done"] /\ result = [t \in Targets |-> "unsent"]
    /\ wire = [t \in Targets |-> "none"] /\ answer = [t \in Targets |-> "none"]
    /\ outcome = [t \in Targets |-> "not run"]

ServicesInit ==
    /\ Term!Init
    /\ \/ part = "ai" /\ Init /\ BulkAtRest
       \/ part = "terminal" /\ AiAtRest /\ BulkAtRest
       \/ part = "bulk" /\ AiAtRest /\ Bulk!Init

ServicesNext ==
    \/ part = "ai" /\ Next /\ UNCHANGED <<part, termVars, bulkVars>>
    \/ part = "terminal" /\ Term!Next /\ UNCHANGED <<part, aiVars, bulkVars>>
    \/ part = "bulk" /\ Bulk!Next /\ UNCHANGED <<part, aiVars, termVars>>

ServicesSpec == ServicesInit /\ [][ServicesNext]_servicesVars
ServicesLiveSpec == ServicesSpec /\ Fair /\ Term!Fair /\ Bulk!Fair

----------------------------------------------------------------------------
\* What is told is what happened: an agent's refusal of a terminal reaches the
\* browser, and every answer to a bulk command is the truth about its machine.
AnswersAreTrue == Term!RefusalIsShown /\ Bulk!AnswersAreTrue

\* A terminal session leaves the table or is served by a relay, and a bulk request
\* returns unless an agent takes nothing off its socket.
RequestsEnd == Term!SessionEnds /\ Bulk!BulkReturns
=============================================================================
