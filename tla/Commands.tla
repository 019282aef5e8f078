------------------------------ MODULE Commands ------------------------------
(***************************************************************************)
(* A command sent to several machines at once (handleBulkCommand; one      *)
(* target is handleCommand): a bounded number of goroutines, the table of  *)
(* waiting commands, the agent that runs the command and answers, and the  *)
(* three ways a wait ends.  The client may go away at any moment, a socket *)
(* may drop, and a command may take down the agent that runs it.           *)
(***************************************************************************)
EXTENDS Integers, FiniteSets

CONSTANTS
  Targets,      \* the machines of the request
  Severing,     \* those on which the command takes the agent itself down
  Concurrency   \* goroutines at once (bulkCommandConcurrency)

VARIABLES
  todo,         \* targets the loop has not reached
  slots,        \* semaphore slots taken
  worker,       \* [Targets -> "none", "look", "register", "write", "stuck", "wait", "done"]
  result,       \* [Targets -> what the client is told]
  pending,      \* targets whose command id is in pendingCmds
  wire,         \* [Targets -> "none", "command", "good", "bad"]
  answer,       \* [Targets -> "none", "good", "bad"], the waiter's channel
  outcome,      \* [Targets -> "not run", "done", "failed", "torn"], the truth
  online,       \* targets whose agent is in the registry
  deaf,         \* targets whose agent sends but takes nothing off its full socket
  canceled      \* the client has gone away

cmdVars == <<todo, slots, worker, result, pending, wire, answer, outcome, online,
             deaf, canceled>>

Init ==
  /\ todo = Targets /\ slots = 0
  /\ worker = [t \in Targets |-> "none"]
  /\ result = [t \in Targets |-> "none"]
  /\ pending = {}
  /\ wire = [t \in Targets |-> "none"]
  /\ answer = [t \in Targets |-> "none"]
  /\ outcome = [t \in Targets |-> "not run"]
  /\ online \in SUBSET Targets /\ deaf \in SUBSET online
  /\ canceled = FALSE

\* A worker that ends gives its slot back: also one that found no agent.
End(t, r) ==
  /\ worker' = [worker EXCEPT ![t] = "done"]
  /\ result' = [result EXCEPT ![t] = r]
  /\ pending' = pending \ {t}
  /\ slots' = slots - 1

Cancel ==
  /\ ~canceled
  /\ canceled' = TRUE
  /\ UNCHANGED <<todo, slots, worker, result, pending, wire, answer, outcome,
                 online, deaf>>

(* The loop: a cancelled request dispatches nothing more.                   *)
Dispatch(t) ==
  /\ t \in todo
  /\ todo' = todo \ {t}
  /\ \/ /\ canceled
        /\ result' = [result EXCEPT ![t] = "unsent"]
        /\ worker' = [worker EXCEPT ![t] = "done"]
        /\ UNCHANGED slots
     \/ /\ ~canceled /\ slots < Concurrency
        /\ worker' = [worker EXCEPT ![t] = "look"]
        /\ slots' = slots + 1
        /\ UNCHANGED result
  /\ UNCHANGED <<pending, wire, answer, outcome, online, deaf, canceled>>

Look(t) ==
  /\ worker[t] = "look"
  /\ IF t \in online
     THEN /\ worker' = [worker EXCEPT ![t] = "register"]
          /\ UNCHANGED <<result, pending, slots>>
     ELSE End(t, "not connected")
  /\ UNCHANGED <<todo, wire, answer, outcome, online, deaf, canceled>>

Register(t) ==
  /\ worker[t] = "register"
  /\ IF canceled THEN End(t, "unsent")
     ELSE /\ worker' = [worker EXCEPT ![t] = "write"]
          /\ pending' = pending \cup {t}
          /\ UNCHANGED <<result, slots>>
  /\ UNCHANGED <<todo, wire, answer, outcome, online, deaf, canceled>>

(* The write, once the socket's lock is held; it may have been waited for.  *)
(* It has no deadline: what nobody reads blocks it.                        *)
Write(t) ==
  /\ worker[t] = "write"
  /\ \/ /\ canceled
        /\ End(t, "unsent")
        /\ UNCHANGED wire
     \/ /\ ~canceled /\ t \in online \ deaf
        /\ wire' = [wire EXCEPT ![t] = "command"]
        /\ worker' = [worker EXCEPT ![t] = "wait"]
        /\ UNCHANGED <<result, pending, slots>>
     \/ /\ ~canceled /\ t \in online \cap deaf
        /\ worker' = [worker EXCEPT ![t] = "stuck"]
        /\ UNCHANGED <<result, pending, slots, wire>>
     \/ /\ ~canceled /\ t \notin online
        /\ End(t, "send failed")
        /\ UNCHANGED wire
  /\ UNCHANGED <<todo, answer, outcome, online, deaf, canceled>>

\* Only the end of the socket unblocks it, with a part of the frame unsent.
Fail(t) ==
  /\ worker[t] = "stuck" /\ t \notin online
  /\ End(t, "send failed")
  /\ UNCHANGED <<todo, wire, answer, outcome, online, deaf, canceled>>

-----------------------------------------------------------------------------
(***************************************************************************)
(* The agent (handleCommand, runCommandPlan).                              *)
(***************************************************************************)

\* shouldSuppressTeardownReply: a child killed as the agent goes down is not
\* reported as a failure.
Suppressed_Never == FALSE
Suppressed == TRUE

Execute(t) ==
  /\ wire[t] = "command"
  /\ \/ /\ outcome' = [outcome EXCEPT ![t] = "done"]
        /\ wire' = [wire EXCEPT ![t] = "good"]
     \/ /\ outcome' = [outcome EXCEPT ![t] = "failed"]
        /\ wire' = [wire EXCEPT ![t] = "bad"]
     \/ /\ t \in Severing
        /\ outcome' = [outcome EXCEPT ![t] = "torn"]
        /\ wire' = [wire EXCEPT ![t] = IF Suppressed THEN "none" ELSE "bad"]
  /\ UNCHANGED <<todo, slots, worker, result, pending, answer, online, deaf, canceled>>

Disconnect(t) ==
  /\ t \in online
  /\ online' = online \ {t}
  /\ wire' = [wire EXCEPT ![t] = "none"]
  /\ UNCHANGED <<todo, slots, worker, result, pending, answer, outcome, deaf,
                 canceled>>

(* command_response: to the waiter if there still is one.                   *)
Receive(t) ==
  /\ wire[t] \in {"good", "bad"}
  /\ wire' = [wire EXCEPT ![t] = "none"]
  /\ answer' = IF t \in pending THEN [answer EXCEPT ![t] = wire[t]] ELSE answer
  /\ pending' = pending \ {t}
  /\ UNCHANGED <<todo, slots, worker, result, outcome, online, deaf, canceled>>

-----------------------------------------------------------------------------
\* What the end of the wait without an answer means (commandMayDisconnectAgent).
NoAnswer(t) == IF t \in Severing THEN "accepted" ELSE "timeout"

(* The select: whichever of the ready cases Go takes.                       *)
Wait(t) ==
  /\ worker[t] = "wait"
  /\ \/ answer[t] = "good" /\ End(t, "success")
     \/ answer[t] = "bad" /\ End(t, "failure")
     \/ End(t, NoAnswer(t))
     \/ canceled /\ End(t, "unknown")
  /\ UNCHANGED <<todo, wire, answer, outcome, online, deaf, canceled>>

Work(t) == Dispatch(t) \/ Look(t) \/ Register(t) \/ Write(t) \/ Fail(t) \/ Wait(t)

Next ==
  \/ Cancel
  \/ \E t \in Targets : Work(t) \/ Execute(t) \/ Disconnect(t) \/ Receive(t)

(***************************************************************************)
(* The hub's goroutines go on; every wait has a timer, a blocked write has *)
(* none.  No agent has to run anything, to answer, or to read.             *)
(***************************************************************************)
Fair == \A t \in Targets : WF_cmdVars(Work(t))

Spec == Init /\ [][Next]_cmdVars
LiveSpec == Spec /\ Fair

-----------------------------------------------------------------------------
(***************************************************************************)
(* What the client is told is what happened: a target reported as not      *)
(* reached never runs the command, success and failure are the outcomes on *)
(* that machine, and a command that took its own agent down is never       *)
(* reported as failed (shouldSuppressTeardownReply, bulkCanceledUnsent).   *)
(***************************************************************************)
AnswersAreTrue ==
  \A t \in Targets :
    /\ result[t] \in {"not connected", "unsent", "send failed"} =>
         outcome[t] = "not run" /\ wire[t] # "command"
    /\ result[t] = "success" => outcome[t] = "done"
    /\ result[t] = "failure" => outcome[t] = "failed"

(***************************************************************************)
(* The request returns, every target answered for, though there are more   *)
(* targets than goroutines and any agent may never answer, unless an agent *)
(* that stays connected without reading keeps a goroutine in its write for *)
(* good (bulkCommandConcurrency).                                          *)
(***************************************************************************)
BulkReturns ==
  \/ <>(\A t \in Targets : result[t] # "none")
  \/ <>[](\E t \in Targets : worker[t] = "stuck")
=============================================================================
