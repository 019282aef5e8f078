------------------------------ MODULE Accounts ------------------------------
(***************************************************************************)
(* The hub's accounts: the first-boot setup that creates the first         *)
(* administrator (hub/auth.go) and the requests by which administrators    *)
(* create, change and delete accounts (hub/users.go), each a sequence of   *)
(* database statements that interleave with those of other requests.       *)
(***************************************************************************)
EXTENDS Integers, FiniteSets

CONSTANTS
  Users,        \* the accounts there may be
  Calls,        \* requests in flight at once
  EnvToken,     \* whether BLOXOS_SETUP_TOKEN is set
  AccountBudgets  \* sums of requests: setups, promotions, demotions, ...

VARIABLES
  role,         \* [Users -> Roles \cup {"none"}], the users table
  setupToken,   \* whether setupTokenValue is set in this process
  tokenFile,    \* whether ~/.bloxos/setup-token exists
  call,         \* [Calls -> request]
  admitted,     \* ghost: administrators created by setup
  stale,        \* ghost: a request acted on a role changed since it read it
  accountBudget

accountVars ==
  <<role, setupToken, tokenFile, call, admitted, stale, accountBudget>>

Roles == {"admin", "operator"}
Nobody == CHOOSE u \in Users : TRUE
NoCall == [pc |-> "idle", target |-> Nobody, seen |-> "none", new |-> "none"]

Accounts == {u \in Users : role[u] # "none"}
Admins == {u \in Users : role[u] = "admin"}

Paid(k) ==
  accountBudget[k] > 0 /\ accountBudget' = [accountBudget EXCEPT ![k] = @ - 1]

\* generateSetupToken: only a hub without accounts takes or makes a token.
Offered == Accounts = {}

Init ==
  /\ role = [u \in Users |-> "none"]
  /\ setupToken = TRUE
  /\ tokenFile = ~EnvToken
  /\ call = [k \in Calls |-> NoCall]
  /\ admitted = 0 /\ stale = FALSE
  /\ accountBudget \in AccountBudgets

Done(k) == call' = [call EXCEPT ![k] = NoCall]

Restart ==
  /\ Paid("restart")
  /\ setupToken' = Offered
  /\ tokenFile' = (tokenFile \/ (Offered /\ ~EnvToken))
  /\ call' = [k \in Calls |-> NoCall]
  /\ UNCHANGED <<role, admitted, stale>>

-----------------------------------------------------------------------------
(***************************************************************************)
(* First-boot setup (handleSetup).                                         *)
(***************************************************************************)

(* No account yet and the token matches; hashing the password and the PIN   *)
(* takes the time in which another request may pass the same checks.        *)
BeginSetup(k) ==
  /\ call[k] = NoCall /\ Paid("setup")
  /\ Accounts = {} /\ setupToken
  /\ call' = [call EXCEPT ![k].pc = "hashing"]
  /\ UNCHANGED <<role, setupToken, tokenFile, admitted, stale>>

\* The token is looked at again as it is consumed.
StillOffered_Assumed == TRUE
StillOffered == setupToken

ConsumeToken(k) ==
  /\ call[k].pc = "hashing"
  /\ IF StillOffered
     THEN setupToken' = FALSE /\ call' = [call EXCEPT ![k].pc = "inserting"]
     ELSE UNCHANGED setupToken /\ Done(k)
  /\ UNCHANGED <<role, tokenFile, admitted, stale, accountBudget>>

InsertAdmin(k) ==
  /\ call[k].pc = "inserting"
  /\ \E u \in Users : role[u] = "none" /\ role' = [role EXCEPT ![u] = "admin"]
  /\ admitted' = admitted + 1
  /\ tokenFile' = FALSE
  /\ Done(k)
  /\ UNCHANGED <<setupToken, stale, accountBudget>>

\* The insert fails: the token is put back for a retry.
InsertFails(k) ==
  /\ call[k].pc = "inserting" /\ Paid("fault")
  /\ setupToken' = TRUE
  /\ Done(k)
  /\ UNCHANGED <<role, tokenFile, admitted, stale>>

-----------------------------------------------------------------------------
(***************************************************************************)
(* Administration (users.go).  Every request passes permissionMiddleware,  *)
(* which reads the caller's role, then reads the target's role, and then   *)
(* writes.                                                                 *)
(***************************************************************************)

CreateUser ==
  /\ Admins # {} /\ Paid("create")
  /\ \E u \in Users, r \in Roles : /\ role[u] = "none"
                                   /\ role' = [role EXCEPT ![u] = r]
  /\ UNCHANGED <<setupToken, tokenFile, call, admitted, stale>>

(* handleUpdateUser and handleDeleteUser, up to the read of the target:     *)
(* nobody changes or deletes themselves, so the caller is another admin.    *)
BeginChange(k, u, new) ==
  /\ call[k] = NoCall
  /\ role[u] # "none" /\ Admins \ {u} # {}
  /\ Paid(IF new = "none" THEN "delete" ELSE "update")
  /\ call' = [call EXCEPT ![k] =
                [pc |-> "writing", target |-> u, seen |-> role[u], new |-> new]]
  /\ UNCHANGED <<role, setupToken, tokenFile, admitted, stale>>

\* The subquery of the guarded statements.
MoreAdmins_Unchecked == TRUE
MoreAdmins == Cardinality(Admins) > 1

(* The write: guarded when the target was read as an admin who is to be one *)
(* no longer, unguarded otherwise.  A deleted target is updated nowhere.    *)
Change(k) ==
  /\ call[k].pc = "writing"
  /\ LET c == call[k]
         guarded == c.seen = "admin" /\ c.new # "admin"
         writes == role[c.target] # "none" /\ (guarded => MoreAdmins)
     IN /\ role' = IF writes THEN [role EXCEPT ![c.target] = c.new] ELSE role
        /\ stale' = (stale \/ (writes /\ role[c.target] # c.seen))
  /\ Done(k)
  /\ UNCHANGED <<setupToken, tokenFile, admitted, accountBudget>>

Next ==
  \/ Restart \/ CreateUser
  \/ \E k \in Calls :
       \/ BeginSetup(k) \/ ConsumeToken(k) \/ InsertAdmin(k) \/ InsertFails(k)
       \/ Change(k)
       \/ \E u \in Users, new \in Roles \cup {"none"} : BeginChange(k, u, new)

Spec == Init /\ [][Next]_accountVars

-----------------------------------------------------------------------------
(***************************************************************************)
(* As long as no request acts on a role another request has changed since  *)
(* it was read, setup admits one administrator however many requests hold  *)
(* the token, fail and retry, or are cut off by a restart (handleSetup:    *)
(* "exactly one admin can ever be created through it"), and requests that  *)
(* demote and delete administrators at once never remove the last one, so  *)
(* that no later start of the hub offers setup again.                      *)
(***************************************************************************)
AdminsKept == ~stale => admitted <= 1 /\ (admitted > 0 => Admins # {})

(***************************************************************************)
(* What the comment in handleUpdateUser promises of every interleaving:    *)
(* "the subquery guard ensures we never drop below 1 admin even under      *)
(* concurrent requests".                                                   *)
(***************************************************************************)
NeverWithoutAdmin == admitted > 0 => Admins # {}
=============================================================================
