--------------------------- MODULE DecisionsProofs ---------------------------
(***************************************************************************)
(* Decisions for every value of the constants: accounts, API pollers,      *)
(* alerts, the marker scan, power windows and charts, each with its own    *)
(* invariant, and their composition.                                       *)
(***************************************************************************)
EXTENDS Decisions, FiniteSetTheorems, SequenceTheorems, WellFoundedInduction,
        TLAPS

-----------------------------------------------------------------------------
(***************************************************************************)
(* Accounts: setup admits one administrator, and there always is one       *)
(* afterwards.                                                             *)
(***************************************************************************)

CallRecords ==
  [pc : {"idle", "hashing", "inserting", "writing"}, target : Users \cup {Account!Nobody},
   seen : Account!Roles \cup {"none"}, new : Account!Roles \cup {"none"}]

AccountTypeOK ==
  /\ role \in [Users -> Account!Roles \cup {"none"}]
  /\ setupToken \in BOOLEAN
  /\ call \in [Calls -> CallRecords]
  /\ admitted \in Nat
  /\ stale \in BOOLEAN

Inserting == {k \in Calls : call[k].pc = "inserting"}

(* The token is in one place: in memory, or with one request that inserts.  *)
TokenOnce ==
  /\ setupToken => Inserting = {}
  /\ \A j, k \in Inserting : j = k

(* While the token may still be used, setup has admitted nobody.            *)
TokenUnspent == ~stale /\ (setupToken \/ Inserting # {}) => admitted = 0

AccountInv == AccountTypeOK /\ TokenOnce /\ TokenUnspent /\ Account!AdminsKept

(***************************************************************************)
(* Accounts counts as this module does: its FiniteSets is another instance *)
(* of the same definitions.                                                *)
(***************************************************************************)
LEMMA AccountsCount == ASSUME NEW S PROVE Account!Cardinality(S) = Cardinality(S)
  BY DEF Account!Cardinality, Cardinality

(***************************************************************************)
(* A set with more than one element keeps one when any one is removed: the *)
(* subquery's count (handleUpdateUser, handleDeleteUser).                  *)
(***************************************************************************)
LEMMA OneIsLeft ==
  ASSUME NEW S, NEW x, Cardinality(S) > 1
  PROVE  \E y \in S : y # x
<1> SUFFICES ASSUME \A y \in S : y = x PROVE FALSE
  OBVIOUS
<1>1. CASE S = {}
  BY <1>1, FS_EmptySet
<1>2. CASE S # {}
  <2>1. S = {x}
    BY <1>2
  <2>. QED BY <2>1, FS_Singleton
<1>. QED BY <1>1, <1>2

(***************************************************************************)
(* The state a hub is installed with has the invariant.                    *)
(***************************************************************************)
LEMMA AccountInit == Account!Init => AccountInv
<1> SUFFICES ASSUME Account!Init PROVE AccountInv
  OBVIOUS
<1>1. AccountTypeOK
  BY DEF Account!Init, AccountTypeOK, CallRecords, Account!NoCall, Account!Roles
<1>2. Inserting = {}
  BY DEF Account!Init, Inserting, Account!NoCall
<1>. QED BY <1>1, <1>2 DEF Account!Init, AccountInv, TokenOnce, TokenUnspent, Account!AdminsKept

(***************************************************************************)
(* The types are kept by every request.                                    *)
(***************************************************************************)
LEMMA AccountNextType == ASSUME AccountTypeOK, Account!Next PROVE AccountTypeOK'
<1>. USE DEF AccountTypeOK, CallRecords, Account!Roles
<1>1. CASE Account!Restart
  BY <1>1 DEF Account!Restart, Account!Offered, Account!NoCall
<1>2. CASE Account!CreateUser
  BY <1>2 DEF Account!CreateUser
<1>3. ASSUME NEW k \in Calls, Account!BeginSetup(k) PROVE AccountTypeOK'
  BY <1>3 DEF Account!BeginSetup
<1>4. ASSUME NEW k \in Calls, Account!ConsumeToken(k) PROVE AccountTypeOK'
  <2>1. CASE setupToken
    BY <1>4, <2>1, ZenonT(60) DEF Account!ConsumeToken, Account!StillOffered
  <2>2. CASE ~setupToken
    BY <1>4, <2>2 DEF Account!ConsumeToken, Account!StillOffered, Account!Done, Account!NoCall
  <2>. QED BY <2>1, <2>2
<1>5. ASSUME NEW k \in Calls, Account!InsertAdmin(k) PROVE AccountTypeOK'
  BY <1>5 DEF Account!InsertAdmin, Account!Done, Account!NoCall
<1>6. ASSUME NEW k \in Calls, Account!InsertFails(k) PROVE AccountTypeOK'
  BY <1>6 DEF Account!InsertFails, Account!Done, Account!NoCall
<1>7. ASSUME NEW k \in Calls, Account!Change(k) PROVE AccountTypeOK'
  BY <1>7 DEF Account!Change, Account!Done, Account!NoCall
<1>8. ASSUME NEW k \in Calls, NEW u \in Users, NEW new \in Account!Roles \cup {"none"},
             Account!BeginChange(k, u, new)
      PROVE  AccountTypeOK'
  BY <1>8 DEF Account!BeginChange
<1>. QED BY <1>1, <1>2, <1>3, <1>4, <1>5, <1>6, <1>7, <1>8 DEF Account!Next

(***************************************************************************)
(* The guarded statements leave an administrator, and the others leave     *)
(* those there are when they act on a role that is still the one read      *)
(* (handleUpdateUser, handleDeleteUser).                                   *)
(***************************************************************************)
LEMMA ChangeKeepsAdmin ==
  ASSUME AccountTypeOK, NEW k \in Calls, Account!Change(k), ~stale', Account!Admins # {}
  PROVE  Account!Admins' # {}
<1> DEFINE c == call[k]
           guarded == c.seen = "admin" /\ c.new # "admin"
           writes == role[c.target] # "none" /\ (guarded => Account!MoreAdmins)
<1>1. /\ role' = IF writes THEN [role EXCEPT ![c.target] = c.new] ELSE role
      /\ writes => role[c.target] = c.seen
  BY DEF Account!Change
<1>2. CASE ~writes
  BY <1>1, <1>2 DEF Account!Admins
<1>3. CASE writes /\ guarded
  <2>1. PICK y \in Account!Admins : y # c.target
    BY <1>3, OneIsLeft, AccountsCount DEF Account!MoreAdmins
  <2>2. role'[y] = "admin"
    BY <1>1, <1>3, <2>1 DEF Account!Admins, AccountTypeOK
  <2>. QED BY <2>1, <2>2 DEF Account!Admins
<1>4. CASE writes /\ ~guarded
  <2>1. PICK y \in Users : role[y] = "admin"
    BY DEF Account!Admins
  <2>2. role'[y] = "admin"
    BY <1>1, <1>4, <2>1 DEF AccountTypeOK
  <2>. QED BY <2>1, <2>2 DEF Account!Admins
<1>. QED BY <1>2, <1>3, <1>4

(***************************************************************************)
(* Every step keeps the invariant.                                         *)
(***************************************************************************)
LEMMA AccountNext == ASSUME AccountInv, Account!Next PROVE AccountInv'
<1>0. AccountTypeOK /\ AccountTypeOK'
  BY AccountNextType DEF AccountInv
<1>. USE DEF AccountInv, TokenOnce, TokenUnspent
<1>1. CASE Account!Restart
  <2>1. Inserting' = {}
    BY <1>1 DEF Account!Restart, Inserting, Account!NoCall
  <2>2. Account!Admins' = Account!Admins /\ Account!Admins \subseteq Account!Accounts
    BY <1>1 DEF Account!Restart, Account!Admins, Account!Accounts
  <2>3. ~stale /\ Account!Accounts = {} => admitted = 0
    BY <1>0, <2>2 DEF Account!AdminsKept, AccountTypeOK
  <2>. QED BY <1>0, <1>1, <2>1, <2>2, <2>3 DEF Account!Restart, Account!Offered,
                                               Account!AdminsKept
<1>2. CASE Account!CreateUser
  <2>1. Inserting' = Inserting
    BY <1>2 DEF Account!CreateUser, Inserting
  <2>2. Account!Admins' # {}
    BY <1>0, <1>2 DEF Account!CreateUser, Account!Admins, AccountTypeOK
  <2>. QED BY <1>0, <1>2, <2>1, <2>2 DEF Account!CreateUser, Account!AdminsKept
<1>3. ASSUME NEW k \in Calls, Account!BeginSetup(k) PROVE AccountInv'
  <2>1. Inserting' = Inserting
    BY <1>0, <1>3 DEF Account!BeginSetup, Inserting, Account!NoCall, AccountTypeOK
  <2>2. Account!Admins' = Account!Admins
    BY <1>3 DEF Account!BeginSetup, Account!Admins
  <2>. QED BY <1>0, <1>3, <2>1, <2>2 DEF Account!BeginSetup, Account!AdminsKept
<1>4. ASSUME NEW k \in Calls, Account!ConsumeToken(k) PROVE AccountInv'
  <2>1. Account!Admins' = Account!Admins /\ admitted' = admitted /\ stale' = stale
    BY <1>4 DEF Account!ConsumeToken, Account!Admins
  <2>2. CASE setupToken
    <3>1. Inserting = {} /\ ~setupToken'
      BY <1>4, <2>2 DEF Account!ConsumeToken, Account!StillOffered
    <3>2. Inserting' \subseteq {k}
      BY <1>0, <1>4, <2>2, <3>1 DEF Account!ConsumeToken, Account!StillOffered, Inserting,
                                    AccountTypeOK
    <3>3. ~stale => admitted = 0
      BY <2>2
    <3>. QED BY <1>0, <2>1, <3>1, <3>2, <3>3 DEF Account!AdminsKept
  <2>3. CASE ~setupToken
    <3>1. Inserting' = Inserting /\ setupToken' = setupToken
      BY <1>0, <1>4, <2>3 DEF Account!ConsumeToken, Account!StillOffered, Account!Done,
                              Account!NoCall, Inserting, AccountTypeOK
    <3>. QED BY <1>0, <2>1, <3>1 DEF Account!AdminsKept
  <2>. QED BY <2>2, <2>3
<1>5. ASSUME NEW k \in Calls, Account!InsertAdmin(k) PROVE AccountInv'
  <2>1. k \in Inserting /\ ~setupToken
    BY <1>5 DEF Account!InsertAdmin, Inserting
  <2>2. Inserting' = {} /\ ~setupToken'
    BY <1>0, <1>5, <2>1 DEF Account!InsertAdmin, Inserting, Account!Done, Account!NoCall,
                            AccountTypeOK
  <2>3. Account!Admins' # {}
    BY <1>0, <1>5 DEF Account!InsertAdmin, Account!Admins, AccountTypeOK
  <2>4. ~stale' => admitted' = 1
    BY <1>5, <2>1 DEF Account!InsertAdmin
  <2>. QED BY <1>0, <2>2, <2>3, <2>4 DEF Account!AdminsKept
<1>6. ASSUME NEW k \in Calls, Account!InsertFails(k) PROVE AccountInv'
  <2>1. k \in Inserting
    BY <1>6 DEF Account!InsertFails, Inserting
  <2>2. Inserting' = {}
    BY <1>0, <1>6, <2>1 DEF Account!InsertFails, Inserting, Account!Done, Account!NoCall,
                            AccountTypeOK
  <2>3. Account!Admins' = Account!Admins /\ admitted' = admitted /\ stale' = stale
    BY <1>6 DEF Account!InsertFails, Account!Admins
  <2>. QED BY <1>0, <2>1, <2>2, <2>3 DEF Account!AdminsKept
<1>7. ASSUME NEW k \in Calls, Account!Change(k) PROVE AccountInv'
  <2>1. Inserting' = Inserting
    BY <1>0, <1>7 DEF Account!Change, Account!Done, Account!NoCall, Inserting, AccountTypeOK
  <2>2. setupToken' = setupToken /\ admitted' = admitted /\ (stale => stale')
    BY <1>7 DEF Account!Change
  <2>3. ~stale' /\ admitted > 0 => Account!Admins' # {}
    BY <1>0, <1>7, <2>2, ChangeKeepsAdmin DEF Account!AdminsKept
  <2>. QED BY <1>0, <2>1, <2>2, <2>3 DEF Account!AdminsKept
<1>8. ASSUME NEW k \in Calls, NEW u \in Users, NEW new \in Account!Roles \cup {"none"},
             Account!BeginChange(k, u, new)
      PROVE  AccountInv'
  <2>1. Inserting' = Inserting
    BY <1>0, <1>8 DEF Account!BeginChange, Inserting, Account!NoCall, AccountTypeOK
  <2>2. Account!Admins' = Account!Admins
    BY <1>8 DEF Account!BeginChange, Account!Admins
  <2>. QED BY <1>0, <1>8, <2>1, <2>2 DEF Account!BeginChange, Account!AdminsKept
<1>. QED BY <1>1, <1>2, <1>3, <1>4, <1>5, <1>6, <1>7, <1>8 DEF Account!Next

(***************************************************************************)
(* Whatever requests overlap, as long as none acts on a stale role: setup  *)
(* admits one administrator, and afterwards there always is one.           *)
(***************************************************************************)
THEOREM AdminsAreKept == Account!Spec => []AdminsKept
<1>1. AccountInv /\ [Account!Next]_Account!accountVars => AccountInv'
  <2> SUFFICES ASSUME AccountInv, [Account!Next]_Account!accountVars PROVE AccountInv'
    OBVIOUS
  <2>1. CASE Account!Next
    BY <2>1, AccountNext
  <2>2. CASE UNCHANGED Account!accountVars
    BY <2>2 DEF AccountInv, AccountTypeOK, TokenOnce, TokenUnspent, Account!AdminsKept,
                Inserting, Account!Admins, Account!accountVars
  <2>. QED BY <2>1, <2>2
<1>2. AccountInv => AdminsKept
  BY DEF AccountInv, AdminsKept
<1>. QED BY AccountInit, <1>1, <1>2, PTL DEF Account!Spec

-----------------------------------------------------------------------------
(***************************************************************************)
(* API pollers: at most one poller of a machine goes on, the one the table *)
(* can stop, and between requests that did not overlap it polls the row.   *)
(***************************************************************************)

ApiRow == Settings \cup {Poller!NoRow}

Steps == {"idle", "update", "restart", "stop", "delete_row", "delete_machine", "force"}

Goroutines ==
  [pc : {"new", "waiting", "polling", "done"}, settings : ApiRow, cancelled : BOOLEAN]

PollerTypeOK ==
  /\ api \in ApiRow
  /\ poller \in [Pollers -> Goroutines]
  /\ request \in [Requests -> [pc : Steps, settings : ApiRow]]

\* While an edit is under way nothing else is, and its row is there to be set.
EditsAlone ==
  \A q \in Poller!Editing :
    /\ Poller!Editing \cup Poller!Deleting \subseteq {q}
    /\ Poller!NoRow \notin {api, request[q].settings}
    /\ request[q].pc = "restart" => api = request[q].settings

\* Who deletes the row has stopped its poller.
DeletesStopped ==
  \A q \in Requests :
    /\ request[q].pc \in {"delete_row", "delete_machine"} => Poller!Loose = {}
    /\ request[q].pc = "delete_machine" => api = Poller!NoRow

\* Unless a poller is about to be started, those that go on poll the row.
LooseAgree ==
  (\A q \in Requests : request[q].pc # "restart")
    => \A p \in Poller!Loose : poller[p].settings = api

PollerInv ==
  /\ PollerTypeOK
  /\ Poller!OnePoller
  /\ ~overlapped => EditsAlone /\ DeletesStopped /\ LooseAgree

(***************************************************************************)
(* Once the entry's poller is cancelled, none goes on (startAPIPoller,     *)
(* stopAPIPoller).                                                         *)
(***************************************************************************)
LEMMA AllCancelled ==
  ASSUME PollerInv, 0 \notin Pollers
  PROVE  /\ Poller!Cancel(poller) \in [Pollers -> Goroutines]
         /\ \A p \in Pollers : /\ Poller!Cancel(poller)[p].pc = poller[p].pc
                               /\ p \in Poller!Running => Poller!Cancel(poller)[p].cancelled
<1>1. CASE entry = 0
  BY <1>1 DEF PollerInv, PollerTypeOK, Poller!OnePoller, Poller!Loose, Poller!Running, Poller!Cancel
<1>2. CASE entry # 0
  <2>1. Poller!Cancel(poller) = [poller EXCEPT ![entry].cancelled = TRUE]
    BY <1>2 DEF Poller!Cancel
  <2>2. Poller!Cancel(poller) \in [Pollers -> Goroutines]
    BY <2>1 DEF PollerInv, PollerTypeOK, Goroutines
  <2>3. ASSUME NEW p \in Pollers
        PROVE  /\ Poller!Cancel(poller)[p].pc = poller[p].pc
               /\ p \in Poller!Running => Poller!Cancel(poller)[p].cancelled
    BY <2>1, <2>3 DEF PollerInv, PollerTypeOK, Goroutines, Poller!OnePoller, Poller!Loose,
                      Poller!Running
  <2>. QED BY <2>2, <2>3
<1>. QED BY <1>1, <1>2

(***************************************************************************)
(* A started poller is the only one that goes on, the entry names it, and  *)
(* it polls with the settings it was given (startAPIPoller).               *)
(***************************************************************************)
LEMMA StartKeeps ==
  ASSUME PollerInv, 0 \notin Pollers, NEW s \in ApiRow, Poller!StartPoller(s)
  PROVE  /\ poller' \in [Pollers -> Goroutines]
         /\ Poller!OnePoller'
         /\ \A p \in Poller!Loose' : poller'[p].settings = s
<1> DEFINE ps == Poller!Cancel(poller)
           started == [pc |-> "waiting", settings |-> s, cancelled |-> FALSE]
<1>1. poller' = [ps EXCEPT ![Poller!NextPoller] = started] /\ entry' = Poller!NextPoller
  BY DEF Poller!StartPoller
<1>2. ps \in [Pollers -> Goroutines]
  BY AllCancelled
<1>3. started \in Goroutines
  BY DEF Goroutines
<1>4. poller' \in [Pollers -> Goroutines]
  BY <1>1, <1>2, <1>3
<1>5. ASSUME NEW p \in Pollers, p # Poller!NextPoller, p \in Poller!Running'
      PROVE  poller'[p].cancelled
  <2>1. poller'[p] = ps[p]
    BY <1>1, <1>2, <1>5
  <2>2. p \in Poller!Running
    BY <2>1, <1>5, AllCancelled DEF Poller!Running
  <2>. QED BY <2>1, <2>2, AllCancelled
<1>6. ASSUME NEW p \in Poller!Loose' PROVE p = Poller!NextPoller /\ p \in Pollers
  BY <1>5, <1>6 DEF Poller!Loose, Poller!Running
<1>7. ASSUME NEW p \in Poller!Loose' PROVE poller'[p].settings = s
  BY <1>1, <1>2, <1>6, <1>7
<1>. QED BY <1>1, <1>4, <1>6, <1>7 DEF Poller!OnePoller

(***************************************************************************)
(* What a request becomes, and what goes on when no poller is touched.     *)
(***************************************************************************)
LEMMA Becomes ==
  ASSUME PollerTypeOK, NEW q \in Requests, NEW pc \in Steps, NEW s \in ApiRow,
         Poller!Become(q, pc, s)
  PROVE  /\ request' \in [Requests -> [pc : Steps, settings : ApiRow]]
         /\ request'[q] = [pc |-> pc, settings |-> s]
         /\ \A o \in Requests : o # q => request'[o] = request[o]
BY DEF PollerTypeOK, Poller!Become, Steps

(***************************************************************************)
(* A request that leaves the pollers and the row alone, ends, and was not  *)
(* about to start one, keeps the invariant, as does a forced poll.         *)
(***************************************************************************)
LEMMA QuietRequest ==
  ASSUME PollerInv, NEW q \in Requests, NEW pc \in {"idle", "force"}, NEW s \in ApiRow,
         Poller!Become(q, pc, s), request[q].pc # "restart",
         UNCHANGED <<api, entry, poller, overlapped>>
  PROVE  PollerInv'
<1>. USE DEF PollerInv
<1>1. /\ request' \in [Requests -> [pc : Steps, settings : ApiRow]]
      /\ request'[q] = [pc |-> pc, settings |-> s]
      /\ \A o \in Requests : o # q => request'[o] = request[o]
  BY Becomes DEF Steps
<1>2. Poller!Loose' = Poller!Loose
  BY DEF Poller!Loose, Poller!Running
<1>3. ~overlapped' => EditsAlone' /\ DeletesStopped' /\ LooseAgree'
  BY <1>1, <1>2 DEF EditsAlone, DeletesStopped, LooseAgree, Poller!Editing, Poller!Deleting
<1>. QED BY <1>1, <1>2, <1>3 DEF PollerTypeOK, Poller!OnePoller

(***************************************************************************)
(* Every step keeps the invariant.                                         *)
(***************************************************************************)
LEMMA PollerNext ==
  ASSUME PollerInv, 0 \notin Pollers, Poller!NoRow \notin Settings, Poller!Next
  PROVE  PollerInv'
<1>. USE DEF PollerInv
<1>0. Poller!NoRow \in ApiRow
  BY DEF ApiRow
<1>1. ASSUME NEW q \in Requests, NEW s \in Settings, Poller!Create(q, s) PROVE PollerInv'
  <2>1. /\ request' \in [Requests -> [pc : Steps, settings : ApiRow]]
        /\ request'[q] = [pc |-> "restart", settings |-> s]
        /\ \A o \in Requests : o # q => request'[o].pc = "idle"
    BY <1>1, Becomes DEF Steps, Poller!Create, ApiRow, Poller!NoRequest
  <2>2. api' = s /\ s # Poller!NoRow /\ UNCHANGED <<entry, poller, overlapped>>
    BY <1>1 DEF Poller!Create
  <2>3. Poller!Loose' = {}
    BY <1>1, <2>2 DEF Poller!Create, Poller!Loose, Poller!Running, Poller!Unstarted
  <2>. QED BY <2>1, <2>2, <2>3 DEF PollerTypeOK, ApiRow, Poller!OnePoller, EditsAlone,
              DeletesStopped, LooseAgree, Poller!Editing, Poller!Deleting
<1>2. ASSUME NEW q \in Requests, NEW s \in Settings, Poller!BeginUpdate(q, s) PROVE PollerInv'
  <2>1. /\ request' \in [Requests -> [pc : Steps, settings : ApiRow]]
        /\ request'[q] = [pc |-> "update", settings |-> s]
        /\ \A o \in Requests : o # q => request'[o] = request[o]
    BY <1>2, Becomes DEF Steps, Poller!BeginUpdate, ApiRow
  <2>2. /\ api # Poller!NoRow /\ UNCHANGED <<api, entry, poller>>
        /\ overlapped' = (overlapped \/ Poller!Editing \cup Poller!Deleting # {})
    BY <1>2 DEF Poller!BeginUpdate
  <2>3. Poller!Loose' = Poller!Loose
    BY <2>2 DEF Poller!Loose, Poller!Running
  <2>4. ASSUME ~overlapped' PROVE EditsAlone' /\ DeletesStopped' /\ LooseAgree'
    <3>1. ~overlapped /\ Poller!Editing \cup Poller!Deleting = {}
      BY <2>2, <2>4
    <3>2. \A o \in Requests : /\ request[o].pc # "restart"
                              /\ o \notin Poller!Editing \cup Poller!Deleting
      BY <3>1 DEF Poller!Editing
    <3>. QED BY <2>1, <2>2, <2>3, <3>1, <3>2 DEF EditsAlone, DeletesStopped, LooseAgree,
                Poller!Editing, Poller!Deleting
  <2>. QED BY <2>1, <2>2, <2>3, <2>4 DEF PollerTypeOK, Poller!OnePoller
<1>3. ASSUME NEW q \in Requests, Poller!WriteUpdate(q) PROVE PollerInv'
  <2> DEFINE s == request[q].settings
  <2>1. s \in ApiRow
    BY DEF PollerTypeOK
  <2>2. /\ request' \in [Requests -> [pc : Steps, settings : ApiRow]]
        /\ request'[q] = [pc |-> "restart", settings |-> s]
        /\ \A o \in Requests : o # q => request'[o] = request[o]
    BY <1>3, <2>1, Becomes DEF Steps, Poller!WriteUpdate
  <2>3. /\ request[q].pc = "update" /\ UNCHANGED <<entry, poller, overlapped>>
        /\ api' = IF api = Poller!NoRow THEN Poller!NoRow ELSE s
    BY <1>3 DEF Poller!WriteUpdate
  <2>4. Poller!Loose' = Poller!Loose
    BY <2>3 DEF Poller!Loose, Poller!Running
  <2>5. ASSUME ~overlapped' PROVE EditsAlone' /\ DeletesStopped' /\ LooseAgree'
    <3>1. q \in Poller!Editing
      BY <2>3 DEF Poller!Editing
    <3>2. /\ Poller!NoRow \notin {api, s}
          /\ \A o \in Requests \ {q} : o \notin Poller!Editing \cup Poller!Deleting
      BY <3>1, <2>3, <2>5 DEF EditsAlone
    <3>3. Poller!Editing' = {q} /\ Poller!Deleting' = {}
      BY <2>2, <3>2 DEF Poller!Editing, Poller!Deleting
    <3>4. EditsAlone'
      BY <2>2, <2>3, <3>2, <3>3 DEF EditsAlone
    <3>5. DeletesStopped' /\ LooseAgree'
      BY <2>2, <3>2 DEF DeletesStopped, LooseAgree, Poller!Deleting
    <3>. QED BY <3>4, <3>5
  <2>. QED BY <2>1, <2>2, <2>3, <2>4, <2>5 DEF PollerTypeOK, Poller!OnePoller, ApiRow
<1>4. ASSUME NEW q \in Requests, Poller!EndUpdate(q) PROVE PollerInv'
  <2> DEFINE s == request[q].settings
  <2>1. s \in ApiRow
    BY DEF PollerTypeOK
  <2>2. /\ poller' \in [Pollers -> Goroutines]
        /\ Poller!OnePoller'
        /\ \A p \in Poller!Loose' : poller'[p].settings = s
    BY <1>4, <2>1, StartKeeps DEF Poller!EndUpdate
  <2>3. /\ request' \in [Requests -> [pc : Steps, settings : ApiRow]]
        /\ request'[q] = [pc |-> "idle", settings |-> Poller!NoRow]
        /\ \A o \in Requests : o # q => request'[o] = request[o]
    BY <1>4, <1>0, Becomes DEF Steps, Poller!EndUpdate
  <2>4. request[q].pc = "restart" /\ UNCHANGED <<api, overlapped>>
    BY <1>4 DEF Poller!EndUpdate
  <2>5. ASSUME ~overlapped' PROVE EditsAlone' /\ DeletesStopped' /\ LooseAgree'
    <3>1. q \in Poller!Editing
      BY <2>4 DEF Poller!Editing
    <3>2. /\ api = s
          /\ \A o \in Requests \ {q} : o \notin Poller!Editing \cup Poller!Deleting
      BY <3>1, <2>4, <2>5 DEF EditsAlone
    <3>. QED BY <2>2, <2>3, <2>4, <3>2 DEF EditsAlone, DeletesStopped, LooseAgree,
                Poller!Editing, Poller!Deleting
  <2>. QED BY <2>2, <2>3, <2>4, <2>5 DEF PollerTypeOK
<1>5. ASSUME NEW q \in Requests, Poller!BeginDelete(q) PROVE PollerInv'
  <2>1. /\ request' \in [Requests -> [pc : Steps, settings : ApiRow]]
        /\ request'[q] = [pc |-> "stop", settings |-> Poller!NoRow]
        /\ \A o \in Requests : o # q => request'[o] = request[o]
    BY <1>5, <1>0, Becomes DEF Steps, Poller!BeginDelete
  <2>2. /\ api # Poller!NoRow /\ UNCHANGED <<api, entry, poller>>
        /\ overlapped' = (overlapped \/ Poller!Editing # {})
        /\ request[q].pc = "idle"
    BY <1>5 DEF Poller!BeginDelete, Poller!NoRequest
  <2>3. Poller!Loose' = Poller!Loose
    BY <2>2 DEF Poller!Loose, Poller!Running
  <2>4. ASSUME ~overlapped' PROVE EditsAlone' /\ DeletesStopped' /\ LooseAgree'
    <3>0. ~overlapped /\ Poller!Editing = {}
      BY <2>2, <2>4
    <3>1. ~overlapped /\ Poller!Editing = {} /\ Poller!Editing' = {}
      BY <2>1, <3>0 DEF Poller!Editing
    <3>2. EditsAlone'
      BY <3>1 DEF EditsAlone
    <3>3. DeletesStopped'
      BY <2>1, <2>2, <2>3, <3>1 DEF DeletesStopped
    <3>4. LooseAgree'
      BY <2>1, <2>2, <2>3, <3>1 DEF LooseAgree, Poller!Editing
    <3>. QED BY <3>2, <3>3, <3>4
  <2>. QED BY <2>1, <2>2, <2>3, <2>4 DEF PollerTypeOK, Poller!OnePoller
<1>6. ASSUME NEW q \in Requests, Poller!StopPoller(q) PROVE PollerInv'
  <2>1. /\ poller' \in [Pollers -> Goroutines]
        /\ \A p \in Pollers : /\ poller'[p].pc = poller[p].pc
                              /\ p \in Poller!Running => poller'[p].cancelled
    BY <1>6, AllCancelled DEF Poller!StopPoller
  <2>2. Poller!Loose' = {}
    BY <2>1 DEF Poller!Loose, Poller!Running
  <2>3. /\ request' \in [Requests -> [pc : Steps, settings : ApiRow]]
        /\ request'[q] = [pc |-> "delete_row", settings |-> Poller!NoRow]
        /\ \A o \in Requests : o # q => request'[o] = request[o]
    BY <1>6, <1>0, Becomes DEF Steps, Poller!StopPoller
  <2>4. request[q].pc = "stop" /\ UNCHANGED <<api, overlapped>>
    BY <1>6 DEF Poller!StopPoller
  <2>5. ~overlapped' => EditsAlone' /\ DeletesStopped' /\ LooseAgree'
    BY <2>2, <2>3, <2>4 DEF EditsAlone, DeletesStopped, LooseAgree, Poller!Editing,
                            Poller!Deleting
  <2>. QED BY <2>1, <2>2, <2>3, <2>4, <2>5 DEF PollerTypeOK, Poller!OnePoller
<1>7. ASSUME NEW q \in Requests, Poller!DeleteRow(q) PROVE PollerInv'
  <2>1. /\ request' \in [Requests -> [pc : Steps, settings : ApiRow]]
        /\ request'[q] = [pc |-> "delete_machine", settings |-> Poller!NoRow]
        /\ \A o \in Requests : o # q => request'[o] = request[o]
    BY <1>7, <1>0, Becomes DEF Steps, Poller!DeleteRow
  <2>2. /\ request[q].pc = "delete_row" /\ api' = Poller!NoRow
        /\ UNCHANGED <<entry, poller, overlapped>>
    BY <1>7 DEF Poller!DeleteRow
  <2>3. Poller!Loose' = Poller!Loose
    BY <2>2 DEF Poller!Loose, Poller!Running
  <2>4. ASSUME ~overlapped' PROVE EditsAlone' /\ DeletesStopped' /\ LooseAgree'
    <3>1. Poller!Loose = {}
      BY <2>2, <2>4 DEF DeletesStopped
    <3>2. Poller!Editing = {}
      BY <2>2, <2>4 DEF EditsAlone, Poller!Editing, Poller!Deleting
    <3>. QED BY <2>1, <2>2, <2>3, <3>1, <3>2 DEF EditsAlone, DeletesStopped, LooseAgree,
                Poller!Editing, Poller!Deleting
  <2>. QED BY <2>1, <2>2, <2>3, <2>4 DEF PollerTypeOK, Poller!OnePoller, ApiRow
<1>8. ASSUME NEW q \in Requests,
             Poller!WriteFails(q) \/ Poller!DeleteMachine(q) \/ Poller!BeginForce(q) \/ Poller!EndForce(q)
      PROVE  PollerInv'
  <2>1. PICK pc \in {"idle", "force"}, s \in ApiRow : Poller!Become(q, pc, s)
    BY <1>8 DEF Poller!WriteFails, Poller!DeleteMachine, Poller!BeginForce, Poller!EndForce,
                PollerTypeOK, ApiRow
  <2>2. request[q].pc # "restart" /\ UNCHANGED <<api, entry, poller, overlapped>>
    BY <1>8 DEF Poller!WriteFails, Poller!DeleteMachine, Poller!BeginForce, Poller!EndForce,
                Poller!NoRequest
  <2>. QED BY <2>1, <2>2, QuietRequest
<1>9. ASSUME NEW p \in Pollers, Poller!Wake(p) \/ Poller!Store(p) PROVE PollerInv'
  <2>1. PICK pc \in {"waiting", "polling", "done"} : poller' = [poller EXCEPT ![p].pc = pc]
    BY <1>9 DEF Poller!Wake, Poller!Store
  <2>2. p \in Poller!Running /\ UNCHANGED <<api, entry, request, overlapped>>
    BY <1>9 DEF Poller!Wake, Poller!Store, Poller!Running
  <2>3. /\ poller' \in [Pollers -> Goroutines]
        /\ \A o \in Pollers : /\ poller'[o].settings = poller[o].settings
                              /\ poller'[o].cancelled = poller[o].cancelled
                              /\ o # p => poller'[o].pc = poller[o].pc
    BY <2>1 DEF PollerTypeOK, Goroutines
  <2>4. Poller!Loose' \subseteq Poller!Loose /\ Poller!Loose \subseteq Pollers
    BY <2>2, <2>3 DEF Poller!Loose, Poller!Running
  <2>5. ~overlapped' => EditsAlone' /\ DeletesStopped' /\ LooseAgree'
    BY <2>2, <2>3, <2>4 DEF EditsAlone, DeletesStopped, LooseAgree, Poller!Editing,
                            Poller!Deleting
  <2>. QED BY <2>2, <2>3, <2>4, <2>5 DEF PollerTypeOK, Poller!OnePoller
<1>10. CASE Poller!HubRestart
  <2> DEFINE ended == [p \in Pollers |->
                         IF p \in Poller!Running THEN [poller[p] EXCEPT !.pc = "done"] ELSE poller[p]]
             started == [pc |-> "waiting", settings |-> api, cancelled |-> FALSE]
  <2>1. ended \in [Pollers -> Goroutines]
    BY DEF PollerTypeOK, Goroutines
  <2>2. \A p \in Pollers : ended[p].pc \notin {"waiting", "polling"}
    BY DEF PollerTypeOK, Goroutines, Poller!Running
  <2>3. /\ poller' = ended \/ poller' = [ended EXCEPT ![Poller!NextPoller] = started]
        /\ poller' # ended => entry' = Poller!NextPoller
    BY <1>10 DEF Poller!HubRestart
  <2>4. started \in Goroutines
    BY DEF PollerTypeOK, Goroutines
  <2>5. poller' \in [Pollers -> Goroutines]
    BY <2>1, <2>3, <2>4
  <2>6. \A p \in Poller!Loose' : p = entry' /\ poller'[p].settings = api
    <3>1. ASSUME NEW p \in Poller!Loose' PROVE p = entry' /\ poller'[p].settings = api
      <4>1. p \in Pollers /\ poller'[p].pc \in {"waiting", "polling"}
        BY <3>1 DEF Poller!Loose, Poller!Running
      <4>2. poller' # ended /\ p = Poller!NextPoller
        BY <2>1, <2>2, <2>3, <4>1
      <4>3. poller'[p] = started
        BY <2>1, <2>3, <4>1, <4>2
      <4>. QED BY <2>3, <4>2, <4>3
    <3>. QED BY <3>1
  <2>7. api' = api /\ request' = [q \in Requests |-> Poller!NoRequest]
    BY <1>10 DEF Poller!HubRestart
  <2>8. EditsAlone' /\ DeletesStopped' /\ LooseAgree'
    BY <2>6, <2>7 DEF EditsAlone, DeletesStopped, LooseAgree, Poller!Editing, Poller!Deleting,
                      Poller!NoRequest
  <2>. QED BY <2>5, <2>6, <2>7, <2>8 DEF PollerTypeOK, ApiRow, Steps, Poller!NoRequest,
              Poller!OnePoller
<1>. QED BY <1>1, <1>2, <1>3, <1>4, <1>5, <1>6, <1>7, <1>8, <1>9, <1>10 DEF Poller!Next

(***************************************************************************)
(* However edits, deletions, forced polls, errors and restarts interleave, *)
(* at most one poller goes on after its poll, and it is the one the table  *)
(* stops; between requests it polls with what the row says, and only while *)
(* there is a row, unless an edit overlapped an edit or a deletion.        *)
(***************************************************************************)
THEOREM OnePollerGoesOn == Poller!Spec => []OnePoller
<1>1. Poller!Init => PollerInv
  BY DEF Steps, Poller!Init, PollerInv, PollerTypeOK, ApiRow, Goroutines, Poller!Unstarted,
         Poller!NoRequest, Poller!OnePoller, Poller!Loose, Poller!Running, EditsAlone,
         DeletesStopped, LooseAgree, Poller!Editing, Poller!Deleting
<1>2. PollerInv /\ [Poller!Next]_Poller!pollerVars => PollerInv'
  <2> SUFFICES ASSUME PollerInv, [Poller!Next]_Poller!pollerVars PROVE PollerInv'
    OBVIOUS
  <2>1. CASE Poller!Next
    BY <2>1, PollerNext, DecisionsAssumption DEF DecisionsAssumption
  <2>2. CASE UNCHANGED Poller!pollerVars
    BY <2>2 DEF PollerInv, PollerTypeOK, Poller!OnePoller, Poller!Loose, Poller!Running,
                EditsAlone, DeletesStopped, LooseAgree, Poller!Editing, Poller!Deleting,
                Poller!pollerVars
  <2>. QED BY <2>1, <2>2
<1>3. PollerInv => OnePoller
  BY DEF PollerInv, OnePoller, Poller!PollsTheRow, LooseAgree, Poller!Editing
<1>. QED BY <1>1, <1>2, <1>3, PTL DEF Poller!Spec

-----------------------------------------------------------------------------
(***************************************************************************)
(* Alerts: every incident is justified by the log of what passes observed, *)
(* and ends because something contradicted it.                             *)
(***************************************************************************)

Waits == [since : Nat, observed : Nat, rule : Configs]
Outcomes == {"hit", "miss", "unknown"}
Observations == [at : Nat, limit : [Rules -> Int], out : [Rules -> Outcomes]]
Incidents ==
  [id : Nat, rule : Rules, status : {"active", "acknowledged", "resolved"}, upto : Nat]

AlertTypeOK ==
  /\ now \in Nat /\ interval \in Nat
  /\ row \in Rows \cup {None}
  /\ rule \in [Rules -> Configs]
  /\ unmet \in [Rules -> Waits \cup {None}]
  /\ next \in [Rules -> Waits \cup {None}]
  /\ incidents \subseteq Incidents
  /\ pass \in Passes \cup {None}
  /\ log \in Seq(Observations \cup {Alert!Restarted})
  /\ recovered \in [Rules -> BOOLEAN]
  /\ count \in Nat

\* A pass has read what it needs and judges the rules one by one.
Judging == pass # None /\ pass.read

\* Each rule is judged once in a pass, so what a pass read as not open and has
\* yet to judge is not open.
OneInv ==
  /\ Alert!OneIncident
  /\ \A i \in incidents : i.id < count
  /\ \A i, j \in incidents : i.id = j.id => i = j
  /\ Judging => \A i \in incidents : i.rule \in pass.todo \ pass.open => ~Alert!Unresolved(i)

\* The log l holds a breach of r under one limit from entry s to entry n, with
\* no gap above Continuity and no restart in it.
Held(l, r, s, n, limit) ==
  /\ \A k \in s..n : l[k] # Alert!Restarted /\ l[k].out[r] = "hit" /\ l[k].limit[r] = limit
  /\ \A k \in s + 1..n : l[k].at - l[k - 1].at <= Continuity

\* Such a stretch, up to entry n, is what a wait p remembers.
WaitHeld(l, r, p, n) ==
  \E s \in 1..n : /\ Held(l, r, s, n, p.rule.limit)
                  /\ l[s].at = p.since /\ l[n].at = p.observed

\* The log l justifies the incident i.
Opened(l, i) ==
  /\ i.upto \in 1..Len(l)
  /\ \E s \in 1..i.upto :
        /\ \A k \in s..i.upto : l[k] # Alert!Restarted
        /\ \A k \in s..i.upto : l[k].out[i.rule] = "hit" /\ l[k].limit[i.rule] = l[i.upto].limit[i.rule]
        /\ \A k \in s + 1..i.upto : Duration[i.rule] > 0 => l[k].at - l[k - 1].at <= Continuity
        /\ l[i.upto].at - l[s].at >= Duration[i.rule]

Last == Len(log)

\* The last entry of the log is what the pass that is judging observes.
Logged ==
  Judging => /\ Last > 0
             /\ log[Last] = [at |-> pass.at, limit |-> [r \in Rules |-> pass.rule[r].limit],
                           out |-> [r \in Rules |-> Alert!Observed(r, pass.row, pass.at, pass.rule)]]

\* The waits of the last pass are held up to the last observation before this
\* pass, those of this pass up to its own.
HeldInv ==
  /\ Logged
  /\ ~Judging => next = Alert!NothingPending
  /\ \A r \in Rules : unmet[r] # None => WaitHeld(log, r, unmet[r], IF Judging THEN Last - 1 ELSE Last)
  /\ \A r \in Rules : next[r] # None => WaitHeld(log, r, next[r], Last)
  /\ \A i \in incidents : Opened(log, i)

\* What the hub knows now is no breach of r.
Contradicted(r) ==
  /\ row # None
  /\ IF r \in Offline THEN now - row.seen - interval <= Threshold
     ELSE row.level # None /\ row.level <= rule[r].limit

Outcome(r) == Alert!Observed(r, pass.row, pass.at, pass.rule)

\* An unresolved incident is contradicted only by something that was noted, also
\* one that the pass under way is about to open or to resolve.
EvidenceInv ==
  /\ \A i \in incidents : Alert!Unresolved(i) /\ Contradicted(i.rule) => recovered[i.rule]
  /\ pass # None => \A r \in Rules : Outcome(r) = "hit" /\ Contradicted(r) => recovered[r]
  /\ pass # None => \A i \in incidents : Alert!Unresolved(i) /\ Outcome(i.rule) = "miss" => recovered[i.rule]

\* j is i, as it was or after an acknowledgement or a resolution.
Old(j, i) ==
  /\ j.id = i.id /\ j.rule = i.rule /\ j.upto = i.upto
  /\ Alert!Unresolved(j) => Alert!Unresolved(i)

\* A step after which every incident is one there was before.
OldIncidents ==
  \E f \in [incidents -> Incidents] :
    /\ incidents' \subseteq {f[i] : i \in incidents}
    /\ \A i \in incidents : Old(f[i], i)

(***************************************************************************)
(* A pass makes one of three things of a rule (evaluateAlertsAt).          *)
(***************************************************************************)
LEMMA OutcomeType ==
  ASSUME NEW r, NEW m, NEW t, NEW cfg
  PROVE  Alert!Observed(r, m, t, cfg) \in Outcomes
BY DEF Alert!Observed, Outcomes

(***************************************************************************)
(* The state a hub starts in has the types.                                *)
(***************************************************************************)
LEMMA AlertInitType == Alert!Init => AlertTypeOK
<1> SUFFICES ASSUME Alert!Init PROVE AlertTypeOK
  OBVIOUS
<1>1. PICK S \in Switched : rule = [r \in Rules |-> [on |-> r \in S, limit |-> 0]]
  BY DEF Alert!Init
<1>2. rule \in [Rules -> Configs]
  BY <1>1 DEF Configs
<1>. QED BY <1>2, DecisionsAssumption DEF DecisionsAssumption, Alert!Init, AlertTypeOK,
                                          Alert!NothingPending

(***************************************************************************)
(* Every step keeps the types.                                             *)
(***************************************************************************)
LEMMA AlertNextType == ASSUME AlertTypeOK, Alert!Next PROVE AlertTypeOK'
<1>. USE DEF AlertTypeOK
<1>1. CASE Alert!Tick
  BY <1>1 DEF Alert!Tick, Alert!fleet
<1>2. ASSUME NEW level \in Levels, Alert!Report(level) PROVE AlertTypeOK'
  <2>1. row' \in Rows
    BY <1>2 DEF Alert!Report, Rows
  <2>2. recovered' \in [Rules -> BOOLEAN]
    BY <1>2 DEF Alert!Report
  <2>. QED BY <1>2, <2>1, <2>2 DEF Alert!Report
<1>3. CASE Alert!Unreachable
  <2>1. row' \in Rows
    BY <1>3 DEF Alert!Unreachable, Rows
  <2>2. recovered' \in [Rules -> BOOLEAN]
    BY <1>3 DEF Alert!Unreachable
  <2>. QED BY <1>3, <2>1, <2>2 DEF Alert!Unreachable
<1>4. CASE Alert!Delete
  BY <1>4 DEF Alert!Delete
<1>5. ASSUME NEW r \in Rules, Alert!Edit(r) PROVE AlertTypeOK'
  <2>1. rule' \in [Rules -> Configs]
    <3>1. rule[r] \in Configs
      OBVIOUS
    <3>2. [rule[r] EXCEPT !.on = ~rule[r].on] \in Configs
      BY <3>1 DEF Configs
    <3>3. [rule[r] EXCEPT !.limit = 1 - rule[r].limit] \in Configs
      BY <3>1, SMTT(30) DEF Configs
    <3>4. CASE rule' = [rule EXCEPT ![r] = [rule[r] EXCEPT !.on = ~rule[r].on]]
      BY <3>2, <3>4
    <3>5. CASE rule' = [rule EXCEPT ![r] = [rule[r] EXCEPT !.limit = 1 - rule[r].limit]]
      BY <3>3, <3>5
    <3>. QED BY <1>5, <3>4, <3>5 DEF Alert!Edit
  <2>2. recovered' \in [Rules -> BOOLEAN]
    BY <1>5 DEF Alert!Edit
  <2>. QED BY <1>5, <2>1, <2>2 DEF Alert!Edit
<1>6. ASSUME NEW r \in Rules, Alert!Judge(r) PROVE AlertTypeOK'
  <2>1. pass \in Passes /\ pass' = [pass EXCEPT !.todo = @ \ {r}] /\ pass.rule[r] \in Configs
    BY <1>6 DEF Alert!Judge, Passes
  <2>2. pass' \in Passes
    BY <2>1 DEF Passes
  <2>3. next' \in [Rules -> Waits \cup {None}]
    <3>1. Alert!Since(r) \in Nat /\ pass.at \in Nat
      BY <2>1 DEF Alert!Since, Alert!Continues, Waits, Passes
    <3>2. [since |-> Alert!Since(r), observed |-> pass.at, rule |-> pass.rule[r]] \in Waits
      BY <2>1, <3>1 DEF Waits
    <3>. QED BY <1>6, <3>2 DEF Alert!Judge
  <2>4. incidents' \subseteq Incidents /\ count' \in Nat
    <3>1. CASE Alert!Opens(r)
      <4>1. [id |-> count, rule |-> r, status |-> "active", upto |-> Len(log)] \in Incidents
        BY DEF Incidents
      <4>. QED BY <3>1, <4>1 DEF Alert!Opens
    <3>2. CASE Alert!Resolves(r) /\ count' = count
      <4>1. \A i \in incidents : [i EXCEPT !.status = "resolved"] \in Incidents
        BY DEF Incidents
      <4>. QED BY <3>2, <4>1 DEF Alert!Resolves
    <3>3. CASE UNCHANGED <<incidents, count>>
      BY <3>3
    <3>. QED BY <1>6, <3>1, <3>2, <3>3 DEF Alert!Judge
  <2>. QED BY <1>6, <2>2, <2>3, <2>4 DEF Alert!Judge, Alert!fleet
<1>7. ASSUME NEW i \in incidents, Alert!Acknowledge(i) PROVE AlertTypeOK'
  <2>1. [i EXCEPT !.status = "acknowledged"] \in Incidents
    BY DEF Incidents
  <2>. QED BY <1>7, <2>1 DEF Alert!Acknowledge, Alert!fleet
<1>8. CASE Alert!Cleanup
  BY <1>8 DEF Alert!Cleanup, Alert!fleet
<1>9. CASE Alert!PassRead
  <2>1. pass' \in Passes
    BY <1>9 DEF Alert!PassRead, Passes
  <2>2. recovered' \in [Rules -> BOOLEAN]
    BY <1>9 DEF Alert!PassRead
  <2>. QED BY <1>9, <2>1, <2>2 DEF Alert!PassRead, Alert!fleet
<1>10. CASE Alert!PassOpen
  <2>1. pass \in Passes
    BY <1>10 DEF Alert!PassOpen
  <2>2. Alert!OpenOf \subseteq Rules
    BY DEF Alert!OpenOf, Incidents
  <2>3. pass' \in Passes
    BY <1>10, <2>1, <2>2 DEF Alert!PassOpen, Passes
  <2>4. [r \in Rules |-> pass.rule[r].limit] \in [Rules -> Int]
    BY <2>1 DEF Passes, Configs
  <2>5. [r \in Rules |-> Alert!Observed(r, pass.row, pass.at, pass.rule)] \in [Rules -> Outcomes]
    BY OutcomeType
  <2>6. log' \in Seq(Observations \cup {Alert!Restarted})
    <3>1. [at |-> pass.at, limit |-> [r \in Rules |-> pass.rule[r].limit],
           out |-> [r \in Rules |-> Alert!Observed(r, pass.row, pass.at, pass.rule)]] \in Observations
      BY <2>1, <2>4, <2>5 DEF Observations, Passes
    <3>. QED BY <1>10, <3>1 DEF Alert!PassOpen
  <2>. QED BY <1>10, <2>3, <2>6 DEF Alert!PassOpen, Alert!NothingPending, Alert!fleet
<1>11. CASE Alert!Abort
  BY <1>11 DEF Alert!Abort, Alert!fleet
<1>12. CASE Alert!PassEnd
  BY <1>12 DEF Alert!PassEnd, Alert!fleet, Alert!NothingPending
<1>13. CASE Alert!Restart
  <2>1. log' \in Seq(Observations \cup {Alert!Restarted})
    BY <1>13 DEF Alert!Restart
  <2>. QED BY <1>13, <2>1 DEF Alert!Restart, Alert!fleet, Alert!NothingPending
<1>. QED BY <1>1, <1>2, <1>3, <1>4, <1>5, <1>6, <1>7, <1>8, <1>9, <1>10, <1>11, <1>12, <1>13 DEF Alert!Next

(***************************************************************************)
(* Steps that take incidents away, or leave them, keep the others as they  *)
(* were.                                                                   *)
(***************************************************************************)
LEMMA KeptAreOld == ASSUME AlertTypeOK, incidents' \subseteq incidents PROVE OldIncidents
<1> DEFINE f == [i \in incidents |-> i]
<1>1. f \in [incidents -> Incidents]
  BY DEF AlertTypeOK
<1>2. incidents' \subseteq {f[i] : i \in incidents} /\ \A i \in incidents : Old(f[i], i)
  BY DEF Old
<1>. QED BY <1>1, <1>2 DEF OldIncidents

(***************************************************************************)
(* An acknowledgement changes neither what an incident is about nor that   *)
(* it is unresolved.                                                       *)
(***************************************************************************)
LEMMA AcknowledgedAreOld ==
  ASSUME AlertTypeOK, NEW i \in incidents, Alert!Acknowledge(i) PROVE OldIncidents
<1> DEFINE f == [j \in incidents |-> IF j = i THEN [i EXCEPT !.status = "acknowledged"] ELSE j]
<1>1. f \in [incidents -> Incidents]
  BY ZenonT(60) DEF AlertTypeOK, Incidents
<1>2. \A j \in incidents : Old(f[j], j)
  BY DEF Old, Alert!Unresolved, AlertTypeOK, Incidents, Alert!Acknowledge
<1>3. incidents' \subseteq {f[j] : j \in incidents}
  BY DEF Alert!Acknowledge
<1>. QED BY <1>1, <1>2, <1>3 DEF OldIncidents

(***************************************************************************)
(* Nor does a resolution open one.                                         *)
(***************************************************************************)
LEMMA ResolvedAreOld ==
  ASSUME AlertTypeOK, NEW r, Alert!Resolves(r) PROVE OldIncidents
<1> DEFINE f == [j \in incidents |-> IF j.rule = r /\ Alert!Unresolved(j)
                                     THEN [j EXCEPT !.status = "resolved"] ELSE j]
<1>1. f \in [incidents -> Incidents]
  BY DEF AlertTypeOK, Incidents
<1>2. \A j \in incidents : Old(f[j], j)
  BY DEF Old, Alert!Unresolved, AlertTypeOK, Incidents
<1>3. incidents' \subseteq {f[j] : j \in incidents}
  BY DEF Alert!Resolves
<1>. QED BY <1>1, <1>2, <1>3 DEF OldIncidents

(***************************************************************************)
(* Only a pass that finds a breach opens an incident; every other step     *)
(* leaves older ones.                                                      *)
(***************************************************************************)
LEMMA OldSteps ==
  ASSUME AlertTypeOK, Alert!Next, \A r \in Rules : ~(Alert!Judge(r) /\ Alert!Opens(r) /\ row # None)
  PROVE  OldIncidents /\ count' = count
<1>1. ASSUME NEW i \in incidents, Alert!Acknowledge(i) PROVE OldIncidents /\ count' = count
  BY <1>1, AcknowledgedAreOld DEF Alert!Acknowledge
<1>2. ASSUME NEW r \in Rules, Alert!Judge(r) PROVE OldIncidents /\ count' = count
  <2>1. CASE Alert!Opens(r)
    <3>1. incidents' = incidents /\ count' = count
      BY <1>2, <2>1 DEF Alert!Opens
    <3>. QED BY <3>1, KeptAreOld
  <2>2. CASE Alert!Resolves(r) /\ count' = count
    BY <2>2, ResolvedAreOld
  <2>3. CASE UNCHANGED <<incidents, count>>
    BY <2>3, KeptAreOld
  <2>. QED BY <1>2, <2>1, <2>2, <2>3 DEF Alert!Judge
<1>3. CASE \/ Alert!Tick \/ (\E level \in Levels : Alert!Report(level)) \/ Alert!Unreachable \/ Alert!Delete
           \/ (\E r \in Rules : Alert!Edit(r)) \/ Alert!Cleanup
           \/ Alert!PassRead \/ Alert!PassOpen \/ Alert!Abort \/ Alert!PassEnd \/ Alert!Restart
  <2>1. incidents' \subseteq incidents /\ count' = count
    BY <1>3 DEF Alert!Tick, Alert!Report, Alert!Unreachable, Alert!Delete, Alert!Edit,
                Alert!Cleanup, Alert!PassRead, Alert!PassOpen, Alert!Abort,
                Alert!PassEnd, Alert!Restart
  <2>. QED BY <2>1, KeptAreOld
<1>. QED BY <1>1, <1>2, <1>3 DEF Alert!Next

(***************************************************************************)
(* Older incidents stay one per rule, and one per id.                      *)
(***************************************************************************)
LEMMA OldFacts ==
  ASSUME AlertTypeOK, OneInv, OldIncidents, count' = count
  PROVE  /\ \A i, j \in incidents' : (i.rule = j.rule /\ Alert!Unresolved(i) /\ Alert!Unresolved(j)) => i = j
         /\ \A i \in incidents' : i.id < count'
         /\ \A i, j \in incidents' : i.id = j.id => i = j
         /\ \A j \in incidents' : \E i \in incidents : Old(j, i)
<1>1. PICK f \in [incidents -> Incidents] :
            /\ incidents' \subseteq {f[i] : i \in incidents}
            /\ \A i \in incidents : Old(f[i], i)
  BY DEF OldIncidents
<1>2. \A j \in incidents' : \E i \in incidents : j = f[i] /\ Old(j, i)
  BY <1>1
<1>. QED BY <1>2 DEF OneInv, Alert!OneIncident, Old

(***************************************************************************)
(* A hub starts without incidents.                                         *)
(***************************************************************************)
LEMMA InitOne == Alert!Init => OneInv
BY DEF Alert!Init, OneInv, Alert!OneIncident, Judging

(***************************************************************************)
(* A pass judges a rule once, against the incidents it read, so it never   *)
(* opens a second one of a rule, and a deletion of the machine that        *)
(* overtakes it leaves none (evaluateAlertsAt and its conditional insert). *)
(***************************************************************************)
LEMMA NextOne == ASSUME AlertTypeOK, OneInv, Alert!Next PROVE OneInv'
<1>1. ASSUME NEW r \in Rules, Alert!Judge(r), Alert!Opens(r), row # None PROVE OneInv'
  <2> DEFINE new == [id |-> count, rule |-> r, status |-> "active", upto |-> Len(log)]
  <2>1. incidents' = incidents \cup {new} /\ count' = count + 1 /\ row' = row
    BY <1>1 DEF Alert!Opens, Alert!Judge, Alert!fleet
  <2>2. /\ pass \in Passes /\ pass # None /\ pass.read /\ r \in pass.todo
        /\ pass' = [pass EXCEPT !.todo = @ \ {r}]
    BY <1>1 DEF Alert!Judge, AlertTypeOK
  <2>3. pass'.todo = pass.todo \ {r} /\ pass'.open = pass.open
    BY <2>2 DEF Passes
  <2>4. CASE r \in pass.open
    <3>1. \/ Alert!Observed(r, pass.row, pass.at, pass.rule) = "miss" /\ Alert!Resolves(r)
          \/ incidents' = incidents
      BY <1>1, <2>4 DEF Alert!Judge
    <3>2. \A i \in incidents : i.id # new.id
      BY DEF OneInv, AlertTypeOK, Incidents
    <3>3. \A i \in incidents' : \E j \in incidents : i.id = j.id
      <4>1. CASE Alert!Resolves(r)
        <5>1. OldIncidents
          BY <4>1, ResolvedAreOld
        <5>. QED BY <5>1 DEF OldIncidents, Old
      <4>2. CASE incidents' = incidents
        BY <4>2
      <4>. QED BY <3>1, <4>1, <4>2
    <3>. QED BY <2>1, <3>2, <3>3
  <2>5. CASE r \notin pass.open
    <3>1. \A i \in incidents : i.rule = r => ~Alert!Unresolved(i)
      BY <2>2, <2>5 DEF OneInv, Judging
    <3>2. \A i \in incidents : i.id < count /\ i.id \in Nat
      BY DEF OneInv, AlertTypeOK, Incidents
    <3>3. Alert!OneIncident'
      BY <2>1, <3>1, <1>1 DEF OneInv, Alert!OneIncident, Alert!Unresolved
    <3>4. /\ \A i \in incidents' : i.id < count'
          /\ \A i, j \in incidents' : i.id = j.id => i = j
      BY <2>1, <3>2 DEF OneInv, AlertTypeOK
    <3>5. \A i \in incidents' : i.rule \in pass'.todo \ pass'.open => ~Alert!Unresolved(i)
      BY <2>1, <2>2, <2>3 DEF OneInv, Judging
    <3>. QED BY <3>3, <3>4, <3>5 DEF OneInv, Alert!Unresolved
  <2>. QED BY <2>4, <2>5
<1>2. CASE \A r \in Rules : ~(Alert!Judge(r) /\ Alert!Opens(r) /\ row # None)
  <2>1. /\ \A i, j \in incidents' : (i.rule = j.rule /\ Alert!Unresolved(i) /\ Alert!Unresolved(j)) => i = j
        /\ \A i \in incidents' : i.id < count'
        /\ \A i, j \in incidents' : i.id = j.id => i = j
        /\ \A j \in incidents' : \E i \in incidents : Old(j, i)
    BY <1>2, OldSteps, OldFacts
  <2>2. row' = None => incidents' = {}
    <3>1. CASE UNCHANGED row
      BY <2>1, <3>1 DEF OneInv, Alert!OneIncident
    <3>2. ASSUME NEW level \in Levels, Alert!Report(level) PROVE row' # None
      <4>1. row' \in Rows
        BY <3>2 DEF Alert!Report, Rows, AlertTypeOK
      <4>. QED BY <4>1, DecisionsAssumption DEF DecisionsAssumption, Rows
    <3>3. CASE Alert!Unreachable
      <4>1. row' \in Rows
        BY <3>3 DEF Alert!Unreachable, Rows, AlertTypeOK
      <4>. QED BY <4>1, DecisionsAssumption DEF DecisionsAssumption, Rows
    <3>4. CASE Alert!Delete
      BY <3>4 DEF Alert!Delete
    <3>5. CASE \/ Alert!Tick \/ (\E r \in Rules : Alert!Edit(r) \/ Alert!Judge(r))
               \/ (\E i \in incidents : Alert!Acknowledge(i)) \/ Alert!Cleanup
               \/ Alert!PassRead \/ Alert!PassOpen \/ Alert!Abort \/ Alert!PassEnd \/ Alert!Restart
      <4>1. UNCHANGED row
        BY <3>5 DEF Alert!Tick, Alert!Edit, Alert!Judge, Alert!Acknowledge, Alert!Cleanup,
                    Alert!PassRead, Alert!PassOpen, Alert!Abort,
                    Alert!PassEnd, Alert!Restart, Alert!fleet
      <4>. QED BY <3>1, <4>1
    <3>. QED BY <3>2, <3>3, <3>4, <3>5 DEF Alert!Next
  <2>3. Judging' => \A i \in incidents' : i.rule \in pass'.todo \ pass'.open => ~Alert!Unresolved(i)
    <3>1. CASE Alert!PassOpen
      <4>1. pass \in Passes /\ pass' = [pass EXCEPT !.read = TRUE, !.open = Alert!OpenOf,
                            !.todo = {r \in Rules : pass.rule[r].on /\ pass.row # None}]
        BY <3>1 DEF Alert!PassOpen, AlertTypeOK
      <4>2. pass'.open = Alert!OpenOf /\ incidents' = incidents
        BY <3>1, <4>1 DEF Alert!PassOpen, Passes
      <4>. QED BY <4>2 DEF Alert!OpenOf
    <3>2. ASSUME NEW r \in Rules, Alert!Judge(r)
          PROVE  Judging /\ pass'.todo \subseteq pass.todo /\ pass'.open = pass.open
      BY <3>2 DEF Alert!Judge, Judging, Passes, AlertTypeOK
    <3>3. CASE pass' = pass \/ pass' = None \/ ~pass'.read
      BY <2>1, <3>3 DEF OneInv, Judging, Old
    <3>4. CASE \/ Alert!Tick \/ (\E level \in Levels : Alert!Report(level)) \/ Alert!Unreachable \/ Alert!Delete
               \/ (\E r \in Rules : Alert!Edit(r))
               \/ (\E i \in incidents : Alert!Acknowledge(i)) \/ Alert!Cleanup
               \/ Alert!PassRead \/ Alert!Abort \/ Alert!PassEnd \/ Alert!Restart
      <4>1. pass' = pass \/ pass' = None \/ ~pass'.read
        BY <3>4 DEF Alert!Tick, Alert!Report, Alert!Unreachable, Alert!Delete, Alert!Edit,
                    Alert!Acknowledge, Alert!Cleanup, Alert!PassRead,
                    Alert!Abort, Alert!PassEnd, Alert!Restart
      <4>. QED BY <3>3, <4>1
    <3>5. ASSUME NEW r \in Rules, Alert!Judge(r)
          PROVE  Judging' => \A i \in incidents' : i.rule \in pass'.todo \ pass'.open => ~Alert!Unresolved(i)
      BY <2>1, <3>2, <3>5 DEF OneInv, Old
    <3>. QED BY <3>1, <3>4, <3>5 DEF Alert!Next
  <2>. QED BY <2>1, <2>2, <2>3 DEF OneInv, Alert!OneIncident
<1>. QED BY <1>1, <1>2

Entries == Observations \cup {Alert!Restarted}

(***************************************************************************)
(* An observation is told apart from a restart.                            *)
(***************************************************************************)
LEMMA ObservationIsNoRestart ==
  ASSUME NEW t, NEW a, NEW o PROVE [at |-> t, limit |-> a, out |-> o] # Alert!Restarted
BY DEF Alert!Restarted

(***************************************************************************)
(* An entry is added at the end.                                           *)
(***************************************************************************)
LEMMA LogAppend ==
  ASSUME NEW l \in Seq(Entries), NEW e \in Entries
  PROVE  /\ Append(l, e) \in Seq(Entries) /\ Len(Append(l, e)) = Len(l) + 1
         /\ Append(l, e)[Len(l) + 1] = e
         /\ \A k \in 1..Len(l) : Append(l, e)[k] = l[k]
OBVIOUS

(***************************************************************************)
(* What the log says of a wait, a later entry does not change.             *)
(***************************************************************************)
LEMMA WaitStays ==
  ASSUME NEW l \in Seq(Entries), NEW e \in Entries, NEW r, NEW p, NEW n \in 1..Len(l),
         WaitHeld(l, r, p, n)
  PROVE  WaitHeld(Append(l, e), r, p, n)
<1>1. \A k \in 1..Len(l) : Append(l, e)[k] = l[k]
  BY LogAppend
<1>2. PICK s \in 1..n : Held(l, r, s, n, p.rule.limit) /\ l[s].at = p.since /\ l[n].at = p.observed
  BY DEF WaitHeld
<1>3. Held(Append(l, e), r, s, n, p.rule.limit)
  <2>1. \A k \in s..n : k \in 1..Len(l)
    OBVIOUS
  <2>2. \A k \in s + 1..n : k \in 1..Len(l) /\ k - 1 \in 1..Len(l)
    OBVIOUS
  <2>. QED BY <1>1, <1>2, <2>1, <2>2 DEF Held
<1>. QED BY <1>1, <1>2, <1>3 DEF WaitHeld

(***************************************************************************)
(* Nor what it says of an incident.                                        *)
(***************************************************************************)
LEMMA OpenedStays ==
  ASSUME NEW l \in Seq(Entries), NEW e \in Entries, NEW i, Opened(l, i)
  PROVE  Opened(Append(l, e), i)
<1>1. /\ \A k \in 1..Len(l) : Append(l, e)[k] = l[k]
      /\ Len(Append(l, e)) = Len(l) + 1
  BY LogAppend
<1>2. PICK s \in 1..i.upto :
        /\ \A k \in s..i.upto : l[k] # Alert!Restarted
        /\ \A k \in s..i.upto : l[k].out[i.rule] = "hit" /\ l[k].limit[i.rule] = l[i.upto].limit[i.rule]
        /\ \A k \in s + 1..i.upto : Duration[i.rule] > 0 => l[k].at - l[k - 1].at <= Continuity
        /\ l[i.upto].at - l[s].at >= Duration[i.rule]
  BY DEF Opened
<1>3. i.upto \in 1..Len(l)
  BY DEF Opened
<1>4. \A k \in s..i.upto : k \in 1..Len(l)
  BY <1>3
<1>5. \A k \in s + 1..i.upto : k \in 1..Len(l) /\ k - 1 \in 1..Len(l)
  BY <1>3
<1>6. i.upto \in 1..Len(Append(l, e))
  BY <1>1, <1>3
<1>. QED BY <1>1, <1>2, <1>3, <1>4, <1>5, <1>6 DEF Opened

(***************************************************************************)
(* A wait that is held and continues in the next observation is held       *)
(* there.                                                                  *)
(***************************************************************************)
LEMMA WaitGrows ==
  ASSUME NEW l \in Seq(Entries), NEW r, NEW p, NEW q, NEW n \in 1..Len(l), n > 1,
         WaitHeld(l, r, p, n - 1),
         l[n] # Alert!Restarted, l[n].out[r] = "hit", l[n].limit[r] = p.rule.limit,
         l[n].at - p.observed <= Continuity,
         q.rule = p.rule, q.since = p.since, q.observed = l[n].at
  PROVE  WaitHeld(l, r, q, n)
<1>1. PICK s \in 1..n - 1 : /\ Held(l, r, s, n - 1, p.rule.limit)
                            /\ l[s].at = p.since /\ l[n - 1].at = p.observed
  BY DEF WaitHeld
<1>2. Held(l, r, s, n, q.rule.limit)
  <2>1. \A k \in s..n : k \in s..n - 1 \/ k = n
    OBVIOUS
  <2>2. \A k \in s + 1..n : k \in s + 1..n - 1 \/ k = n
    OBVIOUS
  <2>. QED BY <1>1, <2>1, <2>2 DEF Held
<1>3. s \in 1..n
  OBVIOUS
<1>. QED BY <1>1, <1>2, <1>3 DEF WaitHeld

(***************************************************************************)
(* One breach is a wait that has just begun.                               *)
(***************************************************************************)
LEMMA WaitBegins ==
  ASSUME NEW l, NEW r, NEW q, NEW n \in Nat \ {0},
         l[n] # Alert!Restarted, l[n].out[r] = "hit", l[n].limit[r] = q.rule.limit,
         q.since = l[n].at, q.observed = l[n].at
  PROVE  WaitHeld(l, r, q, n)
<1>1. Held(l, r, n, n, q.rule.limit)
  <2>1. \A k \in n..n : k = n
    OBVIOUS
  <2>2. n + 1..n = {}
    OBVIOUS
  <2>. QED BY <2>1, <2>2 DEF Held
<1>2. n \in 1..n
  OBVIOUS
<1>. QED BY <1>1, <1>2 DEF WaitHeld

(***************************************************************************)
(* A wait as long as the rule's duration justifies an incident.            *)
(***************************************************************************)
LEMMA WaitOpens ==
  ASSUME NEW l \in Seq(Entries), NEW i, NEW q, i.upto \in 1..Len(l),
         WaitHeld(l, i.rule, q, i.upto), q.observed - q.since >= Duration[i.rule]
  PROVE  Opened(l, i)
<1> DEFINE n == i.upto
<1>1. PICK s \in 1..n : /\ Held(l, i.rule, s, n, q.rule.limit)
                        /\ l[s].at = q.since /\ l[n].at = q.observed
  BY DEF WaitHeld
<1>2. l[n].limit[i.rule] = q.rule.limit
  <2>1. n \in s..n
    OBVIOUS
  <2>. QED BY <1>1, <2>1 DEF Held
<1>. QED BY <1>1, <1>2 DEF Held, Opened

(***************************************************************************)
(* Nothing is pending when a hub starts.                                   *)
(***************************************************************************)
LEMMA InitHeld == Alert!Init => HeldInv
BY DEF Alert!Init, HeldInv, Logged, Judging, Alert!NothingPending

(***************************************************************************)
(* Steps that leave the log, the waits and the pass's evidence alone.      *)
(***************************************************************************)
LEMMA QuietHeld ==
  ASSUME AlertTypeOK, HeldInv, OldIncidents, UNCHANGED <<log, unmet, next>>,
         Judging' = Judging,
         Judging => pass'.at = pass.at /\ pass'.rule = pass.rule /\ pass'.row = pass.row,
         Judging => interval' = interval
  PROVE  HeldInv'
<1>1. \A i \in incidents' : Opened(log', i)
  <2>1. \A j \in incidents' : \E i \in incidents : Old(j, i)
    BY DEF OldIncidents
  <2>. QED BY <2>1 DEF HeldInv, Old, Opened
<1>2. Logged'
  BY DEF HeldInv, Logged, Last, Alert!Observed, Alert!FreshFor
<1>3. /\ ~Judging' => next' = Alert!NothingPending
      /\ \A r \in Rules : unmet'[r] # None =>
           WaitHeld(log', r, unmet'[r], IF Judging' THEN Last' - 1 ELSE Last')
      /\ \A r \in Rules : next'[r] # None => WaitHeld(log', r, next'[r], Last')
  BY DEF HeldInv, Last
<1>. QED BY <1>1, <1>2, <1>3 DEF HeldInv

(***************************************************************************)
(* The wait a pass reckons with is one the log holds, up to its own        *)
(* observation, whether it continues an older one or begins                *)
(* (pendingSince).                                                         *)
(***************************************************************************)
LEMMA WaitOfJudge ==
  ASSUME AlertTypeOK, HeldInv, NEW r \in Rules, Alert!Judge(r),
         Alert!Observed(r, pass.row, pass.at, pass.rule) = "hit"
  PROVE  /\ Last > 0
         /\ WaitHeld(log, r, [since |-> Alert!Since(r), observed |-> pass.at, rule |-> pass.rule[r]], Last)
         /\ WaitHeld(log, r, [since |-> pass.at, observed |-> pass.at, rule |-> pass.rule[r]], Last)
<1> DEFINE q == [since |-> Alert!Since(r), observed |-> pass.at, rule |-> pass.rule[r]]
           b == [since |-> pass.at, observed |-> pass.at, rule |-> pass.rule[r]]
<1>1. Judging
  BY DEF Alert!Judge, Judging
<1>2. /\ Last \in Nat /\ Last > 0 /\ Last = Len(log)
      /\ log[Last] = [at |-> pass.at, limit |-> [x \in Rules |-> pass.rule[x].limit],
                      out |-> [x \in Rules |-> Alert!Observed(x, pass.row, pass.at, pass.rule)]]
  BY <1>1 DEF HeldInv, Logged, Last, AlertTypeOK
<1>3. /\ log[Last] # Alert!Restarted /\ log[Last].out[r] = "hit"
      /\ log[Last].limit[r] = pass.rule[r].limit /\ log[Last].at = pass.at
  BY <1>2, ObservationIsNoRestart
<1>4. WaitHeld(log, r, b, Last)
  BY <1>2, <1>3, WaitBegins
<1>5. CASE ~Alert!Continues(r)
  BY <1>2, <1>4, <1>5 DEF Alert!Since
<1>6. CASE Alert!Continues(r)
  <2>1. /\ unmet[r] # None /\ unmet[r].rule = pass.rule[r]
        /\ pass.at - unmet[r].observed <= Continuity
    BY <1>6 DEF Alert!Continues
  <2>2. WaitHeld(log, r, unmet[r], Last - 1)
    BY <1>1, <2>1 DEF HeldInv
  <2>3. Last > 1
    BY <1>2, <2>2 DEF WaitHeld
  <2>4. Alert!Since(r) = unmet[r].since
    BY <1>6 DEF Alert!Since
  <2>5. log \in Seq(Entries) /\ Last \in 1..Len(log)
    BY <1>2 DEF AlertTypeOK, Entries
  <2>6. q.rule = unmet[r].rule /\ q.since = unmet[r].since /\ q.observed = log[Last].at
    BY <1>3, <2>1, <2>4
  <2>7. log[Last].limit[r] = unmet[r].rule.limit /\ log[Last].at - unmet[r].observed <= Continuity
    BY <1>3, <2>1
  <2>8. WaitHeld(log, r, q, Last)
    BY <1>3, <2>2, <2>3, <2>5, <2>6, <2>7, WaitGrows
  <2>. QED BY <1>2, <1>4, <2>8
<1>. QED BY <1>5, <1>6

(***************************************************************************)
(* What a pass opens is held by the log (evaluateAlertsAt).                *)
(***************************************************************************)
LEMMA JudgeHeld == ASSUME AlertTypeOK, HeldInv, NEW r \in Rules, Alert!Judge(r) PROVE HeldInv'
<1> DEFINE out == Alert!Observed(r, pass.row, pass.at, pass.rule)
           q == [since |-> Alert!Since(r), observed |-> pass.at, rule |-> pass.rule[r]]
           b == [since |-> pass.at, observed |-> pass.at, rule |-> pass.rule[r]]
           new == [id |-> count, rule |-> r, status |-> "active", upto |-> Len(log)]
<1>1. /\ UNCHANGED <<now, interval, row, rule, unmet, log>>
      /\ pass # None /\ pass.read /\ pass \in Passes
      /\ pass' = [pass EXCEPT !.todo = @ \ {r}]
  BY DEF Alert!Judge, Alert!fleet, AlertTypeOK
<1>2. /\ pass'.at = pass.at /\ pass'.rule = pass.rule /\ pass'.row = pass.row
      /\ pass'.read = pass.read
  BY <1>1 DEF Passes
<1>3. /\ Logged' /\ Last' = Last
      /\ \A x \in Rules : unmet'[x] # None => WaitHeld(log', x, unmet'[x], Last' - 1)
      /\ Judging
  BY <1>1, <1>2 DEF HeldInv, Logged, Judging, Last, Alert!Observed, Alert!FreshFor
<1>4. pass' # None
  <2>1. pass' \in Passes
    BY <1>1 DEF Passes
  <2>. QED BY <2>1, DecisionsAssumption DEF DecisionsAssumption
<1>5. Judging'
  BY <1>1, <1>2, <1>4 DEF Judging
<1>6. \A x \in Rules : next'[x] # None => WaitHeld(log', x, next'[x], Last')
  <2>1. CASE out = "hit" /\ next' = [next EXCEPT ![r] = q]
    <3>1. WaitHeld(log, r, q, Last)
      BY <2>1, WaitOfJudge
    <3>2. \A x \in Rules : next'[x] = IF x = r THEN q ELSE next[x]
      BY <2>1 DEF AlertTypeOK
    <3>. QED BY <1>1, <1>3, <3>1, <3>2 DEF HeldInv
  <2>2. CASE next' = next
    BY <1>1, <1>3, <2>2 DEF HeldInv
  <2>. QED BY <2>1, <2>2 DEF Alert!Judge
<1>7. \A i \in incidents' : Opened(log', i)
  <2>1. CASE OldIncidents
    <3>1. \A j \in incidents' : \E i \in incidents : Old(j, i)
      BY <2>1 DEF OldIncidents
    <3>. QED BY <1>1, <3>1, SMTT(30) DEF HeldInv, Old, Opened
  <2>2. CASE Alert!Opens(r) /\ row # None /\ out = "hit" /\ r \notin pass.open
             /\ (Duration[r] > 0 => pass.at - Alert!Since(r) >= Duration[r])
    <3>1. incidents' = incidents \cup {new}
      BY <2>2 DEF Alert!Opens
    <3>2. /\ Last > 0 /\ WaitHeld(log, r, q, Last) /\ WaitHeld(log, r, b, Last)
          /\ log \in Seq(Entries) /\ Last = Len(log)
      BY <2>2, WaitOfJudge DEF AlertTypeOK, Last, Entries
    <3>3. new.upto \in 1..Len(log) /\ new.rule = r /\ new.upto = Last
      BY <3>2
    <3>4. pass.at \in Nat /\ Duration[r] \in Nat
      BY <1>1, DecisionsAssumption DEF DecisionsAssumption, Passes
    <3>5. CASE Duration[r] > 0
      <4>1. q.observed - q.since >= Duration[r]
        BY <2>2, <3>5
      <4>2. Opened(log, new)
        BY <3>2, <3>3, <4>1, WaitOpens
      <4>. QED BY <1>1, <3>1, <4>2 DEF HeldInv
    <3>6. CASE ~(Duration[r] > 0)
      <4>1. b.observed - b.since >= Duration[r]
        BY <3>4, <3>6
      <4>2. Opened(log, new)
        BY <3>2, <3>3, <4>1, WaitOpens
      <4>. QED BY <1>1, <3>1, <4>2 DEF HeldInv
    <3>. QED BY <3>5, <3>6
  <2>3. CASE Alert!Opens(r) /\ row = None
    <3>1. incidents' \subseteq incidents
      BY <2>3 DEF Alert!Opens
    <3>. QED BY <2>1, <3>1, KeptAreOld
  <2>4. CASE Alert!Resolves(r)
    BY <2>1, <2>4, ResolvedAreOld
  <2>5. CASE incidents' = incidents
    BY <2>1, <2>5, KeptAreOld
  <2>. QED BY <2>2, <2>3, <2>4, <2>5 DEF Alert!Judge
<1>. QED BY <1>3, <1>5, <1>6, <1>7 DEF HeldInv

(***************************************************************************)
(* Every step keeps waits and incidents held by the log.                   *)
(***************************************************************************)
LEMMA NextHeld == ASSUME AlertTypeOK, HeldInv, Alert!Next PROVE HeldInv'
<1>1. ASSUME NEW r \in Rules, Alert!Judge(r) PROVE HeldInv'
  BY <1>1, JudgeHeld
<1>2. CASE Alert!PassOpen
  <2> DEFINE e == [at |-> pass.at, limit |-> [r \in Rules |-> pass.rule[r].limit],
                   out |-> [r \in Rules |-> Alert!Observed(r, pass.row, pass.at, pass.rule)]]
  <2>1. /\ log' = Append(log, e) /\ unmet' = unmet /\ next' = Alert!NothingPending
        /\ incidents' = incidents /\ interval' = interval /\ ~Judging
        /\ pass \in Passes
        /\ pass' = [pass EXCEPT !.read = TRUE, !.open = Alert!OpenOf,
                                !.todo = {r \in Rules : pass.rule[r].on /\ pass.row # None}]
    BY <1>2 DEF Alert!PassOpen, Alert!fleet, Judging, AlertTypeOK
  <2>2. pass'.at = pass.at /\ pass'.rule = pass.rule /\ pass'.row = pass.row /\ pass'.read
    BY <2>1 DEF Passes
  <2>3. pass' # None
    <3>1. Alert!OpenOf \subseteq Rules
      BY DEF Alert!OpenOf, AlertTypeOK, Incidents
    <3>2. pass' \in Passes
      BY <2>1, <3>1 DEF Passes
    <3>. QED BY <3>2, DecisionsAssumption DEF DecisionsAssumption
  <2>4. Judging'
    BY <2>2, <2>3 DEF Judging
  <2>5. log \in Seq(Entries) /\ e \in Entries
    <3>1. [r \in Rules |-> pass.rule[r].limit] \in [Rules -> Int]
      BY <2>1 DEF Passes, Configs
    <3>2. [r \in Rules |-> Alert!Observed(r, pass.row, pass.at, pass.rule)] \in [Rules -> Outcomes]
      BY OutcomeType
    <3>. QED BY <2>1, <3>1, <3>2 DEF AlertTypeOK, Entries, Observations, Passes
  <2>6. Last' = Last + 1 /\ log'[Last'] = e /\ Last \in Nat /\ Last = Len(log)
    BY <2>1, <2>5, LogAppend DEF Last
  <2>7. Logged'
    BY <2>1, <2>2, <2>6 DEF Logged, Alert!Observed, Alert!FreshFor
  <2>8. \A r \in Rules : unmet'[r] # None => WaitHeld(log', r, unmet'[r], Last' - 1)
    <3>1. SUFFICES ASSUME NEW r \in Rules, unmet[r] # None
                   PROVE  WaitHeld(log', r, unmet[r], Last)
      BY <2>1, <2>6
    <3>2. WaitHeld(log, r, unmet[r], Last)
      BY <2>1, <3>1 DEF HeldInv
    <3>3. Last \in 1..Len(log)
      BY <2>6, <3>2 DEF WaitHeld
    <3>. QED BY <2>1, <2>5, <3>2, <3>3, WaitStays
  <2>9. \A i \in incidents' : Opened(log', i)
    BY <2>1, <2>5, OpenedStays DEF HeldInv
  <2>10. \A r \in Rules : next'[r] = None
    BY <2>1 DEF Alert!NothingPending
  <2>. QED BY <2>4, <2>7, <2>8, <2>9, <2>10 DEF HeldInv
<1>3. CASE Alert!PassEnd
  <2>1. /\ Judging /\ ~Judging' /\ unmet' = next /\ next' = Alert!NothingPending
        /\ UNCHANGED <<incidents, log>>
    BY <1>3 DEF Alert!PassEnd, Judging
  <2>2. \A r \in Rules : next'[r] = None
    BY <2>1 DEF Alert!NothingPending
  <2>. QED BY <2>1, <2>2 DEF HeldInv, Logged, Last
<1>4. CASE Alert!Restart
  <2>1. /\ ~Judging' /\ unmet' = Alert!NothingPending /\ next' = Alert!NothingPending
        /\ log' = Append(log, Alert!Restarted) /\ incidents' = incidents
    BY <1>4 DEF Alert!Restart, Judging
  <2>2. \A r \in Rules : next'[r] = None /\ unmet'[r] = None
    BY <2>1 DEF Alert!NothingPending
  <2>3. \A i \in incidents' : Opened(log', i)
    BY <2>1, OpenedStays DEF HeldInv, AlertTypeOK, Entries
  <2>. QED BY <2>1, <2>2, <2>3 DEF HeldInv, Logged
<1>5. CASE Alert!PassRead \/ Alert!Abort
  <2>1. /\ ~Judging /\ ~Judging' /\ UNCHANGED <<log, unmet, next>>
        /\ incidents' = incidents
    <3>1. CASE Alert!PassRead
      BY <3>1 DEF Alert!PassRead, Judging
    <3>2. CASE Alert!Abort
      BY <3>2 DEF Alert!Abort, Judging
    <3>. QED BY <1>5, <3>1, <3>2
  <2>2. OldIncidents
    BY <2>1, KeptAreOld
  <2>3. Judging' = Judging
    BY <2>1 DEF Judging
  <2>. QED BY <2>1, <2>2, <2>3, QuietHeld
<1>6. CASE \/ Alert!Tick \/ (\E level \in Levels : Alert!Report(level)) \/ Alert!Unreachable \/ Alert!Delete
           \/ (\E r \in Rules : Alert!Edit(r)) \/ (\E i \in incidents : Alert!Acknowledge(i)) \/ Alert!Cleanup
  <2>1. UNCHANGED <<log, unmet, next, pass, interval>>
    BY <1>6 DEF Alert!Tick, Alert!Report, Alert!Unreachable, Alert!Delete, Alert!Edit,
                Alert!Acknowledge, Alert!Cleanup, Alert!fleet
  <2>2. OldIncidents
    <3>1. \A r \in Rules : ~(Alert!Judge(r) /\ Alert!Opens(r) /\ row # None)
      BY <2>1 DEF Alert!Judge, AlertTypeOK, Passes
    <3>. QED BY <3>1, OldSteps
  <2>. QED BY <2>1, <2>2, QuietHeld DEF Judging
<1>. QED BY <1>1, <1>2, <1>3, <1>4, <1>5, <1>6 DEF Alert!Next

\* Notes of a contradiction are kept.
RecoveredGrows == \A r \in Rules : recovered[r] => recovered'[r]

(***************************************************************************)
(* Steps in which nothing is forgotten and a contradiction is noted.       *)
(***************************************************************************)
LEMMA GrowingEvidence ==
  ASSUME AlertTypeOK, EvidenceInv, OldIncidents, RecoveredGrows, interval' = interval,
         \A r \in Rules : Contradicted(r)' => Contradicted(r) \/ recovered'[r],
         pass' = None \/ (pass # None /\ pass'.at = pass.at /\ pass'.row = pass.row
                                      /\ pass'.rule = pass.rule)
  PROVE  EvidenceInv'
<1>1. \A j \in incidents' : \E i \in incidents : Old(j, i)
  BY DEF OldIncidents
<1>2. \A i \in incidents : i.rule \in Rules
  BY DEF AlertTypeOK, Incidents
<1>3. \A i \in incidents' : Alert!Unresolved(i) /\ Contradicted(i.rule)' => recovered'[i.rule]
  BY <1>1, <1>2 DEF EvidenceInv, Old, RecoveredGrows
<1>4. pass' # None => \A r : Outcome(r)' = Outcome(r)
  BY DEF Outcome, Alert!Observed, Alert!FreshFor
<1>5. pass' # None => \A r \in Rules : Outcome(r)' = "hit" /\ Contradicted(r)' => recovered'[r]
  BY <1>4 DEF EvidenceInv, RecoveredGrows
<1>6. pass' # None => \A i \in incidents' : Alert!Unresolved(i) /\ Outcome(i.rule)' = "miss" => recovered'[i.rule]
  BY <1>1, <1>2, <1>4 DEF EvidenceInv, Old, RecoveredGrows
<1>. QED BY <1>3, <1>5, <1>6 DEF EvidenceInv

(***************************************************************************)
(* Nothing has contradicted anything when a hub starts.                    *)
(***************************************************************************)
LEMMA InitEvidence == Alert!Init => EvidenceInv
BY DEF Alert!Init, EvidenceInv

(***************************************************************************)
(* Whatever changes the row or the rule so that an unresolved incident's   *)
(* breach is gone is a reading, a contact or a new threshold, and is       *)
(* noted.                                                                  *)
(***************************************************************************)
LEMMA NextEvidence == ASSUME AlertTypeOK, EvidenceInv, Alert!Next PROVE EvidenceInv'
<1> USE DEF AlertTypeOK
<1>1. ASSUME NEW level \in Levels, Alert!Report(level) PROVE EvidenceInv'
  <2>1. OldIncidents
    BY <1>1, KeptAreOld DEF Alert!Report
  <2>2. UNCHANGED <<now, interval, rule, pass>>
    BY <1>1 DEF Alert!Report
  <2>3. RecoveredGrows
    BY <1>1 DEF Alert!Report, RecoveredGrows
  <2>4. ASSUME NEW r \in Rules, Contradicted(r)' PROVE recovered'[r]
    <3>1. row'.level = level
      BY <1>1 DEF Alert!Report
    <3>2. r \in Offline \/ (level # None /\ level <= rule[r].limit)
      BY <2>2, <2>4, <3>1 DEF Contradicted
    <3>. QED BY <1>1, <3>2 DEF Alert!Report
  <2>. QED BY <2>1, <2>2, <2>3, <2>4, GrowingEvidence
<1>2. CASE Alert!Unreachable
  <2>1. OldIncidents
    BY <1>2, KeptAreOld DEF Alert!Unreachable
  <2>2. UNCHANGED <<now, interval, rule, pass>> /\ row \in Rows
    BY <1>2 DEF Alert!Unreachable
  <2>3. RecoveredGrows
    BY <1>2 DEF Alert!Unreachable, RecoveredGrows
  <2>4. ASSUME NEW r \in Rules, Contradicted(r)' PROVE Contradicted(r) \/ recovered'[r]
    <3>1. row'.level = row.level /\ (interval = 0 => row'.seen = row.seen) /\ row # None
      BY <1>2, <2>2 DEF Alert!Unreachable, Rows
    <3>2. CASE r \in Offline /\ interval # 0
      BY <1>2, <3>2 DEF Alert!Unreachable
    <3>3. CASE ~(r \in Offline /\ interval # 0)
      BY <2>2, <2>4, <3>1, <3>3 DEF Contradicted
    <3>. QED BY <3>2, <3>3
  <2>. QED BY <2>1, <2>2, <2>3, <2>4, GrowingEvidence
<1>3. CASE Alert!Delete
  <2>1. OldIncidents
    BY <1>3, KeptAreOld DEF Alert!Delete
  <2>2. UNCHANGED <<interval, pass, recovered>> /\ row' = None
    BY <1>3 DEF Alert!Delete
  <2>3. \A r \in Rules : ~Contradicted(r)'
    BY <2>2 DEF Contradicted
  <2>. QED BY <2>1, <2>2, <2>3, GrowingEvidence DEF RecoveredGrows
<1>4. ASSUME NEW r \in Rules, Alert!Edit(r) PROVE EvidenceInv'
  <2>1. OldIncidents
    BY <1>4, KeptAreOld DEF Alert!Edit
  <2>2. UNCHANGED <<now, interval, row, pass>>
    BY <1>4 DEF Alert!Edit
  <2>3. recovered' = [recovered EXCEPT ![r] = @ \/ rule'[r].limit # rule[r].limit]
    BY <1>4 DEF Alert!Edit
  <2>4. RecoveredGrows
    BY <2>3 DEF RecoveredGrows
  <2>5. \A x \in Rules : rule'[x].limit = rule[x].limit \/ recovered'[x]
    <3>1. \A x \in Rules : x # r => rule'[x] = rule[x]
      BY <1>4 DEF Alert!Edit
    <3>2. rule'[r].limit = rule[r].limit \/ recovered'[r]
      BY <2>3
    <3>. QED BY <3>1, <3>2
  <2>6. \A x \in Rules : Contradicted(x)' => Contradicted(x) \/ recovered'[x]
    BY <2>2, <2>5 DEF Contradicted
  <2>. QED BY <2>1, <2>2, <2>4, <2>6, GrowingEvidence
<1>5. CASE Alert!Tick
  <2>1. OldIncidents
    BY <1>5, KeptAreOld DEF Alert!Tick
  <2>2. UNCHANGED <<interval, row, rule, pass, recovered>> /\ now' = now + 1
    BY <1>5 DEF Alert!Tick, Alert!fleet
  <2>3. \A r \in Rules : Contradicted(r)' => Contradicted(r)
    <3>1. row # None => row.seen \in Nat
      BY DEF Rows
    <3>2. Threshold \in Nat
      BY DecisionsAssumption DEF DecisionsAssumption
    <3>. QED BY <2>2, <3>1, <3>2 DEF Contradicted
  <2>. QED BY <2>1, <2>2, <2>3, GrowingEvidence DEF RecoveredGrows
<1>6. CASE Alert!PassRead
  <2>1. /\ UNCHANGED <<now, interval, row, rule, incidents>>
        /\ recovered' = [r \in Rules |-> recovered[r] /\ \E i \in incidents : i.rule = r /\ Alert!Unresolved(i)]
        /\ pass'.at = now /\ pass'.row = row /\ pass'.rule = rule
    BY <1>6 DEF Alert!PassRead, Alert!fleet
  <2>2. \A i \in incidents : i.rule \in Rules
    BY DEF Incidents
  <2>3. \A i \in incidents : Alert!Unresolved(i) /\ Contradicted(i.rule) => recovered'[i.rule]
    BY <2>1, <2>2 DEF EvidenceInv
  <2>4. ASSUME NEW r \in Rules
        PROVE  /\ Outcome(r)' = "hit" => ~Contradicted(r)
               /\ Outcome(r)' = "miss" => Contradicted(r)
    <3>1. row # None => row \in Rows
      OBVIOUS
    <3>2. row # None /\ row.level # None => row.level \in Int
      BY <3>1, DecisionsAssumption DEF DecisionsAssumption, Rows
    <3>3. row # None => row.seen \in Nat
      BY <3>1 DEF Rows
    <3>4. rule[r].limit \in Int /\ Threshold \in Nat
      BY DecisionsAssumption DEF DecisionsAssumption, Configs
    <3>5. Outcome(r)' = Alert!Observed(r, row, now, rule)
      BY <2>1 DEF Outcome, Alert!Observed, Alert!FreshFor
    <3>6. Alert!Observed(r, row, now, rule) = "hit" => ~Contradicted(r)
      BY <3>2, <3>3, <3>4 DEF Alert!Observed, Contradicted
    <3>7. Alert!Observed(r, row, now, rule) = "miss" => Contradicted(r)
      BY <3>2, <3>3, <3>4 DEF Alert!Observed, Contradicted
    <3>. QED BY <3>5, <3>6, <3>7
  <2>5. \A r : Contradicted(r)' = Contradicted(r)
    BY <2>1 DEF Contradicted
  <2>. QED BY <2>1, <2>2, <2>3, <2>4, <2>5 DEF EvidenceInv, Alert!Unresolved
<1>7. ASSUME NEW r \in Rules, Alert!Judge(r) PROVE EvidenceInv'
  <2> DEFINE new == [id |-> count, rule |-> r, status |-> "active", upto |-> Len(log)]
  <2>1. /\ UNCHANGED <<now, interval, row, rule, recovered>>
        /\ pass # None /\ pass \in Passes /\ pass' = [pass EXCEPT !.todo = @ \ {r}]
    BY <1>7 DEF Alert!Judge, Alert!fleet
  <2>2. pass'.at = pass.at /\ pass'.row = pass.row /\ pass'.rule = pass.rule
    BY <2>1 DEF Passes
  <2>3. \A x \in Rules : Contradicted(x)' = Contradicted(x)
    BY <2>1 DEF Contradicted
  <2>4. CASE OldIncidents
    BY <2>1, <2>2, <2>3, <2>4, GrowingEvidence DEF RecoveredGrows
  <2>5. CASE Alert!Opens(r) /\ row # None /\ Outcome(r) = "hit"
    <3>1. incidents' = incidents \cup {new}
      BY <2>5 DEF Alert!Opens
    <3>2. \A x : Outcome(x)' = Outcome(x)
      BY <2>1, <2>2 DEF Outcome, Alert!Observed, Alert!FreshFor
    <3>3. new.rule = r /\ Outcome(r) # "miss"
      BY <2>5
    <3>4. Contradicted(r) => recovered[r]
      BY <2>1, <2>5 DEF EvidenceInv
    <3>5. \A i \in incidents : i.rule \in Rules
      BY DEF Incidents
    <3>6. \A i \in incidents' : Alert!Unresolved(i) /\ Contradicted(i.rule)' => recovered'[i.rule]
      BY <2>1, <2>3, <3>1, <3>3, <3>4, <3>5 DEF EvidenceInv
    <3>7. \A x \in Rules : Outcome(x)' = "hit" /\ Contradicted(x)' => recovered'[x]
      BY <2>1, <2>3, <3>2 DEF EvidenceInv
    <3>8. \A i \in incidents' : Alert!Unresolved(i) /\ Outcome(i.rule)' = "miss" => recovered'[i.rule]
      BY <2>1, <3>1, <3>2, <3>3, <3>5 DEF EvidenceInv
    <3>. QED BY <3>6, <3>7, <3>8 DEF EvidenceInv
  <2>6. CASE Alert!Opens(r) /\ row = None
    <3>1. incidents' \subseteq incidents
      BY <2>6 DEF Alert!Opens
    <3>. QED BY <2>4, <3>1, KeptAreOld
  <2>7. CASE Alert!Resolves(r)
    BY <2>4, <2>7, ResolvedAreOld
  <2>8. CASE incidents' = incidents
    BY <2>4, <2>8, KeptAreOld
  <2>. QED BY <1>7, <2>5, <2>6, <2>7, <2>8 DEF Alert!Judge, Outcome
<1>8. CASE Alert!PassOpen
  <2>1. /\ UNCHANGED <<now, interval, row, rule, recovered, incidents>>
        /\ pass # None /\ pass \in Passes
    BY <1>8 DEF Alert!PassOpen, Alert!fleet
  <2>2. pass'.at = pass.at /\ pass'.row = pass.row /\ pass'.rule = pass.rule
    BY <1>8, <2>1 DEF Alert!PassOpen, Passes
  <2>3. \A x \in Rules : Contradicted(x)' = Contradicted(x)
    BY <2>1 DEF Contradicted
  <2>. QED BY <2>1, <2>2, <2>3, KeptAreOld, GrowingEvidence DEF RecoveredGrows
<1>9. CASE (\E i \in incidents : Alert!Acknowledge(i)) \/ Alert!Cleanup \/ Alert!Abort \/ Alert!PassEnd \/ Alert!Restart
  <2>1. UNCHANGED <<now, interval, row, rule, recovered>> /\ (pass' = pass \/ pass' = None)
    BY <1>9 DEF Alert!Acknowledge, Alert!Cleanup, Alert!Abort, Alert!PassEnd, Alert!Restart,
                Alert!fleet
  <2>2. OldIncidents
    <3>1. ASSUME NEW i \in incidents, Alert!Acknowledge(i) PROVE OldIncidents
      BY <3>1, AcknowledgedAreOld
    <3>2. CASE Alert!Cleanup \/ Alert!Abort \/ Alert!PassEnd \/ Alert!Restart
      <4>1. incidents' \subseteq incidents
        BY <3>2 DEF Alert!Cleanup, Alert!Abort, Alert!PassEnd, Alert!Restart
      <4>. QED BY <4>1, KeptAreOld
    <3>. QED BY <1>9, <3>1, <3>2
  <2>3. \A x \in Rules : Contradicted(x)' = Contradicted(x)
    BY <2>1 DEF Contradicted
  <2>. QED BY <2>1, <2>2, <2>3, GrowingEvidence DEF RecoveredGrows
<1>. QED BY <1>1, <1>2, <1>3, <1>4, <1>5, <1>6, <1>7, <1>8, <1>9 DEF Alert!Next

AlertInv == AlertTypeOK /\ OneInv /\ HeldInv /\ EvidenceInv

(***************************************************************************)
(* Every step keeps the invariant.                                         *)
(***************************************************************************)
LEMMA AlertNext == AlertInv /\ [Alert!Next]_Alert!vars => AlertInv'
<1> SUFFICES ASSUME AlertInv, [Alert!Next]_Alert!vars PROVE AlertInv'
  OBVIOUS
<1>1. CASE Alert!Next
  BY <1>1, AlertNextType, NextOne, NextHeld, NextEvidence DEF AlertInv
<1>2. CASE UNCHANGED Alert!vars
  <2>1. AlertTypeOK' /\ OneInv'
    BY <1>2 DEF Alert!vars, Alert!fleet, AlertInv, AlertTypeOK, OneInv, Alert!OneIncident,
                Judging, Alert!Unresolved
  <2>2. HeldInv'
    BY <1>2 DEF Alert!vars, Alert!fleet, AlertInv, HeldInv, Logged, Judging, Last,
                Alert!Observed, Alert!FreshFor
  <2>3. EvidenceInv'
    BY <1>2 DEF Alert!vars, Alert!fleet, AlertInv, EvidenceInv, Outcome, Alert!Observed,
                Alert!FreshFor, Contradicted
  <2>. QED BY <2>1, <2>2, <2>3 DEF AlertInv
<1>. QED BY <1>1, <1>2

(***************************************************************************)
(* A pass resolves what it observed to be contradicted, and nothing else   *)
(* resolves.                                                               *)
(***************************************************************************)
LEMMA EndStep ==
  ASSUME AlertInv, Alert!Next, NEW i \in incidents, NEW j \in incidents', i.id = j.id,
         Alert!Unresolved(i), ~Alert!Unresolved(j)
  PROVE  recovered[i.rule]
<1>. USE DEF AlertInv
<1>1. ASSUME NEW r \in Rules, Alert!Judge(r), Alert!Resolves(r), Outcome(r) = "miss" PROVE recovered[i.rule]
  <2>1. PICK k \in incidents : j = IF k.rule = r /\ Alert!Unresolved(k) THEN [k EXCEPT !.status = "resolved"] ELSE k
    BY <1>1 DEF Alert!Resolves
  <2>2. k.id = i.id
    BY <2>1 DEF AlertTypeOK, Incidents
  <2>3. k = i
    BY <2>2 DEF OneInv
  <2>4. i.rule = r
    BY <2>1, <2>3
  <2>5. pass # None
    BY <1>1 DEF Alert!Judge
  <2>. QED BY <1>1, <2>4, <2>5 DEF EvidenceInv
<1>2. CASE incidents' \subseteq incidents
  BY <1>2 DEF OneInv
<1>3. ASSUME NEW r \in Rules, Alert!Judge(r) PROVE recovered[i.rule]
  <2>1. CASE Alert!Opens(r) /\ row # None
    <3>1. j \in incidents \/ (j.status = "active")
      BY <2>1 DEF Alert!Opens
    <3>. QED BY <3>1 DEF OneInv, Alert!Unresolved
  <2>2. CASE Alert!Opens(r) /\ row = None
    BY <1>2, <2>2 DEF Alert!Opens
  <2>. QED BY <1>1, <1>2, <1>3, <2>1, <2>2 DEF Alert!Judge, Outcome
<1>4. ASSUME NEW k \in incidents, Alert!Acknowledge(k) PROVE recovered[i.rule]
  <2>1. j \in incidents \/ j = [k EXCEPT !.status = "acknowledged"]
    BY <1>4 DEF Alert!Acknowledge
  <2>2. j \notin incidents => Alert!Unresolved(j)
    BY <2>1 DEF Alert!Unresolved, AlertTypeOK, Incidents
  <2>. QED BY <2>1, <2>2 DEF OneInv
<1>5. CASE \/ Alert!Tick \/ (\E level \in Levels : Alert!Report(level)) \/ Alert!Unreachable \/ Alert!Delete
           \/ (\E r \in Rules : Alert!Edit(r)) \/ Alert!Cleanup
           \/ Alert!PassRead \/ Alert!PassOpen \/ Alert!Abort \/ Alert!PassEnd \/ Alert!Restart
  <2>1. incidents' \subseteq incidents
    BY <1>5 DEF Alert!Tick, Alert!Report, Alert!Unreachable, Alert!Delete, Alert!Edit,
                Alert!Cleanup, Alert!PassRead, Alert!PassOpen, Alert!Abort,
                Alert!PassEnd, Alert!Restart
  <2>. QED BY <1>2, <2>1
<1>. QED BY <1>3, <1>4, <1>5 DEF Alert!Next

(***************************************************************************)
(* However telemetry, edits, deletions, failed reads and writes,           *)
(* acknowledgements and restarts interleave with passes: an alert was      *)
(* opened on a breach observed without a gap for its rule's duration, and  *)
(* a rule has one unresolved alert, on a machine that exists.              *)
(***************************************************************************)
THEOREM AlertsAreJustified == Alert!Spec => []OpenedWhenHeld
<1>1. Alert!Init => AlertInv
  BY AlertInitType, InitOne, InitHeld, InitEvidence DEF AlertInv
<1>2. AlertInv => OpenedWhenHeld
  BY DEF AlertInv, HeldInv, Opened, Alert!OpenedWhenHeld, OneInv, OpenedWhenHeld
<1>. QED BY <1>1, <1>2, AlertNext, PTL DEF Alert!Spec

(***************************************************************************)
(* An alert ends because a reading, a contact or a threshold contradicted  *)
(* it, never because the machine fell silent or a read failed.             *)
(***************************************************************************)
THEOREM AlertsEndByEvidence == Alert!Spec => EndsByEvidence
<1>1. Alert!Init => AlertInv
  BY AlertInitType, InitOne, InitHeld, InitEvidence DEF AlertInv
<1>2. AlertInv /\ [Alert!Next]_Alert!vars =>
        [\A i \in incidents, j \in incidents' :
           (i.id = j.id /\ Alert!Unresolved(i) /\ ~Alert!Unresolved(j)) => recovered[i.rule]]_Alert!vars
  BY EndStep
<1>. QED BY <1>1, <1>2, AlertNext, PTL DEF Alert!Spec, Alert!EndsByEvidence, EndsByEvidence

-----------------------------------------------------------------------------
(***************************************************************************)
(* The scan for a release marker: a round sees the markers that end in the *)
(* chunk it reads, because what it carried is one symbol short of one.     *)
(***************************************************************************)

\* The markers of a file whose last symbol is among its first p.
MarkersIn(s, p) == {i \in Marker!Hits(s) : i + Marker!MarkerLen - 1 <= p}

\* What was found in them.
FoundIs(s, p, f) ==
    \/ f = Unnumbered /\ MarkersIn(s, p) = {}
    \/ \E i \in MarkersIn(s, p) :
        MarkersIn(s, p) = {i} /\ Marker!WellFormed(Marker!Body(s, i)) /\ f = Marker!Body(s, i)[1]

\* What comes after the first d of the first e symbols of s.
Piece(s, d, e) == SubSeq(s, d + 1, e)

\* b is that, symbol by symbol.
IsPiece(b, s, d, e) ==
    b \in Seq(Symbols) /\ Len(b) = e - d /\ \A i \in 1 .. e - d : b[i] = s[d + i]

\* b is what comes after the first d of these p symbols, the carry of a scan.
CarryIs(s, p, d, b) ==
    /\ d \in 0 .. p /\ (d = 0 \/ d = p - Marker!Keep)
    /\ d = 0 => p <= Marker!Keep
    /\ b = Piece(s, d, p)

\* What the scan knows between two reads.
ScanOK ==
    /\ stream \in Streams /\ pos \in 0 .. Len(stream)
    /\ \E d \in Nat : CarryIs(stream, pos, d, buf)
    /\ FoundIs(stream, pos, found)

MarkerInv == IF verdict = Reading THEN ScanOK ELSE Marker!ScanIsContract

(***************************************************************************)
(* The lengths the scan computes with are numbers.                         *)
(***************************************************************************)
LEMMA PrefixLen ==
  /\ Len(Prefix) \in Nat
  /\ Marker!MarkerLen = Len(Prefix) + 2 /\ Marker!Keep = Len(Prefix) + 1
  BY MarkerAssumption, LenProperties DEF Marker!MarkerLen, Marker!Keep

(***************************************************************************)
(* A piece of a sequence, symbol by symbol.                                *)
(***************************************************************************)
LEMMA Slice ==
  ASSUME NEW s \in Seq(Symbols), NEW d \in Nat, NEW e \in Nat, d <= e, e <= Len(s)
  PROVE  /\ Piece(s, d, e) \in Seq(Symbols)
         /\ Len(Piece(s, d, e)) = e - d
         /\ \A i \in 1 .. e - d : Piece(s, d, e)[i] = s[d + i]
  <1>1. \A i \in d + 1 .. e : s[i] \in Symbols
    BY LenProperties, ElementOfSeq
  <1>2. /\ SubSeq(s, d + 1, e) \in Seq(Symbols)
        /\ Len(SubSeq(s, d + 1, e)) = IF d + 1 <= e THEN e - (d + 1) + 1 ELSE 0
        /\ \A i \in 1 .. e - (d + 1) + 1 : SubSeq(s, d + 1, e)[i] = s[d + 1 + i - 1]
    <2>1. d + 1 \in Int /\ e \in Int
      OBVIOUS
    <2> QED BY <1>1, <2>1, SubSeqProperties
  <1> QED BY <1>2 DEF Piece

(***************************************************************************)
(* A sequence that agrees with a piece is that piece.                      *)
(***************************************************************************)
LEMMA PieceIs ==
  ASSUME NEW s \in Seq(Symbols), NEW d \in Nat, NEW e \in Nat, d <= e, e <= Len(s), NEW b
  PROVE  IsPiece(b, s, d, e) <=> b = Piece(s, d, e)
  <1>1. IsPiece(Piece(s, d, e), s, d, e)
    BY Slice DEF IsPiece
  <1>2. ASSUME IsPiece(b, s, d, e) PROVE b = Piece(s, d, e)
    <2> DEFINE c == Piece(s, d, e)
    <2>1. /\ b \in Seq(Symbols) /\ c \in Seq(Symbols) /\ Len(b) = Len(c)
          /\ \A i \in 1 .. e - d : b[i] = c[i]
      BY <1>1, <1>2 DEF IsPiece
    <2>2. 1 .. e - d = 1 .. Len(b)
      BY <1>2 DEF IsPiece
    <2> HIDE DEF c
    <2>3. b = c
      BY <2>1, <2>2, SeqEqual
    <2> QED BY <2>3 DEF c
  <1> QED BY <1>1, <1>2

(***************************************************************************)
(* A hit is where the prefix stands, symbol by symbol.                     *)
(***************************************************************************)
LEMMA HitIs ==
  ASSUME NEW s \in Seq(Symbols), NEW i \in Int
  PROVE  i \in Marker!Hits(s) <=>
           /\ i >= 1 /\ i + Len(Prefix) - 1 <= Len(s)
           /\ \A k \in 1 .. Len(Prefix) : s[i + k - 1] = Prefix[k]
  <1>0. Len(s) \in Nat /\ Len(Prefix) \in Nat
    BY LenProperties, PrefixLen
  <1>1. CASE i >= 1 /\ i + Len(Prefix) - 1 <= Len(s)
    <2> DEFINE t == Piece(s, i - 1, i + Len(Prefix) - 1)
    <2>1. t \in Seq(Symbols) /\ Len(t) = Len(Prefix)
          /\ \A k \in 1 .. Len(Prefix) : t[k] = s[i + k - 1]
      <3>1. i = (i - 1) + 1 /\ i - 1 \in Nat /\ i + Len(Prefix) - 1 \in Nat
            /\ i - 1 <= i + Len(Prefix) - 1
            /\ (i + Len(Prefix) - 1) - (i - 1) = Len(Prefix)
        BY <1>0, <1>1
      <3>2. /\ Piece(s, i - 1, i + Len(Prefix) - 1) \in Seq(Symbols)
            /\ Len(Piece(s, i - 1, i + Len(Prefix) - 1)) = (i + Len(Prefix) - 1) - (i - 1)
            /\ \A k \in 1 .. (i + Len(Prefix) - 1) - (i - 1) :
                 Piece(s, i - 1, i + Len(Prefix) - 1)[k] = s[(i - 1) + k]
        BY <1>0, <1>1, <3>1, Slice
      <3>3. \A k \in 1 .. Len(Prefix) : (i - 1) + k = i + k - 1
        BY <1>0
      <3> QED BY <3>1, <3>2, <3>3
    <2>2. i \in Marker!Hits(s) <=> t = Prefix
      BY <1>0, <1>1 DEF Marker!Hits, Piece
    <2>3. t = Prefix <=> \A k \in 1 .. Len(Prefix) : t[k] = Prefix[k]
      BY <2>1, MarkerAssumption, SeqEqual
    <2> QED BY <1>1, <2>1, <2>2, <2>3
  <1>2. CASE ~(i >= 1 /\ i + Len(Prefix) - 1 <= Len(s))
    BY <1>0, <1>2 DEF Marker!Hits
  <1> QED BY <1>1, <1>2

(***************************************************************************)
(* What is seen of the markers of a file through a piece of it: the hits   *)
(* inside, each with the body it has in the file.                          *)
(***************************************************************************)
LEMMA SliceHits ==
  ASSUME NEW s \in Seq(Symbols), NEW d \in Nat, NEW e \in Nat, d <= e, e <= Len(s),
         NEW b, IsPiece(b, s, d, e)
  PROVE  /\ \A i \in Int : i \in Marker!Hits(b) <=>
              i >= 1 /\ d + i \in Marker!Hits(s) /\ d + i + Len(Prefix) - 1 <= e
         /\ \A i \in Int : i \in Marker!Whole(b) <=>
              i >= 1 /\ d + i \in Marker!Hits(s) /\ d + i + Marker!MarkerLen - 1 <= e
         /\ \A i \in Marker!Whole(b) : Marker!Body(b, i)[1] = Marker!Body(s, d + i)[1]
                                /\ Marker!Body(b, i)[2] = Marker!Body(s, d + i)[2]
  <1>0. /\ b \in Seq(Symbols) /\ Len(b) = e - d /\ \A i \in 1 .. e - d : b[i] = s[d + i]
        /\ Len(s) \in Nat /\ Len(Prefix) \in Nat /\ Marker!MarkerLen = Len(Prefix) + 2
    BY LenProperties, PrefixLen DEF IsPiece
  <1>1. ASSUME NEW i \in Int
        PROVE  i \in Marker!Hits(b) <=>
                 i >= 1 /\ d + i \in Marker!Hits(s) /\ d + i + Len(Prefix) - 1 <= e
    <2>1. i \in Marker!Hits(b) <=> /\ i >= 1 /\ i + Len(Prefix) - 1 <= e - d
                            /\ \A k \in 1 .. Len(Prefix) : b[i + k - 1] = Prefix[k]
      BY <1>0, HitIs
    <2>2. d + i \in Marker!Hits(s) <=> /\ d + i >= 1 /\ d + i + Len(Prefix) - 1 <= Len(s)
                                /\ \A k \in 1 .. Len(Prefix) : s[d + i + k - 1] = Prefix[k]
      <3>1. d + i \in Int
        OBVIOUS
      <3> QED BY <3>1, HitIs
    <2>3. ASSUME i >= 1, i + Len(Prefix) - 1 <= e - d, NEW k \in 1 .. Len(Prefix)
          PROVE  b[i + k - 1] = s[d + i + k - 1]
      <3>1. i + k - 1 \in 1 .. e - d /\ d + (i + k - 1) = d + i + k - 1
        BY <2>3, <1>0
      <3> QED BY <3>1, <1>0
    <2>4. CASE i >= 1 /\ i + Len(Prefix) - 1 <= e - d
      <3>1. d + i >= 1 /\ d + i + Len(Prefix) - 1 <= Len(s) /\ d + i + Len(Prefix) - 1 <= e
        BY <2>4, <1>0
      <3>2. \A k \in 1 .. Len(Prefix) : b[i + k - 1] = s[d + i + k - 1]
        BY <2>3, <2>4
      <3>3. (\A k \in 1 .. Len(Prefix) : b[i + k - 1] = Prefix[k])
            <=> (\A k \in 1 .. Len(Prefix) : s[d + i + k - 1] = Prefix[k])
        BY <3>2
      <3> QED BY <2>1, <2>2, <2>4, <3>1, <3>3
    <2>5. CASE ~(i >= 1 /\ i + Len(Prefix) - 1 <= e - d)
      <3>1. ~(i >= 1 /\ d + i + Len(Prefix) - 1 <= e)
        BY <2>5, <1>0
      <3> QED BY <2>1, <2>5, <3>1
    <2> QED BY <2>4, <2>5
  <1>2. ASSUME NEW i \in Int
        PROVE  i \in Marker!Whole(b) <=>
                 i >= 1 /\ d + i \in Marker!Hits(s) /\ d + i + Marker!MarkerLen - 1 <= e
    <2>1. i \in Marker!Whole(b) <=> i \in Marker!Hits(b) /\ i + Marker!MarkerLen - 1 <= e - d
      BY <1>0 DEF Marker!Whole
    <2> QED BY <2>1, <1>1, <1>0
  <1>3. ASSUME NEW i \in Marker!Whole(b)
        PROVE  /\ Marker!Body(b, i)[1] = Marker!Body(s, d + i)[1]
               /\ Marker!Body(b, i)[2] = Marker!Body(s, d + i)[2]
    <2>1. i \in Int /\ i >= 1 /\ i + Len(Prefix) + 1 <= e - d
      BY <1>0 DEF Marker!Whole, Marker!Hits
    <2> DEFINE f == i + Len(Prefix) - 1
    <2>2. f \in Nat /\ f + 2 = i + Marker!MarkerLen - 1 /\ f + 1 = i + Len(Prefix)
          /\ f <= f + 2 /\ f + 2 <= Len(b) /\ d + f \in Nat /\ d + f + 2 <= Len(s)
          /\ d + f + 1 = (d + i) + Len(Prefix) /\ d + f + 2 = (d + i) + Marker!MarkerLen - 1
      BY <1>0, <2>1
    <2>3. Marker!Body(b, i) = Piece(b, f, f + 2)
          /\ Marker!Body(s, d + i) = Piece(s, d + f, (d + f) + 2)
      BY <2>2 DEF Marker!Body, Piece
    <2>4. Piece(b, f, f + 2)[1] = b[f + 1] /\ Piece(b, f, f + 2)[2] = b[f + 2]
      <3> HIDE DEF f
      <3> DEFINE g == f + 2
      <3>1. g \in Nat /\ 1 \in 1 .. g - f /\ 2 \in 1 .. g - f /\ f <= g /\ g <= Len(b)
            /\ f \in Nat /\ b \in Seq(Symbols)
        BY <2>2, <1>0
      <3>2. Piece(b, f, g)[1] = b[f + 1] /\ Piece(b, f, g)[2] = b[f + 2]
        <4> HIDE DEF g
        <4> QED BY <3>1, Slice
      <3> QED BY <3>2
    <2>5. Piece(s, d + f, (d + f) + 2)[1] = s[d + f + 1]
          /\ Piece(s, d + f, (d + f) + 2)[2] = s[d + f + 2]
      <3> HIDE DEF f
      <3> DEFINE g == d + f
      <3>1. g \in Nat /\ g + 2 \in Nat /\ 1 \in 1 .. (g + 2) - g /\ 2 \in 1 .. (g + 2) - g
            /\ g <= g + 2 /\ g + 2 <= Len(s)
        BY <2>2
      <3>2. Piece(s, g, g + 2)[1] = s[g + 1] /\ Piece(s, g, g + 2)[2] = s[g + 2]
        <4> HIDE DEF g
        <4> QED BY <3>1, Slice
      <3> QED BY <3>2
    <2>6. b[f + 1] = s[d + f + 1] /\ b[f + 2] = s[d + f + 2]
      <3>1. f + 1 \in 1 .. e - d /\ f + 2 \in 1 .. e - d /\ d + (f + 1) = d + f + 1
            /\ d + (f + 2) = d + f + 2
        BY <2>1, <1>0
      <3> HIDE DEF f
      <3>2. b[f + 1] = s[d + (f + 1)] /\ b[f + 2] = s[d + (f + 2)]
        <4>1. f + 1 \in 1 .. e - d /\ f + 2 \in 1 .. e - d
          BY <3>1
        <4> QED BY <4>1, <1>0
      <3> QED BY <3>1, <3>2
    <2> QED BY <2>3, <2>4, <2>5, <2>6
  <1> QED BY <1>1, <1>2, <1>3

(***************************************************************************)
(* A sequence has finitely many hits, so counting them tells none and one  *)
(* apart.                                                                  *)
(***************************************************************************)
LEMMA FewHits ==
  ASSUME NEW s \in Seq(Symbols)
  PROVE  /\ IsFiniteSet(Marker!Hits(s)) /\ IsFiniteSet(Marker!Whole(s))
         /\ Cardinality(Marker!Hits(s)) \in Nat /\ Cardinality(Marker!Whole(s)) \in Nat
         /\ Cardinality(Marker!Hits(s)) = 0 <=> Marker!Hits(s) = {}
         /\ Cardinality(Marker!Whole(s)) = 0 <=> Marker!Whole(s) = {}
         /\ Cardinality(Marker!Hits(s)) = 1 <=> \E i : Marker!Hits(s) = {i}
         /\ Cardinality(Marker!Whole(s)) = 1 <=> \E i : Marker!Whole(s) = {i}
  <1>1. Len(s) - Len(Prefix) + 1 \in Int
    BY LenProperties, PrefixLen
  <1>2. IsFiniteSet(1 .. Len(s) - Len(Prefix) + 1)
    BY <1>1, FS_Interval
  <1>3. /\ Marker!Hits(s) \subseteq 1 .. Len(s) - Len(Prefix) + 1
        /\ Marker!Whole(s) \subseteq Marker!Hits(s)
    BY DEF Marker!Hits, Marker!Whole
  <1>4. IsFiniteSet(Marker!Hits(s)) /\ IsFiniteSet(Marker!Whole(s))
    BY <1>2, <1>3, FS_Subset
  <1> QED BY <1>4, FS_EmptySet, FS_Singleton, FS_CardinalityType


(***************************************************************************)
(* What the scan counts is the cardinality these theorems speak of.        *)
(***************************************************************************)
LEMMA MarkersCount == ASSUME NEW S PROVE Marker!Cardinality(S) = Cardinality(S)
  BY DEF Marker!Cardinality, Cardinality

(***************************************************************************)
(* Any doubt about a file is a refusal: a malformed body, a second hit, or *)
(* a hit cut off by the end.                                               *)
(***************************************************************************)
LEMMA Doubt ==
  ASSUME NEW s \in Seq(Symbols),
         \/ \E i \in Marker!Whole(s) : ~Marker!WellFormed(Marker!Body(s, i))
         \/ \E i, j \in Marker!Hits(s) : i # j
         \/ \E i \in Marker!Hits(s) : i \notin Marker!Whole(s)
  PROVE  Marker!Release(s) = Refused
  <1>1. Marker!Whole(s) \subseteq Marker!Hits(s)
    BY DEF Marker!Whole
  <1>2. Marker!Hits(s) # {}
    BY <1>1
  <1>3. ~(/\ Cardinality(Marker!Hits(s)) = 1 /\ Marker!Whole(s) = Marker!Hits(s)
          /\ \A i \in Marker!Whole(s) : Marker!WellFormed(Marker!Body(s, i)))
    BY FewHits
  <1> QED BY <1>2, <1>3, MarkersCount DEF Marker!Release

(***************************************************************************)
(* Without doubt, the contract is what was found.                          *)
(***************************************************************************)
LEMMA NoDoubt ==
  ASSUME NEW s \in Seq(Symbols), NEW f, Marker!Whole(s) = Marker!Hits(s), FoundIs(s, Len(s), f)
  PROVE  Marker!Release(s) = f
  <1>1. MarkersIn(s, Len(s)) = Marker!Whole(s)
    BY DEF MarkersIn, Marker!Whole
  <1>2. CASE f = Unnumbered /\ Marker!Hits(s) = {}
    BY <1>2, FewHits, MarkersCount DEF Marker!Release
  <1>3. ASSUME NEW i \in Marker!Hits(s), Marker!Hits(s) = {i},
               Marker!WellFormed(Marker!Body(s, i)), f = Marker!Body(s, i)[1]
        PROVE  Marker!Release(s) = f
    <2>1. /\ Marker!Hits(s) # {} /\ Cardinality(Marker!Hits(s)) = 1
          /\ (CHOOSE j \in Marker!Hits(s) : TRUE) = i
      BY <1>3, FewHits
    <2>2. \A j \in Marker!Whole(s) : Marker!WellFormed(Marker!Body(s, j))
      BY <1>3
    <2> QED BY <1>3, <2>1, <2>2, MarkersCount DEF Marker!Release
  <1> QED BY <1>1, <1>2, <1>3 DEF FoundIs

\* Of the markers of s, b holds those that end in the symbols from p to e.
Sees(s, p, e, d, b) ==
    /\ \A i \in Marker!Whole(b) :
        /\ i \in Int /\ d + i \in MarkersIn(s, e) /\ d + i \notin MarkersIn(s, p)
        /\ Marker!WellFormed(Marker!Body(b, i)) <=> Marker!WellFormed(Marker!Body(s, d + i))
        /\ Marker!Body(b, i)[1] = Marker!Body(s, d + i)[1]
    /\ \A k \in MarkersIn(s, e) :
        k \in MarkersIn(s, p) \/ (k - d \in Marker!Whole(b) /\ k - d \in Int)
    /\ MarkersIn(s, p) \subseteq MarkersIn(s, e)
    /\ MarkersIn(s, Len(s)) = Marker!Whole(s)
    /\ e = Len(s) => (Marker!Hits(b) # Marker!Whole(b) <=> Marker!Hits(s) # Marker!Whole(s))

(***************************************************************************)
(* The markers a round sees are those that end in the chunk it read: it    *)
(* carried one symbol less than a marker, so nothing is seen twice or      *)
(* missed.                                                                 *)
(***************************************************************************)
LEMMA RoundHits ==
  ASSUME NEW s \in Seq(Symbols), NEW p \in Nat, NEW e \in Nat, p <= e, e <= Len(s),
         NEW d \in Nat, NEW c, CarryIs(s, p, d, c), NEW b, IsPiece(b, s, d, e)
  PROVE  Sees(s, p, e, d, b)
  <1>0. /\ d <= p /\ (d = 0 \/ d = p - Marker!Keep) /\ (d = 0 => p <= Marker!Keep) /\ d <= e
        /\ Len(s) \in Nat /\ Len(Prefix) \in Nat
        /\ Marker!MarkerLen = Len(Prefix) + 2 /\ Marker!Keep = Len(Prefix) + 1
    BY PrefixLen, LenProperties DEF CarryIs
  <1>1. /\ \A i \in Int : i \in Marker!Hits(b) <=>
              i >= 1 /\ d + i \in Marker!Hits(s) /\ d + i + Len(Prefix) - 1 <= e
        /\ \A i \in Int : i \in Marker!Whole(b) <=>
              i >= 1 /\ d + i \in Marker!Hits(s) /\ d + i + Marker!MarkerLen - 1 <= e
        /\ \A i \in Marker!Whole(b) : Marker!Body(b, i)[1] = Marker!Body(s, d + i)[1]
                                /\ Marker!Body(b, i)[2] = Marker!Body(s, d + i)[2]
    <2>1. d <= e /\ e <= Len(s)
      BY <1>0
    <2> HIDE <1>0
    <2> QED BY <2>1, SliceHits
  <1>2. \A i \in Marker!Hits(b) : i \in Int
    BY DEF Marker!Hits
  <1>3. \A k \in Marker!Hits(s) : k \in Int /\ k >= 1 /\ k + Len(Prefix) - 1 <= Len(s)
    BY <1>0 DEF Marker!Hits
  <1>4. Marker!Whole(b) \subseteq Marker!Hits(b) /\ Marker!Whole(s) \subseteq Marker!Hits(s)
    BY DEF Marker!Whole
  <1>5. ASSUME NEW i \in Marker!Whole(b)
        PROVE  /\ i \in Int /\ d + i \in MarkersIn(s, e) /\ d + i \notin MarkersIn(s, p)
               /\ Marker!WellFormed(Marker!Body(b, i)) <=> Marker!WellFormed(Marker!Body(s, d + i))
               /\ Marker!Body(b, i)[1] = Marker!Body(s, d + i)[1]
    <2>1. i \in Int /\ i >= 1 /\ d + i \in Marker!Hits(s) /\ d + i + Marker!MarkerLen - 1 <= e
      BY <1>1, <1>2, <1>4
    <2>2. ~(d + i + Marker!MarkerLen - 1 <= p)
      BY <2>1, <1>0
    <2> QED BY <2>1, <2>2, <1>1 DEF MarkersIn, Marker!WellFormed
  <1>6. ASSUME NEW k \in Marker!Hits(s), ~(k + Marker!MarkerLen - 1 <= p)
        PROVE  k - d \in Int /\ k - d >= 1 /\ d + (k - d) = k
    BY <1>6, <1>3, <1>0
  <1>7. ASSUME NEW k \in MarkersIn(s, e), k \notin MarkersIn(s, p)
        PROVE  k - d \in Marker!Whole(b) /\ k - d \in Int
    <2>1. k \in Marker!Hits(s) /\ k + Marker!MarkerLen - 1 <= e /\ ~(k + Marker!MarkerLen - 1 <= p)
      BY <1>7 DEF MarkersIn
    <2> QED BY <2>1, <1>6, <1>1
  <1>8. MarkersIn(s, p) \subseteq MarkersIn(s, e)
    BY <1>0, <1>3 DEF MarkersIn
  <1>9. MarkersIn(s, Len(s)) = Marker!Whole(s)
    BY DEF MarkersIn, Marker!Whole
  <1>10. ASSUME e = Len(s)
         PROVE  Marker!Hits(b) # Marker!Whole(b) <=> Marker!Hits(s) # Marker!Whole(s)
    <2>1. ASSUME NEW i \in Marker!Hits(b), i \notin Marker!Whole(b)
          PROVE  d + i \in Marker!Hits(s) /\ d + i \notin Marker!Whole(s)
      BY <2>1, <1>1, <1>2, <1>10 DEF Marker!Whole
    <2>2. ASSUME NEW k \in Marker!Hits(s), k \notin Marker!Whole(s)
          PROVE  k - d \in Marker!Hits(b) /\ k - d \notin Marker!Whole(b)
      <3>1. ~(k + Marker!MarkerLen - 1 <= e) /\ k + Len(Prefix) - 1 <= e
        BY <2>2, <1>3, <1>10 DEF Marker!Whole
      <3>2. ~(k + Marker!MarkerLen - 1 <= p)
        BY <3>1, <1>0, <1>3
      <3>3. k - d \in Int /\ k - d >= 1 /\ d + (k - d) = k
        BY <3>2, <1>6
      <3> QED BY <3>1, <3>3, <1>1
    <2>3. Marker!Hits(b) # Marker!Whole(b) <=> \E i \in Marker!Hits(b) : i \notin Marker!Whole(b)
      BY <1>4
    <2>4. Marker!Hits(s) # Marker!Whole(s) <=> \E k \in Marker!Hits(s) : k \notin Marker!Whole(s)
      BY <1>4
    <2> QED BY <2>1, <2>2, <2>3, <2>4
  <1> QED BY <1>5, <1>7, <1>8, <1>9, <1>10 DEF Sees


(***************************************************************************)
(* A round puts the chunk it reads behind what it carried.                 *)
(***************************************************************************)
LEMMA RoundBuffer ==
  ASSUME NEW s \in Seq(Symbols), NEW p \in Nat, NEW n \in Nat, p <= n, n <= Len(s),
         NEW d \in Nat, NEW c, CarryIs(s, p, d, c), NEW rest, IsPiece(rest, s, p, n)
  PROVE  /\ IsPiece(c \o rest, s, d, n)
         /\ Chunk <= n - p => /\ p + Chunk <= n
                              /\ IsPiece(c \o Piece(rest, 0, Chunk), s, d, p + Chunk)
  <1>0. d <= p /\ IsPiece(c, s, d, p) /\ Chunk \in Nat /\ p <= Len(s)
    <2>1. d <= p /\ c = Piece(s, d, p) /\ p <= Len(s)
      BY LenProperties DEF CarryIs
    <2> QED BY <2>1, MarkerAssumption, PieceIs
  <1>1. ASSUME NEW e \in Nat, p <= e, NEW r, IsPiece(r, s, p, e)
        PROVE  IsPiece(c \o r, s, d, e)
    <2>1. /\ c \o r \in Seq(Symbols) /\ Len(c \o r) = (p - d) + (e - p)
          /\ \A i \in 1 .. (p - d) + (e - p) :
               (c \o r)[i] = IF i <= p - d THEN c[i] ELSE r[i - (p - d)]
      <3>1. c \in Seq(Symbols) /\ r \in Seq(Symbols)
        BY <1>0, <1>1 DEF IsPiece
      <3>2. /\ c \o r \in Seq(Symbols) /\ Len(c \o r) = Len(c) + Len(r)
            /\ \A i \in 1 .. Len(c) + Len(r) :
                 (c \o r)[i] = IF i <= Len(c) THEN c[i] ELSE r[i - Len(c)]
        BY <3>1, ConcatProperties
      <3>3. Len(c) = p - d /\ Len(r) = e - p
        BY <1>0, <1>1 DEF IsPiece
      <3> QED BY <3>2, <3>3
    <2>2. (p - d) + (e - p) = e - d
      BY <1>0
    <2>3. ASSUME NEW i \in 1 .. e - d PROVE (c \o r)[i] = s[d + i]
      <3>1. CASE i <= p - d
        BY <3>1, <2>1, <2>2, <1>0 DEF IsPiece
      <3>2. CASE ~(i <= p - d)
        <4>1. i - (p - d) \in 1 .. e - p /\ p + (i - (p - d)) = d + i
          BY <3>2, <1>0
        <4> QED BY <3>2, <4>1, <2>1, <2>2, <1>1 DEF IsPiece
      <3> QED BY <3>1, <3>2
    <2> QED BY <2>1, <2>2, <2>3 DEF IsPiece
  <1>2. ASSUME Chunk <= n - p
        PROVE  IsPiece(Piece(rest, 0, Chunk), s, p, p + Chunk)
    <2>1. rest \in Seq(Symbols) /\ Len(rest) = n - p /\ \A i \in 1 .. n - p : rest[i] = s[p + i]
      BY DEF IsPiece
    <2>2. /\ Piece(rest, 0, Chunk) \in Seq(Symbols) /\ Len(Piece(rest, 0, Chunk)) = Chunk - 0
          /\ \A i \in 1 .. Chunk - 0 : Piece(rest, 0, Chunk)[i] = rest[0 + i]
      <3>1. 0 \in Nat /\ Chunk \in Nat /\ 0 <= Chunk /\ Chunk <= Len(rest)
            /\ rest \in Seq(Symbols)
        BY <1>0, <1>2, <2>1
      <3> QED BY <3>1, Slice
    <2>3. (p + Chunk) - p = Chunk /\ Chunk - 0 = Chunk
          /\ \A i \in 1 .. Chunk : 0 + i = i /\ i \in 1 .. n - p
      BY <1>0, <1>2
    <2> QED BY <2>1, <2>2, <2>3 DEF IsPiece
  <1>3. ASSUME Chunk <= n - p
        PROVE  p + Chunk \in Nat /\ p <= p + Chunk /\ p + Chunk <= n
    BY <1>0, <1>3
  <1> QED BY <1>1, <1>2, <1>3

(***************************************************************************)
(* A round carries over the end of the file read so far.                   *)
(***************************************************************************)
LEMMA RoundCarry ==
  ASSUME NEW s \in Seq(Symbols), NEW p \in Nat, NEW e \in Nat, p <= e, e <= Len(s),
         NEW d \in Nat, NEW c, CarryIs(s, p, d, c), NEW b, IsPiece(b, s, d, e)
  PROVE  \E g \in Nat : CarryIs(s, e, g, Marker!Carry(b))
  <1>0. /\ d <= p /\ (d = 0 \/ d = p - Marker!Keep) /\ (d = 0 => p <= Marker!Keep) /\ d <= e
        /\ Len(s) \in Nat /\ Marker!Keep \in Nat
    BY PrefixLen, LenProperties DEF CarryIs
  <1>1. /\ b \in Seq(Symbols) /\ Len(b) = e - d
        /\ \A i \in 1 .. e - d : b[i] = s[d + i]
    BY DEF IsPiece
  <1>2. CASE e - d > Marker!Keep
    <2> DEFINE g == e - Marker!Keep
               h == (e - d) - Marker!Keep
    <2>1. g \in Nat /\ g <= e /\ e - g = Marker!Keep /\ g > 0 /\ h \in Nat /\ h <= e - d
          /\ (e - d) - h = Marker!Keep /\ d + h = g /\ e - d \in Nat
      BY <1>0, <1>2
    <2>2. Marker!Carry(b) = Piece(b, h, e - d)
      BY <1>1, <1>2 DEF Marker!Carry, Piece
    <2> HIDE DEF g, h
    <2>3. /\ Piece(b, h, e - d) \in Seq(Symbols)
          /\ Len(Piece(b, h, e - d)) = (e - d) - h
          /\ \A i \in 1 .. (e - d) - h : Piece(b, h, e - d)[i] = b[h + i]
      <3> DEFINE m == e - d
      <3>1. m \in Nat /\ h <= m /\ m <= Len(b)
        BY <2>1, <1>1
      <3>2. /\ Piece(b, h, m) \in Seq(Symbols) /\ Len(Piece(b, h, m)) = m - h
            /\ \A i \in 1 .. m - h : Piece(b, h, m)[i] = b[h + i]
        <4> HIDE DEF m
        <4> QED BY <3>1, <2>1, <1>1, Slice, ZenonT(60)
      <3> QED BY <3>2
    <2>4. /\ Piece(s, g, e) \in Seq(Symbols) /\ Len(Piece(s, g, e)) = e - g
          /\ \A i \in 1 .. e - g : Piece(s, g, e)[i] = s[g + i]
      BY <2>1, Slice
    <2>5. \A i \in 1 .. Marker!Keep : Piece(b, h, e - d)[i] = Piece(s, g, e)[i]
      <3> SUFFICES ASSUME NEW i \in 1 .. Marker!Keep
                   PROVE  Piece(b, h, e - d)[i] = Piece(s, g, e)[i]
        OBVIOUS
      <3>1. h + i \in 1 .. e - d /\ d + (h + i) = g + i
        BY <2>1, <1>0
      <3> QED BY <3>1, <2>1, <2>3, <2>4, <1>1
    <2>6. Piece(b, h, e - d) = Piece(s, g, e)
      BY <2>1, <2>3, <2>4, <2>5, SeqEqual
    <2>7. g = e - Marker!Keep
      BY DEF g
    <2>8. CarryIs(s, e, g, Marker!Carry(b))
      BY <2>1, <2>2, <2>6, <2>7 DEF CarryIs
    <2> QED BY <2>1, <2>8
  <1>3. CASE ~(e - d > Marker!Keep)
    <2>1. Marker!Carry(b) = b
      BY <1>1, <1>3 DEF Marker!Carry
    <2>2. d \in 0 .. e /\ (d = 0 \/ d = e - Marker!Keep) /\ (d = 0 => e <= Marker!Keep)
      BY <1>0, <1>3
    <2>3. b = Piece(s, d, e)
      <3>1. IsPiece(b, s, d, e)
        BY <1>0
      <3> QED BY <3>1, <1>0, PieceIs
    <2>4. CarryIs(s, e, d, Marker!Carry(b))
      BY <2>1, <2>2, <2>3 DEF CarryIs
    <2> QED BY <2>4
  <1> QED BY <1>2, <1>3

(***************************************************************************)
(* A round keeps the invariant, or ends with the contract's verdict.       *)
(***************************************************************************)
LEMMA Round ==
  ASSUME ScanOK, Marker!ReadChunk
  PROVE  MarkerInv'
  <1> DEFINE s == stream
             p == pos
             rest == SubSeq(stream, pos + 1, Len(stream))
             eof == Len(rest) < Chunk
             b == buf \o IF eof THEN rest ELSE SubSeq(rest, 1, Chunk)
             e == pos'
             hits == Marker!Whole(b)
             bad == \E i \in hits : ~Marker!WellFormed(Marker!Body(b, i))
             all == Cardinality(hits) + (IF found = Unnumbered THEN 0 ELSE 1)
  <1>1. s \in Seq(Symbols) /\ Len(s) \in Nat /\ p \in Nat /\ p <= Len(s) /\ Chunk \in Nat
    BY MarkerAssumption, LenProperties DEF ScanOK
  <1>2. PICK d \in Nat : CarryIs(s, p, d, buf)
    BY DEF ScanOK
  <1>3. FoundIs(s, p, found)
    BY DEF ScanOK
  <1>4. /\ stream' = stream
        /\ e = p + (IF eof THEN Len(rest) ELSE Chunk)
        /\ \/ (bad \/ all > 1 \/ (eof /\ Marker!Hits(b) # hits)) /\ verdict' = Refused
           \/ /\ ~bad /\ all <= 1 /\ ~(eof /\ Marker!Hits(b) # hits)
              /\ found' = IF hits = {} THEN found ELSE Marker!Body(b, CHOOSE i \in hits : TRUE)[1]
              /\ buf' = Marker!Carry(b)
              /\ verdict' = IF eof THEN found' ELSE Reading
    BY MarkersCount DEF Marker!ReadChunk
  <1>5. IsPiece(rest, s, p, Len(s)) /\ SubSeq(rest, 1, Chunk) = Piece(rest, 0, Chunk)
    <2>1. rest = Piece(s, p, Len(s)) /\ SubSeq(rest, 1, Chunk) = Piece(rest, 0, Chunk)
      BY DEF Piece
    <2> HIDE DEF s, p, rest
    <2> DEFINE n == Len(s)
    <2>2. n \in Nat /\ p <= n /\ n <= Len(s) /\ rest = Piece(s, p, n)
      BY <1>1, <2>1
    <2>3. IsPiece(rest, s, p, n)
      <3> HIDE DEF n
      <3> QED BY <1>1, <2>2, PieceIs
    <2> QED BY <2>1, <2>3
  <1>6. /\ Len(rest) = Len(s) - p
        /\ IsPiece(buf \o rest, s, d, Len(s))
        /\ Chunk <= Len(s) - p => /\ p + Chunk <= Len(s)
                                  /\ IsPiece(buf \o Piece(rest, 0, Chunk), s, d, p + Chunk)
    <2> HIDE DEF s, p, rest
    <2> DEFINE n == Len(s)
    <2>1. n \in Nat /\ p <= n /\ n <= Len(s) /\ IsPiece(rest, s, p, n)
      BY <1>1, <1>5
    <2>2. /\ IsPiece(buf \o rest, s, d, n)
          /\ Chunk <= n - p => /\ p + Chunk <= n
                               /\ IsPiece(buf \o Piece(rest, 0, Chunk), s, d, p + Chunk)
      <3> HIDE DEF n
      <3> QED BY <1>1, <1>2, <2>1, RoundBuffer
    <2>3. Len(rest) = n - p
      BY <2>1 DEF IsPiece
    <2> QED BY <2>2, <2>3
  <1>7. e \in Nat /\ p <= e /\ e <= Len(s) /\ IsPiece(b, s, d, e) /\ (eof => e = Len(s))
    <2> HIDE DEF s, p, rest, e
    <2>1. CASE eof
      <3>1. e = Len(s) /\ b = buf \o rest
        BY <2>1, <1>1, <1>4, <1>6
      <3> QED BY <2>1, <3>1, <1>1, <1>6
    <2>2. CASE ~eof
      <3>1. Chunk <= Len(s) - p /\ e = p + Chunk /\ b = buf \o Piece(rest, 0, Chunk)
        BY <2>2, <1>1, <1>4, <1>5, <1>6, SMTT(30)
      <3> HIDE DEF b, eof
      <3> QED BY <2>2, <3>1, <1>1, <1>6
    <2> QED BY <2>1, <2>2
  <1> HIDE DEF s, p, rest, e, b, eof
  <1>8. b \in Seq(Symbols)
    BY <1>7 DEF IsPiece
  <1> HIDE DEF bad, all
  <1>9. /\ \A i \in hits : /\ i \in Int /\ d + i \in MarkersIn(s, e) /\ d + i \notin MarkersIn(s, p)
                           /\ Marker!WellFormed(Marker!Body(b, i)) <=> Marker!WellFormed(Marker!Body(s, d + i))
                           /\ Marker!Body(b, i)[1] = Marker!Body(s, d + i)[1]
        /\ \A k \in MarkersIn(s, e) : k \in MarkersIn(s, p) \/ (k - d \in hits /\ k - d \in Int)
        /\ MarkersIn(s, p) \subseteq MarkersIn(s, e)
        /\ MarkersIn(s, Len(s)) = Marker!Whole(s)
        /\ e = Len(s) => (Marker!Hits(b) # hits <=> Marker!Hits(s) # Marker!Whole(s))
    <2>1. s \in Seq(Symbols) /\ p \in Nat /\ e \in Nat /\ p <= e /\ e <= Len(s)
          /\ IsPiece(b, s, d, e) /\ CarryIs(s, p, d, buf)
      BY <1>1, <1>2, <1>7
    <2>2. Sees(s, p, e, d, b)
      BY <2>1, RoundHits
    <2> QED BY <2>2 DEF hits, Sees
  <1>10. MarkersIn(s, e) \subseteq Marker!Whole(s)
    <2> SUFFICES ASSUME NEW k \in MarkersIn(s, e) PROVE k \in Marker!Whole(s)
      OBVIOUS
    <2>1. k \in Marker!Hits(s) /\ k \in Int /\ k + Marker!MarkerLen - 1 <= e
      BY DEF MarkersIn, Marker!Hits
    <2> QED BY <2>1, <1>1, <1>7, PrefixLen DEF Marker!Whole
  <1>11. Cardinality(hits) \in Nat /\ (Cardinality(hits) = 0 <=> hits = {})
         /\ (Cardinality(hits) = 1 <=> \E i : hits = {i})
    BY <1>8, FewHits
  <1> HIDE DEF hits
  <1>12. Marker!Whole(s) \subseteq Marker!Hits(s)
    BY DEF Marker!Whole
  <1>13. CASE (bad \/ all > 1 \/ (eof /\ Marker!Hits(b) # hits)) /\ verdict' = Refused
    <2>1. ASSUME bad PROVE \E i \in Marker!Whole(s) : ~Marker!WellFormed(Marker!Body(s, i))
      BY <2>1, <1>9, <1>10 DEF bad
    <2>2. ASSUME all > 1 PROVE \E i, j \in Marker!Hits(s) : i # j
      <3>1. ASSUME NEW i \in hits, NEW j \in hits, i # j
            PROVE  \E x, y \in Marker!Hits(s) : x # y
        <4>1. d + i \in Marker!Hits(s) /\ d + j \in Marker!Hits(s) /\ i \in Int /\ j \in Int
          BY <1>9, <1>10, <1>12
        <4>2. d + i # d + j
          BY <3>1, <4>1
        <4> QED BY <4>1, <4>2
      <3>2. ASSUME NEW i \in hits, NEW k \in MarkersIn(s, p)
            PROVE  \E x, y \in Marker!Hits(s) : x # y
        <4>1. d + i \in Marker!Hits(s) /\ k \in Marker!Hits(s) /\ d + i # k
          BY <1>9, <1>10, <1>12
        <4> QED BY <4>1
      <3>3. CASE found = Unnumbered
        <4>1. hits # {} /\ ~\E i : hits = {i}
          BY <2>2, <3>3, <1>11 DEF all
        <4> QED BY <4>1, <3>1
      <3>4. CASE found # Unnumbered
        <4>1. hits # {}
          BY <2>2, <3>4, <1>11 DEF all
        <4>2. MarkersIn(s, p) # {}
          BY <3>4, <1>3 DEF FoundIs
        <4> QED BY <4>1, <4>2, <3>2
      <3> QED BY <3>3, <3>4
    <2>3. ASSUME eof, Marker!Hits(b) # hits PROVE \E i \in Marker!Hits(s) : i \notin Marker!Whole(s)
      BY <2>3, <1>7, <1>9, <1>12
    <2>4. Marker!Release(s) = Refused
      <3> QED BY <1>1, <1>13, <2>1, <2>2, <2>3, Doubt
    <2>5. verdict' # Reading
      BY <1>13, MarkerAssumption
    <2> QED BY <1>4, <1>13, <2>4, <2>5 DEF MarkerInv, Marker!ScanIsContract, s
  <1>14. CASE /\ ~bad /\ all <= 1 /\ ~(eof /\ Marker!Hits(b) # hits)
              /\ found' = IF hits = {} THEN found ELSE Marker!Body(b, CHOOSE i \in hits : TRUE)[1]
              /\ buf' = Marker!Carry(b)
              /\ verdict' = IF eof THEN found' ELSE Reading
    <2>1. FoundIs(s, e, found')
      <3>1. CASE hits = {}
        <4>1. MarkersIn(s, e) = MarkersIn(s, p) /\ found' = found
          BY <1>9, <1>14, <3>1
        <4> QED BY <4>1, <1>3 DEF FoundIs
      <3>2. CASE hits # {}
        <4>1. found = Unnumbered /\ \E i : hits = {i}
          BY <3>2, <1>11, <1>14 DEF all
        <4>2. PICK i : hits = {i}
          BY <4>1
        <4>3. found' = Marker!Body(b, i)[1] /\ Marker!WellFormed(Marker!Body(b, i))
          BY <1>14, <4>2 DEF bad
        <4>4. MarkersIn(s, p) = {}
          <5>1. ASSUME NEW k \in MarkersIn(s, p), Marker!WellFormed(Marker!Body(s, k)),
                       found = Marker!Body(s, k)[1]
                PROVE  FALSE
            BY <5>1, <4>1, MarkerAssumption DEF Marker!WellFormed
          <5> QED BY <5>1, <1>3 DEF FoundIs
        <4>5. /\ MarkersIn(s, e) = {d + i} /\ Marker!WellFormed(Marker!Body(s, d + i))
              /\ found' = Marker!Body(s, d + i)[1]
          <5>1. d + i \in MarkersIn(s, e) /\ i \in Int
            BY <4>2, <1>9
          <5>2. ASSUME NEW k \in MarkersIn(s, e) PROVE k = d + i
            <6>1. k \in Int
              BY DEF MarkersIn, Marker!Hits
            <6>2. k - d \in hits
              BY <4>4, <1>9
            <6>3. k - d = i
              BY <6>2, <4>2
            <6> QED BY <6>1, <6>3
          <5> QED BY <5>1, <5>2, <4>2, <4>3, <1>9
        <4> QED BY <4>5 DEF FoundIs
      <3> QED BY <3>1, <3>2
    <2>2. CASE eof
      <3>1. Marker!Whole(s) = Marker!Hits(s) /\ e = Len(s)
        BY <2>2, <1>7, <1>9, <1>14
      <3>2. Marker!Release(s) = found'
        BY <3>1, <2>1, <1>1, NoDoubt
      <3>3. found' # Reading
        <4>1. found' = Unnumbered \/ found' \in Numbers
          BY <2>1 DEF FoundIs, Marker!WellFormed
        <4> QED BY <4>1, MarkerAssumption
      <3> QED BY <3>2, <3>3, <2>2, <1>14, <1>4 DEF MarkerInv, Marker!ScanIsContract, s
    <2>3. CASE ~eof
      <3>1. \E g \in Nat : CarryIs(s, e, g, buf')
        <4>1. \E g \in Nat : CarryIs(s, e, g, Marker!Carry(b))
          <5>1. s \in Seq(Symbols) /\ p \in Nat /\ e \in Nat /\ p <= e /\ e <= Len(s)
                /\ IsPiece(b, s, d, e) /\ CarryIs(s, p, d, buf)
            BY <1>1, <1>2, <1>7
          <5> QED BY <5>1, RoundCarry
        <4> QED BY <4>1, <1>14
      <3>2. e \in 0 .. Len(s) /\ stream' = s /\ s \in Streams
        BY <1>1, <1>4, <1>7 DEF ScanOK, s
      <3>3. ScanOK'
        BY <3>1, <3>2, <2>1 DEF ScanOK, e
      <3> QED BY <3>3, <2>3, <1>14 DEF MarkerInv
    <2> QED BY <2>2, <2>3
  <1> QED BY <1>4, <1>13, <1>14

(***************************************************************************)
(* Whatever the chunk size and wherever its boundaries fall, the scan      *)
(* returns what the file holds.                                            *)
(***************************************************************************)
THEOREM ScanIsRight == Marker!Spec => []ScanIsContract
  <1>1. Marker!Init => MarkerInv
    <2> SUFFICES ASSUME Marker!Init PROVE ScanOK
      BY DEF Marker!Init, MarkerInv
    <2>1. stream \in Seq(Symbols) /\ Len(stream) \in Nat /\ pos = 0
      BY MarkerAssumption, LenProperties DEF Marker!Init
    <2>2. Piece(stream, 0, 0) = << >>
      BY SubSeqEmpty DEF Piece
    <2>3. MarkersIn(stream, 0) = {}
      BY PrefixLen DEF MarkersIn, Marker!Hits
    <2>4. 0 <= Marker!Keep
      BY PrefixLen
    <2> QED BY <2>1, <2>2, <2>3, <2>4 DEF Marker!Init, ScanOK, CarryIs, FoundIs
  <1>2. MarkerInv /\ [Marker!Next]_Marker!vars => MarkerInv'
    <2> SUFFICES ASSUME MarkerInv, [Marker!Next]_Marker!vars PROVE MarkerInv'
      OBVIOUS
    <2>1. CASE UNCHANGED Marker!vars
      BY <2>1 DEF Marker!vars, MarkerInv, ScanOK, Marker!ScanIsContract
    <2>2. CASE Marker!ReadChunk
      <3>1. verdict = Reading
        BY <2>2 DEF Marker!ReadChunk
      <3> QED BY <2>2, <3>1, Round DEF MarkerInv
    <2> QED BY <2>1, <2>2 DEF Marker!Next
  <1>3. MarkerInv => ScanIsContract
    BY DEF MarkerInv, Marker!ScanIsContract, ScanIsContract
  <1> QED BY <1>1, <1>2, <1>3, PTL DEF Marker!Spec

-----------------------------------------------------------------------------
(***************************************************************************)
(* Power windows: an order of sensors, an accumulator for each, one for    *)
(* their total and one for each scalar domain.                             *)
(***************************************************************************)

Accs == {a \in [n : Nat, sum : Int, peak : Int] : Sampler!ValidStats(a)}

DomainAccs == [acc : Accs, source : Sources \cup {Sampler!Nothing}, mixed : BOOLEAN]

Windows ==
  [order : Seq(Gpus), gpus : Seq(Accs), total : Accs, sig : SUBSET Gpus, mixed : BOOLEAN,
   dom : [Domains -> DomainAccs], any : BOOLEAN]

WindowType ==
  /\ w \in Windows
  /\ seen \in [polls : SUBSET SUBSET Gpus, labels : [Domains -> SUBSET Sources]]

(* Every sensor of the window has one place and one accumulator.            *)
OrderOK ==
  /\ Len(w.gpus) = Len(w.order) /\ Len(w.order) <= MaxSensors
  /\ \A i, k \in DOMAIN w.order : i # k => w.order[i] # w.order[k]

(* A total that is not mixed sums polls of one set of sensors, all placed   *)
(* and none sampled less often than the total.                              *)
TotalOK ==
  /\ w.total.n = 0 => seen.polls = {}
  /\ w.total.n > 0 => w.sig # {}
  /\ w.total.n > 0 /\ ~w.mixed =>
       /\ seen.polls = {w.sig}
       /\ \A g \in w.sig : \E i \in DOMAIN w.order : w.order[i] = g
       /\ \A i \in DOMAIN w.order : w.order[i] \in w.sig => w.total.n <= w.gpus[i].n

(* A scalar domain that is not mixed has the samples of its one label.      *)
DomainOK ==
  \A d \in Domains :
    /\ w.dom[d].source = Sampler!Nothing => w.dom[d].acc.n = 0 /\ seen.labels[d] = {}
    /\ w.dom[d].source # Sampler!Nothing /\ ~w.dom[d].mixed =>
         seen.labels[d] = {w.dom[d].source}

WindowInv ==
  /\ WindowType /\ OrderOK /\ TotalOK /\ DomainOK
  /\ Sampler!EmittedIsAccepted /\ Sampler!NothingBlended

(***************************************************************************)
(* statsAcc.add keeps the mean at most the peak, and counts to the cap.    *)
(***************************************************************************)
LEMMA AddIsValid ==
  ASSUME NEW a \in Accs, NEW x \in Int
  PROVE  /\ Sampler!Add(a, x) \in Accs
         /\ Sampler!Add(a, x).n = IF a.n >= Expected THEN a.n ELSE a.n + 1
<1>1. Expected \in Nat
  BY WindowAssumption
<1>2. /\ a.n \in 0..Expected /\ a.sum \in Int /\ a.peak \in Int
      /\ a.n = 0 => a.sum = 0 /\ a.peak = 0
      /\ a.sum <= a.n * a.peak
  BY DEF Accs, Sampler!ValidStats
<1>3. CASE a.n >= Expected
  BY <1>3 DEF Sampler!Add
<1>4. CASE a.n < Expected
  <2> DEFINE p == IF a.n = 0 \/ x > a.peak THEN x ELSE a.peak
  <2>1. Sampler!Add(a, x) = [n |-> a.n + 1, sum |-> a.sum + x, peak |-> p]
    BY <1>1, <1>2, <1>4 DEF Sampler!Add
  <2>2. p \in Int /\ x <= p /\ (a.n = 0 \/ a.peak <= p)
    BY <1>2
  <2>3. a.n * a.peak <= a.n * p
    <3>1. CASE a.n = 0
      BY <1>2, <2>2, <3>1
    <3>2. CASE a.n # 0
      <4>1. a.n \in Nat /\ a.peak <= p
        BY <1>2, <2>2, <3>2
      <4> HIDE DEF p
      <4>. QED
        BY <1>2, <2>2, <4>1
    <3>. QED
      BY <3>1, <3>2
  <2>4. (a.n + 1) * p = a.n * p + p
    BY <1>1, <1>2, <2>2
  <2>5. a.sum + x <= (a.n + 1) * p
    <3> HIDE DEF p
    <3>1. a.n * p \in Int /\ a.n * a.peak \in Int
      BY <1>1, <1>2, <2>2
    <3>2. \A u, v \in Int : a.sum <= u /\ u <= v => a.sum + x <= v + p
      BY <1>2, <2>2
    <3>. QED
      BY <1>2, <2>3, <2>4, <3>1, <3>2, Zenon
  <2>6. a.n + 1 \in 0..Expected /\ a.n + 1 # 0 /\ a.n + 1 \in Nat
    BY <1>1, <1>2, <1>4
  <2> DEFINE b == Sampler!Add(a, x)
  <2>7. b.n = a.n + 1 /\ b.sum = a.sum + x /\ b.peak = p
    BY <2>1
  <2>8. b \in [n : Nat, sum : Int, peak : Int]
    BY <1>2, <2>1, <2>2, <2>6
  <2> HIDE DEF b, p
  <2>9. Sampler!ValidStats(b)
    BY <2>5, <2>6, <2>7, Zenon DEF Sampler!ValidStats
  <2>. QED
    BY <1>2, <1>4, <1>1, <2>7, <2>8, <2>9 DEF Accs, b
<1>. QED
  BY <1>1, <1>2, <1>3, <1>4

(***************************************************************************)
(* A set of numbers that is not empty has a least one.                     *)
(***************************************************************************)
LEMMA NatLeast ==
  ASSUME NEW S \in SUBSET Nat, NEW k \in S
  PROVE  \E x \in S : \A y \in S : x <= y
<1>1. PICK x \in S : \A y \in S : ~(<<y, x>> \in OpToRel(<, Nat))
  BY NatLessThanWellFounded, WFMin
<1>2. ASSUME NEW y \in S PROVE x <= y
  <2>1. ~(y < x)
    BY <1>1 DEF OpToRel
  <2>. QED
    BY <2>1
<1>. QED
  BY <1>2

(***************************************************************************)
(* The running sums of a sequence of integers exist.                       *)
(***************************************************************************)
LEMMA SumsExist ==
  ASSUME NEW n \in Nat, NEW r \in [1..n -> Int]
  PROVE  \E f \in [0..n -> Int] :
           f = [i \in 0..n |-> IF i = 0 THEN 0 ELSE f[i - 1] + r[i]]
<1> DEFINE Is(f, k) == /\ f \in [0..k -> Int]
                       /\ f[0] = 0 /\ \A i \in 1..k : f[i] = f[i - 1] + r[i]
           Bad == {k \in 0..n : ~\E f : Is(f, k)}
<1>1. Is([i \in {0} |-> 0], 0)
  OBVIOUS
<1>2. ASSUME NEW k \in 1..n, NEW f, Is(f, k - 1) PROVE \E g : Is(g, k)
  <2> DEFINE g == [i \in 0..k |-> IF i = k THEN f[k - 1] + r[k] ELSE f[i]]
  <2>1. \A i \in 0..k - 1 : g[i] = f[i] /\ f[i] \in Int
    BY <1>2
  <2>2. g[k] = f[k - 1] + r[k] /\ g[k] \in Int
    BY <1>2
  <2>3. g \in [0..k -> Int]
    <3>1. \A i \in 0..k : i = k \/ i \in 0..k - 1
      OBVIOUS
    <3>2. \A i \in 0..k : g[i] \in Int
      BY <2>1, <2>2, <3>1
    <3>. QED
      BY <3>2
  <2>4. \A i \in 1..k : g[i] = g[i - 1] + r[i]
    BY <1>2, <2>1, <2>2
  <2>5. g[0] = 0
    BY <1>2, <2>1
  <2>. QED
    BY <2>3, <2>4, <2>5
<1> HIDE DEF Is
<1>3. Bad = {}
  <2> SUFFICES ASSUME Bad # {} PROVE FALSE
    OBVIOUS
  <2>1. PICK x \in Bad : \A y \in Bad : x <= y
    <3>1. Bad \in SUBSET Nat
      OBVIOUS
    <3>2. PICK k \in Bad : TRUE
      OBVIOUS
    <3> HIDE DEF Bad
    <3>. QED
      BY <3>1, <3>2, NatLeast
  <2>2. x # 0
    BY <1>1
  <2>3. x \in 1..n /\ x - 1 \in 0..n /\ x - 1 \notin Bad
    <3>1. x \in 0..n
      OBVIOUS
    <3> HIDE DEF Bad
    <3>. QED
      BY <2>1, <2>2, <3>1
  <2>. QED
    BY <1>2, <2>1, <2>3
<1>4. PICK f : Is(f, n)
  <2>1. n \in 0..n
    OBVIOUS
  <2>. QED
    BY <1>3, <2>1, Zenon
<1> USE DEF Is
<1>5. f = [i \in 0..n |-> IF i = 0 THEN 0 ELSE f[i - 1] + r[i]]
  <2>1. \A i \in 0..n : f[i] = IF i = 0 THEN 0 ELSE f[i - 1] + r[i]
    BY <1>4
  <2>2. f = [i \in 0..n |-> f[i]]
    BY <1>4
  <2>. QED
    BY <2>1, <2>2
<1>. QED
  BY <1>4, <1>5

(***************************************************************************)
(* A sum of readings is an integer.                                        *)
(***************************************************************************)
LEMMA SumIsInt ==
  ASSUME NEW n \in Nat, NEW r \in [1..n -> Int], NEW s,
         s = CHOOSE f : f = [i \in 0..n |-> IF i = 0 THEN 0 ELSE f[i - 1] + r[i]]
  PROVE  s[n] \in Int
<1>1. s = [i \in 0..n |-> IF i = 0 THEN 0 ELSE s[i - 1] + r[i]]
  BY SumsExist
<1>2. s[0] = 0 /\ \A i \in 1..n : s[i] = s[i - 1] + r[i]
  <2>1. \A i \in 0..n : s[i] = IF i = 0 THEN 0 ELSE s[i - 1] + r[i]
    BY <1>1, Zenon
  <2>2. 0 \in 0..n /\ \A i \in 1..n : i \in 0..n /\ i # 0
    OBVIOUS
  <2>. QED
    BY <2>1, <2>2
<1> DEFINE Bad == {k \in 0..n : s[k] \notin Int}
<1>3. Bad = {}
  <2> SUFFICES ASSUME Bad # {} PROVE FALSE
    OBVIOUS
  <2>1. PICK x \in Bad : \A y \in Bad : x <= y
    <3>1. Bad \in SUBSET Nat
      OBVIOUS
    <3>2. PICK k \in Bad : TRUE
      OBVIOUS
    <3> HIDE DEF Bad
    <3>. QED
      BY <3>1, <3>2, NatLeast
  <2>2. x # 0
    BY <1>2
  <2>3. x \in 1..n /\ x - 1 \in 0..n /\ x - 1 \notin Bad
    BY <2>1, <2>2
  <2>. QED
    BY <1>2, <2>1, <2>3
<1>. QED
  BY <1>3

(***************************************************************************)
(* A finite set in some order.                                             *)
(***************************************************************************)
LEMMA SetToSeqIs ==
  ASSUME NEW S, IsFiniteSet(S)
  PROVE  /\ Sampler!SetToSeq(S) \in Seq(S)
         /\ \A i, k \in DOMAIN Sampler!SetToSeq(S) :
              i # k => Sampler!SetToSeq(S)[i] # Sampler!SetToSeq(S)[k]
<1>1. Sampler!Cardinality(S) = Cardinality(S) /\ Cardinality(S) \in Nat
  BY FS_CardinalityType DEF Sampler!Cardinality, Cardinality
<1>2. PICK f \in [1..Cardinality(S) -> S] : Sampler!IsInjective(f)
  BY FS_CardinalityType
     DEF ExistsBijection, Bijection, Injection, IsInjective, Sampler!IsInjective
<1>3. /\ Sampler!SetToSeq(S) \in [1..Cardinality(S) -> S]
      /\ Sampler!IsInjective(Sampler!SetToSeq(S))
  BY <1>1, <1>2 DEF Sampler!SetToSeq
<1>. QED
  <2> DEFINE q == Sampler!SetToSeq(S)
  <2>1. q \in Seq(S) /\ DOMAIN q = 1..Cardinality(S)
    BY <1>1, <1>3
  <2>2. \A i, k \in DOMAIN q : q[i] = q[k] => i = k
    BY <1>3 DEF Sampler!IsInjective
  <2>. QED
    BY <2>1, <2>2

(***************************************************************************)
(* The sum of the readings of a poll is an integer.                        *)
(***************************************************************************)
LEMMA SumOfType ==
  ASSUME NEW ids \in SUBSET Gpus, NEW poll \in [ids -> Int]
  PROVE  Sampler!SumOf(poll) \in Int
<1> DEFINE q == Sampler!SetToSeq(ids)
           n == Len(q)
           r == [i \in 1..n |-> poll[q[i]]]
           s == CHOOSE f : f = [i \in 0..n |-> IF i = 0 THEN 0 ELSE f[i - 1] + r[i]]
           t == CHOOSE f : f = [i \in 0..n |-> IF i = 0 THEN 0 ELSE f[i - 1] + poll[q[i]]]
<1>1. q \in Seq(ids)
  BY WindowAssumption, FS_Subset, SetToSeqIs
<1>2. n \in Nat /\ r \in [1..n -> Int]
  BY <1>1
<1>3. s[n] \in Int
  BY <1>2, SumIsInt
<1>4. s = t
  <2>1. ASSUME NEW f PROVE [i \in 0..n |-> IF i = 0 THEN 0 ELSE f[i - 1] + r[i]]
                         = [i \in 0..n |-> IF i = 0 THEN 0 ELSE f[i - 1] + poll[q[i]]]
    BY <1>2
  <2>. QED
    BY <2>1
<1>5. Sampler!SumOf(poll) = t[n]
  BY DEF Sampler!SumOf
<1>. QED
  BY <1>3, <1>4, <1>5
(***************************************************************************)
(* The first members of a sequence, at most so many of them.               *)
(***************************************************************************)
LEMMA FirstMembers ==
  ASSUME NEW S, NEW q \in Seq(S),
         NEW m \in Nat, m <= Len(q)
  PROVE  /\ SubSeq(q, 1, m) \in Seq(S) /\ Len(SubSeq(q, 1, m)) = m
         /\ \A i \in 1..m : i \in DOMAIN q /\ SubSeq(q, 1, m)[i] = q[i]
<1>1. Len(q) \in Nat /\ DOMAIN q = 1..Len(q)
  OBVIOUS
<1>2. m \in 0..Len(q)
  BY <1>1
<1>3. \A i \in 1..m : i \in DOMAIN q
  BY <1>1, <1>2
<1>4. SubSeq(q, 1, m) \in Seq(S) /\ Len(SubSeq(q, 1, m)) = m
      /\ \A i \in 1..m : SubSeq(q, 1, m)[i] = q[i]
  <2>1. \A i \in 1..m : q[i] \in S
    BY <1>3
  <2>. QED
    BY <1>1, <1>2, <2>1
<1>. QED
  BY <1>2, <1>3, <1>4

(***************************************************************************)
(* A sequence after another of different members.                          *)
(***************************************************************************)
LEMMA Concatenated ==
  ASSUME NEW S, NEW q \in Seq(S), NEW r \in Seq(S),
         \A i, k \in DOMAIN q : i # k => q[i] # q[k],
         \A i, k \in DOMAIN r : i # k => r[i] # r[k],
         \A i \in DOMAIN q : \A k \in DOMAIN r : q[i] # r[k],
         NEW t, t = q \o r
  PROVE  /\ t \in Seq(S) /\ Len(t) = Len(q) + Len(r)
         /\ Len(q) \in Nat /\ Len(r) \in Nat
         /\ \A i \in 1..Len(q) : t[i] = q[i]
         /\ \A i \in Len(q) + 1..Len(t) : \A k \in 1..Len(q) : t[i] # q[k]
         /\ \A i, k \in DOMAIN t : i # k => t[i] # t[k]
<1> DEFINE n == Len(q)
           m == Len(r)
<1>1. n \in Nat /\ m \in Nat /\ DOMAIN q = 1..n /\ DOMAIN r = 1..m
  OBVIOUS
<1>2. t \in Seq(S) /\ Len(t) = n + m /\ DOMAIN t = 1..n + m
  OBVIOUS
<1>3. \A i \in 1..n : t[i] = q[i]
  OBVIOUS
<1>4. \A i \in n + 1..n + m : i - n \in 1..m /\ t[i] = r[i - n]
  OBVIOUS
<1>5. ASSUME NEW i \in n + 1..n + m, NEW k \in 1..n PROVE t[i] # q[k]
  BY <1>1, <1>4
<1> HIDE DEF n, m
<1>6. ASSUME NEW i \in 1..n + m, NEW k \in 1..n + m, i < k PROVE t[i] # t[k]
  <2>1. CASE k <= n
    <3>1. i \in 1..n /\ k \in 1..n
      BY <1>1, <1>6, <2>1
    <3>. QED
      BY <1>1, <1>3, <1>6, <3>1
  <2>2. CASE i <= n /\ k > n
    <3>1. i \in 1..n /\ k \in n + 1..n + m
      BY <1>1, <2>2
    <3>. QED
      BY <1>3, <1>5, <3>1
  <2>3. CASE i > n
    <3>1. i \in n + 1..n + m /\ k \in n + 1..n + m /\ i - n # k - n
      BY <1>1, <1>6, <2>3
    <3>2. i - n \in DOMAIN r /\ k - n \in DOMAIN r
      BY <1>1, <1>4, <3>1
    <3>3. r[i - n] # r[k - n]
      BY <3>1, <3>2
    <3>. QED
      BY <1>4, <3>1, <3>3
  <2>. QED
    BY <1>1, <2>1, <2>2, <2>3
<1>7. \A i, k \in 1..n + m : i # k => t[i] # t[k]
  <2>1. \A i, k \in 1..n + m : i # k => i < k \/ k < i
    BY <1>1
  <2>. QED
    BY <1>6, <2>1
<1>. QED
  BY <1>1, <1>2, <1>3, <1>5, <1>7, Zenon DEF n, m

(***************************************************************************)
(* A poll of the accelerators (addGPUAt).                                  *)
(***************************************************************************)
LEMMA AddGPUStep ==
  ASSUME WindowInv, NEW ids \in (SUBSET Gpus) \ {{}}, NEW complete \in BOOLEAN,
         NEW poll \in [ids -> Watts \cup {Sampler!NoValue}],
         Sampler!AddGPU(ids, poll, complete)
  PROVE  WindowInv'
<1> DEFINE known == {w.order[i] : i \in DOMAIN w.order}
           room == MaxSensors - Len(w.order)
           new == Sampler!SetToSeq(ids \ known)
           order == w.order \o SubSeq(new, 1, IF Len(new) > room THEN room ELSE Len(new))
           had(i) == IF i <= Len(w.order) THEN w.gpus[i] ELSE Sampler!EmptyAcc
           reads(i) == order[i] \in ids /\ poll[order[i]] # Sampler!NoValue
           present == /\ complete /\ ids \subseteq {order[i] : i \in DOMAIN order}
                      /\ \A g \in ids : poll[g] # Sampler!NoValue
           counted == present /\ w.total.n < Expected
           gpus == [i \in DOMAIN order |->
                      IF reads(i) THEN Sampler!Add(had(i), poll[order[i]]) ELSE had(i)]
           any == w.any \/ \E i \in DOMAIN order : reads(i) /\ had(i).n < Expected
           sig == IF complete /\ w.sig = {} THEN ids ELSE w.sig
           mixed == w.mixed \/ (complete /\ w.sig # {} /\ w.sig # ids)
           total == IF counted THEN Sampler!Add(w.total, Sampler!SumOf(poll)) ELSE w.total
           polls == IF counted THEN seen.polls \cup {ids} ELSE seen.polls
<1>0. ids \in SUBSET Gpus /\ ids # {}
  OBVIOUS
<1>1. /\ w' = [w EXCEPT !.order = order, !.gpus = gpus, !.any = any, !.sig = sig,
                          !.mixed = mixed, !.total = total]
      /\ seen' = IF counted THEN [seen EXCEPT !.polls = @ \cup {ids}] ELSE seen
      /\ UNCHANGED <<bucket, about>>
  BY DEF Sampler!AddGPU, Sampler!ToSet
<1>2. /\ w \in Windows
      /\ seen \in [polls : SUBSET SUBSET Gpus, labels : [Domains -> SUBSET Sources]]
      /\ OrderOK /\ TotalOK /\ DomainOK
  BY DEF WindowInv, WindowType, Windows
<1> DEFINE n == Len(w.order)
           l == Len(order)
<1>3. /\ order \in Seq(Gpus) /\ l \in n..MaxSensors
      /\ \A i \in 1..n : order[i] = w.order[i]
      /\ \A i \in n + 1..l : \A k \in 1..n : order[i] # w.order[k]
      /\ \A i, k \in DOMAIN order : i # k => order[i] # order[k]
  <2>W. /\ w.order \in Seq(Gpus) /\ Len(w.order) <= MaxSensors
        /\ \A i, k \in DOMAIN w.order : i # k => w.order[i] # w.order[k]
    BY <1>2 DEF Windows, OrderOK
  <2>1. room \in Nat
    BY <2>W, WindowAssumption
  <2>2. new \in Seq(ids \ known) /\ \A i, k \in DOMAIN new : i # k => new[i] # new[k]
    <3>1. IsFiniteSet(ids \ known)
      BY WindowAssumption, FS_Subset
    <3>. QED
      BY <3>1, SetToSeqIs
  <2>0. \A i \in DOMAIN w.order : w.order[i] \in known
    OBVIOUS
  <2> HIDE DEF known, room
  <2> DEFINE m == IF Len(new) > room THEN room ELSE Len(new)
  <2>M. m \in Nat /\ m <= room /\ m <= Len(new)
    BY <2>1, <2>2
  <2> HIDE DEF m
  <2>N. new \in Seq(ids \ known)
    BY <2>2
  <2>3. /\ SubSeq(new, 1, m) \in Seq(ids \ known) /\ Len(SubSeq(new, 1, m)) = m
        /\ \A i \in 1..m : i \in DOMAIN new /\ SubSeq(new, 1, m)[i] = new[i]
    <3>1. ASSUME NEW q \in Seq(ids \ known), NEW k \in Nat, k <= Len(q)
          PROVE  /\ SubSeq(q, 1, k) \in Seq(ids \ known) /\ Len(SubSeq(q, 1, k)) = k
                 /\ \A i \in 1..k : i \in DOMAIN q /\ SubSeq(q, 1, k)[i] = q[i]
      BY <3>1, FirstMembers
    <3>. QED
      BY <2>N, <2>M, <3>1, Zenon
  <2> DEFINE taken == SubSeq(new, 1, m)
  <2>4. order = w.order \o taken
    BY DEF room, m
  <2> HIDE DEF taken, order
  <2>5. taken \in Seq(ids \ known) /\ Len(taken) = m /\ m \in Nat
        /\ \A i \in 1..m : i \in DOMAIN new /\ taken[i] = new[i]
    <3>1. m \in Nat
      BY <2>M
    <3>. QED
      BY <2>3, <3>1, Zenon DEF taken
  <2>6. DOMAIN taken = 1..m /\ taken \in Seq(Gpus) /\ \A k \in DOMAIN taken : taken[k] \notin known
    <3>1. \A k \in DOMAIN taken : taken[k] \in ids \ known
      BY <2>5
    <3>2. DOMAIN taken = 1..m
      BY <2>5
    <3>3. taken \in Seq(Gpus)
      BY <2>5, <3>1, <3>2
    <3>. QED
      BY <3>1, <3>2, <3>3
  <2>7. \A i, k \in DOMAIN taken : i # k => taken[i] # taken[k]
    BY <2>2, <2>5, <2>6, Zenon
  <2>8. \A i \in DOMAIN w.order : \A k \in DOMAIN taken : w.order[i] # taken[k]
    BY <2>0, <2>6, Zenon
  <2>9. taken \in Seq(Gpus)
    BY <2>6
  <2>10. /\ order \in Seq(Gpus) /\ Len(order) = Len(w.order) + Len(taken)
         /\ Len(w.order) \in Nat /\ Len(taken) \in Nat
         /\ \A i \in 1..Len(w.order) : order[i] = w.order[i]
         /\ \A i \in Len(w.order) + 1..Len(order) : \A k \in 1..Len(w.order) : order[i] # w.order[k]
         /\ \A i, k \in DOMAIN order : i # k => order[i] # order[k]
    BY <2>W, <2>4, <2>7, <2>8, <2>9, Concatenated
  <2>11. Len(order) \in Len(w.order)..MaxSensors
    BY <2>1, <2>M, <2>5, <2>10, WindowAssumption, SMTT(30) DEF room
  <2>. QED
    BY <2>10, <2>11, Zenon
<1>4. /\ n \in Nat /\ l \in Nat /\ n <= l /\ l <= MaxSensors /\ MaxSensors \in Nat
      /\ Expected \in Nat /\ DOMAIN w.order = 1..n /\ DOMAIN order = 1..l
      /\ DOMAIN w.gpus = 1..n /\ w.gpus \in Seq(Accs) /\ w.total \in Accs
  <2>1. w.order \in Seq(Gpus) /\ w.gpus \in Seq(Accs) /\ w.total \in Accs
        /\ Len(w.gpus) = Len(w.order)
    BY <1>2 DEF Windows, OrderOK
  <2>2. MaxSensors \in Nat /\ Expected \in Nat
    BY WindowAssumption
  <2>3. n \in Nat /\ DOMAIN w.order = 1..n /\ DOMAIN w.gpus = 1..n
    BY <2>1
  <2> HIDE DEF order
  <2>4. l \in Nat /\ DOMAIN order = 1..l
    BY <1>3
  <2>. QED
    BY <1>3, <2>1, <2>2, <2>3, <2>4
<1>5. /\ w'.order = order /\ w'.gpus = gpus /\ w'.any = any /\ w'.sig = sig
      /\ w'.mixed = mixed /\ w'.total = total /\ w'.dom = w.dom
  <2> HIDE DEF order, gpus, any, sig, mixed, total
  <2>. QED
    BY <1>1, <1>2 DEF Windows
<1>6. seen'.polls = polls /\ seen'.labels = seen.labels
      /\ seen' \in [polls : SUBSET SUBSET Gpus, labels : [Domains -> SUBSET Sources]]
  <2> HIDE DEF counted
  <2>. QED
    BY <1>1, <1>2
<1> HIDE DEF order, n, l
<1>7. \A i \in 1..l : reads(i) => poll[order[i]] \in Int
  BY WindowAssumption
<1>8. Sampler!EmptyAcc \in Accs /\ Sampler!EmptyAcc.n = 0
  BY <1>4 DEF Accs, Sampler!EmptyAcc, Sampler!ValidStats
<1>9. \A i \in 1..l : had(i) \in Accs
  BY <1>4, <1>8 DEF n
<1>10. \A i \in 1..l :
         /\ gpus[i] \in Accs
         /\ gpus[i].n = IF reads(i) /\ had(i).n < Expected THEN had(i).n + 1 ELSE had(i).n
         /\ gpus[i].n \in 0..Expected /\ had(i).n \in 0..Expected
  <2> SUFFICES ASSUME NEW i \in 1..l
               PROVE  /\ gpus[i] \in Accs
                      /\ gpus[i].n = IF reads(i) /\ had(i).n < Expected THEN had(i).n + 1
                                                                       ELSE had(i).n
                      /\ gpus[i].n \in 0..Expected /\ had(i).n \in 0..Expected
    OBVIOUS
  <2>1. gpus[i] = IF reads(i) THEN Sampler!Add(had(i), poll[order[i]]) ELSE had(i)
    BY <1>4
  <2>2. had(i) \in Accs
    BY <1>9
  <2>3. reads(i) => poll[order[i]] \in Int
    BY <1>7
  <2> HIDE DEF gpus, had, reads
  <2>4. had(i).n \in 0..Expected
    BY <2>2 DEF Accs, Sampler!ValidStats
  <2>5. CASE reads(i)
    <3>1. /\ gpus[i] \in Accs
          /\ gpus[i].n = IF had(i).n >= Expected THEN had(i).n ELSE had(i).n + 1
      BY <2>1, <2>2, <2>3, <2>5, AddIsValid
    <3>. QED
      BY <1>4, <2>4, <2>5, <3>1
  <2>6. CASE ~reads(i)
    BY <2>1, <2>2, <2>4, <2>6
  <2>. QED
    BY <2>5, <2>6
<1>11. gpus \in Seq(Accs) /\ Len(gpus) = l
  <2>1. DOMAIN gpus = 1..l
    BY <1>4
  <2>2. \A i \in 1..l : gpus[i] \in Accs
    BY <1>10
  <2>3. gpus = [i \in 1..l |-> gpus[i]]
    BY <1>4
  <2> HIDE DEF gpus
  <2>4. gpus \in [1..l -> Accs]
    BY <2>2, <2>3
  <2>. QED
    BY <1>4, <2>4
<1>12. counted => /\ Sampler!SumOf(poll) \in Int
                  /\ total.n = w.total.n + 1 /\ total \in Accs
  <2>1. SUFFICES ASSUME counted PROVE /\ Sampler!SumOf(poll) \in Int
                                      /\ total.n = w.total.n + 1 /\ total \in Accs
    OBVIOUS
  <2>2. poll \in [ids -> Int]
    BY <2>1, WindowAssumption
  <2>3. Sampler!SumOf(poll) \in Int
    BY <2>2, SumOfType
  <2>4. w.total.n < Expected /\ w.total.n \in Nat
    BY <1>4, <2>1 DEF Accs
  <2>5. total = Sampler!Add(w.total, Sampler!SumOf(poll))
    BY <2>1
  <2>6. /\ Sampler!Add(w.total, Sampler!SumOf(poll)) \in Accs
        /\ Sampler!Add(w.total, Sampler!SumOf(poll)).n
              = IF w.total.n >= Expected THEN w.total.n ELSE w.total.n + 1
    BY <1>4, <2>3, AddIsValid
  <2> HIDE DEF total
  <2>. QED
    BY <1>4, <2>3, <2>4, <2>5, <2>6
<1>13. total \in Accs /\ w.total.n \in Nat /\ total.n \in Nat
       /\ (~counted => total = w.total)
  BY <1>4, <1>12 DEF Accs
<1>14. w' \in Windows
  <2>1. order \in Seq(Gpus) /\ gpus \in Seq(Accs) /\ total \in Accs
        /\ sig \in SUBSET Gpus /\ mixed \in BOOLEAN /\ any \in BOOLEAN
    BY <1>2, <1>3, <1>11, <1>13 DEF Windows
  <2> HIDE DEF gpus, any, sig, mixed, total
  <2>. QED
    BY <1>1, <1>2, <2>1 DEF Windows
<1>15. OrderOK'
  BY <1>3, <1>4, <1>5, <1>11 DEF OrderOK, l
<1>16. DomainOK'
  BY <1>2, <1>5, <1>6 DEF DomainOK
<1>17. counted => /\ complete /\ \A g \in ids : \E i \in 1..l : order[i] = g
                  /\ \A i \in 1..l : order[i] \in ids => reads(i)
  BY <1>4
<1>18. TotalOK'
  <2>1. total.n = 0 => polls = {}
    <3>1. counted => total.n # 0
      BY <1>4, <1>12, <1>13
    <3> HIDE DEF counted, total
    <3>. QED
      BY <1>2, <1>13, <3>1 DEF TotalOK
  <2>2. total.n > 0 => sig # {}
    <3>1. w.sig # {} => sig # {}
      BY <1>0
    <3>2. complete => sig # {}
      BY <1>0
    <3> HIDE DEF counted, total, sig
    <3>. QED
      BY <1>2, <1>13, <1>17, <3>1, <3>2 DEF TotalOK
  <2>3. ASSUME total.n > 0, ~mixed
        PROVE  /\ polls = {sig}
               /\ \A g \in sig : \E i \in 1..l : order[i] = g
               /\ \A i \in 1..l : order[i] \in sig => total.n <= gpus[i].n
    <3>1. ~w.mixed /\ (complete => w.sig = {} \/ w.sig = ids)
      BY <2>3
    <3>2. w.total.n > 0 => /\ w.sig # {} /\ sig = w.sig /\ seen.polls = {sig}
                           /\ \A g \in sig : \E i \in 1..n : w.order[i] = g
                           /\ \A i \in 1..n : w.order[i] \in sig => w.total.n <= w.gpus[i].n
      BY <1>2, <1>4, <3>1 DEF TotalOK
    <3>3. w.total.n > 0 => \A i \in n + 1..l : order[i] \notin sig
      BY <1>3, <3>2
    <3>4. \A i \in 1..l : i \in 1..n \/ i \in n + 1..l
      BY <1>4
    <3>5. w.total.n > 0 => \A i \in 1..l : order[i] \in sig =>
                             /\ i \in 1..n /\ had(i) = w.gpus[i] /\ w.total.n <= had(i).n
      <4>1. \A i \in 1..n : had(i) = w.gpus[i]
        BY <1>4 DEF n
      <4> HIDE DEF had, sig
      <4>. QED
        BY <1>3, <3>2, <3>3, <3>4, <4>1
    <3>6. CASE counted
      <4>1. sig = ids /\ total.n = w.total.n + 1
        BY <1>12, <1>17, <3>1, <3>6
      <4>2. polls = {sig}
        <5>1. w.total.n = 0 => seen.polls = {}
          BY <1>2 DEF TotalOK
        <5>2. polls = seen.polls \cup {ids}
          BY <3>6
        <5> HIDE DEF polls, sig, counted, total
        <5>. QED
          BY <1>13, <3>2, <4>1, <5>1, <5>2
      <4>3. ASSUME NEW i \in 1..l, order[i] \in sig PROVE total.n <= gpus[i].n
        <5>1. reads(i)
          BY <1>17, <3>6, <4>1, <4>3
        <5>2. w.total.n <= had(i).n
          <6>1. had(i).n \in 0..Expected
            BY <1>10
          <6> HIDE DEF had, sig, counted, total
          <6>2. w.total.n = 0 => w.total.n <= had(i).n
            BY <1>4, <6>1
          <6>. QED
            BY <1>13, <3>5, <4>3, <6>2
        <5>3. w.total.n < Expected
          BY <3>6
        <5>4. /\ gpus[i].n = IF reads(i) /\ had(i).n < Expected THEN had(i).n + 1 ELSE had(i).n
              /\ had(i).n \in 0..Expected
          BY <1>10
        <5> HIDE DEF gpus, had, reads, total, counted, sig
        <5>. QED
          BY <1>4, <1>13, <4>1, <5>1, <5>2, <5>3, <5>4
      <4>4. \A g \in sig : \E i \in 1..l : order[i] = g
        BY <1>17, <3>6, <4>1
      <4>. QED
        BY <4>2, <4>3, <4>4
    <3>7. CASE ~counted
      <4>1. total = w.total /\ polls = seen.polls
        BY <3>7
      <4> HIDE DEF counted, polls, total
      <4>2. w.total.n > 0
        BY <2>3, <4>1
      <4>3. ASSUME NEW i \in 1..l, order[i] \in sig PROVE total.n <= gpus[i].n
        <5>1. w.total.n <= had(i).n
          BY <3>5, <4>2, <4>3
        <5>2. /\ gpus[i].n = IF reads(i) /\ had(i).n < Expected THEN had(i).n + 1 ELSE had(i).n
              /\ had(i).n \in 0..Expected
          BY <1>10
        <5> HIDE DEF gpus, had, reads
        <5>. QED
          BY <1>4, <1>13, <4>1, <5>1, <5>2
      <4>4. \A g \in sig : \E i \in 1..l : order[i] = g
        <5>1. \A i \in 1..n : i \in 1..l
          BY <1>4
        <5> HIDE DEF sig
        <5>. QED
          BY <1>3, <3>2, <4>2, <5>1
      <4>. QED
        BY <3>2, <4>1, <4>2, <4>3, <4>4
    <3>. QED
      BY <3>6, <3>7
  <2> HIDE DEF total, sig, mixed, polls, gpus, counted
  <2>. QED
    BY <1>4, <1>5, <1>6, <2>1, <2>2, <2>3 DEF TotalOK
<1>. QED
  BY <1>1, <1>2, <1>6, <1>14, <1>15, <1>16, <1>18
     DEF WindowInv, WindowType, Windows, Sampler!EmittedIsAccepted, Sampler!NothingBlended

(***************************************************************************)
(* A scalar sample (addDomainAt).                                          *)
(***************************************************************************)
LEMMA AddDomainStep ==
  ASSUME WindowInv, NEW d \in Domains, NEW source \in Sources, NEW x \in Watts,
         Sampler!AddDomain(d, source, x)
  PROVE  WindowInv'
<1> DEFINE a == w.dom[d]
           u == Sampler!Add(a.acc, x)
           v == IF a.source = Sampler!Nothing THEN source ELSE a.source
           z == a.mixed \/ a.source \notin {Sampler!Nothing, source}
           b == [a EXCEPT !.acc = u, !.source = v, !.mixed = z]
<1>1. w \in Windows /\ seen.labels \in [Domains -> SUBSET Sources]
      /\ seen \in [polls : SUBSET SUBSET Gpus, labels : [Domains -> SUBSET Sources]]
  BY DEF WindowInv, WindowType
<1>2. w.dom \in [Domains -> DomainAccs] /\ a \in DomainAccs
  BY <1>1 DEF Windows
<1>3. w' = [w EXCEPT !.dom = [@ EXCEPT ![d] = b], !.any = TRUE]
  <2>1. w' = [w EXCEPT !.dom[d].acc = Sampler!Add(@, x),
                       !.dom[d].source = IF @ = Sampler!Nothing THEN source ELSE @,
                       !.dom[d].mixed = @ \/ w.dom[d].source \notin {Sampler!Nothing, source},
                       !.any = TRUE]
    BY DEF Sampler!AddDomain
  <2>2. w' = [w EXCEPT !.dom[d].acc = u, !.dom[d].source = v, !.dom[d].mixed = z,
                       !.any = TRUE]
    BY <1>1, <1>2, <2>1 DEF Windows
  <2> HIDE DEF u, v, z
  <2>. QED
    BY <1>1, <1>2, <2>2 DEF Windows
<1>4. /\ seen' = [seen EXCEPT !.labels[d] = @ \cup {source}]
      /\ UNCHANGED <<bucket, about>>
  BY DEF Sampler!AddDomain
<1>5. b \in DomainAccs /\ (source # Sampler!Nothing) /\ b.source # Sampler!Nothing
  <2>1. x \in Int /\ Sampler!Nothing \notin Sources
    BY WindowAssumption DEF Sampler!Nothing
  <2>2. Sampler!Add(a.acc, x) \in Accs
    BY <1>2, <2>1, AddIsValid DEF DomainAccs
  <2>3. u \in Accs /\ v \in Sources /\ z \in BOOLEAN
    BY <1>2, <2>1, <2>2 DEF DomainAccs
  <2>4. source # Sampler!Nothing /\ v # Sampler!Nothing
    BY <2>1, <2>3
  <2> HIDE DEF u, v, z
  <2>. QED
    BY <1>2, <2>3, <2>4 DEF DomainAccs
<1>11. b.source = v /\ b.mixed = z
  BY <1>2 DEF DomainAccs
<1> HIDE DEF b
<1>6. w' \in Windows
  <2>1. [w.dom EXCEPT ![d] = b] \in [Domains -> DomainAccs]
    BY <1>2, <1>5
  <2>. QED
    BY <1>1, <1>3, <2>1 DEF Windows
<1>7. /\ w'.order = w.order /\ w'.gpus = w.gpus /\ w'.total = w.total /\ w'.sig = w.sig
      /\ w'.mixed = w.mixed /\ w'.dom = [w.dom EXCEPT ![d] = b]
  BY <1>1, <1>3 DEF Windows
<1>8. /\ seen'.polls = seen.polls
      /\ seen'.labels = [seen.labels EXCEPT ![d] = @ \cup {source}]
      /\ seen' \in [polls : SUBSET SUBSET Gpus, labels : [Domains -> SUBSET Sources]]
  BY <1>1, <1>4
<1>9. OrderOK' /\ TotalOK'
  BY <1>7, <1>8 DEF WindowInv, OrderOK, TotalOK
<1>10. DomainOK'
  <2>1. \A e \in Domains \ {d} : w'.dom[e] = w.dom[e] /\ seen'.labels[e] = seen.labels[e]
    BY <1>1, <1>2, <1>7, <1>8
  <2>2. w'.dom[d] = b /\ seen'.labels[d] = seen.labels[d] \cup {source}
    BY <1>1, <1>2, <1>7, <1>8
  <2>3. ~b.mixed => seen.labels[d] \cup {source} = {b.source}
    <3>1. /\ a.source = Sampler!Nothing => seen.labels[d] = {}
          /\ a.source # Sampler!Nothing /\ ~a.mixed => seen.labels[d] = {a.source}
      BY DEF WindowInv, DomainOK
    <3>2. /\ b.source = IF a.source = Sampler!Nothing THEN source ELSE a.source
          /\ b.mixed = (a.mixed \/ a.source \notin {Sampler!Nothing, source})
      BY <1>11
    <3> HIDE DEF a
    <3>. QED
      BY <3>1, <3>2
  <2>. QED
    BY <1>5, <2>1, <2>2, <2>3 DEF WindowInv, DomainOK
<1>. QED
  BY <1>4, <1>6, <1>8, <1>9, <1>10
     DEF WindowInv, WindowType, Sampler!EmittedIsAccepted, Sampler!NothingBlended

(***************************************************************************)
(* What a window becomes is what the hub accepts (emit against             *)
(* validatePowerBatch).                                                    *)
(***************************************************************************)
LEMMA EmittedIsValid ==
  ASSUME WindowInv
  PROVE  /\ Sampler!ValidBucket(Sampler!Emitted)
         /\ Sampler!Emitted.total # Sampler!Nothing =>
              seen.polls = {Sampler!ToSet(Sampler!Emitted.ids)}
         /\ \A d \in Domains : Sampler!Emitted.dom[d] # Sampler!Nothing =>
              seen.labels[d] = {Sampler!Emitted.dom[d].source}
<1> DEFINE b == Sampler!Emitted
           n == Len(w.order)
           K == {w.order[i] : i \in 1..n}
<1>1. /\ w \in Windows /\ OrderOK /\ TotalOK /\ DomainOK
      /\ w.order \in Seq(Gpus) /\ w.gpus \in Seq(Accs) /\ w.total \in Accs
      /\ w.dom \in [Domains -> DomainAccs] /\ w.sig \in SUBSET Gpus
  BY DEF WindowInv, WindowType, Windows
<1>2. n \in Nat /\ DOMAIN w.order = 1..n /\ DOMAIN w.gpus = 1..n
  BY <1>1 DEF OrderOK
<1>3. /\ b.ids = w.order /\ b.gpus = w.gpus
      /\ b.total = IF Sampler!TotalEmitted THEN w.total ELSE Sampler!Nothing
      /\ b.dom = [d \in Domains |-> IF Sampler!DomainEmitted(d)
                    THEN [acc |-> w.dom[d].acc, source |-> w.dom[d].source]
                    ELSE Sampler!Nothing]
  BY DEF Sampler!Emitted
<1> HIDE DEF b
<1>4. Sampler!TotalEmitted => w.total.n > 0 /\ ~w.mixed /\ w.sig = K /\ w.sig # {}
  <2> SUFFICES ASSUME Sampler!TotalEmitted
               PROVE  w.total.n > 0 /\ ~w.mixed /\ w.sig = K /\ w.sig # {}
    OBVIOUS
  <2>1. w.total.n > 0 /\ ~w.mixed /\ n = Cardinality(w.sig)
    BY DEF Sampler!TotalEmitted, Sampler!Cardinality, Cardinality
  <2>2. w.sig \subseteq K /\ w.sig # {}
    BY <1>1, <1>2, <2>1 DEF TotalOK
  <2>3. w.order \in Bijection(1..n, K)
    <3>1. w.order \in [1..n -> K]
      BY <1>1, <1>2
    <3>2. \A i, k \in 1..n : w.order[i] = w.order[k] => i = k
      BY <1>1, <1>2 DEF OrderOK
    <3>3. \A g \in K : \E i \in 1..n : w.order[i] = g
      OBVIOUS
    <3>. QED
      BY <3>1, <3>2, <3>3 DEF Bijection, Injection, Surjection, IsInjective
  <2>4. IsFiniteSet(K) /\ Cardinality(K) = n
    <3>1. IsFiniteSet(1..n) /\ Cardinality(1..n) = n
      BY <1>2, FS_Interval
    <3>2. ExistsBijection(1..n, K)
      BY <2>3 DEF ExistsBijection
    <3>. QED
      BY <3>1, <3>2, FS_Bijection
  <2>5. w.sig = K
    BY <2>1, <2>2, <2>4, FS_Subset
  <2>. QED
    BY <2>1, <2>2, <2>5
<1>5. Sampler!TotalEmitted => \A i \in 1..n : w.total.n <= w.gpus[i].n
  BY <1>1, <1>2, <1>4 DEF TotalOK
<1> HIDE DEF K
<1>6. b.total # Sampler!Nothing => Sampler!TotalEmitted /\ b.total = w.total
  BY <1>3
<1>7. Sampler!ToSet(b.ids) = K
  BY <1>2, <1>3 DEF Sampler!ToSet, K
<1>8. b.total # Sampler!Nothing => seen.polls = {Sampler!ToSet(b.ids)}
  BY <1>1, <1>4, <1>6, <1>7 DEF TotalOK
<1>9. \A d \in Domains : b.dom[d] # Sampler!Nothing =>
        /\ w.dom[d].acc.n > 0 /\ ~w.dom[d].mixed /\ w.dom[d].acc \in Accs
        /\ b.dom[d].acc = w.dom[d].acc /\ b.dom[d].source = w.dom[d].source
  BY <1>1, <1>3 DEF Sampler!DomainEmitted, DomainAccs
<1>10. \A d \in Domains : b.dom[d] # Sampler!Nothing => seen.labels[d] = {b.dom[d].source}
  BY <1>1, <1>9 DEF DomainOK
<1>11. Sampler!ValidBucket(b)
  <2>1. Len(b.ids) <= MaxSensors
        /\ \A i, k \in DOMAIN b.ids : i # k => b.ids[i] # b.ids[k]
    BY <1>1, <1>3 DEF OrderOK
  <2>2. \A i \in DOMAIN b.gpus : Sampler!ValidStats(b.gpus[i])
    <3>1. \A i \in DOMAIN w.gpus : w.gpus[i] \in Accs
      BY <1>1
    <3>. QED
      BY <1>3, <3>1 DEF Accs
  <2>3. ASSUME b.total # Sampler!Nothing
        PROVE  /\ Sampler!ValidStats(b.total)
               /\ b.gpus # << >> /\ \A i \in DOMAIN b.gpus : b.total.n <= b.gpus[i].n
    <3>1. Sampler!ValidStats(b.total)
      BY <1>1, <1>6, <2>3 DEF Accs
    <3>2. n # 0
      BY <1>2, <1>4, <1>6, <2>3 DEF K
    <3>3. w.gpus # << >>
      BY <1>1, <1>2, <3>2 DEF OrderOK
    <3>4. \A i \in DOMAIN b.gpus : b.total.n <= b.gpus[i].n
      BY <1>2, <1>3, <1>5, <1>6, <2>3
    <3>. QED
      BY <1>3, <3>1, <3>3, <3>4
  <2>4. \A d \in Domains : b.dom[d] # Sampler!Nothing => Sampler!ValidStats(b.dom[d].acc)
    BY <1>9 DEF Accs
  <2>. QED
    BY <2>1, <2>2, <2>3, <2>4 DEF Sampler!ValidBucket
<1>. QED
  BY <1>8, <1>10, <1>11 DEF b

(***************************************************************************)
(* A window that was never used.                                           *)
(***************************************************************************)
LEMMA NewWindowIs ==
  w = Sampler!NewWindow /\ seen = Sampler!NothingSeen
    => WindowType /\ OrderOK /\ TotalOK /\ DomainOK
<1>. SUFFICES ASSUME w = Sampler!NewWindow, seen = Sampler!NothingSeen
              PROVE  WindowType /\ OrderOK /\ TotalOK /\ DomainOK
  OBVIOUS
<1>1. Sampler!EmptyAcc \in Accs /\ MaxSensors \in Nat
  BY WindowAssumption DEF Accs, Sampler!EmptyAcc, Sampler!ValidStats
<1>2. /\ w.order = << >> /\ w.gpus = << >> /\ w.total = Sampler!EmptyAcc
      /\ w.dom = [d \in Domains |-> [acc |-> Sampler!EmptyAcc, source |-> Sampler!Nothing,
                                     mixed |-> FALSE]]
      /\ seen.polls = {} /\ seen.labels = [d \in Domains |-> {}]
  BY DEF Sampler!NewWindow, Sampler!NothingSeen
<1>3. w \in Windows
  <2>1. w.dom \in [Domains -> DomainAccs]
    BY <1>1, <1>2 DEF DomainAccs
  <2>2. << >> \in Seq(Gpus) /\ << >> \in Seq(Accs)
    OBVIOUS
  <2>. QED
    BY <1>1, <1>2, <2>1, <2>2 DEF Windows, Sampler!NewWindow
<1>4. seen \in [polls : SUBSET SUBSET Gpus, labels : [Domains -> SUBSET Sources]]
  BY DEF Sampler!NothingSeen
<1>5. OrderOK
  BY <1>1, <1>2 DEF OrderOK
<1>6. TotalOK /\ DomainOK
  BY <1>2 DEF TotalOK, DomainOK, Sampler!EmptyAcc
<1>. QED
  BY <1>3, <1>4, <1>5, <1>6 DEF WindowType

(***************************************************************************)
(* The end of a window (roll).                                             *)
(***************************************************************************)
LEMMA CloseStep == ASSUME WindowInv, Sampler!Close PROVE WindowInv'
<1>1. /\ w' = Sampler!NewWindow /\ seen' = Sampler!NothingSeen /\ about' = seen
      /\ bucket' \in {Sampler!Emitted, Sampler!Nothing}
  BY DEF Sampler!Close
<1>2. WindowType' /\ OrderOK' /\ TotalOK' /\ DomainOK'
  <2>1. (w = Sampler!NewWindow /\ seen = Sampler!NothingSeen
           => WindowType /\ OrderOK /\ TotalOK /\ DomainOK)'
    BY NewWindowIs, PTL
  <2>. QED
    BY <1>1, <2>1
<1>3. Sampler!EmittedIsAccepted' /\ Sampler!NothingBlended'
  BY <1>1, EmittedIsValid DEF Sampler!EmittedIsAccepted, Sampler!NothingBlended
<1>. QED
  BY <1>2, <1>3 DEF WindowInv

(***************************************************************************)
(* Every window an agent closes is one the hub accepts, with a total that  *)
(* sums exactly the sensors beside it and domains of one label, for any    *)
(* sensors, backends and readings.                                         *)
(***************************************************************************)
THEOREM WindowsAreAccepted == Sampler!Spec => []WindowsAreSound
<1>1. Sampler!Init => WindowInv
  BY NewWindowIs DEF Sampler!Init, WindowInv, Sampler!EmittedIsAccepted, Sampler!NothingBlended
<1>2. WindowInv /\ [Sampler!Next]_(Sampler!vars) => WindowInv'
  <2> SUFFICES ASSUME WindowInv, [Sampler!Next]_(Sampler!vars) PROVE WindowInv'
    OBVIOUS
  <2>1. CASE UNCHANGED Sampler!vars
    BY <2>1 DEF Sampler!vars, WindowInv, WindowType, OrderOK, TotalOK, DomainOK,
                Sampler!EmittedIsAccepted, Sampler!NothingBlended
  <2>2. CASE Sampler!Sample
    BY <2>2, AddGPUStep, AddDomainStep DEF Sampler!Sample
  <2>3. CASE Sampler!Close
    BY <2>3, CloseStep
  <2>. QED
    BY <2>1, <2>2, <2>3 DEF Sampler!Next
<1>3. WindowInv => WindowsAreSound
  BY DEF WindowInv, WindowsAreSound
<1>. QED
  BY <1>1, <1>2, <1>3, PTL DEF Sampler!Spec

-----------------------------------------------------------------------------
(***************************************************************************)
(* Charts and current readings: what a request has read of the table.      *)
(***************************************************************************)

InChart == {r \in store : Chart!InPeriod(r)}
Usable(rows) == {r \in rows : r.payload # Chart!Corrupt}
Unfolded == InChart \ cursor   \* the rows the cursor has yielded

ChartType ==
  /\ store \in SUBSET StoredWindows /\ IsFiniteSet(store)
  /\ cap \in Nat /\ pendingIndex \in Int /\ oldestBin \in Int
  /\ before \subseteq store
  /\ newest \in [Charted -> store \cup {Chart!NoRow}]
  /\ folded \subseteq Usable(InChart)

(* While the cursor runs: every usable row it yielded is folded, except     *)
(* those of the newest bin it may still be inside, which are pending under  *)
(* a cap; what it has yet to yield is not newer.                            *)
ReadOK ==
  /\ cursor \subseteq InChart /\ ~truncated /\ oldestBin = 0
  /\ raw = Cardinality(Unfolded)
  /\ cap = 0 => pending = {} /\ folded = Usable(Unfolded)
  /\ cap > 0 =>
       /\ raw <= cap
       /\ folded = {r \in Usable(Unfolded) : Chart!Bin(r) # pendingIndex}
       /\ pending = {r \in Usable(Unfolded) : Chart!Bin(r) = pendingIndex}
       /\ \A r \in Unfolded : Chart!Bin(r) >= pendingIndex
       /\ Unfolded # {} => \A r \in cursor : Chart!Bin(r) <= pendingIndex

(* Whoever was asked about has its latest row, of those stored at first.    *)
LatestOK ==
  \A m \in Charted \ todo : \A r \in before :
    r.machine = m => /\ newest[m] # Chart!NoRow
                     /\ r = newest[m] \/ Chart!Newer(newest[m], r)

ChartInv ==
  /\ ChartType
  /\ req = "history" /\ reading = "reading" => ReadOK
  /\ Chart!WholeBinsOnly
  /\ LatestOK

(***************************************************************************)
(* Bins of the chart: a window belongs where it ended, and a newer window  *)
(* in no earlier bin.                                                      *)
(***************************************************************************)
LEMMA BinFacts ==
  /\ \A r \in StoredWindows :
       /\ Chart!Bin(r) \in Int
       /\ Chart!InPeriod(r) => Chart!Bin(r) \in 0..Bins - 1
       /\ r.end - 1 \in Chart!Bin(r) * Width..(Chart!Bin(r) + 1) * Width - 1
  /\ \A r, s \in StoredWindows : Chart!Newer(r, s) => Chart!Bin(s) <= Chart!Bin(r)
<1> DEFINE Div(a) == a \div Width
<1>1. Width \in Nat \ {0} /\ Bins \in Nat
  BY ChartAssumption
<1>2. ASSUME NEW a \in Int
      PROVE  /\ a \div Width \in Int
             /\ (a \div Width) * Width <= a /\ a < (a \div Width) * Width + Width
  BY <1>1
<1>3. ASSUME NEW a \in Int, NEW b \in Int, a <= b PROVE a \div Width <= b \div Width
  BY <1>1, <1>3
<1>4. ASSUME NEW r \in StoredWindows
      PROVE  /\ Chart!Bin(r) \in Int
             /\ Chart!InPeriod(r) => Chart!Bin(r) \in 0..Bins - 1
             /\ r.end - 1 \in Chart!Bin(r) * Width..(Chart!Bin(r) + 1) * Width - 1
  <2> DEFINE e == r.end
             q == (e - 1) \div Width
  <2>1. e \in Int /\ e - 1 \in Int /\ Chart!Bin(r) = q
    BY DEF StoredWindows, Chart!Bin
  <2>2. q \in Int /\ q * Width <= e - 1 /\ e - 1 < q * Width + Width
    BY <1>2, <2>1
  <2>3. Chart!InPeriod(r) <=> e > 0 /\ e <= Bins * Width
    BY DEF Chart!InPeriod
  <2> HIDE DEF q, e
  <2>4. (q + 1) * Width = q * Width + Width /\ q * Width \in Int
    BY <1>1, <2>2
  <2>5. e - 1 \in q * Width..(q + 1) * Width - 1
    BY <1>1, <2>1, <2>2, <2>4
  <2>6. ASSUME e > 0, e <= Bins * Width PROVE q \in 0..Bins - 1
    <3>1. q >= 0
      <4> SUFFICES ASSUME q <= -1 PROVE FALSE
        BY <2>2
      <4>1. (q + 1) * Width <= 0
        BY <1>1, <2>2
      <4>. QED
        BY <1>1, <2>1, <2>2, <2>4, <2>6, <4>1
    <3>2. q < Bins
      <4> SUFFICES ASSUME q >= Bins PROVE FALSE
        BY <1>1, <2>2
      <4>1. q * Width >= Bins * Width
        BY <1>1, <2>2
      <4>. QED
        BY <1>1, <2>1, <2>2, <2>6, <4>1
    <3>. QED
      BY <1>1, <2>2, <3>1, <3>2
  <2>. QED
    BY <2>1, <2>2, <2>3, <2>5, <2>6 DEF e
<1>5. ASSUME NEW r \in StoredWindows, NEW s \in StoredWindows, Chart!Newer(r, s)
      PROVE  Chart!Bin(s) <= Chart!Bin(r)
  <2>1. r.end \in Int /\ s.end \in Int /\ s.end <= r.end
    BY <1>5 DEF StoredWindows, Chart!Newer
  <2>. QED
    BY <1>3, <2>1 DEF Chart!Bin
<1>. QED
  BY <1>4, <1>5

(***************************************************************************)
(* Charts count as this module does.                                       *)
(***************************************************************************)
LEMMA ChartCounts == ASSUME NEW S PROVE Chart!Cardinality(S) = Cardinality(S)
BY DEF Chart!Cardinality, Cardinality

(***************************************************************************)
(* A row the cursor yields is one more of the chart's than it yielded.    *)
(***************************************************************************)
LEMMA Yielded ==
  ASSUME ChartType, ReadOK, NEW rec \in cursor
  PROVE  /\ rec \in InChart /\ rec \in StoredWindows /\ rec \notin Unfolded
         /\ IsFiniteSet(InChart) /\ IsFiniteSet(Unfolded \cup {rec})
         /\ raw \in Nat /\ Cardinality(Unfolded \cup {rec}) = raw + 1
         /\ raw + 1 <= Cardinality(InChart) /\ Cardinality(InChart) \in Nat
         /\ InChart \ (cursor \ {rec}) = Unfolded \cup {rec}
<1>1. rec \in InChart /\ rec \in StoredWindows /\ rec \notin Unfolded
  BY DEF ChartType, ReadOK, InChart, Unfolded
<1>2. IsFiniteSet(InChart)
  BY FS_Subset DEF ChartType, InChart
<1>3. Unfolded \in SUBSET InChart /\ Unfolded \cup {rec} \in SUBSET InChart
  BY <1>1 DEF Unfolded
<1>4. IsFiniteSet(Unfolded)
  BY <1>2, <1>3, FS_Subset
<1>5. raw \in Nat /\ IsFiniteSet(Unfolded \cup {rec}) /\ Cardinality(Unfolded \cup {rec}) = raw + 1
  BY <1>1, <1>4, FS_CardinalityType, FS_AddElement DEF ReadOK
<1>6. Cardinality(Unfolded \cup {rec}) <= Cardinality(InChart)
  BY <1>2, <1>3, FS_Subset
<1>7. Cardinality(InChart) \in Nat
  BY <1>2, FS_CardinalityType
<1>8. InChart \ (cursor \ {rec}) = Unfolded \cup {rec}
  BY <1>1 DEF Unfolded
<1>. QED
  BY <1>1, <1>2, <1>5, <1>6, <1>7, <1>8

(***************************************************************************)
(* The cut withholds the bin it falls into: what is folded is every        *)
(* usable row of the bins the chart then claims.                           *)
(***************************************************************************)
LEMMA CutOffStep ==
  ASSUME ChartInv, req = "history", reading = "reading", NEW rec \in cursor,
         \A s \in cursor : s = rec \/ Chart!Newer(rec, s), Chart!CutOff(rec),
         UNCHANGED <<store, req, cap, Chart!currentVars>>
  PROVE  ChartInv'
<1>1. ChartType /\ ReadOK
  BY DEF ChartInv
<1>2. /\ cap > 0 /\ raw + 1 > cap /\ truncated' = TRUE /\ reading' = "done"
      /\ oldestBin' = IF Chart!Bin(rec) = pendingIndex THEN pendingIndex + 1 ELSE pendingIndex
      /\ folded' = IF Chart!Bin(rec) = pendingIndex THEN folded ELSE folded \cup pending
      /\ pendingIndex' = pendingIndex
  BY DEF Chart!CutOff, Chart!Fold
<1>3. store' = store /\ cap' = cap /\ InChart' = InChart
      /\ UNCHANGED <<before, todo, newest>>
  BY DEF Chart!currentVars, InChart
<1>4. Cardinality(InChart) > cap /\ raw \in Nat /\ Cardinality(InChart) \in Nat
  <2>1. cap \in Nat
    BY <1>1 DEF ChartType
  <2>2. raw \in Nat /\ raw + 1 <= Cardinality(InChart) /\ Cardinality(InChart) \in Nat
    BY <1>1, Yielded
  <2>. QED
    BY <1>2, <2>1, <2>2
<1>5. Unfolded # {}
  <2>1. cap \in Nat /\ raw = Cardinality(Unfolded)
    BY <1>1 DEF ChartType, ReadOK
  <2>2. raw # 0
    BY <1>2, <1>4, <2>1
  <2>3. Cardinality({}) = 0
    BY FS_EmptySet
  <2>. QED
    BY <2>1, <2>2, <2>3
<1>6. \A r \in InChart : Chart!Bin(r) \in Int /\ r \in StoredWindows
  BY <1>1, BinFacts DEF ChartType, InChart
<1>7. pendingIndex \in Int /\ cap \in Nat
  BY <1>1 DEF ChartType
<1>8. InChart = Unfolded \cup cursor
  BY <1>1 DEF ReadOK, Unfolded
<1>9. \A s \in cursor : Chart!Bin(s) <= Chart!Bin(rec) /\ Chart!Bin(s) <= pendingIndex
  <2>1. \A s \in cursor : s \in StoredWindows
    BY <1>6, <1>8
  <2>2. \A s \in cursor : Chart!Bin(s) <= Chart!Bin(rec)
    BY <1>6, <1>8, <2>1, BinFacts
  <2>. QED
    BY <1>1, <1>2, <1>5, <2>2 DEF ReadOK
<1>10. folded' = {r \in Usable(InChart) : Chart!Bin(r) >= oldestBin'}
  <2>1. /\ folded = {r \in Usable(Unfolded) : Chart!Bin(r) # pendingIndex}
        /\ pending = {r \in Usable(Unfolded) : Chart!Bin(r) = pendingIndex}
        /\ \A r \in Unfolded : Chart!Bin(r) >= pendingIndex
    BY <1>1, <1>2 DEF ReadOK
  <2>2. CASE Chart!Bin(rec) = pendingIndex
    <3>1. \A r \in InChart : Chart!Bin(r) >= pendingIndex + 1
                               <=> r \in Unfolded /\ Chart!Bin(r) # pendingIndex
      BY <1>6, <1>7, <1>8, <1>9, <2>1
    <3>2. folded' = folded /\ oldestBin' = pendingIndex + 1
      BY <1>2, <2>2
    <3>. QED
      BY <2>1, <3>1, <3>2, <1>8 DEF Usable
  <2>3. CASE Chart!Bin(rec) # pendingIndex
    <3>1. \A r \in InChart : Chart!Bin(r) >= pendingIndex <=> r \in Unfolded
      <4>1. \A r \in cursor : Chart!Bin(r) < pendingIndex
        BY <1>6, <1>7, <1>8, <1>9, <2>3
      <4>. QED
        BY <1>6, <1>7, <1>8, <2>1, <4>1
    <3>2. folded' = Usable(Unfolded) /\ oldestBin' = pendingIndex
      BY <1>2, <2>1, <2>3
    <3>. QED
      BY <3>1, <3>2, <1>8 DEF Usable
  <2>. QED
    BY <2>2, <2>3
<1>11. Chart!WholeBinsOnly'
  <2>1. {r \in store' : Chart!InPeriod(r)} = InChart
    BY <1>3 DEF InChart
  <2>2. folded' = {r \in store' : /\ Chart!InPeriod(r) /\ r.payload # Chart!Corrupt
                                  /\ Chart!Bin(r) >= oldestBin'}
    BY <1>3, <1>10 DEF InChart, Usable
  <2>. QED
    BY <1>2, <1>3, <1>4, <2>1, <2>2, ChartCounts DEF Chart!WholeBinsOnly
<1>12. ChartType'
  <2>1. folded' \subseteq Usable(InChart)
    BY <1>10
  <2>2. oldestBin' \in Int
    BY <1>2, <1>7
  <2>. QED
    BY <1>1, <1>2, <1>3, <2>1, <2>2 DEF ChartType, Usable
<1>. QED
  BY <1>2, <1>3, <1>11, <1>12 DEF ChartInv, LatestOK

(***************************************************************************)
(* A row within the cap is folded, or pending while its bin may still be   *)
(* cut.                                                                    *)
(***************************************************************************)
LEMMA TakeStep ==
  ASSUME ChartInv, req = "history", reading = "reading", NEW rec \in cursor,
         \A s \in cursor : s = rec \/ Chart!Newer(rec, s), Chart!Take(rec),
         UNCHANGED <<store, req, cap, Chart!currentVars>>
  PROVE  ChartInv'
<1> DEFINE usable == IF rec.payload = Chart!Corrupt THEN {} ELSE {rec}
           opens == cap > 0 /\ Chart!Bin(rec) # pendingIndex
           yielded == Unfolded \cup {rec}
<1>1. ChartType /\ ReadOK
  BY DEF ChartInv
<1>2. /\ cap > 0 => raw + 1 <= cap
      /\ raw' = raw + 1 /\ cursor' = cursor \ {rec}
      /\ pendingIndex' = IF opens THEN Chart!Bin(rec) ELSE pendingIndex
      /\ pending' = CASE cap = 0 -> {} [] opens -> usable [] OTHER -> pending \cup usable
      /\ folded' = folded \cup CASE cap = 0 -> usable [] opens -> pending [] OTHER -> {}
      /\ UNCHANGED <<truncated, oldestBin, reading>>
  BY DEF Chart!Take, Chart!Fold
<1>3. store' = store /\ cap' = cap /\ InChart' = InChart /\ req' = req
      /\ UNCHANGED <<before, todo, newest>>
  BY DEF Chart!currentVars, InChart
<1>4. /\ rec \in InChart /\ rec \in StoredWindows /\ rec \notin Unfolded
      /\ raw \in Nat /\ Cardinality(yielded) = raw + 1
      /\ InChart \ (cursor \ {rec}) = yielded
  BY <1>1, Yielded
<1>5. Unfolded' = yielded
  BY <1>2, <1>3, <1>4 DEF Unfolded
<1>6. \A r \in InChart : Chart!Bin(r) \in Int /\ r \in StoredWindows
  BY <1>1, BinFacts DEF ChartType, InChart
<1>7. pendingIndex \in Int /\ cap \in Nat /\ Chart!Bin(rec) \in Int
  BY <1>1, <1>4, <1>6 DEF ChartType
<1>8. InChart = Unfolded \cup cursor /\ Unfolded \subseteq InChart
  BY <1>1 DEF ReadOK, Unfolded
<1>9. \A s \in cursor : Chart!Bin(s) <= Chart!Bin(rec)
  BY <1>4, <1>6, <1>7, <1>8, BinFacts
<1>10. usable = Usable({rec}) /\ Usable(yielded) = Usable(Unfolded) \cup usable
       /\ usable \subseteq {rec}
  BY DEF Usable
<1> HIDE DEF usable, yielded
<1>16. /\ cursor' \subseteq InChart' /\ ~truncated' /\ oldestBin' = 0
       /\ raw' = Cardinality(Unfolded') /\ cap' = cap
  BY <1>1, <1>2, <1>3, <1>4, <1>5 DEF ReadOK
<1>11. ASSUME cap = 0 PROVE ReadOK'
  <2>1. pending' = {} /\ folded' = Usable(yielded) /\ pendingIndex' = pendingIndex
    BY <1>1, <1>2, <1>7, <1>10, <1>11 DEF ReadOK
  <2>. QED
    BY <1>5, <1>11, <1>16, <2>1 DEF ReadOK
<1>12. ASSUME cap > 0 PROVE ReadOK'
  <2>1. /\ folded = {r \in Usable(Unfolded) : Chart!Bin(r) # pendingIndex}
        /\ pending = {r \in Usable(Unfolded) : Chart!Bin(r) = pendingIndex}
        /\ \A r \in Unfolded : Chart!Bin(r) >= pendingIndex
        /\ Unfolded # {} => \A r \in cursor : Chart!Bin(r) <= pendingIndex
    BY <1>1, <1>12 DEF ReadOK
  <2>2. \A r \in Usable(Unfolded) : r \in Unfolded
    BY DEF Usable
  <2>3. \A r \in cursor' : Chart!Bin(r) <= pendingIndex'
    <3>1. pendingIndex' = Chart!Bin(rec) /\ cursor' \subseteq cursor
      BY <1>2, <1>12
    <3>. QED
      BY <1>9, <3>1
  <2>9. raw' <= cap
    BY <1>2, <1>12
  <2>4. CASE Chart!Bin(rec) = pendingIndex
    <3>1. /\ pendingIndex' = pendingIndex /\ pending' = pending \cup usable
          /\ folded' = folded
      BY <1>2, <1>7, <1>12, <2>4
    <3>2. folded' = {r \in Usable(yielded) : Chart!Bin(r) # pendingIndex'}
      BY <1>10, <2>1, <2>4, <3>1
    <3>3. pending' = {r \in Usable(yielded) : Chart!Bin(r) = pendingIndex'}
      BY <1>10, <2>1, <2>4, <3>1
    <3>4. \A r \in yielded : Chart!Bin(r) >= pendingIndex'
      BY <1>7, <2>1, <2>4, <3>1 DEF yielded
    <3>. QED
      BY <1>5, <1>12, <1>16, <2>3, <2>9, <3>2, <3>3, <3>4 DEF ReadOK
  <2>5. CASE Chart!Bin(rec) # pendingIndex
    <3>1. /\ pendingIndex' = Chart!Bin(rec) /\ pending' = usable
          /\ folded' = folded \cup pending
      BY <1>2, <1>7, <1>12, <2>5
    <3>2. \A r \in Unfolded : Chart!Bin(r) >= Chart!Bin(rec) /\ Chart!Bin(r) # Chart!Bin(rec)
      BY <1>4, <1>6, <1>7, <1>8, <2>1, <2>5
    <3>3. folded' = Usable(Unfolded)
      BY <2>1, <3>1
    <3>4. folded' = {r \in Usable(yielded) : Chart!Bin(r) # pendingIndex'}
      BY <1>10, <2>2, <3>1, <3>2, <3>3
    <3>5. pending' = {r \in Usable(yielded) : Chart!Bin(r) = pendingIndex'}
      BY <1>10, <2>2, <3>1, <3>2
    <3>6. \A r \in yielded : Chart!Bin(r) >= pendingIndex'
      BY <1>7, <3>1, <3>2 DEF yielded
    <3>. QED
      BY <1>5, <1>12, <1>16, <2>3, <2>9, <3>4, <3>5, <3>6 DEF ReadOK
  <2>. QED
    BY <2>4, <2>5
<1>13. ReadOK'
  BY <1>7, <1>11, <1>12
<1>14. ChartType'
  <2>1. folded' \subseteq Usable(InChart)
    BY <1>1, <1>2, <1>4, <1>8, <1>10 DEF ReadOK, ChartType, Usable
  <2>2. pendingIndex' \in Int
    BY <1>2, <1>7
  <2>. QED
    BY <1>1, <1>2, <1>3, <2>1, <2>2 DEF ChartType, Usable
<1>15. Chart!WholeBinsOnly'
  BY <1>2 DEF Chart!WholeBinsOnly
<1>. QED
  BY <1>1, <1>2, <1>3, <1>13, <1>14, <1>15 DEF ChartInv, LatestOK

(***************************************************************************)
(* At its end the cursor has yielded the whole period, within the cap.     *)
(***************************************************************************)
LEMMA EndOfRowsStep ==
  ASSUME ChartInv, Chart!EndOfRows
  PROVE  ChartInv'
<1>1. ChartType /\ ReadOK
  BY DEF ChartInv, Chart!EndOfRows
<1>2. /\ cursor = {} /\ req = "history" /\ folded' = folded \cup pending /\ reading' = "done"
      /\ UNCHANGED <<store, req, cap, truncated, oldestBin, before, todo, newest, pendingIndex>>
  BY DEF Chart!EndOfRows, Chart!Fold, Chart!currentVars
<1>3. Unfolded = InChart
  BY <1>2 DEF Unfolded
<1>4. \A r \in InChart : Chart!Bin(r) \in Int /\ r \in StoredWindows /\ Chart!Bin(r) >= 0
  <2>1. \A r \in InChart : r \in StoredWindows /\ Chart!InPeriod(r)
    BY <1>1 DEF ChartType, InChart
  <2>. QED
    BY <2>1, BinFacts
<1>5. cap \in Nat /\ ~truncated /\ oldestBin = 0
  BY <1>1 DEF ChartType, ReadOK
<1>6. folded' = Usable(InChart)
  <2>1. CASE cap = 0
    BY <1>1, <1>2, <1>3, <2>1 DEF ReadOK
  <2>2. CASE cap > 0
    <3>1. /\ folded = {r \in Usable(InChart) : Chart!Bin(r) # pendingIndex}
          /\ pending = {r \in Usable(InChart) : Chart!Bin(r) = pendingIndex}
      BY <1>1, <1>3, <2>2 DEF ReadOK
    <3>. QED
      BY <1>2, <3>1
  <2>. QED
    BY <1>5, <2>1, <2>2
<1>7. ~(cap > 0 /\ Cardinality(InChart) > cap)
  <2>1. IsFiniteSet(InChart)
    BY <1>1, FS_Subset DEF ChartType, InChart
  <2>2. Cardinality(InChart) \in Nat
    BY <2>1, FS_CardinalityType
  <2>3. cap > 0 => Cardinality(InChart) <= cap
    BY <1>1, <1>3 DEF ReadOK
  <2>. QED
    BY <1>5, <2>2, <2>3
<1>8. Chart!WholeBinsOnly'
  <2>1. {r \in store' : Chart!InPeriod(r)} = InChart
    BY <1>2 DEF InChart
  <2>2. folded' = {r \in store' : /\ Chart!InPeriod(r) /\ r.payload # Chart!Corrupt
                                  /\ Chart!Bin(r) >= oldestBin'}
    BY <1>2, <1>4, <1>5, <1>6 DEF InChart, Usable
  <2>. QED
    BY <1>2, <1>5, <1>7, <2>1, <2>2, ChartCounts DEF Chart!WholeBinsOnly
<1>9. ChartType'
  BY <1>1, <1>2, <1>6 DEF ChartType, InChart, Usable
<1>. QED
  BY <1>2, <1>8, <1>9 DEF ChartInv, LatestOK

(***************************************************************************)
(* A machine's row is the newest of those stored by then, so of those      *)
(* stored at first.                                                        *)
(***************************************************************************)
LEMMA QueryStep ==
  ASSUME ChartInv, NEW m \in Charted, Chart!QueryMachine(m)
  PROVE  ChartInv'
<1> DEFINE rows == {r \in store : r.machine = m}
<1>1. ChartType /\ LatestOK
  BY DEF ChartInv
<1>2. /\ req = "current" /\ m \in todo /\ todo' = todo \ {m}
      /\ UNCHANGED <<store, req, cap, cursor, raw, pendingIndex, pending, folded, truncated>>
      /\ UNCHANGED <<oldestBin, before>>
  BY DEF Chart!QueryMachine, Chart!historyVars
<1>3. PICK rec \in Chart!Chosen(m) : newest' = [newest EXCEPT ![m] = rec]
  BY DEF Chart!QueryMachine
<1>4. /\ rec \in store \cup {Chart!NoRow}
      /\ \A r \in rows : rec \in store /\ (r = rec \/ Chart!Newer(rec, r))
  BY <1>3 DEF Chart!Chosen
<1>5. \A r \in store : r # Chart!NoRow
  <2>1. \A r \in store : r \in StoredWindows
    BY <1>1 DEF ChartType
  <2>2. \A r \in StoredWindows : r # Chart!NoRow
    <3> TAKE r \in StoredWindows
    <3>1. DOMAIN r = {"machine", "id", "end", "expected", "payload"}
      BY DEF StoredWindows
    <3>2. DOMAIN Chart!NoRow = {"machine"}
      BY DEF Chart!NoRow
    <3>3. "id" \notin {"machine"}
      OBVIOUS
    <3>. QED
      BY <3>1, <3>2, <3>3
  <2>. QED
    BY <2>1, <2>2
<1>6. newest' \in [Charted -> store' \cup {Chart!NoRow}]
  BY <1>1, <1>2, <1>3, <1>4 DEF ChartType
<1>7. newest'[m] = rec /\ \A n \in Charted \ {m} : newest'[n] = newest[n]
  BY <1>1, <1>3 DEF ChartType
<1>8. ChartType'
  BY <1>1, <1>2, <1>6 DEF ChartType, InChart, Usable, Chart!InPeriod
<1>9. LatestOK'
  <2> SUFFICES ASSUME NEW n \in Charted, n \notin todo', NEW r \in before, r.machine = n
               PROVE  newest'[n] # Chart!NoRow /\ (r = newest'[n] \/ Chart!Newer(newest'[n], r))
    BY <1>2 DEF LatestOK
  <2>1. CASE n = m
    <3>1. r \in rows
      BY <1>1, <2>1 DEF ChartType
    <3>. QED
      BY <1>4, <1>5, <1>7, <2>1, <3>1
  <2>2. CASE n # m
    BY <1>1, <1>2, <1>7, <2>2 DEF LatestOK
  <2>. QED
    BY <2>1, <2>2
<1>10. Chart!WholeBinsOnly'
  BY <1>2 DEF Chart!WholeBinsOnly
<1>. QED
  BY <1>2, <1>8, <1>9, <1>10 DEF ChartInv

(***************************************************************************)
(* A window committed during the request leaves what was read as it was.   *)
(***************************************************************************)
LEMMA ArriveStep ==
  ASSUME ChartInv, NEW rec \in Arrivals, Chart!Arrive(rec)
  PROVE  ChartInv'
<1>1. ChartType /\ LatestOK
  BY DEF ChartInv
<1>2. /\ req = "current" /\ store' = store \cup {rec}
      /\ UNCHANGED <<req, cap, pendingIndex, folded, oldestBin, before, todo, newest>>
  BY DEF Chart!Arrive, Chart!historyVars, Chart!currentVars
<1>3. rec \in StoredWindows
  BY ChartAssumption
<1>4. IsFiniteSet(store')
  BY <1>1, <1>2, FS_AddElement DEF ChartType
<1>5. Usable(InChart) \subseteq Usable(InChart')
  BY <1>2 DEF Usable, InChart
<1>6. ChartType'
  <2>1. newest' \in [Charted -> store' \cup {Chart!NoRow}]
    BY <1>1, <1>2 DEF ChartType
  <2>2. folded' \subseteq Usable(InChart)'
    BY <1>1, <1>2, <1>5 DEF ChartType, Usable
  <2>. QED
    BY <1>1, <1>2, <1>3, <1>4, <2>1, <2>2 DEF ChartType
<1>7. LatestOK' /\ Chart!WholeBinsOnly'
  BY <1>1, <1>2 DEF LatestOK, Chart!WholeBinsOnly
<1>. QED
  BY <1>2, <1>6, <1>7 DEF ChartInv

(***************************************************************************)
(* Every step of a request keeps the invariant.                            *)
(***************************************************************************)
LEMMA ChartStep == ChartInv /\ [Chart!Next]_(Chart!vars) => ChartInv'
<1> SUFFICES ASSUME ChartInv, [Chart!Next]_(Chart!vars) PROVE ChartInv'
  OBVIOUS
<1>1. CASE Chart!ReadRow
  <2>1. req = "history" /\ reading = "reading" /\ UNCHANGED <<store, req, cap, Chart!currentVars>>
    BY <1>1 DEF Chart!ReadRow
  <2>2. PICK rec \in cursor : /\ \A s \in cursor : s = rec \/ Chart!Newer(rec, s)
                              /\ Chart!CutOff(rec) \/ Chart!Take(rec)
    BY <1>1 DEF Chart!ReadRow
  <2>3. CASE Chart!CutOff(rec)
    BY <2>1, <2>2, <2>3, CutOffStep
  <2>4. CASE Chart!Take(rec)
    BY <2>1, <2>2, <2>4, TakeStep
  <2>. QED
    BY <2>2, <2>3, <2>4
<1>2. CASE Chart!EndOfRows
  BY <1>2, EndOfRowsStep
<1>3. CASE Chart!ReadFails
  BY <1>3 DEF Chart!ReadFails, Chart!historyVars, Chart!currentVars, ChartInv, ChartType,
              LatestOK, InChart, Usable, Chart!WholeBinsOnly
<1>4. ASSUME NEW m \in Charted, Chart!QueryMachine(m) PROVE ChartInv'
  BY <1>4, QueryStep
<1>5. ASSUME NEW rec \in Arrivals, Chart!Arrive(rec) PROVE ChartInv'
  BY <1>5, ArriveStep
<1>6. CASE UNCHANGED Chart!vars
  BY <1>6 DEF Chart!vars, Chart!historyVars, Chart!currentVars, ChartInv, ChartType, ReadOK,
              Unfolded, LatestOK, InChart, Usable, Chart!WholeBinsOnly
<1>. QED
  BY <1>1, <1>2, <1>3, <1>4, <1>5, <1>6 DEF Chart!Next

(***************************************************************************)
(* A request begins with nothing read.                                     *)
(***************************************************************************)
LEMMA ChartStart == Chart!Init => ChartInv
<1> SUFFICES ASSUME Chart!Init PROVE ChartInv
  OBVIOUS
<1>1. IsFiniteSet(store) /\ store \subseteq StoredWindows
  BY ChartAssumption DEF Chart!Init
<1>2. cap \in Nat
  <2>1. cap \in Caps \/ cap = 0
    BY DEF Chart!Init
  <2>2. \A c \in Caps : c \in Nat
    BY ChartAssumption
  <2>3. 0 \in Nat
    OBVIOUS
  <2>. QED
    BY <2>1, <2>2, <2>3, Zenon
<1>3. ChartType
  BY <1>1, <1>2 DEF Chart!Init, ChartType
<1>4. req = "history" => ReadOK
  <2> SUFFICES ASSUME req = "history" PROVE ReadOK
    OBVIOUS
  <2>1. cursor = InChart /\ Unfolded = {}
    BY DEF Chart!Init, InChart, Unfolded
  <2>2. Cardinality({}) = 0
    BY FS_EmptySet
  <2>. QED
    BY <1>2, <2>1, <2>2 DEF Chart!Init, ReadOK, Usable
<1>5. LatestOK /\ Chart!WholeBinsOnly
  BY DEF Chart!Init, LatestOK, Chart!WholeBinsOnly
<1>. QED
  BY <1>3, <1>4, <1>5 DEF ChartInv

(* The labels of the energy counters, and a reading that is not a frozen one. *)
Counters == {"", "rapl-psys", "rapl-package", "rapl-dram"}
Moved(x) == x.watts > 0 \/ x.source \notin Counters

(***************************************************************************)
(* A scalar reading that counts as measured is of a measuring backend, and *)
(* its counter moved.                                                      *)
(***************************************************************************)
LEMMA ScalarMeasured ==
  ASSUME NEW rec \in StoredWindows, rec.payload # Chart!Corrupt,
         NEW d \in Chart!Scalar \cup {"gpu"},
         ~Chart!Unmeasured(Chart!ScalarReading(rec, d))
  PROVE  /\ Chart!Classify(d, rec.payload[d].source) = "measured"
         /\ rec.payload[d].watts > 0 \/ ~Chart!FrozenCounter(d, rec.payload[d].source)
         /\ Chart!ScalarReading(rec, d).samples = rec.payload[d].samples
<1> DEFINE x == rec.payload[d]
           rd == Chart!ScalarReading(rec, d)
<1>1. rec.payload \in
        [system : WindowStats, cpu : WindowStats, dram : WindowStats, gpu : WindowStats]
  BY DEF StoredWindows
<1>2. x \in WindowStats
  BY <1>1 DEF Chart!Scalar
<1>3. rd.reason = "" /\ rd.kind = "measured"
  BY DEF Chart!Unmeasured
<1>4. rd = [kind |-> Chart!KindFor(d, x), reason |-> "", samples |-> x.samples]
  <2>1. rd = IF x.samples = 0 THEN Chart!Unreported("absent")
             ELSE IF ~x.valid THEN Chart!Unreported("unreadable")
             ELSE [kind |-> Chart!KindFor(d, x), reason |-> "", samples |-> x.samples]
    BY DEF Chart!ScalarReading
  <2>2. \A why \in {"absent", "unreadable"} : Chart!Unreported(why).reason # ""
    BY DEF Chart!Unreported
  <2> HIDE DEF rd, x
  <2>. QED
    BY <1>3, <2>1, <2>2
<1> HIDE DEF rd
<1>5. Chart!KindFor(d, x) = "measured" /\ rd.samples = x.samples
  BY <1>3, <1>4
<1>6. x.watts \in Nat
  BY <1>2 DEF WindowStats
<1> HIDE DEF x
<1>7. Chart!Classify(d, x.source) = "measured" /\ ~(x.watts = 0 /\ Chart!FrozenCounter(d, x.source))
  BY <1>5 DEF Chart!KindFor
<1>. QED
  BY <1>5, <1>6, <1>7 DEF x, rd

(***************************************************************************)
(* The sources whose watts count as measured, domain by domain.            *)
(***************************************************************************)
LEMMA MeasuredSources ==
  ASSUME NEW d \in Chart!Scalar, NEW source, Chart!Classify(d, source) = "measured"
  PROVE  /\ d = "system" => source \in {"rapl-psys", "ipmi-dcmi"}
         /\ d = "dram" => source \in {"rapl-dram", "hwmon"}
         /\ d = "cpu" => source \in {"", "rapl-package", "hwmon"}
         /\ source \in Counters => Chart!FrozenCounter(d, source)
<1>1. \/ source = "" /\ d = "cpu"
      \/ /\ source # "" /\ ~(d = "system" /\ (source = "battery" \/ source = "hwmon"))
         /\ Chart!MeasuredDomain(d, source) \/ source = "hwmon"
  BY DEF Chart!Classify, Chart!Scalar, Chart!Hwmon, Chart!Modelled
<1>2. CASE source = "" /\ d = "cpu"
  BY <1>2 DEF Chart!FrozenCounter
<1>3. CASE source # "" /\ source = "hwmon" /\ d # "system"
  BY <1>3 DEF Chart!FrozenCounter, Chart!Scalar, Counters
<1>4. CASE source # "" /\ Chart!MeasuredDomain(d, source)
  BY <1>4 DEF Chart!FrozenCounter, Chart!MeasuredDomain, Counters
<1>. QED
  BY <1>1, <1>2, <1>3, <1>4

(***************************************************************************)
(* What is charted is charted where it was measured, and added up only if  *)
(* it was.                                                                 *)
(***************************************************************************)
LEMMA ChartsAreMeasured ==
  ASSUME ChartInv PROVE Chart!ChartedWhereMeasured /\ Chart!OnlyMeasuredAdded
<1>1. \A r \in folded : r \in StoredWindows /\ Chart!InPeriod(r) /\ r.payload # Chart!Corrupt
  BY DEF ChartInv, ChartType, Usable, InChart
<1>2. Chart!ChartedWhereMeasured
  BY <1>1, BinFacts DEF Chart!ChartedWhereMeasured
<1>3. Chart!OnlyMeasuredAdded
  <2> SUFFICES ASSUME NEW d \in Chart!ChartDomains, NEW r \in folded,
                      Chart!ReadingFor(r, d).reason = "", Chart!ReadingFor(r, d).kind = "measured"
               PROVE  /\ d = "system" => /\ r.payload.system.source \in {"rapl-psys", "ipmi-dcmi"}
                                         /\ Moved(r.payload.system)
                      /\ d = "dram" => /\ r.payload.dram.source \in {"rapl-dram", "hwmon"}
                                       /\ Moved(r.payload.dram)
                      /\ d \in {"cpu", "cpu_gpu"} =>
                           /\ r.payload.cpu.source \in {"", "rapl-package", "hwmon"}
                           /\ Moved(r.payload.cpu)
                      /\ d = "cpu_gpu" => /\ r.payload.cpu.samples = r.expected
                                          /\ r.payload.gpu.samples = r.expected
    BY DEF Chart!OnlyMeasuredAdded, Chart!Contributors, Moved, Counters
  <2>1. ASSUME NEW e \in Chart!Scalar, ~Chart!Unmeasured(Chart!ScalarReading(r, e))
        PROVE  /\ Moved(r.payload[e])
               /\ e = "system" => r.payload[e].source \in {"rapl-psys", "ipmi-dcmi"}
               /\ e = "dram" => r.payload[e].source \in {"rapl-dram", "hwmon"}
               /\ e = "cpu" => r.payload[e].source \in {"", "rapl-package", "hwmon"}
    <3>1. /\ Chart!Classify(e, r.payload[e].source) = "measured"
          /\ r.payload[e].watts > 0 \/ ~Chart!FrozenCounter(e, r.payload[e].source)
      BY <1>1, <2>1, ScalarMeasured
    <3>. QED
      BY <3>1, MeasuredSources DEF Moved
  <2>2. CASE d \in Chart!Scalar
    <3>1. ~Chart!Unmeasured(Chart!ScalarReading(r, d))
      BY <2>2 DEF Chart!Unmeasured, Chart!ReadingFor, Chart!Scalar
    <3>. QED
      BY <2>1, <2>2, <3>1 DEF Chart!Scalar
  <2>3. CASE d = "cpu_gpu"
    <3> DEFINE cpu == Chart!ScalarReading(r, "cpu")
               gpu == Chart!ScalarReading(r, "gpu")
    <3>1. Chart!CombinedReading(r).reason = ""
      BY <2>3 DEF Chart!ReadingFor
    <3>2. Chart!CombinedReading(r) =
            IF Chart!Unmeasured(cpu) \/ Chart!Unmeasured(gpu) THEN Chart!Refusal(cpu, gpu)
            ELSE IF cpu.samples # r.expected \/ gpu.samples # r.expected
            THEN Chart!Unreported("incomplete_components")
            ELSE [kind |-> "measured", reason |-> "", samples |-> r.expected]
      BY DEF Chart!CombinedReading
    <3>3. Chart!Refusal(cpu, gpu).reason # ""
      BY DEF Chart!Refusal, Chart!Unreported
    <3>4. Chart!Unreported("incomplete_components").reason # ""
      BY DEF Chart!Unreported
    <3> HIDE DEF cpu, gpu
    <3>5. /\ ~Chart!Unmeasured(cpu) /\ ~Chart!Unmeasured(gpu)
          /\ cpu.samples = r.expected /\ gpu.samples = r.expected
      BY <3>1, <3>2, <3>3, <3>4
    <3>6. /\ Moved(r.payload.cpu) /\ r.payload.cpu.source \in {"", "rapl-package", "hwmon"}
      BY <2>1, <3>5 DEF cpu, Chart!Scalar
    <3>7. r.payload.cpu.samples = r.expected /\ r.payload.gpu.samples = r.expected
      BY <1>1, <3>5, ScalarMeasured DEF cpu, gpu, Chart!Scalar
    <3>. QED
      BY <2>3, <3>6, <3>7
  <2>4. CASE d = "gpu"
    BY <2>4
  <2>. QED
    BY <2>2, <2>3, <2>4 DEF Chart!ChartDomains
<1>. QED
  BY <1>2, <1>3

(***************************************************************************)
(* A row that is neither skewed nor stale lies in the window of a current  *)
(* reading.                                                                *)
(***************************************************************************)
LEMMA FreshRow ==
  ASSUME NEW end \in Int, ~(end > Now + Skew), ~(Now - end > Lookback)
  PROVE  end <= Now + Skew /\ Now - end <= Lookback
BY ChartAssumption

(***************************************************************************)
(* A current value is the latest word of the machine, and fresh.           *)
(***************************************************************************)
LEMMA CurrentsAreLatest ==
  ASSUME ChartInv PROVE Chart!CurrentIsLatest
<1> SUFFICES ASSUME NEW m \in Charted \ todo, NEW d \in Chart!ChartDomains,
                    Chart!CurrentReading(m, d).reason = ""
             PROVE  /\ \A r \in before : r.machine = m =>
                         r = newest[m] \/ Chart!Newer(newest[m], r)
                    /\ newest[m].end <= Now + Skew /\ Now - newest[m].end <= Lookback
  BY DEF Chart!CurrentIsLatest
<1> DEFINE n == newest[m]
           rd == Chart!ReadingFor(n, d)
<1>1. LatestOK /\ n \in store \cup {Chart!NoRow} /\ store \subseteq StoredWindows
  BY DEF ChartInv, ChartType
<1>2. \A why \in {"absent", "unreadable", "clock_skew", "stale"} : Chart!Unreported(why).reason # ""
  BY DEF Chart!Unreported
<1>3. Chart!CurrentReading(m, d) =
        IF n = Chart!NoRow THEN Chart!Unreported("absent")
        ELSE IF n.payload = Chart!Corrupt THEN Chart!Unreported("unreadable")
        ELSE IF rd.reason = "absent" THEN rd
        ELSE IF n.end > Now + Skew THEN Chart!Unreported("clock_skew")
        ELSE IF Now - n.end > Lookback THEN Chart!Unreported("stale")
        ELSE IF rd.reason = "" /\ rd.kind = "unknown" THEN Chart!Unreported("unverified")
        ELSE rd
  BY DEF Chart!CurrentReading
<1> HIDE DEF rd, n
<1>4. n # Chart!NoRow /\ ~(n.end > Now + Skew) /\ ~(Now - n.end > Lookback)
  BY <1>2, <1>3
<1>5. n.end \in Int /\ Now \in Nat /\ Skew \in Nat /\ Lookback \in Nat
  BY <1>1, <1>4, ChartAssumption DEF StoredWindows
<1>6. n.end <= Now + Skew /\ Now - n.end <= Lookback
  <2>1. n.end \in Int
    BY <1>5
  <2>. QED
    BY <1>4, <2>1, FreshRow
<1>. QED
  BY <1>1, <1>4, <1>6 DEF LatestOK, n

(***************************************************************************)
(* A capped chart shows whole bins in their place, its watts are measured  *)
(* ones, and a current reading is the machine's latest word.               *)
(***************************************************************************)
THEOREM FleetReadsHold == Chart!Spec => []FleetReadsAreTrue
<1>1. ChartInv => FleetReadsAreTrue
  BY ChartsAreMeasured, CurrentsAreLatest DEF ChartInv, FleetReadsAreTrue
<1>. QED
  BY <1>1, ChartStart, ChartStep, PTL DEF Chart!Spec

-----------------------------------------------------------------------------
(***************************************************************************)
(* A step of one part is a step of each part, or leaves it alone.          *)
(***************************************************************************)
LEMMA PartsStep ==
  ASSUME [DecisionsNext]_decisionsVars
  PROVE  /\ [Alert!Next]_Alert!vars
         /\ [Account!Next]_Account!accountVars
         /\ [Poller!Next]_Poller!pollerVars
         /\ [Sampler!Next]_Sampler!vars
         /\ [Chart!Next]_Chart!vars
         /\ [Marker!Next]_Marker!vars
<1>. USE DEF decisionsVars, vars, alertVars, accountVars, pollerVars, windowVars, chartVars,
             markerVars, Alert!vars, Alert!fleet, Account!accountVars, Poller!pollerVars,
             Sampler!vars, Chart!vars, Chart!historyVars, Chart!currentVars, Marker!vars
<1>1. CASE part = "alerts" /\ Alert!Next
           /\ UNCHANGED <<accountVars, pollerVars, windowVars, chartVars, markerVars>>
  BY <1>1
<1>2. CASE part = "accounts" /\ Account!Next
           /\ UNCHANGED <<alertVars, pollerVars, windowVars, chartVars, markerVars>>
  BY <1>2
<1>3. CASE part = "pollers" /\ Poller!Next
           /\ UNCHANGED <<alertVars, accountVars, windowVars, chartVars, markerVars>>
  BY <1>3
<1>4. CASE part = "window" /\ Sampler!Next
           /\ UNCHANGED <<alertVars, accountVars, pollerVars, chartVars, markerVars>>
  BY <1>4
<1>5. CASE part = "chart" /\ Chart!Next
           /\ UNCHANGED <<alertVars, accountVars, pollerVars, windowVars, markerVars>>
  BY <1>5
<1>6. CASE part = "marker" /\ Marker!Next
           /\ UNCHANGED <<alertVars, accountVars, pollerVars, windowVars, chartVars>>
  BY <1>6
<1>7. CASE UNCHANGED <<alertVars, accountVars, pollerVars, windowVars, chartVars, markerVars>>
  BY <1>7
<1>. QED BY <1>1, <1>2, <1>3, <1>4, <1>5, <1>6, <1>7 DEF DecisionsNext

(***************************************************************************)
(* The parts decide soundly when they run beside each other, as the runs   *)
(* check them: alerts are justified and end by evidence, there always is   *)
(* an administrator, one goroutine polls an API machine, power windows are *)
(* accepted, fleet reads are true, and a binary has the release its one    *)
(* marker says.                                                            *)
(***************************************************************************)
THEOREM DecisionsAreSafe ==
  DecisionsSpec => [](OpenedWhenHeld /\ AdminsKept /\ OnePoller /\ WindowsAreSound
                      /\ FleetReadsAreTrue /\ ScanIsContract)
                   /\ EndsByEvidence
<1>1. DecisionsInit =>
        Alert!Init /\ Account!Init /\ Poller!Init /\ Sampler!Init /\ Chart!Init /\ Marker!Init
  BY DEF DecisionsInit
<1>2. [DecisionsNext]_decisionsVars =>
        [Alert!Next]_Alert!vars /\ [Account!Next]_Account!accountVars
        /\ [Poller!Next]_Poller!pollerVars /\ [Sampler!Next]_Sampler!vars
        /\ [Chart!Next]_Chart!vars /\ [Marker!Next]_Marker!vars
  BY PartsStep
<1>. QED BY <1>1, <1>2, AlertsAreJustified, AlertsEndByEvidence, AdminsAreKept,
            OnePollerGoesOn, WindowsAreAccepted, FleetReadsHold, ScanIsRight, PTL
            DEF DecisionsSpec, Alert!Spec, Account!Spec, Poller!Spec, Sampler!Spec,
                Chart!Spec, Marker!Spec
=============================================================================
