-------------------------- MODULE EnrollmentProofs --------------------------
(***************************************************************************)
(* Proofs about Enrollment for every set of machines, tokens, secrets and   *)
(* sockets.                                                                 *)
(***************************************************************************)
EXTENDS Enrollment, FiniteSetTheorems, TLAPS

-----------------------------------------------------------------------------
(* Type correctness.                                                       *)

(* What the locals of a handler promise each other: an identity is found    *)
(* only for a secret that was presented and still is, the second lookup     *)
(* has a secret to look up, and a commit or a promotion has one to confirm. *)
GoodHandler ==
  {h \in Handler :
     /\ h.phase # "free" => h.peer \in Machines
     /\ h.phase \in {"secret", "pending", "cas"} => h.id = NoMachine
     /\ h.phase = "token" /\ h.id # NoMachine => h.secret # NoSecret
     /\ h.phase \in {"pending", "cas"} => h.secret # NoSecret
     /\ h.phase \in {"open", "fresh"} => h.token # NoToken
     /\ h.phase \in {"fresh", "promote"} => h.issued # NoSecret}

Typed == TypeOK /\ ws \in [Conns -> GoodHandler]

(* Leave frees the handler, its frames and its registry entry.              *)
LEMMA LeaveType ==
  ASSUME Typed, NEW c \in Conns, Leave(c)
  PROVE  /\ ws' \in [Conns -> GoodHandler]
         /\ up' \in [Conns -> Seq({"metrics", "enrollment_committed"})]
         /\ agents' \in [Machines -> Conns \cup {NoConn}]
<1>1. FreeHandler \in GoodHandler
  BY DEF FreeHandler, Handler, GoodHandler
<1>2. ws' \in [Conns -> GoodHandler]
  BY <1>1 DEF Leave, Typed, TypeOK
<1>3. up' \in [Conns -> Seq({"metrics", "enrollment_committed"})]
  BY DEF Leave, Typed, TypeOK
<1>4. agents' \in [Machines -> Conns \cup {NoConn}]
  BY DEF Leave, Typed, TypeOK
<1> QED BY <1>2, <1>3, <1>4

(* Send appends a frame or drops it.                                        *)
LEMMA SendType ==
  ASSUME Typed, NEW c \in Conns, NEW f \in DownFrame, Send(c, f)
  PROVE  down' \in [Conns -> Seq(DownFrame)]
BY DEF Send, Typed, TypeOK

(* Register keeps every handler well formed when h and rest are.            *)
LEMMA RegisterType ==
  ASSUME Typed, NEW m \in Machines, NEW c \in Conns, NEW h \in GoodHandler,
         NEW rest \in Seq({"metrics", "enrollment_committed"}),
         Register(m, c, h, rest)
  PROVE  /\ ws' \in [Conns -> GoodHandler]
         /\ up' \in [Conns -> Seq({"metrics", "enrollment_committed"})]
         /\ agents' \in [Machines -> Conns \cup {NoConn}]
<1>1. \A d \in Conns : [ws[d] EXCEPT !.closed = TRUE] \in GoodHandler
  BY DEF Typed, TypeOK, Handler, GoodHandler
<1>2. ws' \in [Conns -> GoodHandler]
  BY <1>1 DEF Register, Typed, TypeOK
<1>3. up' \in [Conns -> Seq({"metrics", "enrollment_committed"})]
  BY DEF Register, Typed, TypeOK
<1>4. agents' \in [Machines -> Conns \cup {NoConn}]
  BY DEF Register, Typed, TypeOK
<1> QED BY <1>2, <1>3, <1>4

(* An invalid secret leaves every variable well formed.                     *)
LEMMA SecretInvalidType ==
  ASSUME Typed, NEW c \in Conns, SecretInvalid(c),
         ws[c].phase \in {"secret", "pending", "cas"}
  PROVE  /\ ws' \in [Conns -> GoodHandler]
         /\ up' \in [Conns -> Seq({"metrics", "enrollment_committed"})]
         /\ agents' \in [Machines -> Conns \cup {NoConn}]
         /\ down' \in [Conns -> Seq(DownFrame)]
<1>1. CASE Reject(c)
  <2>1. [type |-> "rejected"] \in DownFrame
    BY DEF DownFrame
  <2> QED BY <1>1, <2>1, LeaveType, SendType DEF Reject
<1>2. CASE ~Reject(c)
  <2>1. [ws[c] EXCEPT !.secret = NoSecret, !.phase = "token"] \in GoodHandler
    <3> DEFINE h == ws[c]
               k == [h EXCEPT !.secret = NoSecret, !.phase = "token"]
    <3>1. h \in Handler /\ h.id = NoMachine /\ h.peer \in Machines
      BY DEF Typed, GoodHandler
    <3> HIDE DEF h
    <3>2. k \in Handler /\ k.phase = "token" /\ k.id = NoMachine /\ k.peer \in Machines
      BY <3>1 DEF Handler
    <3>3. k \in GoodHandler
      BY <3>2 DEF GoodHandler
    <3> QED BY <3>3 DEF h
  <2>2. ws' \in [Conns -> GoodHandler]
    BY <1>2, <2>1 DEF SecretInvalid, Typed, TypeOK
  <2> QED BY <1>2, <2>2 DEF SecretInvalid, Typed, TypeOK, netVars
<1> QED BY <1>1, <1>2

(* The row a promotion leaves is well formed.                               *)
LEMMA AfterCASType ==
  ASSUME Typed, NEW m \in Machines, NEW s \in Secrets \cup {NoSecret}
  PROVE  AfterCAS(m, s) \in Credential
BY DEF AfterCAS, Typed, TypeOK, Credential

(* Detach empties one direction and truncates the other.                    *)
LEMMA DetachType ==
  ASSUME Typed, NEW m \in Machines, Detach(m)
  PROVE  /\ up' \in [Conns -> Seq({"metrics", "enrollment_committed"})]
         /\ down' \in [Conns -> Seq(DownFrame)]
<1>1. CASE proc[m].conn = NoConn
  BY <1>1 DEF Detach, Typed, TypeOK, netVars
<1>2. CASE proc[m].conn # NoConn
  <2> DEFINE c == proc[m].conn
  <2>1. c \in Conns
    BY <1>2 DEF Typed, TypeOK, Process
  <2>2. PICK n \in 0..Len(up[c]) : up' = [up EXCEPT ![c] = SubSeq(@, 1, n)]
    BY <1>2 DEF Detach
  <2>3. up[c] \in Seq({"metrics", "enrollment_committed"})
    BY <2>1 DEF Typed, TypeOK
  <2>4. SubSeq(up[c], 1, n) \in Seq({"metrics", "enrollment_committed"})
    <3>1. \A i \in 1..n : i \in 1..Len(up[c])
      BY <2>2, <2>3
    <3>2. \A i \in 1..n : up[c][i] \in {"metrics", "enrollment_committed"}
      BY <2>3, <3>1
    <3> QED BY <2>2, <2>3, <3>2
  <2>5. up' \in [Conns -> Seq({"metrics", "enrollment_committed"})]
    BY <2>1, <2>2, <2>4 DEF Typed, TypeOK
  <2>6. down' \in [Conns -> Seq(DownFrame)]
    <3>1. down' = [down EXCEPT ![c] = <<>>]
      BY <1>2 DEF Detach
    <3>2. <<>> \in Seq(DownFrame)
      OBVIOUS
    <3>3. down \in [Conns -> Seq(DownFrame)]
      BY DEF Typed, TypeOK
    <3> HIDE DEF c
    <3> QED BY <2>1, <3>1, <3>2, <3>3
  <2> QED BY <2>5, <2>6
<1> QED BY <1>1, <1>2

(* A process that starts or goes back to the top of connectLoop is well     *)
(* formed.                                                                  *)
LEMMA StartedType ==
  ASSUME NEW d \in Disk
  PROVE  Started(d) \in Process
BY DEF Started, NoProcess, Process, Disk

LEMMA RedialType ==
  ASSUME Typed, NEW m \in Machines, NEW b \in BOOLEAN, Redial(m, b)
  PROVE  proc' \in [Machines -> Process]
<1> DEFINE p == [proc[m] EXCEPT !.conn = NoConn, !.secret = NoSecret,
                   !.usedPending = FALSE, !.hadPending = FALSE,
                   !.rejected = NextRejected(proc[m], b)]
<1>1. proc[m] \in Process
  BY DEF Typed, TypeOK
<1>2. NextRejected(proc[m], b) \in Secrets \cup {NoSecret}
  BY <1>1 DEF NextRejected, Process
<1>3. p \in Process
  BY <1>1, <1>2 DEF Process
<1> HIDE DEF p
<1>4. proc' = [proc EXCEPT ![m] = p]
  BY DEF Redial, p
<1> QED BY <1>3, <1>4 DEF Typed, TypeOK

(* The initial state is well formed.                                        *)
LEMMA InitType == Init => Typed
<1> SUFFICES ASSUME Init PROVE Typed
  OBVIOUS
<1>1. tok \in [Tokens -> Token]
  BY DEF Init, Token
<1>2. PICK s \in [Machines -> Secrets \cup {NoSecret}] :
        /\ cred = [m \in Machines |-> [NoCredential EXCEPT !.active = s[m]]]
        /\ file = [m \in Machines |->
                     [active |-> s[m], pending |-> NoSecret, token |-> NoToken]]
  BY DEF Init
<1>3. cred \in [Machines -> Credential]
  <2>1. \A m \in Machines : [NoCredential EXCEPT !.active = s[m]] \in Credential
    BY DEF NoCredential, Credential
  <2> QED BY <1>2, <2>1
<1>4. file \in [Machines -> Disk]
  BY <1>2 DEF Disk
<1>5. ws \in [Conns -> Handler] /\ ws \in [Conns -> GoodHandler]
  BY DEF Init, FreeHandler, Handler, GoodHandler
<1>6. proc \in [Machines -> Process]
  <2>1. \A m \in Machines : Started(file[m]) \in Process
    BY <1>4, StartedType
  <2> QED BY <2>1 DEF Init
<1>7. agents \in [Machines -> Conns \cup {NoConn}] /\ calm \in BOOLEAN
  BY DEF Init
<1>8. up \in [Conns -> Seq({"metrics", "enrollment_committed"})]
  BY DEF Init
<1>9. down \in [Conns -> Seq(DownFrame)]
  <2>1. <<>> \in Seq(DownFrame)
    OBVIOUS
  <2> QED BY <2>1 DEF Init
<1> QED BY <1>1, <1>3, <1>4, <1>5, <1>6, <1>7, <1>8, <1>9 DEF Typed, TypeOK

(* The types, one variable at a time.                                       *)
LEMMA TypedParts ==
  ASSUME Typed
  PROVE  /\ tok \in [Tokens -> Token] /\ cred \in [Machines -> Credential]
         /\ agents \in [Machines -> Conns \cup {NoConn}]
         /\ ws \in [Conns -> GoodHandler]
         /\ up \in [Conns -> Seq({"metrics", "enrollment_committed"})]
         /\ down \in [Conns -> Seq(DownFrame)] /\ file \in [Machines -> Disk]
         /\ proc \in [Machines -> Process] /\ calm \in BOOLEAN
BY DEF Typed, TypeOK

LEMMA TypedNext ==
  ASSUME tok' \in [Tokens -> Token], cred' \in [Machines -> Credential],
         agents' \in [Machines -> Conns \cup {NoConn}],
         ws' \in [Conns -> GoodHandler],
         up' \in [Conns -> Seq({"metrics", "enrollment_committed"})],
         down' \in [Conns -> Seq(DownFrame)], file' \in [Machines -> Disk],
         proc' \in [Machines -> Process], calm' \in BOOLEAN
  PROVE  Typed'
BY DEF Typed, TypeOK, GoodHandler

(* The three statements of the handshake keep the types.                    *)
LEMMA LookupActiveType ==
  ASSUME Typed, NEW c \in Conns, LookupActive(c)
  PROVE  Typed'
<1> DEFINE hit == {m \in Machines : cred[m].active = ws[c].secret}
           h == IF ws[c].secret = NoSecret THEN [ws[c] EXCEPT !.phase = "token"]
                ELSE IF hit = {} THEN [ws[c] EXCEPT !.phase = "pending"]
                ELSE [ws[c] EXCEPT !.phase = "token", !.id = CHOOSE m \in hit : TRUE]
<1>1. ws[c] \in GoodHandler /\ ws[c].phase = "secret"
  BY TypedParts DEF LookupActive
<1>2. hit # {} => (CHOOSE m \in hit : TRUE) \in Machines
  OBVIOUS
<1>3. h \in GoodHandler
  <2> HIDE DEF hit
  <2> QED BY <1>1, <1>2 DEF Handler, GoodHandler
<1>4. ws' = [ws EXCEPT ![c] = h]
  BY DEF LookupActive
<1> HIDE DEF h
<1>5. ws' \in [Conns -> GoodHandler]
  BY <1>3, <1>4, TypedParts
<1> QED BY <1>5, TypedParts, TypedNext DEF LookupActive, netVars

LEMMA LookupPendingType ==
  ASSUME Typed, NEW c \in Conns, LookupPending(c)
  PROVE  Typed'
<1>1. ws[c] \in GoodHandler /\ ws[c].phase = "pending"
  BY TypedParts DEF LookupPending
<1>2. CASE SecretInvalid(c)
  BY <1>1, <1>2, SecretInvalidType, TypedParts, TypedNext DEF LookupPending
<1>3. CASE ws' = [ws EXCEPT ![c].phase = "cas"] /\ UNCHANGED <<agents, netVars>>
  <2>1. [ws[c] EXCEPT !.phase = "cas"] \in GoodHandler
    BY <1>1 DEF GoodHandler, Handler
  <2>2. ws' \in [Conns -> GoodHandler]
    BY <1>3, <2>1, TypedParts
  <2> QED BY <1>3, <2>2, TypedParts, TypedNext DEF LookupPending, netVars
<1> QED BY <1>2, <1>3 DEF LookupPending

LEMMA PromotePendingType ==
  ASSUME Typed, NEW c \in Conns, PromotePending(c)
  PROVE  Typed'
<1>1. ws[c] \in GoodHandler /\ ws[c].phase = "cas"
  BY TypedParts DEF PromotePending
<1>2. cred' \in [Machines -> Credential]
  <2>1. ws[c].secret \in Secrets \cup {NoSecret}
    BY <1>1 DEF GoodHandler, Handler
  <2>2. \A m \in Machines : AfterCAS(m, ws[c].secret) \in Credential
    BY <2>1, AfterCASType
  <2> QED BY <2>2 DEF PromotePending
<1>3. CASE SecretInvalid(c)
  BY <1>1, <1>2, <1>3, SecretInvalidType, TypedParts, TypedNext DEF PromotePending
<1>4. CASE ~SecretInvalid(c)
  <2>1. PICK m \in Machines :
          /\ \/ ws' = [ws EXCEPT ![c].phase = "token", ![c].id = m, ![c].promoted = TRUE]
             \/ ws' = [ws EXCEPT ![c].phase = "token", ![c].id = m]
          /\ UNCHANGED <<agents, netVars>>
    BY <1>4 DEF PromotePending
  <2>2. /\ [ws[c] EXCEPT !.phase = "token", !.id = m, !.promoted = TRUE] \in GoodHandler
        /\ [ws[c] EXCEPT !.phase = "token", !.id = m] \in GoodHandler
    BY <1>1 DEF GoodHandler, Handler
  <2>3. ws' \in [Conns -> GoodHandler]
    BY <2>1, <2>2, TypedParts
  <2> QED BY <1>2, <2>1, <2>3, TypedParts, TypedNext DEF PromotePending, netVars
<1> QED BY <1>3, <1>4

LEMMA LookupFailsType ==
  ASSUME Typed, NEW c \in Conns, LookupFails(c)
  PROVE  Typed'
<1>1. ws[c] \in GoodHandler
  BY TypedParts
<1>2. CASE ws[c].phase \in {"pending", "cas"} /\ SecretInvalid(c)
  BY <1>2, SecretInvalidType, TypedParts, TypedNext DEF LookupFails
<1>3. CASE ~(ws[c].phase \in {"pending", "cas"} /\ SecretInvalid(c))
  <2>1. /\ ws[c].phase = "secret" /\ ws[c].secret # NoSecret
        /\ ws' = [ws EXCEPT ![c].phase = "pending"]
        /\ UNCHANGED <<agents, netVars>>
    BY <1>3 DEF LookupFails
  <2>2. [ws[c] EXCEPT !.phase = "pending"] \in GoodHandler
    BY <1>1, <2>1 DEF GoodHandler, Handler
  <2>3. ws' \in [Conns -> GoodHandler]
    BY <2>1, <2>2, TypedParts
  <2> QED BY <2>1, <2>3, TypedParts, TypedNext DEF LookupFails, netVars
<1> QED BY <1>2, <1>3

(* A confirmation of a real secret is a frame.                              *)
LEMMA ConfirmationType ==
  ASSUME NEW s \in Secrets
  PROVE  Confirmation(s) \in DownFrame
BY DEF Confirmation, DownFrame

LEMMA VerifyTokenType ==
  ASSUME Typed, NEW c \in Conns, VerifyToken(c)
  PROVE  Typed'
<1> DEFINE sent == IF Attached(c) THEN <<"metrics">> ELSE <<>>
           h == [ws[c] EXCEPT !.phase = "live"]
           o == [ws[c] EXCEPT !.phase = "open"]
<1>1. ws[c] \in GoodHandler /\ ws[c].phase = "token"
  BY TypedParts DEF VerifyToken
<1>2. sent \in Seq({"metrics", "enrollment_committed"})
  <2>1. <<"metrics">> \in Seq({"metrics", "enrollment_committed"})
    OBVIOUS
  <2>2. <<>> \in Seq({"metrics", "enrollment_committed"})
    OBVIOUS
  <2> QED BY <2>1, <2>2
<1>3. CASE Reject(c)
  <2>1. [type |-> "rejected"] \in DownFrame
    BY DEF DownFrame
  <2> QED BY <1>3, <2>1, LeaveType, SendType, TypedParts, TypedNext
          DEF Reject, VerifyToken
<1>4. CASE /\ ws[c].id # NoMachine /\ Register(ws[c].id, c, h, sent)
           /\ IF ws[c].promoted \/ ws[c].token # NoToken
              THEN Send(c, Confirmation(ws[c].secret)) ELSE UNCHANGED down
  <2>1. ws[c].id \in Machines /\ ws[c].secret \in Secrets /\ h \in GoodHandler
    BY <1>1, <1>4 DEF GoodHandler, Handler
  <2> HIDE DEF h, sent
  <2>2. /\ ws' \in [Conns -> GoodHandler]
        /\ up' \in [Conns -> Seq({"metrics", "enrollment_committed"})]
        /\ agents' \in [Machines -> Conns \cup {NoConn}]
    BY <1>2, <1>4, <2>1, RegisterType
  <2>3. down' \in [Conns -> Seq(DownFrame)]
    BY <1>4, <2>1, ConfirmationType, SendType, TypedParts
  <2> QED BY <2>2, <2>3, TypedParts, TypedNext DEF VerifyToken
<1>5. CASE /\ Dual(c) \/ (ws[c].id = NoMachine /\ TokenValid(ws[c].token))
           /\ ws' = [ws EXCEPT ![c].phase = "open"] /\ up' = [up EXCEPT ![c] = sent]
           /\ UNCHANGED <<agents, down>>
  <2>1. ws[c].token # NoToken
    BY <1>5 DEF Dual, TokenValid
  <2>2. o \in GoodHandler
    BY <1>1, <2>1 DEF GoodHandler, Handler
  <2>3. ws' = [ws EXCEPT ![c] = o]
    BY <1>5
  <2> HIDE DEF o, sent
  <2>4. ws' \in [Conns -> GoodHandler]
    BY <2>2, <2>3, TypedParts
  <2>5. up' \in [Conns -> Seq({"metrics", "enrollment_committed"})]
    BY <1>2, <1>5, TypedParts
  <2> QED BY <1>5, <2>4, <2>5, TypedParts, TypedNext DEF VerifyToken
<1> QED BY <1>3, <1>4, <1>5 DEF VerifyToken

(* Reading a frame leaves a sequence of frames.                             *)
LEMMA TailType ==
  ASSUME Typed, NEW c \in Conns, up[c] # <<>>
  PROVE  Tail(up[c]) \in Seq({"metrics", "enrollment_committed"})
<1>1. up[c] \in Seq({"metrics", "enrollment_committed"})
  BY TypedParts
<1> QED BY <1>1

(* The handling of a frame keeps the types.                                 *)
LEMMA StageReenrollmentType ==
  ASSUME Typed, NEW c \in Conns, StageReenrollment(c)
  PROVE  Typed'
<1> DEFINE m == ws[c].peer  t == ws[c].token
<1>1. ws[c] \in GoodHandler /\ ws[c].phase = "open" /\ up[c] # <<>>
  BY TypedParts DEF StageReenrollment, Reads
<1>2. m \in Machines /\ t \in Tokens
  BY <1>1 DEF GoodHandler, Handler
<1>3. PICK s \in FreshSecrets :
        /\ tok' = [tok EXCEPT ![t].state = "used"]
        /\ cred' = [cred EXCEPT ![m] = StagedRow(m, s)]
        /\ \/ /\ Register(m, c, [ws[c] EXCEPT !.phase = "live", !.issued = s], Tail(up[c]))
              /\ Send(c, [type |-> "enrolled", secret |-> s])
           \/ Leave(c) /\ UNCHANGED down
  BY DEF StageReenrollment
<1>4. s \in Secrets
  BY DEF FreshSecrets
<1>5. tok' \in [Tokens -> Token]
  BY <1>3, TypedParts, ZenonT(60) DEF Token
<1>6. cred' \in [Machines -> Credential]
  <2>1. StagedRow(m, s) \in Credential
    BY <1>2, <1>4, TypedParts DEF StagedRow, Credential
  <2> QED BY <1>3, <2>1, TypedParts
<1>7. [ws[c] EXCEPT !.phase = "live", !.issued = s] \in GoodHandler
  BY <1>1, <1>4 DEF GoodHandler, Handler
<1>8. [type |-> "enrolled", secret |-> s] \in DownFrame
  BY <1>4 DEF DownFrame
<1>9. Tail(up[c]) \in Seq({"metrics", "enrollment_committed"})
  BY <1>1, TailType
<1> HIDE DEF m, t
<1>10. CASE Leave(c) /\ UNCHANGED down
  BY <1>5, <1>6, <1>10, LeaveType, TypedParts, TypedNext DEF StageReenrollment
<1>11. CASE /\ Register(m, c, [ws[c] EXCEPT !.phase = "live", !.issued = s], Tail(up[c]))
            /\ Send(c, [type |-> "enrolled", secret |-> s])
  <2>1. /\ ws' \in [Conns -> GoodHandler]
        /\ up' \in [Conns -> Seq({"metrics", "enrollment_committed"})]
        /\ agents' \in [Machines -> Conns \cup {NoConn}]
    BY <1>2, <1>7, <1>9, <1>11, RegisterType
  <2>2. down' \in [Conns -> Seq(DownFrame)]
    BY <1>8, <1>11, SendType
  <2> QED BY <1>5, <1>6, <2>1, <2>2, TypedParts, TypedNext DEF StageReenrollment
<1> QED BY <1>3, <1>10, <1>11

LEMMA IssueFreshType ==
  ASSUME Typed, NEW c \in Conns, IssueFresh(c)
  PROVE  Typed'
<1>1. ws[c] \in GoodHandler /\ ws[c].phase = "open" /\ up[c] # <<>>
  BY TypedParts DEF IssueFresh, Reads
<1>2. PICK s \in FreshSecrets :
        /\ ws' = [ws EXCEPT ![c].phase = "fresh", ![c].issued = s]
        /\ up' = [up EXCEPT ![c] = Tail(@)]
        /\ Send(c, [type |-> "enrolled", secret |-> s])
  BY DEF IssueFresh
<1>3. s \in Secrets
  BY DEF FreshSecrets
<1>4. [ws[c] EXCEPT !.phase = "fresh", !.issued = s] \in GoodHandler
  BY <1>1, <1>3, EnrollmentAssumption DEF GoodHandler, Handler
<1>5. ws' \in [Conns -> GoodHandler]
  BY <1>2, <1>4, TypedParts
<1>6. up' \in [Conns -> Seq({"metrics", "enrollment_committed"})]
  BY <1>1, <1>2, TailType, TypedParts
<1>7. down' \in [Conns -> Seq(DownFrame)]
  <2>1. [type |-> "enrolled", secret |-> s] \in DownFrame
    BY <1>3 DEF DownFrame
  <2> QED BY <1>2, <2>1, SendType
<1> QED BY <1>5, <1>6, <1>7, TypedParts, TypedNext DEF IssueFresh

LEMMA CommitFreshType ==
  ASSUME Typed, NEW c \in Conns, CommitFresh(c)
  PROVE  Typed'
<1> DEFINE m == ws[c].peer  t == ws[c].token  s == ws[c].issued
           h == [ws[c] EXCEPT !.phase = "live", !.issued = NoSecret]
<1>1. ws[c] \in GoodHandler /\ ws[c].phase = "fresh" /\ up[c] # <<>>
  BY TypedParts DEF CommitFresh, Reads
<1>2. m \in Machines /\ t \in Tokens /\ s \in Secrets /\ h \in GoodHandler
  BY <1>1 DEF GoodHandler, Handler
<1>3. Tail(up[c]) \in Seq({"metrics", "enrollment_committed"})
  BY <1>1, TailType
<1>4. CASE Leave(c) /\ UNCHANGED <<tok, cred, down>>
  BY <1>4, LeaveType, TypedParts, TypedNext DEF CommitFresh
<1>5. CASE /\ tok' = [tok EXCEPT ![t].state = "used"]
           /\ cred' = [cred EXCEPT ![m] = [NoCredential EXCEPT !.active = s]]
           /\ Register(m, c, h, Tail(up[c]))
           /\ Send(c, Confirmation(s))
  <2>1. tok' \in [Tokens -> Token]
    BY <1>5, TypedParts DEF Token
  <2>2. [NoCredential EXCEPT !.active = s] \in Credential
    BY <1>2 DEF NoCredential, Credential
  <2> HIDE DEF m, t, s, h
  <2>3. cred' \in [Machines -> Credential]
    BY <1>5, <2>2, TypedParts
  <2>4. /\ ws' \in [Conns -> GoodHandler]
        /\ up' \in [Conns -> Seq({"metrics", "enrollment_committed"})]
        /\ agents' \in [Machines -> Conns \cup {NoConn}]
    BY <1>2, <1>3, <1>5, RegisterType
  <2>5. down' \in [Conns -> Seq(DownFrame)]
    BY <1>2, <1>5, ConfirmationType, SendType
  <2> QED BY <2>1, <2>3, <2>4, <2>5, TypedParts, TypedNext DEF CommitFresh
<1> QED BY <1>4, <1>5 DEF CommitFresh

LEMMA ReadLiveType ==
  ASSUME Typed, NEW c \in Conns, ReadLive(c)
  PROVE  Typed'
<1>1. ws[c] \in GoodHandler /\ ws[c].phase = "live" /\ up[c] # <<>>
  BY TypedParts DEF ReadLive
<1>2. CASE Leave(c)
  BY <1>2, LeaveType, TypedParts, TypedNext DEF ReadLive
<1>3. CASE ~Leave(c)
  <2>1. /\ Reads(c, "metrics") \/ ws[c].issued # NoSecret
        /\ up' = [up EXCEPT ![c] = Tail(@)]
        /\ ws' = IF Reads(c, "metrics") THEN ws
                 ELSE [ws EXCEPT ![c].phase = "promote"]
        /\ UNCHANGED agents
    BY <1>3 DEF ReadLive
  <2>2. ~Reads(c, "metrics") => [ws[c] EXCEPT !.phase = "promote"] \in GoodHandler
    BY <1>1, <2>1 DEF GoodHandler, Handler
  <2>3. ws' \in [Conns -> GoodHandler]
    BY <2>1, <2>2, TypedParts
  <2>4. up' \in [Conns -> Seq({"metrics", "enrollment_committed"})]
    BY <1>1, <2>1, TailType, TypedParts
  <2> QED BY <2>1, <2>3, <2>4, TypedParts, TypedNext DEF ReadLive
<1> QED BY <1>2, <1>3

LEMMA PromoteStagedType ==
  ASSUME Typed, NEW c \in Conns, PromoteStaged(c)
  PROVE  Typed'
<1> DEFINE m == ws[c].peer  s == ws[c].issued
           h == [ws[c] EXCEPT !.phase = "live", !.issued = NoSecret]
<1>1. ws[c] \in GoodHandler /\ ws[c].phase = "promote"
  BY TypedParts DEF PromoteStaged
<1>2. m \in Machines /\ s \in Secrets /\ h \in GoodHandler
  BY <1>1 DEF GoodHandler, Handler
<1>3. cred' \in [Machines -> Credential]
  <2>1. AfterCAS(m, s) \in Credential
    BY <1>2, AfterCASType
  <2> QED BY <2>1, TypedParts DEF PromoteStaged
<1>4. CASE Leave(c) /\ UNCHANGED down
  BY <1>3, <1>4, LeaveType, TypedParts, TypedNext DEF PromoteStaged
<1>5. CASE /\ ws' = [ws EXCEPT ![c].phase = "live", ![c].issued = NoSecret]
           /\ Send(c, Confirmation(s)) /\ UNCHANGED <<agents, up>>
  <2>1. ws' = [ws EXCEPT ![c] = h]
    BY <1>5
  <2> HIDE DEF h, m, s
  <2>2. ws' \in [Conns -> GoodHandler]
    BY <1>2, <2>1, TypedParts
  <2>3. down' \in [Conns -> Seq(DownFrame)]
    BY <1>2, <1>5, ConfirmationType, SendType
  <2> QED BY <1>3, <1>5, <2>2, <2>3, TypedParts, TypedNext DEF PromoteStaged
<1> QED BY <1>4, <1>5 DEF PromoteStaged

LEMMA HubStepType ==
  ASSUME Typed, NEW c \in Conns, HubStep(c)
  PROVE  Typed'
<1>1. CASE RefuseEnrollment(c)
  BY <1>1, LeaveType, TypedParts, TypedNext DEF RefuseEnrollment
<1>2. CASE ReadError(c)
  BY <1>2, LeaveType, TypedParts, TypedNext DEF ReadError
<1> QED BY <1>1, <1>2, LookupActiveType, LookupPendingType, VerifyTokenType,
           PromotePendingType, StageReenrollmentType, IssueFreshType, CommitFreshType, ReadLiveType,
           PromoteStagedType DEF HubStep

(* The steps of the agent keep the types.                                   *)
LEMMA DialType ==
  ASSUME Typed, NEW m \in Machines, NEW c \in Conns, Dial(m, c)
  PROVE  Typed'
<1> DEFINE d == file[m]
           u == UsePending(d.pending, d.active, proc[m].rejected)
           x == IF u THEN d.pending ELSE d.active
           h == [FreeHandler EXCEPT !.phase = "secret", !.peer = m,
                   !.secret = x, !.token = proc[m].token]
           p == [proc[m] EXCEPT !.conn = c, !.secret = x, !.usedPending = u,
                   !.hadPending = d.pending # NoSecret]
<1>1. d \in Disk /\ proc[m] \in Process
  BY TypedParts
<1>2. x \in Secrets \cup {NoSecret} /\ u \in BOOLEAN
  BY <1>1 DEF Disk, UsePending
<1>3. ws' = [ws EXCEPT ![c] = h] /\ proc' = [proc EXCEPT ![m] = p]
  BY DEF Dial
<1>4. h \in GoodHandler
  <2> HIDE DEF x, u
  <2>1. proc[m].token \in Tokens \cup {NoToken}
    BY <1>1 DEF Process
  <2>2. FreeHandler \in Handler /\ FreeHandler.id = NoMachine
    BY DEF FreeHandler, Handler
  <2> QED BY <1>2, <2>1, <2>2 DEF GoodHandler, Handler
<1>5. p \in Process
  <2> DEFINE b == d.pending # NoSecret
  <2>1. b \in BOOLEAN
    OBVIOUS
  <2>2. p = [proc[m] EXCEPT !.conn = c, !.secret = x, !.usedPending = u,
               !.hadPending = b]
    OBVIOUS
  <2> HIDE DEF x, u, b
  <2> QED BY <1>1, <1>2, <2>1, <2>2 DEF Process
<1> HIDE DEF h, p
<1>6. ws' \in [Conns -> GoodHandler] /\ proc' \in [Machines -> Process]
  BY <1>3, <1>4, <1>5, TypedParts
<1> QED BY <1>6, TypedParts, TypedNext DEF Dial, netVars

LEMMA EnrolledFrameType ==
  ASSUME Typed, NEW m \in Machines, handleEnrolledFrame(m)
  PROVE  Typed'
<1> DEFINE c == proc[m].conn
<1>1. CASE Detach(m) /\ Redial(m, FALSE) /\ UNCHANGED file
  BY <1>1, DetachType, RedialType, TypedParts, TypedNext DEF handleEnrolledFrame, hubVars
<1>2. CASE /\ file' = [file EXCEPT ![m].pending = Head(down[c]).secret]
           /\ down' = [down EXCEPT ![c] = Tail(@)]
           /\ up' = IF ws[c].phase = "free" \/ ws[c].closed THEN up
                    ELSE [up EXCEPT ![c] = Append(@, "enrollment_committed")]
           /\ UNCHANGED proc
  <2>1. c \in Conns /\ down[c] # <<>> /\ Head(down[c]).type = "enrolled"
    BY TypedParts DEF handleEnrolledFrame, Receives, Process
  <2>2. down[c] \in Seq(DownFrame)
    BY <2>1, TypedParts
  <2>3. Head(down[c]) \in DownFrame /\ Tail(down[c]) \in Seq(DownFrame)
    BY <2>1, <2>2
  <2>4. Head(down[c]).secret \in Secrets
    BY <2>1, <2>3 DEF DownFrame
  <2> HIDE DEF c
  <2>5. file' \in [Machines -> Disk]
    BY <1>2, <2>4, TypedParts DEF Disk
  <2>6. down' \in [Conns -> Seq(DownFrame)]
    BY <1>2, <2>1, <2>3, TypedParts
  <2>7. up' \in [Conns -> Seq({"metrics", "enrollment_committed"})]
    BY <1>2, <2>1, TypedParts
  <2> QED BY <1>2, <2>5, <2>6, <2>7, TypedParts, TypedNext
          DEF handleEnrolledFrame, hubVars
<1> QED BY <1>1, <1>2 DEF handleEnrolledFrame

(* Every disk a confirmation may leave is a disk.                           *)
LEMMA ConfirmedDiskType ==
  ASSUME Typed, NEW m \in Machines, NEW s \in Secrets, NEW d \in ConfirmedDisk(m, s)
  PROVE  d \in Disk
<1>1. file[m] \in Disk
  BY TypedParts
<1>2. ASSUME NEW e \in Disk PROVE Wiped(m, e) \subseteq Disk
  BY DEF Wiped, Disk
<1>3. /\ [file[m] EXCEPT !.active = s, !.pending = NoSecret] \in Disk
      /\ [file[m] EXCEPT !.pending = NoSecret] \in Disk
  BY <1>1 DEF Disk
<1> QED BY <1>1, <1>2, <1>3 DEF ConfirmedDisk

LEMMA ConfirmedFrameType ==
  ASSUME Typed, NEW m \in Machines, handleEnrollmentConfirmed(m)
  PROVE  Typed'
<1> DEFINE c == proc[m].conn  s == Head(down[c]).secret
<1>1. CASE Detach(m) /\ Redial(m, FALSE) /\ UNCHANGED file
  BY <1>1, DetachType, RedialType, TypedParts, TypedNext
  DEF handleEnrollmentConfirmed, hubVars
<1>2. CASE /\ \E d \in ConfirmedDisk(m, s) : file' = [file EXCEPT ![m] = d]
           /\ proc' = [proc EXCEPT ![m].token = NoToken]
           /\ down' = [down EXCEPT ![c] = Tail(@)]
           /\ UNCHANGED up
  <2>1. c \in Conns /\ down[c] # <<>> /\ Head(down[c]).type = "enrollment_confirmed"
    BY TypedParts DEF handleEnrollmentConfirmed, Receives, Process
  <2>2. down[c] \in Seq(DownFrame)
    BY <2>1, TypedParts
  <2>3. Head(down[c]) \in DownFrame /\ Tail(down[c]) \in Seq(DownFrame)
    BY <2>1, <2>2
  <2>4. s \in Secrets
    BY <2>1, <2>3 DEF DownFrame
  <2> HIDE DEF c, s
  <2>5. file' \in [Machines -> Disk]
    BY <1>2, <2>4, ConfirmedDiskType, TypedParts
  <2>6. down' \in [Conns -> Seq(DownFrame)]
    BY <1>2, <2>1, <2>3, TypedParts
  <2>7. proc' \in [Machines -> Process]
    <3>1. [proc[m] EXCEPT !.token = NoToken] \in Process
      BY TypedParts DEF Process
    <3> QED BY <1>2, <3>1, TypedParts
  <2> QED BY <1>2, <2>5, <2>6, <2>7, TypedParts, TypedNext
          DEF handleEnrollmentConfirmed, hubVars
<1> QED BY <1>1, <1>2 DEF handleEnrollmentConfirmed

LEMMA AgentStepType ==
  ASSUME Typed, NEW m \in Machines, AgentStep(m)
  PROVE  Typed'
<1>1. CASE Disconnect(m)
  BY <1>1, DetachType, RedialType, TypedParts, TypedNext DEF Disconnect, hubVars
<1>2. CASE ReceiveRejection(m)
  BY <1>2, DetachType, RedialType, TypedParts, TypedNext DEF ReceiveRejection, hubVars
<1> QED BY <1>1, <1>2, DialType, EnrolledFrameType, ConfirmedFrameType DEF AgentStep

(* Operators, clocks and faults keep the types.                             *)
LEMMA InstallType ==
  ASSUME Typed, NEW m \in Machines, NEW t \in Tokens \cup {NoToken},
         file' = [file EXCEPT ![m].token = t],
         proc' = [proc EXCEPT ![m] = Started(file'[m])],
         Detach(m), UNCHANGED <<hubVars, calm>>
  PROVE  Typed'
<1>1. file' \in [Machines -> Disk]
  BY TypedParts DEF Disk
<1>2. proc' \in [Machines -> Process]
  <2>1. Started(file'[m]) \in Process
    BY <1>1, StartedType
  <2> QED BY <2>1, TypedParts
<1> QED BY <1>1, <1>2, DetachType, TypedParts, TypedNext DEF hubVars

LEMMA RemoveCredentialType ==
  ASSUME Typed, NEW m \in Machines, RemoveCredential(m)
  PROVE  Typed'
<1>1. cred' \in [Machines -> Credential]
  <2>1. NoCredential \in Credential
    BY DEF NoCredential, Credential
  <2> QED BY <2>1, TypedParts DEF RemoveCredential
<1>2. ws' \in [Conns -> GoodHandler]
  <2>1. \A c \in Conns : [ws[c] EXCEPT !.closed = TRUE] \in GoodHandler
    <3>1. \A c \in Conns : ws[c] \in GoodHandler
      BY TypedParts
    <3> QED BY <3>1 DEF GoodHandler, Handler
  <2> QED BY <2>1, TypedParts DEF RemoveCredential
<1>3. up' \in [Conns -> Seq({"metrics", "enrollment_committed"})]
  BY TypedParts DEF RemoveCredential
<1>4. agents' \in [Machines -> Conns \cup {NoConn}]
  BY TypedParts DEF RemoveCredential
<1> QED BY <1>1, <1>2, <1>3, <1>4, TypedParts, TypedNext DEF RemoveCredential

LEMMA EnvironmentType ==
  ASSUME Typed, Environment
  PROVE  Typed'
<1>1. CASE CalmDown
  BY <1>1, TypedParts, TypedNext DEF CalmDown, hubVars, netVars
<1>2. CASE deleteExpiredTokens
  <2>1. \A t \in Tokens : [tok[t] EXCEPT !.state = "gone"] \in Token
    <3>1. \A t \in Tokens : tok[t] \in Token
      BY TypedParts
    <3> QED BY <3>1 DEF Token
  <2>2. tok' \in [Tokens -> Token]
    BY <1>2, <2>1, TypedParts DEF deleteExpiredTokens
  <2> QED BY <1>2, <2>2, TypedParts, TypedNext DEF deleteExpiredTokens, netVars
<1>3. CASE HubRestart
  <2>1. ws' \in [Conns -> GoodHandler]
    BY <1>3 DEF HubRestart, FreeHandler, Handler, GoodHandler
  <2>2. up' \in [Conns -> Seq({"metrics", "enrollment_committed"})]
    BY <1>3 DEF HubRestart
  <2>3. agents' \in [Machines -> Conns \cup {NoConn}]
    BY <1>3 DEF HubRestart
  <2> QED BY <1>3, <2>1, <2>2, <2>3, TypedParts, TypedNext DEF HubRestart
<1>4. ASSUME NEW t \in Tokens, handleCreateToken(t) \/ ExpireToken(t)
      PROVE  Typed'
  <2>1. tok' \in [Tokens -> Token]
    BY <1>4, TypedParts DEF handleCreateToken, ExpireToken, Token
  <2> QED BY <1>4, <2>1, TypedParts, TypedNext
          DEF handleCreateToken, ExpireToken, netVars
<1>5. ASSUME NEW m \in Machines, ExpirePending(m)
      PROVE  Typed'
  <2>1. cred' \in [Machines -> Credential]
    BY <1>5, TypedParts DEF ExpirePending, Credential
  <2> QED BY <1>5, <2>1, TypedParts, TypedNext DEF ExpirePending, netVars
<1>6. ASSUME NEW m \in Machines, RollbackInstall(m)
      PROVE  Typed'
  BY <1>6, InstallType DEF RollbackInstall
<1>7. ASSUME NEW m \in Machines, Restart(m)
      PROVE  Typed'
  <2>1. proc' \in [Machines -> Process]
    BY <1>7, StartedType, TypedParts DEF Restart
  <2> QED BY <1>7, <2>1, DetachType, TypedParts, TypedNext DEF Restart, hubVars
<1>8. ASSUME NEW m \in Machines,
             handleRevokeAgentCredential(m) \/ handleDeleteMachine(m)
      PROVE  Typed'
  BY <1>8, RemoveCredentialType DEF handleRevokeAgentCredential, handleDeleteMachine
<1>9. ASSUME NEW m \in Machines, NEW t \in Tokens, handleWindowsReenrollment(t, m)
      PROVE  Typed'
  <2>1. [state |-> "live", target |-> m] \in Token
    BY DEF Token
  <2>2. tok' \in [Tokens -> Token]
    BY <1>9, <2>1, TypedParts DEF handleWindowsReenrollment
  <2> QED BY <1>9, <2>2, TypedParts, TypedNext DEF handleWindowsReenrollment, netVars
<1>10. ASSUME NEW m \in Machines, NEW t \in Tokens, Install(m, t)
       PROVE  Typed'
  BY <1>10, InstallType DEF Install
<1> QED BY <1>1, <1>2, <1>3, <1>4, <1>5, <1>6, <1>7, <1>8, <1>9, <1>10,
           LookupFailsType DEF Environment

LEMMA NextType ==
  ASSUME Typed, [Next]_vars
  PROVE  Typed'
<1>1. CASE UNCHANGED vars
  BY <1>1, TypedParts, TypedNext DEF vars
<1> QED BY <1>1, HubStepType, AgentStepType, EnvironmentType DEF Next

(* Every reachable state is well formed.                                    *)
THEOREM TypeCorrect == Spec => []TypeOK
<1>1. Typed /\ [Next]_vars => Typed'
  BY NextType
<1>2. Typed => TypeOK
  BY DEF Typed
<1> QED BY InitType, <1>1, <1>2, PTL DEF Spec

-----------------------------------------------------------------------------
(* Revocation cuts a machine off.                                          *)

(* A handler still inside the gate that found an identity found one that    *)
(* holds a credential: revocation waits for the gate, and nothing else      *)
(* takes a credential away.                                                 *)
AuthHasCredential ==
  \A c \in Conns : ws[c].phase \in AuthPending /\ ws[c].id # NoMachine
                    => cred[ws[c].id].active # NoSecret

Held == RegisteredHasCredential /\ AuthHasCredential

(* Held survives a step that takes no credential away, registers and        *)
(* identifies only machines that hold one.                                  *)
LEMMA HeldNext ==
  ASSUME Typed, Typed', Held,
         \A m \in Machines : cred[m].active # NoSecret => cred'[m].active # NoSecret,
         \A m \in Machines : agents'[m] \in {NoConn, agents[m]}
                             \/ cred'[m].active # NoSecret,
         \A c \in Conns :
           ws'[c].phase \in AuthPending /\ ws'[c].id # NoMachine =>
             \/ ws[c].phase \in AuthPending /\ ws[c].id = ws'[c].id
             \/ cred'[ws'[c].id].active # NoSecret
  PROVE  Held'
<1>1. \A c \in Conns : ws[c].id \in Machines \cup {NoMachine}
                        /\ ws'[c].id \in Machines \cup {NoMachine}
  BY DEF Typed, TypeOK, Handler
<1>2. RegisteredHasCredential'
  BY DEF Held, RegisteredHasCredential
<1>3. AuthHasCredential'
  <2> SUFFICES ASSUME NEW c \in Conns, ws'[c].phase \in AuthPending,
                      ws'[c].id # NoMachine
               PROVE  cred'[ws'[c].id].active # NoSecret
    BY DEF AuthHasCredential, AuthPending
  <2> QED BY <1>1 DEF Held, AuthHasCredential
<1> QED BY <1>2, <1>3 DEF Held

(* What leaving and registering do to the registry and to other handlers.   *)
LEMMA LeaveHeld ==
  ASSUME Typed, NEW c \in Conns, Leave(c)
  PROVE  /\ \A m \in Machines : agents'[m] \in {NoConn, agents[m]}
         /\ \A d \in Conns : ws'[d].phase \in AuthPending =>
              ws[d].phase \in AuthPending /\ ws[d].id = ws'[d].id
<1>1. \A m \in Machines : agents'[m] \in {NoConn, agents[m]}
  BY DEF Leave
<1>2. ASSUME NEW d \in Conns, ws'[d].phase \in AuthPending
      PROVE  ws[d].phase \in AuthPending /\ ws[d].id = ws'[d].id
  <2>1. FreeHandler.phase \notin AuthPending
    BY DEF FreeHandler, AuthPending
  <2>2. d # c
    BY <1>2, <2>1, TypedParts DEF Leave
  <2> QED BY <1>2, <2>2, TypedParts DEF Leave
<1> QED BY <1>1, <1>2

LEMMA RegisterHeld ==
  ASSUME Typed, NEW m \in Machines, NEW c \in Conns, NEW h, NEW rest,
         h.phase = "live", Register(m, c, h, rest)
  PROVE  /\ \A n \in Machines : agents'[n] = agents[n] \/ n = m
         /\ \A d \in Conns : ws'[d].phase \in AuthPending =>
              ws[d].phase \in AuthPending /\ ws[d].id = ws'[d].id
<1>1. \A n \in Machines : agents'[n] = agents[n] \/ n = m
  BY TypedParts DEF Register
<1>2. ASSUME NEW d \in Conns, ws'[d].phase \in AuthPending
      PROVE  ws[d].phase \in AuthPending /\ ws[d].id = ws'[d].id
  <2>1. d # c
    BY <1>2 DEF Register, AuthPending
  <2>2. CASE ws'[d] = ws[d]
    BY <1>2, <2>2
  <2>3. CASE ws'[d] = [ws[d] EXCEPT !.closed = TRUE]
    <3>1. ws[d] \in Handler
      BY DEF Typed, TypeOK
    <3> QED BY <1>2, <2>3, <3>1 DEF Handler
  <2> QED BY <2>1, <2>2, <2>3 DEF Register
<1> QED BY <1>1, <1>2

LEMMA SecretInvalidHeld ==
  ASSUME Typed, NEW c \in Conns, SecretInvalid(c),
         ws[c].phase \in {"secret", "pending", "cas"}
  PROVE  /\ \A m \in Machines : agents'[m] \in {NoConn, agents[m]}
         /\ \A d \in Conns : ws'[d].phase \in AuthPending =>
              ws[d].phase \in AuthPending /\ ws[d].id = ws'[d].id
<1>1. CASE Reject(c)
  BY <1>1, LeaveHeld DEF Reject
<1>2. CASE ~Reject(c)
  <2>1. /\ ws' = [ws EXCEPT ![c].secret = NoSecret, ![c].phase = "token"]
        /\ UNCHANGED agents
    BY <1>2 DEF SecretInvalid
  <2>2. ASSUME NEW d \in Conns, ws'[d].phase \in AuthPending
        PROVE  ws[d].phase \in AuthPending /\ ws[d].id = ws'[d].id
    <3>1. ws[c] \in Handler /\ ws[d] \in Handler
      BY DEF Typed, TypeOK
    <3>2. CASE d = c
      BY <2>1, <3>1, <3>2, TypedParts DEF AuthPending, Handler
    <3>3. CASE d # c
      BY <2>1, <2>2, <3>3, TypedParts
    <3> QED BY <3>2, <3>3
  <2> QED BY <2>1, <2>2
<1> QED BY <1>1, <1>2

(* A promotion leaves a credential a credential.                            *)
LEMMA AfterCASActive ==
  ASSUME Typed, NEW m \in Machines, NEW s \in Secrets
  PROVE  /\ cred[m].active # NoSecret => AfterCAS(m, s).active # NoSecret
         /\ Promotable(m, s) => AfterCAS(m, s).active = s
         /\ AfterCAS(m, s).active = cred[m].active \/ Promotable(m, s)
BY EnrollmentAssumption DEF AfterCAS, Promotable

(* The steps of the handshake keep Held.                                    *)
LEMMA LookupHeld ==
  ASSUME Typed, Typed', Held, NEW c \in Conns,
         \/ LookupActive(c) \/ LookupPending(c) \/ PromotePending(c)
         \/ LookupFails(c)
  PROVE  Held'
<1>0. ws[c] \in GoodHandler /\ ws[c] \in Handler
  BY TypedParts DEF GoodHandler
<1>1. CASE LookupActive(c)
  <2> DEFINE hit == {m \in Machines : cred[m].active = ws[c].secret}
             h == IF ws[c].secret = NoSecret THEN [ws[c] EXCEPT !.phase = "token"]
                  ELSE IF hit = {} THEN [ws[c] EXCEPT !.phase = "pending"]
                  ELSE [ws[c] EXCEPT !.phase = "token", !.id = CHOOSE m \in hit : TRUE]
  <2>1. ws' = [ws EXCEPT ![c] = h] /\ UNCHANGED <<cred, agents>>
    BY <1>1 DEF LookupActive
  <2>2. hit # {} => (CHOOSE m \in hit : TRUE) \in hit
    OBVIOUS
  <2>3. h.id # NoMachine =>
          (ws[c].phase \in AuthPending /\ ws[c].id = h.id) \/ cred[h.id].active # NoSecret
    <3>1. ws[c].phase \in AuthPending
      BY <1>1 DEF LookupActive, AuthPending
    <3>2. CASE ws[c].secret = NoSecret \/ hit = {}
      <4>1. h.id = ws[c].id
        <5> HIDE DEF hit
        <5> QED BY <1>0, <3>2 DEF Handler
      <4> QED BY <3>1, <4>1
    <3>3. CASE ws[c].secret # NoSecret /\ hit # {}
      <4>1. h.id = CHOOSE m \in hit : TRUE
        <5> HIDE DEF hit
        <5> QED BY <1>0, <3>3 DEF Handler
      <4>2. h.id \in hit
        BY <2>2, <3>3, <4>1
      <4> HIDE DEF h
      <4> QED BY <3>3, <4>2
    <3> QED BY <3>2, <3>3
  <2> HIDE DEF h
  <2> QED BY <2>1, <2>3, HeldNext, TypedParts
<1>2. CASE LookupPending(c)
  <2>1. CASE SecretInvalid(c)
    BY <1>2, <2>1, SecretInvalidHeld, HeldNext DEF LookupPending
  <2>2. CASE ~SecretInvalid(c)
    <3>1. /\ ws' = [ws EXCEPT ![c].phase = "cas"] /\ ws[c].phase = "pending"
          /\ UNCHANGED <<agents, cred>>
      BY <1>2, <2>2 DEF LookupPending
    <3>2. ws'[c].id = ws[c].id
      BY <1>0, <3>1, TypedParts DEF Handler
    <3>3. ws[c].phase \in AuthPending
      BY <3>1 DEF AuthPending
    <3>4. \A d \in Conns : d # c => ws'[d] = ws[d]
      BY <3>1, TypedParts
    <3> QED BY <3>1, <3>2, <3>3, <3>4, HeldNext
  <2> QED BY <2>1, <2>2
<1>3. CASE PromotePending(c)
  <2> DEFINE s == ws[c].secret
  <2>1. /\ ws[c].phase = "cas" /\ s \in Secrets
        /\ cred' = [m \in Machines |-> AfterCAS(m, s)]
    BY <1>0, <1>3 DEF PromotePending, GoodHandler, Handler
  <2>2. \A m \in Machines : cred[m].active # NoSecret => cred'[m].active # NoSecret
    BY <2>1, AfterCASActive
  <2>3. CASE SecretInvalid(c)
    BY <2>1, <2>2, <2>3, SecretInvalidHeld, HeldNext
  <2>4. CASE ~SecretInvalid(c)
    <3>1. PICK m \in Machines :
            /\ Promotable(m, s) \/ cred[m].active = s
            /\ \/ ws' = [ws EXCEPT ![c].phase = "token", ![c].id = m, ![c].promoted = TRUE]
               \/ ws' = [ws EXCEPT ![c].phase = "token", ![c].id = m]
            /\ UNCHANGED <<agents, netVars>>
      BY <1>3, <2>4 DEF PromotePending
    <3>2. cred'[m].active # NoSecret
      BY <2>1, <2>2, <3>1, AfterCASActive, EnrollmentAssumption
    <3>3. ws'[c].id = m
      BY <1>0, <3>1, TypedParts DEF Handler
    <3>4. \A d \in Conns : d # c => ws'[d] = ws[d]
      BY <3>1, TypedParts
    <3> QED BY <2>2, <3>1, <3>2, <3>3, <3>4, HeldNext
  <2> QED BY <2>3, <2>4
<1>4. CASE LookupFails(c)
  <2>1. CASE ws[c].phase \in {"pending", "cas"} /\ SecretInvalid(c)
    BY <1>4, <2>1, SecretInvalidHeld, HeldNext DEF LookupFails
  <2>2. CASE ~(ws[c].phase \in {"pending", "cas"} /\ SecretInvalid(c))
    <3>1. /\ ws' = [ws EXCEPT ![c].phase = "pending"] /\ ws[c].phase = "secret"
          /\ UNCHANGED <<agents, cred>>
      BY <1>4, <2>2 DEF LookupFails
    <3>2. ws'[c].id = ws[c].id
      BY <1>0, <3>1, TypedParts DEF Handler
    <3>3. ws[c].phase \in AuthPending
      BY <3>1 DEF AuthPending
    <3>4. \A d \in Conns : d # c => ws'[d] = ws[d]
      BY <3>1, TypedParts
    <3> QED BY <3>1, <3>2, <3>3, <3>4, HeldNext
  <2> QED BY <2>1, <2>2
<1> QED BY <1>1, <1>2, <1>3, <1>4

LEMMA VerifyTokenHeld ==
  ASSUME Typed, Typed', Held, NEW c \in Conns, VerifyToken(c)
  PROVE  Held'
<1> DEFINE sent == IF Attached(c) THEN <<"metrics">> ELSE <<>>
           h == [ws[c] EXCEPT !.phase = "live"]
<1>1. ws[c] \in Handler /\ ws[c].phase = "token" /\ UNCHANGED cred
  BY DEF VerifyToken, Typed, TypeOK
<1>2. ws[c].phase \in AuthPending
  BY <1>1 DEF AuthPending
<1>3. CASE Reject(c)
  BY <1>1, <1>3, LeaveHeld, HeldNext DEF Reject
<1>4. CASE ws[c].id # NoMachine /\ Register(ws[c].id, c, h, sent)
  <2>1. ws[c].id \in Machines /\ h.phase = "live"
    BY <1>1, <1>4 DEF Handler
  <2>2. cred[ws[c].id].active # NoSecret
    BY <1>2, <1>4 DEF Held, AuthHasCredential
  <2> HIDE DEF h, sent
  <2> QED BY <1>1, <1>4, <2>1, <2>2, RegisterHeld, HeldNext
<1>5. CASE ws' = [ws EXCEPT ![c].phase = "open"] /\ UNCHANGED <<agents, down>>
  <2>1. ws'[c].id = ws[c].id
    BY <1>1, <1>5, TypedParts DEF Handler
  <2>2. \A d \in Conns : d # c => ws'[d] = ws[d]
    BY <1>5, TypedParts
  <2> QED BY <1>1, <1>2, <1>5, <2>1, <2>2, HeldNext
<1> QED BY <1>3, <1>4, <1>5 DEF VerifyToken

(* The handling of frames keeps Held.                                       *)
LEMMA FrameHeld ==
  ASSUME Typed, Typed', Held, NEW c \in Conns,
         \/ StageReenrollment(c) \/ IssueFresh(c) \/ CommitFresh(c)
         \/ ReadLive(c) \/ PromoteStaged(c)
  PROVE  Held'
<1> DEFINE m == ws[c].peer
<1>0. ws[c] \in GoodHandler /\ ws[c] \in Handler
  BY TypedParts DEF GoodHandler
<1>1. CASE StageReenrollment(c)
  <2>1. m \in Machines /\ cred[m].active # NoSecret
    BY <1>0, <1>1 DEF StageReenrollment, MayStage, GoodHandler
  <2>2. PICK s \in FreshSecrets :
          /\ cred' = [cred EXCEPT ![m] = StagedRow(m, s)]
          /\ \/ Register(m, c, [ws[c] EXCEPT !.phase = "live", !.issued = s], Tail(up[c]))
             \/ Leave(c)
    BY <1>1 DEF StageReenrollment
  <2>3. \A n \in Machines : cred'[n].active = cred[n].active
    BY <2>2, TypedParts DEF StagedRow
  <2>4. [ws[c] EXCEPT !.phase = "live", !.issued = s].phase = "live"
    BY <1>0 DEF Handler
  <2> HIDE DEF m
  <2>5. CASE Leave(c)
    BY <2>3, <2>5, LeaveHeld, HeldNext
  <2>6. CASE ~Leave(c)
    BY <2>1, <2>2, <2>3, <2>4, <2>6, RegisterHeld, HeldNext
  <2> QED BY <2>5, <2>6
<1>2. CASE IssueFresh(c)
  <2>1. PICK s \in FreshSecrets : ws' = [ws EXCEPT ![c].phase = "fresh", ![c].issued = s]
    BY <1>2 DEF IssueFresh
  <2>2. ws'[c].id = ws[c].id
    BY <1>0, <2>1, TypedParts DEF Handler
  <2>3. ws[c].phase \in AuthPending
    BY <1>2 DEF IssueFresh, AuthPending
  <2>4. \A d \in Conns : d # c => ws'[d] = ws[d]
    BY <2>1, TypedParts
  <2> QED BY <1>2, <2>2, <2>3, <2>4, HeldNext DEF IssueFresh
<1>3. CASE CommitFresh(c)
  <2>1. CASE Leave(c) /\ UNCHANGED cred
    BY <2>1, LeaveHeld, HeldNext
  <2>2. CASE ~(Leave(c) /\ UNCHANGED cred)
    <3> DEFINE s == ws[c].issued
               h == [ws[c] EXCEPT !.phase = "live", !.issued = NoSecret]
    <3>1. m \in Machines /\ s \in Secrets /\ h.phase = "live"
      BY <1>0, <1>3 DEF CommitFresh, GoodHandler, Handler
    <3>2. /\ cred' = [cred EXCEPT ![m] = [NoCredential EXCEPT !.active = s]]
          /\ Register(m, c, h, Tail(up[c]))
      BY <1>3, <2>2 DEF CommitFresh
    <3>3. cred'[m].active = s /\ \A n \in Machines : n # m => cred'[n] = cred[n]
      BY <3>1, <3>2, TypedParts DEF NoCredential
    <3> HIDE DEF m, s, h
    <3> QED BY <3>1, <3>2, <3>3, RegisterHeld, HeldNext, EnrollmentAssumption
  <2> QED BY <2>1, <2>2
<1>4. CASE ReadLive(c)
  <2>1. CASE Leave(c)
    BY <1>4, <2>1, LeaveHeld, HeldNext DEF ReadLive
  <2>2. CASE ~Leave(c)
    <3>1. /\ UNCHANGED <<agents, cred>>
          /\ ws' = ws \/ ws' = [ws EXCEPT ![c].phase = "promote"]
      BY <1>4, <2>2 DEF ReadLive
    <3>2. \A d \in Conns : ws'[d].phase \in AuthPending => ws'[d] = ws[d]
      BY <1>0, <3>1, TypedParts DEF Handler, AuthPending
    <3> QED BY <3>1, <3>2, HeldNext
  <2> QED BY <2>1, <2>2
<1>5. CASE PromoteStaged(c)
  <2> DEFINE s == ws[c].issued
  <2>1. m \in Machines /\ s \in Secrets
    BY <1>0, <1>5 DEF PromoteStaged, GoodHandler, Handler
  <2>2. \A n \in Machines : cred[n].active # NoSecret => cred'[n].active # NoSecret
    BY <1>5, <2>1, AfterCASActive, TypedParts DEF PromoteStaged
  <2>3. CASE Leave(c)
    BY <2>2, <2>3, LeaveHeld, HeldNext
  <2>4. CASE ~Leave(c)
    <3>1. /\ ws' = [ws EXCEPT ![c].phase = "live", ![c].issued = NoSecret]
          /\ UNCHANGED agents
      BY <1>5, <2>4 DEF PromoteStaged
    <3>2. \A d \in Conns : ws'[d].phase \in AuthPending => ws'[d] = ws[d]
      BY <1>0, <3>1, TypedParts DEF Handler, AuthPending
    <3> QED BY <2>2, <3>1, <3>2, HeldNext
  <2> QED BY <2>3, <2>4
<1> QED BY <1>1, <1>2, <1>3, <1>4, <1>5

(* Only revocation and deletion take a credential away, and they wait for   *)
(* every handler inside the gate and close the registered socket.           *)
LEMMA RemoveHeld ==
  ASSUME Typed, Typed', Held, NEW m \in Machines, RemoveCredential(m)
  PROVE  Held'
<1>1. RegisteredHasCredential'
  BY TypedParts DEF RemoveCredential, Held, RegisteredHasCredential
<1>2. \A c \in Conns : ws'[c].phase \notin AuthPending
  <2>1. \A c \in Conns : ws'[c].phase = ws[c].phase
    <3>1. \A c \in Conns : ws[c] \in Handler
      BY DEF Typed, TypeOK
    <3> QED BY <3>1 DEF RemoveCredential, Handler
  <2> QED BY <2>1 DEF RemoveCredential, AuthIdle
<1> QED BY <1>1, <1>2 DEF Held, AuthHasCredential, AuthPending

LEMMA NextHeld ==
  ASSUME Typed, Typed', Held, [Next]_vars
  PROVE  Held'
<1>1. CASE UNCHANGED <<cred, agents, ws>>
  BY <1>1, HeldNext
<1>2. ASSUME NEW c \in Conns, HubStep(c) PROVE Held'
  <2>1. CASE RefuseEnrollment(c) \/ ReadError(c)
    BY <2>1, LeaveHeld, HeldNext DEF RefuseEnrollment, ReadError
  <2> QED BY <1>2, <2>1, LookupHeld, VerifyTokenHeld, FrameHeld DEF HubStep
<1>3. ASSUME NEW m \in Machines, AgentStep(m) PROVE Held'
  <2>1. ASSUME NEW c \in Conns, Dial(m, c) PROVE Held'
    <3>1. ws'[c].id = NoMachine
      BY <2>1, TypedParts DEF Dial, FreeHandler
    <3>2. \A d \in Conns : d # c => ws'[d] = ws[d]
      BY <2>1, TypedParts DEF Dial
    <3> QED BY <2>1, <3>1, <3>2, HeldNext DEF Dial
  <2>2. CASE \/ Disconnect(m) \/ ReceiveRejection(m)
             \/ handleEnrolledFrame(m) \/ handleEnrollmentConfirmed(m)
    <3>1. UNCHANGED hubVars
      BY <2>2 DEF Disconnect, ReceiveRejection, handleEnrolledFrame,
                  handleEnrollmentConfirmed
    <3> QED BY <1>1, <3>1 DEF hubVars
  <2> QED BY <1>3, <2>1, <2>2 DEF AgentStep
<1>4. CASE Environment
  <2>1. CASE HubRestart
    <3>1. \A c \in Conns : ws'[c].phase \notin AuthPending
      BY <2>1 DEF HubRestart, FreeHandler, AuthPending
    <3> QED BY <2>1, <3>1, HeldNext DEF HubRestart
  <2>2. CASE deleteExpiredTokens
    BY <1>1, <2>2 DEF deleteExpiredTokens
  <2>3. CASE CalmDown
    BY <1>1, <2>3 DEF CalmDown, hubVars
  <2>4. ASSUME NEW t \in Tokens, handleCreateToken(t) \/ ExpireToken(t)
        PROVE  Held'
    BY <1>1, <2>4 DEF handleCreateToken, ExpireToken
  <2>5. ASSUME NEW m \in Machines, ExpirePending(m)
        PROVE  Held'
    <3>1. \A n \in Machines : cred'[n].active = cred[n].active
      <4>1. \A n \in Machines : cred[n] \in Credential
        BY TypedParts
      <4> QED BY <2>5, <4>1, TypedParts DEF ExpirePending, Credential
    <3> QED BY <2>5, <3>1, HeldNext DEF ExpirePending
  <2>6. ASSUME NEW m \in Machines, RollbackInstall(m) \/ Restart(m)
        PROVE  Held'
    <3>1. UNCHANGED hubVars
      BY <2>6 DEF RollbackInstall, Restart
    <3> QED BY <1>1, <3>1 DEF hubVars
  <2>7. ASSUME NEW m \in Machines,
               handleRevokeAgentCredential(m) \/ handleDeleteMachine(m)
        PROVE  Held'
    BY <2>7, RemoveHeld DEF handleRevokeAgentCredential, handleDeleteMachine
  <2>8. ASSUME NEW m \in Machines, NEW t \in Tokens,
               handleWindowsReenrollment(t, m) \/ Install(m, t)
        PROVE  Held'
    <3>1. UNCHANGED <<cred, agents, ws>>
      BY <2>8 DEF handleWindowsReenrollment, Install, hubVars
    <3> QED BY <1>1, <3>1
  <2> QED BY <1>4, <2>1, <2>2, <2>3, <2>4, <2>5, <2>6, <2>7, <2>8, LookupHeld
          DEF Environment
<1> QED BY <1>1, <1>2, <1>3, <1>4 DEF Next, vars

(* A registered socket always belongs to a machine with a credential, so    *)
(* handleRevokeAgentCredential and handleDeleteMachine leave no socket of   *)
(* the machine able to act, however handshakes and revocations interleave.  *)
THEOREM RevocationCutsOff == Spec => []RegisteredHasCredential
<1>1. Init => Held
  BY DEF Init, Held, RegisteredHasCredential, AuthHasCredential, FreeHandler, AuthPending
<1>2. Typed /\ Held /\ [Next]_vars => (Typed /\ Held)'
  BY NextType, NextHeld
<1>3. Held => RegisteredHasCredential
  BY DEF Held
<1> QED BY InitType, <1>1, <1>2, <1>3, PTL DEF Spec

-----------------------------------------------------------------------------
(* A credential is replaced only by the one staged beside it.              *)

(* A handler's step that gives an enrolled machine another active secret    *)
(* gives it the pending one, before its deadline.                           *)
LEMMA HubStepReplaces ==
  ASSUME Typed, NEW c \in Conns, HubStep(c) \/ LookupFails(c), NEW m \in Machines,
         cred[m].active # NoSecret,
         cred'[m].active \notin {NoSecret, cred[m].active}
  PROVE  cred'[m].active = cred[m].pending /\ ~cred[m].expired
<1>0. ws[c] \in GoodHandler /\ ws[c] \in Handler
  BY TypedParts DEF GoodHandler
<1>1. CASE UNCHANGED cred
  BY <1>1
<1>2. CASE PromotePending(c)
  <2>1. ws[c].secret \in Secrets /\ cred'[m] = AfterCAS(m, ws[c].secret)
    BY <1>0, <1>2 DEF PromotePending, GoodHandler, Handler
  <2> QED BY <2>1, AfterCASActive DEF Promotable
<1>3. CASE PromoteStaged(c)
  <2>1. ws[c].issued \in Secrets
    BY <1>0, <1>3 DEF PromoteStaged, GoodHandler, Handler
  <2>2. cred'[m] \in {cred[m], AfterCAS(m, ws[c].issued)}
    BY <1>3, TypedParts DEF PromoteStaged
  <2> QED BY <2>1, <2>2, AfterCASActive DEF Promotable
<1>4. CASE StageReenrollment(c)
  <2>1. cred'[m].active = cred[m].active
    BY <1>4, TypedParts DEF StageReenrollment, StagedRow
  <2> QED BY <2>1
<1>5. CASE CommitFresh(c)
  <2>1. CASE MayConsume(ws[c].token, ws[c].peer)
    <3>1. ws[c].peer # m
      BY <2>1 DEF MayConsume
    <3>2. cred'[m] = cred[m]
      BY <1>5, <2>1, <3>1, TypedParts DEF CommitFresh
    <3> QED BY <3>2
  <2>2. CASE ~MayConsume(ws[c].token, ws[c].peer)
    BY <1>1, <1>5, <2>2 DEF CommitFresh
  <2> QED BY <2>1, <2>2
<1>6. CASE \/ LookupActive(c) \/ LookupPending(c) \/ LookupFails(c) \/ VerifyToken(c)
           \/ RefuseEnrollment(c) \/ IssueFresh(c) \/ ReadLive(c) \/ ReadError(c)
  BY <1>1, <1>6 DEF LookupActive, LookupPending, LookupFails, VerifyToken,
                    RefuseEnrollment, IssueFresh, ReadLive, ReadError
<1> QED BY <1>2, <1>3, <1>4, <1>5, <1>6 DEF HubStep

LEMMA NextReplaces ==
  ASSUME Typed, [Next]_vars, NEW m \in Machines,
         cred[m].active # NoSecret,
         cred'[m].active \notin {NoSecret, cred[m].active}
  PROVE  cred'[m].active = cred[m].pending /\ ~cred[m].expired
<1>1. CASE UNCHANGED cred
  BY <1>1
<1>2. ASSUME NEW n \in Machines, AgentStep(n) PROVE UNCHANGED cred
  BY <1>2 DEF AgentStep, Dial, Disconnect, ReceiveRejection, handleEnrolledFrame,
              handleEnrollmentConfirmed, hubVars
<1>3. CASE Environment
  <2>1. ASSUME NEW n \in Machines, ExpirePending(n) PROVE cred'[m].active = cred[m].active
    <3>1. cred[m] \in Credential /\ cred[n] \in Credential
      BY TypedParts
    <3> QED BY <2>1, <3>1, TypedParts DEF ExpirePending, Credential
  <2>2. ASSUME NEW n \in Machines,
               handleRevokeAgentCredential(n) \/ handleDeleteMachine(n)
        PROVE  cred'[m] = cred[m] \/ cred'[m].active = NoSecret
    BY <2>2, TypedParts DEF handleRevokeAgentCredential, handleDeleteMachine,
                            RemoveCredential, NoCredential
  <2>3. ASSUME NEW t \in Tokens, handleCreateToken(t) \/ ExpireToken(t)
        PROVE  UNCHANGED cred
    BY <2>3 DEF handleCreateToken, ExpireToken
  <2>4. ASSUME NEW n \in Machines, RollbackInstall(n) \/ Restart(n)
        PROVE  UNCHANGED cred
    BY <2>4 DEF RollbackInstall, Restart, hubVars
  <2>5. ASSUME NEW n \in Machines, NEW t \in Tokens,
               handleWindowsReenrollment(t, n) \/ Install(n, t)
        PROVE  UNCHANGED cred
    BY <2>5 DEF handleWindowsReenrollment, Install, hubVars
  <2>6. ASSUME CalmDown \/ deleteExpiredTokens \/ HubRestart
        PROVE  UNCHANGED cred
    BY <2>6 DEF CalmDown, deleteExpiredTokens, HubRestart, hubVars
  <2> QED BY <1>1, <1>3, <2>1, <2>2, <2>3, <2>4, <2>5, <2>6, HubStepReplaces
          DEF Environment
<1> QED BY <1>1, <1>2, <1>3, HubStepReplaces DEF Next, vars

(* Whatever tokens are minted and frames reordered, an enrolled machine's   *)
(* credential changes only to the secret stageTargetedCredential put beside *)
(* it, and only before pending_secret_expires_at; a generic token never     *)
(* takes a machine over.                                                    *)
THEOREM OnlyStagedReplaces == Spec => ReplacedOnlyByStaged
<1>1. Typed /\ [Next]_vars => Typed'
  BY NextType
<1>2. Typed /\ [Next]_vars =>
        [\A m \in Machines :
           cred[m].active # NoSecret /\ cred'[m].active \notin {NoSecret, cred[m].active}
           => cred'[m].active = cred[m].pending /\ ~cred[m].expired]_vars
  BY NextReplaces
<1> QED BY InitType, <1>1, <1>2, PTL DEF Spec, ReplacedOnlyByStaged

-----------------------------------------------------------------------------
(* Every credential is paid for by a token.                                *)

Holders == {m \in Machines : cred[m].active # NoSecret}
Spent == {t \in Tokens : tok[t].state = "used"}

(* A secret is staged beside an active one only, so a promotion enrolls no  *)
(* machine that was not; and both sides of the account are finite.          *)
Paid ==
  /\ \A m \in Machines : cred[m].pending # NoSecret => cred[m].active # NoSecret
  /\ IsFiniteSet(Holders) /\ IsFiniteSet(Spent)
  /\ CredentialsPaid

(* A step that enrolls nobody and unspends no token keeps the account.      *)
LEMMA PaidNext ==
  ASSUME Paid,
         \A m \in Machines : cred'[m].pending # NoSecret => cred'[m].active # NoSecret,
         Holders' \subseteq Holders,
         Spent' = Spent \/ \E t : t \notin Spent /\ Spent' = Spent \cup {t}
  PROVE  Paid'
<1>1. IsFiniteSet(Holders') /\ Cardinality(Holders') <= Cardinality(Holders)
  BY FS_Subset DEF Paid
<1>2. IsFiniteSet(Spent') /\ Cardinality(Spent) <= Cardinality(Spent')
  <2>1. IsFiniteSet(Spent) /\ Cardinality(Spent) \in Nat
    BY FS_CardinalityType DEF Paid
  <2>2. ASSUME NEW t, t \notin Spent, Spent' = Spent \cup {t}
        PROVE  IsFiniteSet(Spent') /\ Cardinality(Spent') = Cardinality(Spent) + 1
    BY <2>1, <2>2, FS_AddElement
  <2>3. CASE Spent' = Spent
    BY <2>1, <2>3
  <2> QED BY <2>1, <2>2, <2>3
<1>3. /\ Cardinality(Enrolled) \in Nat /\ Cardinality(Spent) \in Nat
      /\ Cardinality(Spent') \in Nat
      /\ Cardinality(Holders) \in Nat /\ Cardinality(Holders') \in Nat
  BY <1>1, <1>2, EnrollmentAssumption, FS_CardinalityType DEF Paid
<1>4. Cardinality(Holders) <= Cardinality(Enrolled) + Cardinality(Spent)
  BY DEF Paid, CredentialsPaid, Holders, Spent
<1>5. Cardinality(Holders') <= Cardinality(Enrolled) + Cardinality(Spent')
  BY <1>1, <1>2, <1>3, <1>4
<1> QED BY <1>1, <1>2, <1>5 DEF Paid, CredentialsPaid, Holders, Spent

(* A machine that is enrolled by spending a live token is paid for.         *)
LEMMA PaidByToken ==
  ASSUME Paid, NEW m, NEW t,
         \A n \in Machines : cred'[n].pending # NoSecret => cred'[n].active # NoSecret,
         t \notin Spent, Holders' = Holders \cup {m}, Spent' = Spent \cup {t}
  PROVE  Paid'
<1>1. IsFiniteSet(Holders') /\ Cardinality(Holders') <= Cardinality(Holders) + 1
  <2>1. IsFiniteSet(Holders) /\ Cardinality(Holders) \in Nat
    BY FS_CardinalityType DEF Paid
  <2>2. /\ IsFiniteSet(Holders \cup {m})
        /\ Cardinality(Holders \cup {m}) \in {Cardinality(Holders), Cardinality(Holders) + 1}
    BY <2>1, FS_AddElement
  <2> QED BY <2>1, <2>2
<1>2. IsFiniteSet(Spent') /\ Cardinality(Spent') = Cardinality(Spent) + 1
  BY FS_AddElement DEF Paid
<1>3. /\ Cardinality(Enrolled) \in Nat /\ Cardinality(Spent) \in Nat
      /\ Cardinality(Holders) \in Nat /\ Cardinality(Holders') \in Nat
  BY <1>1, EnrollmentAssumption, FS_CardinalityType DEF Paid
<1>4. Cardinality(Holders) <= Cardinality(Enrolled) + Cardinality(Spent)
  BY DEF Paid, CredentialsPaid, Holders, Spent
<1>5. Cardinality(Holders') <= Cardinality(Enrolled) + Cardinality(Spent')
  BY <1>1, <1>2, <1>3, <1>4
<1> QED BY <1>1, <1>2, <1>5 DEF Paid, CredentialsPaid, Holders, Spent

(* A promotion enrolls nobody: the row it promotes has an active secret.    *)
LEMMA AfterCASPaid ==
  ASSUME Typed, Paid, NEW m \in Machines, NEW s \in Secrets
  PROVE  /\ AfterCAS(m, s).active # NoSecret => cred[m].active # NoSecret
         /\ AfterCAS(m, s).pending # NoSecret => AfterCAS(m, s).active # NoSecret
BY EnrollmentAssumption DEF AfterCAS, Paid

(* The steps of a handler keep the account.                                 *)
LEMMA HubStepPaid ==
  ASSUME Typed, Paid, NEW c \in Conns, HubStep(c) \/ LookupFails(c)
  PROVE  Paid'
<1>0. ws[c] \in GoodHandler /\ ws[c] \in Handler
  BY TypedParts DEF GoodHandler
<1>1. CASE UNCHANGED <<cred, tok>>
  BY <1>1, PaidNext DEF Holders, Spent, Paid
<1>2. CASE PromotePending(c)
  <2>1. ws[c].secret \in Secrets
    BY <1>0, <1>2 DEF PromotePending, GoodHandler, Handler
  <2>2. \A m \in Machines : cred'[m] = AfterCAS(m, ws[c].secret)
    BY <1>2 DEF PromotePending
  <2>3. UNCHANGED tok
    BY <1>2 DEF PromotePending
  <2> QED BY <2>1, <2>2, <2>3, AfterCASPaid, PaidNext DEF Holders, Spent
<1>3. CASE PromoteStaged(c)
  <2>1. ws[c].issued \in Secrets
    BY <1>0, <1>3 DEF PromoteStaged, GoodHandler, Handler
  <2>2. \A m \in Machines : cred'[m] \in {cred[m], AfterCAS(m, ws[c].issued)}
    BY <1>3, TypedParts DEF PromoteStaged
  <2>3. UNCHANGED tok
    BY <1>3 DEF PromoteStaged
  <2>4. \A m \in Machines : cred[m].pending # NoSecret => cred[m].active # NoSecret
    BY DEF Paid
  <2> QED BY <2>1, <2>2, <2>3, <2>4, AfterCASPaid, PaidNext DEF Holders, Spent
<1>4. CASE StageReenrollment(c)
  <2> DEFINE m == ws[c].peer  t == ws[c].token
  <2>1. cred[m].active # NoSecret /\ tok[t].state = "live" /\ t \in Tokens
    BY <1>0, <1>4 DEF StageReenrollment, MayStage, TokenValid, Handler
  <2>2. tok' = [tok EXCEPT ![t].state = "used"]
    BY <1>4 DEF StageReenrollment
  <2>3. \A n \in Machines : cred'[n].active = cred[n].active
    BY <1>4, TypedParts DEF StageReenrollment, StagedRow
  <2>4. \A n \in Machines : n # m => cred'[n] = cred[n]
    BY <1>4, TypedParts DEF StageReenrollment
  <2>5. t \notin Spent /\ Spent' = Spent \cup {t}
    BY <2>1, <2>2, TypedParts DEF Spent, Token
  <2>6. \A n \in Machines : cred'[n].pending # NoSecret => cred'[n].active # NoSecret
    BY <2>1, <2>3, <2>4 DEF Paid
  <2> QED BY <2>3, <2>5, <2>6, PaidNext DEF Holders
<1>5. CASE CommitFresh(c)
  <2> DEFINE m == ws[c].peer  t == ws[c].token
  <2>1. CASE MayConsume(t, m)
    <3>1. tok[t].state = "live" /\ t \in Tokens
      BY <1>0, <2>1 DEF MayConsume, TokenValid, Handler
    <3>2. m \in Machines /\ ws[c].issued # NoSecret
      BY <1>0, <1>5 DEF CommitFresh, GoodHandler
    <3>3. tok' = [tok EXCEPT ![t].state = "used"]
      BY <1>5, <2>1 DEF CommitFresh
    <3>4. cred' = [cred EXCEPT ![m] = [NoCredential EXCEPT !.active = ws[c].issued]]
      BY <1>5, <2>1 DEF CommitFresh
    <3>5. t \notin Spent /\ Spent' = Spent \cup {t}
      BY <3>1, <3>3, TypedParts DEF Spent, Token
    <3>6. cred'[m].active # NoSecret /\ \A n \in Machines : n # m => cred'[n] = cred[n]
      BY <3>2, <3>4, TypedParts DEF NoCredential
    <3>7. Holders' = Holders \cup {m}
      BY <3>2, <3>6 DEF Holders
    <3>8. \A n \in Machines : cred'[n].pending # NoSecret => cred'[n].active # NoSecret
      BY <3>6 DEF Paid
    <3> QED BY <3>5, <3>7, <3>8, PaidByToken
  <2>2. CASE ~MayConsume(t, m)
    BY <1>1, <1>5, <2>2 DEF CommitFresh
  <2> QED BY <2>1, <2>2
<1>6. CASE \/ LookupActive(c) \/ LookupPending(c) \/ LookupFails(c) \/ VerifyToken(c)
           \/ RefuseEnrollment(c) \/ IssueFresh(c) \/ ReadLive(c) \/ ReadError(c)
  BY <1>1, <1>6 DEF LookupActive, LookupPending, LookupFails, VerifyToken,
                    RefuseEnrollment, IssueFresh, ReadLive, ReadError
<1> QED BY <1>2, <1>3, <1>4, <1>5, <1>6 DEF HubStep

(* So does every step of the system.                                        *)
LEMMA NextPaid ==
  ASSUME Typed, Paid, [Next]_vars
  PROVE  Paid'
<1>1. CASE UNCHANGED <<cred, tok>>
  BY <1>1, PaidNext DEF Holders, Spent, Paid
<1>2. ASSUME NEW n \in Machines, AgentStep(n) PROVE Paid'
  BY <1>1, <1>2 DEF AgentStep, Dial, Disconnect, ReceiveRejection,
     handleEnrolledFrame, handleEnrollmentConfirmed, hubVars
<1>3. CASE Environment
  <2>1. ASSUME NEW n \in Machines, ExpirePending(n) PROVE Paid'
    <3>1. \A m \in Machines :
            cred'[m].active = cred[m].active /\ cred'[m].pending = cred[m].pending
      BY <2>1, TypedParts DEF ExpirePending, Credential
    <3> QED BY <2>1, <3>1, PaidNext DEF ExpirePending, Holders, Spent, Paid
  <2>2. ASSUME NEW n \in Machines,
               handleRevokeAgentCredential(n) \/ handleDeleteMachine(n)
        PROVE  Paid'
    <3>1. \A m \in Machines : cred'[m] = cred[m] \/ cred'[m] = NoCredential
      BY <2>2, TypedParts DEF handleRevokeAgentCredential, handleDeleteMachine,
                              RemoveCredential
    <3>2. UNCHANGED tok
      BY <2>2 DEF handleRevokeAgentCredential, handleDeleteMachine, RemoveCredential
    <3> QED BY <3>1, <3>2, PaidNext DEF Holders, Spent, Paid, NoCredential
  <2>3. ASSUME NEW t \in Tokens, handleCreateToken(t) \/ ExpireToken(t)
        PROVE  Paid'
    <3>1. Spent' = Spent /\ UNCHANGED cred
      BY <2>3, TypedParts DEF handleCreateToken, ExpireToken, Spent, Token
    <3> QED BY <3>1, PaidNext DEF Holders, Paid
  <2>4. ASSUME NEW n \in Machines, NEW t \in Tokens, handleWindowsReenrollment(t, n)
        PROVE  Paid'
    <3>1. Spent' = Spent /\ UNCHANGED cred
      BY <2>4, TypedParts DEF handleWindowsReenrollment, Spent, Token
    <3> QED BY <3>1, PaidNext DEF Holders, Paid
  <2>5. ASSUME deleteExpiredTokens PROVE Paid'
    <3>1. Spent' = Spent /\ UNCHANGED cred
      BY <2>5, TypedParts DEF deleteExpiredTokens, Spent, Token
    <3> QED BY <3>1, PaidNext DEF Holders, Paid
  <2>6. ASSUME NEW n \in Machines,
               RollbackInstall(n) \/ Restart(n) \/ \E t \in Tokens : Install(n, t)
        PROVE  Paid'
    BY <1>1, <2>6 DEF RollbackInstall, Restart, Install, hubVars
  <2>7. ASSUME CalmDown \/ HubRestart PROVE Paid'
    BY <1>1, <2>7 DEF CalmDown, HubRestart, hubVars
  <2> QED BY <1>3, <2>1, <2>2, <2>3, <2>4, <2>5, <2>6, <2>7, HubStepPaid
          DEF Environment
<1>4. CASE UNCHANGED vars
  BY <1>1, <1>4 DEF vars
<1> QED BY <1>2, <1>3, <1>4, HubStepPaid DEF Next

(* At first the credentials are those of the enrolled machines.             *)
LEMMA InitPaid == Init => Paid
<1> SUFFICES ASSUME Init PROVE Paid
  OBVIOUS
<1>1. PICK s \in [Machines -> Secrets \cup {NoSecret}] :
        /\ \A m \in Machines : s[m] = NoSecret <=> m \notin Enrolled
        /\ cred = [m \in Machines |-> [NoCredential EXCEPT !.active = s[m]]]
  BY DEF Init
<1>2. \A m \in Machines : cred[m].active = s[m] /\ cred[m].pending = NoSecret
  BY <1>1 DEF NoCredential
<1>3. Holders = Enrolled
  BY <1>1, <1>2, EnrollmentAssumption DEF Holders
<1>4. Spent = {}
  BY DEF Init, Spent
<1>5. IsFiniteSet(Spent) /\ Cardinality(Spent) = 0
  BY <1>4, FS_EmptySet
<1>6. Cardinality(Enrolled) \in Nat
  BY EnrollmentAssumption, FS_CardinalityType
<1>7. Cardinality(Holders) <= Cardinality(Enrolled) + Cardinality(Spent)
  BY <1>3, <1>5, <1>6
<1> QED BY <1>2, <1>3, <1>5, <1>7, EnrollmentAssumption
        DEF Paid, CredentialsPaid, Holders, Spent

(* However handshakes, commits and promotions of two machines that run the  *)
(* same install command interleave, there are never more credentials than   *)
(* the initial ones and one per spent token.                                *)
THEOREM OneTokenOneMachine == Spec => []CredentialsPaid
<1>1. Typed /\ Paid /\ [Next]_vars => (Typed /\ Paid)'
  BY NextType, NextPaid
<1>2. Paid => CredentialsPaid
  BY DEF Paid
<1> QED BY InitType, InitPaid, <1>1, <1>2, PTL DEF Spec
=============================================================================
