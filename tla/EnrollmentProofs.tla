-------------------------- MODULE EnrollmentProofs --------------------------
(***************************************************************************)
(* Proofs about Enrollment, for every number of hosts, tokens and          *)
(* concurrent requests and all lifetimes and intervals that are ordered as *)
(* EnrollmentAssumption says.                                              *)
(***************************************************************************)
EXTENDS Enrollment, TLAPS

Certificate == [key : Host, exp : Nat]

Row == [key : Host, exp : Nat, revoked : BOOLEAN]

Request ==
    [kind : {"enroll", "renew"}, pc : {"consume", "register", "read", "body"},
     host : Host, token : Token \cup {None}, key : Host, exp : Nat]

AgentState ==
    {Resting}
       \cup [pc : {"wait"}, conn : Conn, renewal : BOOLEAN]
       \cup [pc : {"cert"}, got : Certificate, renewal : BOOLEAN]

EnrollTypeOK ==
    /\ clock \in Nat
    /\ expiry \in [Token -> Nat \cup {None}] /\ nonces \subseteq Token
    /\ row \in Row \cup {None}
    /\ reqs \in [Conn -> Request \cup {None}]
    /\ keys \subseteq Host /\ cert \in [Host -> Certificate \cup {None}] /\ ca \subseteq Host
    /\ agent \in [Host -> AgentState]
    /\ checked \in [Host -> Nat \cup {None}] /\ flushed \subseteq Host
    /\ spent \subseteq Token /\ enrolled \in Host \cup {None}
    /\ crossed \in BOOLEAN /\ failed \subseteq Host

-----------------------------------------------------------------------------
\* A token that has paid is in the table of nonces until it has expired, and a
\* request that is about to pay carries a token that was issued.
TokenInv ==
    /\ TokenUsedOnce
    /\ \A t \in spent : expiry[t] \in Nat /\ (clock <= expiry[t] => t \in nonces)
    /\ \A c \in Conn : At(c, "enroll", "consume") =>
          reqs[c].token \in Token /\ expiry[reqs[c].token] \in Nat

\* Unless two registrations crossed: the row has the key of the last enrollment
\* and outlasts every certificate that has been handed out, a renewal under way
\* has read the key that is still registered, and an enrollment under way will
\* not shorten the row's lifetime.
RegisteredInv ==
    /\ row # None => enrolled # None
    /\ enrolled # None => /\ row \in Row /\ row.key = enrolled
                          /\ row.exp <= clock + CertTTL
    /\ \A h \in Host :
          /\ cert[h] # None => enrolled # None /\ cert[h].exp <= row.exp
          /\ agent[h].pc = "cert" => enrolled # None /\ agent[h].got.exp <= row.exp
    /\ \A c \in Conn :
          /\ At(c, "enroll", "register") =>
                /\ reqs[c].exp <= clock + CertTTL
                /\ enrolled # None => row.exp <= reqs[c].exp
          /\ At(c, "renew", "body") => enrolled # None /\ reqs[c].key = row.key

\* What a host waits for, or has just been given, is from this unit of time.
FreshInv ==
    \A h \in Host :
       /\ agent[h].pc = "cert" => agent[h].got.exp = clock + CertTTL
       /\ \A c \in Conn :
             (/\ agent[h].pc = "wait" /\ agent[h].conn = c
              /\ At(c, "enroll", "register") /\ reqs[c].host = h)
                => reqs[c].exp = clock + CertTTL

\* A look at the certificate is remembered only if the certificate outlasts it by
\* more than RenewBefore, and who has flushed with a certificate in its last unit
\* of time has tried to renew it.
CheckedInv ==
    \A h \in Host :
       /\ checked[h] # None => checked[h] <= clock
       /\ checked[h] # None /\ cert[h] # None => cert[h].exp > checked[h] + RenewBefore
       /\ h \in flushed /\ cert[h] # None /\ cert[h].exp = clock + 1 => h \in failed

\* A renewal that has read a row writes to a row: none is ever deleted.
RowStays == \A c \in Conn : At(c, "renew", "body") => row \in Row

EnrollInv ==
    /\ EnrollTypeOK
    /\ RowStays
    /\ TokenInv
    /\ crossed \/ RegisteredInv
    /\ FreshInv
    /\ CheckedInv

-----------------------------------------------------------------------------
(***************************************************************************)
(* What the steps do.                                                      *)
(***************************************************************************)
LEMMA RequestShape ==
    ASSUME EnrollTypeOK, NEW c \in Conn, reqs[c] # None
    PROVE  /\ reqs[c] \in Request
           /\ reqs[c].host \in Host /\ reqs[c].token \in Token \cup {None}
           /\ reqs[c].key \in Host /\ reqs[c].exp \in Nat
BY DEF EnrollTypeOK, Request

\* What an Agent's state has, at each point of its exchange.
LEMMA AgentShape ==
    ASSUME EnrollTypeOK, NEW h \in Host
    PROVE  /\ agent[h].pc \in {"idle", "wait", "cert"}
           /\ agent[h].pc = "wait" => agent[h].conn \in Conn /\ agent[h].renewal \in BOOLEAN
           /\ agent[h].pc = "cert" =>
                 /\ agent[h].got \in Certificate /\ agent[h].renewal \in BOOLEAN
                 /\ agent[h].got.key \in Host /\ agent[h].got.exp \in Nat
BY DEF EnrollTypeOK, AgentState, Resting, Certificate

\* The times the configuration accepts are numbers, and None is neither a time
\* nor a host.
LEMMA ConfiguredTimes ==
    /\ TokenTTL \in Nat /\ CertTTL \in Nat /\ RenewBefore \in Nat /\ CheckInterval \in Nat
    /\ RenewBefore # 0 /\ CheckInterval <= RenewBefore /\ RenewBefore < CertTTL
    /\ None \notin Nat /\ None \notin Host
BY EnrollmentAssumption

\* Only the host whose request it is, and only while it waits for this request,
\* gets the certificate.
LEMMA ReplyEffect ==
    ASSUME EnrollTypeOK, NEW c \in Conn, NEW new \in Certificate, reqs[c] # None, Reply(c, new)
    PROVE  /\ reqs' = [reqs EXCEPT ![c] = None]
           /\ agent' \in [Host -> AgentState]
           /\ \A h \in Host : \/ agent'[h] = agent[h]
                              \/ /\ agent[h].pc = "wait" /\ agent[h].conn = c
                                 /\ reqs[c].host = h
                                 /\ agent'[h].pc = "cert" /\ agent'[h].got = new
           /\ UNCHANGED <<keys, cert, ca, checked, flushed>>
<1>1. PICK h \in Host : h = reqs[c].host
  BY RequestShape
<1>2. CASE UNCHANGED agent
  BY <1>2 DEF Reply, EnrollTypeOK
<1>3. CASE /\ agent[h].pc = "wait" /\ agent[h].conn = c
           /\ agent' = [agent EXCEPT ![h] =
                          [pc |-> "cert", got |-> new, renewal |-> agent[h].renewal]]
  <2>1. agent[h].renewal \in BOOLEAN
    BY <1>3, AgentShape
  <2>2. [pc |-> "cert", got |-> new, renewal |-> agent[h].renewal] \in AgentState
    BY <2>1 DEF AgentState
  <2> QED
    BY <1>1, <1>3, <2>2 DEF Reply, EnrollTypeOK
<1> QED
  BY <1>1, <1>2, <1>3 DEF Reply

\* A request that has paid goes on to be registered.
LEMMA PaidRequest ==
    ASSUME NEW r \in Request, NEW e \in Nat
    PROVE  LET n == [r EXCEPT !.pc = "register", !.token = None, !.exp = e]
           IN  n \in Request /\ n.pc = "register" /\ n.exp = e /\ n.kind = r.kind /\ n.host = r.host
BY DEF Request

\* EnrollConsume: the token is refused, or it is spent and the request goes on or
\* not.
LEMMA EnrollConsumeEffect ==
    ASSUME EnrollTypeOK, TokenInv, NEW c \in Conn, EnrollConsume(c)
    PROVE  /\ At(c, "enroll", "consume")
           /\ reqs' \in [Conn -> Request \cup {None}]
           /\ \A d \in Conn : d # c => reqs'[d] = reqs[d]
           /\ \/ reqs'[c] = None
              \/ /\ reqs'[c].kind = "enroll" /\ reqs'[c].pc = "register"
                 /\ reqs'[c].exp = clock + CertTTL
           /\ UNCHANGED hostVars
           /\ \/ UNCHANGED <<nonces, spent, reused>>
              \/ /\ reqs[c].token \notin Remembered
                 /\ nonces' = Remembered \cup {reqs[c].token}
                 /\ spent' = spent \cup {reqs[c].token}
                 /\ reused' = IF reqs[c].token \in spent /\ clock <= expiry[reqs[c].token]
                              THEN reused \cup {reqs[c].token} ELSE reused
           /\ UNCHANGED <<clock, expiry, row, enrolled, crossed, failed>>
<1>1. At(c, "enroll", "consume") /\ UNCHANGED <<clock, expiry, row, enrolled, crossed, failed>>
  BY DEF EnrollConsume
<1>2. reqs[c] \in Request /\ reqs[c].kind = "enroll"
  BY <1>1, RequestShape DEF At
<1>3. clock + CertTTL \in Nat
  BY ConfiguredTimes DEF EnrollTypeOK
<1>4. CASE Refuse(c)
  <2>1. /\ reqs' \in [Conn -> Request \cup {None}] /\ reqs'[c] = None
        /\ \A d \in Conn : d # c => reqs'[d] = reqs[d]
    BY <1>4 DEF Refuse, EnrollTypeOK
  <2>2. UNCHANGED hostVars
    BY <1>4 DEF Refuse
  <2> QED
    BY <1>1, <2>1, <2>2 DEF EnrollConsume
<1>5. CASE ~ Refuse(c)
  <2>1. /\ reqs' = [reqs EXCEPT ![c].pc = "register", ![c].token = None,
                                ![c].exp = clock + CertTTL]
        /\ UNCHANGED hostVars
    BY <1>5 DEF EnrollConsume
  <2> DEFINE n == [reqs[c] EXCEPT !.pc = "register", !.token = None, !.exp = clock + CertTTL]
  <2>2. n \in Request /\ n.pc = "register" /\ n.exp = clock + CertTTL /\ n.kind = "enroll"
    BY <1>2, <1>3, PaidRequest
  <2>3. reqs' = [reqs EXCEPT ![c] = n]
    BY <2>1 DEF EnrollTypeOK
  <2> HIDE DEF n
  <2>4. /\ reqs' \in [Conn -> Request \cup {None}] /\ reqs'[c] = n
        /\ \A d \in Conn : d # c => reqs'[d] = reqs[d]
    BY <2>2, <2>3 DEF EnrollTypeOK
  <2> QED
    BY <1>1, <1>5, <2>1, <2>2, <2>4 DEF EnrollConsume
<1> QED
  BY <1>4, <1>5

\* EnrollRegister.
LEMMA EnrollRegisterEffect ==
    ASSUME EnrollTypeOK, NEW c \in Conn, EnrollRegister(c)
    PROVE  /\ At(c, "enroll", "register")
           /\ reqs' = [reqs EXCEPT ![c] = None]
           /\ row' \in Row /\ row'.key = reqs[c].host /\ row'.exp = reqs[c].exp
           /\ enrolled' = reqs[c].host
           /\ agent' \in [Host -> AgentState]
           /\ \A h \in Host : \/ agent'[h] = agent[h]
                              \/ /\ agent[h].pc = "wait" /\ agent[h].conn = c
                                 /\ reqs[c].host = h
                                 /\ agent'[h].pc = "cert" /\ agent'[h].got.exp = reqs[c].exp
           /\ crossed' = (crossed \/ \E d \in Conn \ {c} :
                              At(d, "enroll", "register") \/ At(d, "renew", "body"))
           /\ UNCHANGED <<keys, cert, ca, checked, flushed, clock, expiry, nonces, spent,
                          reused, failed>>
<1>1. At(c, "enroll", "register") /\ reqs[c] # None
  BY DEF EnrollRegister, At
<1>2. reqs[c].host \in Host /\ reqs[c].exp \in Nat
  BY <1>1, RequestShape
<1> DEFINE new == [key |-> reqs[c].host, exp |-> reqs[c].exp]
<1>3. new \in Certificate /\ new.exp = reqs[c].exp /\ new.key = reqs[c].host
  BY <1>2 DEF Certificate
<1>4. /\ row' = [key |-> new.key, exp |-> new.exp, revoked |-> FALSE]
      /\ Reply(c, new)
  BY DEF EnrollRegister
<1> HIDE DEF new
<1>5. row' \in Row /\ row'.key = reqs[c].host /\ row'.exp = reqs[c].exp
  BY <1>2, <1>3, <1>4 DEF Row
<1>6. /\ reqs' = [reqs EXCEPT ![c] = None]
      /\ agent' \in [Host -> AgentState]
      /\ \A h \in Host : \/ agent'[h] = agent[h]
                         \/ /\ agent[h].pc = "wait" /\ agent[h].conn = c
                            /\ reqs[c].host = h
                            /\ agent'[h].pc = "cert" /\ agent'[h].got = new
      /\ UNCHANGED <<keys, cert, ca, checked, flushed>>
  BY <1>1, <1>3, <1>4, ReplyEffect
<1> QED
  BY <1>1, <1>3, <1>5, <1>6 DEF EnrollRegister

\* RenewRead.
LEMMA RenewReadEffect ==
    ASSUME EnrollTypeOK, NEW c \in Conn, RenewRead(c)
    PROVE  /\ At(c, "renew", "read")
           /\ reqs' \in [Conn -> Request \cup {None}]
           /\ \A d \in Conn : d # c => reqs'[d] = reqs[d]
           /\ \/ reqs'[c] = None
              \/ /\ row # None
                 /\ reqs'[c].kind = "renew" /\ reqs'[c].pc = "body" /\ reqs'[c].key = row.key
           /\ UNCHANGED <<clock, expiry, nonces, row, historyVars, hostVars>>
<1>1. At(c, "renew", "read") /\ UNCHANGED <<clock, expiry, nonces, row, historyVars, hostVars>>
  BY DEF RenewRead, Refuse
<1>2. reqs[c] \in Request /\ reqs[c].kind = "renew"
  BY <1>1, RequestShape DEF At
<1>3. CASE row # None /\ ~row.revoked /\ row.exp > clock
  <2>1. reqs' = [reqs EXCEPT ![c].pc = "body", ![c].key = row.key, ![c].exp = row.exp]
    BY <1>3 DEF RenewRead
  <2>2. row.key \in Host /\ row.exp \in Nat
    BY <1>3 DEF EnrollTypeOK, Row
  <2> DEFINE n == [reqs[c] EXCEPT !.pc = "body", !.key = row.key, !.exp = row.exp]
  <2>3. n \in Request /\ n.pc = "body" /\ n.key = row.key /\ n.kind = "renew"
    BY <1>2, <2>2 DEF Request
  <2>4. reqs' = [reqs EXCEPT ![c] = n]
    BY <2>1 DEF EnrollTypeOK
  <2> HIDE DEF n
  <2> QED
    BY <1>1, <1>3, <2>3, <2>4 DEF EnrollTypeOK
<1>4. CASE ~(row # None /\ ~row.revoked /\ row.exp > clock)
  BY <1>1, <1>4 DEF RenewRead, Refuse, EnrollTypeOK
<1> QED
  BY <1>3, <1>4

\* RenewRotate.
LEMMA RenewRotateEffect ==
    ASSUME EnrollTypeOK, NEW c \in Conn, RenewRotate(c), row \in Row
    PROVE  /\ At(c, "renew", "body")
           /\ reqs' = [reqs EXCEPT ![c] = None]
           /\ agent' \in [Host -> AgentState]
           /\ \/ UNCHANGED <<row, agent, crossed>>
              \/ /\ reqs[c].key = reqs[c].host
                 /\ row' \in Row /\ row'.key = reqs[c].host /\ row'.exp = clock + CertTTL
                 /\ crossed' = (crossed \/ \E d \in Conn : At(d, "enroll", "register"))
                 /\ \A h \in Host : \/ agent'[h] = agent[h]
                                    \/ /\ agent[h].pc = "wait" /\ agent[h].conn = c
                                       /\ reqs[c].host = h
                                       /\ agent'[h].pc = "cert"
                                       /\ agent'[h].got.exp = clock + CertTTL
           /\ UNCHANGED <<keys, cert, ca, checked, flushed, clock, expiry, nonces, spent,
                          reused, enrolled, failed>>
<1>1. At(c, "renew", "body") /\ reqs[c] # None
  BY DEF RenewRotate, At
<1>2. reqs[c].host \in Host /\ clock + CertTTL \in Nat
  BY <1>1, RequestShape, ConfiguredTimes DEF EnrollTypeOK
<1> DEFINE new == [key |-> reqs[c].host, exp |-> clock + CertTTL]
<1>3. new \in Certificate /\ new.exp = clock + CertTTL /\ new.key = reqs[c].host
  BY <1>2 DEF Certificate
<1>4. CASE Renewable(c) /\ ~row.revoked
  <2>1. /\ row' = Rotated(new) /\ Reply(c, new)
        /\ crossed' = (crossed \/ \E d \in Conn : At(d, "enroll", "register"))
    BY <1>4 DEF RenewRotate
  <2> HIDE DEF new
  <2>2. row' \in Row /\ row'.key = reqs[c].host /\ row'.exp = clock + CertTTL
    BY <1>2, <1>3, <2>1 DEF Rotated, Row
  <2>3. /\ reqs' = [reqs EXCEPT ![c] = None]
        /\ agent' \in [Host -> AgentState]
        /\ \A h \in Host : \/ agent'[h] = agent[h]
                           \/ /\ agent[h].pc = "wait" /\ agent[h].conn = c
                              /\ reqs[c].host = h
                              /\ agent'[h].pc = "cert" /\ agent'[h].got = new
        /\ UNCHANGED <<keys, cert, ca, checked, flushed>>
    BY <1>1, <1>3, <2>1, ReplyEffect
  <2> QED
    BY <1>1, <1>3, <1>4, <2>1, <2>2, <2>3 DEF RenewRotate, Renewable
<1>5. CASE ~(Renewable(c) /\ ~row.revoked)
  BY <1>1, <1>5 DEF RenewRotate, Refuse, hostVars, EnrollTypeOK
<1> QED
  BY <1>4, <1>5

-----------------------------------------------------------------------------
(***************************************************************************)
(* Frames: what a step may change without disturbing each part.            *)
(***************************************************************************)
LEMMA TokenFrame ==
    ASSUME EnrollTypeOK, TokenInv, UNCHANGED <<expiry, nonces, spent, reused>>,
           clock' \in Nat, clock <= clock',
           \A c \in Conn : At(c, "enroll", "consume")' => reqs'[c] = reqs[c]
    PROVE  TokenInv'
<1>1. \A t \in spent : expiry[t] \in Nat /\ (clock' <= expiry[t] => t \in nonces)
  BY DEF TokenInv, EnrollTypeOK
<1>2. \A c \in Conn : At(c, "enroll", "consume")' =>
         reqs'[c].token \in Token /\ expiry[reqs'[c].token] \in Nat
  BY DEF TokenInv, At
<1> QED
  BY <1>1, <1>2 DEF TokenInv, TokenUsedOnce

\* A step keeps RegisteredInv if it changes neither the row's key nor its
\* expiry, an Agent installs only what it was given, and a request comes to its
\* write with the row's key or an expiry from now.
LEMMA RegisteredFrame ==
    ASSUME EnrollTypeOK, EnrollTypeOK', RegisteredInv, enrolled' = enrolled, clock <= clock',
           row' # None => row # None,
           row \in Row => row' \in Row /\ row'.key = row.key /\ row'.exp = row.exp,
           \A h \in Host : \/ cert'[h] = cert[h]
                           \/ agent[h].pc = "cert" /\ cert'[h] = agent[h].got,
           \A h \in Host : agent'[h] = agent[h] \/ agent'[h].pc # "cert",
           \A c \in Conn : At(c, "enroll", "register")' =>
              reqs'[c] = reqs[c] \/ reqs'[c].exp = clock' + CertTTL,
           \A c \in Conn : At(c, "renew", "body")' =>
              reqs'[c] = reqs[c] \/ (row # None /\ reqs'[c].key = row.key)
    PROVE  RegisteredInv'
<1>1. clock \in Nat /\ clock' \in Nat /\ CertTTL \in Nat
  BY ConfiguredTimes DEF EnrollTypeOK
<1>2. enrolled # None => /\ row \in Row /\ row' \in Row /\ row.exp \in Nat
                         /\ row'.key = row.key /\ row'.exp = row.exp
  BY DEF RegisteredInv, Row
<1>3. row' # None => enrolled' # None
  BY DEF RegisteredInv
<1>4. enrolled' # None => row' \in Row /\ row'.key = enrolled' /\ row'.exp <= clock' + CertTTL
  BY <1>1, <1>2 DEF RegisteredInv
<1>5. ASSUME NEW h \in Host
      PROVE  /\ cert'[h] # None => enrolled' # None /\ cert'[h].exp <= row'.exp
             /\ agent'[h].pc = "cert" => enrolled' # None /\ agent'[h].got.exp <= row'.exp
  BY <1>2 DEF RegisteredInv
<1>6. ASSUME NEW c \in Conn, At(c, "enroll", "register")'
      PROVE  /\ reqs'[c].exp <= clock' + CertTTL
             /\ enrolled' # None => row'.exp <= reqs'[c].exp
  <2>1. CASE reqs'[c] = reqs[c]
    <3>1. At(c, "enroll", "register") /\ reqs[c] # None
      BY <1>6, <2>1 DEF At
    <3>2. reqs[c].exp \in Nat
      BY <3>1, RequestShape
    <3> QED
      BY <1>1, <1>2, <2>1, <3>1, <3>2 DEF RegisteredInv
  <2>2. CASE reqs'[c].exp = clock' + CertTTL
    BY <1>1, <1>4, <2>2
  <2> QED
    BY <1>6, <2>1, <2>2
<1>7. ASSUME NEW c \in Conn, At(c, "renew", "body")'
      PROVE  enrolled' # None /\ reqs'[c].key = row'.key
  <2>1. CASE reqs'[c] = reqs[c]
    BY <1>2, <1>7, <2>1 DEF RegisteredInv, At
  <2>2. CASE row # None /\ reqs'[c].key = row.key
    BY <1>2, <2>2 DEF RegisteredInv
  <2> QED
    BY <1>7, <2>1, <2>2
<1> QED
  BY <1>3, <1>4, <1>5, <1>6, <1>7 DEF RegisteredInv

\* ... and if it only touches requests.
LEMMA RegisteredRequests ==
    ASSUME EnrollTypeOK, EnrollTypeOK', RegisteredInv,
           UNCHANGED <<row, enrolled, cert, agent, clock>>,
           \A c \in Conn : At(c, "enroll", "register")' =>
              reqs'[c] = reqs[c] \/ reqs'[c].exp = clock' + CertTTL,
           \A c \in Conn : At(c, "renew", "body")' =>
              reqs'[c] = reqs[c] \/ (row # None /\ reqs'[c].key = row.key)
    PROVE  RegisteredInv'
<1>1. clock <= clock'
  BY DEF EnrollTypeOK
<1>2. row \in Row => row' \in Row /\ row'.key = row.key /\ row'.exp = row.exp
  OBVIOUS
<1>3. \A h \in Host : \/ cert'[h] = cert[h]
                      \/ agent[h].pc = "cert" /\ cert'[h] = agent[h].got
  OBVIOUS
<1>4. \A h \in Host : agent'[h] = agent[h] \/ agent'[h].pc # "cert"
  OBVIOUS
<1>5. enrolled' = enrolled /\ (row' # None => row # None)
  OBVIOUS
<1> QED
  BY <1>1, <1>2, <1>3, <1>4, <1>5, RegisteredFrame

\* A step keeps FreshInv if a certificate or a request that appears has an
\* expiry from now.
LEMMA FreshFrame ==
    ASSUME FreshInv, clock' = clock,
           \A h \in Host :
              \/ agent'[h] = agent[h]
              \/ agent'[h].pc = "idle"
              \/ agent'[h].pc = "cert" /\ agent'[h].got.exp = clock + CertTTL
              \/ agent'[h].pc = "wait" /\ \A c \in Conn :
                    agent'[h].conn = c => ~ At(c, "enroll", "register")',
           \A c \in Conn : At(c, "enroll", "register")' =>
              reqs'[c] = reqs[c] \/ reqs'[c].exp = clock + CertTTL
    PROVE  FreshInv'
BY DEF FreshInv, At

\* CheckedInv speaks only of the certificates, the looks and flushes, and the
\* clock.
LEMMA CheckedFrame ==
    ASSUME CheckedInv, UNCHANGED <<cert, checked, flushed, failed, clock>>
    PROVE  CheckedInv'
BY DEF CheckedInv

\* A request that ends leaves no trace on its connection.
LEMMA RequestEnds ==
    ASSUME EnrollTypeOK, NEW c \in Conn, reqs' = [reqs EXCEPT ![c] = None]
    PROVE  /\ reqs' \in [Conn -> Request \cup {None}]
           /\ reqs'[c] = None
           /\ \A d \in Conn : d # c => reqs'[d] = reqs[d]
BY DEF EnrollTypeOK

-----------------------------------------------------------------------------
(***************************************************************************)
(* The Control Plane's steps.                                              *)
(***************************************************************************)
LEMMA EnrollConsumeKeeps ==
    ASSUME EnrollInv, NEW c \in Conn, EnrollConsume(c)
    PROVE  EnrollInv'
<1>0. EnrollTypeOK /\ RowStays /\ TokenInv /\ FreshInv /\ CheckedInv /\ clock \in Nat
  BY DEF EnrollInv, EnrollTypeOK
<1>1. /\ At(c, "enroll", "consume")
      /\ reqs' \in [Conn -> Request \cup {None}]
      /\ \A d \in Conn : d # c => reqs'[d] = reqs[d]
      /\ \/ reqs'[c] = None
         \/ /\ reqs'[c].kind = "enroll" /\ reqs'[c].pc = "register"
            /\ reqs'[c].exp = clock + CertTTL
      /\ UNCHANGED hostVars
      /\ UNCHANGED <<clock, expiry, row, enrolled, crossed, failed>>
  BY <1>0, EnrollConsumeEffect
<1>2. UNCHANGED <<keys, cert, ca, agent, checked, flushed>>
  BY <1>1 DEF hostVars
<1>3. PICK t \in Token : t = reqs[c].token /\ expiry[t] \in Nat
  BY <1>0, <1>1 DEF TokenInv
<1>4. \/ UNCHANGED <<nonces, spent, reused>>
      \/ /\ t \notin Remembered
         /\ nonces' = Remembered \cup {t}
         /\ spent' = spent \cup {t}
         /\ reused' = IF t \in spent /\ clock <= expiry[t] THEN reused \cup {t} ELSE reused
  BY <1>0, <1>3, EnrollConsumeEffect
<1>5. ~ At(c, "enroll", "consume")' /\ ~ At(c, "renew", "body")'
  BY <1>1 DEF At
<1>6. EnrollTypeOK'
  BY <1>0, <1>1, <1>2, <1>4 DEF EnrollTypeOK, Remembered
<1>7. TokenInv'
  <2>1. CASE UNCHANGED <<nonces, spent, reused>>
    BY <1>0, <1>1, <1>5, <2>1, TokenFrame
  <2>2. CASE /\ t \notin Remembered
             /\ nonces' = Remembered \cup {t}
             /\ spent' = spent \cup {t}
             /\ reused' = IF t \in spent /\ clock <= expiry[t] THEN reused \cup {t} ELSE reused
    <3>1. ~(t \in spent /\ clock <= expiry[t])
      BY <1>0, <1>3, <2>2 DEF TokenInv, Remembered
    <3>2. reused' = {}
      BY <1>0, <2>2, <3>1 DEF TokenInv, TokenUsedOnce
    <3>3. ASSUME NEW u \in spent'
          PROVE  expiry[u] \in Nat /\ (clock <= expiry[u] => u \in nonces')
      BY <1>0, <1>3, <2>2 DEF TokenInv, Remembered
    <3>4. \A d \in Conn : At(d, "enroll", "consume")' =>
             reqs'[d].token \in Token /\ expiry[reqs'[d].token] \in Nat
      BY <1>0, <1>1, <1>5 DEF TokenInv, At
    <3> QED
      BY <1>1, <3>2, <3>3, <3>4 DEF TokenInv, TokenUsedOnce
  <2> QED
    BY <1>4, <2>1, <2>2
<1>8. crossed' \/ RegisteredInv'
  <2> SUFFICES ASSUME ~ crossed' PROVE RegisteredInv'
    OBVIOUS
  <2>1. RegisteredInv
    BY <1>1 DEF EnrollInv
  <2>2. clock <= clock' /\ clock + CertTTL = clock' + CertTTL
    BY <1>0, <1>1
  <2>3. \A d \in Conn : At(d, "enroll", "register")' =>
           reqs'[d] = reqs[d] \/ reqs'[d].exp = clock' + CertTTL
    BY <1>1, <2>2 DEF At
  <2>4. \A d \in Conn : At(d, "renew", "body")' => reqs'[d] = reqs[d]
    BY <1>1, <1>5
  <2> QED
    BY <1>0, <1>1, <1>2, <1>6, <2>1, <2>3, <2>4, RegisteredRequests
<1>9. FreshInv'
  <2>1. \A d \in Conn : At(d, "enroll", "register")' =>
           reqs'[d] = reqs[d] \/ reqs'[d].exp = clock + CertTTL
    BY <1>1 DEF At
  <2> QED
    BY <1>0, <1>1, <1>2, <2>1, FreshFrame
<1>10. CheckedInv'
  BY <1>0, <1>1, <1>2, CheckedFrame
<1>11. RowStays'
  BY <1>0, <1>1, <1>5 DEF RowStays, At
<1> QED
  BY <1>6, <1>7, <1>8, <1>9, <1>10, <1>11 DEF EnrollInv

\* The write of an enrollment: the row and the certificate that answers have
\* one key and one expiry.
LEMMA EnrollRegisterKeeps ==
    ASSUME EnrollInv, NEW c \in Conn, EnrollRegister(c)
    PROVE  EnrollInv'
<1>0. EnrollTypeOK /\ RowStays /\ TokenInv /\ FreshInv /\ CheckedInv /\ clock \in Nat
  BY DEF EnrollInv, EnrollTypeOK
<1>1. /\ At(c, "enroll", "register")
      /\ reqs' = [reqs EXCEPT ![c] = None]
      /\ row' \in Row /\ row'.key = reqs[c].host /\ row'.exp = reqs[c].exp
      /\ enrolled' = reqs[c].host
      /\ agent' \in [Host -> AgentState]
      /\ \A h \in Host : \/ agent'[h] = agent[h]
                         \/ /\ agent[h].pc = "wait" /\ agent[h].conn = c
                            /\ reqs[c].host = h
                            /\ agent'[h].pc = "cert" /\ agent'[h].got.exp = reqs[c].exp
      /\ crossed' = (crossed \/ \E d \in Conn \ {c} :
                         At(d, "enroll", "register") \/ At(d, "renew", "body"))
      /\ UNCHANGED <<keys, cert, ca, checked, flushed, clock, expiry, nonces, spent,
                     reused, failed>>
  BY <1>0, EnrollRegisterEffect
<1>2. reqs[c].host \in Host /\ reqs[c].host # None /\ reqs[c].exp \in Nat
  BY <1>0, <1>1, RequestShape, ConfiguredTimes DEF At
<1>3. /\ reqs' \in [Conn -> Request \cup {None}]
      /\ reqs'[c] = None
      /\ \A d \in Conn : d # c => reqs'[d] = reqs[d]
  BY <1>0, <1>1, RequestEnds
<1>4. EnrollTypeOK'
  BY <1>0, <1>1, <1>2, <1>3 DEF EnrollTypeOK
<1>5. TokenInv'
  BY <1>0, <1>1, <1>3, TokenFrame DEF At
<1>6. FreshInv'
  <2>1. \A h \in Host : agent[h].pc = "wait" /\ agent[h].conn = c /\ reqs[c].host = h
           => reqs[c].exp = clock + CertTTL
    BY <1>0, <1>1 DEF FreshInv
  <2> QED
    BY <1>0, <1>1, <1>3, <2>1, FreshFrame DEF At
<1>7. CheckedInv'
  BY <1>0, <1>1, CheckedFrame
<1>8. RowStays'
  BY <1>1 DEF RowStays
<1>9. ASSUME ~ crossed' PROVE RegisteredInv'
  <2>1. RegisteredInv
    BY <1>1, <1>9 DEF EnrollInv
  <2>2. \A d \in Conn : ~ At(d, "enroll", "register")' /\ ~ At(d, "renew", "body")'
    BY <1>1, <1>3, <1>9 DEF At
  <2>3. reqs[c].exp <= clock + CertTTL /\ (enrolled # None => row.exp <= reqs[c].exp)
    BY <1>1, <2>1 DEF RegisteredInv
  <2>4. enrolled # None => row.exp \in Nat
    BY <2>1 DEF RegisteredInv, Row
  <2>5. ASSUME NEW h \in Host
        PROVE  /\ cert'[h] # None => cert'[h].exp <= row'.exp
               /\ agent'[h].pc = "cert" => agent'[h].got.exp <= row'.exp
    <3>1. cert[h] # None => cert[h].exp \in Nat
      BY <1>0 DEF EnrollTypeOK, Certificate
    <3>2. agent[h].pc = "cert" => agent[h].got.exp \in Nat
      BY <1>0, AgentShape
    <3>3. cert'[h] # None => cert'[h].exp <= row'.exp
      BY <1>1, <1>2, <2>1, <2>3, <2>4, <3>1 DEF RegisteredInv
    <3>4. CASE agent'[h] = agent[h]
      BY <1>1, <1>2, <2>1, <2>3, <2>4, <3>2, <3>3, <3>4 DEF RegisteredInv
    <3>5. CASE agent'[h].got.exp = reqs[c].exp
      BY <1>1, <1>2, <3>3, <3>5
    <3> QED
      BY <1>1, <3>4, <3>5
  <2> QED
    BY <1>1, <1>2, <2>2, <2>3, <2>5 DEF RegisteredInv
<1> QED
  BY <1>4, <1>5, <1>6, <1>7, <1>8, <1>9 DEF EnrollInv

\* A renewal reads the key of the row.
LEMMA RenewReadKeeps ==
    ASSUME EnrollInv, NEW c \in Conn, RenewRead(c)
    PROVE  EnrollInv'
<1>0. EnrollTypeOK /\ RowStays /\ TokenInv /\ FreshInv /\ CheckedInv /\ clock \in Nat
  BY DEF EnrollInv, EnrollTypeOK
<1>1. /\ reqs' \in [Conn -> Request \cup {None}]
      /\ \A d \in Conn : d # c => reqs'[d] = reqs[d]
      /\ \/ reqs'[c] = None
         \/ /\ row # None
            /\ reqs'[c].kind = "renew" /\ reqs'[c].pc = "body" /\ reqs'[c].key = row.key
      /\ UNCHANGED <<clock, expiry, nonces, row, historyVars, hostVars>>
  BY <1>0, RenewReadEffect
<1>2. UNCHANGED <<keys, cert, ca, agent, checked, flushed, spent, reused, enrolled, crossed, failed>>
  BY <1>1 DEF hostVars, historyVars
<1>3. ~ At(c, "enroll", "consume")' /\ ~ At(c, "enroll", "register")'
  BY <1>1 DEF At
<1>4. EnrollTypeOK'
  BY <1>0, <1>1, <1>2 DEF EnrollTypeOK
<1>5. TokenInv'
  BY <1>0, <1>1, <1>2, <1>3, TokenFrame
<1>6. crossed' \/ RegisteredInv'
  <2> SUFFICES ASSUME ~ crossed' PROVE RegisteredInv'
    OBVIOUS
  <2>1. RegisteredInv
    BY <1>2 DEF EnrollInv
  <2>2. \A d \in Conn : At(d, "renew", "body")' =>
           reqs'[d] = reqs[d] \/ (row # None /\ reqs'[d].key = row.key)
    BY <1>1 DEF At
  <2>3. \A d \in Conn : At(d, "enroll", "register")' => reqs'[d] = reqs[d]
    BY <1>1, <1>3
  <2> QED
    BY <1>0, <1>1, <1>2, <1>4, <2>1, <2>2, <2>3, RegisteredRequests
<1>7. FreshInv'
  BY <1>0, <1>1, <1>2, <1>3, FreshFrame
<1>8. CheckedInv'
  BY <1>0, <1>1, <1>2, CheckedFrame
<1>9. RowStays'
  BY <1>0, <1>1 DEF RowStays, At, EnrollTypeOK
<1> QED
  BY <1>4, <1>5, <1>6, <1>7, <1>8, <1>9 DEF EnrollInv

\* A renewal writes its own key, which is the row's unless registrations
\* crossed, and an expiry from now.
LEMMA RenewRotateKeeps ==
    ASSUME EnrollInv, NEW c \in Conn, RenewRotate(c)
    PROVE  EnrollInv'
<1>0. /\ EnrollTypeOK /\ RowStays /\ TokenInv /\ FreshInv /\ CheckedInv /\ clock \in Nat
      /\ CertTTL \in Nat
  BY ConfiguredTimes DEF EnrollInv, EnrollTypeOK
<1>1. row \in Row
  BY <1>0 DEF RowStays, RenewRotate
<1>2. /\ At(c, "renew", "body")
      /\ reqs' = [reqs EXCEPT ![c] = None]
      /\ agent' \in [Host -> AgentState]
      /\ \/ UNCHANGED <<row, agent, crossed>>
         \/ /\ reqs[c].key = reqs[c].host
            /\ row' \in Row /\ row'.key = reqs[c].host /\ row'.exp = clock + CertTTL
            /\ crossed' = (crossed \/ \E d \in Conn : At(d, "enroll", "register"))
            /\ \A h \in Host : \/ agent'[h] = agent[h]
                               \/ /\ agent[h].pc = "wait" /\ agent[h].conn = c
                                  /\ reqs[c].host = h
                                  /\ agent'[h].pc = "cert"
                                  /\ agent'[h].got.exp = clock + CertTTL
      /\ UNCHANGED <<keys, cert, ca, checked, flushed, clock, expiry, nonces, spent,
                     reused, enrolled, failed>>
  BY <1>0, <1>1, RenewRotateEffect
<1>3. /\ reqs' \in [Conn -> Request \cup {None}]
      /\ reqs'[c] = None
      /\ \A d \in Conn : d # c => reqs'[d] = reqs[d]
  BY <1>0, <1>2, RequestEnds
<1>4. row' \in Row /\ crossed' \in BOOLEAN
  BY <1>0, <1>1, <1>2 DEF EnrollTypeOK
<1>5. EnrollTypeOK'
  BY <1>0, <1>2, <1>3, <1>4 DEF EnrollTypeOK
<1>6. TokenInv'
  BY <1>0, <1>2, <1>3, TokenFrame DEF At
<1>7. FreshInv'
  BY <1>0, <1>2, <1>3, FreshFrame DEF At
<1>8. CheckedInv'
  BY <1>0, <1>2, CheckedFrame
<1>9. RowStays'
  BY <1>4 DEF RowStays
<1>10. ASSUME ~ crossed' PROVE RegisteredInv'
  <2>1. RegisteredInv
    <3>1. crossed => crossed'
      BY <1>0, <1>2 DEF EnrollTypeOK
    <3> QED
      BY <1>10, <3>1 DEF EnrollInv
  <2>2. \A d \in Conn : d # c => /\ At(d, "enroll", "register")' => At(d, "enroll", "register")
                                 /\ At(d, "renew", "body")' => At(d, "renew", "body")
    BY <1>3 DEF At
  <2>3. ~ At(c, "enroll", "register")' /\ ~ At(c, "renew", "body")'
    BY <1>3 DEF At
  <2>4. CASE UNCHANGED <<row, agent, crossed>>
    <3>1. \A d \in Conn : At(d, "enroll", "register")' \/ At(d, "renew", "body")'
             => reqs'[d] = reqs[d]
      BY <1>3, <2>3
    <3> QED
      BY <1>0, <1>2, <1>5, <2>1, <2>4, <3>1, RegisteredRequests
  <2>5. CASE ~ UNCHANGED <<row, agent, crossed>>
    <3>1. /\ row'.key = reqs[c].host /\ row'.exp = clock + CertTTL
          /\ reqs[c].key = reqs[c].host
          /\ \A d \in Conn : ~ At(d, "enroll", "register")
      BY <1>2, <1>10, <2>5
    <3>2. enrolled # None /\ reqs[c].key = row.key /\ row.key = enrolled
      BY <1>2, <2>1 DEF RegisteredInv
    <3>3. row'.key = row.key
      BY <3>1, <3>2
    <3>4. row.exp \in Nat /\ row.exp <= row'.exp /\ row'.exp \in Nat
      BY <1>0, <1>1, <2>1, <3>1, <3>2 DEF RegisteredInv, Row
    <3>5. ASSUME NEW h \in Host
          PROVE  /\ cert'[h] # None => cert'[h].exp <= row'.exp
                 /\ agent'[h].pc = "cert" => agent'[h].got.exp <= row'.exp
      <4>1. cert[h] # None => cert[h].exp \in Nat
        BY <1>0 DEF EnrollTypeOK, Certificate
      <4>2. agent[h].pc = "cert" => agent[h].got.exp \in Nat
        BY <1>0, AgentShape
      <4>3. cert'[h] # None => cert'[h].exp <= row'.exp
        BY <1>2, <2>1, <3>4, <4>1 DEF RegisteredInv
      <4>4. CASE agent'[h] = agent[h]
        BY <2>1, <3>4, <4>2, <4>3, <4>4 DEF RegisteredInv
      <4>5. CASE agent'[h].got.exp = clock + CertTTL
        BY <3>1, <3>4, <4>3, <4>5
      <4> QED
        BY <1>2, <2>5, <4>4, <4>5
    <3>6. \A d \in Conn : ~ At(d, "enroll", "register")'
      BY <2>2, <2>3, <3>1
    <3>7. \A d \in Conn : At(d, "renew", "body")' => reqs'[d].key = row'.key
      BY <1>3, <2>1, <2>2, <2>3, <3>3 DEF RegisteredInv
    <3>8. row'.exp <= clock' + CertTTL
      BY <1>0, <1>2, <3>1
    <3> QED
      BY <1>2, <1>4, <3>2, <3>3, <3>5, <3>6, <3>7, <3>8 DEF RegisteredInv
  <2> QED
    BY <2>4, <2>5
<1> QED
  BY <1>5, <1>6, <1>7, <1>8, <1>9, <1>10 DEF EnrollInv

\* A token gets its expiry once, before it can pay.
LEMMA issueKeeps ==
    ASSUME EnrollInv, NEW t \in Token, issue(t)
    PROVE  EnrollInv'
<1>0. EnrollTypeOK /\ RowStays /\ TokenInv /\ FreshInv /\ CheckedInv /\ clock \in Nat
  BY DEF EnrollInv, EnrollTypeOK
<1>1. /\ expiry[t] = None
      /\ expiry' = [expiry EXCEPT ![t] = clock + TokenTTL]
      /\ UNCHANGED <<clock, nonces, row, reqs, hostVars, historyVars>>
  BY DEF issue
<1>2. UNCHANGED <<keys, cert, ca, agent, checked, flushed, spent, reused, enrolled, crossed, failed>>
  BY <1>1 DEF hostVars, historyVars
<1>3. clock + TokenTTL \in Nat
  BY <1>0, ConfiguredTimes
<1>4. /\ expiry' \in [Token -> Nat \cup {None}]
      /\ \A u \in Token : expiry[u] \in Nat => expiry'[u] = expiry[u]
  BY <1>0, <1>1, <1>3, ConfiguredTimes DEF EnrollTypeOK
<1>5. EnrollTypeOK'
  BY <1>0, <1>1, <1>2, <1>4 DEF EnrollTypeOK
<1>6. TokenInv'
  <2>1. \A u \in spent : expiry'[u] \in Nat /\ (clock <= expiry'[u] => u \in nonces)
    BY <1>0, <1>4 DEF TokenInv, EnrollTypeOK
  <2>2. \A c \in Conn : At(c, "enroll", "consume") =>
           reqs[c].token \in Token /\ expiry'[reqs[c].token] \in Nat
    BY <1>0, <1>4 DEF TokenInv
  <2> QED
    BY <1>0, <1>1, <1>2, <2>1, <2>2 DEF TokenInv, TokenUsedOnce, At
<1>7. crossed' \/ RegisteredInv'
  BY <1>1, <1>2 DEF EnrollInv, RegisteredInv, At
<1>8. FreshInv' /\ RowStays' /\ CheckedInv'
  BY <1>0, <1>1, <1>2, CheckedFrame DEF FreshInv, RowStays, At
<1> QED
  BY <1>5, <1>6, <1>7, <1>8 DEF EnrollInv

\* A revocation keeps the row's key and its expiry.
LEMMA revoke_agentKeeps ==
    ASSUME EnrollInv, revoke_agent
    PROVE  EnrollInv'
<1>0. EnrollTypeOK /\ RowStays /\ TokenInv /\ FreshInv /\ CheckedInv /\ clock \in Nat
  BY DEF EnrollInv, EnrollTypeOK
<1>1. /\ row # None /\ row' = [row EXCEPT !.revoked = TRUE]
      /\ UNCHANGED <<clock, expiry, nonces, reqs, hostVars, historyVars>>
  BY DEF revoke_agent
<1>2. UNCHANGED <<keys, cert, ca, agent, checked, flushed, spent, reused, enrolled, crossed, failed>>
  BY <1>1 DEF hostVars, historyVars
<1>3. row \in Row
  BY <1>0, <1>1 DEF EnrollTypeOK
<1>4. row' \in Row /\ row'.key = row.key /\ row'.exp = row.exp
  BY <1>1, <1>3 DEF Row
<1>5. EnrollTypeOK'
  BY <1>0, <1>1, <1>2, <1>4 DEF EnrollTypeOK
<1>6. TokenInv' /\ FreshInv' /\ CheckedInv' /\ RowStays'
  BY <1>0, <1>1, <1>2, <1>4, CheckedFrame DEF TokenInv, TokenUsedOnce, FreshInv, RowStays, At
<1>7. crossed' \/ RegisteredInv'
  BY <1>1, <1>2, <1>4 DEF EnrollInv, RegisteredInv, At
<1> QED
  BY <1>5, <1>6, <1>7 DEF EnrollInv

\* The server restarts: the requests under way are lost, the tables stay.
LEMMA ServerRestartKeeps ==
    ASSUME EnrollInv, ServerRestart
    PROVE  EnrollInv'
<1>0. EnrollTypeOK /\ RowStays /\ TokenInv /\ FreshInv /\ CheckedInv /\ clock \in Nat
  BY DEF EnrollInv, EnrollTypeOK
<1>1. /\ reqs' = [c \in Conn |-> None]
      /\ UNCHANGED <<clock, expiry, nonces, row, hostVars, historyVars>>
  BY DEF ServerRestart
<1>2. UNCHANGED <<keys, cert, ca, agent, checked, flushed, spent, reused, enrolled, crossed, failed>>
  BY <1>1 DEF hostVars, historyVars
<1>3. \A c \in Conn : \A k, p : ~ At(c, k, p)'
  BY <1>1 DEF At
<1>4. EnrollTypeOK'
  BY <1>0, <1>1, <1>2 DEF EnrollTypeOK
<1>5. TokenInv' /\ FreshInv' /\ CheckedInv' /\ RowStays'
  BY <1>0, <1>1, <1>2, <1>3, CheckedFrame DEF TokenInv, TokenUsedOnce, FreshInv, RowStays
<1>6. crossed' \/ RegisteredInv'
  BY <1>1, <1>2, <1>3 DEF EnrollInv, RegisteredInv
<1> QED
  BY <1>4, <1>5, <1>6 DEF EnrollInv

-----------------------------------------------------------------------------
(***************************************************************************)
(* The hosts' steps.                                                       *)
(***************************************************************************)
\* A step of host h that sends nothing: it may come to rest, install what it has
\* been given, and remember its look at the certificate or its flush.
HostMove(h) ==
    /\ UNCHANGED <<clock, expiry, nonces, row, reqs, keys, spent, reused, enrolled, crossed>>
    /\ agent' = agent \/ agent' = [agent EXCEPT ![h] = Resting]
    /\ \/ cert' = cert /\ ca' = ca
       \/ /\ agent[h].pc = "cert"
          /\ cert' = [cert EXCEPT ![h] = agent[h].got]
          /\ ca' \in {ca, ca \cup {h}}
    /\ \/ checked' = checked
       \/ checked' = [checked EXCEPT ![h] = None]
       \/ /\ checked' = [checked EXCEPT ![h] = clock]
          /\ cert'[h] # None => cert'[h].exp > clock + RenewBefore
    /\ flushed' \in {flushed, flushed \cup {h}} /\ failed' \in {failed, failed \cup {h}}
    /\ h \in flushed' => \/ h \in flushed
                         \/ h \in failed'
                         \/ cert'[h] # None => cert'[h].exp # clock + 1

\* A step of a host that sends nothing keeps the invariant.
LEMMA HostMoveKeeps ==
    ASSUME EnrollInv, NEW h \in Host, HostMove(h)
    PROVE  EnrollInv'
<1>0. EnrollTypeOK /\ RowStays /\ TokenInv /\ FreshInv /\ CheckedInv /\ clock \in Nat
  BY DEF EnrollInv, EnrollTypeOK
<1>1. UNCHANGED <<clock, expiry, nonces, row, reqs, keys, spent, reused, enrolled, crossed>>
  BY DEF HostMove
<1>2. /\ agent' \in [Host -> AgentState]
      /\ \A g \in Host : agent'[g] = agent[g] \/ agent'[g] = Resting
  BY <1>0 DEF HostMove, EnrollTypeOK, AgentState
<1>3. agent[h].pc = "cert" => /\ agent[h].got \in Certificate
                              /\ agent[h].got.exp = clock + CertTTL
  BY <1>0, AgentShape DEF FreshInv
<1>4. /\ cert' \in [Host -> Certificate \cup {None}]
      /\ \A g \in Host : g # h => cert'[g] = cert[g]
      /\ cert'[h] = cert[h] \/ (agent[h].pc = "cert" /\ cert'[h] = agent[h].got)
  BY <1>0, <1>3 DEF HostMove, EnrollTypeOK
<1>5. checked' \in [Host -> Nat \cup {None}] /\ \A g \in Host : g # h => checked'[g] = checked[g]
  BY <1>0 DEF HostMove, EnrollTypeOK
<1>6. EnrollTypeOK'
  <2>1. ca' \subseteq Host /\ flushed' \subseteq Host /\ failed' \subseteq Host
    BY <1>0 DEF HostMove, EnrollTypeOK
  <2> QED
    BY <1>0, <1>1, <1>2, <1>4, <1>5, <2>1 DEF EnrollTypeOK
<1>7. TokenInv' /\ RowStays'
  BY <1>0, <1>1 DEF TokenInv, TokenUsedOnce, RowStays, At
<1>8. crossed' \/ RegisteredInv'
  <2> SUFFICES ASSUME ~ crossed' PROVE RegisteredInv'
    OBVIOUS
  <2>1. RegisteredInv
    BY <1>1 DEF EnrollInv
  <2>2. clock <= clock' /\ (row \in Row => row' \in Row /\ row'.key = row.key /\ row'.exp = row.exp)
    BY <1>0, <1>1
  <2>3. \A g \in Host : \/ cert'[g] = cert[g]
                        \/ agent[g].pc = "cert" /\ cert'[g] = agent[g].got
    BY <1>4
  <2>4. \A g \in Host : agent'[g] = agent[g] \/ agent'[g].pc # "cert"
    BY <1>2 DEF Resting
  <2> QED
    BY <1>0, <1>1, <1>6, <2>1, <2>2, <2>3, <2>4, RegisteredFrame
<1>9. FreshInv'
  <2>1. \A g \in Host : agent'[g] = agent[g] \/ agent'[g].pc = "idle"
    BY <1>2 DEF Resting
  <2> QED
    BY <1>0, <1>1, <2>1, FreshFrame
<1>10. CheckedInv'
  <2>1. ASSUME NEW g \in Host, g # h
        PROVE  /\ checked'[g] # None => checked'[g] <= clock'
               /\ checked'[g] # None /\ cert'[g] # None => cert'[g].exp > checked'[g] + RenewBefore
               /\ g \in flushed' /\ cert'[g] # None /\ cert'[g].exp = clock' + 1 => g \in failed'
    <3>1. cert'[g] = cert[g] /\ checked'[g] = checked[g] /\ clock' = clock
      BY <1>1, <1>4, <1>5, <2>1
    <3>2. (g \in flushed' => g \in flushed) /\ (g \in failed => g \in failed')
      BY <2>1 DEF HostMove
    <3> QED
      BY <1>0, <3>1, <3>2 DEF CheckedInv
  <2>2. /\ checked'[h] # None => checked'[h] <= clock
        /\ checked'[h] # None /\ cert'[h] # None => cert'[h].exp > checked'[h] + RenewBefore
    <3>1. CASE checked' = checked
      <4>1. CASE cert'[h] = cert[h]
        BY <1>0, <3>1, <4>1 DEF CheckedInv
      <4>2. CASE agent[h].pc = "cert" /\ cert'[h] = agent[h].got
        <5>1. checked[h] # None => checked[h] \in Nat /\ checked[h] <= clock
          BY <1>0 DEF CheckedInv, EnrollTypeOK
        <5>2. cert'[h].exp = clock + CertTTL
          BY <1>3, <4>2
        <5> QED
          BY <1>0, <3>1, <5>1, <5>2, ConfiguredTimes
      <4> QED
        BY <1>4, <4>1, <4>2
    <3>2. CASE checked' = [checked EXCEPT ![h] = None]
      BY <1>0, <3>2 DEF EnrollTypeOK
    <3>3. CASE /\ checked' = [checked EXCEPT ![h] = clock]
               /\ cert'[h] # None => cert'[h].exp > clock + RenewBefore
      BY <1>0, <3>3 DEF EnrollTypeOK
    <3> QED
      BY <3>1, <3>2, <3>3 DEF HostMove
  <2>3. h \in flushed' /\ cert'[h] # None /\ cert'[h].exp = clock + 1 => h \in failed'
    <3>1. CASE cert'[h] = cert[h]
      BY <1>0, <3>1 DEF HostMove, CheckedInv
    <3>2. CASE agent[h].pc = "cert" /\ cert'[h] = agent[h].got
      <4>1. cert'[h].exp = clock + CertTTL
        BY <1>3, <3>2
      <4> QED
        BY <1>0, <4>1, ConfiguredTimes
    <3> QED
      BY <1>4, <3>1, <3>2
  <2> QED
    BY <1>1, <2>1, <2>2, <2>3 DEF CheckedInv
<1> QED
  BY <1>6, <1>7, <1>8, <1>9, <1>10 DEF EnrollInv

\* Where Over leaves host h.
LEMMA OverEffect ==
    ASSUME EnrollTypeOK, NEW h \in Host, NEW ok \in BOOLEAN,
           agent[h].pc \in {"wait", "cert"}, Over(h, ok)
    PROVE  /\ agent' = [agent EXCEPT ![h] = Resting]
           /\ \/ UNCHANGED <<checked, failed, flushed>>
              \/ /\ ok /\ checked' = [checked EXCEPT ![h] = clock]
                 /\ failed' = failed /\ flushed' = flushed \cup {h}
              \/ /\ checked' = checked
                 /\ failed' = failed \cup {h} /\ flushed' = flushed \cup {h}
BY DEF Over, Renewed

\* An Agent that gives its exchange up sends nothing.
LEMMA GiveUpMoves ==
    ASSUME EnrollInv, NEW h \in Host, GiveUp(h)
    PROVE  HostMove(h)
<1>1. EnrollTypeOK /\ agent[h].pc = "wait" /\ Over(h, FALSE)
  BY DEF EnrollInv, GiveUp
<1>2. /\ agent' = [agent EXCEPT ![h] = Resting]
      /\ checked' = checked
      /\ \/ failed' = failed /\ flushed' = flushed
         \/ failed' = failed \cup {h} /\ flushed' = flushed \cup {h}
  BY <1>1, OverEffect
<1>3. UNCHANGED <<clock, expiry, nonces, row, reqs, keys, cert, ca, spent, reused, enrolled, crossed>>
  BY DEF GiveUp, serverVars
<1> QED
  BY <1>2, <1>3 DEF HostMove

\* Installing a certificate sends nothing.
LEMMA InstallMoves ==
    ASSUME EnrollInv, NEW h \in Host, Install(h)
    PROVE  HostMove(h)
<1>1. /\ EnrollTypeOK /\ FreshInv /\ clock \in Nat
      /\ agent[h].pc = "cert" /\ Over(h, TRUE)
      /\ cert' = [cert EXCEPT ![h] = agent[h].got] /\ ca' = ca \cup {h}
  BY DEF EnrollInv, EnrollTypeOK, Install, VerifyResponse
<1>2. /\ agent' = [agent EXCEPT ![h] = Resting]
      /\ \/ UNCHANGED <<checked, failed, flushed>>
         \/ /\ checked' = [checked EXCEPT ![h] = clock]
            /\ failed' = failed /\ flushed' = flushed \cup {h}
         \/ /\ checked' = checked
            /\ failed' = failed \cup {h} /\ flushed' = flushed \cup {h}
  BY <1>1, OverEffect
<1>3. cert'[h] = agent[h].got /\ cert'[h].exp = clock + CertTTL
  BY <1>1 DEF EnrollTypeOK, FreshInv
<1>4. cert'[h].exp > clock + RenewBefore /\ cert'[h].exp # clock + 1
  BY <1>1, <1>3, ConfiguredTimes
<1>5. UNCHANGED <<clock, expiry, nonces, row, reqs, keys, spent, reused, enrolled, crossed>>
  BY DEF Install, serverVars
<1> QED
  BY <1>1, <1>2, <1>4, <1>5 DEF HostMove

\* An installation that fails sends nothing.
LEMMA InstallFailsMoves ==
    ASSUME EnrollInv, NEW h \in Host, InstallFails(h)
    PROVE  HostMove(h)
<1>1. EnrollTypeOK /\ agent[h].pc = "cert" /\ Over(h, FALSE) /\ Installed(h)
  BY DEF EnrollInv, InstallFails
<1>2. /\ agent' = [agent EXCEPT ![h] = Resting]
      /\ checked' = checked
      /\ \/ failed' = failed /\ flushed' = flushed
         \/ failed' = failed \cup {h} /\ flushed' = flushed \cup {h}
  BY <1>1, OverEffect
<1>3. UNCHANGED <<clock, expiry, nonces, row, reqs, keys, spent, reused, enrolled, crossed>>
  BY DEF InstallFails, serverVars
<1> QED
  BY <1>1, <1>2, <1>3 DEF HostMove, Installed, VerifyResponse

\* A flush that does not renew is one of a certificate that is not in its last
\* unit of time: the look that is not due was taken when more remained than the
\* interval between two looks.
LEMMA FlushOnlyMoves ==
    ASSUME EnrollInv, NEW h \in Host, FlushOnly(h)
    PROVE  HostMove(h)
<1>0. EnrollTypeOK /\ CheckedInv /\ clock \in Nat
  BY DEF EnrollInv, EnrollTypeOK
<1>1. UNCHANGED <<clock, expiry, nonces, row, reqs, keys, cert, ca, agent, spent, reused,
                  enrolled, crossed, failed>>
  BY DEF FlushOnly, serverVars, historyVars
<1>2. cert[h] # None /\ cert[h].exp \in Nat
  BY <1>0 DEF FlushOnly, Running, EnrollTypeOK, Certificate
<1>3. CASE ~ Due(h) /\ UNCHANGED checked
  <2>1. checked[h] # None /\ checked[h] \in Nat /\ ~(clock - checked[h] >= CheckInterval)
    BY <1>0, <1>3 DEF Due, EnrollTypeOK
  <2>2. checked[h] <= clock /\ cert[h].exp > checked[h] + RenewBefore
    BY <1>0, <1>2, <2>1 DEF CheckedInv
  <2>3. cert[h].exp # clock + 1
    BY <1>0, <1>2, <2>1, <2>2, ConfiguredTimes
  <2> QED
    BY <1>1, <1>3, <2>3 DEF HostMove, FlushOnly
<1>4. CASE cert[h].exp <= clock /\ UNCHANGED checked
  <2>1. cert[h].exp # clock + 1
    BY <1>0, <1>2, <1>4
  <2> QED
    BY <1>1, <1>4, <2>1 DEF HostMove, FlushOnly
<1>5. CASE cert[h].exp > clock + RenewBefore /\ checked' = [checked EXCEPT ![h] = clock]
  <2>1. cert[h].exp # clock + 1
    BY <1>0, <1>2, <1>5, ConfiguredTimes
  <2> QED
    BY <1>1, <1>5, <2>1 DEF HostMove, FlushOnly
<1> QED
  BY <1>3, <1>4, <1>5 DEF FlushOnly

\* A renewal that fails before it is sent is a move that remembers the failure.
LEMMA RenewUnsentMoves ==
    ASSUME EnrollInv, NEW h \in Host, RenewUnsent(h)
    PROVE  HostMove(h)
BY DEF RenewUnsent, Renewed, HostMove, serverVars

\* A host that restarts sends nothing, and forgets its look at the certificate.
LEMMA HostRestartMoves ==
    ASSUME EnrollInv, NEW h \in Host, HostRestart(h)
    PROVE  HostMove(h)
<1>1. UNCHANGED <<clock, expiry, nonces, row, reqs, keys, flushed, spent, reused, enrolled,
                  crossed, failed>>
  BY DEF HostRestart, serverVars, historyVars
<1> QED
  BY <1>1 DEF HostRestart, HostMove, Installed, VerifyResponse

\* A request is sent: host h waits for an answer on a connection that was free.
\* What it carries has been verified: a renewal no token, an enrollment one that
\* was issued.
LEMMA SendKeeps ==
    ASSUME EnrollInv, NEW h \in Host, NEW c \in Conn, NEW kind \in {"enroll", "renew"},
           NEW t \in Token \cup {None}, Send(h, c, kind, t),
           kind = "enroll" => t \in Token /\ expiry[t] \in Nat,
           keys' \in {keys, keys \cup {h}},
           UNCHANGED <<clock, expiry, nonces, row, cert, ca, checked, flushed, spent, reused,
                       enrolled, crossed, failed>>
    PROVE  EnrollInv'
<1>0. EnrollTypeOK /\ RowStays /\ TokenInv /\ FreshInv /\ CheckedInv /\ clock \in Nat
  BY DEF EnrollInv, EnrollTypeOK
<1> DEFINE new == [kind |-> kind, pc |-> IF kind = "enroll" THEN "consume" ELSE "read",
                   host |-> h, token |-> t, key |-> h, exp |-> 0]
           wait == [pc |-> "wait", conn |-> c, renewal |-> (kind = "renew")]
<1>1. /\ new \in Request /\ new.kind = kind /\ new.token = t
      /\ new.pc \in {"consume", "read"} /\ (new.pc = "consume" => kind = "enroll")
  BY DEF Request
<1>2. wait \in AgentState /\ wait.pc = "wait" /\ wait.conn = c
  BY DEF AgentState
<1>3. reqs' = [reqs EXCEPT ![c] = new] /\ agent' = [agent EXCEPT ![h] = wait]
  BY DEF Send
<1> HIDE DEF new, wait
<1>4. /\ reqs' \in [Conn -> Request \cup {None}] /\ reqs'[c] = new
      /\ \A d \in Conn : d # c => reqs'[d] = reqs[d]
  BY <1>0, <1>1, <1>3 DEF EnrollTypeOK
<1>5. /\ agent' \in [Host -> AgentState] /\ agent'[h] = wait
      /\ \A g \in Host : g # h => agent'[g] = agent[g]
  BY <1>0, <1>2, <1>3 DEF EnrollTypeOK
<1>6. ~ At(c, "enroll", "register")' /\ ~ At(c, "renew", "body")'
  BY <1>1, <1>4 DEF At
<1>7. EnrollTypeOK'
  BY <1>0, <1>4, <1>5 DEF EnrollTypeOK
<1>8. TokenInv'
  <2>1. \A d \in Conn : At(d, "enroll", "consume")' =>
           reqs'[d].token \in Token /\ expiry[reqs'[d].token] \in Nat
    BY <1>0, <1>1, <1>4 DEF TokenInv, At
  <2> QED
    BY <1>0, <2>1 DEF TokenInv, TokenUsedOnce
<1>9. crossed' \/ RegisteredInv'
  <2> SUFFICES ASSUME ~ crossed' PROVE RegisteredInv'
    OBVIOUS
  <2>1. RegisteredInv /\ clock <= clock' /\ enrolled' = enrolled
    BY <1>0 DEF EnrollInv
  <2>2. /\ row' # None => row # None
        /\ row \in Row => row' \in Row /\ row'.key = row.key /\ row'.exp = row.exp
    OBVIOUS
  <2>3. \A g \in Host : \/ cert'[g] = cert[g]
                        \/ agent[g].pc = "cert" /\ cert'[g] = agent[g].got
    OBVIOUS
  <2>4. \A g \in Host : agent'[g] = agent[g] \/ agent'[g].pc # "cert"
    BY <1>2, <1>5
  <2>5. \A d \in Conn : At(d, "enroll", "register")' =>
           reqs'[d] = reqs[d] \/ reqs'[d].exp = clock' + CertTTL
    BY <1>4, <1>6
  <2>6. \A d \in Conn : At(d, "renew", "body")' =>
           reqs'[d] = reqs[d] \/ (row # None /\ reqs'[d].key = row.key)
    BY <1>4, <1>6
  <2> QED
    BY <1>0, <1>7, <2>1, <2>2, <2>3, <2>4, <2>5, <2>6, RegisteredFrame
<1>10. FreshInv'
  <2>1. \A g \in Host : \/ agent'[g] = agent[g]
                        \/ agent'[g].pc = "wait" /\ \A d \in Conn :
                              agent'[g].conn = d => ~ At(d, "enroll", "register")'
    BY <1>2, <1>5, <1>6
  <2>2. \A d \in Conn : At(d, "enroll", "register")' => reqs'[d] = reqs[d]
    BY <1>4, <1>6
  <2> QED
    BY <1>0, <2>1, <2>2, FreshFrame
<1>11. CheckedInv'
  BY <1>0, CheckedFrame
<1>12. RowStays'
  <2>1. \A d \in Conn : At(d, "renew", "body")' => At(d, "renew", "body")
    BY <1>4, <1>6 DEF At
  <2> QED
    BY <1>0, <2>1 DEF RowStays
<1> QED
  BY <1>7, <1>8, <1>9, <1>10, <1>11, <1>12 DEF EnrollInv

\* Time passes: nobody waits for anything, and a token that expires may be
\* forgotten.
LEMMA TickKeeps ==
    ASSUME EnrollInv, Tick
    PROVE  EnrollInv'
<1>0. EnrollTypeOK /\ RowStays /\ TokenInv /\ FreshInv /\ CheckedInv /\ clock \in Nat
  BY DEF EnrollInv, EnrollTypeOK
<1>1. /\ \A h \in Host : agent[h] = Resting
      /\ clock' = clock + 1 /\ flushed' = {} /\ failed' = {}
      /\ UNCHANGED <<expiry, nonces, row, reqs, keys, cert, ca, agent, checked, spent, reused,
                     enrolled, crossed>>
  BY DEF Tick, serverVars
<1>2. clock' \in Nat /\ clock <= clock'
  BY <1>0, <1>1
<1>3. EnrollTypeOK'
  BY <1>0, <1>1, <1>2 DEF EnrollTypeOK
<1>4. TokenInv'
  BY <1>0, <1>1, <1>2, TokenFrame
<1>5. crossed' \/ RegisteredInv'
  <2> SUFFICES ASSUME ~ crossed' PROVE RegisteredInv'
    OBVIOUS
  <2>1. RegisteredInv
    BY <1>1 DEF EnrollInv
  <2>2. \A h \in Host : \/ cert'[h] = cert[h]
                        \/ agent[h].pc = "cert" /\ cert'[h] = agent[h].got
    BY <1>1
  <2>3. row \in Row => row' \in Row /\ row'.key = row.key /\ row'.exp = row.exp
    BY <1>1
  <2> QED
    BY <1>0, <1>1, <1>2, <1>3, <2>1, <2>2, <2>3, RegisteredFrame
<1>6. FreshInv'
  BY <1>1 DEF FreshInv, Resting
<1>7. CheckedInv'
  <2>1. ASSUME NEW h \in Host, checked[h] # None
        PROVE  checked[h] <= clock'
    BY <1>0, <1>1, <2>1 DEF CheckedInv, EnrollTypeOK
  <2> QED
    BY <1>0, <1>1, <2>1 DEF CheckedInv
<1>8. RowStays'
  BY <1>0, <1>1 DEF RowStays, At
<1> QED
  BY <1>3, <1>4, <1>5, <1>6, <1>7, <1>8 DEF EnrollInv

-----------------------------------------------------------------------------
(***************************************************************************)
(* The theorems.                                                           *)
(***************************************************************************)
LEMMA EnrollInitInv == EnrollInit => EnrollInv
<1> SUFFICES ASSUME EnrollInit PROVE EnrollInv
  OBVIOUS
<1>1. EnrollTypeOK
  BY DEF EnrollInit, EnrollTypeOK, AgentState
<1>2. TokenInv /\ RowStays
  BY DEF EnrollInit, TokenInv, TokenUsedOnce, RowStays, At
<1>3. RegisteredInv
  BY DEF EnrollInit, RegisteredInv, Resting, At
<1>4. FreshInv /\ CheckedInv
  BY DEF EnrollInit, FreshInv, CheckedInv, Resting, At
<1> QED
  BY <1>1, <1>2, <1>3, <1>4 DEF EnrollInv

\* Every step keeps EnrollInv.
LEMMA EnrollStepKeeps ==
    ASSUME EnrollInv, [EnrollNext]_enrollVars
    PROVE  EnrollInv'
<1>1. CASE Tick
  BY <1>1, TickKeeps
<1>2. CASE revoke_agent
  BY <1>2, revoke_agentKeeps
<1>3. CASE ServerRestart
  BY <1>3, ServerRestartKeeps
<1>4. ASSUME NEW t \in Token, issue(t) PROVE EnrollInv'
  BY <1>4, issueKeeps
<1>5. ASSUME NEW c \in Conn,
             EnrollConsume(c) \/ EnrollRegister(c) \/ RenewRead(c) \/ RenewRotate(c)
      PROVE  EnrollInv'
  BY <1>5, EnrollConsumeKeeps, EnrollRegisterKeeps, RenewReadKeeps, RenewRotateKeeps
<1>6. ASSUME NEW h \in Host,
             \/ GiveUp(h) \/ Install(h) \/ InstallFails(h)
             \/ FlushOnly(h) \/ RenewUnsent(h) \/ HostRestart(h)
      PROVE  EnrollInv'
  <2>1. HostMove(h)
    BY <1>6, GiveUpMoves, InstallMoves, InstallFailsMoves, FlushOnlyMoves, RenewUnsentMoves,
       HostRestartMoves
  <2> QED
    BY <2>1, HostMoveKeeps
<1>7. ASSUME NEW h \in Host, NEW c \in Conn, Renew(h, c) PROVE EnrollInv'
  <2>1. /\ Send(h, c, "renew", None) /\ keys' = keys
        /\ UNCHANGED <<clock, expiry, nonces, row, cert, ca, checked, flushed, spent, reused,
                       enrolled, crossed, failed>>
    BY <1>7 DEF Renew, historyVars
  <2> QED
    BY <2>1, SendKeeps
<1>8. ASSUME NEW h \in Host, NEW c \in Conn, NEW t \in Token, Enroll(h, t, c) PROVE EnrollInv'
  <2>1. /\ Send(h, c, "enroll", t) /\ keys' = keys \cup {h}
        /\ UNCHANGED <<clock, expiry, nonces, row, cert, ca, checked, flushed, spent, reused,
                       enrolled, crossed, failed>>
    BY <1>8 DEF Enroll, historyVars
  <2>2. expiry[t] \in Nat
    BY <1>8 DEF Enroll, Verified, EnrollInv, EnrollTypeOK
  <2> QED
    BY <2>1, <2>2, SendKeeps
<1>9. CASE UNCHANGED enrollVars
  <2>1. UNCHANGED <<clock, expiry, nonces, row, reqs, keys, cert, ca, agent, checked, flushed,
                    spent, reused, enrolled, crossed, failed>>
    BY <1>9 DEF enrollVars, serverVars, hostVars, historyVars
  <2> QED
    BY <2>1 DEF EnrollInv, EnrollTypeOK, RowStays, TokenInv, TokenUsedOnce, RegisteredInv,
                FreshInv, CheckedInv, At
<1> QED
  BY <1>1, <1>2, <1>3, <1>4, <1>5, <1>6, <1>7, <1>8, <1>9 DEF EnrollNext

\* The inductive invariant holds throughout.
LEMMA EnrollInvariant == EnrollSpec => []EnrollInv
<1>1. EnrollInit => EnrollInv
  BY EnrollInitInv
<1>2. EnrollInv /\ [EnrollNext]_enrollVars => EnrollInv'
  BY EnrollStepKeeps
<1> QED
  BY <1>1, <1>2, PTL DEF EnrollSpec

(***************************************************************************)
(* A bootstrap token pays for one enrollment until it expires, with any    *)
(* number of concurrent requests and restarts: EnrollmentNonceStore        *)
(* forgets a nonce only when consume finds it expired.                     *)
(***************************************************************************)
THEOREM TokenUsedOnceAlways == EnrollSpec => []TokenUsedOnce
<1>1. EnrollInv => TokenUsedOnce
  BY DEF EnrollInv, TokenInv
<1> QED
  BY <1>1, EnrollInvariant, PTL

(***************************************************************************)
(* Unless two registrations crossed, the key in agent_enrollments is the   *)
(* one that enrolled last: rotate_agent_certificate never brings in        *)
(* another.                                                                *)
(***************************************************************************)
THEOREM KeyNeedsEnrollmentAlways == EnrollSpec => []KeyNeedsEnrollment
<1>1. EnrollInv => KeyNeedsEnrollment
  BY DEF EnrollInv, RegisteredInv, KeyNeedsEnrollment
<1> QED
  BY <1>1, EnrollInvariant, PTL

(***************************************************************************)
(* Unless two registrations crossed, a certificate that the host of the    *)
(* last enrollment has on its disk is of the registered key and expires no *)
(* later than the row says, whatever answers were lost and wherever Enroll *)
(* or Renew was interrupted.                                               *)
(***************************************************************************)
THEOREM InstalledIsAcceptedAlways == EnrollSpec => []InstalledIsAccepted
<1>1. ASSUME EnrollInv, NEW h \in Host, enrolled = h, cert[h] # None, ~ crossed
      PROVE  row.key = h /\ row.exp >= cert[h].exp
  <2>1. RegisteredInv /\ enrolled # None
    BY <1>1, ConfiguredTimes DEF EnrollInv
  <2>2. row \in Row /\ row.key = enrolled /\ cert[h].exp <= row.exp
    BY <1>1, <2>1 DEF RegisteredInv
  <2>3. row.exp \in Nat /\ cert[h].exp \in Nat
    BY <1>1, <2>2 DEF EnrollInv, EnrollTypeOK, Row, Certificate
  <2> QED
    BY <1>1, <2>2, <2>3
<1>2. EnrollInv => InstalledIsAccepted
  BY <1>1 DEF InstalledIsAccepted
<1> QED
  BY <1>2, EnrollInvariant, PTL

(***************************************************************************)
(* When the certificate of a running Agent expires, the last unit of its   *)
(* lifetime saw a renewal fail: maybeRenewCertificate neither puts a look  *)
(* off beyond the expiry nor takes a failed renewal for one.               *)
(***************************************************************************)
THEOREM LastChanceTakenAlways == EnrollSpec => LastChanceTaken
<1>1. ASSUME EnrollInv, [EnrollNext]_enrollVars, clock' # clock
      PROVE  Tick
  BY <1>1 DEF EnrollNext, revoke_agent, ServerRestart, issue, EnrollConsume, EnrollRegister,
              RenewRead, RenewRotate, GiveUp, Install, InstallFails, FlushOnly, RenewUnsent,
              HostRestart, Renew, Enroll, enrollVars
<1>2. ASSUME EnrollInv, Tick, NEW h \in Host, Running(h), clock' = cert[h].exp
      PROVE  h \in failed
  <2>1. cert[h].exp = clock + 1 /\ cert[h] # None /\ h \in flushed
    BY <1>2 DEF Tick, Running
  <2> QED
    BY <1>2, <2>1 DEF EnrollInv, CheckedInv
<1>3. EnrollInv /\ [EnrollNext]_enrollVars =>
         [\A h \in Host : Running(h) /\ clock' = cert[h].exp => h \in failed]_clock
  BY <1>1, <1>2
<1> QED
  BY <1>3, EnrollInvariant, PTL DEF EnrollSpec, LastChanceTaken

=============================================================================
