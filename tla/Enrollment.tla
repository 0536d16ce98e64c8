----------------------------- MODULE Enrollment -----------------------------
(***************************************************************************)
(* How an Agent gets its certificate and keeps it: enrollment with a       *)
(* bootstrap token, renewal before expiry and revocation, on both sides    *)
(* (src/ntshield/enrollment*.py, app.py; agent/internal/enrollment,        *)
(* identity and transport/sender.go).                                      *)
(*                                                                         *)
(* One Agent ID.  Hosts are the machines that have been configured with    *)
(* it, each with its own identity key, which the model names by the host.  *)
(* A certificate is its key and its expiry.  The Control Plane accepts a   *)
(* request that is signed with the key of the registered certificate while *)
(* that certificate lasts.                                                 *)
(*                                                                         *)
(* enroll_agent runs in a thread of the pool, so its statements interleave *)
(* with every other request.  renew_agent_certificate is a coroutine: it   *)
(* is interrupted only where it awaits the body.  A request goes on after  *)
(* its client has given up.  The Agent flushes its outbox at least once    *)
(* per unit of the clock, and no request of its own outlasts a unit.       *)
(***************************************************************************)
EXTENDS Naturals, FiniteSets

CONSTANTS Host, Token, Conn, None,
          TokenTTL,         \* lifetime of a bootstrap token
          CertTTL,          \* lifetime of a certificate
          RenewBefore,      \* renew when no more than this remains
          CheckInterval,    \* look at the certificate this often
          LastIssue,        \* bound: no bootstrap token is issued after this
          MaxClock          \* bound

\* The default configuration has 720h, 168h and 1h.  Nothing checks that the
\* interval is the smaller one: with a larger one a certificate can expire
\* between two looks.
ASSUME EnrollmentAssumption ==
    /\ {TokenTTL, CertTTL, RenewBefore, CheckInterval, MaxClock} \subseteq Nat \ {0}
    /\ CheckInterval <= RenewBefore
    /\ RenewBefore < CertTTL
    /\ LastIssue \in Nat
    /\ None \notin Host \cup Nat

VARIABLES clock,
          expiry,     \* per token: when it expires, None before it is issued
          nonces,     \* tokens in enrollment_nonces
          row,        \* the row in agent_enrollments, or None
          reqs,       \* per connection: the request it handles, or None
          keys,       \* hosts that have an identity key file
          cert,       \* per host: the certificate file, or None
          ca,         \* hosts that have the CA file
          agent,      \* per host: what enroll or maybeRenewCertificate is doing
          checked,    \* per host: lastRenewalCheck, or None
          flushed,    \* hosts that have flushed in this unit of time
          spent,      \* history: tokens that have paid for an enrollment
          reused,     \* history: tokens that paid for another before their expiry
          enrolled,   \* history: the host of the last registered enrollment
          crossed,    \* history: a certificate was registered while another
                      \* request was about to register one
          failed      \* history: hosts whose renewal failed in this unit of time

serverVars == <<expiry, nonces, row, reqs>>
hostVars == <<keys, cert, ca, agent, checked, flushed>>
historyVars == <<spent, reused, enrolled, crossed, failed>>
enrollVars == <<clock, serverVars, hostVars, historyVars>>

Resting == [pc |-> "idle"]

EnrollInit ==
    /\ clock = 0
    /\ expiry = [t \in Token |-> None] /\ nonces = {} /\ row = None
    /\ reqs = [c \in Conn |-> None]
    /\ keys = {} /\ cert = [h \in Host |-> None] /\ ca = {}
    /\ agent = [h \in Host |-> Resting]
    /\ checked = [h \in Host |-> None] /\ flushed = {}
    /\ spent = {} /\ reused = {} /\ enrolled = None
    /\ crossed = FALSE /\ failed = {}

-----------------------------------------------------------------------------
(***************************************************************************)
(* The Control Plane's handlers.                                           *)
(***************************************************************************)
At(c, kind, pc) == reqs[c] # None /\ reqs[c].kind = kind /\ reqs[c].pc = pc

\* The request ends.  A client that still waits for it gets the certificate;
\* one that gets an error, or no answer, is left to GiveUp.
Refuse(c) == reqs' = [reqs EXCEPT ![c] = None] /\ UNCHANGED hostVars

Reply(c, new) ==
    LET h == reqs[c].host
    IN  /\ reqs' = [reqs EXCEPT ![c] = None]
        /\ \/ UNCHANGED agent
           \/ /\ agent[h].pc = "wait" /\ agent[h].conn = c
              /\ agent' = [agent EXCEPT ![h] =
                             [pc |-> "cert", got |-> new, renewal |-> @.renewal]]
        /\ UNCHANGED <<keys, cert, ca, checked, flushed>>

\* Mutant of Remembered: a nonce goes at its expiry, not after it.
RememberedTooBriefly == {t \in nonces : ~(expiry[t] <= clock)}

\* The nonces that consume leaves in the table.
Remembered == {t \in nonces : ~(expiry[t] < clock)}

\* consume is one transaction: expired nonces are deleted, this one is
\* inserted; a conflict rolls both back.  issue_client_certificate comes next
\* and touches nothing that is shared; a CSR it refuses does not give the
\* token back.
EnrollConsume(c) ==
    /\ At(c, "enroll", "consume")
    /\ LET t == reqs[c].token
       IN  IF t \in Remembered
           THEN Refuse(c) /\ UNCHANGED <<nonces, spent, reused>>
           ELSE /\ nonces' = Remembered \cup {t}
                /\ spent' = spent \cup {t}
                /\ reused' = IF t \in spent /\ clock <= expiry[t] THEN reused \cup {t}
                                                                ELSE reused
                /\ \/ Refuse(c)
                   \/ /\ reqs' = [reqs EXCEPT ![c].pc = "register", ![c].token = None,
                                              ![c].exp = clock + CertTTL]
                      /\ UNCHANGED hostVars
    /\ UNCHANGED <<clock, expiry, row, enrolled, crossed, failed>>

\* register_agent: the row is made anew, and a revocation is lifted.
EnrollRegister(c) ==
    /\ At(c, "enroll", "register")
    /\ LET new == [key |-> reqs[c].host, exp |-> reqs[c].exp]
       IN  /\ row' = [key |-> new.key, exp |-> new.exp, revoked |-> FALSE]
           /\ Reply(c, new)
    /\ enrolled' = reqs[c].host
    /\ crossed' = (crossed \/ \E d \in Conn \ {c} :
                       At(d, "enroll", "register") \/ At(d, "renew", "body"))
    /\ UNCHANGED <<clock, expiry, nonces, spent, reused, failed>>

\* Before the body is read: the row, and whether it is active.
RenewRead(c) ==
    /\ At(c, "renew", "read")
    /\ IF row # None /\ ~row.revoked /\ row.exp > clock
       THEN /\ reqs' = [reqs EXCEPT ![c].pc = "body", ![c].key = row.key, ![c].exp = row.exp]
            /\ UNCHANGED hostVars
       ELSE Refuse(c)
    /\ UNCHANGED <<clock, expiry, nonces, row, historyVars>>

\* Mutant of Renewable: the CSR is not compared with the certificate.
RenewableByAnyKey(c) == reqs[c].exp > clock

\* verify_agent_payload and verify_renewal_csr_identity, with the certificate
\* that was registered when the row was read.
Renewable(c) == reqs[c].exp > clock /\ reqs[c].key = reqs[c].host

\* Mutant of Rotated: the expiry stays the one of the old certificate.
RotatedKeepingExpiry(new) == [row EXCEPT !.key = new.key]

\* rotate_agent_certificate.
Rotated(new) == [row EXCEPT !.key = new.key, !.exp = new.exp]

\* After the body: everything else.
RenewRotate(c) ==
    /\ At(c, "renew", "body")
    /\ IF Renewable(c) /\ ~row.revoked
       THEN LET new == [key |-> reqs[c].host, exp |-> clock + CertTTL]
            IN  /\ row' = Rotated(new)
                /\ Reply(c, new)
                /\ crossed' = (crossed \/ \E d \in Conn : At(d, "enroll", "register"))
       ELSE Refuse(c) /\ UNCHANGED <<row, crossed>>
    /\ UNCHANGED <<clock, expiry, nonces, spent, reused, enrolled, failed>>

\* ntshield enrollment-token and revoke-agent.
issue(t) ==
    /\ expiry[t] = None /\ clock <= LastIssue
    /\ expiry' = [expiry EXCEPT ![t] = clock + TokenTTL]
    /\ UNCHANGED <<clock, nonces, row, reqs, hostVars, historyVars>>

revoke_agent ==
    /\ row # None /\ ~row.revoked
    /\ row' = [row EXCEPT !.revoked = TRUE]
    /\ UNCHANGED <<clock, expiry, nonces, reqs, hostVars, historyVars>>

\* The Control Plane dies and is started again: its tables survive.
ServerRestart ==
    /\ \E c \in Conn : reqs[c] # None
    /\ reqs' = [c \in Conn |-> None]
    /\ UNCHANGED <<clock, expiry, nonces, row, hostVars, historyVars>>

-----------------------------------------------------------------------------
(***************************************************************************)
(* The hosts: ntagentshield-enroll and the Agent's sender.                 *)
(***************************************************************************)
Send(h, c, kind, t) ==
    /\ agent[h] = Resting /\ reqs[c] = None
    /\ reqs' = [reqs EXCEPT ![c] =
                  [kind |-> kind, pc |-> IF kind = "enroll" THEN "consume" ELSE "read",
                   host |-> h, token |-> t, key |-> h, exp |-> 0]]
    /\ agent' = [agent EXCEPT ![h] =
                   [pc |-> "wait", conn |-> c, renewal |-> kind = "renew"]]

\* EnrollmentTokenManager.verify.
Verified(t) == expiry[t] # None /\ expiry[t] > clock

\* Enroll: identity.Ensure keeps a key that is there, and makes one before
\* anything is sent.  A request with a token that is not valid any more when
\* it arrives changes nothing and is left out.
Enroll(h, t, c) ==
    /\ Verified(t)
    /\ Send(h, c, "enroll", t)
    /\ keys' = keys \cup {h}
    /\ UNCHANGED <<clock, expiry, nonces, row, cert, ca, checked, flushed, historyVars>>

\* Mutant of Renewed: a failure counts as well.
RenewedAlways(h, ok) ==
    /\ checked' = [checked EXCEPT ![h] = clock]
    /\ failed' = IF ok THEN failed ELSE failed \cup {h}
    /\ flushed' = flushed \cup {h}

\* Where the flush of a renewal that is over leaves the sender.  A failure
\* does not count as a look at the certificate.
Renewed(h, ok) ==
    /\ checked' = IF ok THEN [checked EXCEPT ![h] = clock] ELSE checked
    /\ failed' = IF ok THEN failed ELSE failed \cup {h}
    /\ flushed' = flushed \cup {h}

\* Enroll or Renew is over.
Over(h, ok) ==
    /\ agent' = [agent EXCEPT ![h] = Resting]
    /\ IF agent[h].renewal THEN Renewed(h, ok) ELSE UNCHANGED <<checked, failed, flushed>>

\* An error, the client's timeout, or a Control Plane that is gone.
GiveUp(h) ==
    /\ agent[h].pc = "wait"
    /\ Over(h, FALSE)
    /\ UNCHANGED <<clock, serverVars, keys, cert, ca, spent, reused, enrolled, crossed>>

\* decodeAndVerifyResponse accepts a certificate for this host's key only.
VerifyResponse(h) == agent[h].pc = "cert" /\ agent[h].got.key = h

\* Enroll and Renew write the certificate, then the CA; an error, or the death
\* of the process, can leave the first or both of them behind.
Installed(h) ==
    \/ UNCHANGED <<cert, ca>>
    \/ /\ VerifyResponse(h)
       /\ cert' = [cert EXCEPT ![h] = agent[h].got]
       /\ ca' \in {ca, ca \cup {h}}

\* Both are installed and the pinned policy key is the one they came with.
Install(h) ==
    /\ VerifyResponse(h)
    /\ cert' = [cert EXCEPT ![h] = agent[h].got]
    /\ ca' = ca \cup {h}
    /\ Over(h, TRUE)
    /\ UNCHANGED <<clock, serverVars, keys, spent, reused, enrolled, crossed>>

\* An error at any place: a policy key that has changed is one although
\* certificate and CA are installed.
InstallFails(h) ==
    /\ agent[h].pc = "cert"
    /\ Installed(h)
    /\ Over(h, FALSE)
    /\ UNCHANGED <<clock, serverVars, keys, spent, reused, enrolled, crossed>>

\* An Agent runs where all three files are.
Running(h) == h \in keys /\ h \in ca /\ cert[h] # None

\* The look maybeRenewCertificate takes, when it is time for one.
Due(h) == checked[h] # None => clock - checked[h] >= CheckInterval

\* Flush when there is nothing to renew: it is not time to look, or enough
\* remains, or the certificate has expired and only enrollment helps.
FlushOnly(h) ==
    /\ Running(h) /\ agent[h] = Resting /\ h \notin flushed
    /\ \/ ~Due(h) /\ UNCHANGED checked
       \/ Due(h) /\ cert[h].exp <= clock /\ UNCHANGED checked
       \/ Due(h) /\ cert[h].exp > clock + RenewBefore /\ checked' = [checked EXCEPT ![h] = clock]
    /\ flushed' = flushed \cup {h}
    /\ UNCHANGED <<clock, serverVars, keys, cert, ca, agent, historyVars>>

RenewDue(h) ==
    /\ Running(h) /\ agent[h] = Resting /\ h \notin flushed /\ Due(h)
    /\ cert[h].exp > clock /\ cert[h].exp <= clock + RenewBefore

Renew(h, c) ==
    /\ RenewDue(h)
    /\ Send(h, c, "renew", None)
    /\ UNCHANGED <<clock, expiry, nonces, row, keys, cert, ca, checked, flushed, historyVars>>

\* No connection to the Control Plane.
RenewUnsent(h) ==
    /\ RenewDue(h)
    /\ Renewed(h, FALSE)
    /\ UNCHANGED <<clock, serverVars, keys, cert, ca, agent, spent, reused, enrolled, crossed>>

\* The process on the host dies and is started again.
HostRestart(h) ==
    /\ agent[h] # Resting
    /\ agent' = [agent EXCEPT ![h] = Resting]
    /\ Installed(h)
    /\ checked' = [checked EXCEPT ![h] = None]
    /\ UNCHANGED <<clock, serverVars, keys, flushed, historyVars>>

Tick ==
    /\ clock < MaxClock
    /\ \A h \in Host : agent[h] = Resting /\ (Running(h) => h \in flushed)
    /\ clock' = clock + 1
    /\ flushed' = {} /\ failed' = {}
    /\ UNCHANGED <<serverVars, keys, cert, ca, agent, checked, spent, reused, enrolled, crossed>>

EnrollNext ==
    \/ Tick \/ revoke_agent \/ ServerRestart
    \/ \E t \in Token : issue(t)
    \/ \E c \in Conn :
          \/ EnrollConsume(c) \/ EnrollRegister(c)
          \/ RenewRead(c) \/ RenewRotate(c)
    \/ \E h \in Host :
          \/ GiveUp(h) \/ Install(h) \/ InstallFails(h)
          \/ FlushOnly(h) \/ RenewUnsent(h) \/ HostRestart(h)
          \/ \E c \in Conn : Renew(h, c) \/ \E t \in Token : Enroll(h, t, c)

EnrollSpec == EnrollInit /\ [][EnrollNext]_enrollVars

-----------------------------------------------------------------------------
(***************************************************************************)
(* Properties.                                                             *)
(***************************************************************************)
(***************************************************************************)
(* Until it expires a bootstrap token pays for one enrollment, across      *)
(* restarts of the Control Plane and however many requests carry it.       *)
(* After its expiry a request that was verified before still can pay with  *)
(* it again, because the nonce is deleted as expired by then.              *)
(***************************************************************************)
TokenUsedOnce == reused = {}

(***************************************************************************)
(* The registered key is the one of the last enrollment: a renewal never   *)
(* brings in another.  The exception is a renewal that read the row before *)
(* a new enrollment and writes it afterwards.                              *)
(***************************************************************************)
KeyNeedsEnrollment == row # None /\ ~crossed => row.key = enrolled

(***************************************************************************)
(* Whatever answers are lost or late: while the host of the last           *)
(* enrollment has a certificate, the Control Plane has its key registered  *)
(* and lets it last at least as long as the host believes it does.         *)
(***************************************************************************)
InstalledIsAccepted ==
    \A h \in Host : enrolled = h /\ cert[h] # None /\ ~crossed =>
        row.key = h /\ row.exp >= cert[h].exp

(***************************************************************************)
(* A running Agent's certificate expires only after a renewal has failed   *)
(* in the very last unit of its lifetime: no failure before, no restart    *)
(* and no look at the certificate postpones the last attempt past expiry.  *)
(***************************************************************************)
LastChanceTaken ==
    [][\A h \in Host : Running(h) /\ clock' = cert[h].exp => h \in failed]_clock

=============================================================================
