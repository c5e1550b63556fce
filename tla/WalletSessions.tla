--------------------------- MODULE WalletSessions ---------------------------
(***************************************************************************)
(* Activation of the payment wallet and its bearer sessions                *)
(* (src/src/lib/payments/walletSession.ts): a student asks for a code on a *)
(* device, exchanges the code for a session, and every refresh of the      *)
(* session replaces its tokens.                                            *)
(*                                                                         *)
(* Codes are requested and checked in transactions that hold the advisory  *)
(* locks of the student, so each is one step; the e-mail, the creation of  *)
(* the session and each statement of a refresh are steps of their own.     *)
(* One student.  Switches, rate limits and eligibility only refuse.        *)
(***************************************************************************)
EXTENDS FiniteSets, Naturals, Sequences

CONSTANTS
  Devices,
  MaxCodes,      \* codes that are requested
  MaxAttempts,   \* checks of a code (5 in the code)
  Clients        \* requests to refresh, each made at most once

ASSUME SessionAssumption == MaxCodes \in Nat /\ IsFiniteSet(Clients)

\* Codes, sessions and the refresh tokens of a session are numbered in the
\* order of their creation; 0 stands for none, or for a token never issued.
Codes == 1 .. MaxCodes
Sessions == Codes
Tokens == 0 .. Cardinality(Clients) + 1

CodeRecords ==
  [device : Devices, sending : BOOLEAN, live : BOOLEAN, attempts : 0 .. MaxAttempts,
   consumed : BOOLEAN]

SessionRecords ==
  [code : Codes, token : Tokens, expired : BOOLEAN, revoked : BOOLEAN, reused : BOOLEAN]

Stages == {"ENDED", "EXCHANGED", "MATCHED", "RACED", "REFUSED", "GRANTED"}

ClientRecords ==
  [stage : Stages, session : Sessions, token : Tokens, ownDevice : BOOLEAN]

NoClient == [stage |-> "NONE"]

VARIABLES
  code,     \* sequence of student_payment_activation_challenge
  opening,  \* codes consumed by a handler that has not yet created the session
  session,  \* sequence of student_payment_session
  client    \* [Clients -> request to refresh, or NoClient]

sessionVars == <<code, opening, session, client>>

SessionTypeOK ==
  /\ code \in Seq(CodeRecords) /\ Len(code) \in 0 .. MaxCodes
  /\ opening \in SUBSET Codes
  /\ session \in Seq(SessionRecords) /\ Len(session) \in 0 .. MaxCodes
  /\ client \in [Clients -> ClientRecords \cup {NoClient}]

SessionInit ==
  /\ code = <<>>
  /\ opening = {}
  /\ session = <<>>
  /\ client = [r \in Clients |-> NoClient]

-----------------------------------------------------------------------------
(* Codes. *)

Superseded(c, d) ==
  IF c.device = d /\ ~c.consumed THEN [c EXCEPT !.live = FALSE] ELSE c

NewCode(d) ==
  [device |-> d, sending |-> TRUE, live |-> TRUE, attempts |-> 0, consumed |-> FALSE]

\* Faulty variant of RequestCode: codes asked for earlier stay usable.
RequestAnotherCode(d) ==
  /\ Len(code) < MaxCodes
  /\ code' = Append(code, NewCode(d))
  /\ UNCHANGED <<opening, session, client>>

RequestCode(d) ==
  /\ Len(code) < MaxCodes
  /\ code' = Append([i \in DOMAIN code |-> Superseded(code[i], d)], NewCode(d))
  /\ UNCHANGED <<opening, session, client>>

\* The e-mail is sent after the locks are released, and its answer may come
\* after the code was used.  A failure ends this code and restores none.
FinishEmail(i, sent) ==
  /\ i \in DOMAIN code /\ code[i].sending
  /\ code' = [code EXCEPT ![i].sending = FALSE,
                          ![i].live = @ /\ (sent \/ code[i].consumed)]
  /\ UNCHANGED <<opening, session, client>>

LapseCode(i) ==
  /\ i \in DOMAIN code /\ code[i].live
  /\ code' = [code EXCEPT ![i].live = FALSE]
  /\ UNCHANGED <<opening, session, client>>

Accepts(i, d, right) ==
  /\ code[i].live /\ ~code[i].consumed
  /\ code[i].device = d
  /\ code[i].attempts < MaxAttempts
  /\ right

RejectCode(i, d, right) ==
  /\ i \in DOMAIN code /\ ~code[i].consumed
  /\ ~Accepts(i, d, right)
  /\ code[i].attempts < MaxAttempts
  /\ code' = [code EXCEPT ![i].attempts = @ + 1]
  /\ UNCHANGED <<opening, session, client>>

ConsumeCode(i, d) ==
  /\ i \in DOMAIN code /\ Accepts(i, d, TRUE)
  /\ code' = [code EXCEPT ![i].attempts = @ + 1, ![i].consumed = TRUE]
  /\ opening' = opening \cup {i}
  /\ UNCHANGED <<session, client>>

\* After the transaction; a handler that stops in between leaves a used code.
CreateSession(i) ==
  /\ i \in opening
  /\ opening' = opening \ {i}
  /\ session' = Append(session,
       [code |-> i, token |-> 1, expired |-> FALSE, revoked |-> FALSE,
        reused |-> FALSE])
  /\ UNCHANGED <<code, client>>

-----------------------------------------------------------------------------
(* Sessions. *)

\* What a request decides from the session it has read.
Reading(s, t, own) ==
  IF session[s].revoked \/ session[s].reused \/ session[s].expired
  THEN IF session[s].revoked THEN "REFUSED" ELSE "ENDED"
  ELSE IF ~own THEN "REFUSED"
  ELSE IF session[s].token # t THEN "EXCHANGED" ELSE "MATCHED"

ReadSession(r, s, t, own) ==
  /\ client[r] = NoClient
  /\ s \in DOMAIN session /\ t <= session[s].token
  /\ client' = [client EXCEPT ![r] =
       [stage |-> Reading(s, t, own), session |-> s, token |-> t, ownDevice |-> own]]
  /\ UNCHANGED <<code, opening, session>>

Refused(r) == client' = [client EXCEPT ![r].stage = "REFUSED"]

\* The session that was read had ended: it is marked revoked.
EndSession(r) ==
  /\ client[r].stage = "ENDED"
  /\ session' = [session EXCEPT ![client[r].session].revoked = TRUE]
  /\ Refused(r)
  /\ UNCHANGED <<code, opening>>

\* The token presented was not the session's: reuse, or theft.
RevokeReused(r) ==
  /\ client[r].stage = "EXCHANGED"
  /\ session' = [session EXCEPT ![client[r].session].revoked = TRUE,
                                ![client[r].session].reused = TRUE]
  /\ Refused(r)
  /\ UNCHANGED <<code, opening>>

\* Faulty variant of CanRotate: the update relies on what was read.
CanAlwaysRotate(r) == TRUE

\* The conditional update.
CanRotate(r) ==
  LET s == session[client[r].session]
  IN  s.token = client[r].token /\ ~s.revoked /\ ~s.reused

RotateTokens(r) ==
  /\ client[r].stage = "MATCHED"
  /\ CanRotate(r)
  /\ session' = [session EXCEPT ![client[r].session].token = @ + 1,
                                ![client[r].session].expired = FALSE]
  /\ client' = [client EXCEPT ![r].stage = "GRANTED"]
  /\ UNCHANGED <<code, opening>>

LoseRotation(r) ==
  /\ client[r].stage = "MATCHED"
  /\ ~CanRotate(r)
  /\ client' = [client EXCEPT ![r].stage = "RACED"]
  /\ UNCHANGED <<code, opening, session>>

RevokeRaced(r) ==
  /\ client[r].stage = "RACED"
  /\ session' = [session EXCEPT ![client[r].session] =
       IF @.revoked THEN @ ELSE [@ EXCEPT !.revoked = TRUE, !.reused = TRUE]]
  /\ Refused(r)
  /\ UNCHANGED <<code, opening>>

\* The student signs out.
RevokeSession(s) ==
  /\ s \in DOMAIN session /\ ~session[s].revoked
  /\ session' = [session EXCEPT ![s].revoked = TRUE]
  /\ UNCHANGED <<code, opening, client>>

\* Thirty days without a refresh.
ExpireSession(s) ==
  /\ s \in DOMAIN session /\ ~session[s].expired
  /\ session' = [session EXCEPT ![s].expired = TRUE]
  /\ UNCHANGED <<code, opening, client>>

SessionNext ==
  \/ \E d \in Devices : RequestCode(d)
  \/ \E i \in Codes : LapseCode(i) \/ \E sent \in BOOLEAN : FinishEmail(i, sent)
  \/ \E i \in Codes, d \in Devices :
       \/ \E right \in BOOLEAN : RejectCode(i, d, right)
       \/ ConsumeCode(i, d)
  \/ \E i \in Codes : CreateSession(i)
  \/ \E r \in Clients :
       \/ \E s \in Sessions, t \in Tokens, own \in BOOLEAN : ReadSession(r, s, t, own)
       \/ EndSession(r) \/ RevokeReused(r)
       \/ RotateTokens(r) \/ LoseRotation(r) \/ RevokeRaced(r)
  \/ \E s \in Sessions : RevokeSession(s) \/ ExpireSession(s)

SessionSpec == SessionInit /\ [][SessionNext]_sessionVars

-----------------------------------------------------------------------------

\* A session is only opened with the newest code of its device: asking again
\* withdraws the code before, also when the e-mail with the new one failed.
OnlyNewestCodeOpens ==
  [][\A i \in DOMAIN code :
       code'[i].consumed /\ ~code[i].consumed =>
         \A j \in DOMAIN code : j > i => code[j].device # code[i].device]_sessionVars

\* A refresh token presented twice on its device, at the same time or later,
\* is exchanged at most once and ends the session for both holders.
ReusedTokenEndsSession ==
  \A r, q \in Clients :
    /\ r # q
    /\ {client[r].stage, client[q].stage} \subseteq {"REFUSED", "GRANTED"}
    /\ client[r].session = client[q].session /\ client[r].token = client[q].token
    /\ client[r].ownDevice /\ client[q].ownDevice
    => /\ session[client[r].session].revoked
       /\ "REFUSED" \in {client[r].stage, client[q].stage}
=============================================================================
