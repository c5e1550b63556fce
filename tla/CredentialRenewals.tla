-------------------------- MODULE CredentialRenewals --------------------------
(***************************************************************************)
(* The yearly renewal of a student's credential                            *)
(* (src/src/lib/credentials/annualRenewals.ts, preparedOffer.ts,           *)
(* renewalActivation.ts and the credential events of status.ts).           *)
(*                                                                         *)
(* One enrolment, the credential issued for its first year (offer 0) and   *)
(* the renewal record of the next year.  Workers of the daily job and      *)
(* manual renewals prepare an offer, ask the agent for it, store it, mail  *)
(* it and record the outcome in separate steps, under a lease that may run *)
(* out at any moment.  Events of the agent, the sweeps of the job and the  *)
(* administrators come in between.  The agent and the student are          *)
(* external: the agent makes one offer per key, an offer that expired or   *)
(* was revoked is not accepted, and an event is delivered once.            *)
(***************************************************************************)
EXTENDS SqlNull, Naturals, FiniteSetsExt

CONSTANTS
  Workers,
  MaxOffers,    \* offers for the renewal: the first one and replacements
  MaxTries,     \* attempts before a renewal fails (five)
  MaxTroubles   \* crashes, refusals of the agent, failed mails, slow workers and
                \* replacements

Offers == 0 .. MaxOffers
OfferKeys == {"INITIAL", "AUTOMATIC", "MANUAL", "REPLACEMENT"}

ASSUME RenewalAssumption ==
  /\ MaxOffers \in Nat \ {0}
  /\ MaxTries \in Nat \ {0}
  /\ MaxTroubles \in Nat
  /\ NULL \notin Workers /\ NULL \notin Offers /\ NULL \notin OfferKeys

VARIABLES
  period,     \* the year of the renewal is not yet there, running or over
  enrolment,  \* status of the enrolment
  record,     \* the renewal record
  offer,      \* offer attempts, with their credential at the agent and its row
  old,        \* lifecycle of credential 0, of which revocation is in "offer" too
  revocations,\* credentials with a pending job that revokes them
  worker,
  replacing,  \* the offer that an administrator is replacing, or NULL
  troubles

renewalVars ==
  <<period, enrolment, record, offer, old, revocations, worker, replacing,
    troubles>>

Schedulable == {"SCHEDULED", "DEFERRED", "RETRYING", "PROCESSING"}
RecordStatuses ==
  Schedulable \cup {"AWAITING_ACTIVATION", "ACTIVATED", "FAILED", "NEEDS_ATTENTION",
                    "SKIPPED", "CANCELLED"}

\* active = 0 as long as no offer is prepared; replacement = 0 as long as the
\* active offer has no row.  A lease has an owner, except that of a manual
\* renewal, which leaves the column as it is.
Records ==
  [status : RecordStatuses, active : Offers, replacement : Offers,
   token : Workers \cup {NULL}, leased : BOOLEAN, tries : 0 .. MaxTries + 1]

OfferRecords ==
  [key : OfferKeys \cup {NULL},
   agent : {"NONE", "OFFERED", "ACCEPTED"}, expired : BOOLEAN, revoked : BOOLEAN,
   mailed : BOOLEAN, mailFailed : BOOLEAN,
   linked : BOOLEAN,                        \* issuanceId of the attempt
   status : {"NONE", "OFFER_SENT", "ISSUED", "FAILED", "REVOKED"},
   delivery : {"PENDING", "DELIVERED", "FAILED"},
   event : {"NONE", "SENT", "LOGGED", "WRITTEN", "DONE"}]  \* the event "done"

WorkerRecords ==
  [phase : {"IDLE", "CHECKING", "PREPARING", "ASKING", "STORING", "LINKING",
            "RECONCILING", "MAILING", "RECORDING", "FINISHING"},
   manual : BOOLEAN, offer : Offers,
   failedBefore : BOOLEAN]  \* the row read before the mail was FAILED

RenewalTypeOK ==
  /\ period \in {"BEFORE", "DUE", "OVER"}
  /\ enrolment \in {"ACTIVE", "CANCELLED", "COMPLETED"}
  /\ record \in Records
  /\ offer \in [Offers -> OfferRecords]
  /\ old \in {"ACTIVE", "SUSPENDED"}
  /\ revocations \in SUBSET Offers
  /\ worker \in [Workers -> WorkerRecords]
  /\ replacing \in Offers \cup {NULL}
  /\ troubles \in 0 .. MaxTroubles

NoOffer ==
  [key |-> NULL, agent |-> "NONE", expired |-> FALSE, revoked |-> FALSE,
   mailed |-> FALSE, mailFailed |-> FALSE, linked |-> FALSE, status |-> "NONE",
   delivery |-> "PENDING", event |-> "NONE"]

Resting == [phase |-> "IDLE", manual |-> FALSE, offer |-> 0, failedBefore |-> FALSE]

RenewalInit ==
  /\ period = "BEFORE"
  /\ enrolment = "ACTIVE"
  /\ record = [status |-> "SCHEDULED", active |-> 0, replacement |-> 0,
               token |-> NULL, leased |-> FALSE, tries |-> 0]
  /\ offer = [o \in Offers |->
       IF o = 0
       THEN [NoOffer EXCEPT !.key = "INITIAL", !.agent = "ACCEPTED", !.mailed = TRUE,
               !.linked = TRUE, !.status = "ISSUED", !.delivery = "DELIVERED",
               !.event = "DONE"]
       ELSE NoOffer]
  /\ old = "ACTIVE"
  /\ revocations = {}
  /\ worker = [w \in Workers |-> Resting]
  /\ replacing = NULL
  /\ troubles = 0

-----------------------------------------------------------------------------
(* Helpers. *)

Prepared == record.active # 0
Unused == {o \in Offers : offer[o].key = NULL}
NextOffer == Min(Unused)
Released(rec, status) == [rec EXCEPT !.status = status, !.token = NULL, !.leased = FALSE]
Become(w, rec) == worker' = [worker EXCEPT ![w] = rec]
Proceed(w, phase) == Become(w, [worker[w] EXCEPT !.phase = phase])

\* Trigger protect_revisioned_credential_lifecycle: a revoked row stays revoked.
Written(o, status) == IF offer[o].status = "REVOKED" THEN "REVOKED" ELSE status

HoldsLease(w) == record.token = w /\ record.leased

\* assertLease: a manual renewal has no token and is not checked.
LeaseHeld(w) == worker[w].manual \/ HoldsLease(w)

\* finish: only under the token of the claim.
Finish(w, status) ==
  record' = IF record.token = w THEN Released(record, status) ELSE record

\* The outcome of an attempt that failed; a manual one leaves its record to the
\* daily job.
Failed(w, expired) ==
  /\ IF worker[w].manual THEN record' = record
     ELSE Finish(w, IF expired THEN "NEEDS_ATTENTION"
                    ELSE IF record.tries >= MaxTries THEN "FAILED" ELSE "RETRYING")
  /\ Become(w, Resting)

\* Faulty variant: only a renewal known to wait for its student is activated.
ReconcileAwaiting(o, offers) ==
  LET issued == {p \in Offers : offers[p].linked /\ offers[p].status = "ISSUED"}
  IN IF ~ (offers[o].linked /\ offers[o].status = "ISSUED")
     THEN UNCHANGED <<record, revocations>>
     ELSE /\ record' = IF o = record.replacement /\ record.status = "AWAITING_ACTIVATION"
                       THEN Released(record, "ACTIVATED") ELSE record
          /\ revocations' = revocations \cup
               {p \in issued : p # Max(issued) /\ ~ offers[p].revoked}

\* reconcileRenewalActivation, on the rows as just written: the record of the
\* offer is activated, and of the issued credentials all but the newest are to
\* be revoked.
ReconcileActivation(o, offers) ==
  LET issued == {p \in Offers : offers[p].linked /\ offers[p].status = "ISSUED"}
  IN IF ~ (offers[o].linked /\ offers[o].status = "ISSUED")
     THEN UNCHANGED <<record, revocations>>
     ELSE /\ record' = IF o = record.replacement
                       THEN Released(record, "ACTIVATED") ELSE record
          /\ revocations' = revocations \cup
               {p \in issued : p # Max(issued) /\ ~ offers[p].revoked}

-----------------------------------------------------------------------------
(* A worker claims the record, or an administrator renews by hand. *)

Claimable ==
  /\ period # "OVER"
  /\ enrolment = "ACTIVE" \/ Prepared

Waiting ==
  /\ record.status \in {"SCHEDULED", "DEFERRED", "RETRYING"}
  /\ period = "DUE" \/ Prepared

TakeRecord(w) ==
  /\ worker[w].phase = "IDLE"
  /\ record' = [record EXCEPT !.status = "PROCESSING", !.token = w, !.leased = TRUE,
                              !.tries = Min({@ + 1, MaxTries + 1})]
  /\ Become(w, [Resting EXCEPT !.phase = "CHECKING", !.offer = record.active])
  /\ UNCHANGED <<period, enrolment, offer, old, revocations, replacing, troubles>>

\* Faulty variant: a renewal whose worker stopped is not claimed again.
ClaimWaiting(w) == Claimable /\ Waiting /\ TakeRecord(w)

\* claimAnnualRenewal, one statement.
Claim(w) ==
  /\ Claimable
  /\ Waiting \/ (record.status = "PROCESSING" /\ ~ record.leased)
  /\ TakeRecord(w)

Cancelled(rec) ==
  IF rec.active = 0 THEN Released(rec, "CANCELLED") ELSE rec

\* The start of processAnnualRenewal: the lease, the attempts, and, as long as
\* nothing is prepared, the credential to be renewed.  A revocation cancels the
\* enrolment, a suspension defers the renewal.
Check(w) ==
  /\ worker[w].phase = "CHECKING"
  /\ UNCHANGED <<period, offer, old, revocations, replacing, troubles>>
  /\ \/ /\ record.status = "CANCELLED" \/ ~ HoldsLease(w)
        /\ Become(w, Resting)
        /\ UNCHANGED <<record, enrolment>>
     \/ /\ record.status # "CANCELLED" /\ HoldsLease(w)
        /\ record.tries > MaxTries
        /\ Finish(w, "FAILED")
        /\ Become(w, Resting)
        /\ UNCHANGED enrolment
     \/ /\ record.status # "CANCELLED" /\ HoldsLease(w)
        /\ record.tries <= MaxTries
        /\ IF worker[w].offer # 0
           THEN /\ Proceed(w, IF offer[worker[w].offer].linked THEN "RECONCILING" ELSE "ASKING")
                /\ UNCHANGED <<record, enrolment>>
           ELSE IF offer[0].revoked
           THEN /\ enrolment' = IF enrolment = "ACTIVE" THEN "CANCELLED" ELSE enrolment
                /\ record' = IF enrolment = "ACTIVE" THEN Cancelled(record) ELSE record
                /\ Become(w, Resting)
           ELSE IF old = "SUSPENDED"
           THEN /\ record' = [Released(record, "DEFERRED") EXCEPT !.tries = @ - 1]
                /\ Become(w, Resting)
                /\ UNCHANGED enrolment
           ELSE Proceed(w, "PREPARING") /\ UNCHANGED <<record, enrolment>>

\* queueRealStudentRenewal: only for an expired credential, and not if the year
\* has its offer already.
RenewManually(w) ==
  /\ worker[w].phase = "IDLE"
  /\ period = "DUE"
  /\ old = "ACTIVE" /\ offer[0].status = "ISSUED" /\ ~ offer[0].revoked
  /\ \A o \in Offers \ {0} : offer[o].status = "NONE"
  /\ enrolment = "ACTIVE"
  /\ ~ Prepared
  /\ Become(w, [Resting EXCEPT !.phase = "PREPARING", !.manual = TRUE])
  /\ UNCHANGED <<period, enrolment, record, offer, old, revocations, replacing, troubles>>

KeyOf(w) == IF worker[w].manual THEN "MANUAL" ELSE "AUTOMATIC"

\* Faulty variant: the enrolment is not read again with the preparation.
PrepareAnyway(w) ==
  LET o == NextOffer
  IN /\ worker[w].phase = "PREPARING"
     /\ offer' = [offer EXCEPT ![o].key = KeyOf(w)]
     /\ record' = [record EXCEPT !.active = o]
     /\ Become(w, [worker[w] EXCEPT !.phase = "ASKING", !.offer = o])
     /\ UNCHANGED <<period, enrolment, old, revocations, replacing, troubles>>

\* prepareOffer, one transaction under an advisory lock: a key that is known
\* returns its offer; otherwise the enrolment must still be active, the year
\* without an offer and not over.
Prepare(w) ==
  LET known == {o \in Offers : offer[o].key = KeyOf(w)}
      o == IF known # {} THEN Min(known) ELSE NextOffer
      refused == enrolment # "ACTIVE" \/ Prepared \/ period = "OVER"
  IN /\ worker[w].phase = "PREPARING"
     /\ UNCHANGED <<period, enrolment, old, revocations, replacing, troubles>>
     /\ IF known = {} /\ refused
        THEN /\ UNCHANGED offer
             /\ IF enrolment = "ACTIVE" /\ ~ Prepared
                THEN Failed(w, FALSE)
                ELSE Become(w, Resting) /\ UNCHANGED record
        ELSE /\ offer' = [offer EXCEPT ![o].key = KeyOf(w)]
             /\ record' = IF known # {} THEN record
                          ELSE IF worker[w].manual
                          THEN [record EXCEPT !.active = o, !.status = "PROCESSING",
                                              !.leased = TRUE]
                          ELSE [record EXCEPT !.active = o]
             /\ Become(w, [worker[w] EXCEPT
                  !.phase = IF offer[o].linked THEN "RECONCILING" ELSE "ASKING",
                  !.offer = o])

-----------------------------------------------------------------------------
(* deliverPreparedOffer *)

Mailed(o) == offer[o].delivery = "DELIVERED" \/ offer[o].status = "ISSUED"

LoseLease(w) ==
  /\ \/ worker[w].phase \in {"ASKING", "STORING"}
     \/ worker[w].phase = "MAILING" /\ ~ Mailed(worker[w].offer)
  /\ ~ LeaseHeld(w)
  /\ Become(w, Resting)
  /\ UNCHANGED <<period, enrolment, record, offer, old, revocations, replacing, troubles>>

\* The agent makes one offer per key.
AskAgent(w) ==
  LET o == worker[w].offer
  IN /\ worker[w].phase = "ASKING"
     /\ LeaseHeld(w)
     /\ offer' = [offer EXCEPT ![o].agent = IF @ = "NONE" THEN "OFFERED" ELSE @]
     /\ Proceed(w, "STORING")
     /\ UNCHANGED <<period, enrolment, record, old, revocations, replacing,
                    troubles>>

AgentFails(w) ==
  /\ worker[w].phase = "ASKING"
  /\ LeaseHeld(w)
  /\ troubles < MaxTroubles
  /\ troubles' = troubles + 1
  /\ Failed(w, FALSE)
  /\ UNCHANGED <<period, enrolment, offer, old, revocations, replacing>>

\* createCredentialIssuanceFromOffer: the row of the credential, or the new
\* delivery of the one that exists.  The lease was there after the agent's answer
\* and may have run out since.
StoreOffer(w) ==
  LET o == worker[w].offer
  IN /\ worker[w].phase = "STORING"
     /\ offer' = [offer EXCEPT ![o].delivery = "PENDING",
                    ![o].status = IF @ = "NONE" THEN "OFFER_SENT" ELSE @]
     /\ Proceed(w, "LINKING")
     /\ UNCHANGED <<period, enrolment, record, old, revocations, replacing,
                    troubles>>

LinkOffer(w) ==
  LET o == worker[w].offer
  IN /\ worker[w].phase = "LINKING"
     /\ offer' = [offer EXCEPT ![o].linked = TRUE]
     /\ record' = [record EXCEPT !.replacement = o]
     /\ Proceed(w, "RECONCILING")
     /\ UNCHANGED <<period, enrolment, old, revocations, replacing, troubles>>

\* reconcileCredentialEventLogs replays the events stored so far.
Reconcile(w) ==
  LET o == worker[w].offer
      logged == offer[o].event \in {"LOGGED", "WRITTEN", "DONE"}
      offers == [offer EXCEPT ![o].status = IF logged THEN Written(o, "ISSUED") ELSE @]
  IN /\ worker[w].phase = "RECONCILING"
     /\ offer' = offers
     /\ ReconcileActivation(o, offers)
     /\ Proceed(w, "MAILING")
     /\ UNCHANGED <<period, enrolment, old, replacing, troubles>>

MustMail(w) ==
  /\ worker[w].phase = "MAILING"
  /\ ~ Mailed(worker[w].offer)
  /\ LeaseHeld(w)

MailExpired(w) ==
  /\ MustMail(w)
  /\ offer[worker[w].offer].expired
  /\ Failed(w, TRUE)
  /\ UNCHANGED <<period, enrolment, offer, old, revocations, replacing,
                 troubles>>

SendMail(w) ==
  LET o == worker[w].offer
  IN /\ MustMail(w)
     /\ ~ offer[o].expired
     /\ offer' = [offer EXCEPT ![o].mailed = TRUE]
     /\ Become(w, [worker[w] EXCEPT !.phase = "RECORDING",
          !.failedBefore = offer[o].status = "FAILED" /\ offer[o].delivery = "FAILED"])
     /\ UNCHANGED <<period, enrolment, record, old, revocations, replacing,
                    troubles>>

\* The mail fails, or seems to; the row says so.
MailFails(w) ==
  LET o == worker[w].offer
  IN /\ MustMail(w)
     /\ ~ offer[o].expired
     /\ troubles < MaxTroubles
     /\ troubles' = troubles + 1
     /\ \E arrived \in BOOLEAN :
          offer' = [offer EXCEPT ![o].mailed = @ \/ arrived, ![o].mailFailed = TRUE,
                      ![o].delivery = "FAILED",
                      ![o].status = IF @ = "OFFER_SENT" THEN "FAILED" ELSE @]
     /\ Failed(w, FALSE)
     /\ UNCHANGED <<period, enrolment, old, revocations, replacing>>

\* The delivery is recorded; the status goes back to OFFER_SENT if it was FAILED
\* before the mail, whatever it is by now.
RecordMail(w) ==
  LET o == worker[w].offer
  IN /\ worker[w].phase = "RECORDING"
     /\ offer' = [offer EXCEPT ![o].delivery = "DELIVERED",
          ![o].status = IF worker[w].failedBefore THEN Written(o, "OFFER_SENT") ELSE @]
     /\ Become(w, [worker[w] EXCEPT !.phase = "FINISHING", !.failedBefore = FALSE])
     /\ UNCHANGED <<period, enrolment, record, old, revocations, replacing,
                    troubles>>

\* The row is read again and its outcome recorded: by a worker under its token,
\* unless the credential is issued, by a manual renewal in any case.
FinishRenewal(w) ==
  LET o == worker[w].offer
      issued == offer[o].status = "ISSUED"
      status == IF issued THEN "ACTIVATED" ELSE "AWAITING_ACTIVATION"
      mine == record.replacement = o /\ (worker[w].manual \/ issued \/ record.token = w)
  IN /\ \/ worker[w].phase = "FINISHING"
        \/ worker[w].phase = "MAILING" /\ Mailed(o)
     /\ record' = IF mine \/ (~ worker[w].manual /\ record.token = w)
                  THEN Released(record, status) ELSE record
     /\ Become(w, Resting)
     /\ UNCHANGED <<period, enrolment, offer, old, revocations, replacing,
                    troubles>>

-----------------------------------------------------------------------------
(* The sweeps of runAnnualRenewals and the job that revokes. *)

SkipElapsed ==
  /\ period = "OVER"
  /\ record.status \in Schedulable
  /\ record' = Released(record, "SKIPPED")
  /\ UNCHANGED <<period, enrolment, offer, old, revocations, worker, replacing, troubles>>

ObserveActivation ==
  LET o == record.replacement
  IN /\ record.status = "AWAITING_ACTIVATION"
     /\ o # 0
     /\ offer[o].status \in {"ISSUED", "FAILED"} \/ offer[o].expired
     /\ record' = [record EXCEPT !.status =
          IF offer[o].status = "ISSUED" THEN "ACTIVATED" ELSE "NEEDS_ATTENTION"]
     /\ UNCHANGED <<period, enrolment, offer, old, revocations, worker, replacing, troubles>>

\* The list of enrolments and their update are taken as one step.  Once an offer
\* is prepared nothing depends on the enrolment, which stays as it is here.
CompleteEnrolment ==
  /\ ~ Prepared
  /\ enrolment = "ACTIVE"
  /\ record.status \notin Schedulable
  /\ enrolment' = "COMPLETED"
  /\ UNCHANGED <<period, record, offer, old, revocations, worker, replacing, troubles>>

\* Faulty variant: the job is done when the portal's row says so.
RunRevocationInPortal(o) ==
  /\ o \in revocations
  /\ revocations' = revocations \ {o}
  /\ offer' = [offer EXCEPT ![o].status = "REVOKED"]
  /\ UNCHANGED <<period, enrolment, record, old, worker, replacing, troubles>>

\* REVOKE_REPLACED of automation.ts: the agent revokes, the portal mirrors it.
RunRevocation(o) ==
  /\ o \in revocations
  /\ revocations' = revocations \ {o}
  /\ offer' = [offer EXCEPT ![o].revoked = TRUE,
                 ![o].status = IF offer[o].revoked THEN @ ELSE "REVOKED"]
  /\ UNCHANGED <<period, enrolment, record, old, worker, replacing, troubles>>

-----------------------------------------------------------------------------
(* Events of the agent. *)

LogEvent(o) ==
  /\ offer[o].event = "SENT"
  /\ offer' = [offer EXCEPT ![o].event = "LOGGED"]
  /\ UNCHANGED <<period, enrolment, record, old, revocations, worker, replacing, troubles>>

\* The row is written, and the credential that the offer supersedes is to be
\* revoked.  Every offer of the renewal supersedes credential 0.
ApplyEvent(o) ==
  /\ offer[o].event = "LOGGED"
  /\ offer' = [offer EXCEPT ![o].event = "WRITTEN", ![o].status = Written(o, "ISSUED")]
  /\ revocations' = IF offer[0].revoked THEN revocations ELSE revocations \cup {0}
  /\ UNCHANGED <<period, enrolment, record, old, worker, replacing, troubles>>

ReconcileEvent(o) ==
  LET offers == [offer EXCEPT ![o].event = "DONE"]
  IN /\ offer[o].event = "WRITTEN"
     /\ offer' = offers
     /\ ReconcileActivation(o, offers)
     /\ UNCHANGED <<period, enrolment, old, worker, replacing, troubles>>

-----------------------------------------------------------------------------
(* Administrators. *)

\* cancelRenewalEnrolment
CancelEnrolment ==
  /\ ~ Prepared
  /\ enrolment = "ACTIVE"
  /\ enrolment' = "CANCELLED"
  /\ record' = Cancelled(record)
  /\ UNCHANGED <<period, offer, old, revocations, worker, replacing, troubles>>

RetryRenewal ==
  /\ Prepared /\ period # "OVER"
  /\ record.status = "FAILED"
  /\ record' = [record EXCEPT !.status = "RETRYING", !.tries = 0]
  /\ UNCHANGED <<period, enrolment, offer, old, revocations, worker, replacing, troubles>>

\* retryAnnualRenewal with a replacement: an offer that the student may still
\* accept is not replaced, one that expired is revoked first ...
StartReplacement ==
  LET o == record.active
  IN /\ replacing = NULL
     /\ Prepared /\ period # "OVER"
     /\ record.status \in {"FAILED", "NEEDS_ATTENTION"}
     /\ Unused # {}
     /\ offer[o].linked => offer[o].status # "ISSUED" /\ offer[o].expired
     /\ offer' = IF offer[o].linked
                 THEN [offer EXCEPT ![o].revoked = TRUE, ![o].status = "REVOKED"]
                 ELSE offer
     /\ replacing' = o
     /\ troubles < MaxTroubles
     /\ troubles' = troubles + 1
     /\ UNCHANGED <<period, enrolment, record, old, revocations, worker>>

\* ... and the replacement prepared.
PrepareReplacement ==
  /\ replacing # NULL
  /\ replacing' = NULL
  /\ IF record.status \in {"FAILED", "NEEDS_ATTENTION"} /\ period # "OVER"
     THEN /\ offer' = [offer EXCEPT ![NextOffer].key = "REPLACEMENT"]
          /\ record' = [Released(record, "RETRYING") EXCEPT
               !.active = NextOffer, !.replacement = 0, !.tries = 0]
     ELSE UNCHANGED <<offer, record>>
  /\ UNCHANGED <<period, enrolment, old, revocations, worker, troubles>>

\* The lifecycle of the old credential is read only before a preparation.
SuspendOrReactivate ==
  /\ ~ Prepared /\ ~ offer[0].revoked
  /\ old' = IF old = "ACTIVE" THEN "SUSPENDED" ELSE "ACTIVE"
  /\ UNCHANGED <<period, enrolment, record, offer, revocations, worker, replacing, troubles>>

RevokeOld ==
  /\ ~ Prepared /\ ~ offer[0].revoked
  /\ offer' = [offer EXCEPT ![0].revoked = TRUE, ![0].status = "REVOKED"]
  /\ UNCHANGED <<period, enrolment, record, old, revocations, worker, replacing, troubles>>

-----------------------------------------------------------------------------
(* The student, time and troubles. *)

Accept(o) ==
  /\ offer[o].mailed
  /\ offer[o].agent = "OFFERED"
  /\ ~ offer[o].expired /\ ~ offer[o].revoked
  /\ offer' = [offer EXCEPT ![o].agent = "ACCEPTED", ![o].event = "SENT"]
  /\ UNCHANGED <<period, enrolment, record, old, revocations, worker, replacing, troubles>>

\* Read only as long as the credential is not issued.
ExpireOffer(o) ==
  /\ offer[o].status \in {"OFFER_SENT", "FAILED"}
  /\ ~ offer[o].expired
  /\ offer' = [offer EXCEPT ![o].expired = TRUE]
  /\ UNCHANGED <<period, enrolment, record, old, revocations, worker, replacing, troubles>>

YearPasses ==
  /\ period # "OVER"
  /\ period' = IF period = "BEFORE" THEN "DUE" ELSE "OVER"
  /\ UNCHANGED <<enrolment, record, offer, old, revocations, worker, replacing, troubles>>

\* The lease of a renewal that nobody works on runs out.
ExpireLease ==
  /\ record.leased
  /\ \A w \in Workers : worker[w].phase = "IDLE"
  /\ record' = [record EXCEPT !.leased = FALSE]
  /\ UNCHANGED <<period, enrolment, offer, old, revocations, worker, replacing, troubles>>

\* A worker is so slow that its lease runs out while it works.
Overrun ==
  /\ troubles < MaxTroubles
  /\ troubles' = troubles + 1
  /\ record.leased
  /\ record' = [record EXCEPT !.leased = FALSE]
  /\ UNCHANGED <<period, enrolment, offer, old, revocations, worker, replacing>>

WorkerStops(w) ==
  /\ worker[w].phase # "IDLE"
  /\ troubles < MaxTroubles
  /\ troubles' = troubles + 1
  /\ Become(w, Resting)
  /\ UNCHANGED <<period, enrolment, record, offer, old, revocations, replacing>>

-----------------------------------------------------------------------------

WorkerStep(w) ==
  \/ Check(w) \/ Prepare(w) \/ LoseLease(w) \/ AskAgent(w) \/ StoreOffer(w)
  \/ LinkOffer(w) \/ Reconcile(w) \/ MailExpired(w) \/ SendMail(w)
  \/ RecordMail(w) \/ FinishRenewal(w)

EventStep(o) == LogEvent(o) \/ ApplyEvent(o) \/ ReconcileEvent(o)

RenewalNext ==
  \/ \E w \in Workers :
       \/ Claim(w) \/ RenewManually(w) \/ WorkerStep(w)
       \/ AgentFails(w) \/ MailFails(w) \/ WorkerStops(w)
  \/ \E o \in Offers : EventStep(o) \/ RunRevocation(o) \/ Accept(o) \/ ExpireOffer(o)
  \/ SkipElapsed \/ ObserveActivation \/ CompleteEnrolment
  \/ CancelEnrolment \/ RetryRenewal \/ StartReplacement \/ PrepareReplacement
  \/ SuspendOrReactivate \/ RevokeOld
  \/ YearPasses \/ ExpireLease \/ Overrun

System ==
  \/ \E w \in Workers : Claim(w) \/ WorkerStep(w)
  \/ \E o \in Offers : EventStep(o) \/ RunRevocation(o)
  \/ ExpireLease \/ SkipElapsed \/ ObserveActivation

\* Something of the system goes on as long as anything can: the daily job runs,
\* workers and event handlers continue unless they crash, and a lease nobody
\* uses runs out.  The student, the administrators and the calendar owe nothing.
RenewalSpec == RenewalInit /\ [][RenewalNext]_renewalVars /\ WF_renewalVars(System)

-----------------------------------------------------------------------------
(* Properties. *)

\* Cancellation stops a renewal for which nothing is prepared, also when a worker
\* has claimed it: it is not scheduled again, and no offer is prepared for it.
CancelledStaysUnprepared ==
  [][ enrolment = "CANCELLED" /\ ~ Prepared =>
        record'.active = 0 /\ record'.status \notin Schedulable ]_renewalVars

\* A due renewal is not forgotten: workers that stop, lose their lease or fail
\* leave it to be claimed again, until it ends or waits for the end of a
\* suspension.
Due == period = "DUE" /\ record.status \in Schedulable

DueRenewalEnds == Due ~> (record.status \notin Schedulable \/ old = "SUSPENDED")

\* A renewal that the student accepted ends as activated, whatever worker, event
\* or sweep recorded it last, unless it is revoked or its mail failed before.
AcceptedUnrecorded ==
  LET o == record.replacement
  IN /\ o # 0
     /\ offer[o].agent = "ACCEPTED" /\ ~ offer[o].revoked /\ ~ offer[o].mailFailed
     /\ record.status # "ACTIVATED"

AcceptedIsActivated == AcceptedUnrecorded ~> ~ AcceptedUnrecorded

\* Of two credentials that the student accepted, one is revoked in the end.
TwoCredentials ==
  \E o, p \in Offers :
    /\ o # p
    /\ \A q \in {o, p} : offer[q].agent = "ACCEPTED" /\ ~ offer[q].revoked

ReplacedIsRevoked == TwoCredentials ~> ~ TwoCredentials
=============================================================================
