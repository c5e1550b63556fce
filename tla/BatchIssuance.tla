---------------------------- MODULE BatchIssuance ----------------------------
(***************************************************************************)
(* A batch of credential offers (src/src/lib/issuance/batchRuns.ts): it is *)
(* saved, processed in the background with several items at a time, and    *)
(* retried when items failed.  An item is prepared under a key of its own, *)
(* offered through the agent and sent to the student by e-mail             *)
(* (src/src/lib/credentials/preparedOffer.ts); each of these can fail, and *)
(* the next processing resumes where the saved offer stands.               *)
(*                                                                         *)
(* One batch; what else gives a student a credential (a single issuance,   *)
(* another batch) is one step.  Whether an offer was accepted is left out. *)
(***************************************************************************)
EXTENDS Naturals

CONSTANTS
  Students,
  MaxRetries,   \* retries of the batch
  MaxFaults,    \* failures that give a pass up
  MaxStops      \* crashes of the process

ASSUME BatchAssumption == MaxRetries \in Nat /\ MaxFaults \in Nat /\ MaxStops \in Nat

\* Every processing of the batch is a pass, with workers of its own: one that
\* was given up may still have workers on its way.
Passes == 0 .. MaxRetries

RunFinal == {"COMPLETED", "PARTIALLY_FAILED", "FAILED"}
ItemFailed == {"FAILED", "DELIVERY_FAILED"}
Retryable == {"PENDING"} \cup ItemFailed

VARIABLES
  run,      \* status of batch_issuance_run
  stage,    \* what the request or the background task is doing
  pass,     \* its number
  item,     \* [Students -> status of batch_issuance_item]
  attempt,  \* [Students -> credential_offer_attempt of the item]
  offer,    \* [Students -> delivery of the credential_issuance of the item]
  active,   \* students with an active credential of another origin
  worker,   \* [Passes -> [Students -> what is done for the item]]
  faults,
  stops

batchVars == <<run, stage, pass, item, attempt, offer, active, worker, faults, stops>>

BatchTypeOK ==
  /\ run \in {"NONE", "QUEUED", "PROCESSING"} \cup RunFinal
  /\ stage \in {"IDLE", "RESETTING", "DUE", "WORKING", "ABORTED", "CLOSING"}
  /\ pass \in Passes
  /\ item \in [Students -> {"NONE", "SKIPPED", "DELIVERED"} \cup Retryable]
  /\ attempt \in [Students -> {"NONE", "PREPARED", "LINKED"}]
  /\ offer \in [Students -> {"NONE", "AT_AGENT", "SAVED", "FAILED", "DELIVERED"}]
  /\ active \in SUBSET Students
  /\ worker \in [Passes -> [Students ->
       {"IDLE", "TODO", "PREPARE", "DELIVER", "RESUME", "SAVE", "LINK", "MAIL", "RECORD", "CAUGHT"}]]
  /\ faults \in 0 .. MaxFaults
  /\ stops \in 0 .. MaxStops

BatchInit ==
  /\ run = "NONE" /\ stage = "IDLE" /\ pass = 0
  /\ item = [s \in Students |-> "NONE"]
  /\ attempt = [s \in Students |-> "NONE"]
  /\ offer = [s \in Students |-> "NONE"]
  /\ active \in SUBSET Students
  /\ worker = [p \in Passes |-> [s \in Students |-> "IDLE"]]
  /\ faults = 0 /\ stops = 0

-----------------------------------------------------------------------------
(* The batch. *)

CreateBatch ==
  /\ run = "NONE"
  /\ run' = "QUEUED" /\ stage' = "DUE"
  /\ item' = [s \in Students |-> IF s \in active THEN "SKIPPED" ELSE "PENDING"]
  /\ UNCHANGED <<pass, attempt, offer, active, worker, faults, stops>>

\* A single issuance, or the offer of another batch.
OfferElsewhere(s) ==
  /\ s \notin active
  /\ active' = active \cup {s}
  /\ UNCHANGED <<run, stage, pass, item, attempt, offer, worker, faults, stops>>

Unfinished == {s \in Students : item[s] \in Retryable}

StartPass ==
  /\ stage = "DUE"
  /\ IF Unfinished = {}
     THEN run' = "COMPLETED" /\ stage' = "IDLE"
     ELSE run' = "PROCESSING" /\ stage' = "WORKING"
  /\ worker' = [worker EXCEPT ![pass] =
       [s \in Students |-> IF s \in Unfinished THEN "TODO" ELSE "IDLE"]]
  /\ UNCHANGED <<pass, item, attempt, offer, active, faults, stops>>

Some(statuses) == \E s \in Students : item[s] \in statuses

Outcome ==
  IF ~Some(ItemFailed) THEN "COMPLETED"
  ELSE IF Some({"DELIVERED"}) THEN "PARTIALLY_FAILED" ELSE "FAILED"

FinishPass ==
  /\ stage = "WORKING"
  /\ \A s \in Students : worker[pass][s] = "IDLE"
  /\ run' = Outcome /\ stage' = "IDLE"
  /\ UNCHANGED <<pass, item, attempt, offer, active, worker, faults, stops>>

\* The claim of a retry, and the items it resets.
RetryBatch ==
  /\ run \in {"FAILED", "PARTIALLY_FAILED"} /\ stage = "IDLE"
  /\ pass < MaxRetries
  /\ run' = "QUEUED" /\ stage' = "RESETTING"
  /\ UNCHANGED <<pass, item, attempt, offer, active, worker, faults, stops>>

ResetItems ==
  /\ stage = "RESETTING"
  /\ item' = [s \in Students |-> IF item[s] \in ItemFailed THEN "PENDING" ELSE item[s]]
  /\ stage' = "DUE" /\ pass' = pass + 1
  /\ UNCHANGED <<run, attempt, offer, active, worker, faults, stops>>

-----------------------------------------------------------------------------
(* One item: its worker goes from one statement to the next. *)

Turn(p, s, from, to) ==
  /\ worker[p][s] = from
  /\ worker' = [worker EXCEPT ![p][s] = to]
  /\ UNCHANGED <<run, pass, active, stops>>

\* Whether the attempt that was read has its offer.
Resumed(s) == IF attempt[s] = "LINKED" THEN "RESUME" ELSE "DELIVER"

HasCredential(s) == s \in active \/ offer[s] \in {"SAVED", "DELIVERED"}

\* Faulty variant of CheckItem: the item's own offer counts as well.
CheckCredential(p, s) ==
  LET skip == HasCredential(s)
  IN  /\ Turn(p, s, "TODO", IF skip THEN "IDLE"
                            ELSE IF attempt[s] = "NONE" THEN "PREPARE" ELSE Resumed(s))
      /\ item' = IF skip THEN [item EXCEPT ![s] = "SKIPPED"] ELSE item
      /\ UNCHANGED <<stage, attempt, offer, faults>>

\* A saved attempt is resumed; otherwise an active credential is enough.
CheckItem(p, s) ==
  LET skip == attempt[s] = "NONE" /\ HasCredential(s)
  IN  /\ Turn(p, s, "TODO", IF skip THEN "IDLE"
                            ELSE IF attempt[s] = "NONE" THEN "PREPARE" ELSE Resumed(s))
      /\ item' = IF skip THEN [item EXCEPT ![s] = "SKIPPED"] ELSE item
      /\ UNCHANGED <<stage, attempt, offer, faults>>

PrepareItem(p, s) ==
  /\ Turn(p, s, "PREPARE", Resumed(s))
  /\ attempt' = [attempt EXCEPT ![s] = IF @ = "NONE" THEN "PREPARED" ELSE @]
  /\ UNCHANGED <<stage, item, offer, faults>>

\* Nothing is asked of the agent when the offer was linked already.
ResumeOffer(p, s) ==
  /\ Turn(p, s, "RESUME", IF offer[s] = "DELIVERED" THEN "RECORD" ELSE "MAIL")
  /\ UNCHANGED <<stage, item, attempt, offer, faults>>

\* The agent answers a repeated key with the same offer.
RequestOffer(p, s) ==
  /\ Turn(p, s, "DELIVER", "SAVE")
  /\ offer' = [offer EXCEPT ![s] = IF @ = "NONE" THEN "AT_AGENT" ELSE @]
  /\ UNCHANGED <<stage, item, attempt, faults>>

\* The upsert of the issuance, whose delivery starts over.
SaveOffer(p, s) ==
  /\ Turn(p, s, "SAVE", "LINK")
  /\ offer' = [offer EXCEPT ![s] = "SAVED"]
  /\ UNCHANGED <<stage, item, attempt, faults>>

LinkOffer(p, s) ==
  /\ Turn(p, s, "LINK", "MAIL")
  /\ attempt' = [attempt EXCEPT ![s] = "LINKED"]
  /\ UNCHANGED <<stage, item, offer, faults>>

SendOffer(p, s) ==
  /\ Turn(p, s, "MAIL", "RECORD")
  /\ offer' = [offer EXCEPT ![s] = "DELIVERED"]
  /\ UNCHANGED <<stage, item, attempt, faults>>

\* The e-mail is refused; the offer is kept for the next attempt.
FailSending(p, s) ==
  /\ Turn(p, s, "MAIL", "CAUGHT")
  /\ offer' = [offer EXCEPT ![s] = "FAILED"]
  /\ UNCHANGED <<stage, item, attempt, faults>>

RecordDelivery(p, s) ==
  /\ Turn(p, s, "RECORD", "IDLE")
  /\ item' = [item EXCEPT ![s] = "DELIVERED"]
  /\ UNCHANGED <<stage, attempt, offer, faults>>

\* The student is not found, the preparation or the agent refuses, the offer has
\* expired, or a statement fails; the agent's answer may be lost.
FailItem(p, s) ==
  /\ \E from \in {"TODO", "PREPARE", "DELIVER", "RESUME", "SAVE", "LINK", "MAIL", "RECORD"} :
       Turn(p, s, from, "CAUGHT")
  /\ \/ UNCHANGED offer
     \/ /\ worker[p][s] = "DELIVER" /\ offer[s] = "NONE"
        /\ offer' = [offer EXCEPT ![s] = "AT_AGENT"]
  /\ UNCHANGED <<stage, item, attempt, faults>>

RecordFailure(p, s) ==
  /\ Turn(p, s, "CAUGHT", "IDLE")
  /\ item' = [item EXCEPT ![s] = IF attempt[s] = "LINKED" THEN "DELIVERY_FAILED" ELSE "FAILED"]
  /\ UNCHANGED <<stage, attempt, offer, faults>>

-----------------------------------------------------------------------------
(* When recording a failure fails too, or a statement outside the items, the
   pass is given up; its other workers go on.  A pass that was given up leaves a
   batch that can be retried. *)

LoseRecord(p, s) ==
  /\ faults < MaxFaults
  /\ faults' = faults + 1
  /\ Turn(p, s, "CAUGHT", "IDLE")
  /\ stage' = IF p = pass /\ stage = "WORKING" THEN "ABORTED" ELSE stage
  /\ UNCHANGED <<item, attempt, offer>>

\* A statement before the first item or after the last one fails.
AbortPass ==
  /\ faults < MaxFaults
  /\ \/ stage = "DUE"
     \/ stage = "WORKING" /\ \A s \in Students : worker[pass][s] = "IDLE"
  /\ faults' = faults + 1
  /\ run' \in {run, "PROCESSING"}
  /\ stage' = "ABORTED"
  /\ UNCHANGED <<pass, item, attempt, offer, active, worker, stops>>

FailItems ==
  /\ stage = "ABORTED"
  /\ item' = [s \in Students |-> IF item[s] \in Retryable THEN "FAILED" ELSE item[s]]
  /\ stage' = "CLOSING"
  /\ UNCHANGED <<run, pass, attempt, offer, active, worker, faults, stops>>

\* Faulty variant of CloseRun: the items are reset, the run stays.
LeaveRun ==
  /\ stage = "CLOSING"
  /\ stage' = "IDLE"
  /\ UNCHANGED <<run, pass, item, attempt, offer, active, worker, faults, stops>>

CloseRun ==
  /\ stage = "CLOSING"
  /\ run' = IF Some({"DELIVERED"}) THEN "PARTIALLY_FAILED" ELSE "FAILED"
  /\ stage' = "IDLE"
  /\ UNCHANGED <<pass, item, attempt, offer, active, worker, faults, stops>>

StopProcess ==
  /\ stops < MaxStops /\ run # "NONE"
  /\ stops' = stops + 1
  /\ stage' = "IDLE"
  /\ worker' = [p \in Passes |-> [s \in Students |-> "IDLE"]]
  /\ UNCHANGED <<run, pass, item, attempt, offer, active, faults>>

ItemStep(p, s) ==
  \/ CheckItem(p, s) \/ PrepareItem(p, s) \/ ResumeOffer(p, s) \/ RequestOffer(p, s)
  \/ SaveOffer(p, s) \/ LinkOffer(p, s) \/ SendOffer(p, s) \/ FailSending(p, s)
  \/ RecordDelivery(p, s) \/ FailItem(p, s) \/ RecordFailure(p, s) \/ LoseRecord(p, s)

BackgroundStep == StartPass \/ FinishPass \/ ResetItems \/ FailItems \/ CloseRun

BatchNext ==
  \/ CreateBatch \/ RetryBatch \/ BackgroundStep \/ AbortPass \/ StopProcess
  \/ \E s \in Students : OfferElsewhere(s)
  \/ \E p \in Passes, s \in Students : ItemStep(p, s)

\* The platform runs what a request has scheduled, and some item goes on.
BatchFairness ==
  /\ WF_batchVars(BackgroundStep)
  /\ WF_batchVars(\E p \in Passes, s \in Students : ItemStep(p, s))

BatchSpec == BatchInit /\ [][BatchNext]_batchVars /\ BatchFairness

-----------------------------------------------------------------------------

\* While the database records outcomes, a finished batch says what became of its
\* items, and each item what became of its offer: delivered means sent to the
\* student, skipped that the batch made no offer, failed that none was saved,
\* whatever was lost, retried or resumed in between.
OutcomesAreTrue ==
  faults = 0 =>
    /\ run \in RunFinal =>
         /\ ~Some({"PENDING"})
         /\ run = "COMPLETED" <=> ~Some(ItemFailed)
         /\ run # "FAILED" \/ ~Some({"DELIVERED"})
    /\ \A s \in Students :
         /\ item[s] = "DELIVERED" => offer[s] = "DELIVERED"
         /\ item[s] = "DELIVERY_FAILED" => attempt[s] = "LINKED"
         /\ item[s] = "FAILED" => attempt[s] # "LINKED"
         /\ item[s] = "SKIPPED" => attempt[s] = "NONE"

\* Unless the process stops, a batch that was queued ends, also when recording
\* an outcome fails, and can then be retried.
BatchEnds == run \in {"QUEUED", "PROCESSING"} ~> (run \in RunFinal \/ stops > 0)
=============================================================================
