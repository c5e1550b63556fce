--------------------------- MODULE PaymentWebhooks ---------------------------
(***************************************************************************)
(* The outbox of payment notifications (src/src/lib/vendors/               *)
(* paymentWebhooks.ts and the triggers of its migrations): an event is     *)
(* saved with the outcome of a payment request or a refund, dispatchers    *)
(* claim its delivery under a lease, send it outside of any transaction    *)
(* and report; the vendor replaces or disables the configuration and asks  *)
(* for retries at any time.                                                *)
(*                                                                         *)
(* One vendor.  The receiver is external.  A dispatcher sends its claims   *)
(* in parallel, so that each claim is a worker of its own.                 *)
(***************************************************************************)
EXTENDS SqlNull, Naturals

CONSTANTS
  Events,        \* events of payment requests and refunds
  MaxConfigs,    \* how often the configuration is replaced
  MaxAutomatic,  \* automatic attempts of a delivery (6 in the code)
  MaxRetries,    \* manual retries
  Workers,       \* deliveries that are under way at once
  MaxCrashes     \* how often a dispatcher stops

ASSUME WebhookAssumption ==
  /\ MaxConfigs \in Nat /\ MaxRetries \in Nat /\ MaxCrashes \in Nat
  /\ MaxAutomatic \in Nat \ {0}

\* Configurations are numbered in the order of their creation.
Configs == 1 .. MaxConfigs

\* A claim increments the sequence of its delivery and draws a new lease token:
\* the sequence stands for the token, 0 for none.
MaxSequence == MaxAutomatic * (MaxRetries + 1)
Tokens == 0 .. MaxSequence

DeliveryStatuses == {"READY", "IN_FLIGHT", "DELIVERED", "EXHAUSTED", "PARKED"}

DeliveryRecords ==
  [config : Configs, status : DeliveryStatuses, attempts : 0 .. MaxAutomatic,
   sequence : Tokens, token : Tokens, expired : BOOLEAN]

Claims ==
  [event : Events, config : Configs, token : Tokens, attempts : 0 .. MaxAutomatic,
   phase : {"CLAIMED", "SENDING", "REPORTING"}, success : BOOLEAN]

ASSUME WebhookNullAssumption == NULL \notin DeliveryRecords \cup Claims

VARIABLES
  configs,   \* [Configs -> "NONE", "ENABLED" or "DISABLED"]
  emitted,   \* events that were saved
  delivery,  \* [Events -> record or NULL]
  log,       \* outcome of each attempt of a delivery
  received,  \* configurations whose receiver got the event (external)
  worker,    \* [Workers -> claim or NULL]
  retries,
  crashes

webhookVars == <<configs, emitted, delivery, log, received, worker, retries, crashes>>

WebhookTypeOK ==
  /\ configs \in [Configs -> {"NONE", "ENABLED", "DISABLED"}]
  /\ emitted \in SUBSET Events
  /\ delivery \in [Events -> DeliveryRecords \cup {NULL}]
  /\ log \in [Events -> [1 .. MaxSequence ->
                {"NONE", "STARTED", "DELIVERED", "FAILED", "INTERRUPTED"}]]
  /\ received \in [Events -> SUBSET Configs]
  /\ worker \in [Workers -> Claims \cup {NULL}]
  /\ retries \in 0 .. MaxRetries
  /\ crashes \in 0 .. MaxCrashes

WebhookInit ==
  /\ configs = [c \in Configs |-> "NONE"]
  /\ emitted = {}
  /\ delivery = [e \in Events |-> NULL]
  /\ log = [e \in Events |-> [n \in 1 .. MaxSequence |-> "NONE"]]
  /\ received = [e \in Events |-> {}]
  /\ worker = [w \in Workers |-> NULL]
  /\ retries = 0
  /\ crashes = 0

-----------------------------------------------------------------------------
(* Configuration. *)

Enabled(c) == configs[c] = "ENABLED"

Parked(d) == [d EXCEPT !.status = "PARKED", !.token = 0, !.expired = FALSE]

\* Undelivered work of the old configuration is parked.
ParkConfiguration ==
  delivery' = [e \in Events |->
    IF delivery[e] # NULL /\ delivery[e].status # "DELIVERED"
    THEN Parked(delivery[e]) ELSE delivery[e]]

Disable == [c \in Configs |-> IF Enabled(c) THEN "DISABLED" ELSE configs[c]]

ConfigurePaymentWebhook(c) ==
  /\ configs[c] = "NONE"
  /\ \A b \in 1 .. (c - 1) : configs[b] # "NONE"
  /\ ParkConfiguration
  /\ configs' = [Disable EXCEPT ![c] = "ENABLED"]
  /\ UNCHANGED <<emitted, log, received, worker, retries, crashes>>

DisablePaymentWebhook ==
  /\ \E c \in Configs : Enabled(c)
  /\ ParkConfiguration
  /\ configs' = Disable
  /\ UNCHANGED <<emitted, log, received, worker, retries, crashes>>

-----------------------------------------------------------------------------
(* Events. *)

\* The trigger saves the event with the outcome.  There is no delivery without
\* an enabled configuration of the branch.  The sweep of expired requests is
\* not serializable: a replacement that takes its snapshot before the new row
\* is saved does not park it.
EmitEvent(e) ==
  /\ e \notin emitted
  /\ emitted' = emitted \cup {e}
  /\ \/ \E c \in Configs :
          /\ configs[c] # "NONE"
          /\ Enabled(c) \/ (c < MaxConfigs /\ Enabled(c + 1))
          /\ delivery' = [delivery EXCEPT ![e] =
               [config |-> c, status |-> "READY", attempts |-> 0, sequence |-> 0,
                token |-> 0, expired |-> FALSE]]
     \/ UNCHANGED delivery
  /\ UNCHANGED <<configs, log, received, worker, retries, crashes>>

\* The vendor asks for the event again, unless a lease on it is live: from the
\* beginning, with the configuration that is enabled now.
RetryPaymentWebhook(e) ==
  LET d == delivery[e]
      sequence == IF d = NULL THEN 0 ELSE d.sequence
  IN /\ retries < MaxRetries
     /\ retries' = retries + 1
     /\ e \in emitted
     /\ ~ (d # NULL /\ d.status = "IN_FLIGHT" /\ ~ d.expired)
     /\ \E c \in Configs :
          /\ Enabled(c)
          /\ delivery' = [delivery EXCEPT ![e] =
               [config |-> c, status |-> "READY", attempts |-> 0, sequence |-> sequence,
                token |-> 0, expired |-> FALSE]]
     /\ UNCHANGED <<configs, emitted, log, received, worker, crashes>>

-----------------------------------------------------------------------------
(* claimPaymentWebhookDeliveries *)

LeaseOver(d) == d.status = "IN_FLIGHT" /\ d.expired

\* Deliveries of a disabled configuration are parked first.
Swept(e) ==
  IF ~ Enabled(delivery[e].config) /\ delivery[e].status # "DELIVERED"
  THEN Parked(delivery[e]) ELSE delivery[e]

\* Faulty variant: the last attempt is left in flight.
LeftInFlight(d) == d

\* The last attempt of a worker that stopped has no successor.
Exhausted(d) ==
  IF LeaseOver(d) /\ d.attempts >= MaxAutomatic
  THEN [d EXCEPT !.status = "EXHAUSTED", !.token = 0, !.expired = FALSE]
  ELSE d

\* Attempts that nobody finished are recorded as interrupted.
Interrupted(e) ==
  [n \in 1 .. MaxSequence |->
    IF log[e][n] = "STARTED" /\ (Swept(e).status = "PARKED" \/ Swept(e).expired)
    THEN "INTERRUPTED" ELSE log[e][n]]

Claimable(d) ==
  /\ d.attempts < MaxAutomatic
  /\ d.status = "READY" \/ LeaseOver(d)

SweepDeliveries(chosen) ==
  LET swept == [e \in Events |-> IF delivery[e] = NULL THEN NULL ELSE Exhausted(Swept(e))]
      claimed(d) == [d EXCEPT !.status = "IN_FLIGHT", !.expired = FALSE, !.attempts = @ + 1,
                              !.sequence = @ + 1, !.token = d.sequence + 1]
  IN /\ \A e \in chosen : delivery[e] # NULL /\ Claimable(swept[e])
     /\ delivery' = [e \in Events |-> IF e \in chosen THEN claimed(swept[e]) ELSE swept[e]]
     /\ log' = [e \in Events |->
          IF delivery[e] = NULL THEN log[e]
          ELSE IF e \in chosen
               THEN [Interrupted(e) EXCEPT ![swept[e].sequence + 1] = "STARTED"]
               ELSE Interrupted(e)]

\* A batch is bounded and passes over locked rows: not all that is due is
\* claimed.
Claim(w, e) ==
  /\ worker[w] = NULL
  /\ SweepDeliveries({e})
  /\ worker' = [worker EXCEPT ![w] =
       [event |-> e, config |-> delivery'[e].config, token |-> delivery'[e].token,
        attempts |-> delivery'[e].attempts, phase |-> "CLAIMED", success |-> FALSE]]
  /\ UNCHANGED <<configs, emitted, received, retries, crashes>>

ClaimNone ==
  /\ SweepDeliveries({})
  /\ UNCHANGED <<configs, emitted, received, worker, retries, crashes>>

\* A minute passes.
ExpireLease(e) ==
  /\ delivery[e] # NULL
  /\ delivery[e].status = "IN_FLIGHT"
  /\ delivery' = [delivery EXCEPT ![e].expired = TRUE]
  /\ UNCHANGED <<configs, emitted, log, received, worker, retries, crashes>>

-----------------------------------------------------------------------------
(* deliverClaimedPaymentWebhook *)

\* The configuration is looked at again before the connection is opened.
CheckConfiguration(w) ==
  /\ worker[w] # NULL
  /\ worker[w].phase = "CLAIMED"
  /\ worker' = [worker EXCEPT ![w].phase =
       IF Enabled(worker[w].config) THEN "SENDING" ELSE "REPORTING"]
  /\ UNCHANGED <<configs, emitted, delivery, log, received, retries, crashes>>

\* The receiver gets the event or not; its answer may not arrive.
Send(w) ==
  /\ worker[w] # NULL
  /\ worker[w].phase = "SENDING"
  /\ \E arrives \in BOOLEAN, answered \in BOOLEAN :
       /\ received' = IF arrives
                      THEN [received EXCEPT ![worker[w].event] = @ \cup {worker[w].config}]
                      ELSE received
       /\ worker' = [worker EXCEPT ![w].phase = "REPORTING",
                                   ![w].success = arrives /\ answered]
  /\ UNCHANGED <<configs, emitted, delivery, log, retries, crashes>>

\* Faulty variant: the token of the claim is not compared.
HoldsAnyLease(w) == delivery[worker[w].event].status = "IN_FLIGHT"

HoldsLease(w) ==
  LET d == delivery[worker[w].event]
  IN d.status = "IN_FLIGHT" /\ d.token = worker[w].token

\* One transaction: the attempt gets its outcome, unless it was recorded as
\* interrupted, and the delivery only if its lease is still this claim's.
Report(w) ==
  LET claim == worker[w]
      e == claim.event
      outcome == IF claim.success THEN "DELIVERED"
                 ELSE IF claim.attempts >= MaxAutomatic THEN "EXHAUSTED" ELSE "READY"
  IN /\ worker[w] # NULL
     /\ claim.phase = "REPORTING"
     /\ log' = [log EXCEPT ![e][claim.token] =
                  IF @ # "STARTED" THEN @
                  ELSE IF claim.success THEN "DELIVERED" ELSE "FAILED"]
     /\ delivery' = IF HoldsLease(w)
                    THEN [delivery EXCEPT ![e].status = outcome, ![e].token = 0,
                                          ![e].expired = FALSE]
                    ELSE delivery
     /\ worker' = [worker EXCEPT ![w] = NULL]
     /\ UNCHANGED <<configs, emitted, received, retries, crashes>>

Crash(w) ==
  /\ worker[w] # NULL
  /\ crashes < MaxCrashes
  /\ crashes' = crashes + 1
  /\ worker' = [worker EXCEPT ![w] = NULL]
  /\ UNCHANGED <<configs, emitted, delivery, log, received, retries>>

-----------------------------------------------------------------------------

Deliver(w) == CheckConfiguration(w) \/ Send(w) \/ Report(w)

WebhookNext ==
  \/ \E c \in Configs : ConfigurePaymentWebhook(c)
  \/ DisablePaymentWebhook
  \/ \E e \in Events : EmitEvent(e) \/ RetryPaymentWebhook(e) \/ ExpireLease(e)
  \/ \E w \in Workers : Deliver(w) \/ Crash(w) \/ \E e \in Events : Claim(w, e)
  \/ ClaimNone

\* The dispatcher runs every five minutes, a delivery has a timeout of seconds,
\* and time passes.  Workers only bound how many deliveries are under way:
\* they are never a reason to wait, hence strong fairness.
WebhookFairness ==
  /\ \A w \in Workers : WF_webhookVars(Deliver(w))
  /\ \A e \in Events :
       /\ WF_webhookVars(ExpireLease(e))
       /\ SF_webhookVars(\E w \in Workers : Claim(w, e))
  /\ WF_webhookVars(ClaimNone)

WebhookSpec == WebhookInit /\ [][WebhookNext]_webhookVars /\ WebhookFairness

-----------------------------------------------------------------------------
(* Properties. *)

\* A notification that is shown as delivered did reach the receiver of the
\* configuration it is recorded with: a worker whose lease ran out, was taken
\* over, parked or put back by a retry with another configuration cannot report
\* its own result for it.
DeliveredWasReceived ==
  /\ WebhookTypeOK
  /\ \A e \in Events :
       delivery[e] # NULL /\ delivery[e].status = "DELIVERED"
         => delivery[e].config \in received[e]

\* No delivery stays queued or in flight for ever: dispatchers that stop, late
\* reports and retries leave it delivered, exhausted or parked in the end.
DeliveryEnds ==
  \A e \in Events :
    delivery[e] # NULL ~> /\ delivery[e] # NULL
                          /\ delivery[e].status \in {"DELIVERED", "EXHAUSTED", "PARKED"}
=============================================================================
