-------------------------- MODULE CredentialLifecycle --------------------------
(***************************************************************************)
(* Suspension, reactivation and revocation of one credential               *)
(* (src/src/lib/credentials/lifecycleActions.ts, automation.ts and the     *)
(* issuance events of status.ts).                                          *)
(*                                                                         *)
(* The agent owns the lifecycle and numbers its transitions.  The portal   *)
(* mirrors them from the answers to its own requests and from events,      *)
(* which come late, twice and in any order.  Administrators and the jobs   *)
(* of the daily run ask for transitions in the same steps: the row is read *)
(* and the action allowed, the agent decides, the answer is persisted.     *)
(* Job 0 revokes the credential once its replacement is activated; job r   *)
(* ends the suspension of revision r.  An issuance event writes the row    *)
(* from what its handler read before.                                      *)
(***************************************************************************)
EXTENDS SqlNull, Naturals, Sequences

CONSTANTS
  Admins,
  Workers,       \* runs of the daily job
  MaxRevision,   \* bound on the transitions of the agent
  MaxAttempts,   \* attempts before a job fails (five)
  MaxTroubles    \* crashes, failed calls, slow workers and retries by hand

ASSUME LifecycleAssumption ==
  /\ Admins \cap Workers = {}
  /\ NULL \notin Admins \cup Workers \cup Nat
  /\ MaxRevision \in Nat
  /\ MaxAttempts \in Nat \ {0}
  /\ MaxTroubles \in Nat

Statuses == {"ACTIVE", "SUSPENDED", "REVOKED"}
Actions == {"suspend", "reactivate", "revoke"}
Revisions == 0 .. MaxRevision
Actors == Admins \cup Workers

VARIABLES
  history,   \* transitions of the agent; the position is the revision
  row,       \* the portal's row of the credential
  job,       \* automation jobs
  actor,     \* requests of administrators and runs of the job at work
  troubles

lifecycleVars == <<history, row, job, actor, troubles>>

\* revision 0 stands for a lifecycle that no transition has touched (null).
Rows ==
  [status : {"OFFER_SENT", "ISSUED", "REVOKED"},
   lifecycle : Statuses \cup {"NONE"}, revision : Revisions]

\* The lease counts as long as a job is processed; one that is retried by hand is
\* processed without a lease.
Jobs ==
  [status : {"NONE", "PENDING", "PROCESSING", "SUCCEEDED", "CANCELLED", "FAILED"},
   attempts : 0 .. MaxAttempts, lease : {"NONE", "HELD", "LAPSED"},
   byHand : BOOLEAN]

ActorRecords ==
  [phase : {"IDLE", "EXECUTING", "REQUESTING", "ASKING", "PERSISTING", "REPORTING"},
   action : Actions \cup {NULL}, job : Revisions \cup {NULL},
   expected : Revisions \cup {NULL},  \* expectedLifecycleRevision
   scheduled : BOOLEAN,               \* with reactivateAt
   answer : Revisions,
   attempt : 0 .. MaxAttempts,
   outcome : {"SUCCEEDED", "CANCELLED", "FAILED", NULL}]

LifecycleTypeOK ==
  /\ history \in Seq(Statuses) /\ Len(history) <= MaxRevision
  /\ row \in Rows
  /\ job \in [Revisions -> Jobs]
  /\ actor \in [Actors -> ActorRecords]
  /\ troubles \in 0 .. MaxTroubles

Idle ==
  [phase |-> "IDLE", action |-> NULL, job |-> NULL, expected |-> NULL,
   scheduled |-> FALSE, answer |-> 0, attempt |-> 0, outcome |-> NULL]

Offered == [status |-> "OFFER_SENT", lifecycle |-> "NONE", revision |-> 0]
NoJob == [status |-> "NONE", attempts |-> 0, lease |-> "NONE", byHand |-> FALSE]

LifecycleInit ==
  /\ history = <<>>
  /\ row = Offered
  /\ job = [r \in Revisions |-> NoJob]
  /\ actor = [a \in Actors |-> Idle]
  /\ troubles = 0

-----------------------------------------------------------------------------
(* The portal's row. *)

\* An update under the trigger protect_revisioned_credential_lifecycle: writes
\* that do not come with a new revision leave the lifecycle as it is, and a
\* revoked row stays revoked.
Write(new) ==
  row' = IF "REVOKED" \in {row.status, row.lifecycle}
         THEN [new EXCEPT !.status = "REVOKED", !.lifecycle = "REVOKED"]
         ELSE IF row.revision # 0 /\ new.revision = row.revision
         THEN [new EXCEPT !.lifecycle = row.lifecycle]
         ELSE new

\* toPublicCredentialStatus, of a credential that has not expired.
PublicStatus ==
  IF row.status # "ISSUED" THEN row.status
  ELSE IF row.lifecycle = "NONE" THEN "ACTIVE" ELSE row.lifecycle

Allowed(action) ==
  PublicStatus \in
    CASE action = "suspend" -> {"ACTIVE"}
      [] action = "reactivate" -> {"SUSPENDED"}
      [] action = "revoke" -> {"ACTIVE", "SUSPENDED", "OFFER_SENT"}

Open == {"PENDING", "PROCESSING"}

\* Faulty variant: an older revision is taken, too.
IsOther(r) == r # row.revision

IsCurrent(r) == r > row.revision

\* "Permanent credential revocation is terminal."
Refused(r) ==
  IsCurrent(r) /\ "REVOKED" \in {row.status, row.lifecycle} /\ history[r] # "REVOKED"

\* persistLifecycleChange, one transaction that locks the row: a newer revision is
\* taken, the same one may still bring the date of reactivation, an older one is
\* only logged.
Persist(r, scheduled) ==
  LET current == IsCurrent(r)
      status == history[r]
      schedules == scheduled /\ status = "SUSPENDED" /\ r >= row.revision
      cancels == current /\ status # "SUSPENDED"
  IN IF Refused(r) THEN UNCHANGED <<row, job>>
     ELSE /\ IF current
             THEN Write([status |-> IF status = "REVOKED" THEN "REVOKED" ELSE "ISSUED",
                         lifecycle |-> status, revision |-> r])
             ELSE UNCHANGED row
          /\ job' = [j \in Revisions |->
               IF schedules /\ j = r /\ job[j].status = "NONE"
               THEN [NoJob EXCEPT !.status = "PENDING"]
               ELSE IF cancels /\ j # 0 /\ job[j].status \in Open
               THEN [job[j] EXCEPT !.status = "CANCELLED", !.lease = "NONE"]
               ELSE job[j]]

-----------------------------------------------------------------------------
(* requestCredentialLifecycleChange, for administrators and for jobs. *)

Become(a, rec) == actor' = [actor EXCEPT ![a] = rec]
Goto(a, phase) == Become(a, [actor[a] EXCEPT !.phase = phase])

\* The answer of an administrator's request is final; a job reports its outcome.
EndRequest(a, outcome) ==
  Become(a, IF actor[a].job = NULL THEN Idle
            ELSE [Idle EXCEPT !.phase = "REPORTING", !.job = actor[a].job,
                              !.attempt = actor[a].attempt, !.outcome = outcome])

\* A request that the row does not allow is turned away.
StartRequest(a, action, scheduled) ==
  /\ actor[a].phase = "IDLE"
  /\ Allowed(action)
  /\ scheduled => action = "suspend"
  /\ Become(a, [Idle EXCEPT !.phase = "ASKING", !.action = action,
                            !.scheduled = scheduled])
  /\ UNCHANGED <<history, row, job, troubles>>

\* The row is read again for the request of a job.
RequestForJob(w) ==
  /\ actor[w].phase = "REQUESTING"
  /\ IF Allowed(actor[w].action) THEN Goto(w, "ASKING") ELSE EndRequest(w, "FAILED")
  /\ UNCHANGED <<history, row, job, troubles>>

\* The agent (external).
Latest == Len(history)
AgentStatus == IF history = <<>> THEN "ACTIVE" ELSE history[Latest]

Target(action) ==
  CASE action = "suspend" -> "SUSPENDED"
    [] action = "reactivate" -> "ACTIVE"
    [] action = "revoke" -> "REVOKED"

AgentAccepts(a) ==
  /\ actor[a].expected \in {NULL, Latest}
  /\ AgentStatus # "REVOKED"
  /\ AgentStatus # Target(actor[a].action)
  /\ Latest < MaxRevision
  /\ a \in Admins => Latest + 1 < MaxRevision   \* leaves a transition to the jobs

AgentAnswers(a, revision) ==
  Become(a, [actor[a] EXCEPT !.phase = "PERSISTING", !.answer = revision,
                             !.action = NULL, !.expected = NULL])

AskAgent(a) ==
  /\ actor[a].phase = "ASKING"
  /\ AgentAccepts(a)
  /\ history' = Append(history, Target(actor[a].action))
  /\ AgentAnswers(a, Latest + 1)
  /\ UNCHANGED <<row, job, troubles>>

\* A request for what is so already is answered with the transition that made it
\* so, or refused like one that comes too late.
AgentRepeats(a) ==
  /\ actor[a].phase = "ASKING"
  /\ ~ AgentAccepts(a)
  /\ \/ EndRequest(a, "FAILED")
     \/ /\ history # <<>> /\ AgentStatus = Target(actor[a].action)
        /\ actor[a].expected \in {NULL, Latest}
        /\ AgentAnswers(a, Latest)
  /\ UNCHANGED <<history, row, job, troubles>>

\* The call fails, before or after the agent has decided.
AgentFails(a) ==
  /\ actor[a].phase = "ASKING"
  /\ troubles < MaxTroubles
  /\ troubles' = troubles + 1
  /\ \/ UNCHANGED history
     \/ AgentAccepts(a) /\ history' = Append(history, Target(actor[a].action))
  /\ EndRequest(a, "FAILED")
  /\ UNCHANGED <<row, job>>

PersistAnswer(a) ==
  /\ actor[a].phase = "PERSISTING"
  /\ Persist(actor[a].answer, actor[a].scheduled)
  /\ EndRequest(a, IF Refused(actor[a].answer) THEN "FAILED" ELSE "SUCCEEDED")
  /\ UNCHANGED <<history, troubles>>

-----------------------------------------------------------------------------
(* The jobs of the daily run. *)

\* reconcileRenewalActivation queues the revocation of a replaced credential.
QueueRevocation ==
  /\ row.status = "ISSUED" /\ row.lifecycle # "REVOKED"
  /\ job[0].status = "NONE"
  /\ job' = [job EXCEPT ![0].status = "PENDING"]
  /\ UNCHANGED <<history, row, actor, troubles>>

\* Faulty variant: the job of a run that stopped is not taken up again.
Pending(j) == job[j].status = "PENDING"

Due(j) ==
  \/ job[j].status = "PENDING"
  \/ job[j].status = "PROCESSING" /\ job[j].lease = "LAPSED"

\* Nothing tells the attempts apart once there were enough of them.
NextAttempt(j) ==
  IF job[j].attempts < MaxAttempts THEN job[j].attempts + 1 ELSE MaxAttempts

\* claimNextDueJob; the date of every job has come.
Claim(w, j) ==
  /\ actor[w].phase = "IDLE"
  /\ Due(j)
  /\ job' = [job EXCEPT ![j].status = "PROCESSING", ![j].lease = "HELD",
                        ![j].attempts = NextAttempt(j)]
  /\ Become(w, [Idle EXCEPT !.phase = "EXECUTING", !.job = j, !.attempt = NextAttempt(j)])
  /\ UNCHANGED <<history, row, troubles>>

\* Faulty variant: the job does not say for which revision it reactivates.
ExecuteUnbound(w) ==
  LET j == actor[w].job
      action == IF j = 0 THEN "revoke" ELSE "reactivate"
  IN /\ actor[w].phase = "EXECUTING"
     /\ IF row.lifecycle = "REVOKED" \/ (j # 0 /\ row.lifecycle = "ACTIVE")
        THEN EndRequest(w, "SUCCEEDED")
        ELSE Become(w, [actor[w] EXCEPT !.phase = "REQUESTING", !.action = action])
     /\ UNCHANGED <<history, row, job, troubles>>

\* executeJob: the suspension must still be the one that the job is for.
Execute(w) ==
  LET j == actor[w].job
      action == IF j = 0 THEN "revoke" ELSE "reactivate"
  IN /\ actor[w].phase = "EXECUTING"
     /\ IF j # 0 /\ row.revision # j THEN EndRequest(w, "CANCELLED")
        ELSE IF j # 0 /\ row.lifecycle = "ACTIVE" THEN EndRequest(w, "SUCCEEDED")
        ELSE IF row.lifecycle = "REVOKED"
        THEN EndRequest(w, IF j = 0 THEN "SUCCEEDED" ELSE "CANCELLED")
        ELSE Become(w, [actor[w] EXCEPT !.phase = "REQUESTING", !.action = action,
                          !.expected = IF j = 0 THEN NULL ELSE row.revision])
     /\ UNCHANGED <<history, row, job, troubles>>

\* The outcome is written under the id of the job alone.
Report(w) ==
  LET status == IF actor[w].outcome # "FAILED" THEN actor[w].outcome
                ELSE IF actor[w].attempt >= MaxAttempts THEN "FAILED" ELSE "PENDING"
  IN /\ actor[w].phase = "REPORTING"
     /\ job' = [job EXCEPT ![actor[w].job].status = status,
                           ![actor[w].job].lease = "NONE"]
     /\ Become(w, Idle)
     /\ UNCHANGED <<history, row, troubles>>

\* retryCredentialAutomationJob
RetryJob(w, j) ==
  /\ actor[w].phase = "IDLE"
  /\ job[j].status = "FAILED"
  /\ troubles < MaxTroubles
  /\ troubles' = troubles + 1
  /\ job' = [job EXCEPT ![j].status = "PROCESSING", ![j].attempts = 1,
                        ![j].byHand = TRUE]
  /\ Become(w, [Idle EXCEPT !.phase = "EXECUTING", !.job = j, !.attempt = 1])
  /\ UNCHANGED <<history, row>>

-----------------------------------------------------------------------------
(* Events, time and crashes. *)

\* recordCredentialLifecycleChangedEvent; an event without revision is replaced
\* by the present state of the agent.
ReceiveLifecycleEvent(r) ==
  /\ r \in 1 .. Latest
  /\ Persist(r, FALSE)
  /\ UNCHANGED <<history, actor, troubles>>

\* recordCredentialStateChangedEvent, and reconcileCredentialEventLogs for an
\* event that came before: the student accepted, and the row is written with the
\* lifecycle that was read from it at any moment before.
WriteIssued ==
  /\ \E read \in {"ACTIVE"} \cup {history[r] : r \in 1 .. row.revision} :
       Write([row EXCEPT !.status = "ISSUED", !.lifecycle = read])
  /\ UNCHANGED <<history, job, actor, troubles>>

\* The lease of a job that nobody works on runs out.
LapseLease(j) ==
  /\ job[j].lease = "HELD"
  /\ \A w \in Workers : actor[w].job # j
  /\ job' = [job EXCEPT ![j].lease = "LAPSED"]
  /\ UNCHANGED <<history, row, actor, troubles>>

\* A run is so slow that the lease of its job runs out while it works.
Overrun(j) ==
  /\ job[j].lease = "HELD"
  /\ troubles < MaxTroubles
  /\ troubles' = troubles + 1
  /\ job' = [job EXCEPT ![j].lease = "LAPSED"]
  /\ UNCHANGED <<history, row, actor>>

Crash(a) ==
  /\ actor[a].phase # "IDLE"
  /\ troubles < MaxTroubles
  /\ troubles' = troubles + 1
  /\ Become(a, Idle)
  /\ UNCHANGED <<history, row, job>>

-----------------------------------------------------------------------------

WorkerStep(w) ==
  \/ \E j \in Revisions : Claim(w, j)
  \/ Execute(w) \/ RequestForJob(w) \/ Report(w)
  \/ AskAgent(w) \/ AgentRepeats(w) \/ PersistAnswer(w)

LifecycleNext ==
  \/ \E a \in Admins :
       \/ \E action \in Actions, scheduled \in BOOLEAN : StartRequest(a, action, scheduled)
       \/ AskAgent(a) \/ AgentRepeats(a) \/ PersistAnswer(a)
  \/ \E w \in Workers : WorkerStep(w) \/ \E j \in Revisions : RetryJob(w, j)
  \/ \E a \in Actors : AgentFails(a) \/ Crash(a)
  \/ \E r \in Revisions : ReceiveLifecycleEvent(r) \/ LapseLease(r) \/ Overrun(r)
  \/ QueueRevocation \/ WriteIssued

\* The daily run goes on as long as it can, and a lease nobody works under runs
\* out.  Administrators, the agent's events and the student owe nothing.
DailyRun ==
  \/ \E w \in Workers : WorkerStep(w)
  \/ \E j \in Revisions : LapseLease(j)

LifecycleSpec ==
  LifecycleInit /\ [][LifecycleNext]_lifecycleVars /\ WF_lifecycleVars(DailyRun)

-----------------------------------------------------------------------------
(* Properties. *)

\* What the portal shows is a state the agent was in, it never goes back to an
\* older one, and nothing follows a revocation, whatever the order of answers,
\* events and stale writes.
Mirror ==
  INSTANCE CredentialMirror
  WITH decided <- history, revision <- row.revision,
       shown <- IF row.revision = 0 THEN "NONE" ELSE row.lifecycle

ImplementsMirror == Mirror!MirrorSpec

\* An issuance event that read its row before a revocation does not undo it.
RevokedStaysRevoked ==
  [][ row.status = "REVOKED" => row'.status = "REVOKED" ]_lifecycleVars

\* The end of a suspension that a job brings about is the end of the suspension
\* it was made for, and of no later one.
ReactivatesItsSuspension ==
  [][ \A w \in Workers :
        /\ actor[w].phase = "ASKING" /\ actor[w].action = "reactivate"
        /\ history' # history /\ actor'[w] # actor[w]
        => Latest = actor[w].job ]_lifecycleVars

\* A job gets done or fails for good, also when its worker stops, is overtaken or
\* gets no answer: the suspension it is for ends, the replaced credential is
\* revoked.  A retry by hand is left out: its worker has no lease.
Unserved(j) ==
  /\ job[j].status \notin {"NONE", "FAILED"} /\ ~ job[j].byHand
  /\ IF j = 0 THEN AgentStatus # "REVOKED" ELSE Latest = j

JobsEnd == (\E j \in Revisions : Unserved(j)) ~> (\A j \in Revisions : ~ Unserved(j))
=============================================================================
