---------------------- MODULE CredentialLifecycleProofs ----------------------
(***************************************************************************)
(* Theorems about CredentialLifecycle, for every number of administrators, *)
(* runs, transitions, attempts and troubles; and about BatchIssuance, for  *)
(* every batch and every number of retries, faults and stops.              *)
(***************************************************************************)
EXTENDS CredentialLifecycle, BatchIssuance, TLAPS

\* Nothing follows a revocation at the agent.
RevocationIsLast ==
  \A i \in 1 .. Len(history) : history[i] = "REVOKED" => i = Len(history)

\* The row shows the transition of its revision.
RowMirrors ==
  /\ row.revision <= Len(history)
  /\ row.revision # 0 => row.lifecycle = history[row.revision]
  /\ row.revision = 0 => row.lifecycle \in {"NONE", "ACTIVE"}
  /\ row.status = "REVOKED" <=> row.lifecycle = "REVOKED"

\* An answer is a transition that the agent made, a job under way is known, and it
\* reactivates under the revision it was made for.
RequestOK(a, rec, latest) ==
  /\ rec.phase = "PERSISTING" => rec.answer \in 1 .. latest
  /\ rec.phase \in {"REQUESTING", "ASKING"} => rec.action \in Actions
  /\ rec.phase = "REPORTING" => rec.outcome \in {"SUCCEEDED", "CANCELLED", "FAILED"}
  /\ a \in Workers /\ rec.phase \in {"EXECUTING", "REQUESTING", "ASKING", "REPORTING"}
       => rec.job \in Revisions
  /\ a \in Workers /\ rec.phase \in {"REQUESTING", "ASKING"}
     /\ rec.action = "reactivate" => rec.expected = rec.job

ActorsAsk == \A a \in Actors : RequestOK(a, actor[a], Len(history))

LifecycleInvariant ==
  /\ LifecycleTypeOK
  /\ RevocationIsLast
  /\ RowMirrors
  /\ ActorsAsk

-----------------------------------------------------------------------------
(* Parts of steps. *)

\* An idle actor and an absent job have their types.
LEMMA IdleTyped == Idle \in ActorRecords /\ NoJob \in Jobs
<1>1. 0 \in 0 .. MaxAttempts /\ 0 \in Revisions
  BY LifecycleAssumption DEF Revisions
<1>2. Idle \in ActorRecords
  BY <1>1 DEF Idle, ActorRecords
<1>3. NoJob \in Jobs
  BY <1>1 DEF NoJob, Jobs
<1>. QED  BY <1>2, <1>3

\* A row is written with a row.
LEMMA WriteRow ==
  ASSUME LifecycleTypeOK, NEW new \in Rows, Write(new)
  PROVE  row' \in Rows
BY DEF LifecycleTypeOK, Write, Rows, Statuses

\* Persisting keeps the types, and moves the row to the transition of the answer
\* or leaves it.
LEMMA PersistStep ==
  ASSUME LifecycleInvariant, NEW r \in 1 .. Len(history), NEW scheduled \in BOOLEAN,
         Persist(r, scheduled)
  PROVE  /\ row' \in Rows
         /\ job' \in [Revisions -> Jobs]
         /\ \/ row' = row
            \/ /\ r > row.revision /\ row'.revision = r /\ row'.lifecycle = history[r]
               /\ row'.status = (IF history[r] = "REVOKED" THEN "REVOKED" ELSE "ISSUED")
<1>1. history[r] \in Statuses /\ r \in Revisions /\ row \in Rows /\ row.revision \in Nat
  <2>1. history \in Seq(Statuses) /\ Len(history) <= MaxRevision /\ row \in Rows
    BY DEF LifecycleInvariant, LifecycleTypeOK
  <2>2. history[r] \in Statuses
    BY <2>1
  <2>3. r \in Revisions
    BY <2>1, LifecycleAssumption DEF Revisions
  <2>4. row.revision \in Nat
    BY <2>1, LifecycleAssumption DEF Rows, Revisions
  <2>. QED  BY <2>1, <2>2, <2>3, <2>4
<1> DEFINE new == [status |-> IF history[r] = "REVOKED" THEN "REVOKED" ELSE "ISSUED",
                   lifecycle |-> history[r], revision |-> r]
<1>2. new \in Rows
  BY <1>1 DEF Rows
<1>3. \/ row' = row
      \/ IsCurrent(r) /\ ~ Refused(r) /\ Write(new)
  BY DEF Persist
<1>4. ASSUME IsCurrent(r), ~ Refused(r), Write(new)
      PROVE  row' = new
  <2>1. r > row.revision
    BY <1>4 DEF IsCurrent
  <2>2. CASE "REVOKED" \in {row.status, row.lifecycle}
    <3>1. history[r] = "REVOKED"
      BY <1>4, <2>2 DEF Refused
    <3>2. row' = [new EXCEPT !.status = "REVOKED", !.lifecycle = "REVOKED"]
      BY <1>4, <2>2 DEF Write
    <3>. QED  BY <3>1, <3>2
  <2>3. CASE ~ ("REVOKED" \in {row.status, row.lifecycle})
    <3>1. new.revision # row.revision
      BY <1>1, <2>1
    <3>. QED  BY <1>4, <2>3, <3>1 DEF Write
  <2>. QED  BY <2>2, <2>3
<1>5. job' \in [Revisions -> Jobs]
  <2>1. [NoJob EXCEPT !.status = "PENDING"] \in Jobs
    BY IdleTyped DEF Jobs
  <2>2. \A j \in Revisions :
          job[j] \in Jobs /\ [job[j] EXCEPT !.status = "CANCELLED", !.lease = "NONE"] \in Jobs
    BY DEF LifecycleInvariant, LifecycleTypeOK, Jobs
  <2>. QED  BY <2>1, <2>2 DEF Persist, LifecycleInvariant, LifecycleTypeOK
<1>. QED  BY <1>1, <1>2, <1>3, <1>4, <1>5 DEF IsCurrent

\* An actor that goes on with a sound record keeps all of them sound.
LEMMA BecomeStep ==
  ASSUME LifecycleInvariant, NEW a \in Actors, NEW rec \in ActorRecords, Become(a, rec),
         Len(history') \in Nat, Len(history) <= Len(history'),
         RequestOK(a, rec, Len(history'))
  PROVE  actor' \in [Actors -> ActorRecords] /\ ActorsAsk'
<1>1. actor \in [Actors -> ActorRecords] /\ Len(history) \in Nat /\ ActorsAsk
  BY DEF LifecycleInvariant, LifecycleTypeOK
<1>2. actor' = [actor EXCEPT ![a] = rec]
  BY DEF Become
<1>3. actor' \in [Actors -> ActorRecords]
  BY <1>1, <1>2
<1>4. ASSUME NEW b \in Actors PROVE RequestOK(b, actor'[b], Len(history'))
  <2>1. CASE b = a
    BY <1>1, <1>2, <2>1
  <2>2. CASE b # a
    <3>1. actor'[b] = actor[b] /\ RequestOK(b, actor[b], Len(history))
      BY <1>1, <1>2, <2>2 DEF ActorsAsk
    <3>2. 1 .. Len(history) \subseteq 1 .. Len(history')
      BY <1>1
    <3>. QED  BY <3>1, <3>2 DEF RequestOK
  <2>. QED  BY <2>1, <2>2
<1>. QED  BY <1>3, <1>4 DEF ActorsAsk

\* A request that ends leaves its actor idle or reporting the job it was for.
LEMMA EndedRequest ==
  ASSUME LifecycleInvariant, NEW a \in Actors, Len(history') \in Nat,
         Len(history) <= Len(history'),
         NEW outcome \in {"SUCCEEDED", "CANCELLED", "FAILED"}, EndRequest(a, outcome)
  PROVE  actor' \in [Actors -> ActorRecords] /\ ActorsAsk'
<1> DEFINE ended == [Idle EXCEPT !.phase = "REPORTING", !.job = actor[a].job,
                       !.attempt = actor[a].attempt, !.outcome = outcome]
           rec == IF actor[a].job = NULL THEN Idle ELSE ended
<1>1. actor[a] \in ActorRecords
  BY DEF LifecycleInvariant, LifecycleTypeOK
<1>2. Idle \in ActorRecords /\ ended \in ActorRecords
  BY <1>1, IdleTyped DEF ActorRecords
<1>3. /\ Idle.phase = "IDLE" /\ ended.phase = "REPORTING"
      /\ ended.job = actor[a].job /\ ended.outcome = outcome
  BY DEF Idle
<1>4. actor[a].job \in Revisions \cup {NULL}
  BY <1>1 DEF ActorRecords
<1>5. RequestOK(a, rec, Len(history'))
  BY <1>3, <1>4 DEF RequestOK
<1>6. rec \in ActorRecords /\ Become(a, rec)
  BY <1>2 DEF EndRequest
<1>. QED  BY <1>5, <1>6, BecomeStep

\* An actor that becomes idle asks for nothing.
LEMMA IdleStep ==
  ASSUME LifecycleInvariant, NEW a \in Actors, Become(a, Idle), UNCHANGED history
  PROVE  actor' \in [Actors -> ActorRecords] /\ ActorsAsk'
<1>1. Idle \in ActorRecords
  BY IdleTyped
<1>2. Len(history') \in Nat /\ Len(history) <= Len(history')
  BY DEF LifecycleInvariant, LifecycleTypeOK
<1>3. RequestOK(a, Idle, Len(history'))
  BY DEF Idle, RequestOK
<1>. QED  BY <1>1, <1>2, <1>3, BecomeStep

\* The agent appends a transition that no revocation precedes.
LEMMA AgentStep ==
  ASSUME LifecycleInvariant, NEW a \in Actors, actor[a].phase = "ASKING", AgentAccepts(a),
         history' = Append(history, Target(actor[a].action)),
         actor[a].action \in Actions, UNCHANGED row
  PROVE  /\ history' \in Seq(Statuses) /\ Len(history') = Len(history) + 1
         /\ Len(history') <= MaxRevision
         /\ RevocationIsLast' /\ RowMirrors'
<1>1. /\ history \in Seq(Statuses) /\ Len(history) <= MaxRevision /\ Len(history) \in Nat
      /\ row \in Rows /\ row.revision \in Nat /\ RevocationIsLast /\ RowMirrors
  BY LifecycleAssumption DEF LifecycleInvariant, LifecycleTypeOK, Rows, Revisions
<1>2. Target(actor[a].action) \in Statuses
  BY DEF Target, Actions, Statuses
<1>3. /\ history' \in Seq(Statuses) /\ Len(history') = Len(history) + 1
      /\ \A i \in 1 .. Len(history) : history'[i] = history[i]
  BY <1>1, <1>2
<1>4. Len(history') <= MaxRevision
  BY <1>1, <1>3, LifecycleAssumption DEF AgentAccepts, Latest
<1>5. history # <<>> => history[Len(history)] # "REVOKED"
  BY DEF AgentAccepts, AgentStatus, Latest
<1>6. RevocationIsLast'
  <2>1. ASSUME NEW i \in 1 .. Len(history) PROVE history[i] # "REVOKED"
    <3>1. history # <<>>
      BY <1>1
    <3>. QED  BY <1>1, <1>5, <3>1 DEF RevocationIsLast
  <2>. QED  BY <1>1, <1>3, <2>1 DEF RevocationIsLast
<1>7. RowMirrors'
  BY <1>1, <1>3 DEF RowMirrors
<1>. QED  BY <1>3, <1>4, <1>6, <1>7

-----------------------------------------------------------------------------
(* Every action preserves the invariant. *)

\* What all the proofs need of the present state.
LEMMA Present ==
  ASSUME LifecycleInvariant
  PROVE  /\ history \in Seq(Statuses) /\ Len(history) <= MaxRevision /\ Len(history) \in Nat
         /\ row \in Rows /\ row.revision \in Nat
         /\ job \in [Revisions -> Jobs] /\ actor \in [Actors -> ActorRecords]
         /\ troubles \in 0 .. MaxTroubles
         /\ RevocationIsLast /\ RowMirrors /\ ActorsAsk
BY LifecycleAssumption DEF LifecycleInvariant, LifecycleTypeOK, Rows, Revisions

\* One more trouble, below the bound.
LEMMA OneMoreTrouble ==
  ASSUME LifecycleInvariant, troubles < MaxTroubles, troubles' = troubles + 1
  PROVE  troubles' \in 0 .. MaxTroubles
BY Present, LifecycleAssumption

\* Steps of an actor that change neither the agent, the row nor the jobs.
LEMMA ActorSteps ==
  ASSUME LifecycleInvariant, NEW a \in Actors, UNCHANGED <<history, row, job>>,
         troubles' \in 0 .. MaxTroubles,
         actor' \in [Actors -> ActorRecords] /\ ActorsAsk'
  PROVE  LifecycleInvariant'
BY Present DEF LifecycleInvariant, LifecycleTypeOK, RevocationIsLast, RowMirrors

\* A request that starts asks for what its action allows.
LEMMA StartRequestStep ==
  ASSUME LifecycleInvariant, NEW a \in Admins, NEW action \in Actions,
         NEW scheduled \in BOOLEAN, StartRequest(a, action, scheduled)
  PROVE  LifecycleInvariant'
<1> DEFINE rec == [Idle EXCEPT !.phase = "ASKING", !.action = action,
                               !.scheduled = scheduled]
<1>1. a \in Actors /\ a \notin Workers
  BY LifecycleAssumption DEF Actors
<1>2. rec \in ActorRecords
  BY IdleTyped DEF ActorRecords
<1>3. rec.phase = "ASKING" /\ rec.action = action
  BY DEF Idle
<1>4. RequestOK(a, rec, Len(history))
  BY <1>1, <1>3 DEF RequestOK
<1>5. Become(a, rec) /\ UNCHANGED <<history, row, job, troubles>>
  BY DEF StartRequest
<1>. HIDE DEF rec
<1>6. actor' \in [Actors -> ActorRecords] /\ ActorsAsk'
  BY <1>1, <1>2, <1>4, <1>5, Present, BecomeStep
<1>. QED  BY <1>1, <1>5, <1>6, Present, ActorSteps

\* The request of a job is for the suspension it was scheduled for.
LEMMA RequestForJobStep ==
  ASSUME LifecycleInvariant, NEW w \in Workers, RequestForJob(w)
  PROVE  LifecycleInvariant'
<1> DEFINE rec == [actor[w] EXCEPT !.phase = "ASKING"]
<1>1. w \in Actors /\ actor[w] \in ActorRecords /\ RequestOK(w, actor[w], Len(history))
  BY Present DEF Actors, ActorsAsk
<1>2. UNCHANGED <<history, row, job, troubles>> /\ actor[w].phase = "REQUESTING"
  BY DEF RequestForJob
<1>3. CASE EndRequest(w, "FAILED")
  BY <1>1, <1>2, <1>3, Present, EndedRequest, ActorSteps
<1>4. CASE Become(w, rec)
  <2>1. rec \in ActorRecords
    BY <1>1 DEF ActorRecords
  <2>2. /\ rec.phase = "ASKING" /\ rec.action = actor[w].action
        /\ rec.job = actor[w].job /\ rec.expected = actor[w].expected
    BY <1>1 DEF ActorRecords
  <2>3. RequestOK(w, rec, Len(history))
    BY <1>1, <1>2, <2>2 DEF RequestOK
  <2>. HIDE DEF rec
  <2>4. actor' \in [Actors -> ActorRecords] /\ ActorsAsk'
    BY <1>1, <1>2, <1>4, <2>1, <2>3, Present, BecomeStep
  <2>. QED  BY <1>1, <1>2, <2>4, Present, ActorSteps
<1>. QED  BY <1>3, <1>4 DEF RequestForJob, Goto

\* The record of an actor whose request was answered.
LEMMA AnsweredStep ==
  ASSUME LifecycleInvariant, NEW a \in Actors, NEW r \in 1 .. Len(history'),
         history' = history \/ Len(history') = Len(history) + 1,
         Len(history') <= MaxRevision, AgentAnswers(a, r)
  PROVE  actor' \in [Actors -> ActorRecords] /\ ActorsAsk'
<1> DEFINE rec == [actor[a] EXCEPT !.phase = "PERSISTING", !.answer = r,
                                   !.action = NULL, !.expected = NULL]
<1>1. actor[a] \in ActorRecords
  BY Present
<1>2. Len(history') \in Nat /\ Len(history) <= Len(history')
  BY Present
<1>3. r \in Revisions
  BY <1>2, LifecycleAssumption DEF Revisions
<1>4. rec \in ActorRecords
  BY <1>1, <1>3 DEF ActorRecords
<1>5. rec.phase = "PERSISTING" /\ rec.answer = r
  BY <1>1 DEF ActorRecords
<1>6. RequestOK(a, rec, Len(history'))
  BY <1>5 DEF RequestOK
<1>7. Become(a, rec)
  BY DEF AgentAnswers
<1>. HIDE DEF rec
<1>. QED  BY <1>2, <1>4, <1>6, <1>7, BecomeStep

\* The agent decides once more and never after a revocation.
LEMMA AskAgentStep ==
  ASSUME LifecycleInvariant, NEW a \in Actors, AskAgent(a)
  PROVE  LifecycleInvariant'
<1>1. RequestOK(a, actor[a], Len(history)) /\ actor[a].phase = "ASKING"
  BY Present DEF ActorsAsk, AskAgent
<1>2. actor[a].action \in Actions
  BY <1>1 DEF RequestOK
<1>3. /\ AgentAccepts(a) /\ history' = Append(history, Target(actor[a].action))
      /\ AgentAnswers(a, Len(history) + 1) /\ UNCHANGED <<row, job, troubles>>
  BY DEF AskAgent, Latest
<1>4. /\ history' \in Seq(Statuses) /\ Len(history') = Len(history) + 1
      /\ Len(history') <= MaxRevision /\ RevocationIsLast' /\ RowMirrors'
  BY <1>1, <1>2, <1>3, AgentStep
<1>5. Len(history) + 1 \in 1 .. Len(history')
  BY <1>4, Present
<1>6. actor' \in [Actors -> ActorRecords] /\ ActorsAsk'
  BY <1>3, <1>4, <1>5, AnsweredStep
<1>. QED  BY <1>3, <1>4, <1>6, Present DEF LifecycleInvariant, LifecycleTypeOK

\* A request that changes nothing is answered with the latest decision.
LEMMA AgentRepeatsStep ==
  ASSUME LifecycleInvariant, NEW a \in Actors, AgentRepeats(a)
  PROVE  LifecycleInvariant'
<1>1. UNCHANGED <<history, row, job, troubles>>
  BY DEF AgentRepeats
<1>2. actor' \in [Actors -> ActorRecords] /\ ActorsAsk'
  <2>1. CASE EndRequest(a, "FAILED")
    BY <1>1, <2>1, Present, EndedRequest
  <2>2. CASE history # <<>> /\ AgentAnswers(a, Len(history))
    <3>1. Len(history) \in 1 .. Len(history')
      BY <1>1, <2>2, Present
    <3>. QED  BY <1>1, <2>2, <3>1, Present, AnsweredStep
  <2>. QED  BY <2>1, <2>2 DEF AgentRepeats, Latest
<1>. QED  BY <1>1, <1>2, Present, ActorSteps

\* A failed call may have been decided: the decision stands, nobody has heard of it.
LEMMA AgentFailsStep ==
  ASSUME LifecycleInvariant, NEW a \in Actors, AgentFails(a)
  PROVE  LifecycleInvariant'
<1>1. RequestOK(a, actor[a], Len(history)) /\ actor[a].phase = "ASKING"
  BY Present DEF ActorsAsk, AgentFails
<1>2. actor[a].action \in Actions
  BY <1>1 DEF RequestOK
<1>3. UNCHANGED <<row, job>> /\ EndRequest(a, "FAILED") /\ troubles' \in 0 .. MaxTroubles
  BY OneMoreTrouble DEF AgentFails
<1>4. CASE UNCHANGED history
  <2>1. actor' \in [Actors -> ActorRecords] /\ ActorsAsk'
    BY <1>3, <1>4, Present, EndedRequest
  <2>. QED  BY <1>3, <1>4, <2>1, ActorSteps
<1>5. CASE AgentAccepts(a) /\ history' = Append(history, Target(actor[a].action))
  <2>1. /\ history' \in Seq(Statuses) /\ Len(history') = Len(history) + 1
        /\ Len(history') <= MaxRevision /\ RevocationIsLast' /\ RowMirrors'
    BY <1>1, <1>2, <1>3, <1>5, AgentStep
  <2>2. Len(history') \in Nat /\ Len(history) <= Len(history')
    BY <2>1, Present
  <2>3. actor' \in [Actors -> ActorRecords] /\ ActorsAsk'
    BY <1>3, <2>2, EndedRequest
  <2>. QED  BY <1>3, <2>1, <2>3, Present DEF LifecycleInvariant, LifecycleTypeOK
<1>. QED  BY <1>4, <1>5 DEF AgentFails

\* A persisted answer leaves a row that mirrors its transition.
LEMMA PersistedRow ==
  ASSUME LifecycleInvariant, NEW r \in 1 .. Len(history), NEW scheduled \in BOOLEAN,
         Persist(r, scheduled), UNCHANGED history, troubles' \in 0 .. MaxTroubles,
         actor' \in [Actors -> ActorRecords] /\ ActorsAsk'
  PROVE  LifecycleInvariant'
<1>1. /\ row' \in Rows /\ job' \in [Revisions -> Jobs]
      /\ \/ row' = row
         \/ /\ r > row.revision /\ row'.revision = r /\ row'.lifecycle = history[r]
            /\ row'.status = (IF history[r] = "REVOKED" THEN "REVOKED" ELSE "ISSUED")
  BY PersistStep
<1>2. RowMirrors'
  <2>1. r \in Nat /\ r # 0 /\ r <= Len(history)
    BY Present
  <2>. QED  BY <1>1, <2>1, Present DEF RowMirrors
<1>. QED  BY <1>1, <1>2, Present DEF LifecycleInvariant, LifecycleTypeOK, RevocationIsLast

\* An answer is written only over an older revision of its row.
LEMMA PersistAnswerStep ==
  ASSUME LifecycleInvariant, NEW a \in Actors, PersistAnswer(a)
  PROVE  LifecycleInvariant'
<1>1. /\ RequestOK(a, actor[a], Len(history)) /\ actor[a].phase = "PERSISTING"
      /\ actor[a].scheduled \in BOOLEAN
  BY Present DEF ActorsAsk, PersistAnswer, ActorRecords
<1>2. actor[a].answer \in 1 .. Len(history)
  BY <1>1 DEF RequestOK
<1>3. /\ UNCHANGED <<history, troubles>> /\ Persist(actor[a].answer, actor[a].scheduled)
      /\ \E outcome \in {"FAILED", "SUCCEEDED"} : EndRequest(a, outcome)
  BY DEF PersistAnswer
<1>4. actor' \in [Actors -> ActorRecords] /\ ActorsAsk'
  BY <1>3, Present, EndedRequest
<1>. QED  BY <1>1, <1>2, <1>3, <1>4, Present, PersistedRow

\* An event is applied only over an older revision, however late it comes.
LEMMA ReceiveLifecycleEventStep ==
  ASSUME LifecycleInvariant, NEW r \in Revisions, ReceiveLifecycleEvent(r)
  PROVE  LifecycleInvariant'
<1>1. /\ r \in 1 .. Len(history) /\ Persist(r, FALSE)
      /\ UNCHANGED <<history, actor, troubles>>
  BY DEF ReceiveLifecycleEvent, Latest
<1>2. actor' \in [Actors -> ActorRecords] /\ ActorsAsk'
  BY <1>1, Present DEF ActorsAsk
<1>. QED  BY <1>1, <1>2, Present, PersistedRow

\* A stale write of an issuance event keeps the revision and its lifecycle.
LEMMA StaleWrite ==
  ASSUME LifecycleInvariant, WriteIssued
  PROVE  /\ row' \in Rows /\ row'.revision = row.revision
         /\ row.revision # 0 => row'.lifecycle = row.lifecycle
         /\ row.revision = 0 => row'.lifecycle = "ACTIVE"
         /\ row'.status = "REVOKED" <=> row'.lifecycle = "REVOKED"
         /\ row.status = "REVOKED" => row'.status = "REVOKED"
<1>1. PICK read \in {"ACTIVE"} \cup {history[r] : r \in 1 .. row.revision} :
        Write([row EXCEPT !.status = "ISSUED", !.lifecycle = read])
  BY DEF WriteIssued
<1> DEFINE new == [row EXCEPT !.status = "ISSUED", !.lifecycle = read]
<1>2. row \in Rows /\ row.revision <= Len(history) /\ history \in Seq(Statuses)
  BY Present DEF RowMirrors
<1>3. read \in Statuses
  <2>1. \A r \in 1 .. row.revision : r \in 1 .. Len(history)
    BY <1>2, Present
  <2>. QED  BY <1>2, <2>1 DEF Statuses
<1>4. new \in Rows /\ new.status = "ISSUED" /\ new.lifecycle = read
      /\ new.revision = row.revision
  BY <1>2, <1>3 DEF Rows
<1>5. row' \in Rows
  BY <1>1, <1>4, WriteRow DEF LifecycleInvariant
<1>6. /\ row.revision # 0 => row.lifecycle = history[row.revision]
      /\ row.revision = 0 => row.lifecycle \in {"NONE", "ACTIVE"}
      /\ row.status = "REVOKED" <=> row.lifecycle = "REVOKED"
  BY Present DEF RowMirrors
<1>7. CASE row.status = "REVOKED"
  <2>1. row' = [new EXCEPT !.status = "REVOKED", !.lifecycle = "REVOKED"]
    BY <1>1, <1>7 DEF Write
  <2>2. row'.status = "REVOKED" /\ row'.lifecycle = "REVOKED" /\ row'.revision = new.revision
    BY <1>4, <2>1 DEF Rows
  <2>. QED  BY <1>4, <1>5, <1>6, <1>7, <2>2
<1>8. CASE row.status # "REVOKED" /\ row.revision # 0
  <2>1. row' = [new EXCEPT !.lifecycle = row.lifecycle]
    BY <1>1, <1>4, <1>6, <1>8 DEF Write
  <2>2. /\ row'.status = new.status /\ row'.lifecycle = row.lifecycle
        /\ row'.revision = new.revision
    BY <1>4, <2>1 DEF Rows
  <2>. QED  BY <1>4, <1>5, <1>6, <1>8, <2>2
<1>9. CASE row.status # "REVOKED" /\ row.revision = 0
  <2>1. row' = new
    BY <1>1, <1>4, <1>6, <1>9 DEF Write
  <2>2. read = "ACTIVE"
    BY <1>9
  <2>. QED  BY <1>4, <1>5, <1>9, <2>1, <2>2
<1>. QED  BY <1>7, <1>8, <1>9

\* The issuance writes back a status read earlier; the row still shows the agent's.
LEMMA WriteIssuedStep ==
  ASSUME LifecycleInvariant, WriteIssued
  PROVE  LifecycleInvariant'
<1>1. UNCHANGED <<history, job, actor, troubles>>
  BY DEF WriteIssued
<1>2. RowMirrors'
  BY <1>1, StaleWrite, Present DEF RowMirrors
<1>3. ActorsAsk' /\ RevocationIsLast' /\ row' \in Rows
  BY <1>1, StaleWrite, Present DEF ActorsAsk, RevocationIsLast
<1>. QED  BY <1>1, <1>2, <1>3, Present DEF LifecycleInvariant, LifecycleTypeOK

\* Steps that change jobs, and nothing of the agent or the row.
LEMMA JobSteps ==
  ASSUME LifecycleInvariant, UNCHANGED <<history, row>>,
         job' \in [Revisions -> Jobs], troubles' \in 0 .. MaxTroubles,
         actor' \in [Actors -> ActorRecords] /\ ActorsAsk'
  PROVE  LifecycleInvariant'
BY Present DEF LifecycleInvariant, LifecycleTypeOK, RevocationIsLast, RowMirrors

\* A queued revocation asks nothing of the agent yet.
LEMMA QueueRevocationStep ==
  ASSUME LifecycleInvariant, QueueRevocation
  PROVE  LifecycleInvariant'
<1>1. /\ UNCHANGED <<history, row, actor, troubles>>
      /\ job' = [job EXCEPT ![0] = [job[0] EXCEPT !.status = "PENDING"]]
  BY DEF QueueRevocation
<1>2. \A j \in Revisions : [job[j] EXCEPT !.status = "PENDING"] \in Jobs
  BY Present DEF Jobs
<1>3. job' \in [Revisions -> Jobs]
  BY <1>1, <1>2, Present
<1>4. ActorsAsk'
  BY <1>1, Present DEF ActorsAsk
<1>. QED  BY <1>1, <1>3, <1>4, Present, JobSteps

\* A lease that lapses or is overrun changes no request.
LEMMA LeaseSteps ==
  ASSUME LifecycleInvariant, NEW j \in Revisions, LapseLease(j) \/ Overrun(j)
  PROVE  LifecycleInvariant'
<1>1. /\ UNCHANGED <<history, row, actor>>
      /\ job' = [job EXCEPT ![j] = [job[j] EXCEPT !.lease = "LAPSED"]]
  BY DEF LapseLease, Overrun
<1>2. troubles' \in 0 .. MaxTroubles
  BY Present, OneMoreTrouble DEF LapseLease, Overrun
<1>3. [job[j] EXCEPT !.lease = "LAPSED"] \in Jobs
  BY Present DEF Jobs
<1>4. job' \in [Revisions -> Jobs]
  BY <1>1, <1>3, Present
<1>5. ActorsAsk'
  BY <1>1, Present DEF ActorsAsk
<1>. QED  BY <1>1, <1>2, <1>4, <1>5, Present, JobSteps

\* A run that takes a job, due or failed, works on it from the start.
LEMMA TakenJob ==
  ASSUME LifecycleInvariant, NEW w \in Workers, NEW j \in Revisions,
         NEW n \in 0 .. MaxAttempts, UNCHANGED history,
         Become(w, [Idle EXCEPT !.phase = "EXECUTING", !.job = j, !.attempt = n])
  PROVE  actor' \in [Actors -> ActorRecords] /\ ActorsAsk'
<1> DEFINE rec == [Idle EXCEPT !.phase = "EXECUTING", !.job = j, !.attempt = n]
<1>1. w \in Actors
  BY DEF Actors
<1>2. rec \in ActorRecords
  BY IdleTyped DEF ActorRecords
<1>3. rec.phase = "EXECUTING" /\ rec.job = j
  BY DEF Idle
<1>4. RequestOK(w, rec, Len(history'))
  BY <1>3 DEF RequestOK
<1>5. Become(w, rec)
  OBVIOUS
<1>. HIDE DEF rec
<1>. QED  BY <1>1, <1>2, <1>4, <1>5, Present, BecomeStep

\* A worker claims a job without having asked for it.
LEMMA ClaimStep ==
  ASSUME LifecycleInvariant, NEW w \in Workers, NEW j \in Revisions, Claim(w, j)
  PROVE  LifecycleInvariant'
<1>1. NextAttempt(j) \in 0 .. MaxAttempts
  <2>1. job[j].attempts \in 0 .. MaxAttempts
    BY Present DEF Jobs
  <2>. QED  BY <2>1, LifecycleAssumption DEF NextAttempt
<1>2. /\ UNCHANGED <<history, row, troubles>>
      /\ job' = [job EXCEPT ![j] = [job[j] EXCEPT !.status = "PROCESSING", !.lease = "HELD",
                                                  !.attempts = NextAttempt(j)]]
      /\ Become(w, [Idle EXCEPT !.phase = "EXECUTING", !.job = j,
                                !.attempt = NextAttempt(j)])
  <2>1. job \in [Revisions -> Jobs]
    BY Present
  <2>. QED  BY <2>1 DEF Claim
<1>3. [job[j] EXCEPT !.status = "PROCESSING", !.lease = "HELD",
                     !.attempts = NextAttempt(j)] \in Jobs
  BY <1>1, Present DEF Jobs
<1>4. job' \in [Revisions -> Jobs]
  BY <1>2, <1>3, Present
<1>5. actor' \in [Actors -> ActorRecords] /\ ActorsAsk'
  BY <1>1, <1>2, TakenJob
<1>. QED  BY <1>2, <1>4, <1>5, Present, JobSteps

\* A job that is taken up again asks for the same suspension.
LEMMA RetryJobStep ==
  ASSUME LifecycleInvariant, NEW w \in Workers, NEW j \in Revisions, RetryJob(w, j)
  PROVE  LifecycleInvariant'
<1>1. 1 \in 0 .. MaxAttempts
  BY LifecycleAssumption
<1>2. /\ UNCHANGED <<history, row>>
      /\ job' = [job EXCEPT ![j] = [job[j] EXCEPT !.status = "PROCESSING", !.attempts = 1,
                                                  !.byHand = TRUE]]
      /\ Become(w, [Idle EXCEPT !.phase = "EXECUTING", !.job = j, !.attempt = 1])
  <2>1. job \in [Revisions -> Jobs]
    BY Present
  <2>. QED  BY <2>1 DEF RetryJob
<1>3. troubles' \in 0 .. MaxTroubles
  BY OneMoreTrouble DEF RetryJob
<1>4. [job[j] EXCEPT !.status = "PROCESSING", !.attempts = 1, !.byHand = TRUE] \in Jobs
  BY <1>1, Present DEF Jobs
<1>5. job' \in [Revisions -> Jobs]
  BY <1>2, <1>4, Present
<1>6. actor' \in [Actors -> ActorRecords] /\ ActorsAsk'
  BY <1>1, <1>2, TakenJob
<1>. QED  BY <1>2, <1>3, <1>5, <1>6, JobSteps

\* A worker asks only for the suspension of its job, or finds it over.
LEMMA ExecuteStep ==
  ASSUME LifecycleInvariant, NEW w \in Workers, Execute(w)
  PROVE  LifecycleInvariant'
<1> DEFINE action == IF actor[w].job = 0 THEN "revoke" ELSE "reactivate"
           expected == IF actor[w].job = 0 THEN NULL ELSE row.revision
           rec == [actor[w] EXCEPT !.phase = "REQUESTING", !.action = action,
                                   !.expected = expected]
<1>1. /\ w \in Actors /\ actor[w] \in ActorRecords /\ RequestOK(w, actor[w], Len(history))
      /\ actor[w].phase = "EXECUTING" /\ UNCHANGED <<history, row, job, troubles>>
  BY Present DEF Actors, ActorsAsk, Execute
<1>2. actor[w].job \in Revisions
  BY <1>1 DEF RequestOK
<1>3. \/ \E outcome \in {"SUCCEEDED", "CANCELLED", "FAILED"} : EndRequest(w, outcome)
      \/ Become(w, rec) /\ (actor[w].job = 0 \/ row.revision = actor[w].job)
  BY DEF Execute
<1>4. CASE \E outcome \in {"SUCCEEDED", "CANCELLED", "FAILED"} : EndRequest(w, outcome)
  BY <1>1, <1>4, Present, EndedRequest, ActorSteps
<1>5. CASE Become(w, rec) /\ (actor[w].job = 0 \/ row.revision = actor[w].job)
  <2>1. expected \in Revisions \cup {NULL} /\ action \in Actions
    BY Present DEF Rows, Actions
  <2>2. rec \in ActorRecords
    BY <1>1, <2>1 DEF ActorRecords
  <2>3. /\ rec.phase = "REQUESTING" /\ rec.action = action
        /\ rec.expected = expected /\ rec.job = actor[w].job
    BY <1>1 DEF ActorRecords
  <2>4. action = "reactivate" => expected = actor[w].job
    BY <1>5
  <2>. HIDE DEF rec, action, expected
  <2>5. RequestOK(w, rec, Len(history))
    BY <1>2, <2>1, <2>3, <2>4 DEF RequestOK
  <2>6. actor' \in [Actors -> ActorRecords] /\ ActorsAsk'
    BY <1>1, <1>5, <2>2, <2>5, Present, BecomeStep
  <2>. QED  BY <1>1, <2>6, Present, ActorSteps
<1>. QED  BY <1>3, <1>4, <1>5

\* What a worker reports of its job asks nothing of the agent.
LEMMA ReportStep ==
  ASSUME LifecycleInvariant, NEW w \in Workers, Report(w)
  PROVE  LifecycleInvariant'
<1> DEFINE status == IF actor[w].outcome # "FAILED" THEN actor[w].outcome
                     ELSE IF actor[w].attempt >= MaxAttempts THEN "FAILED" ELSE "PENDING"
           j == actor[w].job
<1>1. /\ w \in Actors /\ RequestOK(w, actor[w], Len(history))
      /\ actor[w].phase = "REPORTING"
  BY Present DEF Actors, ActorsAsk, Report
<1>2. j \in Revisions /\ status \in {"SUCCEEDED", "CANCELLED", "FAILED", "PENDING"}
  BY <1>1 DEF RequestOK
<1>3. /\ UNCHANGED <<history, row, troubles>> /\ Become(w, Idle)
      /\ job' = [job EXCEPT ![j] = [job[j] EXCEPT !.status = status, !.lease = "NONE"]]
  <2>1. job \in [Revisions -> Jobs]
    BY Present
  <2>. QED  BY <1>2, <2>1 DEF Report
<1>. HIDE DEF status, j
<1>4. [job[j] EXCEPT !.status = status, !.lease = "NONE"] \in Jobs
  BY <1>2, Present DEF Jobs
<1>5. job' \in [Revisions -> Jobs]
  BY <1>2, <1>3, <1>4, Present
<1>. QED  BY <1>1, <1>3, <1>5, Present, IdleStep, JobSteps

\* A crash leaves what the agent decided and what the portal stored.
LEMMA CrashStep ==
  ASSUME LifecycleInvariant, NEW a \in Actors, Crash(a)
  PROVE  LifecycleInvariant'
<1>1. Become(a, Idle) /\ UNCHANGED <<history, row, job>> /\ troubles' \in 0 .. MaxTroubles
  BY OneMoreTrouble DEF Crash
<1>. QED  BY <1>1, IdleStep, ActorSteps

\* Nothing is asked or decided at first.
LEMMA InitialInvariant == LifecycleInit => LifecycleInvariant
<1> SUFFICES ASSUME LifecycleInit PROVE LifecycleInvariant
  OBVIOUS
<1>1. /\ history = <<>> /\ row = Offered /\ troubles = 0
      /\ job = [r \in Revisions |-> NoJob] /\ actor = [a \in Actors |-> Idle]
  BY DEF LifecycleInit
<1>2. Offered \in Rows
  <2>1. 0 \in Revisions
    BY LifecycleAssumption DEF Revisions
  <2>. QED  BY <2>1 DEF Offered, Rows
<1>3. history \in Seq(Statuses) /\ Len(history) = 0
  BY <1>1
<1>4. troubles \in 0 .. MaxTroubles /\ Len(history) <= MaxRevision
  BY <1>1, <1>3, LifecycleAssumption
<1>5. LifecycleTypeOK
  BY <1>1, <1>2, <1>3, <1>4, IdleTyped DEF LifecycleTypeOK
<1>6. RowMirrors
  BY <1>1, <1>3 DEF RowMirrors, Offered
<1>7. ActorsAsk
  BY <1>1 DEF ActorsAsk, RequestOK, Idle
<1>. QED  BY <1>1, <1>3, <1>5, <1>6, <1>7 DEF LifecycleInvariant, RevocationIsLast

\* Every step keeps the invariant.
LEMMA InvariantStep == LifecycleInvariant /\ [LifecycleNext]_lifecycleVars => LifecycleInvariant'
<1> SUFFICES ASSUME LifecycleInvariant, [LifecycleNext]_lifecycleVars
             PROVE  LifecycleInvariant'
  OBVIOUS
<1>1. ASSUME NEW a \in Admins, NEW action \in Actions, NEW scheduled \in BOOLEAN,
             StartRequest(a, action, scheduled)
      PROVE  LifecycleInvariant'
  BY <1>1, StartRequestStep
<1>2. ASSUME NEW a \in Actors,
             AskAgent(a) \/ AgentRepeats(a) \/ PersistAnswer(a) \/ AgentFails(a) \/ Crash(a)
      PROVE  LifecycleInvariant'
  BY <1>2, AskAgentStep, AgentRepeatsStep, PersistAnswerStep, AgentFailsStep, CrashStep
<1>3. ASSUME NEW w \in Workers, Execute(w) \/ RequestForJob(w) \/ Report(w)
      PROVE  LifecycleInvariant'
  BY <1>3, ExecuteStep, RequestForJobStep, ReportStep
<1>4. ASSUME NEW w \in Workers, NEW j \in Revisions, Claim(w, j) \/ RetryJob(w, j)
      PROVE  LifecycleInvariant'
  BY <1>4, ClaimStep, RetryJobStep
<1>5. ASSUME NEW r \in Revisions, ReceiveLifecycleEvent(r) \/ LapseLease(r) \/ Overrun(r)
      PROVE  LifecycleInvariant'
  BY <1>5, ReceiveLifecycleEventStep, LeaseSteps
<1>6. CASE QueueRevocation \/ WriteIssued
  BY <1>6, QueueRevocationStep, WriteIssuedStep
<1>7. CASE UNCHANGED lifecycleVars
  BY <1>7 DEF lifecycleVars, LifecycleInvariant, LifecycleTypeOK, RevocationIsLast,
              RowMirrors, ActorsAsk
<1>. QED  BY <1>1, <1>2, <1>3, <1>4, <1>5, <1>6, <1>7 DEF LifecycleNext, WorkerStep, Actors

\* The strengthened invariant holds in every reachable state.
THEOREM LifecycleInvariantHolds == LifecycleSpec => []LifecycleInvariant
BY InitialInvariant, InvariantStep, PTL DEF LifecycleSpec

-----------------------------------------------------------------------------
(* What follows for the properties. *)

\* Every step leaves the credential as it is shown, is a transition of the agent,
\* or shows a later transition.
LEMMA StepKinds ==
  ASSUME LifecycleInvariant, [LifecycleNext]_lifecycleVars
  PROVE  /\ row.status = "REVOKED" => row'.status = "REVOKED"
         /\ \/ /\ UNCHANGED history /\ row'.revision = row.revision
               /\ row.revision # 0 => row'.lifecycle = row.lifecycle
            \/ /\ UNCHANGED row
               /\ history # <<>> => history[Len(history)] # "REVOKED"
               /\ \E s \in Statuses : history' = Append(history, s)
            \/ /\ UNCHANGED history
               /\ \E r \in row.revision + 1 .. Len(history) :
                    row'.revision = r /\ row'.lifecycle = history[r]
<1>1. CASE UNCHANGED <<history, row>>
  BY <1>1
<1>2. ASSUME NEW a \in Actors, AskAgent(a) \/ AgentFails(a), history' # history
      PROVE  /\ UNCHANGED row
             /\ history # <<>> => history[Len(history)] # "REVOKED"
             /\ \E s \in Statuses : history' = Append(history, s)
  <2>1. RequestOK(a, actor[a], Len(history)) /\ actor[a].phase = "ASKING"
    BY <1>2, Present DEF ActorsAsk, AskAgent, AgentFails
  <2>2. Target(actor[a].action) \in Statuses
    BY <2>1 DEF RequestOK, Target, Actions, Statuses
  <2>3. /\ UNCHANGED row /\ AgentAccepts(a)
        /\ history' = Append(history, Target(actor[a].action))
    BY <1>2 DEF AskAgent, AgentFails
  <2>. QED  BY <2>2, <2>3 DEF AgentAccepts, AgentStatus, Latest
<1>3. ASSUME NEW r \in 1 .. Len(history), NEW scheduled \in BOOLEAN,
             Persist(r, scheduled), UNCHANGED history
      PROVE  /\ row.status = "REVOKED" => row'.status = "REVOKED"
             /\ \/ UNCHANGED row
                \/ \E q \in row.revision + 1 .. Len(history) :
                     row'.revision = q /\ row'.lifecycle = history[q]
  <2>1. \/ row' = row
        \/ /\ r > row.revision /\ row'.revision = r /\ row'.lifecycle = history[r]
           /\ row'.status = (IF history[r] = "REVOKED" THEN "REVOKED" ELSE "ISSUED")
    BY <1>3, PersistStep
  <2>2. row.status = "REVOKED" => row.revision = Len(history)
    <3>1. ASSUME row.status = "REVOKED" PROVE row.revision \in 1 .. Len(history)
      BY <3>1, Present DEF RowMirrors
    <3>2. ASSUME row.status = "REVOKED" PROVE history[row.revision] = "REVOKED"
      BY <3>1, <3>2, Present DEF RowMirrors
    <3>. QED  BY <3>1, <3>2, Present DEF RevocationIsLast
  <2>. QED  BY <2>1, <2>2, Present
<1>4. ASSUME NEW a \in Actors, PersistAnswer(a)
      PROVE  /\ UNCHANGED history /\ actor[a].answer \in 1 .. Len(history)
             /\ Persist(actor[a].answer, actor[a].scheduled)
             /\ actor[a].scheduled \in BOOLEAN
  <2>1. /\ RequestOK(a, actor[a], Len(history)) /\ actor[a].phase = "PERSISTING"
        /\ actor[a] \in ActorRecords
    BY <1>4, Present DEF ActorsAsk, PersistAnswer
  <2>. QED  BY <1>4, <2>1 DEF RequestOK, PersistAnswer, ActorRecords
<1>5. ASSUME NEW r \in Revisions, ReceiveLifecycleEvent(r)
      PROVE  UNCHANGED history /\ r \in 1 .. Len(history) /\ Persist(r, FALSE)
  BY <1>5 DEF ReceiveLifecycleEvent, Latest
<1>6. CASE WriteIssued
  BY <1>6, StaleWrite DEF WriteIssued
<1>7. \/ UNCHANGED <<history, row>>
      \/ \E a \in Actors : (AskAgent(a) \/ AgentFails(a)) /\ history' # history
      \/ \E a \in Actors : PersistAnswer(a)
      \/ \E r \in Revisions : ReceiveLifecycleEvent(r)
      \/ WriteIssued
  BY DEF LifecycleNext, WorkerStep, Actors, lifecycleVars, StartRequest, AskAgent,
         AgentRepeats, AgentFails, Crash, Execute, RequestForJob, Report, Claim,
         RetryJob, LapseLease, Overrun, QueueRevocation
<1>. QED  BY <1>1, <1>2, <1>3, <1>4, <1>5, <1>6, <1>7

\* The portal's row implements the mirror of the agent's decisions, whatever the
\* order of answers, events and stale writes.
THEOREM MirrorImplemented == LifecycleSpec => ImplementsMirror
<1>1. LifecycleInit => Mirror!MirrorInit
  BY DEF LifecycleInit, Offered, Mirror!MirrorInit
<1>2. LifecycleInvariant /\ [LifecycleNext]_lifecycleVars
        => [Mirror!MirrorNext]_Mirror!mirrorVars
  <2> SUFFICES ASSUME LifecycleInvariant, [LifecycleNext]_lifecycleVars
               PROVE  [Mirror!MirrorNext]_Mirror!mirrorVars
    OBVIOUS
  <2>1. CASE /\ UNCHANGED history /\ row'.revision = row.revision
             /\ row.revision # 0 => row'.lifecycle = row.lifecycle
    BY <2>1 DEF Mirror!mirrorVars
  <2>2. CASE /\ UNCHANGED row
             /\ history # <<>> => history[Len(history)] # "REVOKED"
             /\ \E s \in Statuses : history' = Append(history, s)
    BY <2>2 DEF Mirror!MirrorNext, Mirror!Decide, Mirror!Terminal
  <2>3. CASE /\ UNCHANGED history
             /\ \E r \in row.revision + 1 .. Len(history) :
                  row'.revision = r /\ row'.lifecycle = history[r]
    <3>1. PICK r \in row.revision + 1 .. Len(history) :
            row'.revision = r /\ row'.lifecycle = history[r]
      BY <2>3
    <3>2. r # 0
      BY <3>1, Present
    <3>. QED  BY <2>3, <3>1, <3>2 DEF Mirror!MirrorNext, Mirror!Show
  <2>. QED  BY <2>1, <2>2, <2>3, StepKinds
<1>. QED  BY <1>1, <1>2, LifecycleInvariantHolds, PTL
          DEF LifecycleSpec, ImplementsMirror, Mirror!MirrorSpec

\* Nothing that the portal writes takes back a revocation.
THEOREM RevocationStays == LifecycleSpec => RevokedStaysRevoked
<1>1. LifecycleInvariant /\ [LifecycleNext]_lifecycleVars
        => [row.status = "REVOKED" => row'.status = "REVOKED"]_lifecycleVars
  BY StepKinds
<1>. QED  BY <1>1, LifecycleInvariantHolds, PTL DEF LifecycleSpec, RevokedStaysRevoked

\* A job ends the suspension that it was made for, and no later one.
THEOREM JobEndsItsSuspension == LifecycleSpec => ReactivatesItsSuspension
<1> DEFINE Bound(w) ==
      /\ actor[w].phase = "ASKING" /\ actor[w].action = "reactivate"
      /\ history' # history /\ actor'[w] # actor[w]
      => Latest = actor[w].job
<1>1. ASSUME LifecycleInvariant, [LifecycleNext]_lifecycleVars, NEW w \in Workers
      PROVE  Bound(w)
  <2> SUFFICES ASSUME actor[w].phase = "ASKING", actor[w].action = "reactivate",
                      history' # history, actor'[w] # actor[w]
               PROVE  Latest = actor[w].job
    OBVIOUS
  <2>1. PICK a \in Actors : AskAgent(a) \/ AgentFails(a)
    BY <1>1 DEF LifecycleNext, WorkerStep, Actors, lifecycleVars, StartRequest,
         AgentRepeats, Crash, Execute, RequestForJob, Report, Claim, RetryJob,
         LapseLease, Overrun, QueueRevocation, PersistAnswer, ReceiveLifecycleEvent,
         WriteIssued
  <2>2. AgentAccepts(a)
    BY <2>1 DEF AskAgent, AgentFails
  <2>3. a = w
    <3>1. \E rec : actor' = [actor EXCEPT ![a] = rec]
      BY <2>1 DEF AskAgent, AgentFails, AgentAnswers, EndRequest, Become
    <3>. QED  BY <1>1, <3>1, Present DEF Actors
  <2>4. RequestOK(w, actor[w], Len(history))
    BY <1>1, Present DEF ActorsAsk, Actors
  <2>5. actor[w].expected = actor[w].job /\ actor[w].job \in Revisions
    BY <2>4 DEF RequestOK
  <2>6. NULL \notin Revisions
    BY LifecycleAssumption DEF Revisions
  <2>. QED  BY <2>2, <2>3, <2>5, <2>6 DEF AgentAccepts
<1>2. LifecycleInvariant /\ [LifecycleNext]_lifecycleVars
        => [\A w \in Workers : Bound(w)]_lifecycleVars
  BY <1>1
<1>. QED  BY <1>2, LifecycleInvariantHolds, PTL DEF LifecycleSpec, ReactivatesItsSuspension

-----------------------------------------------------------------------------
(* Batches of offers. *)

\* While outcomes are recorded, only the latest pass works, on items that have no
\* outcome yet, and an item has one as soon as its worker is done.
BatchRecorded ==
  /\ stage \in {"IDLE", "RESETTING", "DUE", "WORKING"}
  /\ run = "NONE" => stage = "IDLE" /\ \A s \in Students : attempt[s] = "NONE"
  /\ run \in RunFinal => stage = "IDLE"
  /\ stage = "DUE" => \A s \in Students : item[s] \notin ItemFailed
  /\ \A p \in Passes, s \in Students :
       /\ worker[p][s] # "IDLE" => p = pass /\ stage = "WORKING" /\ item[s] = "PENDING"
       /\ worker[p][s] = "RECORD" => offer[s] = "DELIVERED"
  /\ stage = "WORKING" =>
       \A s \in Students : item[s] = "PENDING" => worker[pass][s] # "IDLE"

BatchInvariant ==
  /\ BatchTypeOK
  /\ OutcomesAreTrue
  /\ faults = 0 => BatchRecorded
  /\ stage = "RESETTING" => pass < MaxRetries

\* A batch that is not saved yet has nothing to tell.
LEMMA BatchInitially == BatchInit => BatchInvariant
BY BatchAssumption
DEF BatchInit, BatchInvariant, BatchTypeOK, OutcomesAreTrue, BatchRecorded, Some, RunFinal,
    ItemFailed, Retryable, Passes

\* What one statement for an item may do: its worker goes on, and the item, its
\* attempt and its offer change together with it.
LEMMA ItemStepTyped ==
  ASSUME BatchTypeOK, NEW p \in Passes, NEW s \in Students, ItemStep(p, s)
  PROVE  BatchTypeOK'
<1>. USE BatchAssumption
<1>1. ASSUME NEW from, NEW to \in {"IDLE", "TODO", "PREPARE", "DELIVER", "RESUME", "SAVE",
                                   "LINK", "MAIL", "RECORD", "CAUGHT"}, Turn(p, s, from, to)
      PROVE  worker' \in [Passes -> [Students ->
               {"IDLE", "TODO", "PREPARE", "DELIVER", "RESUME", "SAVE", "LINK", "MAIL",
                "RECORD", "CAUGHT"}]]
  BY <1>1 DEF Turn, BatchTypeOK
<1>2. \E from : \E to \in {"IDLE", "TODO", "PREPARE", "DELIVER", "RESUME", "SAVE", "LINK",
                           "MAIL", "RECORD", "CAUGHT"} : Turn(p, s, from, to)
  BY DEF ItemStep, CheckItem, PrepareItem, ResumeOffer, RequestOffer, SaveOffer, LinkOffer,
     SendOffer, FailSending, RecordDelivery, FailItem, RecordFailure, LoseRecord, Resumed
<1>3. UNCHANGED <<run, pass, active, stops>>
  BY <1>2 DEF Turn
<1>4. stage' \in {"IDLE", "RESETTING", "DUE", "WORKING", "ABORTED", "CLOSING"}
      /\ faults' \in 0 .. MaxFaults
  BY DEF ItemStep, CheckItem, PrepareItem, ResumeOffer, RequestOffer, SaveOffer, LinkOffer,
     SendOffer, FailSending, RecordDelivery, FailItem, RecordFailure, LoseRecord, BatchTypeOK
<1>5. /\ item' \in [Students -> {"NONE", "SKIPPED", "DELIVERED"} \cup Retryable]
      /\ attempt' \in [Students -> {"NONE", "PREPARED", "LINKED"}]
      /\ offer' \in [Students -> {"NONE", "AT_AGENT", "SAVED", "FAILED", "DELIVERED"}]
  BY DEF ItemStep, CheckItem, PrepareItem, ResumeOffer, RequestOffer, SaveOffer, LinkOffer,
     SendOffer, FailSending, RecordDelivery, FailItem, RecordFailure, LoseRecord, BatchTypeOK,
     Retryable, ItemFailed
<1>. QED  BY <1>1, <1>2, <1>3, <1>4, <1>5 DEF BatchTypeOK

\* A statement for an item tells the truth about it.
LEMMA ItemStepTrue ==
  ASSUME BatchInvariant, NEW p \in Passes, NEW s \in Students, ItemStep(p, s), faults' = 0
  PROVE  OutcomesAreTrue' /\ BatchRecorded'
<1>1. faults = 0 /\ BatchRecorded /\ BatchTypeOK /\ ~ LoseRecord(p, s)
  BY BatchAssumption
  DEF BatchInvariant, BatchTypeOK, ItemStep, CheckItem, PrepareItem, ResumeOffer, RequestOffer,
      SaveOffer, LinkOffer, SendOffer, FailSending, RecordDelivery, FailItem, RecordFailure,
      LoseRecord
<1>2. PICK from, to : from # "IDLE" /\ Turn(p, s, from, to)
  BY <1>1
  DEF ItemStep, CheckItem, PrepareItem, ResumeOffer, RequestOffer, SaveOffer, LinkOffer,
      SendOffer, FailSending, RecordDelivery, FailItem, RecordFailure
<1>3. worker[p][s] # "IDLE" /\ p = pass /\ stage = "WORKING" /\ item[s] = "PENDING"
  BY <1>1, <1>2 DEF Turn, BatchRecorded
<1>4. /\ UNCHANGED <<run, pass, active, stops, stage>>
      /\ run # "NONE" /\ run \notin RunFinal
  <2>1. UNCHANGED <<run, pass, active, stops>>
    BY <1>2 DEF Turn
  <2>2. UNCHANGED stage
    BY <1>1 DEF ItemStep, CheckItem, PrepareItem, ResumeOffer, RequestOffer, SaveOffer,
       LinkOffer, SendOffer, FailSending, RecordDelivery, FailItem, RecordFailure
  <2>. QED  BY <1>1, <1>3, <2>1, <2>2 DEF BatchRecorded
<1>5. /\ \A x \in Students : x # s => /\ item'[x] = item[x] /\ attempt'[x] = attempt[x]
                                      /\ offer'[x] = offer[x]
      /\ worker' = [worker EXCEPT ![p][s] = worker'[p][s]]
  BY <1>1
  DEF BatchTypeOK, ItemStep, CheckItem, PrepareItem, ResumeOffer, RequestOffer, SaveOffer,
      LinkOffer, SendOffer, FailSending, RecordDelivery, FailItem, RecordFailure, Turn
<1>6. /\ \A q \in Passes, x \in Students :
           q # p \/ x # s => worker'[q][x] = worker[q][x]
  BY <1>1, <1>5 DEF BatchTypeOK
<1>7. /\ item'[s] = "DELIVERED" => offer'[s] = "DELIVERED"
      /\ item'[s] = "DELIVERY_FAILED" => attempt'[s] = "LINKED"
      /\ item'[s] = "FAILED" => attempt'[s] # "LINKED"
      /\ item'[s] = "SKIPPED" => attempt'[s] = "NONE"
      /\ worker'[p][s] = "RECORD" => offer'[s] = "DELIVERED"
      /\ worker'[p][s] # "IDLE" <=> item'[s] = "PENDING"
  BY <1>1, <1>3
  DEF BatchTypeOK, BatchRecorded, ItemStep, CheckItem, PrepareItem, ResumeOffer, RequestOffer,
      SaveOffer, LinkOffer, SendOffer, FailSending, RecordDelivery, FailItem, RecordFailure,
      Turn, Resumed
<1>8. OutcomesAreTrue'
  BY <1>1, <1>4, <1>5, <1>7 DEF OutcomesAreTrue, BatchInvariant
<1>9. BatchRecorded'
  BY <1>1, <1>3, <1>4, <1>5, <1>6, <1>7 DEF BatchRecorded
<1>. QED  BY <1>8, <1>9

\* The statements that begin, end and retry a pass tell the truth about the batch.
LEMMA BatchStep ==
  ASSUME BatchInvariant, [BatchNext]_batchVars
  PROVE  BatchInvariant'
<1>. USE BatchAssumption
<1>1. CASE UNCHANGED batchVars
  BY <1>1
  DEF batchVars, BatchInvariant, BatchTypeOK, OutcomesAreTrue, BatchRecorded, Some
<1>2. CASE CreateBatch
  BY <1>2
  DEF CreateBatch, BatchInvariant, BatchTypeOK, OutcomesAreTrue, BatchRecorded, Some, RunFinal,
      ItemFailed, Retryable, Passes
<1>3. CASE RetryBatch
  BY <1>3
  DEF RetryBatch, BatchInvariant, BatchTypeOK, OutcomesAreTrue, BatchRecorded, Some, RunFinal
<1>4. CASE StartPass
  <2>1. BatchTypeOK'
    BY <1>4 DEF StartPass, BatchInvariant, BatchTypeOK, RunFinal
  <2>2. ASSUME faults' = 0  PROVE OutcomesAreTrue' /\ BatchRecorded'
    <3>1. faults = 0 /\ BatchRecorded /\ OutcomesAreTrue /\ BatchTypeOK
      BY <1>4, <2>2 DEF StartPass, BatchInvariant
    <3>2. UNCHANGED <<pass, item, attempt, offer, active, faults, stops>> /\ stage = "DUE"
      BY <1>4 DEF StartPass
    <3>3. \A q \in Passes, x \in Students : worker[q][x] = "IDLE"
      BY <3>1, <3>2 DEF BatchRecorded
    <3>4. \A q \in Passes, x \in Students :
            worker'[q][x] = IF q = pass /\ x \in Unfinished THEN "TODO" ELSE "IDLE"
      BY <1>4, <3>1, <3>3 DEF StartPass, BatchTypeOK
    <3>5. \A x \in Students : x \in Unfinished <=> item[x] = "PENDING"
      BY <3>1, <3>2 DEF BatchRecorded, Unfinished, Retryable
    <3>6. \/ run' = "COMPLETED" /\ stage' = "IDLE" /\ Unfinished = {}
          \/ run' = "PROCESSING" /\ stage' = "WORKING"
      BY <1>4 DEF StartPass
    <3>7. OutcomesAreTrue'
      BY <3>1, <3>2, <3>5, <3>6
      DEF OutcomesAreTrue, BatchRecorded, Some, RunFinal, Unfinished
    <3>. QED  BY <3>1, <3>2, <3>4, <3>5, <3>6, <3>7 DEF BatchRecorded, RunFinal, BatchTypeOK
  <2>3. stage' # "RESETTING"
    BY <1>4 DEF StartPass
  <2>. QED  BY <2>1, <2>2, <2>3 DEF BatchInvariant, OutcomesAreTrue
<1>5. CASE FinishPass
  BY <1>5
  DEF FinishPass, BatchInvariant, BatchTypeOK, OutcomesAreTrue, BatchRecorded, Some, RunFinal,
      ItemFailed, Outcome
<1>6. CASE ResetItems
  <2>1. BatchTypeOK'
    <3>1. pass' \in Passes
      BY <1>6 DEF ResetItems, BatchInvariant, BatchTypeOK, Passes
    <3>2. item' \in [Students -> {"NONE", "SKIPPED", "DELIVERED"} \cup Retryable]
      BY <1>6 DEF ResetItems, BatchInvariant, BatchTypeOK, Retryable, ItemFailed
    <3>. QED  BY <1>6, <3>1, <3>2 DEF ResetItems, BatchInvariant, BatchTypeOK
  <2>2. ASSUME faults' = 0  PROVE OutcomesAreTrue' /\ BatchRecorded'
    BY <1>6, <2>2
    DEF ResetItems, BatchInvariant, BatchTypeOK, OutcomesAreTrue, BatchRecorded, ItemFailed
  <2>3. stage' # "RESETTING"
    BY <1>6 DEF ResetItems
  <2>. QED  BY <2>1, <2>2, <2>3 DEF BatchInvariant, OutcomesAreTrue
<1>7. CASE FailItems \/ CloseRun
  BY <1>7
  DEF FailItems, CloseRun, BatchInvariant, BatchTypeOK, OutcomesAreTrue, BatchRecorded,
      RunFinal, Retryable, ItemFailed
<1>8. CASE AbortPass
  BY <1>8 DEF AbortPass, BatchInvariant, BatchTypeOK, OutcomesAreTrue
<1>9. CASE StopProcess
  BY <1>9
  DEF StopProcess, BatchInvariant, BatchTypeOK, OutcomesAreTrue, BatchRecorded, Some
<1>10. ASSUME NEW s \in Students, OfferElsewhere(s)  PROVE BatchInvariant'
  BY <1>10
  DEF OfferElsewhere, BatchInvariant, BatchTypeOK, OutcomesAreTrue, BatchRecorded, Some
<1>11. ASSUME NEW p \in Passes, NEW s \in Students, ItemStep(p, s)  PROVE BatchInvariant'
  <2>1. BatchTypeOK'
    BY <1>11, ItemStepTyped DEF BatchInvariant
  <2>2. faults' = 0 => OutcomesAreTrue' /\ BatchRecorded'
    BY <1>11, ItemStepTrue
  <2>3. pass' = pass /\ stage' \in {stage, "ABORTED"}
    BY <1>11
    DEF ItemStep, CheckItem, PrepareItem, ResumeOffer, RequestOffer, SaveOffer, LinkOffer,
        SendOffer, FailSending, RecordDelivery, FailItem, RecordFailure, LoseRecord, Turn
  <2>. QED  BY <2>1, <2>2, <2>3 DEF BatchInvariant, OutcomesAreTrue
<1>. QED
  BY <1>1, <1>2, <1>3, <1>4, <1>5, <1>6, <1>7, <1>8, <1>9, <1>10, <1>11
  DEF BatchNext, BackgroundStep

\* Without a fault, only the latest pass works, and on items without an outcome.
THEOREM BatchInvariantHolds == BatchSpec => []BatchInvariant
BY BatchInitially, BatchStep, PTL DEF BatchSpec

\* While the database records outcomes, a finished batch and its items say what
\* became of the offers, whatever was lost, resumed, retried or stopped.
THEOREM BatchTellsTheTruth == BatchSpec => []OutcomesAreTrue
BY BatchInvariantHolds, PTL DEF BatchInvariant
=============================================================================
