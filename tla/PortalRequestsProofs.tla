------------------------ MODULE PortalRequestsProofs ------------------------
(***************************************************************************)
(* Theorems about the components that make or answer concurrent requests   *)
(* and share no state: VendorVerifications, WalletSessions,                *)
(* VendorOnboarding, Invitations, RefundRecovery and                       *)
(* VerificationSuspension.  Each holds for every set of handlers, clients, *)
(* branches, accepters, tabs and workers, and for every bound.             *)
(***************************************************************************)
EXTENDS VendorVerifications, WalletSessions, VendorOnboarding, Invitations, RefundRecovery,
        VerificationSuspension, FiniteSetTheorems, SequenceTheorems, TLAPS

(***************************************************************************)
(* What replacing or appending an element does to a table that is a        *)
(* sequence of rows.                                                       *)
(***************************************************************************)

\* Replacing a row.
LEMMA RowReplaced ==
  ASSUME NEW S, NEW table \in Seq(S), NEW i \in DOMAIN table, NEW e \in S
  PROVE  /\ [table EXCEPT ![i] = e] \in Seq(S)
         /\ DOMAIN [table EXCEPT ![i] = e] = DOMAIN table
         /\ Len([table EXCEPT ![i] = e]) = Len(table)
         /\ [table EXCEPT ![i] = e][i] = e
         /\ \A j \in DOMAIN table \ {i} : [table EXCEPT ![i] = e][j] = table[j]
<1>1. DOMAIN table = 1 .. Len(table) /\ i \in 1 .. Len(table)
  BY LenProperties
<1>. QED
  BY <1>1, ExceptSeq

\* Appending a row.
LEMMA RowAppended ==
  ASSUME NEW S, NEW table \in Seq(S), NEW e \in S
  PROVE  /\ Append(table, e) \in Seq(S)
         /\ DOMAIN Append(table, e) = DOMAIN table \cup {Len(table) + 1}
         /\ Len(Append(table, e)) = Len(table) + 1
         /\ Append(table, e)[Len(table) + 1] = e
         /\ \A j \in DOMAIN table : Append(table, e)[j] = table[j] /\ j <= Len(table)
         /\ DOMAIN table = 1 .. Len(table) /\ Len(table) \in Nat
<1>1. DOMAIN table = 1 .. Len(table) /\ Len(table) \in Nat
  BY LenProperties
<1>2. /\ Append(table, e) \in Seq(S)
      /\ Len(Append(table, e)) = Len(table) + 1
      /\ \A j \in 1 .. Len(table) : Append(table, e)[j] = table[j]
      /\ Append(table, e)[Len(table) + 1] = e
  BY AppendProperties
<1>3. DOMAIN Append(table, e) = 1 .. Len(table) + 1
  BY <1>2, LenProperties
<1>. QED
  BY <1>1, <1>2, <1>3

(***************************************************************************)
(* VendorVerifications.                                                    *)
(***************************************************************************)

\* An answer, a row or a handler speaks of a decision only if it was made, dates
\* it between then and now, and bills it only if it was an approval.
Justified(v, r) ==
  /\ r.status # "PENDING" => r.status = agent[v].decision
  /\ r.completed # 0 =>
       agent[v].decision # "PENDING" /\ agent[v].completed <= r.completed /\ r.completed <= month
  /\ r.billing = "BILLABLE" => agent[v].decision = "APPROVED" /\ r.completed # 0

AgentsDated ==
  \A v \in Verifications :
    /\ agent[v].completed <= month
    /\ agent[v].decision = "PENDING" => agent[v].completed = 0

RowsJustified == \A v \in Verifications : row[v] # NULL => Justified(v, row[v])

HandlerJustified(r) ==
  r.phase # "IDLE" =>
    /\ r.verification \in Verifications
    /\ Justified(r.verification, r)
    /\ r.kind \in {"POLL", "RECONCILE"} => row[r.verification] # NULL
    /\ r.phase = "ASKING" => r.billing = "PENDING"
    /\ r.phase = "CHARGING" => r.billing = "BILLABLE"

HandlersJustified == \A h \in Handlers : HandlerJustified(handler[h])

VerificationInvariant ==
  ChargesMatchDecisions /\ AgentsDated /\ RowsJustified /\ HandlersJustified

-----------------------------------------------------------------------------

\* No verification exists at first.
LEMMA VerificationInitially == VerificationInit => VerificationInvariant
<1>. SUFFICES ASSUME VerificationInit  PROVE VerificationInvariant
  OBVIOUS
<1>. USE VerificationAssumption DEF VerificationInit
<1>1. Idle \in HandlerRecords
  BY DEF Idle, HandlerRecords, Kinds, Statuses, Proofs, Billings
<1>2. VerificationTypeOK
  BY <1>1 DEF VerificationTypeOK, Agents, Undecided, Statuses, Proofs
<1>3. ChargedIsApproved /\ BillableIsCharged
  BY DEF ChargedIsApproved, BillableIsCharged, Charged
<1>4. AgentsDated /\ RowsJustified /\ HandlersJustified
  BY DEF AgentsDated, Undecided, RowsJustified, HandlersJustified, HandlerJustified, Idle
<1>. QED
  BY <1>2, <1>3, <1>4 DEF VerificationInvariant, ChargesMatchDecisions

\* Time and decisions contradict nothing that was known before.
LEMMA JustifiedStays ==
  ASSUME VerificationInvariant, NEW v \in Verifications,
         NEW r \in Rows \cup HandlerRecords, Justified(v, r),
         NextMonth \/ (\E u \in Verifications, d \in {"APPROVED", "DECLINED"},
                          p \in {"YES", "NO"} : Decide(u, d, p))
  PROVE  Justified(v, r)'
<1>1. agent[v] \in Agents /\ month \in Nat /\ r.completed \in Nat
  BY VerificationAssumption
  DEF VerificationInvariant, ChargesMatchDecisions, VerificationTypeOK, Rows, HandlerRecords
<1>2. CASE NextMonth
  BY <1>1, <1>2 DEF NextMonth, Justified
<1>3. ASSUME NEW u \in Verifications, NEW d \in {"APPROVED", "DECLINED"},
             NEW p \in {"YES", "NO"}, Decide(u, d, p)
      PROVE  Justified(v, r)'
  <2>1. CASE u = v
    BY <1>1, <1>3, <2>1
    DEF Decide, Justified, VerificationInvariant, ChargesMatchDecisions, VerificationTypeOK, Agents
  <2>2. CASE u # v
    BY <1>3, <2>2
    DEF Decide, Justified, VerificationInvariant, ChargesMatchDecisions, VerificationTypeOK
  <2>. QED  BY <2>1, <2>2
<1>. QED
  BY <1>2, <1>3

\* A month that passes or a decision of the agent justifies no less than before.
LEMMA TimeAndDecisions ==
  ASSUME VerificationInvariant,
         NextMonth \/ (\E u \in Verifications, d \in {"APPROVED", "DECLINED"},
                          p \in {"YES", "NO"} : Decide(u, d, p))
  PROVE  VerificationInvariant'
<1>. USE DEF VerificationInvariant, ChargesMatchDecisions
<1>1. UNCHANGED <<row, charge, exception, handler, failures>>
  BY DEF NextMonth, Decide
<1>2. VerificationTypeOK'
  <2>1. CASE NextMonth
    BY <2>1, VerificationAssumption DEF NextMonth, VerificationTypeOK
  <2>2. ASSUME NEW v \in Verifications, NEW d \in {"APPROVED", "DECLINED"},
               NEW p \in {"YES", "NO"}, Decide(v, d, p)
        PROVE  VerificationTypeOK'
    <3>1. [decision |-> d, proof |-> p, completed |-> month] \in Agents
      BY <2>2, VerificationAssumption DEF Decide, VerificationTypeOK, Agents, Statuses, Proofs
    <3>. QED  BY <2>2, <3>1 DEF Decide, VerificationTypeOK
  <2>. QED  BY <2>1, <2>2
<1>3. AgentsDated'
  <2>1. CASE NextMonth
    BY <2>1, VerificationAssumption DEF NextMonth, AgentsDated, VerificationTypeOK, Agents
  <2>2. ASSUME NEW v \in Verifications, NEW d \in {"APPROVED", "DECLINED"},
               NEW p \in {"YES", "NO"}, Decide(v, d, p)
        PROVE  AgentsDated'
    BY <2>2, VerificationAssumption DEF Decide, AgentsDated, VerificationTypeOK, Agents
  <2>. QED  BY <2>1, <2>2
<1>4. RowsJustified'
  <2>. SUFFICES ASSUME NEW v \in Verifications, row[v] # NULL  PROVE Justified(v, row[v])'
    BY <1>1 DEF RowsJustified
  <2>1. row[v] \in Rows /\ Justified(v, row[v])
    BY DEF VerificationTypeOK, RowsJustified
  <2>2. \A r \in Rows : Justified(v, r) => Justified(v, r)'
    BY JustifiedStays
  <2>. QED  BY <1>1, <2>1, <2>2 DEF Justified
<1>5. HandlersJustified'
  <2>. SUFFICES ASSUME NEW h \in Handlers  PROVE HandlerJustified(handler[h])'
    BY DEF HandlersJustified
  <2>1. handler[h] \in HandlerRecords /\ HandlerJustified(handler[h])
    BY DEF VerificationTypeOK, HandlersJustified
  <2>2. \A v \in Verifications, r \in HandlerRecords : Justified(v, r) => Justified(v, r)'
    BY JustifiedStays
  <2>. QED  BY <1>1, <2>1, <2>2 DEF HandlerJustified, Justified
<1>6. ChargedIsApproved'
  <2>. SUFFICES ASSUME NEW v \in Verifications, charge[v] # 0
                PROVE  agent'[v].decision = "APPROVED" /\ charge[v] \in agent'[v].completed .. month'
    BY <1>1 DEF ChargedIsApproved, Charged
  <2>1. /\ agent[v].decision = "APPROVED" /\ charge[v] \in agent[v].completed .. month
        /\ agent[v] \in Agents
    BY DEF ChargedIsApproved, Charged, VerificationTypeOK
  <2>2. agent'[v] = agent[v]
    BY <2>1 DEF NextMonth, Decide, VerificationTypeOK
  <2>3. month' \in Nat /\ month \in Nat /\ month <= month' /\ agent[v].completed \in Nat
    BY <2>1, VerificationAssumption DEF NextMonth, Decide, VerificationTypeOK, Agents
  <2>. QED  BY <2>1, <2>2, <2>3
<1>7. BillableIsCharged'
  BY <1>1 DEF BillableIsCharged, Charged
<1>. QED
  BY <1>2, <1>3, <1>4, <1>5, <1>6, <1>7

\* A step of a handler writes a justified record of its own and at most one
\* row, justified as well; unless it fails, a billable row becomes its own to
\* charge, and what was its own is charged or still is.
HandlerWrites(h, r) ==
  /\ r \in HandlerRecords
  /\ HandlerJustified(r)'
  /\ Become(h, r)
  /\ UNCHANGED <<agent, month>>
  /\ \/ UNCHANGED row
     \/ \E v \in Verifications, new \in Rows :
          /\ Justified(v, new)
          /\ row' = [row EXCEPT ![v] = new]
          /\ new.billing = "BILLABLE"
               => r.phase = "FINALIZING" /\ r.billing = "BILLABLE" /\ r.verification = v
  /\ \A v \in Verifications :
       charge'[v] = charge[v] \/ (charge[v] = 0 /\ charge'[v] # 0)
  /\ failures' # 0 \/
     (/\ UNCHANGED failures
      /\ handler[h].phase \in {"FINALIZING", "CHARGING"} /\ handler[h].billing = "BILLABLE"
           => \/ charge'[handler[h].verification] # 0
              \/ /\ r.phase = "CHARGING" /\ r.billing = "BILLABLE"
                 /\ r.verification = handler[h].verification)

\* What a handler writes under the conditions of HandlerWrites is justified.
LEMMA HandlerWritesJustified ==
  ASSUME VerificationInvariant, NEW h \in Handlers, NEW r, HandlerWrites(h, r)
  PROVE  /\ row' \in [Verifications -> Rows \cup {NULL}]
         /\ handler' \in [Handlers -> HandlerRecords]
         /\ AgentsDated' /\ RowsJustified' /\ HandlersJustified' /\ BillableIsCharged'
<1>. USE DEF VerificationInvariant, ChargesMatchDecisions
<1>1. /\ row' \in [Verifications -> Rows \cup {NULL}]
      /\ \A v \in Verifications : row[v] # NULL => row'[v] # NULL
      /\ \A v \in Verifications :
           \/ row'[v] = row[v]
           \/ /\ row'[v] \in Rows /\ Justified(v, row'[v])
              /\ row'[v].billing = "BILLABLE"
                   => r.phase = "FINALIZING" /\ r.billing = "BILLABLE" /\ r.verification = v
  <2>1. CASE UNCHANGED row
    BY <2>1 DEF VerificationTypeOK
  <2>2. ASSUME NEW v \in Verifications, NEW new \in Rows, Justified(v, new),
               row' = [row EXCEPT ![v] = new],
               new.billing = "BILLABLE"
                 => r.phase = "FINALIZING" /\ r.billing = "BILLABLE" /\ r.verification = v
        PROVE  <1>1!1 /\ <1>1!2 /\ <1>1!3
    BY <2>2, VerificationNullAssumption DEF VerificationTypeOK
  <2>. QED  BY <2>1, <2>2 DEF HandlerWrites
<1>2. /\ handler' \in [Handlers -> HandlerRecords]
      /\ handler'[h] = r
      /\ \A g \in Handlers \ {h} : handler'[g] = handler[g]
  BY DEF HandlerWrites, Become, VerificationTypeOK
<1>3. UNCHANGED <<agent, month>>
  BY DEF HandlerWrites
<1>4. \A v, q : Justified(v, q) <=> Justified(v, q)'
  BY <1>3 DEF Justified
<1>5. AgentsDated'
  BY <1>3 DEF AgentsDated
<1>6. RowsJustified'
  <2>. SUFFICES ASSUME NEW v \in Verifications, row'[v] # NULL  PROVE Justified(v, row[v])'
    BY DEF RowsJustified
  <2>1. Justified(v, row'[v])
    BY <1>1 DEF RowsJustified
  <2>. QED  BY <1>3, <2>1 DEF Justified
<1>7. HandlersJustified'
  <2>. SUFFICES ASSUME NEW g \in Handlers  PROVE HandlerJustified(handler[g])'
    BY DEF HandlersJustified
  <2>1. CASE g = h
    BY <1>2, <2>1 DEF HandlerWrites, HandlerJustified, Justified
  <2>2. CASE g # h
    BY <1>1, <1>2, <1>3, <2>2 DEF HandlersJustified, HandlerJustified, Justified
  <2>. QED  BY <2>1, <2>2
<1>8. BillableIsCharged'
  <2>. SUFFICES ASSUME failures' = 0, NEW v \in Verifications, row'[v] # NULL,
                       row'[v].billing = "BILLABLE", charge'[v] = 0
                PROVE  \E g \in Handlers : /\ handler'[g].verification = v
                                           /\ handler'[g].phase \in {"FINALIZING", "CHARGING"}
                                           /\ handler'[g].billing = "BILLABLE"
    BY DEF BillableIsCharged, Charged
  <2>1. CASE row'[v] = row[v]
    <3>1. failures = 0 /\ charge[v] = 0
      BY DEF HandlerWrites
    <3>2. PICK g \in Handlers : /\ handler[g].verification = v
                                /\ handler[g].phase \in {"FINALIZING", "CHARGING"}
                                /\ handler[g].billing = "BILLABLE"
      BY <2>1, <3>1 DEF BillableIsCharged, Charged
    <3>3. CASE g = h
      BY <1>2, <3>2, <3>3 DEF HandlerWrites
    <3>4. CASE g # h
      BY <1>2, <3>2, <3>4
    <3>. QED  BY <3>3, <3>4
  <2>2. CASE row'[v] # row[v]
    BY <1>1, <1>2, <2>2
  <2>. QED  BY <2>1, <2>2
<1>. QED
  BY <1>1, <1>2, <1>5, <1>6, <1>7, <1>8

\* The billing that the code resolves is one of the three, and billable only for
\* an approval with a date.
LEMMA BillingResolved ==
  ASSUME NEW status \in Statuses, NEW proof \in Proofs, NEW completed \in Nat
  PROVE  /\ BillingOf(status, proof, completed) \in Billings
         /\ BillingOf(status, proof, completed) = "BILLABLE"
              => status = "APPROVED" /\ completed # 0
  BY DEF BillingOf, Billings, Statuses

\* A date that is reported or stored is kept; a missing one becomes the present.
LEMMA CompletionDated ==
  ASSUME VerificationTypeOK, month <= MaxMonths, NEW status \in Statuses,
         NEW reported \in 0 .. MaxMonths, NEW stored \in 0 .. MaxMonths
  PROVE  /\ Completion(status, reported, stored) \in 0 .. MaxMonths
         /\ \/ Completion(status, reported, stored) \in {reported, stored}
            \/ status # "PENDING" /\ Completion(status, reported, stored) = month
  BY VerificationAssumption DEF VerificationTypeOK, Completion

\* A handler at rest is a record of its type.
LEMMA IdleHandler == Idle \in HandlerRecords
  BY VerificationAssumption DEF Idle, HandlerRecords, Kinds, Statuses, Proofs, Billings

\* A handler that starts writes under those conditions.
LEMMA StartWrites ==
  ASSUME VerificationInvariant, NEW h \in Handlers, NEW v \in Verifications, Start(h, v)
  PROVE  \E r : HandlerWrites(h, r)
<1>. USE DEF VerificationInvariant, ChargesMatchDecisions
\* What a handler starts with.
<1>. DEFINE Begins(r) ==
       /\ r \in HandlerRecords /\ r.verification = v
       /\ Become(h, r)
       /\ handler[h].phase = "IDLE"
       /\ UNCHANGED <<agent, row, charge, month, failures>>
<1>1. ASSUME NEW r, Begins(r), Justified(v, r), r.kind \in {"POLL", "RECONCILE"} => row[v] # NULL,
             r.phase = "ASKING" => r.billing = "PENDING",
             r.phase = "CHARGING" => r.billing = "BILLABLE"
      PROVE  \E q : HandlerWrites(h, q)
  <2>1. HandlerJustified(r)'
    BY <1>1 DEF HandlerJustified, Justified
  <2>. QED  BY <1>1, <2>1 DEF HandlerWrites
<1>2. ASSUME NEW kind \in {"CHECKOUT", "POLL"}, Begin(h, v, kind), kind = "POLL" => row[v] # NULL
      PROVE  \E r : HandlerWrites(h, r)
  <2>1. PICK r : r = [Idle EXCEPT !.phase = "ASKING", !.kind = kind, !.verification = v]
    OBVIOUS
  <2>2. r \in HandlerRecords
    BY <2>1, IdleHandler DEF HandlerRecords, Kinds
  <2>3. /\ r.phase = "ASKING" /\ r.verification = v /\ r.kind = kind
        /\ r.status = "PENDING" /\ r.completed = 0 /\ r.billing = "PENDING"
    BY <2>1 DEF Idle
  <2>4. Begins(r)
    BY <1>2, <2>1, <2>2, <2>3 DEF Begin
  <2>. QED  BY <1>1, <1>2, <2>3, <2>4 DEF Justified
<1>3. CASE StartCheckout(h, v)
  BY <1>2, <1>3 DEF StartCheckout
<1>4. CASE StartPoll(h, v)
  BY <1>2, <1>4 DEF StartPoll
<1>5. CASE ReceiveEvent(h, v)
  <2>0. PICK proof \in Metadata(v) :
          Become(h, [Idle EXCEPT !.phase = "WRITING", !.kind = "EVENT", !.verification = v,
                       !.status = agent[v].decision, !.proof = proof,
                       !.completed = agent[v].completed])
    BY <1>5 DEF ReceiveEvent
  <2>1. PICK r :
          /\ r = [Idle EXCEPT !.phase = "WRITING", !.kind = "EVENT", !.verification = v,
                    !.status = agent[v].decision, !.proof = proof,
                    !.completed = agent[v].completed]
          /\ Become(h, r)
    BY <2>0
  <2>2. agent[v] \in Agents /\ proof \in Proofs
    BY DEF VerificationTypeOK, Metadata, Agents, Proofs
  <2>3. r \in HandlerRecords
    BY <2>1, <2>2, IdleHandler DEF HandlerRecords, Kinds, Agents
  <2>4. /\ r.verification = v /\ r.kind = "EVENT" /\ r.billing = "PENDING"
        /\ r.status = agent[v].decision /\ r.completed = agent[v].completed
    BY <2>1 DEF Idle
  <2>5. agent[v].decision # "PENDING" /\ Begins(r)
    BY <1>5, <2>1, <2>3, <2>4 DEF ReceiveEvent
  <2>6. agent[v].completed <= month /\ agent[v].completed <= agent[v].completed
    BY <2>2 DEF AgentsDated, Agents
  <2>7. r.phase = "WRITING"
    BY <2>1 DEF Idle
  <2>. QED  BY <1>1, <2>4, <2>5, <2>6, <2>7 DEF Justified
<1>6. CASE StartReconciliation(h, v)
  <2>1. row[v] \in Rows /\ row[v] # NULL /\ row[v].status = "APPROVED" /\ month <= MaxMonths
    BY <1>6 DEF StartReconciliation, VerificationTypeOK
  <2>2. /\ agent[v] \in Agents /\ agent[v].decision = "APPROVED" /\ agent[v].completed <= month
        /\ month \in Nat /\ Justified(v, row[v])
    BY <2>1, VerificationAssumption DEF RowsJustified, Justified, VerificationTypeOK, AgentsDated
  <2>3. PICK completed : completed = Completion("APPROVED", 0, row[v].completed)
    OBVIOUS
  <2>4. /\ completed \in 0 .. MaxMonths
        /\ completed \in {0, row[v].completed} \/ completed = month
    <3>1. row[v].completed \in 0 .. MaxMonths
      BY <2>1 DEF Rows
    <3>2. 0 \in 0 .. MaxMonths /\ "APPROVED" \in Statuses
      BY VerificationAssumption DEF Statuses
    <3>. QED  BY <2>1, <2>3, <3>1, <3>2, CompletionDated
  <2>5. /\ completed \in Nat
        /\ completed # 0 => agent[v].completed <= completed /\ completed <= month
    BY <2>2, <2>4, VerificationAssumption DEF Justified, Agents
  <2>0. PICK proof \in Proofs :
          Become(h, [Idle EXCEPT !.phase = "WRITING", !.kind = "RECONCILE", !.verification = v,
                       !.status = "APPROVED", !.proof = proof, !.completed = completed,
                       !.billing = BillingOf("APPROVED", proof, completed)])
    BY <1>6, <2>1, <2>2, <2>3 DEF StartReconciliation, Metadata, Agents, Proofs, Rows
  <2>6. PICK r :
          /\ r = [Idle EXCEPT !.phase = "WRITING", !.kind = "RECONCILE", !.verification = v,
                    !.status = "APPROVED", !.proof = proof, !.completed = completed,
                    !.billing = BillingOf("APPROVED", proof, completed)]
          /\ Become(h, r)
    BY <2>0
  <2>7. /\ BillingOf("APPROVED", proof, completed) \in Billings
        /\ BillingOf("APPROVED", proof, completed) = "BILLABLE" => completed # 0
    BY <2>5, BillingResolved DEF Statuses
  <2>8. r \in HandlerRecords
    BY <2>4, <2>6, <2>7, IdleHandler DEF HandlerRecords, Kinds, Statuses
  <2>9. /\ r.phase = "WRITING" /\ r.verification = v /\ r.status = "APPROVED" /\ r.completed = completed
        /\ r.billing = BillingOf("APPROVED", proof, completed)
    BY <2>6 DEF Idle
  <2>10. Begins(r)
    BY <1>6, <2>6, <2>8, <2>9 DEF StartReconciliation
  <2>. QED  BY <1>1, <2>1, <2>2, <2>5, <2>7, <2>9, <2>10 DEF Justified
<1>7. CASE StartBackfill(h, v)
  <2>1. PICK r :
          r = [Idle EXCEPT !.phase = "CHARGING", !.kind = "BACKFILL", !.verification = v,
                 !.completed = row[v].completed, !.billing = "BILLABLE"]
    OBVIOUS
  <2>2. row[v] \in Rows /\ Justified(v, row[v]) /\ row[v].billing = "BILLABLE"
    BY <1>7 DEF StartBackfill, VerificationTypeOK, RowsJustified
  <2>3. r \in HandlerRecords
    BY <2>1, <2>2, IdleHandler DEF HandlerRecords, Kinds, Billings, Rows
  <2>4. /\ r.phase = "CHARGING" /\ r.verification = v /\ r.kind = "BACKFILL" /\ r.status = "PENDING"
        /\ r.completed = row[v].completed /\ r.billing = "BILLABLE"
    BY <2>1 DEF Idle
  <2>5. Begins(r)
    BY <1>7, <2>1, <2>3, <2>4 DEF StartBackfill
  <2>. QED  BY <1>1, <2>2, <2>4, <2>5 DEF Justified
<1>. QED
  BY <1>3, <1>4, <1>5, <1>6, <1>7 DEF Start

\* The steps of a handler that is under way.
LEMMA HandlerStepWrites ==
  ASSUME VerificationInvariant, NEW h \in Handlers, HandlerStep(h)
  PROVE  \E r : HandlerWrites(h, r)
<1>. USE DEF VerificationInvariant, ChargesMatchDecisions
<1>. DEFINE hd == handler[h]
            v == hd.verification
\* What holds of a handler at work: it writes a record that goes on with its
\* verification, and a row that it charges itself if it is billable.
<1>. DEFINE GoesOn(r) ==
       /\ r \in HandlerRecords /\ r.verification = v /\ r.kind = hd.kind
       /\ Become(h, r)
       /\ UNCHANGED <<agent, month, failures>>
<1>1. hd.phase # "IDLE"
  BY DEF HandlerStep, AnswerRequest, UpsertCheckout, ReadStored, WriteAnswer, WriteEvent,
         WriteReconciliation, FindCharge, CreateCharge
<1>2. /\ hd \in HandlerRecords /\ v \in Verifications /\ Justified(v, hd)
      /\ hd.kind \in {"POLL", "RECONCILE"} => row[v] # NULL /\ row[v] \in Rows
      /\ agent[v] \in Agents /\ agent[v].completed <= month /\ month \in Nat
      /\ row[v] # NULL => row[v] \in Rows /\ Justified(v, row[v])
  BY <1>1, VerificationAssumption
  DEF HandlersJustified, HandlerJustified, VerificationTypeOK, AgentsDated, RowsJustified
<1>3. ASSUME NEW r, GoesOn(r), Justified(v, r), UNCHANGED <<row, charge>>,
             r.phase \notin {"ASKING", "CHARGING"},
             hd.phase \notin {"FINALIZING", "CHARGING"}
      PROVE  \E q : HandlerWrites(h, q)
  <2>1. HandlerJustified(r)'
    BY <1>2, <1>3 DEF HandlerJustified, Justified
  <2>. QED  BY <1>3, <2>1 DEF HandlerWrites
<1>4. ASSUME NEW r, NEW new \in Rows, GoesOn(r), Justified(v, r), Justified(v, new),
             row' = [row EXCEPT ![v] = new], UNCHANGED charge,
             r.phase = "FINALIZING", new.billing = "BILLABLE" => r.billing = "BILLABLE",
             hd.phase \notin {"FINALIZING", "CHARGING"}
      PROVE  \E q : HandlerWrites(h, q)
  <2>1. row'[v] # NULL
    BY <1>2, <1>4, VerificationNullAssumption DEF VerificationTypeOK
  <2>2. HandlerJustified(r)'
    BY <1>2, <1>4, <2>1 DEF HandlerJustified, Justified
  <2>. QED  BY <1>2, <1>4, <2>2 DEF HandlerWrites
<1>5. CASE AnswerRequest(h)
  <2>0. PICK reported \in {0, agent[v].completed} :
          Become(h, [hd EXCEPT !.phase = "ANSWERED", !.status = agent[v].decision,
                               !.completed = reported])
    BY <1>5 DEF AnswerRequest
  <2>1. PICK r :
          /\ r = [hd EXCEPT !.phase = "ANSWERED", !.status = agent[v].decision,
                            !.completed = reported]
          /\ Become(h, r)
    BY <2>0
  <2>2. reported \in 0 .. MaxMonths
    BY <1>2, VerificationAssumption DEF Agents
  <2>3. r \in HandlerRecords /\ r.verification = v /\ r.kind = hd.kind /\ r.phase = "ANSWERED"
        /\ r.status = agent[v].decision /\ r.completed = reported /\ r.billing = hd.billing
    BY <1>2, <2>1, <2>2 DEF HandlerRecords, Agents
  <2>4. hd.billing = "PENDING"
    BY <1>1, <1>5 DEF AnswerRequest, HandlersJustified, HandlerJustified
  <2>5. reported # 0 => /\ agent[v].decision # "PENDING"
                        /\ agent[v].completed <= reported /\ reported <= month
    BY <1>2 DEF AgentsDated, Agents
  <2>6. Justified(v, r)
    BY <2>3, <2>4, <2>5 DEF Justified
  <2>. QED  BY <1>3, <1>5, <2>1, <2>3, <2>6 DEF AnswerRequest
<1>6. CASE UpsertCheckout(h)
  <2>1. PICK completed : completed = Completion(hd.status, hd.completed, 0)
    OBVIOUS
  <2>2. month <= MaxMonths /\ hd.phase = "ANSWERED"
    BY <1>6 DEF UpsertCheckout
  <2>3. /\ completed \in 0 .. MaxMonths /\ completed \in Nat
        /\ completed \in {hd.completed, 0} \/ (hd.status # "PENDING" /\ completed = month)
    BY <1>2, <2>1, <2>2, CompletionDated, VerificationAssumption DEF HandlerRecords
  <2>4. completed # 0 => /\ agent[v].decision # "PENDING"
                         /\ agent[v].completed <= completed /\ completed <= month
    BY <1>2, <2>3 DEF Justified, Agents
  <2>5. /\ BillingOf(hd.status, "UNKNOWN", completed) \in Billings
        /\ BillingOf(hd.status, "UNKNOWN", completed) = "BILLABLE"
             => hd.status = "APPROVED" /\ completed # 0
    BY <1>2, <2>3, BillingResolved DEF HandlerRecords, Proofs
  <2>6. PICK new : new = [status |-> hd.status, proof |-> "UNKNOWN", completed |-> completed,
                          billing |-> BillingOf(hd.status, "UNKNOWN", completed), event |-> FALSE]
    OBVIOUS
  <2>7. new \in Rows /\ Justified(v, new)
    BY <1>2, <2>3, <2>4, <2>5, <2>6 DEF Rows, HandlerRecords, Proofs, Justified
  <2>8. PICK saved \in Rows : /\ saved = IF row[v] = NULL THEN new ELSE row[v]
                              /\ row' = [row EXCEPT ![v] = saved]
                              /\ row'[v] = saved /\ Justified(v, saved)
    BY <1>2, <1>6, <2>1, <2>6, <2>7 DEF UpsertCheckout, VerificationTypeOK
  <2>9. PICK r : /\ r = [hd EXCEPT !.phase = "FINALIZING", !.completed = saved.completed,
                                   !.billing = saved.billing]
                 /\ Become(h, r)
    BY <1>6, <2>8 DEF UpsertCheckout
  <2>10. r \in HandlerRecords /\ r.verification = v /\ r.kind = hd.kind /\ r.phase = "FINALIZING"
         /\ r.status = hd.status /\ r.completed = saved.completed /\ r.billing = saved.billing
    BY <1>2, <2>9 DEF HandlerRecords, Rows
  <2>11. Justified(v, r)
    BY <1>2, <2>8, <2>10 DEF Justified
  <2>. QED  BY <1>4, <1>6, <2>2, <2>8, <2>9, <2>10, <2>11 DEF UpsertCheckout
<1>7. CASE ReadStored(h)
  <2>1. hd.phase = "ANSWERED" /\ hd.kind = "POLL" /\ month <= MaxMonths
    BY <1>7 DEF ReadStored
  <2>2. row[v] \in Rows /\ Justified(v, row[v])
    BY <1>2, <2>1
  <2>3. PICK completed : completed = Completion(hd.status, hd.completed, row[v].completed)
    OBVIOUS
  <2>4. /\ completed \in 0 .. MaxMonths /\ completed \in Nat
        /\ \/ completed \in {hd.completed, row[v].completed}
           \/ hd.status # "PENDING" /\ completed = month
    <3>1. hd.status \in Statuses /\ hd.completed \in 0 .. MaxMonths
          /\ row[v].completed \in 0 .. MaxMonths
      BY <1>2, <2>2 DEF HandlerRecords, Rows
    <3>2. VerificationTypeOK /\ month <= MaxMonths
      BY <2>1
    <3>. HIDE DEF hd, v, VerificationInvariant, ChargesMatchDecisions
    <3>3. /\ Completion(hd.status, hd.completed, row[v].completed) \in 0 .. MaxMonths
          /\ \/ Completion(hd.status, hd.completed, row[v].completed)
                  \in {hd.completed, row[v].completed}
             \/ /\ hd.status # "PENDING"
                /\ Completion(hd.status, hd.completed, row[v].completed) = month
      BY <3>1, <3>2, CompletionDated
    <3>. QED  BY <2>3, <3>3, VerificationAssumption
  <2>5. completed # 0 => /\ agent[v].decision # "PENDING"
                         /\ agent[v].completed <= completed /\ completed <= month
    BY <1>2, <2>2, <2>4 DEF Justified, Agents
  <2>0. PICK proof \in Proofs, known \in Proofs :
          Become(h, [hd EXCEPT !.phase = "WRITING", !.proof = proof, !.completed = completed,
                               !.billing = BillingOf(hd.status, known, completed)])
    BY <1>2, <1>7, <2>2, <2>3 DEF ReadStored, Metadata, Agents, Rows, Proofs
  <2>6. PICK r :
          /\ r = [hd EXCEPT !.phase = "WRITING", !.proof = proof, !.completed = completed,
                            !.billing = BillingOf(hd.status, known, completed)]
          /\ Become(h, r)
    BY <2>0
  <2>7. /\ BillingOf(hd.status, known, completed) \in Billings
        /\ BillingOf(hd.status, known, completed) = "BILLABLE"
             => hd.status = "APPROVED" /\ completed # 0
    BY <1>2, <2>4, BillingResolved DEF HandlerRecords
  <2>8. r \in HandlerRecords /\ r.verification = v /\ r.kind = hd.kind /\ r.phase = "WRITING"
        /\ r.status = hd.status /\ r.completed = completed
        /\ r.billing = BillingOf(hd.status, known, completed)
    BY <1>2, <2>4, <2>6, <2>7 DEF HandlerRecords
  <2>9. Justified(v, r)
    BY <1>2, <2>5, <2>7, <2>8 DEF Justified
  <2>. QED  BY <1>3, <1>7, <2>1, <2>6, <2>8, <2>9 DEF ReadStored
<1>8. CASE WriteAnswer(h) \/ WriteReconciliation(h)
  <2>1. hd.phase = "WRITING" /\ hd.kind \in {"POLL", "RECONCILE"}
    BY <1>8 DEF WriteAnswer, WriteReconciliation
  <2>2. row[v] \in Rows /\ Justified(v, row[v])
    BY <1>2, <2>1
  <2>3. PICK r : r = [hd EXCEPT !.phase = "FINALIZING"] /\ Become(h, r)
    BY <1>8 DEF WriteAnswer, WriteReconciliation
  <2>4. r \in HandlerRecords /\ r.verification = v /\ r.kind = hd.kind /\ r.phase = "FINALIZING"
        /\ r.status = hd.status /\ r.completed = hd.completed /\ r.billing = hd.billing
    BY <1>2, <2>3 DEF HandlerRecords
  <2>5. PICK new \in Rows :
          /\ row' = [row EXCEPT ![v] = new]
          /\ new.status \in {hd.status, row[v].status}
          /\ new.completed = hd.completed /\ new.billing = hd.billing
    <3>1. CASE WriteAnswer(h)
      <4>. DEFINE new == [row[v] EXCEPT !.status = hd.status, !.completed = hd.completed,
                            !.billing = hd.billing,
                            !.proof = IF hd.proof # "UNKNOWN" THEN hd.proof ELSE @]
      <4>1. row' = [row EXCEPT ![v] = new]
        BY <3>1 DEF WriteAnswer
      <4>2. /\ new \in Rows /\ new.status = hd.status
            /\ new.completed = hd.completed /\ new.billing = hd.billing
        BY <1>2, <2>2 DEF Rows, HandlerRecords
      <4>. QED  BY <4>1, <4>2
    <3>2. CASE WriteReconciliation(h)
      <4>. DEFINE new == [row[v] EXCEPT !.completed = hd.completed, !.billing = hd.billing,
                            !.proof = IF hd.proof # "UNKNOWN" THEN hd.proof ELSE @]
      <4>1. row' = [row EXCEPT ![v] = new]
        BY <3>2 DEF WriteReconciliation
      <4>2. /\ new \in Rows /\ new.status = row[v].status
            /\ new.completed = hd.completed /\ new.billing = hd.billing
        BY <1>2, <2>2 DEF Rows, HandlerRecords
      <4>. QED  BY <4>1, <4>2
    <3>. QED  BY <1>8, <3>1, <3>2
  <2>7. Justified(v, new) /\ Justified(v, r)
    BY <1>2, <2>2, <2>4, <2>5 DEF Justified
  <2>. QED  BY <1>4, <1>8, <2>1, <2>3, <2>4, <2>5, <2>7 DEF WriteAnswer, WriteReconciliation
<1>9. CASE WriteEvent(h)
  <2>1. PICK billing : billing = BillingOf(hd.status, hd.proof, hd.completed)
    OBVIOUS
  <2>2. /\ billing \in Billings
        /\ billing = "BILLABLE" => hd.status = "APPROVED" /\ hd.completed # 0
    BY <1>2, <2>1, BillingResolved, VerificationAssumption DEF HandlerRecords
  <2>3. PICK r : r = [hd EXCEPT !.phase = "FINALIZING", !.billing = billing] /\ Become(h, r)
    BY <1>9, <2>1 DEF WriteEvent
  <2>4. r \in HandlerRecords /\ r.verification = v /\ r.kind = hd.kind /\ r.phase = "FINALIZING"
        /\ r.status = hd.status /\ r.completed = hd.completed /\ r.billing = billing
    BY <1>2, <2>2, <2>3 DEF HandlerRecords
  <2>5. PICK new : /\ new = [status |-> hd.status, proof |-> hd.proof, completed |-> hd.completed,
                             billing |-> billing, event |-> TRUE]
                   /\ row' = [row EXCEPT ![v] = new]
    BY <1>9, <2>1 DEF WriteEvent
  <2>6. new \in Rows /\ Justified(v, new) /\ Justified(v, r) /\ new.billing = billing
    BY <1>2, <2>2, <2>4, <2>5 DEF Rows, HandlerRecords, Justified
  <2>. QED  BY <1>4, <1>9, <2>3, <2>4, <2>5, <2>6 DEF WriteEvent
<1>10. HandlerJustified(Idle)'
  BY DEF HandlerJustified, Idle
<1>11. CASE FindCharge(h)
  <2>1. CASE charge[v] = 0 /\ hd.billing = "BILLABLE" /\ hd.completed # 0
    <3>1. PICK r : r = [hd EXCEPT !.phase = "CHARGING"] /\ Become(h, r)
      BY <1>11, <2>1 DEF FindCharge
    <3>2. r \in HandlerRecords /\ r.verification = v /\ r.kind = hd.kind /\ r.phase = "CHARGING"
          /\ r.status = hd.status /\ r.completed = hd.completed /\ r.billing = hd.billing
      BY <1>2, <3>1 DEF HandlerRecords
    <3>3. HandlerJustified(r)'
      BY <1>2, <1>11, <2>1, <3>2 DEF FindCharge, HandlerJustified, Justified
    <3>. QED  BY <1>11, <2>1, <3>1, <3>2, <3>3 DEF FindCharge, HandlerWrites
  <2>2. CASE ~ (charge[v] = 0 /\ hd.billing = "BILLABLE" /\ hd.completed # 0)
    <3>1. hd.billing = "BILLABLE" => hd.completed # 0
      BY <1>2 DEF Justified
    <3>2. Become(h, Idle) /\ UNCHANGED <<agent, row, charge, month, failures>>
      BY <1>11, <2>2 DEF FindCharge
    <3>. QED  BY <1>10, <2>2, <3>1, <3>2, IdleHandler DEF HandlerWrites
  <2>. QED  BY <2>1, <2>2
<1>12. CASE CreateCharge(h)
  <2>1. hd.billing = "BILLABLE" => charge'[v] # 0
    BY <1>2, <1>12 DEF CreateCharge, Justified, VerificationTypeOK
  <2>2. \A u \in Verifications : charge'[u] = charge[u] \/ (charge[u] = 0 /\ charge'[u] # 0)
    BY <1>12 DEF CreateCharge, VerificationTypeOK
  <2>. QED  BY <1>10, <1>12, <2>1, <2>2, IdleHandler DEF CreateCharge, HandlerWrites
<1>. QED
  BY <1>5, <1>6, <1>7, <1>8, <1>9, <1>11, <1>12 DEF HandlerStep

\* So does one whose finalization fails or whose process stops.
LEMMA FailureWrites ==
  ASSUME VerificationInvariant, NEW h \in Handlers, FinalizationFails(h) \/ Crash(h)
  PROVE  \E r : HandlerWrites(h, r)
<1>1. HandlerJustified(Idle)'
  BY DEF HandlerJustified, Idle
<1>2. failures' # 0
  BY VerificationAssumption
  DEF FinalizationFails, Crash, VerificationInvariant, ChargesMatchDecisions, VerificationTypeOK
<1>. QED
  BY <1>1, <1>2, IdleHandler DEF FinalizationFails, Crash, HandlerWrites

\* Charges, exceptions and failures.
LEMMA ChargesStayApproved ==
  ASSUME VerificationInvariant, NEW h \in Handlers,
         \/ HandlerStep(h) \/ FinalizationFails(h) \/ Crash(h)
         \/ \E v \in Verifications : Start(h, v)
  PROVE  /\ charge' \in [Verifications -> 0 .. MaxMonths]
         /\ exception' \in SUBSET Verifications
         /\ failures' \in 0 .. MaxFailures
         /\ ChargedIsApproved'
<1>. USE DEF VerificationInvariant, ChargesMatchDecisions
<1>. DEFINE hd == handler[h]
            v == hd.verification
<1>1. UNCHANGED <<agent, month>>
  BY DEF HandlerStep, Start, FinalizationFails, Crash, AnswerRequest, UpsertCheckout, ReadStored,
         WriteAnswer, WriteEvent, WriteReconciliation, FindCharge, CreateCharge, StartCheckout,
         StartPoll, Begin, ReceiveEvent, StartReconciliation, StartBackfill
<1>2. hd.phase # "IDLE" => hd \in HandlerRecords /\ v \in Verifications
  BY DEF HandlersJustified, HandlerJustified, VerificationTypeOK
<1>3. CASE CreateCharge(h)
  <2>1. /\ v \in Verifications /\ hd \in HandlerRecords
        /\ agent[v].decision = "APPROVED" /\ agent[v] \in Agents
        /\ agent[v].completed <= hd.completed /\ hd.completed <= month
    BY <1>3 DEF CreateCharge, HandlersJustified, HandlerJustified, Justified, VerificationTypeOK
  <2>2. charge' = [charge EXCEPT ![v] = IF charge[v] = 0 THEN hd.completed ELSE charge[v]]
    BY <1>3 DEF CreateCharge
  <2>3. charge' \in [Verifications -> 0 .. MaxMonths]
    BY <2>1, <2>2 DEF VerificationTypeOK, HandlerRecords
  <2>4. ASSUME NEW u \in Verifications, charge'[u] # 0
        PROVE  agent[u].decision = "APPROVED" /\ charge'[u] \in agent[u].completed .. month
    <3>1. CASE charge'[u] = charge[u]
      BY <2>4, <3>1 DEF ChargedIsApproved, Charged
    <3>2. CASE u = v /\ charge'[u] = hd.completed
      <4>1. hd.completed \in Nat /\ month \in Nat /\ agent[v].completed \in Nat
        BY <2>1, VerificationAssumption DEF HandlerRecords, VerificationTypeOK, Agents
      <4>. QED  BY <2>1, <3>2, <4>1
    <3>. QED  BY <2>2, <2>4, <3>1, <3>2 DEF VerificationTypeOK
  <2>5. ChargedIsApproved'
    BY <1>1, <2>4 DEF ChargedIsApproved, Charged
  <2>. QED  BY <1>3, <2>3, <2>5 DEF CreateCharge, VerificationTypeOK
<1>4. ~ CreateCharge(h) => UNCHANGED charge
  BY DEF HandlerStep, Start, FinalizationFails, Crash, AnswerRequest, UpsertCheckout, ReadStored,
         WriteAnswer, WriteEvent, WriteReconciliation, FindCharge, StartCheckout, StartPoll,
         Begin, ReceiveEvent, StartReconciliation, StartBackfill
<1>5. ASSUME UNCHANGED charge
      PROVE  charge' \in [Verifications -> 0 .. MaxMonths] /\ ChargedIsApproved'
  BY <1>1, <1>5 DEF ChargedIsApproved, Charged, VerificationTypeOK
<1>6. exception' \in SUBSET Verifications
  BY <1>2
  DEF HandlerStep, Start, FinalizationFails, Crash, AnswerRequest, UpsertCheckout, ReadStored,
      WriteAnswer, WriteEvent, WriteReconciliation, FindCharge, CreateCharge, StartCheckout,
      StartPoll, Begin, ReceiveEvent, StartReconciliation, StartBackfill, VerificationTypeOK
<1>7. failures' \in 0 .. MaxFailures
  <2>1. \/ UNCHANGED failures
        \/ failures < MaxFailures /\ failures' = failures + 1
    BY DEF HandlerStep, Start, FinalizationFails, Crash, AnswerRequest, UpsertCheckout,
           ReadStored, WriteAnswer, WriteEvent, WriteReconciliation, FindCharge, CreateCharge,
           StartCheckout, StartPoll, Begin, ReceiveEvent, StartReconciliation, StartBackfill
  <2>. QED  BY <2>1, VerificationAssumption DEF VerificationTypeOK
<1>. QED
  BY <1>3, <1>4, <1>5, <1>6, <1>7

\* Every step keeps the invariant.
LEMMA VerificationStep ==
  VerificationInvariant /\ [VerificationNext]_verificationVars => VerificationInvariant'
<1>1. ASSUME VerificationInvariant, NEW h \in Handlers,
             \/ HandlerStep(h) \/ FinalizationFails(h) \/ Crash(h)
             \/ \E v \in Verifications : Start(h, v)
      PROVE  VerificationInvariant'
  <2>1. PICK r : HandlerWrites(h, r)
    BY <1>1, StartWrites, HandlerStepWrites, FailureWrites
  <2>2. UNCHANGED <<agent, month>>
    BY <2>1 DEF HandlerWrites
  <2>. QED  BY <1>1, <2>1, <2>2, HandlerWritesJustified, ChargesStayApproved
       DEF VerificationInvariant, ChargesMatchDecisions, VerificationTypeOK
<1>2. ASSUME VerificationInvariant, UNCHANGED verificationVars  PROVE VerificationInvariant'
  BY <1>2
  DEF verificationVars, VerificationInvariant, ChargesMatchDecisions, VerificationTypeOK,
      ChargedIsApproved, BillableIsCharged, Charged, AgentsDated, RowsJustified,
      HandlersJustified, HandlerJustified, Justified
<1>. QED
  BY <1>1, <1>2, TimeAndDecisions DEF VerificationNext

\* Whatever the checkout, polls, duplicated or late events and the two repair
\* scripts overwrite, a vendor is charged for what the agent approved, dated
\* between the decision and the present, and unless something fails nothing
\* billable is left without a charge or a handler about to create it.
THEOREM ChargedAsDecided == VerificationSpec => []ChargesMatchDecisions
<1>1. VerificationInvariant => ChargesMatchDecisions
  BY DEF VerificationInvariant
<1>. QED
  BY <1>1, VerificationInitially, VerificationStep, PTL DEF VerificationSpec

(***************************************************************************)
(* WalletSessions.                                                         *)
(***************************************************************************)

\* The tables, without the bounds of the model on attempts and tokens.
CodeRows ==
  [device : Devices, sending : BOOLEAN, live : BOOLEAN, attempts : Nat, consumed : BOOLEAN]

SessionRows ==
  [code : Codes, token : Nat, expired : BOOLEAN, revoked : BOOLEAN, reused : BOOLEAN]

RefreshRecords == [stage : Stages, session : Nat, token : Nat, ownDevice : BOOLEAN]

SessionTables ==
  /\ code \in Seq(CodeRows)
  /\ opening \subseteq Codes
  /\ session \in Seq(SessionRows)
  /\ client \in [Clients -> RefreshRecords \cup {NoClient}]
  /\ \A r \in Clients : client[r] # NoClient => client[r].session \in DOMAIN session

\* A code that can still be used is the newest of its device.
UsableIsNewest ==
  \A i, j \in DOMAIN code :
    code[i].live /\ ~ code[i].consumed /\ i < j => code[j].device # code[i].device

\* What a refresh has obtained: new tokens in place of its own, or on its own
\* device the end of the session.
RefreshesAnswered ==
  \A r \in Clients :
    /\ client[r].stage = "GRANTED" => client[r].token < session[client[r].session].token
    /\ client[r].stage = "REFUSED" /\ client[r].ownDevice => session[client[r].session].revoked

ExchangedOnce ==
  \A r, q \in Clients :
    /\ r # q
    /\ client[r].stage = "GRANTED" /\ client[q].stage = "GRANTED"
    /\ client[r].session = client[q].session
    => client[r].token # client[q].token

SessionInvariant ==
  SessionTables /\ UsableIsNewest /\ RefreshesAnswered /\ ExchangedOnce

-----------------------------------------------------------------------------

\* No code is sent and no session open at first.
LEMMA SessionInitially == SessionInit => SessionInvariant
<1>. SUFFICES ASSUME SessionInit  PROVE SessionInvariant
  OBVIOUS
<1>1. \A r \in Clients : client[r] = NoClient /\ client[r].stage = "NONE"
  BY DEF SessionInit, NoClient
<1>2. code \in Seq(CodeRows) /\ session \in Seq(SessionRows) /\ DOMAIN code = {}
  BY DEF SessionInit
<1>3. SessionTables
  BY <1>1, <1>2 DEF SessionInit, SessionTables
<1>. QED
  BY <1>1, <1>2, <1>3
  DEF SessionInvariant, UsableIsNewest, RefreshesAnswered, ExchangedOnce

\* A step that changes one code: its device stays, and it does not become usable.
LEMMA CodeChanged ==
  ASSUME SessionInvariant, NEW i \in DOMAIN code, NEW new \in CodeRows,
         new.device = code[i].device, new.live => code[i].live,
         code[i].consumed => new.consumed,
         code' = [code EXCEPT ![i] = new]
  PROVE  code' \in Seq(CodeRows) /\ UsableIsNewest'
<1>1. code \in Seq(CodeRows)
  BY DEF SessionInvariant, SessionTables
<1>2. /\ code' \in Seq(CodeRows) /\ DOMAIN code' = DOMAIN code
      /\ code'[i] = new /\ \A j \in DOMAIN code \ {i} : code'[j] = code[j]
  BY <1>1, RowReplaced
<1>3. \A j \in DOMAIN code : /\ code'[j].device = code[j].device
                             /\ code'[j].live /\ ~ code'[j].consumed
                                  => code[j].live /\ ~ code[j].consumed
  BY <1>2
<1>. QED
  BY <1>2, <1>3 DEF SessionInvariant, UsableIsNewest

\* Codes change; sessions and refreshes do not.
LEMMA CodeSteps ==
  ASSUME SessionInvariant, UNCHANGED <<session, client>>, opening' \subseteq Codes,
         code' \in Seq(CodeRows), UsableIsNewest'
  PROVE  SessionInvariant'
  BY DEF SessionInvariant, SessionTables, RefreshesAnswered, ExchangedOnce

\* Asking for a code, its e-mail and its use keep the invariant.
LEMMA CodesStayUsable ==
  ASSUME SessionInvariant, NEW i \in Codes, NEW d \in Devices,
         \/ RequestCode(d) \/ LapseCode(i) \/ ConsumeCode(i, d)
         \/ \E ok \in BOOLEAN : FinishEmail(i, ok)
         \/ \E right \in BOOLEAN : RejectCode(i, d, right)
  PROVE  SessionInvariant'
<1>1. code \in Seq(CodeRows) /\ opening \subseteq Codes
  BY DEF SessionInvariant, SessionTables
<1>2. CASE RequestCode(d)
  <2>. DEFINE old == [j \in DOMAIN code |-> Superseded(code[j], d)]
  <2>1. DOMAIN code = 1 .. Len(code) /\ Len(code) \in Nat
    BY <1>1, LenProperties
  <2>2. \A j \in DOMAIN code :
          /\ Superseded(code[j], d) \in CodeRows
          /\ Superseded(code[j], d).device = code[j].device
          /\ Superseded(code[j], d).consumed = code[j].consumed
          /\ Superseded(code[j], d).live => code[j].live
          /\ Superseded(code[j], d).live /\ ~ code[j].consumed => code[j].device # d
    <3>. SUFFICES ASSUME NEW c \in CodeRows
                  PROVE  /\ Superseded(c, d) \in CodeRows
                         /\ Superseded(c, d).device = c.device
                         /\ Superseded(c, d).consumed = c.consumed
                         /\ Superseded(c, d).live => c.live
                         /\ Superseded(c, d).live /\ ~ c.consumed => c.device # d
      BY <1>1, <2>1, ElementOfSeq
    <3>. QED  BY DEF Superseded, CodeRows
  <2>3. old \in Seq(CodeRows) /\ DOMAIN old = DOMAIN code /\ Len(old) = Len(code)
    BY <2>1, <2>2
  <2>4. NewCode(d) \in CodeRows /\ NewCode(d).device = d
    BY DEF NewCode, CodeRows
  <2>5. code' = Append(old, NewCode(d))
    BY <1>2 DEF RequestCode
  <2>. HIDE DEF old
  <2>6. /\ code' \in Seq(CodeRows) /\ DOMAIN code' = DOMAIN code \cup {Len(code) + 1}
        /\ code'[Len(code) + 1] = NewCode(d)
        /\ \A j \in DOMAIN code : code'[j] = old[j]
    BY <2>3, <2>4, <2>5, RowAppended
  <2>7. \A j \in DOMAIN code : code'[j] = Superseded(code[j], d) /\ j <= Len(code)
    BY <2>1, <2>6 DEF old
  <2>8. UsableIsNewest'
    BY <2>1, <2>2, <2>4, <2>6, <2>7 DEF SessionInvariant, UsableIsNewest
  <2>. QED  BY <1>1, <1>2, <2>6, <2>8, CodeSteps DEF RequestCode
<1>3. ASSUME i \in DOMAIN code, NEW new \in CodeRows,
             new.device = code[i].device, new.live => code[i].live,
             code[i].consumed => new.consumed,
             code' = [code EXCEPT ![i] = new], UNCHANGED <<session, client>>,
             opening' \subseteq Codes
      PROVE  SessionInvariant'
  BY <1>3, CodeChanged, CodeSteps
<1>4. i \in DOMAIN code => code[i] \in CodeRows
  BY <1>1, LenProperties, ElementOfSeq
<1>5. CASE LapseCode(i)
  <2>1. PICK new : new = [code[i] EXCEPT !.live = FALSE]
    OBVIOUS
  <2>2. i \in DOMAIN code /\ code' = [code EXCEPT ![i] = new]
    BY <1>5, <2>1 DEF LapseCode
  <2>3. new \in CodeRows /\ new.device = code[i].device /\ ~ new.live
        /\ new.consumed = code[i].consumed
    BY <1>4, <2>1, <2>2 DEF CodeRows
  <2>. QED  BY <1>1, <1>3, <1>5, <2>2, <2>3 DEF LapseCode
<1>6. ASSUME NEW ok \in BOOLEAN, FinishEmail(i, ok)  PROVE SessionInvariant'
  <2>1. PICK new : new = [code[i] EXCEPT !.sending = FALSE,
                                         !.live = @ /\ (ok \/ code[i].consumed)]
    OBVIOUS
  <2>2. i \in DOMAIN code /\ code' = [code EXCEPT ![i] = new]
    BY <1>4, <1>6, <2>1 DEF FinishEmail
  <2>3. new \in CodeRows /\ new.device = code[i].device /\ (new.live => code[i].live)
        /\ new.consumed = code[i].consumed
    BY <1>4, <2>1, <2>2 DEF CodeRows
  <2>. QED  BY <1>1, <1>3, <1>6, <2>2, <2>3 DEF FinishEmail
<1>7. ASSUME NEW right \in BOOLEAN, RejectCode(i, d, right)  PROVE SessionInvariant'
  <2>1. PICK new : new = [code[i] EXCEPT !.attempts = @ + 1]
    OBVIOUS
  <2>2. i \in DOMAIN code /\ code' = [code EXCEPT ![i] = new]
    BY <1>7, <2>1 DEF RejectCode
  <2>3. new \in CodeRows /\ new.device = code[i].device /\ (new.live => code[i].live)
        /\ new.consumed = code[i].consumed
    BY <1>4, <2>1, <2>2 DEF CodeRows
  <2>. QED  BY <1>1, <1>3, <1>7, <2>2, <2>3 DEF RejectCode
<1>8. CASE ConsumeCode(i, d)
  <2>1. PICK new : new = [code[i] EXCEPT !.attempts = @ + 1, !.consumed = TRUE]
    OBVIOUS
  <2>2. i \in DOMAIN code /\ code' = [code EXCEPT ![i] = new]
    BY <1>4, <1>8, <2>1 DEF ConsumeCode
  <2>3. code[i] \in CodeRows /\ code[i].attempts + 1 \in Nat
    BY <1>4, <2>2 DEF CodeRows
  <2>4. new \in CodeRows
    BY <2>1, <2>3 DEF CodeRows
  <2>5. new.device = code[i].device /\ new.live = code[i].live /\ new.consumed = TRUE
    BY <2>1, <2>3 DEF CodeRows
  <2>. QED  BY <1>1, <1>3, <1>8, <2>2, <2>4, <2>5 DEF ConsumeCode
<1>. QED
  BY <1>2, <1>5, <1>6, <1>7, <1>8

\* A step that changes one session, if any, and one refresh, if any: no token is
\* taken back and no revoked session revived.
SessionChanges(s, new) ==
  /\ s \in DOMAIN session /\ new \in SessionRows
  /\ session[s].token <= new.token
  /\ session[s].revoked => new.revoked
  /\ session' = [session EXCEPT ![s] = new]

\* A session's token only grows and a revocation stays.
LEMMA SessionsOnlyGrow ==
  ASSUME SessionInvariant, UNCHANGED session \/ \E s, new : SessionChanges(s, new)
  PROVE  /\ session' \in Seq(SessionRows) /\ DOMAIN session' = DOMAIN session
         /\ \A s \in DOMAIN session :
              /\ session[s].token \in Nat /\ session'[s].token \in Nat
              /\ session[s].token <= session'[s].token
              /\ session[s].revoked => session'[s].revoked
<1>1. session \in Seq(SessionRows) /\ \A s \in DOMAIN session : session[s] \in SessionRows
  BY LenProperties, ElementOfSeq DEF SessionInvariant, SessionTables
<1>2. CASE UNCHANGED session
  BY <1>1, <1>2 DEF SessionRows
<1>3. ASSUME NEW s, NEW new, SessionChanges(s, new)
      PROVE  /\ session' \in Seq(SessionRows) /\ DOMAIN session' = DOMAIN session
             /\ \A t \in DOMAIN session :
                  /\ session[t].token \in Nat /\ session'[t].token \in Nat
                  /\ session[t].token <= session'[t].token
                  /\ session[t].revoked => session'[t].revoked
  <2>1. /\ session' \in Seq(SessionRows) /\ DOMAIN session' = DOMAIN session
        /\ session'[s] = new /\ \A t \in DOMAIN session \ {s} : session'[t] = session[t]
    BY <1>1, <1>3, RowReplaced DEF SessionChanges
  <2>. QED  BY <1>1, <1>3, <2>1 DEF SessionChanges, SessionRows
<1>. QED
  BY <1>2, <1>3

\* What is left to show of a step once the sessions are known to grow: its own
\* refresh, and that it alone obtained the tokens it obtained.
LEMMA RefreshSteps ==
  ASSUME SessionInvariant, UNCHANGED <<code, opening>>,
         UNCHANGED session \/ (\E s, new : SessionChanges(s, new)),
         NEW r \in Clients, NEW record \in RefreshRecords,
         client' = [client EXCEPT ![r] = record],
         record.session \in DOMAIN session,
         record.stage = "GRANTED" =>
           /\ record.token < session'[record.session].token
           /\ session[record.session].token = record.token,
         record.stage = "REFUSED" /\ record.ownDevice => session'[record.session].revoked
  PROVE  SessionInvariant'
<1>1. /\ client \in [Clients -> RefreshRecords \cup {NoClient}]
      /\ \A q \in Clients : client[q] # NoClient => client[q].session \in DOMAIN session
  BY DEF SessionInvariant, SessionTables
<1>2. /\ session' \in Seq(SessionRows) /\ DOMAIN session' = DOMAIN session
      /\ \A s \in DOMAIN session :
           /\ session[s].token \in Nat /\ session'[s].token \in Nat
           /\ session[s].token <= session'[s].token
           /\ session[s].revoked => session'[s].revoked
  BY SessionsOnlyGrow
<1>3. client'[r] = record /\ \A q \in Clients \ {r} : client'[q] = client[q]
  BY <1>1
<1>4. SessionTables'
  BY <1>1, <1>2, <1>3 DEF SessionInvariant, SessionTables
<1>5. UsableIsNewest'
  BY DEF SessionInvariant, UsableIsNewest
<1>6. ASSUME NEW q \in Clients, q # r, client[q].stage \in {"GRANTED", "REFUSED"}
      PROVE  /\ client[q] \in RefreshRecords /\ client[q].session \in DOMAIN session
             /\ client[q].stage = "GRANTED" =>
                  client[q].token < session[client[q].session].token
             /\ client[q].stage = "REFUSED" /\ client[q].ownDevice =>
                  session[client[q].session].revoked
  <2>1. client[q] # NoClient
    BY <1>6 DEF NoClient
  <2>. QED  BY <1>1, <2>1 DEF SessionInvariant, RefreshesAnswered
<1>7. RefreshesAnswered'
  <2>. SUFFICES ASSUME NEW q \in Clients
                PROVE  /\ client'[q].stage = "GRANTED" =>
                            client'[q].token < session'[client'[q].session].token
                       /\ client'[q].stage = "REFUSED" /\ client'[q].ownDevice =>
                            session'[client'[q].session].revoked
    BY DEF RefreshesAnswered
  <2>1. CASE q = r
    BY <1>3, <2>1
  <2>2. CASE q # r
    BY <1>2, <1>3, <1>6, <2>2 DEF RefreshRecords
  <2>. QED  BY <2>1, <2>2
<1>8. ExchangedOnce'
  <2>1. ASSUME NEW q \in Clients, q # r, client[q].stage = "GRANTED",
               record.stage = "GRANTED", client[q].session = record.session
        PROVE  client[q].token # record.token
    BY <1>2, <1>6, <2>1 DEF RefreshRecords
  <2>. QED  BY <1>3, <2>1 DEF SessionInvariant, ExchangedOnce
<1>. QED
  BY <1>4, <1>5, <1>7, <1>8 DEF SessionInvariant

\* A change of one session leaves every refresh as it was answered.
LEMMA RefreshesStand ==
  ASSUME SessionInvariant, UNCHANGED <<code, opening, client>>,
         UNCHANGED session \/ \E s, new : SessionChanges(s, new)
  PROVE  SessionInvariant'
<1>1. /\ session' \in Seq(SessionRows) /\ DOMAIN session' = DOMAIN session
      /\ \A s \in DOMAIN session :
           /\ session[s].token \in Nat /\ session'[s].token \in Nat
           /\ session[s].token <= session'[s].token
           /\ session[s].revoked => session'[s].revoked
  BY SessionsOnlyGrow
<1>2. SessionTables'
  BY <1>1 DEF SessionInvariant, SessionTables
<1>3. RefreshesAnswered'
  <2>1. ASSUME NEW q \in Clients, client[q].stage \in {"GRANTED", "REFUSED"}
        PROVE  client[q] \in RefreshRecords /\ client[q].session \in DOMAIN session
    <3>1. client[q] # NoClient
      BY <2>1 DEF NoClient
    <3>. QED  BY <3>1 DEF SessionInvariant, SessionTables
  <2>. QED  BY <1>1, <2>1 DEF SessionInvariant, RefreshesAnswered, RefreshRecords
<1>. QED
  BY <1>2, <1>3 DEF SessionInvariant, UsableIsNewest, ExchangedOnce

\* A session that opens keeps the invariant.
LEMMA SessionsOpened ==
  ASSUME SessionInvariant, NEW i \in Codes, CreateSession(i)
  PROVE  SessionInvariant'
<1>1. session \in Seq(SessionRows)
  BY DEF SessionInvariant, SessionTables
<1>2. PICK new : new = [code |-> i, token |-> 1, expired |-> FALSE, revoked |-> FALSE,
                        reused |-> FALSE]
  OBVIOUS
<1>3. new \in SessionRows /\ session' = Append(session, new)
  BY <1>2 DEF SessionRows, CreateSession
<1>4. /\ session' \in Seq(SessionRows) /\ DOMAIN session \subseteq DOMAIN session'
      /\ \A s \in DOMAIN session : session'[s] = session[s]
  BY <1>1, <1>3, RowAppended
<1>5. opening' \subseteq Codes /\ UNCHANGED <<code, client>>
  BY DEF CreateSession, SessionInvariant, SessionTables
<1>6. SessionTables'
  BY <1>4, <1>5 DEF SessionInvariant, SessionTables
<1>7. RefreshesAnswered'
  <2>1. ASSUME NEW q \in Clients, client[q].stage \in {"GRANTED", "REFUSED"}
        PROVE  client[q].session \in DOMAIN session
    <3>1. client[q] # NoClient
      BY <2>1 DEF NoClient
    <3>. QED  BY <3>1 DEF SessionInvariant, SessionTables
  <2>. QED  BY <1>4, <1>5, <2>1 DEF SessionInvariant, RefreshesAnswered
<1>. QED
  BY <1>5, <1>6, <1>7 DEF SessionInvariant, UsableIsNewest, ExchangedOnce

\* The statements of a refresh keep the invariant.
LEMMA RefreshesAnsweredStep ==
  ASSUME SessionInvariant, NEW r \in Clients,
         \/ \E s \in Sessions, t \in Tokens, own \in BOOLEAN : ReadSession(r, s, t, own)
         \/ EndSession(r) \/ RevokeReused(r)
         \/ RotateTokens(r) \/ LoseRotation(r) \/ RevokeRaced(r)
  PROVE  SessionInvariant'
<1>1. /\ session \in Seq(SessionRows) /\ \A s \in DOMAIN session : session[s] \in SessionRows
      /\ client \in [Clients -> RefreshRecords \cup {NoClient}]
      /\ \A q \in Clients : client[q] # NoClient => client[q].session \in DOMAIN session
  BY LenProperties, ElementOfSeq DEF SessionInvariant, SessionTables
<1>2. Tokens \subseteq Nat
  BY SessionAssumption, FS_CardinalityType DEF Tokens
<1>3. ASSUME NEW s \in Sessions, NEW t \in Tokens, NEW own \in BOOLEAN, ReadSession(r, s, t, own)
      PROVE  SessionInvariant'
  <2>1. PICK record : record = [stage |-> Reading(s, t, own), session |-> s, token |-> t,
                                ownDevice |-> own]
    OBVIOUS
  <2>2. s \in DOMAIN session /\ s \in Nat /\ t \in Nat
        /\ client' = [client EXCEPT ![r] = record]
    BY <1>1, <1>2, <1>3, <2>1, LenProperties DEF ReadSession
  <2>3. /\ Reading(s, t, own) \in {"ENDED", "REFUSED", "EXCHANGED", "MATCHED"}
        /\ Reading(s, t, own) = "REFUSED" /\ own => session[s].revoked
    BY <1>1, <2>2 DEF Reading, SessionRows
  <2>4. record \in RefreshRecords /\ record.session = s /\ record.stage # "GRANTED"
        /\ (record.stage = "REFUSED" /\ record.ownDevice => session[s].revoked)
    BY <2>1, <2>2, <2>3 DEF RefreshRecords, Stages
  <2>. QED  BY <1>3, <2>2, <2>4, RefreshSteps DEF ReadSession
<1>. DEFINE s == client[r].session
<1>4. ASSUME client[r].stage \in {"ENDED", "EXCHANGED", "MATCHED", "RACED"}
      PROVE  client[r] \in RefreshRecords /\ s \in DOMAIN session /\ session[s] \in SessionRows
  <2>1. client[r] # NoClient
    BY <1>4 DEF NoClient
  <2>. QED  BY <1>1, <2>1
\* A refresh is refused, and its session ends.
<1>5. ASSUME NEW new \in SessionRows, client[r].stage \in {"ENDED", "EXCHANGED", "RACED"},
             Refused(r), new.token = session[s].token, new.revoked = TRUE,
             session' = [session EXCEPT ![s] = new], UNCHANGED <<code, opening>>
      PROVE  SessionInvariant'
  <2>1. PICK record : record = [client[r] EXCEPT !.stage = "REFUSED"]
    OBVIOUS
  <2>2. record \in RefreshRecords /\ record.session = s /\ record.stage = "REFUSED"
    BY <1>4, <1>5, <2>1 DEF RefreshRecords, Stages
  <2>3. client' = [client EXCEPT ![r] = record]
    BY <1>1, <1>5, <2>1 DEF Refused
  <2>4. SessionChanges(s, new)
    BY <1>4, <1>5 DEF SessionChanges, SessionRows
  <2>5. session'[s].revoked
    BY <1>1, <1>4, <1>5, RowReplaced
  <2>. QED  BY <1>4, <1>5, <2>2, <2>3, <2>4, <2>5, RefreshSteps
<1>6. CASE EndSession(r)
  <2>1. PICK new : new = [session[s] EXCEPT !.revoked = TRUE]
    OBVIOUS
  <2>2. new \in SessionRows /\ new.token = session[s].token /\ new.revoked = TRUE
    BY <1>4, <1>6, <2>1 DEF EndSession, SessionRows
  <2>3. session' = [session EXCEPT ![s] = new]
    BY <1>6, <2>1 DEF EndSession
  <2>. QED  BY <1>5, <1>6, <2>2, <2>3 DEF EndSession
<1>7. CASE RevokeReused(r)
  <2>1. PICK new : new = [session[s] EXCEPT !.revoked = TRUE, !.reused = TRUE]
    OBVIOUS
  <2>2. new \in SessionRows /\ new.token = session[s].token /\ new.revoked = TRUE
    BY <1>4, <1>7, <2>1 DEF RevokeReused, SessionRows
  <2>3. session' = [session EXCEPT ![s] = new]
    BY <1>1, <1>4, <1>7, <2>1 DEF RevokeReused
  <2>. QED  BY <1>5, <1>7, <2>2, <2>3 DEF RevokeReused
<1>8. CASE RevokeRaced(r)
  <2>1. PICK new : new = IF session[s].revoked THEN session[s]
                         ELSE [session[s] EXCEPT !.revoked = TRUE, !.reused = TRUE]
    OBVIOUS
  <2>2. new \in SessionRows /\ new.token = session[s].token /\ new.revoked = TRUE
    BY <1>4, <1>8, <2>1 DEF RevokeRaced, SessionRows
  <2>3. session' = [session EXCEPT ![s] = new]
    BY <1>8, <2>1 DEF RevokeRaced
  <2>. QED  BY <1>5, <1>8, <2>2, <2>3 DEF RevokeRaced
<1>9. CASE LoseRotation(r)
  <2>1. PICK record : record = [client[r] EXCEPT !.stage = "RACED"]
    OBVIOUS
  <2>2. record \in RefreshRecords /\ record.session = s /\ record.stage = "RACED"
    BY <1>4, <1>9, <2>1 DEF LoseRotation, RefreshRecords, Stages
  <2>3. client' = [client EXCEPT ![r] = record]
    BY <1>9, <2>1 DEF LoseRotation
  <2>. QED  BY <1>4, <1>9, <2>2, <2>3, RefreshSteps DEF LoseRotation
<1>10. CASE RotateTokens(r)
  <2>1. PICK record : record = [client[r] EXCEPT !.stage = "GRANTED"]
    OBVIOUS
  <2>2. record \in RefreshRecords /\ record.session = s /\ record.token = client[r].token
    BY <1>4, <1>10, <2>1 DEF RotateTokens, RefreshRecords, Stages
  <2>3. client' = [client EXCEPT ![r] = record] /\ record.stage = "GRANTED"
    BY <1>4, <1>10, <2>1 DEF RotateTokens, RefreshRecords
  <2>4. PICK new : new = [session[s] EXCEPT !.token = @ + 1, !.expired = FALSE]
    OBVIOUS
  <2>5. s \in DOMAIN session /\ session[s] \in SessionRows /\ session[s].token \in Nat
        /\ session[s].token = client[r].token
    BY <1>4, <1>10 DEF RotateTokens, CanRotate, SessionRows
  <2>6. new \in SessionRows /\ new.token = session[s].token + 1
        /\ new.revoked = session[s].revoked
    <3>. HIDE DEF s
    <3>1. session[s].token + 1 \in Nat
      BY <2>5
    <3>2. new \in SessionRows
      BY <2>4, <2>5, <3>1 DEF SessionRows
    <3>3. new.token = session[s].token + 1
      BY <2>4, <2>5 DEF SessionRows
    <3>4. new.revoked = session[s].revoked
      BY <2>4, <2>5 DEF SessionRows
    <3>. QED  BY <3>2, <3>3, <3>4
  <2>7. session' = [session EXCEPT ![s] = new]
    BY <1>1, <1>10, <2>4, <2>5 DEF RotateTokens
  <2>8. SessionChanges(s, new)
    BY <2>5, <2>6, <2>7 DEF SessionChanges
  <2>9. session'[s].token = client[r].token + 1 /\ client[r].token \in Nat
    BY <1>1, <2>5, <2>6, <2>7, RowReplaced
  <2>10. /\ record.token < session'[record.session].token
         /\ session[record.session].token = record.token
    BY <2>2, <2>5, <2>9
  <2>. QED  BY <1>10, <2>2, <2>3, <2>5, <2>8, <2>10, RefreshSteps DEF RotateTokens
<1>. QED
  BY <1>3, <1>6, <1>7, <1>8, <1>9, <1>10

\* Every step keeps the invariant.
LEMMA SessionStep == SessionInvariant /\ [SessionNext]_sessionVars => SessionInvariant'
<1>1. ASSUME SessionInvariant, NEW s \in Sessions, RevokeSession(s) \/ ExpireSession(s)
      PROVE  SessionInvariant'
  <2>1. s \in DOMAIN session /\ session[s] \in SessionRows
    BY <1>1, LenProperties, ElementOfSeq
    DEF RevokeSession, ExpireSession, SessionInvariant, SessionTables
  <2>2. CASE RevokeSession(s)
    <3>1. PICK new : new = [session[s] EXCEPT !.revoked = TRUE]
      OBVIOUS
    <3>2. new \in SessionRows
      BY <2>1, <3>1 DEF SessionRows
    <3>3. new.token = session[s].token /\ session[s].token \in Nat
          /\ (session[s].revoked => new.revoked)
      BY <2>1, <3>1 DEF SessionRows
    <3>4. SessionChanges(s, new)
      BY <2>1, <2>2, <3>1, <3>2, <3>3 DEF SessionChanges, RevokeSession
    <3>. QED  BY <1>1, <2>2, <3>4, RefreshesStand DEF RevokeSession
  <2>3. CASE ExpireSession(s)
    <3>1. PICK new : new = [session[s] EXCEPT !.expired = TRUE]
      OBVIOUS
    <3>2. new \in SessionRows
      BY <2>1, <3>1 DEF SessionRows
    <3>3. new.token = session[s].token /\ session[s].token \in Nat
          /\ (session[s].revoked => new.revoked)
      BY <2>1, <3>1 DEF SessionRows
    <3>4. SessionChanges(s, new)
      BY <2>1, <2>3, <3>1, <3>2, <3>3 DEF SessionChanges, ExpireSession
    <3>. QED  BY <1>1, <2>3, <3>4, RefreshesStand DEF ExpireSession
  <2>. QED  BY <1>1, <2>2, <2>3
<1>2. ASSUME SessionInvariant, UNCHANGED sessionVars  PROVE SessionInvariant'
  BY <1>2, RefreshesStand DEF sessionVars
<1>3. ASSUME SessionInvariant, NEW d \in Devices, RequestCode(d)  PROVE SessionInvariant'
  <2>1. 1 \in Codes
    BY <1>3, LenProperties, SessionAssumption
    DEF RequestCode, SessionInvariant, SessionTables, Codes
  <2>. QED  BY <1>3, <2>1, CodesStayUsable
<1>4. ASSUME SessionInvariant, NEW i \in Codes, LapseCode(i) \/ \E ok \in BOOLEAN : FinishEmail(i, ok)
      PROVE  SessionInvariant'
  <2>1. PICK d \in Devices : TRUE
    BY <1>4, LenProperties, ElementOfSeq
    DEF LapseCode, FinishEmail, SessionInvariant, SessionTables, CodeRows
  <2>. QED  BY <1>4, CodesStayUsable
<1>. QED
  BY <1>1, <1>2, <1>3, <1>4, CodesStayUsable, SessionsOpened, RefreshesAnsweredStep
  DEF SessionNext

\* A refresh token that is presented twice on its device is exchanged at most
\* once and ends the session, however the reads, the conditional updates and the
\* revocations of the two refreshes interleave with those of others.
THEOREM ReuseEndsSession == SessionSpec => []ReusedTokenEndsSession
<1>1. SessionInvariant => ReusedTokenEndsSession
  BY DEF SessionInvariant, RefreshesAnswered, ExchangedOnce, ReusedTokenEndsSession
<1>. QED
  BY <1>1, SessionInitially, SessionStep, PTL DEF SessionSpec

\* Only the newest code of a device opens a session.
THEOREM NewestCodeOpens == SessionSpec => OnlyNewestCodeOpens
<1>. DEFINE Opens == \A i \in DOMAIN code :
       code'[i].consumed /\ ~ code[i].consumed =>
         \A j \in DOMAIN code : j > i => code[j].device # code[i].device
<1>1. SessionInvariant /\ [SessionNext]_sessionVars => Opens \/ UNCHANGED sessionVars
  <2>. SUFFICES ASSUME SessionInvariant, SessionNext, NEW i \in DOMAIN code,
                       code'[i].consumed, ~ code[i].consumed
                PROVE  \A j \in DOMAIN code : j > i => code[j].device # code[i].device
    BY DEF sessionVars
  <2>1. code \in Seq(CodeRows) /\ DOMAIN code = 1 .. Len(code) /\ Len(code) \in Nat
        /\ \A j \in DOMAIN code : code[j] \in CodeRows
    BY LenProperties, ElementOfSeq DEF SessionInvariant, SessionTables
  <2>2. CASE \E d \in Devices : ConsumeCode(i, d)
    BY <2>1, <2>2 DEF ConsumeCode, Accepts, SessionInvariant, UsableIsNewest
  <2>3. CASE \E d \in Devices : RequestCode(d)
    <3>1. PICK d \in Devices : RequestCode(d)
      BY <2>3
    <3>2. PICK old \in Seq(CodeRows) :
            /\ old = [j \in DOMAIN code |-> Superseded(code[j], d)]
            /\ code' = Append(old, NewCode(d))
      BY <2>1, <3>1 DEF RequestCode, Superseded, CodeRows
    <3>3. NewCode(d) \in CodeRows /\ i \in DOMAIN old
      BY <3>2 DEF NewCode, CodeRows
    <3>4. code'[i] = Superseded(code[i], d)
      BY <3>2, <3>3, RowAppended
    <3>. QED  BY <2>1, <3>4 DEF Superseded, CodeRows
  <2>4. CASE ~ (\E d \in Devices : ConsumeCode(i, d) \/ RequestCode(d))
    <3>1. UNCHANGED code \/ code'[i].consumed = code[i].consumed
      BY <2>1, <2>4
      DEF SessionNext, LapseCode, FinishEmail, RejectCode, ConsumeCode, CreateSession,
          ReadSession, EndSession, RevokeReused, RotateTokens, LoseRotation, RevokeRaced,
          RevokeSession, ExpireSession, CodeRows
    <3>. QED  BY <3>1
  <2>. QED  BY <2>2, <2>3, <2>4
<1>. QED
  BY <1>1, SessionInitially, SessionStep, PTL DEF SessionSpec, OnlyNewestCodeOpens

(***************************************************************************)
(* VendorOnboarding.                                                       *)
(***************************************************************************)

OnboardingTables ==
  /\ request \in Seq(RequestRecords)
  /\ acceptance \in [Branches -> [status : {"NONE", "ACTIVE", "CLOSED"}, request : Nat]]
  /\ {payout, ownerPage} \subseteq References \cup {None}

IsActive(r) == r.status \in {"PENDING", "APPROVED"}

OneActiveRequest ==
  \A q, p \in DOMAIN request :
    /\ request[q].branch = request[p].branch
    /\ IsActive(request[q]) /\ IsActive(request[p])
    => q = p

\* A request names the account that its owner confirmed.
RequestedAsConfirmed == \A q \in DOMAIN request : request[q].reference = request[q].confirmed

\* AcceptanceIsBacked, request by request.
ApprovedIsAccepted ==
  /\ \A q \in DOMAIN request :
       request[q].status = "APPROVED" =>
         /\ acceptance[request[q].branch].status = "ACTIVE"
         /\ acceptance[request[q].branch].request = q
  /\ \A b \in Branches :
       acceptance[b].status = "ACTIVE" =>
         /\ acceptance[b].request \in DOMAIN request
         /\ request[acceptance[b].request].branch = b
         /\ request[acceptance[b].request].status = "APPROVED"

OnboardingInvariant ==
  OnboardingTables /\ OneActiveRequest /\ RequestedAsConfirmed /\ ApprovedIsAccepted

-----------------------------------------------------------------------------

\* Nothing is requested or accepted at first.
LEMMA OnboardingInitially == OnboardingInit => OnboardingInvariant
<1>. SUFFICES ASSUME OnboardingInit  PROVE OnboardingInvariant
  OBVIOUS
<1>1. request \in Seq(RequestRecords) /\ DOMAIN request = {}
  BY DEF OnboardingInit
<1>2. OnboardingTables
  BY <1>1 DEF OnboardingInit, OnboardingTables, None
<1>. QED
  BY <1>1, <1>2
  DEF OnboardingInit, OnboardingInvariant, OneActiveRequest, RequestedAsConfirmed,
      ApprovedIsAccepted

\* A step that changes one request, and does not make an ended one active.
RequestChanges(q, new) ==
  /\ q \in DOMAIN request /\ new \in RequestRecords
  /\ request' = [request EXCEPT ![q] = new]
  /\ new.branch = request[q].branch
  /\ new.reference = new.confirmed
  /\ IsActive(new) => IsActive(request[q])

\* A change of one request leaves the others and what was confirmed.
LEMMA RequestsStay ==
  ASSUME OnboardingInvariant, NEW q, NEW new, RequestChanges(q, new)
  PROVE  /\ request' \in Seq(RequestRecords) /\ DOMAIN request' = DOMAIN request
         /\ request'[q] = new /\ \A p \in DOMAIN request \ {q} : request'[p] = request[p]
         /\ OneActiveRequest' /\ RequestedAsConfirmed'
<1>1. request \in Seq(RequestRecords)
  BY DEF OnboardingInvariant, OnboardingTables
<1>2. /\ request' \in Seq(RequestRecords) /\ DOMAIN request' = DOMAIN request
      /\ request'[q] = new /\ \A p \in DOMAIN request \ {q} : request'[p] = request[p]
  BY <1>1, RowReplaced DEF RequestChanges
<1>3. \A p \in DOMAIN request :
        /\ request'[p].branch = request[p].branch
        /\ IsActive(request'[p]) => IsActive(request[p])
  BY <1>2 DEF RequestChanges
<1>4. OneActiveRequest'
  <2>. SUFFICES ASSUME NEW p \in DOMAIN request, NEW u \in DOMAIN request,
                       request'[p].branch = request'[u].branch,
                       IsActive(request'[p]), IsActive(request'[u])
                PROVE  p = u
    BY <1>2 DEF OneActiveRequest, IsActive
  <2>. QED  BY <1>3 DEF OnboardingInvariant, OneActiveRequest
<1>5. RequestedAsConfirmed'
  BY <1>2 DEF OnboardingInvariant, RequestedAsConfirmed, RequestChanges
<1>. QED
  BY <1>2, <1>4, <1>5

\* Every step keeps the invariant.
LEMMA OnboardingStep ==
  OnboardingInvariant /\ [OnboardingNext]_onboardingVars => OnboardingInvariant'
<1>. SUFFICES ASSUME OnboardingInvariant, [OnboardingNext]_onboardingVars
              PROVE  OnboardingInvariant'
  OBVIOUS
<1>1. /\ request \in Seq(RequestRecords)
      /\ \A q \in DOMAIN request : request[q] \in RequestRecords /\ q \in Nat
  BY LenProperties, ElementOfSeq DEF OnboardingInvariant, OnboardingTables
<1>2. ASSUME UNCHANGED <<request, acceptance>>,
             {payout, ownerPage}' \subseteq References \cup {None}
      PROVE  OnboardingInvariant'
  BY <1>2
  DEF OnboardingInvariant, OnboardingTables, OneActiveRequest, RequestedAsConfirmed,
      ApprovedIsAccepted, IsActive
\* Steps that neither approve nor revoke.
<1>3. ASSUME NEW q, NEW new, RequestChanges(q, new), request[q].status = "PENDING",
             new.status # "APPROVED", UNCHANGED <<acceptance, payout, ownerPage>>
      PROVE  OnboardingInvariant'
  <2>1. /\ request' \in Seq(RequestRecords) /\ DOMAIN request' = DOMAIN request
        /\ request'[q] = new /\ \A p \in DOMAIN request \ {q} : request'[p] = request[p]
        /\ OneActiveRequest' /\ RequestedAsConfirmed'
    BY <1>3, RequestsStay
  <2>2. \A p \in DOMAIN request :
          /\ request'[p].status = "APPROVED" <=> request[p].status = "APPROVED"
          /\ request'[p].branch = request[p].branch
    BY <1>3, <2>1 DEF RequestChanges
  <2>3. ApprovedIsAccepted'
    BY <1>3, <2>1, <2>2 DEF OnboardingInvariant, ApprovedIsAccepted
  <2>. QED  BY <1>3, <2>1, <2>3 DEF OnboardingInvariant, OnboardingTables
<1>4. ASSUME NEW b \in Branches, SubmitRequest(b)  PROVE OnboardingInvariant'
  <2>1. PICK new : new = [branch |-> b, status |-> "PENDING", reference |-> payout,
                          confirmed |-> ownerPage]
    OBVIOUS
  <2>2. request' = Append(request, new) /\ payout = ownerPage /\ payout \in References
        /\ ActiveRequests(b) = {}
    BY <1>4, <2>1
    DEF SubmitRequest, MayRequest, OwnerIsCurrent, OnboardingInvariant, OnboardingTables
  <2>3. new \in RequestRecords /\ new.branch = b /\ new.status = "PENDING"
        /\ new.reference = new.confirmed
    BY <2>1, <2>2 DEF RequestRecords
  <2>4. /\ request' \in Seq(RequestRecords)
        /\ DOMAIN request' = DOMAIN request \cup {Len(request) + 1}
        /\ request'[Len(request) + 1] = new
        /\ \A q \in DOMAIN request : request'[q] = request[q]
    BY <1>1, <2>2, <2>3, RowAppended
  <2>5. \A q \in DOMAIN request : IsActive(request[q]) => request[q].branch # b
    BY <2>2 DEF ActiveRequests, IsActive
  <2>6. OneActiveRequest'
    BY <2>3, <2>4, <2>5 DEF OnboardingInvariant, OneActiveRequest, IsActive
  <2>7. RequestedAsConfirmed'
    BY <2>3, <2>4 DEF OnboardingInvariant, RequestedAsConfirmed
  <2>8. ApprovedIsAccepted'
    BY <1>4, <2>3, <2>4 DEF SubmitRequest, OnboardingInvariant, ApprovedIsAccepted
  <2>. QED  BY <1>4, <2>4, <2>6, <2>7, <2>8 DEF SubmitRequest, OnboardingInvariant, OnboardingTables
<1>5. ASSUME NEW b \in Branches, ReconfirmRequest(b)  PROVE OnboardingInvariant'
  <2>1. payout = ownerPage /\ payout \in References
    BY <1>5
    DEF ReconfirmRequest, MayRequest, OwnerIsCurrent, OnboardingInvariant, OnboardingTables
  <2>2. PICK q \in DOMAIN request :
          /\ request[q].status = "PENDING"
          /\ request' = [request EXCEPT ![q].reference = payout, ![q].confirmed = ownerPage]
    BY <1>5 DEF ReconfirmRequest, ActiveRequests
  <2>3. PICK new : new = [request[q] EXCEPT !.reference = payout, !.confirmed = ownerPage]
    OBVIOUS
  <2>4. new \in RequestRecords
    BY <1>1, <2>1, <2>3 DEF RequestRecords
  <2>5. new.branch = request[q].branch /\ new.status = "PENDING"
        /\ new.reference = new.confirmed
    BY <1>1, <2>1, <2>2, <2>3 DEF RequestRecords
  <2>6. request' = [request EXCEPT ![q] = new]
    BY <1>1, <2>2, <2>3
  <2>7. RequestChanges(q, new)
    BY <2>2, <2>4, <2>5, <2>6 DEF RequestChanges, IsActive
  <2>. QED  BY <1>3, <1>5, <2>2, <2>5, <2>7 DEF ReconfirmRequest
<1>6. ASSUME NEW q \in Requests, RejectRequest(q)  PROVE OnboardingInvariant'
  <2>1. PICK new : new = [request[q] EXCEPT !.status = "REJECTED"]
    OBVIOUS
  <2>2. q \in DOMAIN request /\ request' = [request EXCEPT ![q] = new]
        /\ request[q].status = "PENDING"
    BY <1>6, <2>1 DEF RejectRequest
  <2>3. new \in RequestRecords /\ new.branch = request[q].branch /\ new.status = "REJECTED"
        /\ new.reference = new.confirmed
    BY <1>1, <2>1, <2>2 DEF RequestRecords, OnboardingInvariant, RequestedAsConfirmed
  <2>4. RequestChanges(q, new)
    BY <2>2, <2>3 DEF RequestChanges, IsActive
  <2>. QED  BY <1>3, <1>6, <2>2, <2>3, <2>4 DEF RejectRequest
<1>7. ASSUME NEW q \in Requests, ApproveRequest(q)  PROVE OnboardingInvariant'
  <2>. DEFINE b == request[q].branch
  <2>1. PICK new : new = [request[q] EXCEPT !.status = "APPROVED"]
    OBVIOUS
  <2>2. q \in DOMAIN request /\ request' = [request EXCEPT ![q] = new]
        /\ request[q].status = "PENDING" /\ b \in Branches /\ q \in Nat
    BY <1>1, <1>7, <2>1 DEF ApproveRequest, RequestRecords
  <2>3. new \in RequestRecords /\ new.branch = b /\ new.status = "APPROVED"
        /\ new.reference = new.confirmed
    BY <1>1, <2>1, <2>2 DEF RequestRecords, OnboardingInvariant, RequestedAsConfirmed
  <2>4. RequestChanges(q, new)
    BY <2>2, <2>3 DEF RequestChanges, IsActive
  <2>5. /\ request' \in Seq(RequestRecords) /\ DOMAIN request' = DOMAIN request
        /\ request'[q] = new /\ \A p \in DOMAIN request \ {q} : request'[p] = request[p]
        /\ OneActiveRequest' /\ RequestedAsConfirmed'
    BY <2>4, RequestsStay
  <2>6. acceptance' = [acceptance EXCEPT ![b] = [status |-> "ACTIVE", request |-> q]]
    BY <1>7 DEF ApproveRequest
  <2>7. \A p \in DOMAIN request : request[p].branch = b /\ p # q => request[p].status # "APPROVED"
    BY <2>2 DEF OnboardingInvariant, OneActiveRequest, IsActive
  <2>. HIDE DEF b
  <2>8. /\ acceptance' \in [Branches -> [status : {"NONE", "ACTIVE", "CLOSED"}, request : Nat]]
        /\ acceptance'[b].status = "ACTIVE" /\ acceptance'[b].request = q
        /\ \A c \in Branches \ {b} : acceptance'[c] = acceptance[c]
    BY <2>2, <2>6 DEF OnboardingInvariant, OnboardingTables
  <2>9. \A p \in DOMAIN request : request[p] \in RequestRecords /\ request[p].branch \in Branches
    BY <1>1 DEF RequestRecords
  <2>10. ApprovedIsAccepted'
    <3>1. ASSUME NEW p \in DOMAIN request, request'[p].status = "APPROVED"
          PROVE  /\ acceptance'[request'[p].branch].status = "ACTIVE"
                 /\ acceptance'[request'[p].branch].request = p
      <4>1. CASE p = q
        BY <2>3, <2>5, <2>8, <4>1
      <4>2. CASE p # q
        BY <2>5, <2>7, <2>8, <2>9, <3>1, <4>2 DEF OnboardingInvariant, ApprovedIsAccepted
      <4>. QED  BY <4>1, <4>2
    <3>2. ASSUME NEW c \in Branches, acceptance'[c].status = "ACTIVE"
          PROVE  /\ acceptance'[c].request \in DOMAIN request
                 /\ request'[acceptance'[c].request].branch = c
                 /\ request'[acceptance'[c].request].status = "APPROVED"
      <4>1. CASE c = b
        BY <2>2, <2>3, <2>5, <2>8, <4>1
      <4>2. CASE c # b
        BY <2>2, <2>5, <2>8, <3>2, <4>2 DEF OnboardingInvariant, ApprovedIsAccepted
      <4>. QED  BY <4>1, <4>2
    <3>. QED  BY <2>5, <3>1, <3>2 DEF ApprovedIsAccepted
  <2>. QED  BY <1>7, <2>5, <2>8, <2>10 DEF ApproveRequest, OnboardingInvariant, OnboardingTables
<1>8. ASSUME NEW b \in Branches, RevokeAcceptance(b)  PROVE OnboardingInvariant'
  <2>1. PICK q : q = acceptance[b].request
    OBVIOUS
  <2>2. /\ q \in DOMAIN request /\ request[q].branch = b /\ request[q].status = "APPROVED"
        /\ \A p \in DOMAIN request : request[p].branch = b /\ p # q => request[p].status # "APPROVED"
    BY <1>8, <2>1
    DEF RevokeAcceptance, OnboardingInvariant, ApprovedIsAccepted, OneActiveRequest, IsActive
  <2>3. PICK new : new = [request[q] EXCEPT !.status = "REVOKED"]
    OBVIOUS
  <2>4. request' = [request EXCEPT ![q] = new]
    BY <1>8, <2>1, <2>3 DEF RevokeAcceptance
  <2>5. new \in RequestRecords /\ new.branch = b /\ new.status = "REVOKED"
        /\ new.reference = new.confirmed
    BY <1>1, <2>2, <2>3 DEF RequestRecords, OnboardingInvariant, RequestedAsConfirmed
  <2>6. RequestChanges(q, new)
    BY <2>2, <2>4, <2>5 DEF RequestChanges, IsActive
  <2>7. /\ request' \in Seq(RequestRecords) /\ DOMAIN request' = DOMAIN request
        /\ request'[q] = new /\ \A p \in DOMAIN request \ {q} : request'[p] = request[p]
        /\ OneActiveRequest' /\ RequestedAsConfirmed'
    BY <2>6, RequestsStay
  <2>8. /\ acceptance' \in [Branches -> [status : {"NONE", "ACTIVE", "CLOSED"}, request : Nat]]
        /\ acceptance'[b].status = "CLOSED"
        /\ \A c \in Branches \ {b} : acceptance'[c] = acceptance[c]
    BY <1>8 DEF RevokeAcceptance, OnboardingInvariant, OnboardingTables
  <2>9. \A p \in DOMAIN request : request[p].branch \in Branches
    BY <1>1 DEF RequestRecords
  <2>10. ApprovedIsAccepted'
    BY <2>2, <2>5, <2>7, <2>8, <2>9 DEF OnboardingInvariant, ApprovedIsAccepted
  <2>. QED  BY <1>8, <2>7, <2>8, <2>10 DEF RevokeAcceptance, OnboardingInvariant, OnboardingTables
<1>9. \/ UNCHANGED <<request, acceptance>> /\ {payout, ownerPage}' \subseteq References \cup {None}
      \/ \E b \in Branches : SubmitRequest(b) \/ ReconfirmRequest(b) \/ RevokeAcceptance(b)
      \/ \E q \in Requests : ApproveRequest(q) \/ RejectRequest(q)
  BY DEF OnboardingNext, onboardingVars, OpenDraft, ReadDraft, WriteDraft, SubmitApplication,
         ReviewApplication, RevokeApplication, SavePayoutDestination, LoadOwnerPage,
         LoadReviewPage, SetBranchActive, SuspendOrReinstate, access, OnboardingInvariant,
         OnboardingTables
<1>. QED
  BY <1>2, <1>4, <1>5, <1>6, <1>7, <1>8, <1>9

\* A branch accepts payments exactly while the request that its acceptance names
\* is its one approved request, after any sequence of requests, approvals on old
\* pages, rejections and revocations.
THEOREM AcceptedWhileApproved == OnboardingSpec => []AcceptanceIsBacked
<1>1. OnboardingInvariant => AcceptanceIsBacked
  <2>. SUFFICES ASSUME OnboardingInvariant, NEW b \in Branches
                PROVE  {q \in ActiveRequests(b) : request[q].status = "APPROVED"}
                         = IF acceptance[b].status = "ACTIVE" THEN {acceptance[b].request} ELSE {}
    BY DEF AcceptanceIsBacked
  <2>. QED  BY DEF OnboardingInvariant, ApprovedIsAccepted, ActiveRequests
<1>. QED
  BY <1>1, OnboardingInitially, OnboardingStep, PTL DEF OnboardingSpec

\* Access is granted for the saved account, which the reviewer saw and the owner
\* confirmed, although both decided on pages loaded before.
THEOREM GrantedAsConfirmed == OnboardingSpec => ApprovedAsConfirmed
<1>. DEFINE Grants == \A q \in DOMAIN request :
       request[q].status # "APPROVED" /\ request'[q].status = "APPROVED" =>
         {payout, reviewPage} = {request[q].confirmed}
<1>1. OnboardingInvariant /\ [OnboardingNext]_onboardingVars => Grants \/ UNCHANGED onboardingVars
  <2>. SUFFICES ASSUME OnboardingInvariant, OnboardingNext, NEW q \in DOMAIN request,
                       request[q].status # "APPROVED", request'[q].status = "APPROVED"
                PROVE  {payout, reviewPage} = {request[q].confirmed}
    BY DEF onboardingVars
  <2>1. /\ request \in Seq(RequestRecords) /\ \A p \in DOMAIN request : request[p] \in RequestRecords
    BY LenProperties, ElementOfSeq DEF OnboardingInvariant, OnboardingTables
  <2>2. ASSUME NEW b \in Branches, SubmitRequest(b)  PROVE FALSE
    <3>1. PICK new : /\ new = [branch |-> b, status |-> "PENDING", reference |-> payout,
                               confirmed |-> ownerPage]
                     /\ request' = Append(request, new)
      BY <2>2 DEF SubmitRequest
    <3>2. new \in RequestRecords
      BY <2>2, <3>1
      DEF SubmitRequest, MayRequest, RequestRecords, OnboardingInvariant, OnboardingTables
    <3>. QED  BY <2>1, <3>1, <3>2, RowAppended
  <2>4. ASSUME NEW b \in Branches, ReconfirmRequest(b) \/ RevokeAcceptance(b)  PROVE FALSE
    <3>1. CASE ReconfirmRequest(b)
      <4>1. PICK p \in DOMAIN request :
              /\ request[p].status = "PENDING"
              /\ request' = [request EXCEPT ![p].reference = payout, ![p].confirmed = ownerPage]
        BY <3>1 DEF ReconfirmRequest, ActiveRequests
      <4>2. request'[p].status = request[p].status
        BY <2>1, <4>1 DEF RequestRecords
      <4>. QED  BY <2>1, <4>1, <4>2
    <3>2. CASE RevokeAcceptance(b)
      BY <2>1, <3>2 DEF RevokeAcceptance, RequestRecords
    <3>. QED  BY <2>4, <3>1, <3>2
  <2>5. ASSUME NEW p \in Requests, ApproveRequest(p) \/ RejectRequest(p)
        PROVE  {payout, reviewPage} = {request[q].confirmed}
    <3>1. CASE RejectRequest(p)
      BY <2>1, <3>1 DEF RejectRequest, RequestRecords
    <3>2. CASE ApproveRequest(p)
      <4>1. p = q
        BY <2>1, <3>2 DEF ApproveRequest
      <4>. QED  BY <3>2, <4>1
           DEF ApproveRequest, AsReviewed, OnboardingInvariant, RequestedAsConfirmed
    <3>. QED  BY <2>5, <3>1, <3>2
  <2>6. \/ UNCHANGED request
        \/ \E b \in Branches : SubmitRequest(b) \/ ReconfirmRequest(b) \/ RevokeAcceptance(b)
        \/ \E p \in Requests : ApproveRequest(p) \/ RejectRequest(p)
    BY DEF OnboardingNext, OpenDraft, ReadDraft, WriteDraft, SubmitApplication,
           ReviewApplication, RevokeApplication, SavePayoutDestination, LoadOwnerPage,
           LoadReviewPage, SetBranchActive, SuspendOrReinstate, access
  <2>. QED  BY <2>2, <2>4, <2>5, <2>6
<1>. QED
  BY <1>1, OnboardingInitially, OnboardingStep, PTL DEF OnboardingSpec, ApprovedAsConfirmed

(***************************************************************************)
(* Invitations.                                                            *)
(***************************************************************************)

AccepterRecords == [stage : AcceptStages, invite : Nat]

InviteTables ==
  /\ invite \in Seq(InviteRecords)
  /\ accepter \in [Accepters -> AccepterRecords]
  /\ \A h \in Accepters : accepter[h].stage # "NONE" => accepter[h].invite \in DOMAIN invite
  /\ member \in BOOLEAN

Busy(h) == accepter[h].stage \in {"CLAIMED", "CREATED", "ORPHANED", "FAILED"}

\* Who claimed an invitation has it alone, and has made its user or not.
ClaimsAreOwned ==
  \A h \in Accepters : Busy(h) =>
    /\ invite[accepter[h].invite].accepted
    /\ ~ invite[accepter[h].invite].named
    /\ user = accepter[h].invite <=> accepter[h].stage \in {"CREATED", "ORPHANED"}
    /\ \A g \in Accepters : Busy(g) /\ accepter[g].invite = accepter[h].invite => g = h

UserWasInvited == user # 0 => user \in DOMAIN invite /\ invite[user].accepted

StaffAdmitted ==
  stopped \/
  \A i \in DOMAIN invite :
    /\ invite[i].kind = "STAFF" /\ invite[i].accepted
    /\ \A h \in Accepters : Busy(h) => accepter[h].invite # i
    => user = i /\ member

NamedWasAccepted == \A i \in DOMAIN invite : invite[i].named => invite[i].accepted

InviteInvariant ==
  InviteTables /\ ClaimsAreOwned /\ UserWasInvited /\ NamedWasAccepted /\ StaffAdmitted

-----------------------------------------------------------------------------

\* Nobody is invited at first.
LEMMA InviteInitially == InviteInit => InviteInvariant
<1>. SUFFICES ASSUME InviteInit  PROVE InviteInvariant
  OBVIOUS
<1>1. invite \in Seq(InviteRecords) /\ DOMAIN invite = {}
  BY DEF InviteInit
<1>2. InviteTables
  BY <1>1 DEF InviteInit, InviteTables, AccepterRecords, AcceptStages
<1>. QED
  BY <1>1, <1>2
  DEF InviteInit, InviteInvariant, ClaimsAreOwned, Busy, UserWasInvited, NamedWasAccepted,
      StaffAdmitted

\* Inviting, revoking and expiring touch no acceptance.
LEMMA InvitesManaged ==
  ASSUME InviteInvariant, UNCHANGED <<accepter, user, member, stopped>>,
         invite' \in Seq(InviteRecords), DOMAIN invite \subseteq DOMAIN invite',
         \A i \in DOMAIN invite :
           /\ invite'[i].kind = invite[i].kind
           /\ invite'[i].accepted = invite[i].accepted
           /\ invite'[i].named = invite[i].named,
         \A i \in DOMAIN invite' \ DOMAIN invite : ~ invite'[i].accepted /\ ~ invite'[i].named
  PROVE  InviteInvariant'
<1>1. InviteTables'
  BY DEF InviteInvariant, InviteTables
<1>2. \A h \in Accepters : Busy(h) => accepter[h].invite \in DOMAIN invite
  BY DEF InviteInvariant, InviteTables, Busy
<1>3. ClaimsAreOwned'
  BY <1>2 DEF InviteInvariant, ClaimsAreOwned, Busy
<1>4. UserWasInvited' /\ NamedWasAccepted'
  BY DEF InviteInvariant, UserWasInvited, NamedWasAccepted
<1>5. StaffAdmitted'
  BY DEF InviteInvariant, StaffAdmitted, Busy
<1>. QED
  BY <1>1, <1>3, <1>4, <1>5 DEF InviteInvariant

\* A step of one acceptance: it changes its stage, and of the invitations its own.
AcceptanceMoves(h, stage, i) ==
  /\ accepter[h].stage # "NONE" /\ stage \in AcceptStages \ {"NONE"}
  /\ accepter' = [accepter EXCEPT ![h].stage = stage]
  /\ i \in InviteRecords
  /\ invite' = [invite EXCEPT ![accepter[h].invite] = i]
  /\ i.kind = invite[accepter[h].invite].kind
  /\ i.named => i.accepted
  /\ member' \in BOOLEAN /\ (member => member')

\* What a statement of an acceptance leaves of the tables.
LEMMA AcceptanceTables ==
  ASSUME InviteInvariant, NEW h \in Accepters, NEW stage, NEW i, AcceptanceMoves(h, stage, i)
  PROVE  /\ InviteTables'
         /\ DOMAIN invite' = DOMAIN invite
         /\ accepter[h].invite \in DOMAIN invite
         /\ 0 \notin DOMAIN invite
         /\ invite'[accepter[h].invite] = i
         /\ \A j \in DOMAIN invite \ {accepter[h].invite} : invite'[j] = invite[j]
         /\ accepter'[h].stage = stage
         /\ \A g \in Accepters : accepter'[g].invite = accepter[g].invite
         /\ \A g \in Accepters \ {h} : accepter'[g].stage = accepter[g].stage
         /\ \A g \in Accepters : Busy(g) => accepter[g].invite \in DOMAIN invite
<1>1. /\ invite \in Seq(InviteRecords) /\ DOMAIN invite = 1 .. Len(invite)
      /\ accepter \in [Accepters -> AccepterRecords]
      /\ accepter[h].invite \in DOMAIN invite
      /\ \A g \in Accepters : accepter[g].stage # "NONE" => accepter[g].invite \in DOMAIN invite
  BY LenProperties DEF InviteInvariant, InviteTables, AcceptanceMoves
<1>2. /\ invite' \in Seq(InviteRecords) /\ DOMAIN invite' = DOMAIN invite
      /\ invite'[accepter[h].invite] = i
      /\ \A j \in DOMAIN invite \ {accepter[h].invite} : invite'[j] = invite[j]
  BY <1>1, RowReplaced DEF AcceptanceMoves
<1>3. /\ accepter' \in [Accepters -> AccepterRecords]
      /\ accepter'[h].stage = stage
      /\ \A g \in Accepters : accepter'[g].invite = accepter[g].invite
      /\ \A g \in Accepters \ {h} : accepter'[g].stage = accepter[g].stage
  BY <1>1 DEF AcceptanceMoves, AccepterRecords
<1>4. InviteTables'
  BY <1>1, <1>2, <1>3 DEF InviteTables, AcceptanceMoves
<1>. QED
  BY <1>1, <1>2, <1>3, <1>4 DEF Busy

\* What such a step must respect, by the stage it leads to.
LEMMA AcceptanceStep ==
  ASSUME InviteInvariant, NEW h \in Accepters, NEW stage, NEW i, AcceptanceMoves(h, stage, i),
         \* the user is made by its invitation or removed by it
         \/ UNCHANGED user
         \/ user = 0 /\ user' = accepter[h].invite /\ Busy(h)
         \/ user = accepter[h].invite /\ user' = 0 /\ Busy(h),
         user' = accepter[h].invite => i.accepted,
         \* an invitation is claimed when it was not accepted
         stage \in {"CLAIMED", "CREATED", "ORPHANED", "FAILED"} =>
           /\ i.accepted /\ ~ i.named
           /\ user' = accepter[h].invite <=> stage \in {"CREATED", "ORPHANED"}
           /\ Busy(h) \/ ~ invite[accepter[h].invite].accepted,
         \* only its owner changes its acceptance
         ~ Busy(h) => i.accepted = invite[accepter[h].invite].accepted \/ stage = "CLAIMED",
         ~ Busy(h) => i.named = invite[accepter[h].invite].named,
         \* who ends leaves a member, or nothing
         \/ stopped'
         \/ i.kind # "STAFF" /\ UNCHANGED stopped
         \/ stage \in {"CLAIMED", "CREATED", "ORPHANED", "FAILED"} /\ UNCHANGED stopped
         \/ (i.accepted => user' = accepter[h].invite /\ member') /\ UNCHANGED stopped
         \/ ~ Busy(h) /\ i.accepted = invite[accepter[h].invite].accepted /\ UNCHANGED <<stopped, user>>
  PROVE  InviteInvariant'
<1>. DEFINE k == accepter[h].invite
<1>1. /\ InviteTables'
      /\ DOMAIN invite' = DOMAIN invite
      /\ k \in DOMAIN invite /\ 0 \notin DOMAIN invite
      /\ invite'[k] = i
      /\ \A j \in DOMAIN invite \ {k} : invite'[j] = invite[j]
      /\ accepter'[h].stage = stage
      /\ \A g \in Accepters : accepter'[g].invite = accepter[g].invite
      /\ \A g \in Accepters \ {h} : accepter'[g].stage = accepter[g].stage
      /\ \A g \in Accepters : Busy(g) => accepter[g].invite \in DOMAIN invite
  BY AcceptanceTables
\* No other acceptance has this invitation, neither before nor after the step.
<1>2. ASSUME NEW g \in Accepters \ {h}, Busy(g), accepter[g].invite = k
      PROVE  ~ Busy(h) /\ stage \notin {"CLAIMED", "CREATED", "ORPHANED", "FAILED"}
             /\ i.accepted /\ ~ i.named /\ UNCHANGED user
  BY <1>2 DEF InviteInvariant, ClaimsAreOwned
<1>3. \A g \in Accepters \ {h} : Busy(g)' <=> Busy(g)
  BY <1>1 DEF Busy
<1>. HIDE DEF k
<1>4. ClaimsAreOwned'
  <2>1. ASSUME NEW g \in Accepters, g # h, Busy(g)
        PROVE  /\ invite'[accepter[g].invite].accepted
               /\ ~ invite'[accepter[g].invite].named
               /\ user' = accepter[g].invite <=> accepter[g].stage \in {"CREATED", "ORPHANED"}
               /\ accepter[g].invite = k =>
                    stage \notin {"CLAIMED", "CREATED", "ORPHANED", "FAILED"}
    <3>1. /\ invite[accepter[g].invite].accepted /\ ~ invite[accepter[g].invite].named
          /\ user = accepter[g].invite <=> accepter[g].stage \in {"CREATED", "ORPHANED"}
      BY <2>1 DEF InviteInvariant, ClaimsAreOwned
    <3>2. CASE accepter[g].invite = k
      BY <1>1, <1>2, <2>1, <3>1, <3>2
    <3>3. CASE accepter[g].invite # k
      BY <1>1, <2>1, <3>1, <3>3 DEF k
    <3>. QED  BY <3>2, <3>3
  <2>2. ASSUME Busy(h)'
        PROVE  i.accepted /\ ~ i.named
               /\ (user' = k <=> stage \in {"CREATED", "ORPHANED"})
    BY <1>1, <2>2 DEF Busy, k
  <2>3. ASSUME NEW g \in Accepters, NEW f \in Accepters, Busy(g)', Busy(f)',
               accepter[g].invite = accepter[f].invite
        PROVE  g = f
    <3>1. CASE g = h \/ f = h
      BY <1>1, <1>3, <2>1, <2>3, <3>1 DEF Busy, k
    <3>2. CASE g # h /\ f # h
      BY <1>3, <2>3, <3>2 DEF InviteInvariant, ClaimsAreOwned
    <3>. QED  BY <3>1, <3>2
  <2>. SUFFICES ASSUME NEW g \in Accepters, Busy(g)'
                PROVE  /\ invite'[accepter[g].invite].accepted
                       /\ ~ invite'[accepter[g].invite].named
                       /\ user' = accepter[g].invite
                            <=> accepter'[g].stage \in {"CREATED", "ORPHANED"}
    BY <1>1, <2>3 DEF ClaimsAreOwned, Busy
  <2>4. CASE g = h
    BY <1>1, <2>2, <2>4 DEF k
  <2>5. CASE g # h
    BY <1>1, <1>3, <2>1, <2>5
  <2>. QED  BY <2>4, <2>5
<1>5. UserWasInvited' /\ NamedWasAccepted'
  BY <1>1 DEF InviteInvariant, UserWasInvited, NamedWasAccepted, AcceptanceMoves, k
<1>6. StaffAdmitted'
  <2>. SUFFICES ASSUME ~ stopped', NEW j \in DOMAIN invite, invite'[j].kind = "STAFF",
                       invite'[j].accepted,
                       \A g \in Accepters : Busy(g)' => accepter[g].invite # j
                PROVE  user' = j /\ member'
    BY <1>1 DEF StaffAdmitted, Busy
  <2>1. ~ stopped
    OBVIOUS
  <2>2. CASE j = k
    <3>1. i.kind = "STAFF" /\ i.accepted
      BY <1>1, <2>2
    <3>2. ~ (stage \in {"CLAIMED", "CREATED", "ORPHANED", "FAILED"})
      BY <1>1, <2>2 DEF Busy, k
    <3>3. CASE i.accepted => user' = accepter[h].invite /\ member'
      BY <2>2, <3>1, <3>3 DEF k
    <3>4. CASE ~ Busy(h) /\ i.accepted = invite[k].accepted /\ UNCHANGED <<stopped, user>>
      <4>1. invite[k].kind = "STAFF" /\ invite[k].accepted
        BY <3>1, <3>4 DEF AcceptanceMoves, k
      <4>2. \A g \in Accepters : Busy(g) => accepter[g].invite # k
        BY <1>1, <1>3, <2>2, <3>4 DEF Busy
      <4>3. user = k /\ member
        BY <1>1, <2>1, <4>1, <4>2 DEF InviteInvariant, StaffAdmitted
      <4>. QED  BY <2>2, <3>4, <4>3 DEF AcceptanceMoves
    <3>. QED  BY <3>1, <3>2, <3>3, <3>4 DEF k
  <2>3. CASE j # k
    <3>1. user = j /\ member
      BY <1>1, <1>3, <2>1, <2>3 DEF InviteInvariant, StaffAdmitted, Busy, k
    <3>. QED  BY <1>1, <2>3, <3>1 DEF AcceptanceMoves, k
  <2>. QED  BY <2>2, <2>3
<1>. QED
  BY <1>1, <1>4, <1>5, <1>6 DEF InviteInvariant

\* Inviting, revoking and expiry keep the invariant.
LEMMA ManagingSteps ==
  ASSUME InviteInvariant,
         \/ \E h \in Inviters : InsertInvite(h) \/ \E kind \in InviteKinds : SupersedeInvites(h, kind)
         \/ \E i \in Invites : RevokeInvite(i) \/ ExpireInvite(i)
  PROVE  InviteInvariant'
<1>1. /\ invite \in Seq(InviteRecords) /\ DOMAIN invite = 1 .. Len(invite) /\ Len(invite) \in Nat
      /\ \A i \in DOMAIN invite : invite[i] \in InviteRecords
  BY LenProperties, ElementOfSeq DEF InviteInvariant, InviteTables
<1>2. ASSUME NEW h \in Inviters, InsertInvite(h)  PROVE InviteInvariant'
  <2>1. PICK new : new = [kind |-> inviter[h], accepted |-> FALSE, revoked |-> FALSE,
                          expired |-> FALSE, named |-> FALSE]
    OBVIOUS
  <2>2. new \in InviteRecords /\ ~ new.accepted /\ ~ new.named /\ invite' = Append(invite, new)
    BY <1>2, <2>1 DEF InsertInvite, InviteRecords
  <2>3. /\ invite' \in Seq(InviteRecords)
        /\ DOMAIN invite' = DOMAIN invite \cup {Len(invite) + 1}
        /\ invite'[Len(invite) + 1] = new
        /\ \A i \in DOMAIN invite : invite'[i] = invite[i]
    BY <1>1, <2>2, RowAppended
  <2>. QED  BY <1>2, <2>2, <2>3, InvitesManaged DEF InsertInvite
<1>3. ASSUME NEW h \in Inviters, NEW kind \in InviteKinds, SupersedeInvites(h, kind)
      PROVE  InviteInvariant'
  <2>1. invite' = [i \in DOMAIN invite |->
          IF invite[i].kind = kind /\ Live(i) THEN [invite[i] EXCEPT !.revoked = TRUE]
          ELSE invite[i]]
    BY <1>3 DEF SupersedeInvites
  <2>2. \A i \in DOMAIN invite :
          /\ invite'[i] \in InviteRecords
          /\ invite'[i].kind = invite[i].kind
          /\ invite'[i].accepted = invite[i].accepted
          /\ invite'[i].named = invite[i].named
    <3>1. ASSUME NEW r \in InviteRecords
          PROVE  /\ [r EXCEPT !.revoked = TRUE] \in InviteRecords
                 /\ [r EXCEPT !.revoked = TRUE].kind = r.kind
                 /\ [r EXCEPT !.revoked = TRUE].accepted = r.accepted
                 /\ [r EXCEPT !.revoked = TRUE].named = r.named
      BY DEF InviteRecords
    <3>. QED  BY <1>1, <2>1, <3>1
  <2>3. invite' \in Seq(InviteRecords) /\ DOMAIN invite' = DOMAIN invite
    BY <1>1, <2>1, <2>2
  <2>. QED  BY <1>3, <2>2, <2>3, InvitesManaged DEF SupersedeInvites
<1>4. ASSUME NEW i \in Invites, RevokeInvite(i) \/ ExpireInvite(i)  PROVE InviteInvariant'
  <2>1. i \in DOMAIN invite /\ invite[i] \in InviteRecords
    BY <1>1, <1>4 DEF RevokeInvite, ExpireInvite
  <2>2. PICK new \in InviteRecords :
          /\ invite' = [invite EXCEPT ![i] = new]
          /\ new.kind = invite[i].kind /\ new.accepted = invite[i].accepted
          /\ new.named = invite[i].named
    <3>1. CASE RevokeInvite(i)
      <4>1. PICK new : new = [invite[i] EXCEPT !.revoked = TRUE]
        OBVIOUS
      <4>2. new \in InviteRecords /\ new.kind = invite[i].kind
            /\ new.accepted = invite[i].accepted /\ new.named = invite[i].named
        BY <2>1, <4>1 DEF InviteRecords
      <4>. QED  BY <3>1, <4>1, <4>2 DEF RevokeInvite
    <3>2. CASE ExpireInvite(i)
      <4>1. PICK new : new = [invite[i] EXCEPT !.expired = TRUE]
        OBVIOUS
      <4>2. new \in InviteRecords /\ new.kind = invite[i].kind
            /\ new.accepted = invite[i].accepted /\ new.named = invite[i].named
        BY <2>1, <4>1 DEF InviteRecords
      <4>. QED  BY <3>2, <4>1, <4>2 DEF ExpireInvite
    <3>. QED  BY <1>4, <3>1, <3>2
  <2>3. /\ invite' \in Seq(InviteRecords) /\ DOMAIN invite' = DOMAIN invite
        /\ invite'[i] = new /\ \A j \in DOMAIN invite \ {i} : invite'[j] = invite[j]
    BY <1>1, <2>1, <2>2, RowReplaced
  <2>. QED  BY <1>4, <2>2, <2>3, InvitesManaged DEF RevokeInvite, ExpireInvite
<1>. QED
  BY <1>2, <1>3, <1>4

\* The statements of an acceptance keep the invariant.
LEMMA AcceptingSteps ==
  ASSUME InviteInvariant, NEW h \in Accepters,
         \/ \E i \in Invites : ReadInvite(h, i)
         \/ ClaimInvite(h) \/ CreateUser(h) \/ FailCreation(h) \/ CompleteAcceptance(h)
         \/ FailMembership(h) \/ RemoveUser(h) \/ ReleaseClaim(h) \/ StopAccepting(h)
  PROVE  InviteInvariant'
<1>1. /\ invite \in Seq(InviteRecords) /\ DOMAIN invite = 1 .. Len(invite) /\ Len(invite) \in Nat
      /\ \A i \in DOMAIN invite : invite[i] \in InviteRecords
      /\ accepter \in [Accepters -> AccepterRecords]
      /\ \A g \in Accepters : accepter[g].stage # "NONE" => accepter[g].invite \in DOMAIN invite
      /\ \A i \in DOMAIN invite : invite[i].named => invite[i].accepted
      /\ member \in BOOLEAN
  BY LenProperties, ElementOfSeq DEF InviteInvariant, InviteTables, NamedWasAccepted
<1>2. ASSUME NEW i \in Invites, ReadInvite(h, i)  PROVE InviteInvariant'
  <2>1. PICK new : new = [stage |-> "READ", invite |-> i]
    OBVIOUS
  <2>2. new \in AccepterRecords /\ i \in DOMAIN invite
        /\ accepter' = [accepter EXCEPT ![h] = new]
    BY <1>1, <1>2, <2>1 DEF ReadInvite, AccepterRecords, AcceptStages
  <2>3. /\ accepter' \in [Accepters -> AccepterRecords]
        /\ accepter'[h].stage = "READ" /\ accepter'[h].invite \in DOMAIN invite
        /\ accepter[h].stage = "NONE"
        /\ \A g \in Accepters \ {h} : accepter'[g] = accepter[g]
    BY <1>1, <1>2, <2>1, <2>2 DEF ReadInvite, At
  <2>4. InviteTables'
    BY <1>1, <1>2, <2>3 DEF ReadInvite, InviteTables
  <2>5. \A g \in Accepters : /\ Busy(g)' <=> Busy(g)
                             /\ Busy(g) => accepter'[g] = accepter[g]
    BY <2>3 DEF Busy
  <2>6. ClaimsAreOwned'
    BY <1>2, <2>5 DEF ReadInvite, InviteInvariant, ClaimsAreOwned
  <2>7. UserWasInvited' /\ StaffAdmitted'
    BY <1>2, <2>5 DEF ReadInvite, InviteInvariant, UserWasInvited, StaffAdmitted
  <2>8. NamedWasAccepted'
    BY <1>2 DEF ReadInvite, InviteInvariant, NamedWasAccepted
  <2>. QED  BY <2>4, <2>6, <2>7, <2>8 DEF InviteInvariant
<1>. DEFINE k == accepter[h].invite
<1>3. ASSUME ~ (\E i \in Invites : ReadInvite(h, i))
      PROVE  /\ accepter[h].stage # "NONE" /\ k \in DOMAIN invite
             /\ invite[k] \in InviteRecords
             /\ invite = [invite EXCEPT ![k] = invite[k]]
  BY <1>1, <1>3
  DEF ClaimInvite, CreateUser, FailCreation, CompleteAcceptance, FailMembership, RemoveUser,
      ReleaseClaim, StopAccepting, At
<1>4. Busy(h) => /\ invite[k].accepted /\ ~ invite[k].named
                 /\ user = k <=> accepter[h].stage \in {"CREATED", "ORPHANED"}
  BY DEF InviteInvariant, ClaimsAreOwned
<1>5. user = k => k = 0 \/ invite[k].accepted
  BY DEF InviteInvariant, UserWasInvited
<1>6. CASE ClaimInvite(h)
  <2>1. accepter[h].stage = "READ" /\ ~ Busy(h) /\ k \in DOMAIN invite /\ k # 0
        /\ invite[k] \in InviteRecords /\ invite = [invite EXCEPT ![k] = invite[k]]
    BY <1>1, <1>6 DEF ClaimInvite, At, Busy
  <2>2. CASE Claimable(h)
    <3>1. PICK i : i = [invite[k] EXCEPT !.accepted = TRUE]
      OBVIOUS
    <3>2. i \in InviteRecords /\ i.kind = invite[k].kind /\ i.accepted = TRUE
          /\ i.named = invite[k].named
      BY <2>1, <3>1 DEF InviteRecords
    <3>3. AcceptanceMoves(h, "CLAIMED", i)
      BY <1>1, <1>6, <2>1, <2>2, <3>1, <3>2 DEF ClaimInvite, Turn, AcceptanceMoves, AcceptStages
    <3>4. ~ invite[k].accepted /\ user # k /\ UNCHANGED <<user, stopped>>
      BY <1>5, <1>6, <2>1, <2>2 DEF ClaimInvite, Claimable
    <3>5. ~ i.named
      BY <2>1, <3>2, <3>4 DEF InviteInvariant, NamedWasAccepted
    <3>. QED  BY <2>1, <3>2, <3>3, <3>4, <3>5, AcceptanceStep
  <2>3. CASE ~ Claimable(h)
    <3>1. AcceptanceMoves(h, "ENDED", invite[k])
      BY <1>1, <1>6, <2>1, <2>3 DEF ClaimInvite, Turn, AcceptanceMoves, AcceptStages
    <3>. QED  BY <1>5, <1>6, <2>1, <3>1, AcceptanceStep DEF ClaimInvite
  <2>. QED  BY <2>2, <2>3
<1>7. ASSUME CreateUser(h) \/ FailCreation(h) \/ FailMembership(h) \/ RemoveUser(h) \/ StopAccepting(h)
      PROVE  InviteInvariant'
  <2>1. Busy(h) /\ k \in DOMAIN invite /\ k # 0 /\ accepter[h].stage # "NONE"
        /\ invite[k] \in InviteRecords /\ invite = [invite EXCEPT ![k] = invite[k]]
        /\ UNCHANGED <<invite, member>>
    BY <1>1, <1>7
    DEF CreateUser, FailCreation, FailMembership, RemoveUser, StopAccepting, At, Busy
  <2>2. \A stage \in AcceptStages \ {"NONE"} : Turn(h, stage) => AcceptanceMoves(h, stage, invite[k])
    BY <1>1, <2>1 DEF Turn, AcceptanceMoves
  <2>3. CASE CreateUser(h)
    <3>1. AcceptanceMoves(h, "CREATED", invite[k])
      BY <2>2, <2>3 DEF CreateUser, AcceptStages
    <3>. QED  BY <1>4, <2>1, <2>3, <3>1, AcceptanceStep DEF CreateUser
  <2>4. CASE FailCreation(h)
    <3>1. CASE invite[k].kind = "STAFF"
      <4>1. AcceptanceMoves(h, "FAILED", invite[k])
        BY <2>2, <2>4, <3>1 DEF FailCreation, Kind, AcceptStages
      <4>. QED  BY <1>4, <2>1, <2>4, <4>1, AcceptanceStep DEF FailCreation, At
    <3>2. CASE invite[k].kind # "STAFF"
      <4>1. AcceptanceMoves(h, "ENDED", invite[k])
        BY <2>2, <2>4, <3>2 DEF FailCreation, Kind, AcceptStages
      <4>. QED  BY <1>4, <2>1, <2>4, <3>2, <4>1, AcceptanceStep DEF FailCreation
    <3>. QED  BY <3>1, <3>2
  <2>5. CASE FailMembership(h)
    <3>1. AcceptanceMoves(h, "ORPHANED", invite[k])
      BY <2>2, <2>5 DEF FailMembership, AcceptStages
    <3>. QED  BY <1>4, <2>1, <2>5, <3>1, AcceptanceStep DEF FailMembership, At
  <2>6. CASE RemoveUser(h)
    <3>1. AcceptanceMoves(h, "FAILED", invite[k])
      BY <2>2, <2>6 DEF RemoveUser, AcceptStages
    <3>. QED  BY <1>4, <2>1, <2>6, <3>1, AcceptanceStep DEF RemoveUser, At
  <2>7. CASE StopAccepting(h)
    <3>1. AcceptanceMoves(h, "ENDED", invite[k])
      BY <2>2, <2>7 DEF StopAccepting, AcceptStages
    <3>. QED  BY <1>4, <2>1, <2>7, <3>1, AcceptanceStep DEF StopAccepting
  <2>. QED  BY <1>7, <2>3, <2>4, <2>5, <2>6, <2>7
<1>8. CASE CompleteAcceptance(h)
  <2>1. accepter[h].stage = "CREATED" /\ Busy(h) /\ k \in DOMAIN invite /\ k # 0
        /\ invite[k] \in InviteRecords
    BY <1>1, <1>8 DEF CompleteAcceptance, At, Busy
  <2>2. PICK i : i = [invite[k] EXCEPT !.named = TRUE]
    OBVIOUS
  <2>3. i \in InviteRecords /\ i.kind = invite[k].kind /\ i.accepted = invite[k].accepted
    BY <2>1, <2>2 DEF InviteRecords
  <2>4. member' \in BOOLEAN /\ (member => member') /\ (i.kind = "STAFF" => member')
    BY <1>1, <1>8, <2>3 DEF CompleteAcceptance, Kind
  <2>5. AcceptanceMoves(h, "ENDED", i)
    BY <1>4, <1>8, <2>1, <2>2, <2>3, <2>4 DEF CompleteAcceptance, Turn, AcceptanceMoves, AcceptStages
  <2>. QED  BY <1>4, <1>8, <2>1, <2>3, <2>4, <2>5, AcceptanceStep DEF CompleteAcceptance
<1>9. CASE ReleaseClaim(h)
  <2>1. accepter[h].stage = "FAILED" /\ Busy(h) /\ k \in DOMAIN invite /\ k # 0
        /\ invite[k] \in InviteRecords
    BY <1>1, <1>9 DEF ReleaseClaim, At, Busy
  <2>2. PICK i : i = [invite[k] EXCEPT !.accepted = @ /\ invite[k].named]
    OBVIOUS
  <2>3. i \in InviteRecords /\ i.kind = invite[k].kind /\ ~ i.accepted
        /\ i.named = invite[k].named
    BY <1>4, <2>1, <2>2 DEF InviteRecords
  <2>4. AcceptanceMoves(h, "ENDED", i)
    BY <1>1, <1>4, <1>9, <2>1, <2>2, <2>3 DEF ReleaseClaim, Turn, AcceptanceMoves, AcceptStages
  <2>. QED  BY <1>4, <1>9, <2>1, <2>3, <2>4, AcceptanceStep DEF ReleaseClaim
<1>. QED
  BY <1>2, <1>6, <1>7, <1>8, <1>9

\* Every step keeps the invariant.
LEMMA InviteStep == InviteInvariant /\ [InviteNext]_inviteVars => InviteInvariant'
<1>1. ASSUME InviteInvariant, UNCHANGED inviteVars  PROVE InviteInvariant'
  BY <1>1, InvitesManaged DEF inviteVars, InviteInvariant, InviteTables
<1>. QED
  BY <1>1, ManagingSteps, AcceptingSteps DEF InviteNext

\* Unless an acceptance stopped half-way, a staff invitation is used up exactly
\* by the user it made, who is a member, whatever acceptances, failures of them,
\* new invitations, revocations and expiries interleave.
THEOREM AcceptedStaffAdmitted == InviteSpec => []StaffInviteAdmits
<1>1. InviteInvariant => StaffInviteAdmits
  <2>. SUFFICES ASSUME InviteInvariant, ~ stopped, NEW i \in DOMAIN invite,
                       invite[i].kind = "STAFF",
                       \A h \in Accepters : Busy(h) => accepter[h].invite # i
                PROVE  (invite[i].accepted <=> user = i) /\ (user = i => member)
    BY DEF StaffInviteAdmits, Busy
  <2>1. invite[i] \in InviteRecords /\ i # 0
    BY LenProperties, ElementOfSeq DEF InviteInvariant, InviteTables
  <2>2. invite[i].accepted => user = i /\ member
    BY DEF InviteInvariant, StaffAdmitted
  <2>3. user = i => invite[i].accepted
    BY <2>1 DEF InviteInvariant, UserWasInvited
  <2>. QED  BY <2>1, <2>2, <2>3 DEF InviteRecords
<1>. QED
  BY <1>1, InviteInitially, InviteStep, PTL DEF InviteSpec

(***************************************************************************)
(* RefundRecovery.                                                         *)
(***************************************************************************)

\* What a tab waits for, once it does not just ask for the pending operation, is
\* about an instruction, and an outcome it was told is the instruction's.
TabJustified(r) ==
  /\ r.phase \in {"CHECKING", "REGISTERING", "RESOLVING"} => r.request.call # "PENDING"
  /\ r.request.call # "PENDING" => r.request.key \in Instructions
  /\ \A a \in r.answer :
       /\ a.status \in Outcomes => a.key \in Instructions /\ instruction[a.key] \in Outcomes
       /\ a.status = "PENDING" => a.key # 0

RecoveryTables ==
  /\ home \in [Tabs -> Browsers]
  /\ instruction \in [Instructions -> {"NONE", "PENDING"} \cup Outcomes]
  /\ drawn \in Seq(Browsers) /\ Len(drawn) <= MaxInstructions
  /\ storage \in [Browsers -> Drafts]
  /\ \A b \in Browsers : storage[b].registered => storage[b].key # 0
  /\ tab \in [Tabs -> TabRecords]
  /\ sent \subseteq [call : Calls \ {"PENDING"}, key : Instructions]

TabsJustified == \A t \in Tabs : TabJustified(tab[t])

RecoveryInvariant == RecoveryTables /\ TabsJustified /\ UnresolvedIsStored

-----------------------------------------------------------------------------

\* Nothing is stored or asked of the server at first.
LEMMA RecoveryInitially == RecoveryInit => RecoveryInvariant
<1>. SUFFICES ASSUME RecoveryInit  PROVE RecoveryInvariant
  OBVIOUS
<1>1. FreshTab \in TabRecords /\ TabJustified(FreshTab)
  BY DEF FreshTab, TabRecords, TabPhases, Drafts, NoDraft, HttpRequests, Calls, TabJustified
<1>2. drawn \in Seq(Browsers) /\ Len(drawn) = 0 /\ DOMAIN drawn = {}
  BY DEF RecoveryInit
<1>3. RecoveryTables
  BY <1>1, <1>2, RecoveryAssumption DEF RecoveryInit, RecoveryTables, NoDraft, Drafts
<1>4. TabsJustified
  BY <1>1 DEF RecoveryInit, TabsJustified
<1>. QED
  BY <1>2, <1>3, <1>4 DEF RecoveryInvariant, UnresolvedIsStored

\* An outcome is final.
LEMMA OutcomesAreFinal ==
  ASSUME RecoveryInvariant, NEW r, ServeRequest(r), r.call \in Calls,
         r.call # "PENDING" => r.key \in Instructions
  PROVE  /\ instruction' \in [Instructions -> {"NONE", "PENDING"} \cup Outcomes]
         /\ \A k \in Instructions : instruction[k] \in Outcomes => instruction'[k] = instruction[k]
         /\ sent' \subseteq sent
<1>1. instruction \in [Instructions -> {"NONE", "PENDING"} \cup Outcomes]
  BY DEF RecoveryInvariant, RecoveryTables
<1>2. sent' \subseteq sent
  BY DEF ServeRequest
<1>3. CASE r.call = "REGISTER"
  BY <1>1, <1>2, <1>3 DEF ServeRequest, RegisterInstruction, Outcomes
<1>4. CASE r.call = "EXECUTE"
  <2>1. ResolveInstruction(r.key, {"COMPLETED", "REJECTED"})
    BY <1>4 DEF ServeRequest
  <2>. QED  BY <1>1, <1>2, <1>4, <2>1 DEF ResolveInstruction, Outcomes
<1>5. CASE r.call = "CANCEL"
  <2>1. ResolveInstruction(r.key, {"CANCELLED"})
    BY <1>5 DEF ServeRequest
  <2>. QED  BY <1>1, <1>2, <1>5, <2>1 DEF ResolveInstruction, Outcomes
<1>6. CASE r.call \in {"PENDING", "READ"}
  <2>1. UNCHANGED instruction
    BY <1>6 DEF ServeRequest
  <2>. QED  BY <1>1, <1>2, <2>1
<1>. QED
  BY <1>3, <1>4, <1>5, <1>6 DEF Calls

\* The server's steps keep what the browsers have stored.
LEMMA ServerKeepsStored ==
  ASSUME RecoveryInvariant, NEW r, ServeRequest(r), r.call \in Calls,
         r.call # "PENDING" => r.key \in Instructions,
         UNCHANGED <<home, drawn, storage>>,
         tab' \in [Tabs -> TabRecords], TabsJustified'
  PROVE  RecoveryInvariant'
<1>1. /\ instruction' \in [Instructions -> {"NONE", "PENDING"} \cup Outcomes]
      /\ \A k \in Instructions : instruction[k] \in Outcomes => instruction'[k] = instruction[k]
      /\ sent' \subseteq sent
  BY OutcomesAreFinal
<1>2. RecoveryTables'
  BY <1>1 DEF RecoveryInvariant, RecoveryTables
<1>3. DOMAIN drawn \subseteq Instructions
  BY LenProperties, RecoveryAssumption DEF RecoveryInvariant, RecoveryTables, Instructions
<1>4. UnresolvedIsStored'
  BY <1>1, <1>3 DEF RecoveryInvariant, UnresolvedIsStored
<1>. QED
  BY <1>2, <1>4 DEF RecoveryInvariant

\* An answer of the server, in time or late, keeps the invariant.
LEMMA ServerSteps ==
  ASSUME RecoveryInvariant,
         (\E t \in Tabs : ServeTab(t)) \/ (\E r \in sent : ServeLate(r))
  PROVE  RecoveryInvariant'
<1>1. /\ tab \in [Tabs -> TabRecords]
      /\ sent \subseteq [call : Calls \ {"PENDING"}, key : Instructions]
      /\ \A t \in Tabs : TabJustified(tab[t])
  BY DEF RecoveryInvariant, RecoveryTables, TabsJustified
<1>2. ASSUME NEW r \in sent, ServeLate(r)  PROVE RecoveryInvariant'
  <2>1. /\ ServeRequest(r) /\ r.call \in Calls /\ r.key \in Instructions
        /\ UNCHANGED <<home, drawn, storage, tab>>
    BY <1>1, <1>2 DEF ServeLate
  <2>2. \A k \in Instructions : instruction[k] \in Outcomes => instruction'[k] = instruction[k]
    BY <2>1, OutcomesAreFinal
  <2>3. TabsJustified'
    BY <1>1, <2>1, <2>2 DEF TabsJustified, TabJustified
  <2>. QED  BY <1>1, <2>1, <2>3, ServerKeepsStored
<1>3. ASSUME NEW t \in Tabs, ServeTab(t)  PROVE RecoveryInvariant'
  <2>. DEFINE r == tab[t].request
  <2>1. r \in HttpRequests /\ r.call \in Calls /\ (r.call # "PENDING" => r.key \in Instructions)
    BY <1>1 DEF TabRecords, HttpRequests, TabJustified
  <2>2. ServeRequest(r) /\ UNCHANGED <<home, drawn, storage>>
    BY <1>3 DEF ServeTab
  <2>3. /\ instruction' \in [Instructions -> {"NONE", "PENDING"} \cup Outcomes]
        /\ \A k \in Instructions : instruction[k] \in Outcomes => instruction'[k] = instruction[k]
    BY <2>1, <2>2, OutcomesAreFinal
  <2>4. PICK a : a = AnswerTo(r)
    OBVIOUS
  <2>5. /\ a \in Answers
        /\ a.status \in Outcomes => a.key \in Instructions /\ instruction'[a.key] \in Outcomes
        /\ a.status = "PENDING" => a.key # 0
    <3>1. 0 \notin Instructions
      BY DEF Instructions
    <3>2. CASE r.call = "PENDING"
      <4>1. CASE PendingOperation = {}
        BY <2>4, <3>2, <4>1 DEF AnswerTo, Answers, Outcomes
      <4>2. CASE PendingOperation # {}
        <5>1. PICK k \in PendingOperation : a = [key |-> k, status |-> "PENDING"]
          BY <2>4, <3>2, <4>2 DEF AnswerTo
        <5>. QED  BY <3>1, <5>1 DEF PendingOperation, Answers, Outcomes
      <4>. QED  BY <4>1, <4>2
    <3>3. CASE r.call # "PENDING"
      <4>1. a = [key |-> r.key,
                 status |-> IF instruction'[r.key] = "NONE" THEN "REFUSED" ELSE instruction'[r.key]]
        BY <2>4, <3>3 DEF AnswerTo
      <4>2. r.key \in Instructions /\ instruction'[r.key] \in {"NONE", "PENDING"} \cup Outcomes
        BY <2>1, <2>3, <3>3
      <4>. QED  BY <3>1, <4>1, <4>2 DEF Answers, Outcomes
    <3>. QED  BY <3>2, <3>3
  <2>6. tab' = [tab EXCEPT ![t].answer = {a}]
    BY <1>3, <2>4 DEF ServeTab
  <2>7. PICK new : new = [tab[t] EXCEPT !.answer = {a}]
    OBVIOUS
  <2>8. new \in TabRecords /\ new.phase = tab[t].phase /\ new.request = r /\ new.answer = {a}
    BY <1>1, <2>5, <2>7 DEF TabRecords
  <2>9. tab' = [tab EXCEPT ![t] = new]
    BY <1>1, <2>6, <2>7
  <2>10. tab' \in [Tabs -> TabRecords] /\ tab'[t] = new
         /\ \A u \in Tabs \ {t} : tab'[u] = tab[u]
    BY <1>1, <2>8, <2>9
  <2>11. TabsJustified'
    <3>1. ASSUME NEW u \in Tabs  PROVE TabJustified(tab[u])'
      <4>1. CASE u = t
        BY <1>1, <2>5, <2>8, <2>10, <4>1 DEF TabJustified
      <4>2. CASE u # t
        BY <1>1, <2>3, <2>10, <4>2 DEF TabJustified
      <4>. QED  BY <4>1, <4>2
    <3>. QED  BY <3>1 DEF TabsJustified
  <2>. QED  BY <2>1, <2>2, <2>10, <2>11, ServerKeepsStored
<1>. QED
  BY <1>2, <1>3

-----------------------------------------------------------------------------

\* A step of a tab: it leaves the server alone, may send a request about an
\* instruction, and writes its browser's storage in one of four ways.
TabWrites(t, new) ==
  /\ new \in TabRecords /\ TabJustified(new)
  /\ Update(t, new)
  /\ UNCHANGED <<home, instruction>>
  /\ sent' \subseteq sent \cup [call : Calls \ {"PENDING"}, key : Instructions]
  /\ \/ UNCHANGED <<storage, drawn>>
     \* a pending instruction, in place of none or of itself
     \/ UNCHANGED drawn /\ \E k \in Instructions :
          Saves(t, k) /\ SaveDraft(t, [key |-> k, registered |-> TRUE])
     \* nothing, in place of a resolved instruction
     \/ UNCHANGED drawn /\ \E k \in Instructions :
          instruction[k] \in Outcomes /\ ForgetDraft(t, k)
     \* a new instruction, in place of none
     \/ /\ Len(drawn) + 1 \in Instructions
        /\ drawn' = Append(drawn, home[t])
        /\ Saves(t, Len(drawn) + 1)
        /\ SaveDraft(t, [key |-> Len(drawn) + 1, registered |-> FALSE])

\* What a tab writes under the conditions of TabWrites keeps the invariant.
LEMMA TabsKeepStored ==
  ASSUME RecoveryInvariant, NEW t \in Tabs, NEW new, TabWrites(t, new)
  PROVE  RecoveryInvariant'
<1>. DEFINE b == home[t]
<1>1. /\ home \in [Tabs -> Browsers] /\ b \in Browsers
      /\ drawn \in Seq(Browsers) /\ DOMAIN drawn = 1 .. Len(drawn) /\ Len(drawn) \in Nat
      /\ Len(drawn) <= MaxInstructions /\ MaxInstructions \in Nat
      /\ storage \in [Browsers -> Drafts]
      /\ \A c \in Browsers : storage[c].registered => storage[c].key # 0
      /\ tab \in [Tabs -> TabRecords]
      /\ \A u \in Tabs : TabJustified(tab[u])
      /\ UNCHANGED <<home, instruction>>
      /\ \A k \in DOMAIN drawn :
           drawn[k] \in Browsers /\ (instruction[k] \notin Outcomes => storage[drawn[k]].key = k)
  BY LenProperties, ElementOfSeq, RecoveryAssumption
  DEF RecoveryInvariant, RecoveryTables, TabsJustified, UnresolvedIsStored, TabWrites
<1>2. TabsJustified' /\ tab' \in [Tabs -> TabRecords]
  <2>1. tab' = [tab EXCEPT ![t] = new] /\ new \in TabRecords /\ TabJustified(new)
    BY DEF TabWrites, Update
  <2>2. tab' \in [Tabs -> TabRecords]
    BY <1>1, <2>1
  <2>3. \A u \in Tabs : TabJustified(tab'[u])
    BY <1>1, <2>1
  <2>. QED  BY <1>1, <2>2, <2>3 DEF TabsJustified, TabJustified
<1>3. sent' \subseteq [call : Calls \ {"PENDING"}, key : Instructions]
  BY DEF RecoveryInvariant, RecoveryTables, TabWrites
<1>4. ASSUME storage' \in [Browsers -> Drafts],
             \A c \in Browsers : storage'[c].registered => storage'[c].key # 0,
             drawn' \in Seq(Browsers), Len(drawn') <= MaxInstructions, UnresolvedIsStored'
      PROVE  RecoveryInvariant'
  BY <1>1, <1>2, <1>3, <1>4 DEF RecoveryInvariant, RecoveryTables
<1>5. CASE UNCHANGED <<storage, drawn>>
  <2>1. UnresolvedIsStored'
    BY <1>1, <1>5 DEF RecoveryInvariant, UnresolvedIsStored
  <2>. QED  BY <1>1, <1>4, <1>5, <2>1
<1>6. ASSUME UNCHANGED drawn, NEW k \in Instructions, Saves(t, k),
             SaveDraft(t, [key |-> k, registered |-> TRUE])
      PROVE  RecoveryInvariant'
  <2>1. PICK d : d = [key |-> k, registered |-> TRUE] /\ storage' = [storage EXCEPT ![b] = d]
    BY <1>6 DEF SaveDraft
  <2>2. d \in Drafts /\ d.key = k /\ k # 0 /\ storage[b].key \in {0, k}
    BY <1>6, <2>1 DEF Drafts, Instructions, Saves, Stored
  <2>3. storage' \in [Browsers -> Drafts] /\ storage'[b] = d
        /\ \A c \in Browsers \ {b} : storage'[c] = storage[c]
    BY <1>1, <2>1, <2>2
  <2>4. UnresolvedIsStored'
    BY <1>1, <1>6, <2>2, <2>3 DEF UnresolvedIsStored
  <2>. QED  BY <1>1, <1>4, <1>6, <2>2, <2>3, <2>4
<1>7. ASSUME UNCHANGED drawn, NEW k \in Instructions, instruction[k] \in Outcomes, ForgetDraft(t, k)
      PROVE  RecoveryInvariant'
  <2>1. NoDraft \in Drafts /\ ~ NoDraft.registered
    BY DEF NoDraft, Drafts
  <2>2. CASE storage[b].key = k
    <3>1. storage' = [storage EXCEPT ![b] = NoDraft]
      BY <1>7, <2>2 DEF ForgetDraft, Stored
    <3>2. storage' \in [Browsers -> Drafts] /\ storage'[b] = NoDraft
          /\ \A c \in Browsers \ {b} : storage'[c] = storage[c]
      BY <1>1, <2>1, <3>1
    <3>3. UnresolvedIsStored'
      BY <1>1, <1>7, <2>2, <3>2 DEF UnresolvedIsStored
    <3>. QED  BY <1>1, <1>4, <1>7, <2>1, <3>2, <3>3
  <2>3. CASE storage[b].key # k
    <3>1. UNCHANGED storage
      BY <1>7, <2>3 DEF ForgetDraft, Stored
    <3>. QED  BY <1>5, <1>7, <3>1
  <2>. QED  BY <2>2, <2>3
<1>8. ASSUME Len(drawn) + 1 \in Instructions, drawn' = Append(drawn, home[t]),
             Saves(t, Len(drawn) + 1),
             SaveDraft(t, [key |-> Len(drawn) + 1, registered |-> FALSE])
      PROVE  RecoveryInvariant'
  <2>1. PICK d : d = [key |-> Len(drawn) + 1, registered |-> FALSE]
                 /\ storage' = [storage EXCEPT ![b] = d]
    BY <1>8 DEF SaveDraft
  <2>2. d \in Drafts /\ d.key = Len(drawn) + 1 /\ ~ d.registered
        /\ storage[b].key \in {0, Len(drawn) + 1}
    BY <1>8, <2>1 DEF Drafts, Saves, Stored
  <2>3. storage' \in [Browsers -> Drafts] /\ storage'[b] = d
        /\ \A c \in Browsers \ {b} : storage'[c] = storage[c]
    BY <1>1, <2>1, <2>2
  <2>4. /\ drawn' \in Seq(Browsers) /\ DOMAIN drawn' = DOMAIN drawn \cup {Len(drawn) + 1}
        /\ drawn'[Len(drawn) + 1] = b /\ Len(drawn') = Len(drawn) + 1
        /\ \A k \in DOMAIN drawn : drawn'[k] = drawn[k]
    BY <1>1, <1>8, RowAppended
  <2>5. UnresolvedIsStored'
    <3>. SUFFICES ASSUME NEW k \in DOMAIN drawn', instruction[k] \notin Outcomes
                  PROVE  storage'[drawn'[k]].key = k
      BY <1>1 DEF UnresolvedIsStored
    <3>1. CASE k = Len(drawn) + 1
      BY <2>2, <2>3, <2>4, <3>1
    <3>2. CASE k \in DOMAIN drawn
      <4>1. storage[drawn[k]].key = k /\ k # 0 /\ k # Len(drawn) + 1 /\ drawn[k] \in Browsers
        BY <1>1, <3>2
      <4>2. drawn[k] # b
        BY <2>2, <4>1
      <4>. QED  BY <2>3, <2>4, <3>2, <4>1, <4>2
    <3>. QED  BY <2>4, <3>1, <3>2
  <2>6. Len(drawn') <= MaxInstructions
    BY <1>1, <1>8, <2>4 DEF Instructions
  <2>. QED  BY <1>1, <1>4, <2>2, <2>3, <2>4, <2>5, <2>6
<1>. QED
  BY <1>5, <1>6, <1>7, <1>8 DEF TabWrites

-----------------------------------------------------------------------------

\* A tab that rests is justified.
LEMMA RestingTab ==
  ASSUME NEW r \in TabRecords
  PROVE  Resting(r) \in TabRecords /\ TabJustified(Resting(r))
<1>1. FreshTab.request = [call |-> "PENDING", key |-> 0]
  BY DEF FreshTab
<1>2. FreshTab.request \in HttpRequests
  BY <1>1 DEF HttpRequests, Calls
<1>3. Resting(r) \in TabRecords
  BY <1>2 DEF Resting, TabRecords, TabPhases
<1>4. Resting(r).phase = "IDLE" /\ Resting(r).answer = {}
      /\ Resting(r).request = FreshTab.request
  BY DEF Resting, TabRecords
<1>. QED
  BY <1>1, <1>3, <1>4 DEF TabJustified

\* A tab that asks something of the server is justified.
LEMMA AskingTab ==
  ASSUME NEW r \in TabRecords, NEW phase \in TabPhases, NEW call \in Calls,
         NEW k \in Instructions \cup {0},
         phase \in {"CHECKING", "REGISTERING", "RESOLVING"} => call # "PENDING",
         call # "PENDING" => k \in Instructions
  PROVE  Asking(r, phase, call, k) \in TabRecords /\ TabJustified(Asking(r, phase, call, k))
<1>1. PICK asked : asked = [call |-> call, key |-> k]
  OBVIOUS
<1>2. asked \in HttpRequests /\ asked.call = call /\ asked.key = k
  BY <1>1 DEF HttpRequests
<1>3. PICK a : a = Asking(r, phase, call, k)
  OBVIOUS
<1>4. a = [r EXCEPT !.phase = phase, !.request = asked, !.answer = {}]
  BY <1>1, <1>3 DEF Asking
<1>5. a \in TabRecords
  BY <1>2, <1>4 DEF TabRecords
<1>6. a.phase = phase /\ a.request = asked /\ a.answer = {}
  BY <1>4 DEF TabRecords
<1>. QED
  BY <1>2, <1>3, <1>5, <1>6 DEF TabJustified

\* A tab that learnt an outcome is justified.
LEMMA SettledTab ==
  ASSUME NEW r \in TabRecords, NEW k \in Instructions
  PROVE  /\ Accepted(r, k) \in TabRecords /\ TabJustified(Accepted(r, k))
         /\ Resolved(r) \in TabRecords /\ TabJustified(Resolved(r))
<1>1. PICK d : d = [key |-> k, registered |-> TRUE]
  OBVIOUS
<1>2. d \in Drafts /\ NoDraft \in Drafts
  BY <1>1 DEF Drafts, NoDraft
<1>3. [r EXCEPT !.hydrated = TRUE, !.operation = k, !.draft = d] \in TabRecords
  BY <1>2 DEF TabRecords
<1>4. [r EXCEPT !.hydrated = TRUE, !.operation = 0, !.draft = NoDraft] \in TabRecords
  BY <1>2 DEF TabRecords
<1>. QED
  BY <1>1, <1>3, <1>4, RestingTab DEF Accepted, Resolved

\* What a tab does with an answer about the instruction it asked for.
LEMMA AnswerWrites ==
  ASSUME RecoveryInvariant, NEW t \in Tabs, NEW k \in Instructions, NEW record \in TabRecords,
         TabJustified(record), UNCHANGED <<home, instruction, drawn>>,
         sent' \subseteq sent \cup [call : Calls \ {"PENDING"}, key : Instructions],
         AcceptAnswer(t, k, record) \/ AcceptOutcome(t)
  PROVE  \E new : TabWrites(t, new)
<1>1. tab[t] \in TabRecords /\ TabJustified(tab[t])
  BY DEF RecoveryInvariant, RecoveryTables, TabsJustified
<1>2. CASE AcceptAnswer(t, k, record)
  <2>1. CASE Saves(t, k)
    BY <1>2, <2>1 DEF AcceptAnswer, TabWrites
  <2>2. CASE ~ Saves(t, k)
    <3>1. UNCHANGED storage /\ Update(t, Resting(tab[t]))
      BY <1>2, <2>2 DEF AcceptAnswer
    <3>. QED  BY <1>1, <3>1, RestingTab DEF TabWrites
  <2>. QED  BY <2>1, <2>2
<1>3. CASE AcceptOutcome(t)
  <2>1. PICK a \in tab[t].answer : /\ a.status \in Outcomes
                                   /\ ForgetDraft(t, a.key)
                                   /\ Update(t, Resolved(tab[t]))
    BY <1>3 DEF AcceptOutcome
  <2>2. a.key \in Instructions /\ instruction[a.key] \in Outcomes
    BY <1>1, <2>1 DEF TabJustified
  <2>3. Resolved(tab[t]) \in TabRecords /\ TabJustified(Resolved(tab[t]))
    BY <1>1, <2>2, SettledTab
  <2>. QED  BY <2>1, <2>2, <2>3 DEF TabWrites
<1>. QED
  BY <1>2, <1>3

\* Every statement of a tab writes under those conditions.
LEMMA TabSteps ==
  ASSUME RecoveryInvariant, NEW t \in Tabs,
         \/ Hydrate(t) \/ FinishLoading(t) \/ FinishCheck(t) \/ SubmitRefund(t)
         \/ FinishRegistration(t) \/ FailRequest(t) \/ ReloadTab(t)
         \/ \E action \in {"EXECUTE", "CANCEL"} : RecoverRefund(t, action)
  PROVE  \E new : TabWrites(t, new)
<1>1. /\ tab[t] \in TabRecords /\ TabJustified(tab[t])
      /\ home[t] \in Browsers /\ Stored(t) \in Drafts
      /\ Stored(t).registered => Stored(t).key # 0
      /\ Stored(t).key \in Instructions \cup {0}
      /\ Len(drawn) \in Nat
  BY LenProperties
  DEF RecoveryInvariant, RecoveryTables, TabsJustified, Stored, Drafts
<1>2. /\ tab[t].draft \in Drafts /\ tab[t].draft.key \in Instructions \cup {0}
      /\ tab[t].operation \in Instructions \cup {0}
      /\ tab[t].action \in {"EXECUTE", "CANCEL"}
      /\ tab[t].answer \subseteq Answers
      /\ tab[t].request \in HttpRequests /\ tab[t].request.key \in Instructions \cup {0}
  BY <1>1 DEF TabRecords, Drafts, HttpRequests
<1>3. CASE Hydrate(t)
  <2>1. Asking(tab[t], "LOADING", "PENDING", 0) \in TabRecords
        /\ TabJustified(Asking(tab[t], "LOADING", "PENDING", 0))
    BY <1>1, AskingTab DEF TabPhases, Calls
  <2>. QED  BY <1>3, <2>1 DEF Hydrate, TabWrites
<1>4. CASE FinishLoading(t)
  <2>1. PICK read : read = [tab[t] EXCEPT !.draft = Stored(t), !.operation = 0]
    OBVIOUS
  <2>2. read \in TabRecords
    BY <1>1, <2>1 DEF TabRecords
  <2>3. PICK a \in tab[t].answer :
          IF a.status = "PENDING"
          THEN /\ IF Saves(t, a.key) THEN SaveDraft(t, [key |-> a.key, registered |-> TRUE])
                  ELSE UNCHANGED storage
               /\ Update(t, Accepted(read, a.key))
          ELSE /\ Update(t, IF Stored(t).registered
                            THEN Asking(read, "CHECKING", "READ", Stored(t).key)
                            ELSE Resting([read EXCEPT !.hydrated = TRUE]))
               /\ UNCHANGED storage
    BY <1>4, <2>1 DEF FinishLoading
  <2>4. UNCHANGED <<home, instruction, drawn, sent>>
    BY <1>4 DEF FinishLoading
  <2>5. CASE a.status = "PENDING"
    <3>1. a.key \in Instructions
      BY <1>1, <1>2, <2>5 DEF TabJustified, Answers
    <3>2. Accepted(read, a.key) \in TabRecords /\ TabJustified(Accepted(read, a.key))
      BY <2>2, <3>1, SettledTab
    <3>. QED  BY <2>3, <2>4, <2>5, <3>1, <3>2 DEF TabWrites
  <2>6. CASE a.status # "PENDING" /\ Stored(t).registered
    <3>1. Asking(read, "CHECKING", "READ", Stored(t).key) \in TabRecords
          /\ TabJustified(Asking(read, "CHECKING", "READ", Stored(t).key))
      BY <1>1, <2>2, <2>6, AskingTab DEF TabPhases, Calls
    <3>. QED  BY <2>3, <2>4, <2>6, <3>1 DEF TabWrites
  <2>7. CASE a.status # "PENDING" /\ ~ Stored(t).registered
    <3>1. [read EXCEPT !.hydrated = TRUE] \in TabRecords
      BY <2>2 DEF TabRecords
    <3>2. Resting([read EXCEPT !.hydrated = TRUE]) \in TabRecords
          /\ TabJustified(Resting([read EXCEPT !.hydrated = TRUE]))
      BY <3>1, RestingTab
    <3>. QED  BY <2>3, <2>4, <2>7, <3>2 DEF TabWrites
  <2>. QED  BY <2>5, <2>6, <2>7
<1>5. CASE FinishCheck(t)
  <2>. DEFINE k == tab[t].request.key
  <2>1. k \in Instructions
    BY <1>1, <1>5 DEF FinishCheck, TabJustified
  <2>2. Accepted(tab[t], k) \in TabRecords /\ TabJustified(Accepted(tab[t], k))
    BY <1>1, <2>1, SettledTab
  <2>3. AcceptAnswer(t, k, Accepted(tab[t], k)) \/ AcceptOutcome(t)
    BY <1>5 DEF FinishCheck
  <2>. QED  BY <1>5, <2>1, <2>2, <2>3, AnswerWrites DEF FinishCheck
<1>6. CASE SubmitRefund(t)
  <2>1. PICK k : k = Len(drawn) + 1
    OBVIOUS
  <2>2. PICK draft : draft = [key |-> k, registered |-> FALSE]
    OBVIOUS
  <2>3. k \in Instructions /\ draft \in Drafts
    BY <1>6, <2>1, <2>2 DEF SubmitRefund, Drafts
  <2>4. [tab[t] EXCEPT !.draft = draft, !.action = "EXECUTE"] \in TabRecords
    BY <1>1, <2>3 DEF TabRecords
  <2>5. PICK new : new = Asking([tab[t] EXCEPT !.draft = draft, !.action = "EXECUTE"],
                                "REGISTERING", "REGISTER", k)
    OBVIOUS
  <2>6. new \in TabRecords /\ TabJustified(new)
    BY <2>3, <2>4, <2>5, AskingTab DEF TabPhases, Calls
  <2>7. Update(t, new) /\ SaveDraft(t, draft) /\ Saves(t, k) /\ drawn' = Append(drawn, home[t])
        /\ Sending("REGISTER", k) /\ UNCHANGED <<home, instruction>>
    BY <1>6, <2>1, <2>2, <2>5 DEF SubmitRefund
  <2>8. sent' \subseteq sent \cup [call : Calls \ {"PENDING"}, key : Instructions]
    BY <2>3, <2>7 DEF Sending, Calls
  <2>. QED  BY <2>1, <2>2, <2>3, <2>6, <2>7, <2>8 DEF TabWrites
<1>7. CASE FinishRegistration(t)
  <2>. DEFINE k == tab[t].request.key
              record == Asking(Accepted(tab[t], k), "RESOLVING", tab[t].action, k)
  <2>1. k \in Instructions
    BY <1>1, <1>7 DEF FinishRegistration, TabJustified
  <2>2. Accepted(tab[t], k) \in TabRecords
    BY <1>1, <2>1, SettledTab
  <2>3. record \in TabRecords /\ TabJustified(record)
    BY <1>2, <2>1, <2>2, AskingTab DEF TabPhases, Calls
  <2>4. AcceptAnswer(t, k, record) \/ AcceptOutcome(t)
    BY <1>7 DEF FinishRegistration
  <2>5. sent' \subseteq sent \cup [call : Calls \ {"PENDING"}, key : Instructions]
    <3>1. UNCHANGED sent \/ Sending(tab[t].action, k)
      BY <1>7 DEF FinishRegistration
    <3>. QED  BY <1>2, <2>1, <3>1 DEF Sending, Calls
  <2>6. UNCHANGED <<home, instruction, drawn>>
    BY <1>7 DEF FinishRegistration
  <2>. HIDE DEF record
  <2>. QED  BY <2>1, <2>3, <2>4, <2>5, <2>6, AnswerWrites
<1>8. CASE FailRequest(t)
  BY <1>1, <1>8, RestingTab DEF FailRequest, TabWrites
<1>9. CASE ReloadTab(t)
  <2>1. FreshTab \in TabRecords /\ TabJustified(FreshTab)
    BY DEF FreshTab, TabRecords, TabPhases, Drafts, NoDraft, HttpRequests, Calls, TabJustified
  <2>. QED  BY <1>9, <2>1 DEF ReloadTab, TabWrites
<1>10. ASSUME NEW action \in {"EXECUTE", "CANCEL"}, RecoverRefund(t, action)
       PROVE  \E new : TabWrites(t, new)
  <2>1. PICK call : call = IF tab[t].operation # 0 THEN action
                           ELSE IF tab[t].draft.registered THEN "READ" ELSE "REGISTER"
    OBVIOUS
  <2>2. PICK phase : phase = IF tab[t].operation # 0 THEN "RESOLVING" ELSE "REGISTERING"
    OBVIOUS
  <2>3. PICK target : target = IF tab[t].operation # 0 THEN tab[t].operation ELSE tab[t].draft.key
    OBVIOUS
  <2>4. /\ tab[t].draft.key # 0
        /\ Update(t, Asking([tab[t] EXCEPT !.action = action], phase, call, target))
        /\ IF call = "READ" THEN UNCHANGED sent ELSE Sending(call, target)
        /\ UNCHANGED <<home, instruction, drawn, storage>>
    BY <1>10, <2>1, <2>2, <2>3 DEF RecoverRefund
  <2>5. call \in Calls \ {"PENDING"} /\ phase \in TabPhases /\ target \in Instructions
    BY <1>2, <2>1, <2>2, <2>3, <2>4 DEF Calls, TabPhases
  <2>6. [tab[t] EXCEPT !.action = action] \in TabRecords
    BY <1>1 DEF TabRecords
  <2>7. PICK new : new = Asking([tab[t] EXCEPT !.action = action], phase, call, target)
    OBVIOUS
  <2>8. new \in TabRecords /\ TabJustified(new)
    BY <2>5, <2>6, <2>7, AskingTab
  <2>9. sent' \subseteq sent \cup [call : Calls \ {"PENDING"}, key : Instructions]
    BY <2>4, <2>5 DEF Sending
  <2>. QED  BY <2>4, <2>7, <2>8, <2>9 DEF TabWrites
<1>. QED
  BY <1>3, <1>4, <1>5, <1>6, <1>7, <1>8, <1>9, <1>10

\* Every step keeps the invariant.
LEMMA RecoveryStep == RecoveryInvariant /\ [RecoveryNext]_recoveryVars => RecoveryInvariant'
<1>1. ASSUME RecoveryInvariant, UNCHANGED recoveryVars  PROVE RecoveryInvariant'
  BY <1>1
  DEF recoveryVars, RecoveryInvariant, RecoveryTables, TabsJustified, TabJustified,
      UnresolvedIsStored
<1>. QED
  BY <1>1, ServerSteps, TabSteps, TabsKeepStored DEF RecoveryNext

\* An instruction that may still be carried out is the one its browser has
\* stored, whatever tabs, late answers, lost requests and reloads there are: no
\* second refund is submitted there while the outcome of one is open.
THEOREM UnresolvedStaysStored == RecoverySpec => []UnresolvedIsStored
<1>1. RecoveryInvariant => UnresolvedIsStored
  BY DEF RecoveryInvariant
<1>. QED
  BY <1>1, RecoveryInitially, RecoveryStep, PTL DEF RecoverySpec

-----------------------------------------------------------------------------
(* Suspension of a vendor's verifications. *)

\* What a worker took for past due is past due, however long ago it looked.
SuspensionInvariant ==
  /\ SuspensionTypeOK
  /\ \A w \in Workers : worker[w].now \subseteq due

\* What a step may do to the suspension.
DecisionOnDebt ==
  /\ ~ suspended /\ suspended' => SuspendingInvoices(due) # {}
  /\ suspended /\ ~ suspended' =>
       \/ Overdue(due) = {}
       \/ \E w \in Workers :
            worker[w].phase = "REINSTATING" /\ Overdue(worker[w].now) = {}

\* No worker has looked at first.
LEMMA SuspensionInitially == SuspensionInit => SuspensionInvariant
<1>1. IdleWorker \in WorkerRecords /\ IdleWorker.now = {}
  BY DEF IdleWorker, WorkerRecords, Phases
<1>2. NoLease \in [row : LeaseRows \cup {NULL}, expired : BOOLEAN]
  BY DEF NoLease
<1>. HIDE DEF IdleWorker, NoLease, WorkerRecords
<1>. SUFFICES ASSUME SuspensionInit  PROVE SuspensionInvariant
  OBVIOUS
<1>3. worker \in [Workers -> WorkerRecords] /\ \A w \in Workers : worker[w].now = {}
  BY <1>1 DEF SuspensionInit
<1>4. lease \in [Jobs -> [row : LeaseRows \cup {NULL}, expired : BOOLEAN]]
  BY <1>2 DEF SuspensionInit
<1>5. crashes \in 0 .. MaxCrashes
  <2>1. crashes = 0 /\ MaxCrashes \in Nat
    BY SuspensionAssumption DEF SuspensionInit
  <2>. QED  BY <2>1
<1>6. due = {}
  BY DEF SuspensionInit
<1>7. suspended \in BOOLEAN /\ syncPending \in BOOLEAN /\ agentSuspended \in BOOLEAN
  BY Zenon DEF SuspensionInit
<1>. QED
  BY <1>3, <1>4, <1>5, <1>6, <1>7 DEF SuspensionInvariant, SuspensionTypeOK

\* A worker goes on with what it took for past due, with nothing, or with what is
\* past due now.
LEMMA WorkerGoesOn ==
  ASSUME SuspensionInvariant, NEW w \in Workers, NEW rec \in WorkerRecords,
         worker' = [worker EXCEPT ![w] = rec], rec.now \subseteq due', due' = due
  PROVE  /\ worker' \in [Workers -> WorkerRecords]
         /\ \A v \in Workers : worker'[v].now \subseteq due'
BY DEF SuspensionInvariant, SuspensionTypeOK

\* What each statement of a worker leaves of its record.
LEMMA WorkerSteps ==
  ASSUME SuspensionInvariant, NEW w \in Workers,
         \/ RunStep(w) \/ ReinstateAfterPayment(w) \/ FailRun(w) \/ StopWorker(w)
         \/ \E j \in Jobs : AcquireLease(w, j)
  PROVE  /\ due' = due
         /\ \E rec \in WorkerRecords :
              worker' = [worker EXCEPT ![w] = rec] /\ rec.now \subseteq due
<1>. USE DEF SuspensionInvariant, SuspensionTypeOK
<1>. DEFINE Goes == \E rec \in WorkerRecords :
                      worker' = [worker EXCEPT ![w] = rec] /\ rec.now \subseteq due
<1>1. worker[w] \in WorkerRecords /\ worker[w].now \subseteq due
  OBVIOUS
<1>2. IdleWorker \in WorkerRecords /\ IdleWorker.now \subseteq due
  BY DEF IdleWorker, WorkerRecords, Phases
<1>3. ASSUME worker' = [worker EXCEPT ![w] = IdleWorker]  PROVE Goes
  BY <1>2, <1>3
<1>4. ASSUME NEW phase \in Phases, Enter(w, phase)  PROVE Goes
  <2>. DEFINE rec == [worker[w] EXCEPT !.phase = phase]
  <2>1. rec \in WorkerRecords /\ rec.now \subseteq due
    BY <1>1 DEF WorkerRecords
  <2>2. worker' = [worker EXCEPT ![w] = rec]
    BY <1>4 DEF Enter
  <2>. QED  BY <2>1, <2>2
<1>5. ASSUME EndSync(w)  PROVE Goes
  <2>. DEFINE rec == [worker[w] EXCEPT !.phase = "ENDING", !.now = {}, !.pushed = FALSE]
  <2>1. rec \in WorkerRecords /\ rec.now \subseteq due
    BY <1>1 DEF WorkerRecords, Phases
  <2>2. worker' = [worker EXCEPT ![w] = rec] \/ worker' = [worker EXCEPT ![w] = IdleWorker]
    BY <1>5 DEF EndSync
  <2>. QED  BY <1>3, <2>1, <2>2
<1>6. ASSUME ListSettled(w)  PROVE Goes
  <2>1. PICK phase \in Phases :
          worker' = [worker EXCEPT ![w].phase = phase, ![w].now = due]
    BY <1>6 DEF ListSettled, AfterReinstatement, Phases
  <2>. DEFINE rec == [worker[w] EXCEPT !.phase = phase, !.now = due]
  <2>2. rec \in WorkerRecords /\ rec.now \subseteq due
    BY <1>1 DEF WorkerRecords
  <2>3. worker' = [worker EXCEPT ![w] = rec]
    BY <2>1
  <2>. QED  BY <2>2, <2>3
<1>7. ASSUME ListPending(w)  PROVE Goes
  <2>. DEFINE rec == [worker[w] EXCEPT !.phase = "PUSHING", !.now = {}, !.pushed = suspended]
  <2>1. rec \in WorkerRecords /\ rec.now \subseteq due
    BY <1>1 DEF WorkerRecords, Phases
  <2>2. worker' = [worker EXCEPT ![w] = rec] \/ EndSync(w)
    BY <1>7 DEF ListPending
  <2>. QED  BY <1>5, <2>1, <2>2
<1>8. ASSUME NEW j \in Jobs, AcquireLease(w, j)  PROVE Goes
  <2>1. PICK taken \in LeaseRows :
          worker' = [worker EXCEPT ![w] =
                       [IdleWorker EXCEPT !.phase = "STARTED", !.job = j, !.row = taken]]
    BY <1>8 DEF AcquireLease
  <2>. DEFINE rec == [IdleWorker EXCEPT !.phase = "STARTED", !.job = j, !.row = taken]
  <2>2. rec \in WorkerRecords /\ rec.now \subseteq due
    BY <1>2 DEF WorkerRecords, IdleWorker, Phases
  <2>. QED  BY <2>1, <2>2
<1>9. ASSUME ReinstateAfterPayment(w)  PROVE Goes
  <2>. DEFINE rec == [IdleWorker EXCEPT !.phase = "SYNCING"]
  <2>1. rec \in WorkerRecords /\ rec.now \subseteq due
    BY <1>2 DEF WorkerRecords, IdleWorker, Phases
  <2>. QED  BY <1>9, <2>1 DEF ReinstateAfterPayment
<1>10. \A phase \in {"REINSTATING", "SCANNING", "SUSPENDING", "SYNCING", "PUSHED"} :
         phase \in Phases
  BY DEF Phases
<1>. HIDE DEF Goes
<1>11. Goes
  BY <1>3, <1>4, <1>5, <1>6, <1>7, <1>8, <1>9, <1>10
  DEF RunStep, FailRun, StopWorker, Reinstate, ListOverdue, Suspend, Push, PushFails,
      ClearFlag, EndRun, AfterReinstatement
<1>12. due' = due
  BY DEF RunStep, FailRun, StopWorker, Reinstate, ListOverdue, Suspend, Push, PushFails,
     ClearFlag, EndRun, ListSettled, ListPending, AcquireLease, ReinstateAfterPayment
<1>. QED  BY <1>11, <1>12 DEF Goes

\* Only three statements decide on the suspension, each on a list that was or is
\* past due.
LEMMA DecisionsOnDebt ==
  ASSUME SuspensionInvariant, [SuspensionNext]_vars
  PROVE  DecisionOnDebt
<1>. SUFFICES ASSUME suspended' # suspended  PROVE DecisionOnDebt
  BY DEF DecisionOnDebt, SuspensionInvariant, SuspensionTypeOK
<1>1. PICK w \in Workers : Reinstate(w) \/ Suspend(w) \/ ReinstateAfterPayment(w)
  BY DEF SuspensionNext, RunStep, vars, suspensionVars, InvoiceStep, FallDue, ExpireLease,
     AcquireLease, ListSettled, ListOverdue, ListPending, Push, PushFails, ClearFlag, EndRun,
     FailRun, StopWorker
<1>2. suspended \in BOOLEAN /\ worker[w].now \subseteq due
  BY DEF SuspensionInvariant, SuspensionTypeOK
<1>3. CASE Reinstate(w)
  BY <1>2, <1>3 DEF Reinstate, LiftSuspension, DecisionOnDebt
<1>4. CASE Suspend(w)
  <2>1. SuspendingInvoices(worker[w].now) # {} /\ suspended'
    BY <1>2, <1>4 DEF Suspend
  <2>2. SuspendingInvoices(worker[w].now) \subseteq SuspendingInvoices(due)
    BY <1>2 DEF SuspendingInvoices, Overdue
  <2>. QED  BY <2>1, <2>2 DEF DecisionOnDebt
<1>5. CASE ReinstateAfterPayment(w)
  BY <1>5 DEF ReinstateAfterPayment, LiftSuspension, DecisionOnDebt
<1>. QED  BY <1>1, <1>3, <1>4, <1>5

\* Every step keeps the invariant.
LEMMA SuspensionStep ==
  ASSUME SuspensionInvariant, [SuspensionNext]_vars
  PROVE  SuspensionInvariant'
<1>. USE SuspensionAssumption
<1>1. CASE UNCHANGED suspensionVars
  BY <1>1 DEF suspensionVars, SuspensionInvariant, SuspensionTypeOK
<1>2. ASSUME NEW i \in Invoices, FallDue(i)  PROVE SuspensionInvariant'
  BY <1>2 DEF FallDue, SuspensionInvariant, SuspensionTypeOK
<1>3. ASSUME NEW j \in Jobs, ExpireLease(j)  PROVE SuspensionInvariant'
  BY <1>3 DEF ExpireLease, SuspensionInvariant, SuspensionTypeOK
<1>4. ASSUME NEW w \in Workers,
             \/ RunStep(w) \/ ReinstateAfterPayment(w) \/ FailRun(w) \/ StopWorker(w)
             \/ \E j \in Jobs : AcquireLease(w, j)
      PROVE  SuspensionInvariant'
  <2>1. /\ due' = due
        /\ worker' \in [Workers -> WorkerRecords]
        /\ \A v \in Workers : worker'[v].now \subseteq due'
    BY <1>4, WorkerSteps, WorkerGoesOn
  <2>2. suspended' \in BOOLEAN /\ syncPending' \in BOOLEAN /\ agentSuspended' \in BOOLEAN
    BY <1>4
    DEF RunStep, FailRun, StopWorker, Reinstate, ListOverdue, Suspend, Push, PushFails,
        ClearFlag, EndRun, ListSettled, ListPending, AcquireLease, ReinstateAfterPayment,
        LiftSuspension, SuspensionInvariant, SuspensionTypeOK, WorkerRecords
  <2>3. crashes' \in 0 .. MaxCrashes
    <3>1. \/ crashes' = crashes
          \/ crashes < MaxCrashes /\ crashes' = crashes + 1
      BY <1>4
      DEF RunStep, FailRun, StopWorker, Reinstate, ListOverdue, Suspend, Push, PushFails,
          ClearFlag, EndRun, ListSettled, ListPending, AcquireLease, ReinstateAfterPayment
    <3>2. crashes \in 0 .. MaxCrashes
      BY DEF SuspensionInvariant, SuspensionTypeOK
    <3>. QED  BY <3>1, <3>2
  <2>4. lease' \in [Jobs -> [row : LeaseRows \cup {NULL}, expired : BOOLEAN]]
    <3>. DEFINE Leases == [row : LeaseRows \cup {NULL}, expired : BOOLEAN]
    <3>1. \/ lease' = lease
          \/ \E j \in Jobs : lease' = [lease EXCEPT ![j] = NoLease]
          \/ \E j \in Jobs, taken \in LeaseRows :
               lease' = [lease EXCEPT ![j] = [row |-> taken, expired |-> FALSE]]
      BY <1>4
      DEF RunStep, FailRun, StopWorker, Reinstate, ListOverdue, Suspend, Push, PushFails,
          ClearFlag, EndRun, ListSettled, ListPending, AcquireLease, ReinstateAfterPayment,
          ReleaseLease
    <3>2. NoLease \in Leases /\ \A taken \in LeaseRows : [row |-> taken, expired |-> FALSE] \in Leases
      BY DEF NoLease
    <3>3. lease \in [Jobs -> Leases]
      BY DEF SuspensionInvariant, SuspensionTypeOK
    <3>. HIDE DEF Leases
    <3>4. lease' \in [Jobs -> Leases]
      BY <3>1, <3>2, <3>3
    <3>. QED  BY <3>4 DEF Leases
  <2>. QED  BY <2>1, <2>2, <2>3, <2>4 DEF SuspensionInvariant, SuspensionTypeOK
<1>. QED
  BY <1>1, <1>2, <1>3, <1>4 DEF SuspensionNext, InvoiceStep, vars

\* A worker never decides on an invoice that is not past due.
THEOREM SuspensionInvariantHolds == SuspensionSpec => []SuspensionInvariant
BY SuspensionInitially, SuspensionStep, PTL DEF SuspensionSpec

\* A vendor is suspended only for an invoice that is unpaid, past due and under
\* no exception at that moment, and reinstated only when the invoices that the
\* deciding worker took for due are paid, whatever jobs, hooks and payments run
\* at the same time.
THEOREM SuspensionFollowsDebt == SuspensionSpec => DecidedOnDebt
<1>1. SuspensionInvariant /\ [SuspensionNext]_vars => [DecisionOnDebt]_vars
  BY DecisionsOnDebt
<1>. QED
  BY <1>1, SuspensionInvariantHolds, PTL DEF SuspensionSpec, DecidedOnDebt, DecisionOnDebt
=============================================================================
