---------------------------- MODULE RefundRecovery ----------------------------
(***************************************************************************)
(* The browser's side of refunds (src/src/lib/payments/                    *)
(* refundRecoveryClient.ts): each tab of an operator freezes a refund      *)
(* instruction in the storage of its browser before it registers,          *)
(* executes or cancels it at the server, and recovers what the storage or  *)
(* the server still knows after lost answers, reloads and other tabs.      *)
(*                                                                         *)
(* One operator.  The server does what RefundOperations has in detail:     *)
(* the outcome of an instruction is final, and one is pending at a time.   *)
(* A request that got no answer may be served at any later time.           *)
(***************************************************************************)
EXTENDS Naturals, Sequences

CONSTANTS
  Tabs,
  Browsers,
  Layouts,         \* ways in which the tabs are spread over the browsers
  MaxInstructions  \* instructions that are submitted

ASSUME RecoveryAssumption ==
  /\ Layouts \subseteq [Tabs -> Browsers]
  /\ MaxInstructions \in Nat

\* Instructions are numbered as they are drawn; 0 stands for none.
Instructions == 1 .. MaxInstructions
Outcomes == {"COMPLETED", "REJECTED", "CANCELLED"}

\* "registered" is the operationId of a draft.
Drafts == [key : Instructions \cup {0}, registered : BOOLEAN]
NoDraft == [key |-> 0, registered |-> FALSE]

Calls == {"PENDING", "READ", "REGISTER", "EXECUTE", "CANCEL"}
HttpRequests == [call : Calls, key : Instructions \cup {0}]
Answers == [key : Instructions \cup {0}, status : {"NONE", "PENDING", "REFUSED"} \cup Outcomes]

TabPhases == {"IDLE", "LOADING", "CHECKING", "REGISTERING", "RESOLVING"}

\* A tab waits for the answers in "answer", a set of one at most.
TabRecords ==
  [phase : TabPhases, hydrated : BOOLEAN, draft : Drafts, operation : Instructions \cup {0},
   action : {"EXECUTE", "CANCEL"}, request : HttpRequests, answer : SUBSET Answers]

VARIABLES
  home,         \* the browser of each tab: tabs of one browser share a storage
  instruction,  \* [Instructions -> its status at the server]
  drawn,        \* sequence of the browsers whose tabs drew the instructions
  storage,      \* [Browsers -> draft in localStorage]
  tab,
  sent          \* requests that may still change the server's state

recoveryVars == <<home, instruction, drawn, storage, tab, sent>>

RecoveryTypeOK ==
  /\ home \in Layouts
  /\ instruction \in [Instructions -> {"NONE", "PENDING"} \cup Outcomes]
  /\ drawn \in Seq(Browsers) /\ Len(drawn) <= MaxInstructions
  /\ storage \in [Browsers -> Drafts]
  /\ tab \in [Tabs -> TabRecords]
  /\ sent \in SUBSET HttpRequests

FreshTab ==
  [phase |-> "IDLE", hydrated |-> FALSE, draft |-> NoDraft, operation |-> 0,
   action |-> "EXECUTE", request |-> [call |-> "PENDING", key |-> 0], answer |-> {}]

RecoveryInit ==
  /\ home \in Layouts
  /\ instruction = [k \in Instructions |-> "NONE"]
  /\ drawn = <<>>
  /\ storage = [b \in Browsers |-> NoDraft]
  /\ tab = [t \in Tabs |-> FreshTab]
  /\ sent = {}

-----------------------------------------------------------------------------
(* The server. *)

PendingOperation == {k \in Instructions : instruction[k] = "PENDING"}

RegisterInstruction(k) ==
  instruction' = IF instruction[k] = "NONE" /\ PendingOperation = {}
                 THEN [instruction EXCEPT ![k] = "PENDING"] ELSE instruction

ResolveInstruction(k, outcomes) ==
  \E o \in outcomes :
    instruction' = IF instruction[k] = "PENDING"
                   THEN [instruction EXCEPT ![k] = o] ELSE instruction

\* What a request is about: registering is done once, an outcome is final.
Effective(r) ==
  \/ r.call = "REGISTER" /\ instruction[r.key] = "NONE"
  \/ r.call \in {"EXECUTE", "CANCEL"} /\ instruction[r.key] = "PENDING"

ServeRequest(r) ==
  /\ CASE r.call = "REGISTER" -> RegisterInstruction(r.key)
       [] r.call = "EXECUTE"  -> ResolveInstruction(r.key, {"COMPLETED", "REJECTED"})
       [] r.call = "CANCEL"   -> ResolveInstruction(r.key, {"CANCELLED"})
       [] OTHER               -> UNCHANGED instruction
  /\ sent' = {q \in sent : Effective(q)'}

\* The answer, from the state after the request; a registration is refused while
\* another instruction is pending.
AnswerTo(r) ==
  IF r.call = "PENDING"
  THEN IF PendingOperation = {} THEN [key |-> 0, status |-> "NONE"]
       ELSE [key |-> CHOOSE k \in PendingOperation : TRUE, status |-> "PENDING"]
  ELSE [key |-> r.key,
        status |-> IF instruction'[r.key] = "NONE" THEN "REFUSED" ELSE instruction'[r.key]]

ServeTab(t) ==
  /\ tab[t].phase # "IDLE" /\ tab[t].answer = {}
  /\ ServeRequest(tab[t].request)
  /\ tab' = [tab EXCEPT ![t].answer = {AnswerTo(tab[t].request)}]
  /\ UNCHANGED <<home, drawn, storage>>

\* Nobody waits for the answer any more.
ServeLate(r) ==
  /\ ServeRequest(r)
  /\ UNCHANGED <<home, drawn, storage, tab>>

-----------------------------------------------------------------------------
(* The tabs.  The code between two requests runs without interruption. *)

Stored(t) == storage[home[t]]
Update(t, record) == tab' = [tab EXCEPT ![t] = record]

\* The record of a tab that asks the server.
Asking(record, phase, call, k) ==
  [record EXCEPT !.phase = phase, !.request = [call |-> call, key |-> k], !.answer = {}]

Resting(record) ==
  [record EXCEPT !.phase = "IDLE", !.answer = {}, !.request = FreshTab.request,
                 !.action = "EXECUTE"]

Sending(call, k) ==
  sent' = sent \cup {r \in {[call |-> call, key |-> k]} : Effective(r)}

\* On opening, on focus, and when another tab writes.
Hydrate(t) ==
  /\ tab[t].phase = "IDLE"
  /\ Update(t, Asking(tab[t], "LOADING", "PENDING", 0))
  /\ UNCHANGED <<home, instruction, drawn, storage, sent>>

\* A stored reference to another instruction is kept.
Saves(t, k) == Stored(t).key \in {0, k}

SaveDraft(t, draft) == storage' = [storage EXCEPT ![home[t]] = draft]

\* Faulty variant: the stored reference is cleared without a look at it.
ForgetAny(t, k) == storage' = [storage EXCEPT ![home[t]] = NoDraft]

ForgetDraft(t, k) ==
  storage' = IF Stored(t).key = k
             THEN [storage EXCEPT ![home[t]] = NoDraft] ELSE storage

Accepted(record, k) ==
  Resting([record EXCEPT !.hydrated = TRUE, !.operation = k,
                         !.draft = [key |-> k, registered |-> TRUE]])

Resolved(record) ==
  Resting([record EXCEPT !.hydrated = TRUE, !.operation = 0, !.draft = NoDraft])

\* A pending operation of the server is shown, also when the storage has another
\* reference.  Without one the stored draft is, and checked if it is registered.
FinishLoading(t) ==
  /\ tab[t].phase = "LOADING"
  /\ \E a \in tab[t].answer :
       LET read == [tab[t] EXCEPT !.draft = Stored(t), !.operation = 0]
       IN IF a.status = "PENDING"
          THEN /\ IF Saves(t, a.key) THEN SaveDraft(t, [key |-> a.key, registered |-> TRUE])
                  ELSE UNCHANGED storage
               /\ Update(t, Accepted(read, a.key))
          ELSE /\ Update(t, IF Stored(t).registered
                            THEN Asking(read, "CHECKING", "READ", Stored(t).key)
                            ELSE Resting([read EXCEPT !.hydrated = TRUE]))
               /\ UNCHANGED storage
  /\ UNCHANGED <<home, instruction, drawn, sent>>

\* A pending answer that comes after another instruction was stored is an error.
AcceptAnswer(t, k, record) ==
  \E a \in tab[t].answer :
    /\ a.status = "PENDING"
    /\ IF Saves(t, k)
       THEN SaveDraft(t, [key |-> k, registered |-> TRUE]) /\ Update(t, record)
       ELSE UNCHANGED storage /\ Update(t, Resting(tab[t]))

AcceptOutcome(t) ==
  \E a \in tab[t].answer :
    /\ a.status \in Outcomes
    /\ ForgetDraft(t, a.key)
    /\ Update(t, Resolved(tab[t]))

FinishCheck(t) ==
  /\ tab[t].phase \in {"CHECKING", "RESOLVING"}
  /\ \/ AcceptAnswer(t, tab[t].request.key, Accepted(tab[t], tab[t].request.key))
     \/ AcceptOutcome(t)
  /\ UNCHANGED <<home, instruction, drawn, sent>>

SubmitRefund(t) ==
  LET k == Len(drawn) + 1
      draft == [key |-> k, registered |-> FALSE]
  IN /\ tab[t].phase = "IDLE" /\ tab[t].hydrated
     /\ tab[t].draft = NoDraft /\ tab[t].operation = 0
     /\ k \in Instructions
     /\ Saves(t, k)
     /\ drawn' = Append(drawn, home[t])
     /\ SaveDraft(t, draft)
     /\ Update(t, Asking([tab[t] EXCEPT !.draft = draft, !.action = "EXECUTE"],
                         "REGISTERING", "REGISTER", k))
     /\ Sending("REGISTER", k)
     /\ UNCHANGED <<home, instruction>>

\* An acknowledged operation is resolved, an unacknowledged one found first.
RecoverRefund(t, action) ==
  LET k == tab[t].draft.key
      call == IF tab[t].operation # 0 THEN action
              ELSE IF tab[t].draft.registered THEN "READ" ELSE "REGISTER"
      phase == IF tab[t].operation # 0 THEN "RESOLVING" ELSE "REGISTERING"
      target == IF tab[t].operation # 0 THEN tab[t].operation ELSE k
  IN /\ tab[t].phase = "IDLE" /\ k # 0
     /\ Update(t, Asking([tab[t] EXCEPT !.action = action], phase, call, target))
     /\ IF call = "READ" THEN UNCHANGED sent ELSE Sending(call, target)
     /\ UNCHANGED <<home, instruction, drawn, storage>>

FinishRegistration(t) ==
  LET k == tab[t].request.key
      record == Asking(Accepted(tab[t], k), "RESOLVING", tab[t].action, k)
  IN /\ tab[t].phase = "REGISTERING"
     /\ \/ AcceptAnswer(t, k, record) /\ IF Saves(t, k) THEN Sending(tab[t].action, k)
                                         ELSE UNCHANGED sent
        \/ AcceptOutcome(t) /\ UNCHANGED sent
     /\ UNCHANGED <<home, instruction, drawn>>

\* The request or its answer is lost, or the server refuses.
FailRequest(t) ==
  /\ tab[t].phase # "IDLE"
  /\ Update(t, Resting(tab[t]))
  /\ UNCHANGED <<home, instruction, drawn, storage, sent>>

ReloadTab(t) ==
  /\ Update(t, FreshTab)
  /\ UNCHANGED <<home, instruction, drawn, storage, sent>>

RecoveryNext ==
  \/ \E t \in Tabs :
       \/ ServeTab(t) \/ Hydrate(t) \/ FinishLoading(t) \/ FinishCheck(t)
       \/ SubmitRefund(t) \/ FinishRegistration(t) \/ FailRequest(t) \/ ReloadTab(t)
       \/ \E action \in {"EXECUTE", "CANCEL"} : RecoverRefund(t, action)
  \/ \E r \in sent : ServeLate(r)

RecoverySpec == RecoveryInit /\ [][RecoveryNext]_recoveryVars

-----------------------------------------------------------------------------

\* An instruction that may still be carried out is the one that its browser has
\* stored, whatever tabs, late answers and reloads: so it can be recovered, and
\* no second refund is submitted there while its outcome is open.
UnresolvedIsStored ==
  \A k \in DOMAIN drawn :
    instruction[k] \notin Outcomes => storage[drawn[k]].key = k
=============================================================================
