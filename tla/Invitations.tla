----------------------------- MODULE Invitations -----------------------------
(***************************************************************************)
(* Invitations of a vendor's staff (src/src/lib/vendors/staff.ts) and of   *)
(* administrators (src/src/lib/auth/invites.ts) to one e-mail address: a   *)
(* new invitation withdraws the earlier ones, and an accepted one makes a  *)
(* user.  Every statement is a step: nothing spans them but a conditional  *)
(* update that claims the invitation, and the database's unique address.   *)
(***************************************************************************)
EXTENDS Naturals, Sequences

CONSTANTS
  MaxInvites,
  Inviters,   \* requests to invite
  Accepters   \* requests to accept

Invites == 1 .. MaxInvites
InviteKinds == {"STAFF", "ADMIN"}

InviteRecords ==
  [kind : InviteKinds, accepted : BOOLEAN, revoked : BOOLEAN, expired : BOOLEAN, named : BOOLEAN]

AcceptStages == {"NONE", "READ", "CLAIMED", "CREATED", "FAILED", "ORPHANED", "ENDED"}

VARIABLES
  invite,    \* sequence of vendor_staff_invite and admin_invite
  inviter,   \* [Inviters -> kind to be inserted, "NONE" or "ENDED"]
  accepter,  \* [Accepters -> stage and invitation]
  user,      \* invitation that made the user of the address, or 0
  member,    \* the user is a member of the vendor, with its branches
  stopped    \* an acceptance stopped half-way

inviteVars == <<invite, inviter, accepter, user, member, stopped>>

InviteTypeOK ==
  /\ invite \in Seq(InviteRecords) /\ Len(invite) \in 0 .. MaxInvites
  /\ inviter \in [Inviters -> InviteKinds \cup {"NONE", "ENDED"}]
  /\ accepter \in [Accepters -> [stage : AcceptStages, invite : Invites \cup {0}]]
  /\ user \in Invites \cup {0}
  /\ member \in BOOLEAN
  /\ stopped \in BOOLEAN

InviteInit ==
  /\ invite = <<>>
  /\ inviter = [h \in Inviters |-> "NONE"]
  /\ accepter = [h \in Accepters |-> [stage |-> "NONE", invite |-> 0]]
  /\ user = 0
  /\ member = FALSE
  /\ stopped = FALSE

Live(i) == ~invite[i].accepted /\ ~invite[i].revoked /\ ~invite[i].expired

-----------------------------------------------------------------------------
(* Inviting. *)

\* Staff are only invited at an address without a user.
SupersedeInvites(h, kind) ==
  /\ inviter[h] = "NONE" /\ Len(invite) < MaxInvites
  /\ kind = "STAFF" => user = 0
  /\ invite' = [i \in DOMAIN invite |->
       IF invite[i].kind = kind /\ Live(i) THEN [invite[i] EXCEPT !.revoked = TRUE]
       ELSE invite[i]]
  /\ inviter' = [inviter EXCEPT ![h] = kind]
  /\ UNCHANGED <<accepter, user, member, stopped>>

InsertInvite(h) ==
  /\ inviter[h] \in InviteKinds /\ Len(invite) < MaxInvites
  /\ invite' = Append(invite, [kind |-> inviter[h], accepted |-> FALSE, revoked |-> FALSE,
                               expired |-> FALSE, named |-> FALSE])
  /\ inviter' = [inviter EXCEPT ![h] = "ENDED"]
  /\ UNCHANGED <<accepter, user, member, stopped>>

RevokeInvite(i) ==
  /\ i \in DOMAIN invite /\ ~invite[i].accepted /\ ~invite[i].revoked
  /\ invite' = [invite EXCEPT ![i].revoked = TRUE]
  /\ UNCHANGED <<inviter, accepter, user, member, stopped>>

ExpireInvite(i) ==
  /\ i \in DOMAIN invite /\ ~invite[i].expired
  /\ invite' = [invite EXCEPT ![i].expired = TRUE]
  /\ UNCHANGED <<inviter, accepter, user, member, stopped>>

-----------------------------------------------------------------------------
(* Accepting. *)

At(h, stage) == accepter[h].stage = stage
Kind(h) == invite[accepter[h].invite].kind
Turn(h, stage) == accepter' = [accepter EXCEPT ![h].stage = stage]

ReadInvite(h, i) ==
  /\ At(h, "NONE")
  /\ i \in DOMAIN invite /\ Live(i)
  /\ invite[i].kind = "STAFF" => user = 0
  /\ accepter' = [accepter EXCEPT ![h] = [stage |-> "READ", invite |-> i]]
  /\ UNCHANGED <<invite, inviter, user, member, stopped>>

\* Faulty variant of Claimable: the invitation is claimed as it was read.
ClaimableAsRead(h) == TRUE

\* The conditional update; that of an administrator still uses the time of the
\* reading for the expiry.
Claimable(h) ==
  LET i == invite[accepter[h].invite]
  IN  ~i.accepted /\ ~i.revoked /\ (i.kind = "STAFF" => ~i.expired)

ClaimInvite(h) ==
  /\ At(h, "READ")
  /\ IF Claimable(h)
     THEN /\ invite' = [invite EXCEPT ![accepter[h].invite].accepted = TRUE]
          /\ Turn(h, "CLAIMED")
     ELSE Turn(h, "ENDED") /\ UNCHANGED invite
  /\ UNCHANGED <<inviter, user, member, stopped>>

CreateUser(h) ==
  /\ At(h, "CLAIMED") /\ user = 0
  /\ user' = accepter[h].invite
  /\ Turn(h, "CREATED")
  /\ UNCHANGED <<invite, inviter, member, stopped>>

\* The address has a user by now, or the user cannot be created.  Only staff
\* get their invitation back.
FailCreation(h) ==
  /\ At(h, "CLAIMED")
  /\ Turn(h, IF Kind(h) = "STAFF" THEN "FAILED" ELSE "ENDED")
  /\ UNCHANGED <<invite, inviter, user, member, stopped>>

\* The membership and its branches, in one transaction; for an administrator,
\* the update that names the user.
CompleteAcceptance(h) ==
  /\ At(h, "CREATED")
  /\ invite' = [invite EXCEPT ![accepter[h].invite].named = TRUE]
  /\ member' = (member \/ Kind(h) = "STAFF")
  /\ Turn(h, "ENDED")
  /\ UNCHANGED <<inviter, user, stopped>>

FailMembership(h) ==
  /\ At(h, "CREATED") /\ Kind(h) = "STAFF"
  /\ Turn(h, "ORPHANED")
  /\ UNCHANGED <<invite, inviter, user, member, stopped>>

RemoveUser(h) ==
  /\ At(h, "ORPHANED")
  /\ user' = 0
  /\ Turn(h, "FAILED")
  /\ UNCHANGED <<invite, inviter, member, stopped>>

ReleaseClaim(h) ==
  /\ At(h, "FAILED")
  /\ invite' = [invite EXCEPT ![accepter[h].invite].accepted = @ /\ invite[accepter[h].invite].named]
  /\ Turn(h, "ENDED")
  /\ UNCHANGED <<inviter, user, member, stopped>>

StopAccepting(h) ==
  /\ accepter[h].stage \in {"CLAIMED", "CREATED", "ORPHANED", "FAILED"}
  /\ stopped' = TRUE
  /\ Turn(h, "ENDED")
  /\ UNCHANGED <<invite, inviter, user, member>>

InviteNext ==
  \/ \E h \in Inviters : InsertInvite(h) \/ \E kind \in InviteKinds : SupersedeInvites(h, kind)
  \/ \E i \in Invites : RevokeInvite(i) \/ ExpireInvite(i)
  \/ \E h \in Accepters :
       \/ \E i \in Invites : ReadInvite(h, i)
       \/ ClaimInvite(h) \/ CreateUser(h) \/ FailCreation(h) \/ CompleteAcceptance(h)
       \/ FailMembership(h) \/ RemoveUser(h) \/ ReleaseClaim(h) \/ StopAccepting(h)

InviteSpec == InviteInit /\ [][InviteNext]_inviteVars

-----------------------------------------------------------------------------

\* Unless its acceptance is under way or stopped half-way, a staff invitation is
\* used up exactly by the user it made, who is a member: a failed acceptance
\* leaves neither a user without access nor an invitation without effect, and of
\* two acceptances at once one is refused.
StaffInviteAdmits ==
  stopped \/
  \A i \in DOMAIN invite :
    \/ invite[i].kind # "STAFF"
    \/ \E h \in Accepters :
         accepter[h].invite = i /\ accepter[h].stage \in {"CLAIMED", "CREATED", "ORPHANED", "FAILED"}
    \/ /\ invite[i].accepted <=> user = i
       /\ user = i => member
=============================================================================
