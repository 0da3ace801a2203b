-------------------------------- MODULE Team --------------------------------
(***************************************************************************)
(* How people get into a workspace and leave it: access requests and their *)
(* approval (lib/public.ts, lib/onboarding.ts), invitations                *)
(* (lib/identity.ts), the seats of the plan (lib/entitlements.ts) and the  *)
(* administrators' switch (app/api/users).  A call reads in one step and   *)
(* writes in a later one; a transaction is one step, and one that fails    *)
(* leaves nothing behind.                                                  *)
(***************************************************************************)
EXTENDS Naturals, FiniteSets

CONSTANTS Call,      \* requests in progress
          Email,     \* addresses of people, unique over all workspaces
          Founder,   \* those with an administrator's account to begin with
          Request, Invite, \* rows that may be made
          Seats,     \* limits.seats of the workspace's plan, enforced
          None

VARIABLES
    account,  \* User of each address: None or its workspace, role and switch
    request,  \* AccessRequest rows: None or address and status
    mail,     \* what each request says of its last email
    invite,   \* Invite rows: None or address, role and state
    at, read  \* each call: point, and what it carries

vars == <<account, request, mail, invite, at, read>>

Account == [home : {"ours"} \cup Request, admin : BOOLEAN, disabled : BOOLEAN]

TypeOK ==
    /\ \A e \in Email : account[e] = None \/ account[e] \in Account
    /\ \A r \in Request : request[r] = None \/
          request[r] \in [email : Email, status : {"PENDING", "APPROVED"}]
    /\ mail \in [Request -> {"none", "sent", "failed"}]
    /\ \A i \in Invite : invite[i] = None \/
          invite[i] \in [email : Email, admin : BOOLEAN, state : {"open", "expired", "accepted"}]
    /\ at \in [Call -> {"idle", "submit", "approve", "deliver", "invite", "accept", "switch"}]

Init ==
    /\ account = [e \in Email |-> IF e \in Founder
                    THEN [home |-> "ours", admin |-> TRUE, disabled |-> FALSE] ELSE None]
    /\ request = [r \in Request |-> None] /\ mail = [r \in Request |-> "none"]
    /\ invite = [i \in Invite |-> None]
    /\ at = [c \in Call |-> "idle"] /\ read = [c \in Call |-> None]

Starts(c, p, x) == at[c] = "idle" /\ at' = [at EXCEPT ![c] = p] /\ read' = [read EXCEPT ![c] = x]
Goes(c, p, x)   == at' = [at EXCEPT ![c] = p] /\ read' = [read EXCEPT ![c] = x]
Ends(c)         == Goes(c, "idle", None)

Ours      == {e \in Email : account[e] # None /\ account[e].home = "ours"}
Active(e) == account[e] # None /\ ~account[e].disabled
Admins    == {e \in Ours : account[e].admin /\ Active(e)}
IsOpen(i) == invite[i] # None /\ invite[i].state = "open"

-----------------------------------------------------------------------------
(* createAccessRequest: one for each address, as far as can be seen. *)
Submit(c, e) ==
    /\ ~ \E r \in Request : request[r] # None /\ request[r].email = e
    /\ Starts(c, "submit", e)
    /\ UNCHANGED <<account, request, mail, invite>>

SubmitWrite(c, r) ==
    /\ at[c] = "submit" /\ request[r] = None
    /\ request' = [request EXCEPT ![r] = [email |-> read[c], status |-> "PENDING"]]
    /\ Goes(c, "deliver", r)
    /\ UNCHANGED <<account, mail, invite>>

(* approveAccessRequest: the request is claimed, and its workspace and first
   administrator are made, in one transaction; then the setup link is mailed. *)
Approve(c, r) ==
    /\ request[r] # None /\ request[r].status = "PENDING" /\ account[request[r].email] = None
    /\ Starts(c, "approve", r)
    /\ UNCHANGED <<account, request, mail, invite>>

(* Mutant: the claim stays when the account turns out to exist. *)
Approval_Kept(r) ==
    LET e == request[r].email IN
    IF request[r].status = "PENDING"
      THEN /\ request' = [request EXCEPT ![r].status = "APPROVED"]
           /\ account' = IF account[e] # None THEN account
                ELSE [account EXCEPT ![e] = [home |-> r, admin |-> TRUE, disabled |-> FALSE]]
      ELSE UNCHANGED <<request, account>>

Approval(r) ==
    LET e == request[r].email IN
    IF request[r].status = "PENDING" /\ account[e] = None
      THEN /\ request' = [request EXCEPT ![r].status = "APPROVED"]
           /\ account' = [account EXCEPT ![e] = [home |-> r, admin |-> TRUE, disabled |-> FALSE]]
      ELSE UNCHANGED <<request, account>>

ApproveWrite(c) ==
    /\ at[c] = "approve"
    /\ Approval(read[c])
    /\ IF request' # request THEN Goes(c, "deliver", read[c]) ELSE Ends(c)
    /\ UNCHANGED <<mail, invite>>

(* resendSetupEmail: the way in when that mail failed or the process died. *)
Resend(c, r) ==
    /\ request[r] # None /\ request[r].status = "APPROVED" /\ Active(request[r].email)
    /\ Starts(c, "deliver", r)
    /\ UNCHANGED <<account, request, mail, invite>>

Deliver(c, result) ==
    /\ at[c] = "deliver"
    /\ mail' = [mail EXCEPT ![read[c]] = result]
    /\ Ends(c)
    /\ UNCHANGED <<account, request, invite>>

-----------------------------------------------------------------------------
(* usageNow: a seat for each active user and each open invitation. *)
SeatsUsed == Cardinality({e \in Ours : Active(e)}) + Cardinality({i \in Invite : IsOpen(i)})

(* createInvite: the address is new and a seat is free when it is read; later
   the open invitations of the address are replaced. *)
InviteRead(c, e, admin) ==
    /\ Admins # {} /\ account[e] = None /\ SeatsUsed < Seats
    /\ Starts(c, "invite", [email |-> e, admin |-> admin, state |-> "open"])
    /\ UNCHANGED <<account, request, mail, invite>>

InviteWrite(c, i) ==
    /\ at[c] = "invite" /\ invite[i] = None
    /\ invite' = [j \in Invite |->
         IF j = i THEN read[c]
         ELSE IF IsOpen(j) /\ invite[j].email = read[c].email
           THEN [invite[j] EXCEPT !.state = "expired"] ELSE invite[j]]
    /\ Ends(c)
    /\ UNCHANGED <<account, request, mail>>

(* revokeInvite, or 72 hours. *)
InviteEnds(i) ==
    /\ IsOpen(i) /\ invite' = [invite EXCEPT ![i].state = "expired"]
    /\ UNCHANGED <<account, request, mail, at, read>>

(* acceptInvite: claimed if still open, and the account made, in one transaction. *)
Accept(c, i) == IsOpen(i) /\ Starts(c, "accept", i) /\ UNCHANGED <<account, request, mail, invite>>

AcceptWrite(c) ==
    /\ at[c] = "accept"
    /\ LET i == read[c]
           e == invite[i].email IN
       IF IsOpen(i) /\ account[e] = None
         THEN /\ invite' = [invite EXCEPT ![i].state = "accepted"]
              /\ account' = [account EXCEPT ![e] =
                   [home |-> "ours", admin |-> invite[i].admin, disabled |-> FALSE]]
         ELSE UNCHANGED <<invite, account>>
    /\ Ends(c)
    /\ UNCHANGED <<request, mail>>

-----------------------------------------------------------------------------
(* PATCH /api/users: an active administrator is authenticated, then another user
   switched under the tenant lock. *)
Switch(c, actor, e) ==
    /\ actor \in Admins /\ e \in Ours
    /\ actor = e => account[e].disabled
    /\ Starts(c, "switch", <<e, ~account[e].disabled>>)
    /\ UNCHANGED <<account, request, mail, invite>>

LastAdmin(e) == account[e].admin /\ Cardinality(Admins) <= 1

SwitchWrite(c) ==
    /\ at[c] = "switch"
    /\ LET e   == read[c][1]
           off == read[c][2] IN
       IF off /\ LastAdmin(e) THEN UNCHANGED account
                              ELSE account' = [account EXCEPT ![e].disabled = off]
    /\ Ends(c)
    /\ UNCHANGED <<request, mail, invite>>

Crash(c) == at[c] # "idle" /\ Ends(c) /\ UNCHANGED <<account, request, mail, invite>>

Next ==
    \/ \E c \in Call :
          \/ \E e \in Email : Submit(c, e) \/ \E admin \in BOOLEAN : InviteRead(c, e, admin)
          \/ \E r \in Request : SubmitWrite(c, r) \/ Approve(c, r) \/ Resend(c, r)
          \/ ApproveWrite(c) \/ AcceptWrite(c) \/ SwitchWrite(c) \/ Crash(c)
          \/ \E result \in {"sent", "failed"} : Deliver(c, result)
          \/ \E i \in Invite : InviteWrite(c, i) \/ Accept(c, i)
          \/ \E actor, e \in Email : Switch(c, actor, e)
    \/ \E i \in Invite : InviteEnds(i)

Spec == Init /\ [][Next]_vars

-----------------------------------------------------------------------------
(* A claim and what it was made for are kept together: a request is approved
   exactly when its address has the administrator's account of its workspace, also
   when the address is approved twice or accepts an invitation meanwhile
   (onboarding.ts:34). *)
ApprovedHasAccount ==
    \A r \in Request : request[r] # None =>
        (request[r].status = "APPROVED" <=>
           LET e == request[r].email IN account[e] # None /\ account[e].home = r)

(* The workspace keeps an active administrator, also when two administrators
   disable each other at once (users/route.ts:24). *)
AdminRemains == Admins # {}

(* plans.ts:2, "what is advertised is what is enforced (when PLAN_ENFORCEMENT=on)":
   not so for seats, which enabling a user again does not count. *)
SeatsWithinPlan == SeatsUsed <= Seats
=============================================================================
