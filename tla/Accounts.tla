------------------------------ MODULE Accounts ------------------------------
(***************************************************************************)
(* Organisations, the accounts in them, the invites that make accounts and *)
(* the credentials accounts are used with: register, invite, accept, log   *)
(* in, refresh, log out, API keys.  api/app/services/org_invites.py,       *)
(* api/app/auth/*.py, api/app/routers/{auth, orgs}.py.                     *)
(*                                                                         *)
(* Every request is checked first and written later, in one transaction at *)
(* READ COMMITTED; only UNIQUE constraints (orgs.slug, users and           *)
(* org_invites by organisation and email) hold between requests, and one   *)
(* that fails ends the request with nothing stored.  Secrets are unguessed.*)
(***************************************************************************)
EXTENDS Naturals, Sequences, FiniteSets

CONSTANTS
  Orgs, Emails,
  Roles,     \* the roles an invite may give
  Clients,   \* API processes, each serving one request at a time
  Budgets    \* bounds: how often a behaviour may register, invite, accept,
             \* sign in or make a key, use a credential, withdraw one, and have
             \* time or an operator end something

ROLE_RANK == [viewer |-> 0, editor |-> 1, approver |-> 2, admin |-> 3]
role_at_least(role, minimum) == ROLE_RANK[role] >= ROLE_RANK[minimum]
can_admin(role) == role_at_least(role, "admin")

ASSUME AccountsAssumption ==
  /\ Roles \subseteq DOMAIN ROLE_RANK
  /\ Budgets \subseteq [{"register", "invite", "accept", "issue", "use", "withdraw", "end"} -> Nat]

Accounts == Orgs \X Emails
EmailOf(a) == a[2]

VARIABLES
  orgs,         \* slugs taken
  users,        \* the role of each account; "none" where there is no row
  inactive,     \* accounts with is_active false
  invites,      \* the invite of each account: "none", "open", "expired" or "accepted"
  offered,      \* the role it offers
  credentials,  \* sequence of refresh tokens, API keys and access tokens
  request,      \* what each client's request has read
  grants,       \* who was given which role, in order (history)
  budget

vars == <<orgs, users, inactive, invites, offered, credentials, request, grants, budget>>
accountVars == <<orgs, users, inactive, invites, offered, grants>>

Idle == [pc |-> "idle"]
Credential(kind, a) == [kind |-> kind, of |-> a, live |-> TRUE]
Registered(e) == {a \in Accounts : EmailOf(a) = e /\ users[a] # "none"}

Init ==
  /\ orgs = {} /\ inactive = {}
  /\ users = [a \in Accounts |-> "none"]
  /\ invites = [a \in Accounts |-> "none"]
  /\ offered = [a \in Accounts |-> "none"]
  /\ credentials = <<>> /\ grants = <<>>
  /\ request = [p \in Clients |-> Idle]
  /\ budget \in Budgets

Spend(what) == budget[what] > 0 /\ budget' = [budget EXCEPT ![what] = @ - 1]
At(p, pc) == request[p].pc = pc
Goto(p, pc) == request' = [request EXCEPT ![p].pc = pc]
End(p) == request' = [request EXCEPT ![p] = Idle]

(* A request that passes its first checks; `begun' is how many grants there *)
(* were by then.                                                            *)
Begin(p, what, pc, a) ==
  /\ At(p, "idle") /\ Spend(what)
  /\ request' = [request EXCEPT ![p] = [pc |-> pc, of |-> a, begun |-> Len(grants)]]

Grant(p, a, role, how) ==
  /\ users' = [users EXCEPT ![a] = role]
  /\ grants' = Append(grants, [of |-> a, role |-> role, how |-> how,
                               new |-> users[a] = "none", begun |-> request[p].begun])
  /\ credentials' = credentials \o <<Credential("access", a), Credential("refresh", a)>>

-----------------------------------------------------------------------------
(* register_org: neither the slug nor the email is taken by anybody.        *)
Register(p) ==
  /\ \E a \in Accounts :
       /\ a[1] \notin orgs /\ Registered(EmailOf(a)) = {}
       /\ Begin(p, "register", "register", a)
  /\ UNCHANGED <<accountVars, credentials>>

FinishRegister(p) ==
  /\ At(p, "register") /\ End(p)
  /\ LET a == request[p].of IN
     IF a[1] \in orgs
     THEN UNCHANGED <<orgs, users, grants, credentials>>
     ELSE orgs' = orgs \cup {a[1]} /\ Grant(p, a, "admin", "register")
  /\ UNCHANGED <<inactive, invites, offered, budget>>

(* create_invite by an administrator, of somebody who is not an active      *)
(* member and has no invite pending.                                        *)
Invite(p) ==
  /\ \E by, a \in Accounts :
       /\ by[1] = a[1] /\ users[by] # "none" /\ by \notin inactive /\ can_admin(users[by])
       /\ invites[a] # "open"
       /\ users[a] = "none" \/ a \in inactive
       /\ Begin(p, "invite", "invite", a)
  /\ UNCHANGED <<accountVars, credentials>>

(* The INSERT meets UNIQUE (org_id, email) also when the invite there is    *)
(* spent or expired.                                                        *)
FinishInvite(p) ==
  /\ At(p, "invite") /\ End(p)
  /\ LET a == request[p].of IN
     IF invites[a] # "none"
     THEN UNCHANGED <<invites, offered>>
     ELSE /\ invites' = [invites EXCEPT ![a] = "open"]
          /\ \E role \in Roles : offered' = [offered EXCEPT ![a] = role]
  /\ UNCHANGED <<orgs, users, inactive, credentials, grants, budget>>

(* Mutant: accepted_at is not looked at. *)
AcceptAny(p) ==
  /\ \E a \in Accounts :
       /\ invites[a] \in {"open", "accepted"}
       /\ Begin(p, "accept", "account", a)
  /\ UNCHANGED <<accountVars, credentials>>

(* accept_invite reads the invite, *)
Accept(p) ==
  /\ \E a \in Accounts :
       /\ invites[a] = "open"
       /\ Begin(p, "accept", "account", a)
  /\ UNCHANGED <<accountVars, credentials>>

(* Mutant: the email's account is looked for in the invite's organisation. *)
FindAccountHere(p) ==
  /\ At(p, "account")
  /\ LET a == request[p].of IN
     IF users[a] = "none" THEN Goto(p, "create")
     ELSE IF a \notin inactive THEN Goto(p, "update") ELSE End(p)
  /\ UNCHANGED <<accountVars, credentials, budget>>

(* then an account with its email, which must be one of the organisation    *)
(* and active: of several the database gives any.                           *)
FindAccount(p) ==
  /\ At(p, "account")
  /\ LET a == request[p].of IN
     \/ Registered(EmailOf(a)) = {} /\ Goto(p, "create")
     \/ \E found \in Registered(EmailOf(a)) :
          IF found = a /\ a \notin inactive THEN Goto(p, "update") ELSE End(p)
  /\ UNCHANGED <<accountVars, credentials, budget>>

(* Mutant: the account is committed before the invite is marked. *)
FinishAcceptUnmarked(p) ==
  /\ At(p, "create") \/ At(p, "update")
  /\ End(p)
  /\ LET a == request[p].of IN
     IF At(p, "create") /\ users[a] # "none"
     THEN UNCHANGED <<users, invites, grants, credentials>>
     ELSE Grant(p, a, offered[a], "invite") /\ UNCHANGED invites
  /\ UNCHANGED <<orgs, inactive, offered, budget>>

(* A new account may meet UNIQUE (org_id, email). *)
FinishAccept(p) ==
  /\ At(p, "create") \/ At(p, "update")
  /\ End(p)
  /\ LET a == request[p].of IN
     IF At(p, "create") /\ users[a] # "none"
     THEN UNCHANGED <<users, invites, grants, credentials>>
     ELSE /\ Grant(p, a, offered[a], "invite")
          /\ invites' = [invites EXCEPT ![a] = "accepted"]
  /\ UNCHANGED <<orgs, inactive, offered, budget>>

-----------------------------------------------------------------------------
(* Credentials. *)

Login ==
  /\ \E a \in Accounts :
       /\ users[a] # "none" /\ a \notin inactive
       /\ credentials' = credentials \o <<Credential("access", a), Credential("refresh", a)>>
  /\ Spend("issue")
  /\ UNCHANGED <<accountVars, request>>

(* By somebody who is logged in. *)
CreateApiKey ==
  /\ \E a \in Accounts :
       /\ users[a] # "none" /\ a \notin inactive
       /\ credentials' = Append(credentials, Credential("key", a))
  /\ Spend("issue")
  /\ UNCHANGED <<accountVars, request>>

(* A request arrives with a credential; `bad' is what was no longer good    *)
(* when it did (history).                                                   *)
Present(p) ==
  /\ At(p, "idle") /\ Spend("use")
  /\ \E t \in 1..Len(credentials) :
       request' = [request EXCEPT ![p] =
         [pc |-> "present", with |-> t,
          bad |-> {s \in 1..Len(credentials) :
                     ~credentials[s].live \/ credentials[s].of \in inactive}]]
  /\ UNCHANGED <<accountVars, credentials>>

(* Mutant: revoked_at and is_active of the credential are not looked at. *)
CheckNothing(p) ==
  /\ At(p, "present")
  /\ Goto(p, "user")
  /\ UNCHANGED <<accountVars, credentials, budget>>

(* refresh_access_token and authenticate_api_key ask the database whether   *)
(* the credential is good, safe_decode the token's expiry;                  *)
CheckCredential(p) ==
  /\ At(p, "present")
  /\ IF credentials[request[p].with].live THEN Goto(p, "user") ELSE End(p)
  /\ UNCHANGED <<accountVars, credentials, budget>>

(* then all of them read the account, whose role counts, not the token's.   *)
CheckUser(p) ==
  /\ At(p, "user")
  /\ LET c == credentials[request[p].with] IN
     IF c.of \in inactive THEN End(p) /\ UNCHANGED credentials
     ELSE /\ Goto(p, "admitted")
          /\ credentials' = IF c.kind = "refresh"
                            THEN Append(credentials, Credential("access", c.of))
                            ELSE credentials
  /\ UNCHANGED <<accountVars, budget>>

Answer(p) ==
  /\ At(p, "admitted") /\ End(p)
  /\ UNCHANGED <<accountVars, credentials, budget>>

(* logout and delete_api_key; an access token cannot be withdrawn. *)
Withdraw(kind) ==
  /\ \E t \in 1..Len(credentials) :
       /\ credentials[t].kind = kind /\ credentials[t].live
       /\ credentials' = [credentials EXCEPT ![t].live = FALSE]
  /\ Spend("withdraw")
  /\ UNCHANGED <<accountVars, request>>

Logout == Withdraw("refresh")
DeleteApiKey == Withdraw("key")

(* Time passes: an invite or a token expires.  An operator deactivates an   *)
(* account; nothing in the API does.                                        *)
ExpireInvite ==
  /\ \E a \in Accounts :
       invites[a] = "open" /\ invites' = [invites EXCEPT ![a] = "expired"]
  /\ Spend("end")
  /\ UNCHANGED <<orgs, users, inactive, offered, credentials, request, grants>>

ExpireToken ==
  /\ \E t \in 1..Len(credentials) :
       /\ credentials[t].kind \in {"refresh", "access"} /\ credentials[t].live
       /\ credentials' = [credentials EXCEPT ![t].live = FALSE]
  /\ Spend("end")
  /\ UNCHANGED <<accountVars, request>>

Deactivate ==
  /\ \E a \in Accounts \ inactive : users[a] # "none" /\ inactive' = inactive \cup {a}
  /\ Spend("end")
  /\ UNCHANGED <<orgs, users, invites, offered, credentials, request, grants>>

-----------------------------------------------------------------------------
Next ==
  \/ \E p \in Clients :
       \/ Register(p) \/ FinishRegister(p) \/ Invite(p) \/ FinishInvite(p)
       \/ Accept(p) \/ FindAccount(p) \/ FinishAccept(p)
       \/ Present(p) \/ CheckCredential(p) \/ CheckUser(p) \/ Answer(p)
  \/ Login \/ CreateApiKey \/ Logout \/ DeleteApiKey \/ ExpireInvite \/ ExpireToken \/ Deactivate

Spec == Init /\ [][Next]_vars

-----------------------------------------------------------------------------
(* Properties. *)

TypeOK ==
  /\ orgs \subseteq Orgs
  /\ users \in [Accounts -> Roles \cup {"admin", "none"}]
  /\ inactive \subseteq {a \in Accounts : users[a] # "none"}
  /\ invites \in [Accounts -> {"none", "open", "expired", "accepted"}]
  /\ offered \in [Accounts -> Roles \cup {"none"}]
  /\ \A t \in 1..Len(credentials) : users[credentials[t].of] # "none"

(* Two requests overlapped: the later grant's had begun when the earlier    *)
(* grant was committed.                                                     *)
Overlapped(i, j) == grants[j].begun < i

(* An email has accounts in two organisations, and an invite is accepted    *)
(* twice, only by requests that overlap: register_org and accept_invite     *)
(* look for the email in every organisation and for accepted_at, and no     *)
(* constraint backs either.                                                 *)
TwiceOnlyInRace ==
  \A i, j \in 1..Len(grants) : i < j =>
    /\ grants[i].of # grants[j].of /\ EmailOf(grants[i].of) = EmailOf(grants[j].of)
         => Overlapped(i, j) \/ ~grants[j].new
    /\ grants[i].of = grants[j].of => grants[j].how = "invite"
    /\ grants[i].of = grants[j].of /\ grants[i].how = "invite" => Overlapped(i, j)

(* A member is there for a reason: its role is the one given last, first by *)
(* founding the organisation or else by its own invite, which is accepted   *)
(* in the same commit, and an accepted invite has its member.               *)
MembersExplained ==
  \A a \in Accounts :
    LET of_a == {i \in 1..Len(grants) : grants[i].of = a} IN
    /\ users[a] = IF of_a = {} THEN "none"
                  ELSE grants[CHOOSE i \in of_a : \A j \in of_a : j <= i].role
    /\ users[a] # "none" => a[1] \in orgs
    /\ invites[a] = "accepted" <=> \E i \in of_a : grants[i].how = "invite"
    /\ \A i \in of_a : grants[i].how = "invite" => grants[i].role = offered[a]

(* A request is admitted only with a credential that was good, and an       *)
(* account that was active, when it arrived: a logout, a deleted key or a   *)
(* deactivation that was answered counts for every later request, a refresh *)
(* among them.                                                              *)
AdmittedWhileGood ==
  \A p \in Clients : At(p, "admitted") => request[p].with \notin request[p].bad

=============================================================================
