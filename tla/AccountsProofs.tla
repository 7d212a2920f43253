------------------------------ MODULE AccountsProofs ------------------------------
(***************************************************************************)
(* Proofs about Accounts for any organisations, emails, roles, API          *)
(* processes and budgets: members and accepted invites explain each other,  *)
(* an email gets two accounts and an invite two acceptances only from       *)
(* requests that overlap, and a request is admitted only with what was      *)
(* good when it arrived.                                                    *)
(***************************************************************************)
EXTENDS Accounts, SequenceTheorems, TLAPS

USE AccountsAssumption

-----------------------------------------------------------------------------
(* The inductive invariant *)

MemberPcs == {"register", "invite", "account", "create", "update"}
UsePcs == {"present", "user", "admitted"}

GrantRecord == [of : Accounts, role : Roles \cup {"admin"}, how : {"register", "invite"},
                new : BOOLEAN, begun : Nat]
CredentialRecord == [kind : {"access", "refresh", "key"}, of : Accounts, live : BOOLEAN]
Requests == {Idle} \cup [pc : MemberPcs, of : Accounts, begun : Nat]
                   \cup [pc : UsePcs, with : Nat, bad : SUBSET Nat]

HistoryTyped ==
  /\ grants \in Seq(GrantRecord)
  /\ credentials \in Seq(CredentialRecord)
  /\ request \in [Clients -> Requests]

GrantsOf(a) == {i \in 1..Len(grants) : grants[i].of = a}

(* MembersExplained without its CHOOSE, and with what holds of an invite    *)
(* before it is accepted.                                                   *)
MemberFits(a) ==
  /\ \/ GrantsOf(a) = {} /\ users[a] = "none"
     \/ \E i \in GrantsOf(a) : (\A j \in GrantsOf(a) : j <= i) /\ users[a] = grants[i].role
  /\ users[a] # "none" => a[1] \in orgs
  /\ invites[a] = "accepted" <=> \E i \in GrantsOf(a) : grants[i].how = "invite"
  /\ \A i \in GrantsOf(a) : grants[i].how = "invite" => grants[i].role = offered[a]
  /\ invites[a] # "none" => a[1] \in orgs /\ offered[a] \in Roles

(* What a request has read about members, as far as it is still true.       *)
ReadFits(r) ==
  r.pc \in MemberPcs =>
    /\ r.begun <= Len(grants)
    /\ r.pc = "invite" => r.of[1] \in orgs
    /\ r.pc \in {"account", "create", "update"} =>
         /\ invites[r.of] # "none"
         /\ \A i \in 1..r.begun : grants[i].of = r.of => grants[i].how # "invite"
    /\ r.pc \in {"register", "create"} =>
         \A i \in 1..r.begun : EmailOf(grants[i].of) # EmailOf(r.of)
    /\ r.pc = "update" => users[r.of] # "none"

(* What a request's checks have found of a credential that was bad when it  *)
(* arrived: nothing makes one good again.                                   *)
UseFits(r) ==
  r.pc \in UsePcs =>
    /\ r.with \in 1..Len(credentials)
    /\ r.with \in r.bad =>
         /\ ~credentials[r.with].live \/ credentials[r.with].of \in inactive
         /\ r.pc = "user" => credentials[r.with].of \in inactive
         /\ r.pc # "admitted"

RequestsFit == \A p \in Clients : ReadFits(request[p]) /\ UseFits(request[p])

IInv ==
  /\ TypeOK /\ HistoryTyped
  /\ \A a \in Accounts : MemberFits(a)
  /\ RequestsFit
  /\ TwiceOnlyInRace

-----------------------------------------------------------------------------
(* Sequences and roles *)

LEMMA TwoMore ==
  ASSUME NEW S, NEW s \in Seq(S), NEW x \in S, NEW y \in S
  PROVE  /\ s \o <<x, y>> \in Seq(S) /\ Len(s \o <<x, y>>) = Len(s) + 2
         /\ \A i \in 1..Len(s) : (s \o <<x, y>>)[i] = s[i]
         /\ (s \o <<x, y>>)[Len(s) + 1] = x /\ (s \o <<x, y>>)[Len(s) + 2] = y
<1>1. <<x, y>> \in Seq(S) /\ Len(<<x, y>>) = 2 /\ <<x, y>>[1] = x /\ <<x, y>>[2] = y
  OBVIOUS
<1>2. Len(s) \in Nat
  OBVIOUS
<1> QED BY <1>1, <1>2, ConcatProperties

LEMMA OneReplaced ==
  ASSUME NEW S, NEW s \in Seq(S), NEW t \in 1..Len(s), NEW e \in S,
         NEW q, q = [s EXCEPT ![t] = e]
  PROVE  /\ q \in Seq(S) /\ Len(q) = Len(s) /\ q[t] = e
         /\ \A j \in 1..Len(s) \ {t} : q[j] = s[j]
  OBVIOUS

LEMMA HistoryRecords ==
  ASSUME HistoryTyped
  PROVE  /\ Len(grants) \in Nat /\ Len(credentials) \in Nat
         /\ \A i \in 1..Len(grants) :
              grants[i] \in GrantRecord /\ grants[i].of \in Accounts
              /\ grants[i].role \in Roles \cup {"admin"} /\ grants[i].begun \in Nat
         /\ \A t \in 1..Len(credentials) :
              credentials[t] \in CredentialRecord /\ credentials[t].of \in Accounts
              /\ credentials[t].live \in BOOLEAN
<1>1. /\ \A i \in 1..Len(grants) : grants[i] \in GrantRecord
      /\ \A t \in 1..Len(credentials) : credentials[t] \in CredentialRecord
  BY ElementOfSeq DEF HistoryTyped
<1>2. \A g \in GrantRecord : g.of \in Accounts /\ g.role \in Roles \cup {"admin"}
                             /\ g.begun \in Nat
  BY DEF GrantRecord
<1>3. \A c \in CredentialRecord : c.of \in Accounts /\ c.live \in BOOLEAN
  BY DEF CredentialRecord
<1> QED BY <1>1, <1>2, <1>3 DEF HistoryTyped

LEMMA RolesNamed == "none" \notin Roles /\ "none" # "admin"
<1>1. Roles \subseteq {"viewer", "editor", "approver", "admin"}
  BY DEF ROLE_RANK
<1> QED BY <1>1

LEMMA RequestKinds ==
  ASSUME HistoryTyped, NEW p \in Clients
  PROVE  /\ Idle.pc = "idle"
         /\ At(p, "idle") => request[p] = Idle
         /\ request[p].pc \in MemberPcs =>
              /\ request[p] \in [pc : MemberPcs, of : Accounts, begun : Nat]
              /\ request[p].of \in Accounts /\ request[p].begun \in Nat
         /\ request[p].pc \in UsePcs =>
              /\ request[p] \in [pc : UsePcs, with : Nat, bad : SUBSET Nat]
              /\ request[p].with \in Nat /\ request[p].bad \subseteq Nat
  BY DEF HistoryTyped, Requests, Idle, MemberPcs, UsePcs, At

(* Somebody who was given a role still has one. *)
LEMMA GrantedIsRegistered ==
  ASSUME IInv, NEW i \in 1..Len(grants)
  PROVE  /\ grants[i] \in GrantRecord /\ grants[i].of \in Accounts
         /\ users[grants[i].of] # "none"
<1>1. grants[i] \in GrantRecord /\ grants[i].of \in Accounts
  BY HistoryRecords DEF IInv
<1>2. i \in GrantsOf(grants[i].of)
  BY DEF GrantsOf
<1>3. PICK j \in GrantsOf(grants[i].of) : users[grants[i].of] = grants[j].role
  BY <1>1, <1>2 DEF IInv, MemberFits
<1>4. grants[j].role \in Roles \cup {"admin"}
  BY <1>3, HistoryRecords DEF IInv, GrantsOf
<1> QED BY <1>1, <1>3, <1>4, RolesNamed

-----------------------------------------------------------------------------
(* What every step keeps: members stay, histories grow, what is bad stays   *)
(* bad.                                                                     *)

MembersStay ==
  /\ Len(grants) <= Len(grants') /\ \A i \in 1..Len(grants) : grants'[i] = grants[i]
  /\ orgs \subseteq orgs'
  /\ \A a \in Accounts : /\ users[a] # "none" => users'[a] # "none"
                         /\ invites[a] # "none" => invites'[a] # "none"

BadStaysBad ==
  /\ inactive \subseteq inactive'
  /\ Len(credentials) <= Len(credentials')
  /\ \A t \in 1..Len(credentials) : /\ credentials'[t].of = credentials[t].of
                                    /\ credentials'[t].live => credentials[t].live

LEMMA ReadKept ==
  ASSUME IInv, HistoryTyped', MembersStay, NEW r \in Requests, ReadFits(r)
  PROVE  ReadFits(r)'
<1>1. Len(grants) \in Nat /\ Len(grants') \in Nat
  BY DEF IInv, HistoryTyped
<1>2. r.pc \in MemberPcs => r.of \in Accounts /\ r.begun \in Nat
  BY DEF Requests, Idle, MemberPcs, UsePcs
<1>3. r.pc \in MemberPcs => \A i \in 1..r.begun : i \in 1..Len(grants)
  BY <1>1, <1>2 DEF ReadFits
<1>4. CASE r.pc \in MemberPcs
  <2>1. r.begun <= Len(grants') /\ (r.pc = "invite" => r.of[1] \in orgs')
    BY <1>1, <1>2, <1>4 DEF ReadFits, MembersStay
  <2>2. \A i \in 1..r.begun : grants'[i] = grants[i]
    BY <1>3, <1>4 DEF MembersStay
  <2>3. r.pc \in {"account", "create", "update"} =>
          /\ invites'[r.of] # "none"
          /\ \A i \in 1..r.begun : grants'[i].of = r.of => grants'[i].how # "invite"
    BY <1>2, <1>4, <2>2 DEF ReadFits, MembersStay
  <2>4. r.pc \in {"register", "create"} =>
          \A i \in 1..r.begun : EmailOf(grants'[i].of) # EmailOf(r.of)
    BY <1>4, <2>2 DEF ReadFits
  <2>5. r.pc = "update" => users'[r.of] # "none"
    BY <1>2, <1>4 DEF ReadFits, MembersStay
  <2> QED BY <2>1, <2>3, <2>4, <2>5 DEF ReadFits
<1> QED BY <1>4 DEF ReadFits

LEMMA UseKept ==
  ASSUME IInv, HistoryTyped', BadStaysBad, NEW r \in Requests, UseFits(r)
  PROVE  UseFits(r)'
<1>1. Len(credentials) \in Nat /\ Len(credentials') \in Nat
  BY DEF IInv, HistoryTyped
<1>2. r.pc \in UsePcs => r.with \in 1..Len(credentials) /\ r.with \in 1..Len(credentials')
  BY <1>1 DEF UseFits, BadStaysBad
<1> QED BY <1>1, <1>2 DEF UseFits, BadStaysBad, UsePcs

(* So a step has to account for the request it moves only. *)
LEMMA RequestMoves ==
  ASSUME IInv, HistoryTyped', MembersStay, BadStaysBad, NEW p \in Clients,
         \A q \in Clients \ {p} : request'[q] = request[q],
         ReadFits(request[p])' /\ UseFits(request[p])'
  PROVE  RequestsFit'
<1>1. ASSUME NEW q \in Clients \ {p}
      PROVE  ReadFits(request[q])' /\ UseFits(request[q])'
  <2>1. PICK r \in Requests : r = request[q]
    BY DEF IInv, HistoryTyped
  <2>2. ReadFits(r)' /\ UseFits(r)'
    BY <2>1, ReadKept, UseKept DEF IInv, RequestsFit
  <2>3. request'[q] = r
    BY <2>1
  <2> QED BY <2>2, <2>3 DEF ReadFits, UseFits
<1> QED BY <1>1 DEF RequestsFit

LEMMA RequestsKept ==
  ASSUME IInv, HistoryTyped', MembersStay, BadStaysBad, request' = request
  PROVE  RequestsFit'
<1>1. ASSUME NEW q \in Clients
      PROVE  ReadFits(request[q])' /\ UseFits(request[q])'
  <2>1. PICK r \in Requests : r = request[q]
    BY DEF IInv, HistoryTyped
  <2>2. ReadFits(r)' /\ UseFits(r)'
    BY <2>1, ReadKept, UseKept DEF IInv, RequestsFit
  <2>3. request'[q] = r
    BY <2>1
  <2> QED BY <2>2, <2>3 DEF ReadFits, UseFits
<1> QED BY <1>1 DEF RequestsFit

LEMMA MembersKept ==
  ASSUME IInv, UNCHANGED <<orgs, users, invites, offered, grants>>
  PROVE  (\A a \in Accounts : MemberFits(a)') /\ TwiceOnlyInRace' /\ MembersStay
<1>1. \A a \in Accounts : GrantsOf(a)' = GrantsOf(a)
  BY DEF GrantsOf
<1>2. \A a \in Accounts : MemberFits(a)'
  BY <1>1 DEF IInv, MemberFits
<1>3. TwiceOnlyInRace'
  BY DEF IInv, TwiceOnlyInRace, Overlapped
<1>4. MembersStay
  BY DEF MembersStay, IInv, HistoryTyped
<1> QED BY <1>2, <1>3, <1>4

LEMMA InitIInv == Init => IInv
<1> SUFFICES ASSUME Init PROVE IInv
  OBVIOUS
<1>1. grants = <<>> /\ credentials = <<>> /\ Len(grants) = 0 /\ Len(credentials) = 0
  BY DEF Init
<1>2. \A a \in Accounts : GrantsOf(a) = {}
  BY <1>1 DEF GrantsOf
<1>3. TypeOK
  BY <1>1 DEF Init, TypeOK
<1>4. HistoryTyped
  BY <1>1 DEF Init, HistoryTyped, Requests
<1>5. \A a \in Accounts : MemberFits(a)
  BY <1>2 DEF Init, MemberFits
<1>6. RequestsFit
  BY DEF Init, RequestsFit, ReadFits, UseFits, Idle, MemberPcs, UsePcs
<1>7. TwiceOnlyInRace
  BY <1>1 DEF TwiceOnlyInRace
<1> QED BY <1>3, <1>4, <1>5, <1>6, <1>7 DEF IInv

-----------------------------------------------------------------------------
(* Requests that read *)

(* A step of a request that changes nothing else. *)
LEMMA ReadStep ==
  ASSUME IInv, NEW p \in Clients, NEW r \in Requests,
         request' = [request EXCEPT ![p] = r], ReadFits(r), UseFits(r),
         UNCHANGED <<accountVars, credentials>>
  PROVE  IInv'
<1> USE DEF accountVars
<1>1. TypeOK' /\ HistoryTyped'
  BY DEF IInv, TypeOK, HistoryTyped
<1>2. (\A a \in Accounts : MemberFits(a)') /\ TwiceOnlyInRace' /\ MembersStay
  BY MembersKept
<1>3. BadStaysBad
  BY DEF BadStaysBad, IInv, HistoryTyped
<1>4. ReadFits(r)' /\ UseFits(r)'
  BY <1>1, <1>2, <1>3, ReadKept, UseKept
<1>5. request'[p] = r /\ \A q \in Clients \ {p} : request'[q] = request[q]
  BY DEF IInv, HistoryTyped
<1>6. ReadFits(request[p])' /\ UseFits(request[p])'
  BY <1>4, <1>5 DEF ReadFits, UseFits
<1>7. RequestsFit'
  BY <1>1, <1>2, <1>3, <1>5, <1>6, RequestMoves
<1> QED BY <1>1, <1>2, <1>7 DEF IInv

LEMMA IdleFits == Idle \in Requests /\ ReadFits(Idle) /\ UseFits(Idle)
  BY DEF Requests, Idle, ReadFits, UseFits, MemberPcs, UsePcs

LEMMA EndStep ==
  ASSUME IInv, NEW p \in Clients, End(p), UNCHANGED <<accountVars, credentials>>
  PROVE  IInv'
  BY IdleFits, ReadStep DEF End

LEMMA BeginStep ==
  ASSUME IInv, NEW p \in Clients, NEW what, NEW pc \in MemberPcs, NEW a \in Accounts,
         Begin(p, what, pc, a), UNCHANGED <<accountVars, credentials>>,
         pc = "invite" => a[1] \in orgs,
         pc = "account" => invites[a] = "open",
         pc = "register" => Registered(EmailOf(a)) = {},
         pc \in {"register", "invite", "account"}
  PROVE  IInv'
<1> PICK r : r = [pc |-> pc, of |-> a, begun |-> Len(grants)]
  OBVIOUS
<1>1. Len(grants) \in Nat
  BY HistoryRecords DEF IInv
<1>2. r \in Requests /\ r.pc = pc /\ r.of = a /\ r.begun = Len(grants)
  BY <1>1 DEF Requests
<1>3. pc = "account" => \A i \in 1..Len(grants) : grants[i].of = a => grants[i].how # "invite"
  BY DEF IInv, MemberFits, GrantsOf
<1>4. ASSUME pc = "register", NEW i \in 1..Len(grants)
      PROVE  EmailOf(grants[i].of) # EmailOf(a)
  BY <1>4, GrantedIsRegistered DEF Registered
<1>5. ReadFits(r) /\ UseFits(r)
  BY <1>1, <1>2, <1>3, <1>4 DEF ReadFits, UseFits, MemberPcs, UsePcs
<1> QED BY <1>2, <1>5, ReadStep DEF Begin

LEMMA GotoRequest ==
  ASSUME HistoryTyped, NEW p \in Clients, NEW pc, Goto(p, pc),
         \/ request[p].pc \in MemberPcs /\ pc \in MemberPcs
         \/ request[p].pc \in UsePcs /\ pc \in UsePcs
  PROVE  \E r \in Requests :
           /\ request' = [request EXCEPT ![p] = r]
           /\ r.pc = pc
           /\ pc \in MemberPcs => r.of = request[p].of /\ r.begun = request[p].begun
           /\ pc \in UsePcs => r.with = request[p].with /\ r.bad = request[p].bad
<1> PICK r : r = [request[p] EXCEPT !.pc = pc]
  OBVIOUS
<1>1. request' = [request EXCEPT ![p] = r]
  BY DEF Goto
<1>2. MemberPcs \cap UsePcs = {}
  BY DEF MemberPcs, UsePcs
<1>3. CASE request[p].pc \in MemberPcs /\ pc \in MemberPcs
  <2>1. request[p] \in [pc : MemberPcs, of : Accounts, begun : Nat]
    BY <1>3, RequestKinds
  <2>2. /\ r \in [pc : MemberPcs, of : Accounts, begun : Nat]
        /\ r.pc = pc /\ r.of = request[p].of /\ r.begun = request[p].begun
    BY <1>3, <2>1
  <2>3. pc \notin UsePcs /\ r \in Requests
    BY <1>2, <1>3, <2>2 DEF Requests
  <2> QED BY <1>1, <2>2, <2>3
<1>4. CASE request[p].pc \in UsePcs /\ pc \in UsePcs
  <2>1. request[p] \in [pc : UsePcs, with : Nat, bad : SUBSET Nat]
    BY <1>4, RequestKinds
  <2>2. /\ r \in [pc : UsePcs, with : Nat, bad : SUBSET Nat]
        /\ r.pc = pc /\ r.with = request[p].with /\ r.bad = request[p].bad
    BY <1>4, <2>1
  <2>3. pc \notin MemberPcs /\ r \in Requests
    BY <1>2, <1>4, <2>2 DEF Requests
  <2> QED BY <1>1, <2>2, <2>3
<1> QED BY <1>3, <1>4

LEMMA RegisterIInv ==
  ASSUME IInv, NEW p \in Clients, Register(p) PROVE IInv'
<1>1. PICK a \in Accounts : /\ a[1] \notin orgs /\ Registered(EmailOf(a)) = {}
                            /\ Begin(p, "register", "register", a)
  BY DEF Register
<1> QED BY <1>1, BeginStep DEF Register, MemberPcs

LEMMA InviteIInv ==
  ASSUME IInv, NEW p \in Clients, Invite(p) PROVE IInv'
<1>1. PICK by \in Accounts, a \in Accounts :
        by[1] = a[1] /\ users[by] # "none" /\ Begin(p, "invite", "invite", a)
  BY DEF Invite
<1>2. a[1] \in orgs
  BY <1>1 DEF IInv, MemberFits
<1> QED BY <1>1, <1>2, BeginStep DEF Invite, MemberPcs

LEMMA AcceptIInv ==
  ASSUME IInv, NEW p \in Clients, Accept(p) PROVE IInv'
<1>1. PICK a \in Accounts : invites[a] = "open" /\ Begin(p, "accept", "account", a)
  BY DEF Accept
<1> QED BY <1>1, BeginStep DEF Accept, MemberPcs

LEMMA FindAccountIInv ==
  ASSUME IInv, NEW p \in Clients, FindAccount(p) PROVE IInv'
<1> PICK a : a = request[p].of
  OBVIOUS
<1>1. /\ request[p].pc = "account" /\ request[p].pc \in MemberPcs
      /\ a \in Accounts /\ request[p].begun \in Nat
      /\ ReadFits(request[p]) /\ UNCHANGED <<accountVars, credentials>>
  BY RequestKinds DEF FindAccount, At, MemberPcs, IInv, RequestsFit
<1>2. CASE End(p)
  BY <1>1, <1>2, EndStep
<1>3. CASE Registered(EmailOf(a)) = {} /\ Goto(p, "create")
  <2>1. PICK r \in Requests :
          /\ request' = [request EXCEPT ![p] = r] /\ r.pc = "create"
          /\ r.of = a /\ r.begun = request[p].begun
    BY <1>1, <1>3, GotoRequest DEF IInv, MemberPcs
  <2>2. r.begun <= Len(grants) /\ Len(grants) \in Nat
    BY <1>1, <2>1, HistoryRecords DEF IInv, ReadFits
  <2>3. ASSUME NEW i \in 1..r.begun PROVE EmailOf(grants[i].of) # EmailOf(a)
    <3>1. i \in 1..Len(grants)
      BY <1>1, <2>1, <2>2
    <3> QED BY <1>3, <3>1, GrantedIsRegistered DEF Registered
  <2>4. ReadFits(r) /\ UseFits(r)
    BY <1>1, <2>1, <2>2, <2>3 DEF ReadFits, UseFits, UsePcs
  <2> QED BY <1>1, <2>1, <2>4, ReadStep
<1>4. CASE a \in Registered(EmailOf(a)) /\ Goto(p, "update")
  <2>1. PICK r \in Requests :
          /\ request' = [request EXCEPT ![p] = r] /\ r.pc = "update"
          /\ r.of = a /\ r.begun = request[p].begun
    BY <1>1, <1>4, GotoRequest DEF IInv, MemberPcs
  <2>2. ReadFits(r) /\ UseFits(r)
    BY <1>1, <1>4, <2>1 DEF ReadFits, UseFits, UsePcs, Registered
  <2> QED BY <1>1, <2>1, <2>2, ReadStep
<1> QED BY <1>2, <1>3, <1>4 DEF FindAccount

LEMMA PresentIInv ==
  ASSUME IInv, NEW p \in Clients, Present(p) PROVE IInv'
<1> DEFINE bad == {s \in 1..Len(credentials) :
                     ~credentials[s].live \/ credentials[s].of \in inactive}
<1>1. PICK t \in 1..Len(credentials) :
        request' = [request EXCEPT ![p] = [pc |-> "present", with |-> t, bad |-> bad]]
  BY DEF Present
<1> PICK r : r = [pc |-> "present", with |-> t, bad |-> bad]
  OBVIOUS
<1>2. t \in Nat /\ bad \subseteq Nat
  OBVIOUS
<1>3. t \in bad => ~credentials[t].live \/ credentials[t].of \in inactive
  OBVIOUS
<1> HIDE DEF bad
<1>4. r \in Requests /\ r.pc = "present" /\ r.with = t /\ r.bad = bad
  BY <1>2 DEF Requests, UsePcs
<1>5. ReadFits(r) /\ UseFits(r)
  BY <1>3, <1>4 DEF ReadFits, UseFits, MemberPcs
<1> QED BY <1>1, <1>4, <1>5, ReadStep DEF Present

LEMMA CheckCredentialIInv ==
  ASSUME IInv, NEW p \in Clients, CheckCredential(p) PROVE IInv'
<1>1. /\ request[p].pc = "present" /\ UseFits(request[p])
      /\ UNCHANGED <<accountVars, credentials>>
  BY DEF CheckCredential, At, IInv, RequestsFit
<1>2. CASE End(p)
  BY <1>1, <1>2, EndStep
<1>3. CASE credentials[request[p].with].live /\ Goto(p, "user")
  <2>1. PICK r \in Requests :
          /\ request' = [request EXCEPT ![p] = r] /\ r.pc = "user"
          /\ r.with = request[p].with /\ r.bad = request[p].bad
    BY <1>1, <1>3, GotoRequest DEF IInv, UsePcs
  <2>2. ReadFits(r) /\ UseFits(r)
    BY <1>1, <1>3, <2>1 DEF ReadFits, UseFits, MemberPcs, UsePcs
  <2> QED BY <1>1, <2>1, <2>2, ReadStep
<1> QED BY <1>2, <1>3 DEF CheckCredential

LEMMA AnswerIInv ==
  ASSUME IInv, NEW p \in Clients, Answer(p) PROVE IInv'
  BY EndStep DEF Answer

-----------------------------------------------------------------------------
(* Members *)

(* The sequence of grants with one more. *)
LEMMA GrantsGrow ==
  ASSUME IInv, NEW a \in Accounts, NEW g \in GrantRecord, g.of = a, grants' = Append(grants, g)
  PROVE  /\ grants' \in Seq(GrantRecord) /\ Len(grants) \in Nat
         /\ Len(grants') = Len(grants) + 1
         /\ \A i \in 1..Len(grants) : grants'[i] = grants[i]
         /\ grants'[Len(grants) + 1] = g
         /\ GrantsOf(a)' = GrantsOf(a) \cup {Len(grants) + 1}
         /\ \A b : b # a => GrantsOf(b)' = GrantsOf(b)
<1>1. grants \in Seq(GrantRecord) /\ Len(grants) \in Nat
  BY HistoryRecords DEF IInv, HistoryTyped
<1>2. /\ grants' \in Seq(GrantRecord) /\ Len(grants') = Len(grants) + 1
      /\ \A i \in 1..Len(grants) : grants'[i] = grants[i]
      /\ grants'[Len(grants) + 1] = g
  BY <1>1, AppendProperties
<1>3. \A i : i \in 1..Len(grants') <=> i \in 1..Len(grants) \/ i = Len(grants) + 1
  BY <1>1, <1>2
<1>4. GrantsOf(a)' = GrantsOf(a) \cup {Len(grants) + 1}
  BY <1>1, <1>2, <1>3 DEF GrantsOf
<1>5. ASSUME NEW b, b # a PROVE GrantsOf(b)' = GrantsOf(b)
  BY <1>1, <1>2, <1>3, <1>5 DEF GrantsOf
<1> QED BY <1>1, <1>2, <1>4, <1>5

(* A role is given to the founder of an organisation that is new, or to     *)
(* whom a valid invite names.                                               *)
LEMMA GrantIInv ==
  ASSUME IInv, NEW p \in Clients, NEW a \in Accounts, NEW role \in Roles \cup {"admin"},
         NEW how \in {"register", "invite"},
         End(p), Grant(p, a, role, how), a = request[p].of, request[p].pc \in MemberPcs,
         orgs \subseteq orgs', orgs' \subseteq Orgs, a[1] \in orgs',
         offered' = offered, inactive' = inactive,
         how = "register" => /\ request[p].pc = "register" /\ users[a] = "none"
                             /\ invites' = invites,
         how = "invite" => /\ request[p].pc \in {"create", "update"} /\ role = offered[a]
                           /\ request[p].pc = "create" => users[a] = "none"
                           /\ invites' = [invites EXCEPT ![a] = "accepted"]
  PROVE  IInv'
<1> PICK n : n = Len(grants)
  OBVIOUS
<1> PICK g : g = [of |-> a, role |-> role, how |-> how, new |-> users[a] = "none",
                  begun |-> request[p].begun]
  OBVIOUS
<1>1. request[p].begun \in Nat /\ ReadFits(request[p])
  BY RequestKinds DEF IInv, RequestsFit
<1>2. /\ g \in GrantRecord /\ g.of = a /\ g.role = role /\ g.how = how
      /\ g.new = (users[a] = "none") /\ g.begun = request[p].begun
  <2>1. (users[a] = "none") \in BOOLEAN
    OBVIOUS
  <2> QED BY <1>1, <2>1 DEF GrantRecord
<1>3. users' = [users EXCEPT ![a] = role] /\ grants' = Append(grants, g)
  BY DEF Grant
<1>4. /\ grants' \in Seq(GrantRecord) /\ n \in Nat /\ Len(grants') = n + 1
      /\ \A i \in 1..n : grants'[i] = grants[i]
      /\ grants'[n + 1] = g
      /\ GrantsOf(a)' = GrantsOf(a) \cup {n + 1}
      /\ \A b : b # a => GrantsOf(b)' = GrantsOf(b)
  BY <1>2, <1>3, GrantsGrow
<1>5. role # "none" /\ users'[a] = role /\ \A b \in Accounts \ {a} : users'[b] = users[b]
  BY <1>3, RolesNamed DEF IInv, TypeOK
<1>6. /\ credentials' \in Seq(CredentialRecord) /\ Len(credentials) \in Nat
      /\ Len(credentials') = Len(credentials) + 2
      /\ \A t \in 1..Len(credentials) : credentials'[t] = credentials[t]
      /\ credentials'[Len(credentials) + 1] = Credential("access", a)
      /\ credentials'[Len(credentials) + 2] = Credential("refresh", a)
  <2>1. Credential("access", a) \in CredentialRecord /\ Credential("refresh", a) \in CredentialRecord
    BY DEF Credential, CredentialRecord
  <2> QED BY <2>1, HistoryRecords, TwoMore DEF IInv, HistoryTyped, Grant
<1>7. HistoryTyped'
  BY <1>4, <1>6, IdleFits DEF HistoryTyped, End, IInv
<1>8. invites' \in [Accounts -> {"none", "open", "expired", "accepted"}]
      /\ \A b \in Accounts \ {a} : invites'[b] = invites[b]
      /\ how = "invite" => invites'[a] = "accepted"
  BY DEF IInv, TypeOK
<1>9. TypeOK'
  <2>1. users' \in [Accounts -> Roles \cup {"admin", "none"}]
    BY <1>3 DEF IInv, TypeOK
  <2>2. inactive' \subseteq {b \in Accounts : users'[b] # "none"}
    BY <1>5 DEF IInv, TypeOK
  <2>3. ASSUME NEW t \in 1..Len(credentials') PROVE users'[credentials'[t].of] # "none"
    <3>1. CASE t \in 1..Len(credentials)
      <4>1. users[credentials[t].of] # "none" /\ credentials[t].of \in Accounts
        BY <3>1, HistoryRecords DEF IInv, TypeOK
      <4> QED BY <1>5, <1>6, <3>1, <4>1
    <3>2. CASE t \in {Len(credentials) + 1, Len(credentials) + 2}
      BY <1>5, <1>6, <3>2 DEF Credential
    <3>3. \A k \in Nat : \A i \in 1..(k + 2) : i \in 1..k \/ i \in {k + 1, k + 2}
      OBVIOUS
    <3>4. t \in 1..(Len(credentials) + 2)
      BY <1>6
    <3> QED BY <1>6, <3>1, <3>2, <3>3, <3>4
  <2>4. offered' \in [Accounts -> Roles \cup {"none"}]
    BY DEF IInv, TypeOK
  <2> QED BY <1>8, <2>1, <2>2, <2>3, <2>4 DEF TypeOK
<1>10. users[a] = "none" => GrantsOf(a) = {}
  BY GrantedIsRegistered DEF GrantsOf
<1>11. how = "invite" => invites[a] # "none"
  BY <1>1 DEF ReadFits
<1>12. MemberFits(a)'
  <2>1. n + 1 \in GrantsOf(a)' /\ \A j \in GrantsOf(a)' : j <= n + 1
    BY <1>4 DEF GrantsOf
  <2>2. \E i \in GrantsOf(a)' :
          (\A j \in GrantsOf(a)' : j <= i) /\ users'[a] = grants'[i].role
    BY <1>2, <1>4, <1>5, <2>1
  <2>3. \A i \in GrantsOf(a) : i \in 1..n /\ grants'[i] = grants[i]
    BY <1>4 DEF GrantsOf
  <2>4. CASE how = "register"
    <3>1. GrantsOf(a)' = {n + 1} /\ invites'[a] = invites[a] /\ grants'[n + 1].how # "invite"
      BY <1>2, <1>4, <1>10, <2>4
    <3>2. invites'[a] # "accepted"
      BY <1>10, <2>4, <3>1 DEF IInv, MemberFits
    <3>3. invites'[a] # "none" => offered'[a] \in Roles
      BY <3>1 DEF IInv, MemberFits
    <3> QED BY <2>2, <3>1, <3>2, <3>3 DEF MemberFits
  <2>5. CASE how = "invite"
    <3>1. grants'[n + 1].how = "invite" /\ grants'[n + 1].role = offered'[a]
      BY <1>2, <1>4, <2>5
    <3>2. \A i \in GrantsOf(a)' : grants'[i].how = "invite" => grants'[i].role = offered'[a]
      BY <1>4, <2>3, <3>1 DEF IInv, MemberFits
    <3>3. offered'[a] \in Roles
      BY <1>11, <2>5 DEF IInv, MemberFits
    <3> QED BY <1>8, <2>1, <2>2, <2>5, <3>1, <3>2, <3>3 DEF MemberFits
  <2> QED BY <2>4, <2>5
<1>13. ASSUME NEW b \in Accounts, b # a PROVE MemberFits(b)'
  <2>1. /\ GrantsOf(b)' = GrantsOf(b) /\ users'[b] = users[b] /\ invites'[b] = invites[b]
        /\ \A i \in GrantsOf(b) : grants'[i] = grants[i]
    BY <1>4, <1>5, <1>8, <1>13 DEF GrantsOf
  <2> QED BY <2>1 DEF MemberFits, IInv
<1>14. TwiceOnlyInRace'
  <2>1. ASSUME NEW i \in 1..n
        PROVE  /\ g.of # grants[i].of /\ EmailOf(grants[i].of) = EmailOf(g.of)
                    => g.begun < i \/ ~g.new
               /\ grants[i].of = g.of => g.how = "invite"
               /\ grants[i].of = g.of /\ grants[i].how = "invite" => g.begun < i
    <3>1. ASSUME ~(g.begun < i) PROVE i \in 1..request[p].begun
      BY <1>1, <1>2, <1>4, <3>1
    <3>2. EmailOf(grants[i].of) = EmailOf(a) => g.begun < i \/ ~g.new
      BY <1>1, <1>2, <3>1 DEF ReadFits
    <3>3. grants[i].of = a => how = "invite"
      BY GrantedIsRegistered
    <3>4. grants[i].of = a /\ grants[i].how = "invite" => g.begun < i
      BY <1>1, <1>2, <3>1, <3>3 DEF ReadFits
    <3> QED BY <1>2, <3>2, <3>3, <3>4
  <2>2. ASSUME NEW i \in 1..Len(grants'), NEW j \in 1..Len(grants'), i < j
        PROVE  /\ grants'[i].of # grants'[j].of
                    /\ EmailOf(grants'[i].of) = EmailOf(grants'[j].of)
                    => grants'[j].begun < i \/ ~grants'[j].new
               /\ grants'[i].of = grants'[j].of => grants'[j].how = "invite"
               /\ grants'[i].of = grants'[j].of /\ grants'[i].how = "invite"
                    => grants'[j].begun < i
    <3>1. i \in 1..n /\ grants'[i] = grants[i]
      BY <1>4, <2>2
    <3>2. CASE j = n + 1
      BY <1>4, <2>1, <3>1, <3>2
    <3>3. CASE j \in 1..n
      BY <1>4, <2>2, <3>1, <3>3 DEF IInv, TwiceOnlyInRace, Overlapped
    <3> QED BY <1>4, <3>2, <3>3
  <2> QED BY <2>2 DEF TwiceOnlyInRace, Overlapped
<1>15. MembersStay /\ BadStaysBad
  BY <1>4, <1>5, <1>6, <1>8 DEF MembersStay, BadStaysBad
<1>16. request'[p] = Idle /\ \A q \in Clients \ {p} : request'[q] = request[q]
  BY DEF End, IInv, HistoryTyped
<1>17. RequestsFit'
  <2>1. ReadFits(request[p])' /\ UseFits(request[p])'
    BY <1>16 DEF ReadFits, UseFits, Idle, MemberPcs, UsePcs
  <2> QED BY <1>7, <1>15, <1>16, <2>1, RequestMoves
<1> QED BY <1>7, <1>9, <1>12, <1>13, <1>14, <1>17 DEF IInv

LEMMA FinishRegisterIInv ==
  ASSUME IInv, NEW p \in Clients, FinishRegister(p) PROVE IInv'
<1> PICK a : a = request[p].of
  OBVIOUS
<1>1. request[p].pc = "register" /\ request[p].pc \in MemberPcs /\ a \in Accounts
  BY RequestKinds DEF FinishRegister, At, MemberPcs, IInv
<1>2. CASE a[1] \in orgs
  BY <1>2, EndStep DEF FinishRegister, accountVars
<1>3. CASE a[1] \notin orgs
  <2>1. /\ End(p) /\ Grant(p, a, "admin", "register") /\ orgs' = orgs \cup {a[1]}
        /\ UNCHANGED <<inactive, invites, offered>>
    BY <1>3 DEF FinishRegister
  <2>2. users[a] = "none"
    BY <1>1, <1>3 DEF IInv, MemberFits
  <2>3. orgs' \subseteq Orgs
    BY <1>1, <2>1 DEF IInv, TypeOK, Accounts
  <2> QED BY <1>1, <2>1, <2>2, <2>3, GrantIInv
<1> QED BY <1>2, <1>3

LEMMA FinishAcceptIInv ==
  ASSUME IInv, NEW p \in Clients, FinishAccept(p) PROVE IInv'
<1> PICK a : a = request[p].of
  OBVIOUS
<1>1. /\ request[p].pc \in {"create", "update"} /\ request[p].pc \in MemberPcs
      /\ a \in Accounts /\ ReadFits(request[p])
  BY RequestKinds DEF FinishAccept, At, MemberPcs, IInv, RequestsFit
<1>2. CASE At(p, "create") /\ users[a] # "none"
  BY <1>2, EndStep DEF FinishAccept, accountVars
<1>3. CASE ~(At(p, "create") /\ users[a] # "none")
  <2>1. /\ End(p) /\ Grant(p, a, offered[a], "invite")
        /\ invites' = [invites EXCEPT ![a] = "accepted"]
        /\ UNCHANGED <<orgs, inactive, offered>>
    BY <1>3 DEF FinishAccept
  <2>2. a[1] \in orgs /\ offered[a] \in Roles
    BY <1>1 DEF ReadFits, IInv, MemberFits
  <2>3. request[p].pc = "create" => users[a] = "none"
    BY <1>3 DEF At
  <2>4. orgs' \subseteq Orgs
    BY <2>1 DEF IInv, TypeOK
  <2> QED BY <1>1, <2>1, <2>2, <2>3, <2>4, GrantIInv
<1> QED BY <1>2, <1>3

LEMMA FinishInviteIInv ==
  ASSUME IInv, NEW p \in Clients, FinishInvite(p) PROVE IInv'
<1> PICK a : a = request[p].of
  OBVIOUS
<1>1. request[p].pc = "invite" /\ a \in Accounts /\ ReadFits(request[p])
  BY RequestKinds DEF FinishInvite, At, MemberPcs, IInv, RequestsFit
<1>2. CASE invites[a] # "none"
  BY <1>2, EndStep DEF FinishInvite, accountVars
<1>3. CASE invites[a] = "none"
  <2>1. PICK role \in Roles : offered' = [offered EXCEPT ![a] = role]
    BY <1>3 DEF FinishInvite
  <2>2. /\ End(p) /\ invites' = [invites EXCEPT ![a] = "open"]
        /\ UNCHANGED <<orgs, users, inactive, credentials, grants>>
    BY <1>3 DEF FinishInvite
  <2>3. TypeOK' /\ HistoryTyped'
    BY <2>1, <2>2, IdleFits DEF IInv, TypeOK, HistoryTyped, End
  <2>4. ASSUME NEW b \in Accounts PROVE MemberFits(b)'
    <3>1. GrantsOf(b)' = GrantsOf(b)
      BY <2>2 DEF GrantsOf
    <3>2. CASE b = a
      <4>1. a[1] \in orgs
        BY <1>1 DEF ReadFits, MemberPcs
      <4>2. invites'[a] = "open" /\ offered'[a] = role
        BY <1>1, <2>1, <2>2 DEF IInv, TypeOK
      <4>3. \A i \in GrantsOf(a) : grants[i].how # "invite"
        BY <1>1, <1>3 DEF IInv, MemberFits
      <4> QED BY <2>2, <3>1, <3>2, <4>1, <4>2, <4>3 DEF IInv, MemberFits
    <3>3. CASE b # a
      <4>1. invites'[b] = invites[b] /\ offered'[b] = offered[b]
        BY <2>1, <2>2, <3>3 DEF IInv, TypeOK
      <4> QED BY <2>2, <3>1, <4>1 DEF IInv, MemberFits
    <3> QED BY <3>2, <3>3
  <2>5. MembersStay /\ BadStaysBad
    BY <1>1, <2>2 DEF MembersStay, BadStaysBad, IInv, HistoryTyped, TypeOK
  <2>6. request'[p] = Idle /\ \A q \in Clients \ {p} : request'[q] = request[q]
    BY <2>2 DEF End, IInv, HistoryTyped
  <2>7. ReadFits(request[p])' /\ UseFits(request[p])'
    BY <2>6 DEF ReadFits, UseFits, Idle, MemberPcs, UsePcs
  <2>8. RequestsFit'
    BY <2>3, <2>5, <2>6, <2>7, RequestMoves
  <2>9. TwiceOnlyInRace'
    BY <2>2 DEF IInv, TwiceOnlyInRace, Overlapped
  <2> QED BY <2>3, <2>4, <2>8, <2>9 DEF IInv
<1> QED BY <1>2, <1>3

LEMMA ExpireInviteIInv ==
  ASSUME IInv, ExpireInvite PROVE IInv'
<1>1. PICK a \in Accounts : invites[a] = "open" /\ invites' = [invites EXCEPT ![a] = "expired"]
  BY DEF ExpireInvite
<1>2. UNCHANGED <<orgs, users, inactive, offered, credentials, request, grants>>
  BY DEF ExpireInvite
<1>3. TypeOK' /\ HistoryTyped'
  BY <1>1, <1>2 DEF IInv, TypeOK, HistoryTyped
<1>4. ASSUME NEW b \in Accounts PROVE MemberFits(b)'
  <2>1. GrantsOf(b)' = GrantsOf(b)
    BY <1>2 DEF GrantsOf
  <2>2. /\ invites'[b] = "accepted" <=> invites[b] = "accepted"
        /\ invites'[b] # "none" => invites[b] # "none"
    BY <1>1 DEF IInv, TypeOK
  <2> QED BY <1>2, <2>1, <2>2 DEF IInv, MemberFits
<1>5. MembersStay /\ BadStaysBad
  BY <1>1, <1>2 DEF MembersStay, BadStaysBad, IInv, HistoryTyped, TypeOK
<1>6. RequestsFit'
  BY <1>2, <1>3, <1>5, RequestsKept
<1>7. TwiceOnlyInRace'
  BY <1>2 DEF IInv, TwiceOnlyInRace, Overlapped
<1> QED BY <1>3, <1>4, <1>6, <1>7 DEF IInv

-----------------------------------------------------------------------------
(* Credentials *)

LEMMA DeactivateIInv ==
  ASSUME IInv, Deactivate PROVE IInv'
<1>1. PICK a \in Accounts \ inactive : users[a] # "none" /\ inactive' = inactive \cup {a}
  BY DEF Deactivate
<1>2. UNCHANGED <<orgs, users, invites, offered, credentials, request, grants>>
  BY DEF Deactivate
<1>3. TypeOK' /\ HistoryTyped'
  BY <1>1, <1>2 DEF IInv, TypeOK, HistoryTyped
<1>4. (\A b \in Accounts : MemberFits(b)') /\ TwiceOnlyInRace' /\ MembersStay
  BY <1>2, MembersKept
<1>5. BadStaysBad
  BY <1>1, <1>2 DEF BadStaysBad, IInv, HistoryTyped
<1>6. RequestsFit'
  BY <1>2, <1>3, <1>4, <1>5, RequestsKept
<1> QED BY <1>3, <1>4, <1>6 DEF IInv

(* Members' credentials are added, and some end. *)
LEMMA CredentialStep ==
  ASSUME IInv, UNCHANGED accountVars, request' = request,
         credentials' \in Seq(CredentialRecord), BadStaysBad,
         \A t \in 1..Len(credentials') : users[credentials'[t].of] # "none"
  PROVE  IInv'
<1> USE DEF accountVars
<1>1. TypeOK' /\ HistoryTyped'
  BY DEF IInv, TypeOK, HistoryTyped
<1>2. (\A b \in Accounts : MemberFits(b)') /\ TwiceOnlyInRace' /\ MembersStay
  BY MembersKept
<1>3. RequestsFit'
  BY <1>1, <1>2, RequestsKept
<1> QED BY <1>1, <1>2, <1>3 DEF IInv

LEMMA LoginIInv ==
  ASSUME IInv, Login PROVE IInv'
<1>1. PICK a \in Accounts : users[a] # "none" /\
        credentials' = credentials \o <<Credential("access", a), Credential("refresh", a)>>
  BY DEF Login
<1>2. Credential("access", a) \in CredentialRecord /\ Credential("refresh", a) \in CredentialRecord
  BY DEF Credential, CredentialRecord
<1>3. /\ credentials' \in Seq(CredentialRecord) /\ Len(credentials) \in Nat
      /\ Len(credentials') = Len(credentials) + 2
      /\ \A t \in 1..Len(credentials) : credentials'[t] = credentials[t]
      /\ credentials'[Len(credentials) + 1] = Credential("access", a)
      /\ credentials'[Len(credentials) + 2] = Credential("refresh", a)
  BY <1>1, <1>2, HistoryRecords, TwoMore DEF IInv, HistoryTyped
<1>4. \A k \in Nat : \A i \in 1..(k + 2) : i \in 1..k \/ i \in {k + 1, k + 2}
  OBVIOUS
<1>5. ASSUME NEW t \in 1..Len(credentials') PROVE users[credentials'[t].of] # "none"
  <2>1. t \in 1..Len(credentials) \/ t \in {Len(credentials) + 1, Len(credentials) + 2}
    BY <1>3, <1>4
  <2> QED BY <1>1, <1>3, <2>1 DEF IInv, TypeOK, Credential
<1>6. BadStaysBad
  BY <1>3 DEF BadStaysBad, Login, accountVars
<1> QED BY <1>3, <1>5, <1>6, CredentialStep DEF Login

(* An account has one more credential. *)
LEMMA IssueOne ==
  ASSUME IInv, NEW a \in Accounts, users[a] # "none", NEW kind \in {"access", "key"},
         credentials' = Append(credentials, Credential(kind, a)), inactive' = inactive
  PROVE  /\ credentials' \in Seq(CredentialRecord) /\ BadStaysBad
         /\ \A t \in 1..Len(credentials') : users[credentials'[t].of] # "none"
<1>1. Credential(kind, a) \in CredentialRecord
  BY DEF Credential, CredentialRecord
<1>2. /\ credentials' \in Seq(CredentialRecord) /\ Len(credentials) \in Nat
      /\ Len(credentials') = Len(credentials) + 1
      /\ \A t \in 1..Len(credentials) : credentials'[t] = credentials[t]
      /\ credentials'[Len(credentials) + 1] = Credential(kind, a)
  BY <1>1, HistoryRecords, AppendProperties DEF IInv, HistoryTyped
<1>3. ASSUME NEW t \in 1..Len(credentials') PROVE users[credentials'[t].of] # "none"
  <2>1. t \in 1..Len(credentials) \/ t = Len(credentials) + 1
    BY <1>2
  <2> QED BY <1>2, <2>1 DEF IInv, TypeOK, Credential
<1>4. BadStaysBad
  BY <1>2 DEF BadStaysBad
<1> QED BY <1>2, <1>3, <1>4

LEMMA CreateApiKeyIInv ==
  ASSUME IInv, CreateApiKey PROVE IInv'
<1>1. PICK a \in Accounts : users[a] # "none" /\
        credentials' = Append(credentials, Credential("key", a))
  BY DEF CreateApiKey
<1>2. inactive' = inactive
  BY DEF CreateApiKey, accountVars
<1> QED BY <1>1, <1>2, IssueOne, CredentialStep DEF CreateApiKey

(* A credential ends. *)
LEMMA EndOne ==
  ASSUME IInv, NEW t \in 1..Len(credentials), inactive' = inactive,
         credentials' = [credentials EXCEPT ![t].live = FALSE]
  PROVE  /\ credentials' \in Seq(CredentialRecord) /\ BadStaysBad
         /\ \A s \in 1..Len(credentials') : users[credentials'[s].of] # "none"
<1>1. credentials \in Seq(CredentialRecord) /\ credentials[t] \in CredentialRecord
  BY HistoryRecords DEF IInv, HistoryTyped
<1> PICK c : c = [credentials[t] EXCEPT !.live = FALSE]
  OBVIOUS
<1>2. c \in CredentialRecord /\ c.of = credentials[t].of /\ c.live = FALSE
  BY <1>1 DEF CredentialRecord
<1>3. credentials' = [credentials EXCEPT ![t] = c]
  OBVIOUS
<1>4. /\ credentials' \in Seq(CredentialRecord) /\ Len(credentials') = Len(credentials)
      /\ credentials'[t] = c
      /\ \A s \in 1..Len(credentials) \ {t} : credentials'[s] = credentials[s]
  <2>1. c \in CredentialRecord
    BY <1>2
  <2> QED BY ONLY <1>1, <1>3, <2>1, t \in 1..Len(credentials), OneReplaced
<1>5. \A s \in 1..Len(credentials) : /\ credentials'[s].of = credentials[s].of
                                     /\ credentials'[s].live => credentials[s].live
  BY <1>2, <1>4
<1>6. BadStaysBad
  BY <1>4, <1>5, HistoryRecords DEF BadStaysBad, IInv
<1> QED BY <1>4, <1>5, <1>6 DEF IInv, TypeOK

LEMMA WithdrawIInv ==
  ASSUME IInv, NEW kind, Withdraw(kind) PROVE IInv'
<1>1. PICK t \in 1..Len(credentials) : credentials' = [credentials EXCEPT ![t].live = FALSE]
  BY DEF Withdraw
<1>2. inactive' = inactive
  BY DEF Withdraw, accountVars
<1> QED BY <1>1, <1>2, EndOne, CredentialStep DEF Withdraw

LEMMA ExpireTokenIInv ==
  ASSUME IInv, ExpireToken PROVE IInv'
<1>1. PICK t \in 1..Len(credentials) : credentials' = [credentials EXCEPT ![t].live = FALSE]
  BY DEF ExpireToken
<1>2. inactive' = inactive
  BY DEF ExpireToken, accountVars
<1> QED BY <1>1, <1>2, EndOne, CredentialStep DEF ExpireToken

(* The account is read: the request is admitted, and a refresh issues an    *)
(* access token.                                                            *)
LEMMA CheckUserIInv ==
  ASSUME IInv, NEW p \in Clients, CheckUser(p) PROVE IInv'
<1> PICK c : c = credentials[request[p].with]
  OBVIOUS
<1>1. /\ request[p].pc = "user" /\ request[p].pc \in UsePcs /\ UseFits(request[p])
      /\ request[p].with \in 1..Len(credentials) /\ c.of \in Accounts /\ users[c.of] # "none"
  <2>1. request[p].pc = "user" /\ request[p].pc \in UsePcs /\ UseFits(request[p])
    BY DEF CheckUser, At, UsePcs, IInv, RequestsFit
  <2>2. request[p].with \in 1..Len(credentials)
    BY <2>1 DEF UseFits
  <2> QED BY <2>1, <2>2, HistoryRecords DEF IInv, TypeOK
<1>2. CASE c.of \in inactive
  BY <1>2, EndStep DEF CheckUser
<1>3. CASE c.of \notin inactive
  <2>1. PICK r \in Requests :
          /\ request' = [request EXCEPT ![p] = r] /\ r.pc = "admitted"
          /\ r.with = request[p].with /\ r.bad = request[p].bad
    BY <1>1, <1>3, GotoRequest DEF IInv, UsePcs, CheckUser
  <2>2. ReadFits(r) /\ UseFits(r)
    BY <1>1, <1>3, <2>1 DEF ReadFits, UseFits, MemberPcs, UsePcs
  <2>3. UNCHANGED accountVars
    BY DEF CheckUser
  <2>4. CASE credentials' = credentials
    BY <2>1, <2>2, <2>3, <2>4, ReadStep
  <2>5. CASE credentials' = Append(credentials, Credential("access", c.of))
    <3>1. /\ credentials' \in Seq(CredentialRecord) /\ BadStaysBad
          /\ \A t \in 1..Len(credentials') : users[credentials'[t].of] # "none"
      BY <1>1, <2>3, <2>5, IssueOne DEF accountVars
    <3>2. TypeOK' /\ HistoryTyped'
      BY <2>1, <2>3, <3>1 DEF accountVars, IInv, TypeOK, HistoryTyped
    <3>3. (\A b \in Accounts : MemberFits(b)') /\ TwiceOnlyInRace' /\ MembersStay
      BY <2>3, MembersKept DEF accountVars
    <3>4. ReadFits(r)' /\ UseFits(r)'
      BY <2>2, <3>1, <3>2, <3>3, ReadKept, UseKept
    <3>5. request'[p] = r /\ \A q \in Clients \ {p} : request'[q] = request[q]
      BY <2>1 DEF IInv, HistoryTyped
    <3>6. ReadFits(request[p])' /\ UseFits(request[p])'
      BY <3>4, <3>5 DEF ReadFits, UseFits
    <3>7. RequestsFit'
      BY <3>1, <3>2, <3>3, <3>5, <3>6, RequestMoves
    <3> QED BY <3>2, <3>3, <3>7 DEF IInv
  <2> QED BY <1>3, <2>4, <2>5 DEF CheckUser
<1> QED BY <1>2, <1>3

-----------------------------------------------------------------------------
(* The theorems *)

LEMMA NextIInv ==
  ASSUME IInv, [Next]_vars PROVE IInv'
<1>1. CASE Next
  BY <1>1, RegisterIInv, FinishRegisterIInv, InviteIInv, FinishInviteIInv, AcceptIInv,
     FindAccountIInv, FinishAcceptIInv, PresentIInv, CheckCredentialIInv, CheckUserIInv,
     AnswerIInv, LoginIInv, CreateApiKeyIInv, WithdrawIInv, ExpireInviteIInv,
     ExpireTokenIInv, DeactivateIInv DEF Next, Logout, DeleteApiKey
<1>2. CASE UNCHANGED vars
  <2>1. /\ UNCHANGED accountVars /\ request' = request /\ credentials' = credentials
    BY <1>2 DEF vars, accountVars
  <2>2. BadStaysBad
    BY <2>1 DEF BadStaysBad, accountVars, IInv, HistoryTyped
  <2> QED BY <2>1, <2>2, CredentialStep DEF IInv, HistoryTyped, TypeOK
<1> QED BY <1>1, <1>2

(* Every reachable state satisfies the inductive invariant.                 *)
THEOREM Invariance == Spec => []IInv
  BY InitIInv, NextIInv, PTL DEF Spec

(* Tables have their types; deactivated accounts and the owners of          *)
(* credentials exist.                                                       *)
THEOREM TypeCorrect == Spec => []TypeOK
  BY Invariance, PTL DEF IInv

(* An email in two organisations, and an invite accepted twice, come only   *)
(* from requests that overlap.                                              *)
THEOREM TwiceInRaceOnly == Spec => []TwiceOnlyInRace
  BY Invariance, PTL DEF IInv

LEMMA FitsExplained == IInv => MembersExplained
<1> SUFFICES ASSUME IInv, NEW a \in Accounts
             PROVE  /\ users[a] = IF GrantsOf(a) = {} THEN "none"
                                  ELSE grants[CHOOSE i \in GrantsOf(a) :
                                                \A j \in GrantsOf(a) : j <= i].role
                    /\ users[a] # "none" => a[1] \in orgs
                    /\ invites[a] = "accepted" <=> \E i \in GrantsOf(a) : grants[i].how = "invite"
                    /\ \A i \in GrantsOf(a) : grants[i].how = "invite" =>
                         grants[i].role = offered[a]
  BY DEF MembersExplained, GrantsOf
<1>1. CASE GrantsOf(a) = {}
  BY <1>1 DEF IInv, MemberFits
<1>2. CASE GrantsOf(a) # {}
  <2>1. PICK i \in GrantsOf(a) :
          (\A j \in GrantsOf(a) : j <= i) /\ users[a] = grants[i].role
    BY <1>2 DEF IInv, MemberFits
  <2>2. \A k \in GrantsOf(a) : (\A j \in GrantsOf(a) : j <= k) => k = i
    BY <2>1 DEF GrantsOf
  <2>3. (CHOOSE k \in GrantsOf(a) : \A j \in GrantsOf(a) : j <= k) = i
    BY <2>1, <2>2
  <2> QED BY <1>2, <2>1, <2>3 DEF IInv, MemberFits
<1> QED BY <1>1, <1>2

(* A member's role is the one its organisation's founding or its own        *)
(* invite gave it, and an accepted invite has its member, wherever requests *)
(* for one account collide.                                                 *)
THEOREM MembersAreExplained == Spec => []MembersExplained
  BY Invariance, FitsExplained, PTL

(* Nothing answered with success lets a request in that arrives later with  *)
(* what it ended.                                                           *)
THEOREM AdmittedOnlyWhileGood == Spec => []AdmittedWhileGood
<1>1. IInv => AdmittedWhileGood
  BY DEF IInv, RequestsFit, UseFits, UsePcs, AdmittedWhileGood, At
<1> QED BY <1>1, Invariance, PTL
=============================================================================
