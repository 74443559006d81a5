------------------------------- MODULE Members -------------------------------
(***************************************************************************)
(* Accounts that come to be: auth.service.ts register, which creates a     *)
(* user with a company, and users.service.ts invite, which makes a user,   *)
(* new or not, a member of this company.  Both look before they insert;    *)
(* the inserts are one transaction and the unique columns decide.          *)
(***************************************************************************)
EXTENDS Requests

CONSTANTS Emails,      \* the addresses a client may give
          TaxNumbers   \* the tax numbers of companies, likewise

VARIABLES
  users,      \* the table users: who created the row, by e-mail
  companies,  \* the table companies, by tax number
  joined,     \* the members of this company, by e-mail
  person      \* per request: e-mail and tax number, and whether the user was found

memberVars == <<users, companies, joined, person>>

MembersInit ==
  /\ users = [e \in {} |-> Nobody]
  /\ companies = [n \in {} |-> Nobody]
  /\ joined = [e \in {} |-> Nobody]
  /\ person = [r \in Req |-> [email |-> Nobody, taxNumber |-> Nobody, found |-> FALSE]]

StartRegister(r) ==
  \E e \in Emails, n \in TaxNumbers :
    /\ Begin(r, <<"register", "registration">>, "find user")
    /\ person' = [person EXCEPT ![r].email = e, ![r].taxNumber = n]
    /\ UNCHANGED <<users, companies, joined>>

\* The roles asked for exist (see Access).
StartInvite(r) ==
  \E e \in Emails :
    /\ Begin(r, <<"invite", "member">>, "find invited")
    /\ person' = [person EXCEPT ![r].email = e]
    /\ UNCHANGED <<users, companies, joined>>

MembersStart(r) == Idle(r) /\ (StartRegister(r) \/ StartInvite(r))

Email(r) == person[r].email
TaxNumber(r) == person[r].taxNumber

With(f, k, r) == [x \in DOMAIN f \cup {k} |-> IF x = k THEN r ELSE f[x]]

FindUser(r) ==
  /\ pc[r] = "find user"
  /\ IF Email(r) \in DOMAIN users THEN Answer(r, FALSE) ELSE Goto(r, "find company")
  /\ UNCHANGED memberVars

FindCompany(r) ==
  /\ pc[r] = "find company"
  /\ IF TaxNumber(r) \in DOMAIN companies THEN Answer(r, FALSE) ELSE Goto(r, "register")
  /\ UNCHANGED memberVars

\* The transaction: user, company and all that a new company has.
Register(r) ==
  /\ pc[r] = "register"
  /\ LET fine == Email(r) \notin DOMAIN users /\ TaxNumber(r) \notin DOMAIN companies
     IN /\ IF fine THEN /\ users' = With(users, Email(r), r)
                       /\ companies' = With(companies, TaxNumber(r), r)
                  ELSE UNCHANGED <<users, companies>>
        /\ Answer(r, fine)
  /\ UNCHANGED <<joined, person>>

FindInvited(r) ==
  /\ pc[r] = "find invited"
  /\ person' = [person EXCEPT ![r].found = Email(r) \in DOMAIN users]
  /\ Goto(r, IF Email(r) \in DOMAIN users THEN "find membership" ELSE "join")
  /\ UNCHANGED <<users, companies, joined>>

FindMembership(r) ==
  /\ pc[r] = "find membership"
  /\ IF Email(r) \in DOMAIN joined THEN Answer(r, FALSE) ELSE Goto(r, "join")
  /\ UNCHANGED memberVars

\* The inserts: of the user, when none was found, and of the member.
Join(r) ==
  /\ pc[r] = "join"
  /\ LET fine == /\ Email(r) \in DOMAIN users => person[r].found
                 /\ Email(r) \notin DOMAIN joined
     IN /\ IF fine
             THEN /\ joined' = With(joined, Email(r), r)
                  /\ users' = IF person[r].found THEN users ELSE With(users, Email(r), r)
             ELSE UNCHANGED <<users, joined>>
        /\ IF fine THEN Goto(r, "mail") ELSE Answer(r, FALSE)
  /\ UNCHANGED <<companies, person>>

\* The mail with the temporary password; its failure is not the invitation's.
SendMail(r) == pc[r] = "mail" /\ Answer(r, TRUE) /\ UNCHANGED memberVars

MembersWork(r) ==
  \/ FindUser(r) \/ FindCompany(r) \/ Register(r)
  \/ FindInvited(r) \/ FindMembership(r) \/ Join(r) \/ SendMail(r)

-----------------------------------------------------------------------------
MembersTypeOK ==
  /\ DOMAIN users \subseteq Emails /\ DOMAIN joined \subseteq Emails
  /\ DOMAIN companies \subseteq TaxNumbers
  /\ \A e \in DOMAIN users : users[e] \in Req
  /\ \A n \in DOMAIN companies : companies[n] \in Req
  /\ \A e \in DOMAIN joined : joined[e] \in Req

\* A registration that was answered owns its user and its company, an invitation its
\* membership: no later one has taken them over.
MemberIsKept ==
  \A r \in Req :
    /\ At(r, "register", "registration", "ok") =>
         /\ Email(r) \in DOMAIN users /\ users[Email(r)] = r
         /\ TaxNumber(r) \in DOMAIN companies /\ companies[TaxNumber(r)] = r
    /\ At(r, "invite", "member", "ok") =>
         /\ Email(r) \in DOMAIN joined /\ joined[Email(r)] = r
         /\ Email(r) \in DOMAIN users
=============================================================================
