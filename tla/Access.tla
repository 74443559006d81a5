------------------------------- MODULE Access --------------------------------
(***************************************************************************)
(* Who may do what: roles/roles.service.ts, roles/users.service.ts and     *)
(* auth/rbac.service.ts.  A role is a set of permissions, a member a set   *)
(* of roles; both sets are replaced by deleteMany and createMany in one    *)
(* transaction.  Signing in reads the member, its roles and the roles'     *)
(* permissions, in a statement each, and signs them into the access token. *)
(*                                                                         *)
(* The two join tables are one set of pairs <<holder, item>>: a role and a *)
(* permission, or the member and a role.                                   *)
(***************************************************************************)
EXTENDS Requests

CONSTANTS Permissions,  \* the permissions there are
          Member        \* the member of the company

\* Roles, permissions and members have ids of their own.
ASSUME AccessAssumption ==
  /\ Req \cap {0, 1} = {}
  /\ Member \notin {0, 1} \cup Req
  /\ Permissions \cap ({0, 1} \cup Req) = {}

VARIABLES
  roles,     \* the roles there are: 0 the system role, 1 another, and those created
  pairs,     \* the join tables
  active,    \* the member is ACTIVE
  had,       \* history: every permission the member has had
  ask,       \* per request: the holder, the items asked for, or the role to remove
  doomed,    \* per request: the pairs deleteMany has yet to reach
  gone,      \* per request: those its transaction has deleted, and locks
  coming,    \* per request: those it has inserted
  read,      \* per request: the roles a sign-in has read
  token      \* per request: the permissions it has signed

accessVars == <<roles, pairs, active, had, ask, doomed, gone, coming, read, token>>
accessTables == <<roles, pairs, active, had>>
replaceVars == <<doomed, gone, coming>>

System == 0
RoleNames == {0, 1} \cup Req
Holders == RoleNames \cup {Member}
Pairs == (RoleNames \X Permissions) \cup ({Member} \X RoleNames)

ItemsOf(h) == {x[2] : x \in {y \in pairs : y[1] = h}}

\* What the member may do.
Effective(P) == {x[2] : x \in {y \in P : <<Member, y[1]>> \in P}}

NoAsk == [holder |-> Member, items |-> {}, first |-> {}]

\* The system role grants everything; the member has another, with no permission yet.
AccessInit ==
  /\ roles = {0, 1}
  /\ pairs = ({System} \X Permissions) \cup {<<Member, 1>>}
  /\ active = TRUE
  /\ had = Effective(pairs)
  /\ ask = [r \in Req |-> NoAsk]
  /\ doomed = [r \in Req |-> {}]
  /\ gone = [r \in Req |-> {}]
  /\ coming = [r \in Req |-> {}]
  /\ read = [r \in Req |-> {}]
  /\ token = [r \in Req |-> {}]

Asking(r, h, items) ==
  /\ ask' = [ask EXCEPT ![r] = [holder |-> h, items |-> items, first |-> ItemsOf(h)]]
  /\ UNCHANGED <<accessTables, replaceVars, read, token>>

-----------------------------------------------------------------------------
\* The permission ids exist: permissions are seeded and never removed.
StartCreateRole(r) ==
  \E P \in SUBSET Permissions :
    Begin(r, <<"create", "role">>, "insert role") /\ Asking(r, r, P)

\* A role is updated with new permissions (an update of its name alone changes
\* nothing here).
StartUpdateRole(r) ==
  \E h \in roles, P \in SUBSET Permissions :
    Begin(r, <<"update", "role">>, "find role") /\ Asking(r, h, P)

StartRemoveRole(r) ==
  \E h \in roles : Begin(r, <<"remove", "role">>, "find role") /\ Asking(r, h, {})

StartAssign(r) ==
  \E R \in SUBSET roles :
    Begin(r, <<"assign", "member">>, "check roles") /\ Asking(r, Member, R)

StartSetStatus(r) ==
  \E act \in {"suspend", "activate"} :
    /\ Begin(r, <<act, "member">>, "set status")
    /\ UNCHANGED accessVars

\* login and switchCompany, and refresh once the token is rotated (see Sessions).
StartSignIn(r) ==
  \E act \in {"login", "refresh", "switch"} :
    Begin(r, <<act, "session">>, "find member") /\ UNCHANGED accessVars

AccessStart(r) ==
  /\ Idle(r)
  /\ \/ StartCreateRole(r) \/ StartUpdateRole(r) \/ StartRemoveRole(r)
     \/ StartAssign(r) \/ StartSetStatus(r) \/ StartSignIn(r)

-----------------------------------------------------------------------------
Holder(r) == ask[r].holder

\* Mutant: the two columns are swapped.
AskedSwapped(r) == ask[r].items \X {Holder(r)}

Asked(r) == {Holder(r)} \X ask[r].items

\* A role and its permissions are one nested insert.
InsertRole(r) ==
  /\ pc[r] = "insert role"
  /\ roles' = roles \cup {r}
  /\ pairs' = pairs \cup Asked(r)
  /\ Answer(r, TRUE)
  /\ UNCHANGED <<active, had, ask, replaceVars, read, token>>

\* findOne; the system role is left alone.
FindRole(r) ==
  /\ pc[r] = "find role"
  /\ IF Holder(r) \in roles /\ Holder(r) # System
       THEN Goto(r, IF Does(r, "update") THEN "find pairs" ELSE "delete role")
       ELSE Answer(r, FALSE)
  /\ UNCHANGED accessVars

\* The member is there; the roles are counted.
CheckRoles(r) ==
  /\ pc[r] = "check roles"
  /\ IF ask[r].items \subseteq roles THEN Goto(r, "find pairs") ELSE Answer(r, FALSE)
  /\ UNCHANGED accessVars

\* Mutant: the old pairs are kept.
FindPairsNone(r) ==
  /\ pc[r] = "find pairs"
  /\ Goto(r, "delete pairs")
  /\ UNCHANGED accessVars

\* deleteMany: the pairs of the holder, as of the statement.
FindPairs(r) ==
  /\ pc[r] = "find pairs"
  /\ doomed' = [doomed EXCEPT ![r] = {x \in pairs : x[1] = Holder(r)}]
  /\ Goto(r, "delete pairs")
  /\ UNCHANGED <<accessTables, ask, gone, coming, read, token>>

HeldByOther(r, x) == \E s \in Req \ {r} : x \in gone[s] \cup coming[s]

\* A pair that another transaction has deleted is waited for, and then not there.
DeletePair(r) ==
  /\ pc[r] = "delete pairs"
  /\ \E x \in doomed[r] :
       /\ ~HeldByOther(r, x)
       /\ doomed' = [doomed EXCEPT ![r] = @ \ {x}]
       /\ gone' = [gone EXCEPT ![r] = @ \cup ({x} \cap pairs)]
  /\ UNCHANGED <<requestVars, accessTables, ask, coming, read, token>>

PairsDeleted(r) ==
  /\ pc[r] = "delete pairs" /\ doomed[r] = {}
  /\ Goto(r, "insert pairs")
  /\ UNCHANGED accessVars

\* Rolled back or committed, the transaction is over.
AccessRelease(r) ==
  /\ doomed' = [doomed EXCEPT ![r] = {}]
  /\ gone' = [gone EXCEPT ![r] = {}]
  /\ coming' = [coming EXCEPT ![r] = {}]
  /\ UNCHANGED <<ask, read, token>>

\* The rows a pair refers to.
Refers(x) == {x[1], x[2]} \cap RoleNames

\* createMany: a pair another transaction has touched is waited for; one that is there,
\* or refers to a role that is not, makes the statement fail.
InsertPairs(r) ==
  /\ pc[r] = "insert pairs"
  /\ \A x \in Asked(r) : ~HeldByOther(r, x)
  /\ IF /\ Asked(r) \cap (pairs \ gone[r]) = {}
        /\ \A x \in Asked(r) : Refers(x) \subseteq roles
       THEN /\ coming' = [coming EXCEPT ![r] = Asked(r)]
            /\ Goto(r, "commit")
            /\ UNCHANGED <<doomed, gone, ask, read, token>>
       ELSE Answer(r, FALSE) /\ AccessRelease(r)
  /\ UNCHANGED accessTables

PairsAfter(r) == (pairs \ gone[r]) \cup coming[r]

\* The role's own update, and the commit.
CommitPairs(r) ==
  /\ pc[r] = "commit"
  /\ LET fine == Holder(r) \in roles \cup {Member}
     IN /\ IF fine THEN /\ pairs' = PairsAfter(r)
                       /\ had' = had \cup Effective(PairsAfter(r))
                  ELSE UNCHANGED <<pairs, had>>
        /\ Answer(r, fine)
  /\ AccessRelease(r)
  /\ UNCHANGED <<roles, active>>

\* The pairs of a role go with it; those in another transaction are waited for.
DeleteRole(r) ==
  /\ pc[r] = "delete role"
  /\ \A s \in Req \ {r} : \A x \in gone[s] \cup coming[s] : Holder(r) \notin Refers(x)
  /\ roles' = roles \ {Holder(r)}
  /\ pairs' = {x \in pairs : Holder(r) \notin Refers(x)}
  /\ Answer(r, Holder(r) \in roles)
  /\ UNCHANGED <<active, had, ask, replaceVars, read, token>>

\* setStatus, for the one member there is.
SetStatus(r) ==
  /\ pc[r] = "set status"
  /\ active' = Does(r, "activate")
  /\ Answer(r, TRUE)
  /\ UNCHANGED <<roles, pairs, had, ask, replaceVars, read, token>>

-----------------------------------------------------------------------------
\* The member must be ACTIVE; a refresh without one signs no permissions.
FindMember(r) ==
  /\ pc[r] = "find member"
  /\ IF active THEN Goto(r, "read roles") ELSE Answer(r, Does(r, "refresh"))
  /\ UNCHANGED accessVars

\* Mutant: the roles of every member.
ReadRolesAll(r) ==
  /\ pc[r] = "read roles"
  /\ read' = [read EXCEPT ![r] = roles]
  /\ Goto(r, "read permissions")
  /\ UNCHANGED <<accessTables, ask, replaceVars, token>>

\* getPermissionsForMember: memberRole.findMany; what it includes is read after it.
ReadRoles(r) ==
  /\ pc[r] = "read roles"
  /\ read' = [read EXCEPT ![r] = ItemsOf(Member)]
  /\ Goto(r, "read permissions")
  /\ UNCHANGED <<accessTables, ask, replaceVars, token>>

ReadPermissions(r) ==
  /\ pc[r] = "read permissions"
  /\ token' = [token EXCEPT ![r] = UNION {ItemsOf(h) : h \in read[r]}]
  /\ Answer(r, TRUE)
  /\ UNCHANGED <<accessTables, ask, replaceVars, read>>

AccessWork(r) ==
  \/ InsertRole(r) \/ FindRole(r) \/ CheckRoles(r) \/ FindPairs(r) \/ DeletePair(r)
  \/ PairsDeleted(r) \/ InsertPairs(r) \/ CommitPairs(r) \/ DeleteRole(r) \/ SetStatus(r)
  \/ FindMember(r) \/ ReadRoles(r) \/ ReadPermissions(r)

AccessDrop(r) == AccessRelease(r) /\ UNCHANGED accessTables

-----------------------------------------------------------------------------
AccessTypeOK ==
  /\ roles \subseteq RoleNames /\ pairs \subseteq Pairs /\ active \in BOOLEAN
  /\ had \subseteq Permissions
  /\ \A r \in Req : /\ ask[r].holder \in Holders
                    /\ doomed[r] \subseteq Pairs /\ gone[r] \subseteq Pairs
                    /\ coming[r] \subseteq Pairs
                    /\ read[r] \subseteq RoleNames /\ token[r] \subseteq Permissions

Replaces(r, h) ==
  /\ op[r] \in {<<"update", "role">>, <<"assign", "member">>}
  /\ Holder(r) = h /\ pc[r] # "forbidden"

\* What a holder has is what it had or what one request asked for, less the roles that
\* were removed, unless two requests that replace it overlapped.
Settles(r, h) == Replaces(r, h) \/ (op[r] = <<"create", "role">> /\ h = r)

SetIsAsAsked(h) ==
  LET There == Permissions \cup roles
      Is(items) == ItemsOf(h) = items \cap There
  IN \/ \A s \in Req : ~Settles(s, h)
     \/ \E s \in Req : Settles(s, h) /\ (Is(ask[s].items) \/ Is(ask[s].first))
     \/ \E r, s \in Req : Met(r, s) /\ Replaces(r, h) /\ Replaces(s, h)

SetsAreAsAsked == \A h \in roles \cup {Member} : SetIsAsAsked(h)

\* A token holds no permission that the member never had, unless a change of the
\* member's roles and a change of a role both overlapped the signing in, which reads the
\* one before the other.
TokensWereHeld ==
  \A r \in Req :
    \/ token[r] \subseteq had
    \/ /\ \E s \in Req : Met(r, s) /\ op[s] = <<"assign", "member">>
       /\ \E s \in Req : Met(r, s) /\ op[s] = <<"update", "role">>

\* The roles and the tokens are as they were granted.
AccessAsGranted == SetsAreAsAsked /\ TokensWereHeld
=============================================================================
