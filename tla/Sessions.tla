------------------------------- MODULE Sessions ------------------------------
(***************************************************************************)
(* The sessions of one user: apps/api/src/auth/token.service.ts and        *)
(* auth.service.ts on the server, apps/web/src/lib/api.ts and auth.tsx in  *)
(* the browser.  A refresh token is used once: a refresh finds it, creates *)
(* its successor in the same family, revokes it and signs an access token, *)
(* four statements without a transaction.  A revoked token that is         *)
(* presented again ends its family (theft detection).  The browser's tabs  *)
(* share one store; each has at most one refresh in flight, and clears the *)
(* store when it fails.  Tabs, requests, crashes and lost answers          *)
(* interleave.                                                             *)
(***************************************************************************)
CONSTANTS Req,       \* the requests to the auth endpoints
          Nobody,    \* no request, no tab
          Tab,       \* the tabs of the browser
          Gone,      \* the page a request was sent from, no longer there
          First,     \* the refresh token of the login before
          Company,   \* the companies the user is an active member of
          Home       \* the one it joined first

ASSUME SessionAssumption ==
  /\ First \notin Req /\ Nobody \notin Req \cup {First} /\ Home \in Company
  /\ Nobody \notin Tab /\ Gone \notin Tab /\ Nobody # Gone /\ Nobody \notin Company

\* A token is named by the request that created it.
Token == Req \cup {First}

TokenRow == [status : {"absent", "live", "expired", "revoked"}, family : Token]

NoToken == [status |-> "absent", family |-> First]

\* The browser's localStorage: a refresh token, and the access token, which
\* stands for the company it is signed for.
NoSession == [refresh |-> Nobody, company |-> Nobody]
Session == [refresh : Token, company : Company]

VARIABLES
  tokens,   \* the table refresh_tokens
  chosen,   \* the company each family was entered with (the table does not say)
  store,    \* the localStorage the tabs share
  open,     \* the tabs that are open
  pc, op,   \* where each request's handler is, and which one it is
  given,    \* the refresh token it was sent with
  company,  \* the company its access token is signed for
  waiter    \* the tab that awaits its answer

vars == <<tokens, chosen, store, open, pc, op, given, company, waiter>>
tabVars == <<store, open, waiter>>
callVars == <<op, given, company>>

Answered == {"ok", "denied", "reuse", "failed"}

-----------------------------------------------------------------------------
(* The browser: requests.                                                  *)

Send(r, t, h, token, at) ==
  /\ pc[r] = "idle"
  /\ op' = [op EXCEPT ![r] = h]
  /\ given' = [given EXCEPT ![r] = token]
  /\ waiter' = [waiter EXCEPT ![r] = t]
  /\ pc' = [pc EXCEPT ![r] = at]
  /\ UNCHANGED <<tokens, chosen, store, open>>

Refreshing(t) == \E r \in Req : op[r] = "refresh" /\ waiter[r] = t

\* Mutant: refreshPromise is not shared, every 401 starts a refresh.
StartRefreshEach(r, t) ==
  /\ t \in open /\ store # NoSession
  /\ Send(r, t, "refresh", store.refresh, "find")
  /\ UNCHANGED company

\* Any call of the API may be answered 401; attemptRefresh then shares the
\* refresh in flight, or starts one.
StartRefresh(r, t) ==
  /\ t \in open /\ store # NoSession /\ ~Refreshing(t)
  /\ Send(r, t, "refresh", store.refresh, "find")
  /\ UNCHANGED company

\* login with dto.companyId, or the one company of the user; switchCompany, which
\* this client does not call, issues tokens in the same way.
StartLogin(r, t, c) ==
  /\ t \in open
  /\ Send(r, t, "login", Nobody, "issue")
  /\ company' = [company EXCEPT ![r] = c]

StartLogout(r, t) ==
  /\ t \in open /\ store # NoSession
  /\ Send(r, t, "logout", store.refresh, "revoke one")
  /\ UNCHANGED company

\* changePassword has an access token and needs no other.
StartPassword(r) ==
  /\ Send(r, Nobody, "password", Nobody, "revoke all")
  /\ UNCHANGED company

-----------------------------------------------------------------------------
(* The server.                                                             *)

RowOf(r) == tokens[given[r]]

\* rotateRefreshToken's findUnique, and what its row leads to.
FindToken(r) ==
  /\ pc[r] = "find"
  /\ pc' = [pc EXCEPT ![r] = CASE RowOf(r).status = "live"    -> "create"
                               [] RowOf(r).status = "revoked" -> "revoke family"
                               [] OTHER                       -> "denied"]
  /\ UNCHANGED <<tokens, chosen, tabVars, callVars>>

\* The tokens in S that are not revoked are now.
Revoked(S) == [k \in Token |-> IF k \in S /\ tokens[k].status # "absent"
                                 THEN [tokens[k] EXCEPT !.status = "revoked"]
                                 ELSE tokens[k]]

FamilyOf(k) == {x \in Token : tokens[x].status # "absent"
                                /\ tokens[x].family = tokens[k].family}

\* Reuse detected: updateMany where family.
RevokeFamily(r) ==
  /\ pc[r] = "revoke family"
  /\ tokens' = Revoked(FamilyOf(given[r]))
  /\ pc' = [pc EXCEPT ![r] = "reuse"]
  /\ UNCHANGED <<chosen, tabVars, callVars>>

CreateToken(r) ==
  /\ pc[r] = "create"
  /\ tokens' = [tokens EXCEPT ![r] = [status |-> "live", family |-> RowOf(r).family]]
  /\ pc' = [pc EXCEPT ![r] = "replace"]
  /\ UNCHANGED <<chosen, tabVars, callVars>>

\* Mutant: the old token is only linked to the new one.
ReplaceTokenLinked(r) ==
  /\ pc[r] = "replace"
  /\ pc' = [pc EXCEPT ![r] = "sign"]
  /\ UNCHANGED <<tokens, chosen, tabVars, callVars>>

\* The update by id, whatever the row is by now.
ReplaceToken(r) ==
  /\ pc[r] = "replace"
  /\ tokens' = Revoked({given[r]})
  /\ pc' = [pc EXCEPT ![r] = "sign"]
  /\ UNCHANGED <<chosen, tabVars, callVars>>

\* refresh signs for the first active membership (orderBy joinedAt).
SignAccess(r) ==
  /\ pc[r] = "sign"
  /\ company' = [company EXCEPT ![r] = Home]
  /\ pc' = [pc EXCEPT ![r] = "ok"]
  /\ UNCHANGED <<tokens, chosen, tabVars, op, given>>

\* issueTokensForMember: a new family.
IssueToken(r) ==
  /\ pc[r] = "issue"
  /\ tokens' = [tokens EXCEPT ![r] = [status |-> "live", family |-> r]]
  /\ chosen' = [chosen EXCEPT ![r] = company[r]]
  /\ pc' = [pc EXCEPT ![r] = "ok"]
  /\ UNCHANGED <<tabVars, callVars>>

\* logout: revokeRefreshToken; changePassword: revokeAllForUser.
RevokeTokens(r) ==
  /\ pc[r] \in {"revoke one", "revoke all"}
  /\ tokens' = Revoked(IF pc[r] = "revoke one" THEN {given[r]} ELSE Token)
  /\ pc' = [pc EXCEPT ![r] = "ok"]
  /\ UNCHANGED <<chosen, tabVars, callVars>>

\* A statement fails, a wrong password is given, the server goes away: what was
\* written stays.
Fail(r) ==
  /\ pc[r] \notin Answered \cup {"idle"}
  /\ pc' = [pc EXCEPT ![r] = "failed"]
  /\ UNCHANGED <<tokens, chosen, tabVars, callVars>>

\* A refresh token's days pass.
Expire(k) ==
  /\ tokens[k].status = "live"
  /\ tokens' = [tokens EXCEPT ![k].status = "expired"]
  /\ UNCHANGED <<chosen, tabVars, pc, callVars>>

-----------------------------------------------------------------------------
(* The browser: answers.                                                   *)

Done(r) ==
  /\ waiter[r] \in Tab
  /\ waiter' = [waiter EXCEPT ![r] = Nobody]
  /\ UNCHANGED <<tokens, chosen, open, pc, callVars>>

\* tokenStore.set.
StoreTokens(r) ==
  /\ Done(r)
  /\ pc[r] = "ok" /\ op[r] \in {"refresh", "login"}
  /\ store' = [refresh |-> r, company |-> company[r]]

\* Mutant: only an answer clears the store, not a network failure.
RefreshFailedKept(r) ==
  /\ Done(r)
  /\ op[r] = "refresh"
  /\ store' = IF pc[r] \in Answered THEN NoSession ELSE store

\* tokenStore.clear: the refresh was refused, or its answer never arrived (the
\* server may still be at it).
RefreshFailed(r) ==
  /\ Done(r)
  /\ op[r] = "refresh"
  /\ store' = NoSession

LoginFailed(r) ==
  /\ Done(r)
  /\ op[r] = "login"
  /\ UNCHANGED store

\* Mutant: the refresh token stays in the store.
LoggedOutHalf(r) ==
  /\ Done(r)
  /\ op[r] = "logout"
  /\ store' = [store EXCEPT !.company = Nobody]

\* However the request ended, logout clears the store.
LoggedOut(r) ==
  /\ Done(r)
  /\ op[r] = "logout"
  /\ store' = NoSession

\* loadProfile could not load the profile: it clears the store, whatever else
\* its tab is waiting for.
ProfileFailed(t) ==
  /\ t \in open /\ store # NoSession
  /\ store' = NoSession
  /\ UNCHANGED <<tokens, chosen, open, pc, callVars, waiter>>

\* A tab is reloaded: its requests run on, their answers reach nobody.
Reload(t) ==
  /\ \E r \in Req : waiter[r] = t
  /\ waiter' = [r \in Req |-> IF waiter[r] = t THEN Gone ELSE waiter[r]]
  /\ UNCHANGED <<tokens, chosen, store, open, pc, callVars>>

-----------------------------------------------------------------------------
Init ==
  /\ tokens = [k \in Token |-> IF k = First THEN [NoToken EXCEPT !.status = "live"]
                                            ELSE NoToken]
  /\ \E c \in Company :
       /\ chosen = [k \in Token |-> c]
       /\ store = [refresh |-> First, company |-> c]
  /\ open \in SUBSET Tab \ {{}}
  /\ pc = [r \in Req |-> "idle"]
  /\ op = [r \in Req |-> "none"]
  /\ given = [r \in Req |-> Nobody]
  /\ company = [r \in Req |-> Nobody]
  /\ waiter = [r \in Req |-> Nobody]

Start(r) ==
  \/ \E t \in Tab : StartRefresh(r, t) \/ StartLogout(r, t)
  \/ \E t \in Tab, c \in Company : StartLogin(r, t, c)
  \/ StartPassword(r)

Serve(r) ==
  \/ FindToken(r) \/ RevokeFamily(r) \/ CreateToken(r) \/ ReplaceToken(r)
  \/ SignAccess(r) \/ IssueToken(r) \/ RevokeTokens(r) \/ Fail(r)

Receive(r) == StoreTokens(r) \/ RefreshFailed(r) \/ LoginFailed(r) \/ LoggedOut(r)

Next ==
  \/ \E r \in Req : Start(r) \/ Serve(r) \/ Receive(r)
  \/ \E k \in Token : Expire(k)
  \/ \E t \in Tab : ProfileFailed(t) \/ Reload(t)

Spec == Init /\ [][Next]_vars

-----------------------------------------------------------------------------
(* Properties.                                                             *)

\* The variables keep their types; the store has both tokens or neither.
TypeOK ==
  /\ tokens \in [Token -> TokenRow]
  /\ chosen \in [Token -> Company]
  /\ store \in Session \cup {NoSession}
  /\ open \subseteq Tab
  /\ pc \in [Req -> {"idle", "find", "revoke family", "create", "replace", "sign",
                     "issue", "revoke one", "revoke all"} \cup Answered]
  /\ op \in [Req -> {"none", "refresh", "login", "logout", "password"}]
  /\ given \in [Req -> Token \cup {Nobody}]
  /\ company \in [Req -> Company \cup {Nobody}]
  /\ waiter \in [Req -> Tab \cup {Nobody, Gone}]

\* A token that is handed out has replaced a revoked one: no answer to a refresh
\* leaves the presented token usable, whatever fails or runs beside it
\* (token.service.ts:115-131, auth.service.ts:196-224).
ReplacedIsRevoked ==
  \A r \in Req : op[r] = "refresh" /\ pc[r] = "ok" => RowOf(r).status = "revoked"

\* The user has done nothing but work in one tab, and log in again when asked to.
Undisturbed ==
  /\ \A t, u \in open : t = u
  /\ \A r \in Req : op[r] \notin {"logout", "password"} /\ waiter[r] # Gone

\* Theft detection does not fire on such a user, though any number of calls may
\* be answered 401, refreshes may fail half way and their answers be lost: one
\* refresh at a time, and a store that is cleared when it fails, never present a
\* token twice (api.ts:71-101, token.service.ts:95-103).
NoFalseAlarm ==
  Undisturbed => \A r \in Req : pc[r] \notin {"revoke family", "reuse"}

\* Nor does the session break by itself: the stored refresh token can be used, or
\* its replacement is on its way to the tab (api.ts:71-101).
StoredIsUsable ==
  Undisturbed /\ store # NoSession =>
    \/ tokens[store.refresh].status \in {"live", "expired"}
    \/ \E r \in Req : /\ op[r] = "refresh" /\ given[r] = store.refresh
                      /\ waiter[r] \in open

-----------------------------------------------------------------------------
(* What the code's own words promise, and its steps do not keep.           *)

\* "Re-presenting an already-rotated token revokes the entire family (theft
\* detection)" (token.service.ts:80): once a token was presented that only a
\* rotation can have revoked, its family has no live token.
TheftEndsFamily ==
  (\A r \in Req : op[r] \notin {"logout", "password"}) =>
    \A r \in Req : pc[r] = "reuse" =>
      \A k \in FamilyOf(given[r]) : tokens[k].status # "live"

\* "Switch the active company context for a multi-company account"
\* (auth.controller.ts:69), and login's companyId: a session stays with the
\* company it was entered for.
CompanyIsKept ==
  store # NoSession => store.company = chosen[tokens[store.refresh].family]
=============================================================================
