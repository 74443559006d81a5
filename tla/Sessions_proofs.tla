--------------------------- MODULE Sessions_proofs --------------------------
(***************************************************************************)
(* Sessions, for every set of requests, tabs and companies: types, a token *)
(* handed out has replaced a revoked one (ReplacedIsRevoked), and a user   *)
(* who works in one tab is never taken for a thief (NoFalseAlarm) nor left *)
(* with a dead token (StoredIsUsable).                                     *)
(***************************************************************************)
EXTENDS Sessions, TLAPS

\* Which handler is at which step, and with what token.
Handling ==
  \A r \in Req :
    /\ pc[r] \in {"find", "revoke family", "create", "replace", "sign", "reuse"} =>
         op[r] = "refresh"
    /\ pc[r] = "issue" => op[r] = "login"
    /\ pc[r] = "revoke one" => op[r] = "logout"
    /\ pc[r] = "revoke all" => op[r] = "password"
    /\ pc[r] = "idle" => op[r] = "none" /\ waiter[r] = Nobody
    /\ op[r] \in {"refresh", "logout"} => given[r] \in Token
    /\ op[r] = "login" => company[r] \in Company
    /\ pc[r] = "ok" /\ op[r] \in {"refresh", "login"} => company[r] \in Company

\* A request's token is absent until the request creates it, and present when it
\* is handed out; the token of a rotation is present.
TokenFits(r) ==
  /\ pc[r] \in {"idle", "find", "create", "issue"} => tokens[r].status = "absent"
  /\ pc[r] = "ok" /\ op[r] \in {"refresh", "login"} => tokens[r].status # "absent"
  /\ pc[r] \in {"replace", "sign"} => tokens[r].status # "absent"
  /\ pc[r] \in {"create", "replace"} => RowOf(r).status # "absent"
  /\ op[r] = "refresh" /\ pc[r] \in {"sign", "ok"} => RowOf(r).status = "revoked"

Present == tokens[First].status # "absent" /\ \A r \in Req : TokenFits(r)

SessionInv == TypeOK /\ Handling /\ Present

Presents(r, k) == op[r] = "refresh" /\ given[r] = k

\* The history of an undisturbed user's tokens.  A token is presented by one
\* request at most,
PresentedOnce ==
  \A r, x \in Req : op[r] = "refresh" /\ op[x] = "refresh" /\ given[r] = given[x] => r = x

\* the stored one only by a request whose answer its tab awaits.
StoredAwaited == \A r \in Req : Presents(r, store.refresh) => waiter[r] \in open

\* A token of a request that is stored, or was presented, has been delivered.
Delivered(x) == waiter[x] = Nobody /\ pc[x] = "ok" /\ op[x] \in {"refresh", "login"}

KnownDelivered ==
  /\ \A x \in Req : store.refresh = x => Delivered(x)
  /\ \A r, x \in Req : Presents(r, x) => Delivered(x)

\* A token is revoked by its rotation only, and nobody finds it so.
RevokedRotated ==
  \A k \in Token : tokens[k].status = "revoked" =>
    \E r \in Req : Presents(r, k) /\ pc[r] \in {"sign", "ok", "failed"}

NoAlarm == \A r \in Req : pc[r] \notin {"revoke family", "reuse"}

Honest == PresentedOnce /\ StoredAwaited /\ KnownDelivered /\ RevokedRotated /\ NoAlarm

HonestInv == Undisturbed => Honest
-----------------------------------------------------------------------------
(* Types, handlers and tokens.                                             *)

\* A first login has left one live token, the stored one.
LEMMA InitSession == Init => SessionInv
BY SessionAssumption
   DEF Init, SessionInv, TypeOK, Handling, Present, TokenRow, NoToken, Token, Session,
       NoSession, Answered, RowOf, TokenFits

\* What revoking a set of tokens does to the table.
LEMMA RevokedFacts ==
  ASSUME TypeOK, NEW S \in SUBSET Token
  PROVE  /\ Revoked(S) \in [Token -> TokenRow]
         /\ \A k \in Token :
              /\ Revoked(S)[k].status = "absent" <=> tokens[k].status = "absent"
              /\ tokens[k].status = "revoked" => Revoked(S)[k].status = "revoked"
              /\ k \notin S => Revoked(S)[k] = tokens[k]
              /\ k \in S /\ tokens[k].status # "absent" => Revoked(S)[k].status = "revoked"
              /\ Revoked(S)[k].family = tokens[k].family
<1>1. ASSUME NEW k \in Token
      PROVE  /\ [tokens[k] EXCEPT !.status = "revoked"] \in TokenRow
             /\ [tokens[k] EXCEPT !.status = "revoked"].status = "revoked"
             /\ [tokens[k] EXCEPT !.status = "revoked"].family = tokens[k].family
             /\ tokens[k] \in TokenRow
  <2>1. tokens[k] \in TokenRow
    BY DEF TypeOK
  <2>2. \A row \in TokenRow : /\ [row EXCEPT !.status = "revoked"] \in TokenRow
                              /\ [row EXCEPT !.status = "revoked"].status = "revoked"
                              /\ [row EXCEPT !.status = "revoked"].family = row.family
    BY DEF TokenRow
  <2> QED
    BY <2>1, <2>2
<1>2. ASSUME NEW k \in Token
      PROVE  Revoked(S)[k] = IF k \in S /\ tokens[k].status # "absent"
                               THEN [tokens[k] EXCEPT !.status = "revoked"] ELSE tokens[k]
  BY DEF Revoked
<1>3. \A k \in Token : Revoked(S)[k] \in TokenRow
  BY <1>1, <1>2
<1>4. Revoked(S) \in [Token -> TokenRow]
  BY <1>3 DEF Revoked
<1> QED
  BY <1>1, <1>2, <1>4

\* Every step of a tab or a handler keeps types, handlers and tokens together.
LEMMA StepSession == SessionInv /\ [Next]_vars => SessionInv'
<1> SUFFICES ASSUME SessionInv, [Next]_vars PROVE SessionInv'
  OBVIOUS
<1> USE SessionAssumption DEF SessionInv
<1>1. ASSUME NEW r \in Req, NEW t \in Tab, StartRefresh(r, t) PROVE SessionInv'
  <2>1. TypeOK' /\ Handling'
    BY <1>1 DEF StartRefresh, Send, TypeOK, Handling, TokenRow, Token, Session, NoSession, Answered,
       RowOf, tabVars, callVars
  <2>2. Present'
    <3>1. ASSUME NEW x \in Req PROVE TokenFits(x)'
      <4>1. TokenFits(x) /\ TokenFits(r)
        BY DEF Present
      <4>2. CASE x = r
        BY <1>1, <4>1, <4>2 DEF StartRefresh, Send, TokenFits, RowOf, TypeOK,
           Handling, TokenRow, Token, Answered, tabVars, callVars
      <4>3. CASE x # r
        BY <1>1, <4>1, <4>3 DEF StartRefresh, Send, TokenFits, RowOf, TypeOK,
           Handling, TokenRow, Token, tabVars, callVars
      <4> QED
        BY <4>2, <4>3
    <3>2. tokens'[First].status # "absent"
      BY <1>1 DEF StartRefresh, Send, Present, TokenFits, TypeOK, TokenRow, Token,
         tabVars, callVars
    <3> QED
      BY <3>1, <3>2 DEF Present
  <2> QED
    BY <2>1, <2>2
<1>2. ASSUME NEW r \in Req, NEW t \in Tab, NEW c \in Company, StartLogin(r, t, c) PROVE SessionInv'
  <2>1. TypeOK' /\ Handling'
    BY <1>2 DEF StartLogin, Send, TypeOK, Handling, TokenRow, Token, Session, NoSession, Answered,
       RowOf, tabVars, callVars
  <2>2. Present'
    <3>1. ASSUME NEW x \in Req PROVE TokenFits(x)'
      <4>1. TokenFits(x) /\ TokenFits(r)
        BY DEF Present
      <4>2. CASE x = r
        BY <1>2, <4>1, <4>2 DEF StartLogin, Send, TokenFits, RowOf, TypeOK,
           Handling, TokenRow, Token, Answered, tabVars, callVars
      <4>3. CASE x # r
        BY <1>2, <4>1, <4>3 DEF StartLogin, Send, TokenFits, RowOf, TypeOK,
           Handling, TokenRow, Token, tabVars, callVars
      <4> QED
        BY <4>2, <4>3
    <3>2. tokens'[First].status # "absent"
      BY <1>2 DEF StartLogin, Send, Present, TokenFits, TypeOK, TokenRow, Token,
         tabVars, callVars
    <3> QED
      BY <3>1, <3>2 DEF Present
  <2> QED
    BY <2>1, <2>2
<1>3. ASSUME NEW r \in Req, NEW t \in Tab, StartLogout(r, t) PROVE SessionInv'
  <2>1. TypeOK' /\ Handling'
    BY <1>3 DEF StartLogout, Send, TypeOK, Handling, TokenRow, Token, Session, NoSession, Answered,
       RowOf, tabVars, callVars
  <2>2. Present'
    <3>1. ASSUME NEW x \in Req PROVE TokenFits(x)'
      <4>1. TokenFits(x) /\ TokenFits(r)
        BY DEF Present
      <4>2. CASE x = r
        BY <1>3, <4>1, <4>2 DEF StartLogout, Send, TokenFits, RowOf, TypeOK,
           Handling, TokenRow, Token, Answered, tabVars, callVars
      <4>3. CASE x # r
        BY <1>3, <4>1, <4>3 DEF StartLogout, Send, TokenFits, RowOf, TypeOK,
           Handling, TokenRow, Token, tabVars, callVars
      <4> QED
        BY <4>2, <4>3
    <3>2. tokens'[First].status # "absent"
      BY <1>3 DEF StartLogout, Send, Present, TokenFits, TypeOK, TokenRow, Token,
         tabVars, callVars
    <3> QED
      BY <3>1, <3>2 DEF Present
  <2> QED
    BY <2>1, <2>2
<1>4. ASSUME NEW r \in Req, StartPassword(r) PROVE SessionInv'
  <2>1. TypeOK' /\ Handling'
    BY <1>4 DEF StartPassword, Send, TypeOK, Handling, TokenRow, Token, Session, NoSession, Answered,
       RowOf, tabVars, callVars
  <2>2. Present'
    <3>1. ASSUME NEW x \in Req PROVE TokenFits(x)'
      <4>1. TokenFits(x) /\ TokenFits(r)
        BY DEF Present
      <4>2. CASE x = r
        BY <1>4, <4>1, <4>2 DEF StartPassword, Send, TokenFits, RowOf, TypeOK,
           Handling, TokenRow, Token, Answered, tabVars, callVars
      <4>3. CASE x # r
        BY <1>4, <4>1, <4>3 DEF StartPassword, Send, TokenFits, RowOf, TypeOK,
           Handling, TokenRow, Token, tabVars, callVars
      <4> QED
        BY <4>2, <4>3
    <3>2. tokens'[First].status # "absent"
      BY <1>4 DEF StartPassword, Send, Present, TokenFits, TypeOK, TokenRow, Token,
         tabVars, callVars
    <3> QED
      BY <3>1, <3>2 DEF Present
  <2> QED
    BY <2>1, <2>2
<1>5. ASSUME NEW r \in Req, FindToken(r) PROVE SessionInv'
  <2>1. TypeOK' /\ Handling'
    BY <1>5 DEF FindToken, TypeOK, Handling, TokenRow, Token, Session, NoSession, Answered,
       RowOf, tabVars, callVars
  <2>2. Present'
    <3>1. ASSUME NEW x \in Req PROVE TokenFits(x)'
      <4>1. TokenFits(x) /\ TokenFits(r)
        BY DEF Present
      <4>2. CASE x = r
        BY <1>5, <4>1, <4>2 DEF FindToken, TokenFits, RowOf, TypeOK,
           Handling, TokenRow, Token, Answered, tabVars, callVars
      <4>3. CASE x # r
        BY <1>5, <4>1, <4>3 DEF FindToken, TokenFits, RowOf, TypeOK,
           Handling, TokenRow, Token, tabVars, callVars
      <4> QED
        BY <4>2, <4>3
    <3>2. tokens'[First].status # "absent"
      BY <1>5 DEF FindToken, Present, TokenFits, TypeOK, TokenRow, Token,
         tabVars, callVars
    <3> QED
      BY <3>1, <3>2 DEF Present
  <2> QED
    BY <2>1, <2>2
<1>6. ASSUME NEW r \in Req, RevokeFamily(r) PROVE SessionInv'
  <2> DEFINE S == FamilyOf(given[r])
  <2>1. S \in SUBSET Token /\ tokens' = Revoked(S)
    BY <1>6 DEF RevokeFamily, Handling, FamilyOf
  <2> HIDE DEF S
  <2>2. /\ tokens' \in [Token -> TokenRow]
        /\ \A k \in Token :
             /\ tokens'[k].status = "absent" <=> tokens[k].status = "absent"
             /\ tokens[k].status = "revoked" => tokens'[k].status = "revoked"
    BY <2>1, RevokedFacts
  <2>3. TypeOK' /\ Handling'
    BY <1>6, <2>2 DEF RevokeFamily, TypeOK, Handling, Answered, tabVars, callVars
  <2>4. Present'
    <3>1. ASSUME NEW x \in Req PROVE TokenFits(x)'
      <4>1. TokenFits(x) /\ TokenFits(r)
        BY DEF Present
      <4>2. CASE x = r
        BY <1>6, <4>1, <4>2, <2>2 DEF RevokeFamily, TokenFits, RowOf, TypeOK,
           Handling, TokenRow, Token, Answered, tabVars, callVars
      <4>3. CASE x # r
        BY <1>6, <4>1, <4>3, <2>2 DEF RevokeFamily, TokenFits, RowOf, TypeOK,
           Handling, TokenRow, Token, tabVars, callVars
      <4> QED
        BY <4>2, <4>3
    <3>2. tokens'[First].status # "absent"
      BY <1>6, <2>2 DEF RevokeFamily, Present, TokenFits, TypeOK, TokenRow, Token,
         tabVars, callVars
    <3> QED
      BY <3>1, <3>2 DEF Present
  <2> QED
    BY <2>3, <2>4
<1>7. ASSUME NEW r \in Req, CreateToken(r) PROVE SessionInv'
  <2>1. TypeOK' /\ Handling'
    BY <1>7 DEF CreateToken, TypeOK, Handling, TokenRow, Token, Session, NoSession, Answered,
       RowOf, tabVars, callVars
  <2>2. Present'
    <3>1. ASSUME NEW x \in Req PROVE TokenFits(x)'
      <4>1. TokenFits(x) /\ TokenFits(r)
        BY DEF Present
      <4>2. CASE x = r
        BY <1>7, <4>1, <4>2 DEF CreateToken, TokenFits, RowOf, TypeOK,
           Handling, TokenRow, Token, Answered, tabVars, callVars
      <4>3. CASE x # r
        BY <1>7, <4>1, <4>3 DEF CreateToken, TokenFits, RowOf, TypeOK,
           Handling, TokenRow, Token, tabVars, callVars
      <4> QED
        BY <4>2, <4>3
    <3>2. tokens'[First].status # "absent"
      BY <1>7 DEF CreateToken, Present, TokenFits, TypeOK, TokenRow, Token,
         tabVars, callVars
    <3> QED
      BY <3>1, <3>2 DEF Present
  <2> QED
    BY <2>1, <2>2
<1>8. ASSUME NEW r \in Req, ReplaceToken(r) PROVE SessionInv'
  <2> DEFINE S == {given[r]}
  <2>1. S \in SUBSET Token /\ tokens' = Revoked(S)
    BY <1>8 DEF ReplaceToken, Handling
  <2> HIDE DEF S
  <2>2. /\ tokens' \in [Token -> TokenRow]
        /\ \A k \in Token :
             /\ tokens'[k].status = "absent" <=> tokens[k].status = "absent"
             /\ tokens[k].status = "revoked" => tokens'[k].status = "revoked"
    BY <2>1, RevokedFacts
  <2>3. tokens'[given[r]].status = "revoked"
    <3>1. given[r] \in S /\ given[r] \in Token /\ tokens[given[r]].status # "absent"
      BY <1>8 DEF S, ReplaceToken, Handling, Present, TokenFits, RowOf
    <3> QED
      BY <2>1, <3>1, RevokedFacts
  <2>4. TypeOK' /\ Handling'
    BY <1>8, <2>2, <2>3 DEF ReplaceToken, TypeOK, Handling, Answered, tabVars, callVars
  <2>5. Present'
    <3>1. ASSUME NEW x \in Req PROVE TokenFits(x)'
      <4>1. TokenFits(x) /\ TokenFits(r)
        BY DEF Present
      <4>2. CASE x = r
        BY <1>8, <4>1, <4>2, <2>2, <2>3 DEF ReplaceToken, TokenFits, RowOf, TypeOK,
           Handling, TokenRow, Token, Answered, tabVars, callVars
      <4>3. CASE x # r
        BY <1>8, <4>1, <4>3, <2>2, <2>3 DEF ReplaceToken, TokenFits, RowOf, TypeOK,
           Handling, TokenRow, Token, tabVars, callVars
      <4> QED
        BY <4>2, <4>3
    <3>2. tokens'[First].status # "absent"
      BY <1>8, <2>2, <2>3 DEF ReplaceToken, Present, TokenFits, TypeOK, TokenRow, Token,
         tabVars, callVars
    <3> QED
      BY <3>1, <3>2 DEF Present
  <2> QED
    BY <2>4, <2>5
<1>9. ASSUME NEW r \in Req, SignAccess(r) PROVE SessionInv'
  <2>1. TypeOK' /\ Handling'
    BY <1>9 DEF SignAccess, TypeOK, Handling, TokenRow, Token, Session, NoSession, Answered,
       RowOf, tabVars, callVars
  <2>2. Present'
    <3>1. ASSUME NEW x \in Req PROVE TokenFits(x)'
      <4>1. TokenFits(x) /\ TokenFits(r)
        BY DEF Present
      <4>2. CASE x = r
        BY <1>9, <4>1, <4>2 DEF SignAccess, TokenFits, RowOf, TypeOK,
           Handling, TokenRow, Token, Answered, tabVars, callVars
      <4>3. CASE x # r
        BY <1>9, <4>1, <4>3 DEF SignAccess, TokenFits, RowOf, TypeOK,
           Handling, TokenRow, Token, tabVars, callVars
      <4> QED
        BY <4>2, <4>3
    <3>2. tokens'[First].status # "absent"
      BY <1>9 DEF SignAccess, Present, TokenFits, TypeOK, TokenRow, Token,
         tabVars, callVars
    <3> QED
      BY <3>1, <3>2 DEF Present
  <2> QED
    BY <2>1, <2>2
<1>10. ASSUME NEW r \in Req, IssueToken(r) PROVE SessionInv'
  <2>1. TypeOK' /\ Handling'
    BY <1>10 DEF IssueToken, TypeOK, Handling, TokenRow, Token, Session, NoSession, Answered,
       RowOf, tabVars, callVars
  <2>2. Present'
    <3>1. ASSUME NEW x \in Req PROVE TokenFits(x)'
      <4>1. TokenFits(x) /\ TokenFits(r)
        BY DEF Present
      <4>2. CASE x = r
        BY <1>10, <4>1, <4>2 DEF IssueToken, TokenFits, RowOf, TypeOK,
           Handling, TokenRow, Token, Answered, tabVars, callVars
      <4>3. CASE x # r
        BY <1>10, <4>1, <4>3 DEF IssueToken, TokenFits, RowOf, TypeOK,
           Handling, TokenRow, Token, tabVars, callVars
      <4> QED
        BY <4>2, <4>3
    <3>2. tokens'[First].status # "absent"
      BY <1>10 DEF IssueToken, Present, TokenFits, TypeOK, TokenRow, Token,
         tabVars, callVars
    <3> QED
      BY <3>1, <3>2 DEF Present
  <2> QED
    BY <2>1, <2>2
<1>11. ASSUME NEW r \in Req, RevokeTokens(r) PROVE SessionInv'
  <2> DEFINE S == IF pc[r] = "revoke one" THEN {given[r]} ELSE Token
  <2>1. S \in SUBSET Token /\ tokens' = Revoked(S)
    BY <1>11 DEF RevokeTokens, Handling
  <2> HIDE DEF S
  <2>2. /\ tokens' \in [Token -> TokenRow]
        /\ \A k \in Token :
             /\ tokens'[k].status = "absent" <=> tokens[k].status = "absent"
             /\ tokens[k].status = "revoked" => tokens'[k].status = "revoked"
    BY <2>1, RevokedFacts
  <2>3. TypeOK' /\ Handling'
    BY <1>11, <2>2 DEF RevokeTokens, TypeOK, Handling, Answered, tabVars, callVars
  <2>4. Present'
    <3>1. ASSUME NEW x \in Req PROVE TokenFits(x)'
      <4>1. TokenFits(x) /\ TokenFits(r)
        BY DEF Present
      <4>2. CASE x = r
        BY <1>11, <4>1, <4>2, <2>2 DEF RevokeTokens, TokenFits, RowOf, TypeOK,
           Handling, TokenRow, Token, Answered, tabVars, callVars
      <4>3. CASE x # r
        BY <1>11, <4>1, <4>3, <2>2 DEF RevokeTokens, TokenFits, RowOf, TypeOK,
           Handling, TokenRow, Token, tabVars, callVars
      <4> QED
        BY <4>2, <4>3
    <3>2. tokens'[First].status # "absent"
      BY <1>11, <2>2 DEF RevokeTokens, Present, TokenFits, TypeOK, TokenRow, Token,
         tabVars, callVars
    <3> QED
      BY <3>1, <3>2 DEF Present
  <2> QED
    BY <2>3, <2>4
<1>12. ASSUME NEW r \in Req, Fail(r) PROVE SessionInv'
  <2>1. TypeOK' /\ Handling'
    BY <1>12 DEF Fail, TypeOK, Handling, TokenRow, Token, Session, NoSession, Answered,
       RowOf, tabVars, callVars
  <2>2. Present'
    <3>1. ASSUME NEW x \in Req PROVE TokenFits(x)'
      <4>1. TokenFits(x) /\ TokenFits(r)
        BY DEF Present
      <4>2. CASE x = r
        BY <1>12, <4>1, <4>2 DEF Fail, TokenFits, RowOf, TypeOK,
           Handling, TokenRow, Token, Answered, tabVars, callVars
      <4>3. CASE x # r
        BY <1>12, <4>1, <4>3 DEF Fail, TokenFits, RowOf, TypeOK,
           Handling, TokenRow, Token, tabVars, callVars
      <4> QED
        BY <4>2, <4>3
    <3>2. tokens'[First].status # "absent"
      BY <1>12 DEF Fail, Present, TokenFits, TypeOK, TokenRow, Token,
         tabVars, callVars
    <3> QED
      BY <3>1, <3>2 DEF Present
  <2> QED
    BY <2>1, <2>2
<1>13. ASSUME NEW r \in Req, StoreTokens(r) PROVE SessionInv'
  <2>1. TypeOK' /\ Handling'
    BY <1>13 DEF StoreTokens, Done, TypeOK, Handling, TokenRow, Token, Session, NoSession, Answered,
       RowOf, tabVars, callVars
  <2>2. Present'
    <3>1. ASSUME NEW x \in Req PROVE TokenFits(x)'
      <4>1. TokenFits(x) /\ TokenFits(r)
        BY DEF Present
      <4>2. CASE x = r
        BY <1>13, <4>1, <4>2 DEF StoreTokens, Done, TokenFits, RowOf, TypeOK,
           Handling, TokenRow, Token, Answered, tabVars, callVars
      <4>3. CASE x # r
        BY <1>13, <4>1, <4>3 DEF StoreTokens, Done, TokenFits, RowOf, TypeOK,
           Handling, TokenRow, Token, tabVars, callVars
      <4> QED
        BY <4>2, <4>3
    <3>2. tokens'[First].status # "absent"
      BY <1>13 DEF StoreTokens, Done, Present, TokenFits, TypeOK, TokenRow, Token,
         tabVars, callVars
    <3> QED
      BY <3>1, <3>2 DEF Present
  <2> QED
    BY <2>1, <2>2
<1>14. ASSUME NEW r \in Req, RefreshFailed(r) PROVE SessionInv'
  <2>1. TypeOK' /\ Handling'
    BY <1>14 DEF RefreshFailed, Done, TypeOK, Handling, TokenRow, Token, Session, NoSession, Answered,
       RowOf, tabVars, callVars
  <2>2. Present'
    <3>1. ASSUME NEW x \in Req PROVE TokenFits(x)'
      <4>1. TokenFits(x) /\ TokenFits(r)
        BY DEF Present
      <4>2. CASE x = r
        BY <1>14, <4>1, <4>2 DEF RefreshFailed, Done, TokenFits, RowOf, TypeOK,
           Handling, TokenRow, Token, Answered, tabVars, callVars
      <4>3. CASE x # r
        BY <1>14, <4>1, <4>3 DEF RefreshFailed, Done, TokenFits, RowOf, TypeOK,
           Handling, TokenRow, Token, tabVars, callVars
      <4> QED
        BY <4>2, <4>3
    <3>2. tokens'[First].status # "absent"
      BY <1>14 DEF RefreshFailed, Done, Present, TokenFits, TypeOK, TokenRow, Token,
         tabVars, callVars
    <3> QED
      BY <3>1, <3>2 DEF Present
  <2> QED
    BY <2>1, <2>2
<1>15. ASSUME NEW r \in Req, LoginFailed(r) PROVE SessionInv'
  <2>1. TypeOK' /\ Handling'
    BY <1>15 DEF LoginFailed, Done, TypeOK, Handling, TokenRow, Token, Session, NoSession, Answered,
       RowOf, tabVars, callVars
  <2>2. Present'
    <3>1. ASSUME NEW x \in Req PROVE TokenFits(x)'
      <4>1. TokenFits(x) /\ TokenFits(r)
        BY DEF Present
      <4>2. CASE x = r
        BY <1>15, <4>1, <4>2 DEF LoginFailed, Done, TokenFits, RowOf, TypeOK,
           Handling, TokenRow, Token, Answered, tabVars, callVars
      <4>3. CASE x # r
        BY <1>15, <4>1, <4>3 DEF LoginFailed, Done, TokenFits, RowOf, TypeOK,
           Handling, TokenRow, Token, tabVars, callVars
      <4> QED
        BY <4>2, <4>3
    <3>2. tokens'[First].status # "absent"
      BY <1>15 DEF LoginFailed, Done, Present, TokenFits, TypeOK, TokenRow, Token,
         tabVars, callVars
    <3> QED
      BY <3>1, <3>2 DEF Present
  <2> QED
    BY <2>1, <2>2
<1>16. ASSUME NEW r \in Req, LoggedOut(r) PROVE SessionInv'
  <2>1. TypeOK' /\ Handling'
    BY <1>16 DEF LoggedOut, Done, TypeOK, Handling, TokenRow, Token, Session, NoSession, Answered,
       RowOf, tabVars, callVars
  <2>2. Present'
    <3>1. ASSUME NEW x \in Req PROVE TokenFits(x)'
      <4>1. TokenFits(x) /\ TokenFits(r)
        BY DEF Present
      <4>2. CASE x = r
        BY <1>16, <4>1, <4>2 DEF LoggedOut, Done, TokenFits, RowOf, TypeOK,
           Handling, TokenRow, Token, Answered, tabVars, callVars
      <4>3. CASE x # r
        BY <1>16, <4>1, <4>3 DEF LoggedOut, Done, TokenFits, RowOf, TypeOK,
           Handling, TokenRow, Token, tabVars, callVars
      <4> QED
        BY <4>2, <4>3
    <3>2. tokens'[First].status # "absent"
      BY <1>16 DEF LoggedOut, Done, Present, TokenFits, TypeOK, TokenRow, Token,
         tabVars, callVars
    <3> QED
      BY <3>1, <3>2 DEF Present
  <2> QED
    BY <2>1, <2>2
<1>17. ASSUME NEW k \in Token, Expire(k) PROVE SessionInv'
  <2>1. TypeOK' /\ Handling'
    BY <1>17 DEF Expire, TypeOK, Handling, TokenRow, Token, Session, NoSession, Answered,
       RowOf, tabVars, callVars
  <2>2. Present'
    <3>1. ASSUME NEW x \in Req PROVE TokenFits(x)'
      <4>1. TokenFits(x)
        BY DEF Present
      <4> QED
        BY <1>17, <4>1 DEF Expire, TokenFits, RowOf, TypeOK,
           Handling, TokenRow, Token, Answered, tabVars, callVars
    <3>2. tokens'[First].status # "absent"
      BY <1>17 DEF Expire, Present, TokenFits, TypeOK, TokenRow, Token,
         tabVars, callVars
    <3> QED
      BY <3>1, <3>2 DEF Present
  <2> QED
    BY <2>1, <2>2
<1>18. ASSUME NEW t \in Tab, ProfileFailed(t) PROVE SessionInv'
  <2>1. TypeOK' /\ Handling'
    BY <1>18 DEF ProfileFailed, TypeOK, Handling, TokenRow, Token, Session, NoSession, Answered,
       RowOf, tabVars, callVars
  <2>2. Present'
    <3>1. ASSUME NEW x \in Req PROVE TokenFits(x)'
      <4>1. TokenFits(x)
        BY DEF Present
      <4> QED
        BY <1>18, <4>1 DEF ProfileFailed, TokenFits, RowOf, TypeOK,
           Handling, TokenRow, Token, Answered, tabVars, callVars
    <3>2. tokens'[First].status # "absent"
      BY <1>18 DEF ProfileFailed, Present, TokenFits, TypeOK, TokenRow, Token,
         tabVars, callVars
    <3> QED
      BY <3>1, <3>2 DEF Present
  <2> QED
    BY <2>1, <2>2
<1>19. ASSUME NEW t \in Tab, Reload(t) PROVE SessionInv'
  <2>1. TypeOK' /\ Handling'
    BY <1>19 DEF Reload, TypeOK, Handling, TokenRow, Token, Session, NoSession, Answered,
       RowOf, tabVars, callVars
  <2>2. Present'
    <3>1. ASSUME NEW x \in Req PROVE TokenFits(x)'
      <4>1. TokenFits(x)
        BY DEF Present
      <4> QED
        BY <1>19, <4>1 DEF Reload, TokenFits, RowOf, TypeOK,
           Handling, TokenRow, Token, Answered, tabVars, callVars
    <3>2. tokens'[First].status # "absent"
      BY <1>19 DEF Reload, Present, TokenFits, TypeOK, TokenRow, Token,
         tabVars, callVars
    <3> QED
      BY <3>1, <3>2 DEF Present
  <2> QED
    BY <2>1, <2>2
<1>20. CASE UNCHANGED vars
  BY <1>20 DEF vars, TypeOK, Handling, Present, TokenFits, RowOf
<1> QED
  BY <1>1, <1>2, <1>3, <1>4, <1>5, <1>6, <1>7, <1>8, <1>9, <1>10, <1>11, <1>12, <1>13, <1>14, <1>15, <1>16, <1>17, <1>18, <1>19, <1>20 DEF Next, Start, Serve, Receive

\* A row, a token and the browser's store keep their types under every
\* interleaving of tabs, handlers, failures and expiry (token.service.ts:41-150,
\* api.ts:9-103).
THEOREM TypeCorrect == Spec => []TypeOK
<1>1. SessionInv => TypeOK
  BY DEF SessionInv
<1> QED
  BY <1>1, InitSession, StepSession, PTL DEF Spec

\* No answer to a refresh leaves the token it was given usable, whatever runs
\* beside it (token.service.ts:115-131).
THEOREM ReplacedTokenIsRevoked == Spec => []ReplacedIsRevoked
<1>1. SessionInv => ReplacedIsRevoked
  BY DEF SessionInv, Present, TokenFits, ReplacedIsRevoked
<1> QED
  BY <1>1, InitSession, StepSession, PTL DEF Spec

-----------------------------------------------------------------------------
(* A user who works in one tab.                                            *)

\* An undisturbed user was so before: nothing is undone.
LEMMA StillUndisturbed == SessionInv /\ [Next]_vars /\ Undisturbed' => Undisturbed
<1> SUFFICES ASSUME SessionInv, [Next]_vars, Undisturbed' PROVE Undisturbed
  OBVIOUS
<1>1. open' = open
  BY DEF Next, Start, Serve, Receive, vars, tabVars, Done, Send, StartRefresh, StartLogout,
     StartLogin, StartPassword, FindToken, RevokeFamily, CreateToken, ReplaceToken, SignAccess,
     IssueToken, RevokeTokens, Fail, Expire, StoreTokens, RefreshFailed, LoginFailed,
     LoggedOut, ProfileFailed, Reload
<1>2. ASSUME NEW x \in Req PROVE op[x] \notin {"logout", "password"} /\ waiter[x] # Gone
  <2>1. op'[x] \notin {"logout", "password"} /\ waiter'[x] # Gone
    BY DEF Undisturbed
  <2>2. ASSUME NEW r \in Req, Start(r) PROVE op[x] \notin {"logout", "password"} /\ waiter[x] # Gone
    <3>1. pc[r] = "idle" /\ (x # r => op'[x] = op[x] /\ waiter'[x] = waiter[x])
      BY <2>2 DEF Start, StartRefresh, StartLogout, StartLogin, StartPassword, Send, SessionInv,
                  TypeOK
    <3>2. x = r => op[x] = "none" /\ waiter[x] = Nobody
      BY <3>1 DEF SessionInv, Handling
    <3> QED
      BY <2>1, <3>1, <3>2, SessionAssumption
  <2>3. ASSUME NEW r \in Req, Serve(r) PROVE op' = op /\ waiter' = waiter
    BY <2>3 DEF Serve, FindToken, RevokeFamily, CreateToken, ReplaceToken, SignAccess,
                IssueToken, RevokeTokens, Fail, tabVars, callVars
  <2>4. ASSUME NEW r \in Req, Receive(r) PROVE op' = op /\ (waiter[x] = Gone => waiter'[x] = Gone)
    BY <2>4, SessionAssumption DEF Receive, StoreTokens, RefreshFailed, LoginFailed, LoggedOut,
                Done, callVars, SessionInv, TypeOK
  <2>5. ASSUME NEW k \in Token, Expire(k) PROVE op' = op /\ waiter' = waiter
    BY <2>5 DEF Expire, tabVars, callVars
  <2>6. ASSUME NEW t \in Tab, ProfileFailed(t) \/ Reload(t)
        PROVE  op' = op /\ (waiter[x] = Gone => waiter'[x] = Gone)
    BY <2>6, SessionAssumption DEF ProfileFailed, Reload, callVars, SessionInv, TypeOK
  <2>7. CASE UNCHANGED vars
    BY <2>1, <2>7 DEF vars
  <2> QED
    BY <2>1, <2>2, <2>3, <2>4, <2>5, <2>6, <2>7 DEF Next
<1> QED
  BY <1>1, <1>2 DEF Undisturbed

\* At first no token is revoked and none has been presented.
LEMMA InitHonest == Init => HonestInv
<1> SUFFICES ASSUME Init PROVE Honest
  BY DEF HonestInv
<1>1. \A k \in Token : tokens[k].status # "revoked"
  BY DEF Init, NoToken
<1>2. store.refresh = First
  BY DEF Init
<1>3. \A r \in Req : op[r] = "none" /\ pc[r] = "idle"
  BY DEF Init
<1> QED
  BY <1>1, <1>2, <1>3, SessionAssumption
     DEF Honest, PresentedOnce, StoredAwaited, KnownDelivered, RevokedRotated, NoAlarm, Presents

\* No token is revoked, and no rotation undone.
LEMMA RotatedStays ==
  ASSUME RevokedRotated,
         \A k \in Token : tokens'[k].status = "revoked" => tokens[k].status = "revoked",
         \A r \in Req : op[r] = "refresh" /\ pc[r] \in {"sign", "ok", "failed"} =>
           op'[r] = op[r] /\ given'[r] = given[r] /\ pc'[r] \in {"sign", "ok", "failed"}
  PROVE  RevokedRotated'
<1> SUFFICES ASSUME NEW k \in Token, tokens'[k].status = "revoked"
             PROVE  \E r \in Req : op'[r] = "refresh" /\ given'[r] = k
                                   /\ pc'[r] \in {"sign", "ok", "failed"}
  BY DEF RevokedRotated, Presents
<1>1. PICK r \in Req : op[r] = "refresh" /\ given[r] = k /\ pc[r] \in {"sign", "ok", "failed"}
  BY DEF RevokedRotated, Presents
<1> QED
  BY <1>1

\* Every step leaves an undisturbed user's tokens with that history.
LEMMA StepHonest == SessionInv /\ HonestInv /\ [Next]_vars => HonestInv'
<1> SUFFICES ASSUME SessionInv, HonestInv, [Next]_vars, Undisturbed' PROVE Honest'
  BY DEF HonestInv
<1>0. TypeOK /\ Handling /\ Present /\ Undisturbed /\ Honest
  BY StillUndisturbed DEF SessionInv, HonestInv
<1> USE SessionAssumption, <1>0
<1>1. ASSUME NEW r \in Req, NEW t \in Tab, StartRefresh(r, t) PROVE Honest'
  <2>1. PresentedOnce'
    <3>1. \A x \in Req : ~Presents(x, store.refresh)
      BY <1>1 DEF StartRefresh, Refreshing, Honest, StoredAwaited, Undisturbed, Presents
    <3>2. /\ op' = [op EXCEPT ![r] = "refresh"]
          /\ given' = [given EXCEPT ![r] = store.refresh]
      BY <1>1 DEF StartRefresh, Send
    <3>3. ASSUME NEW x \in Req, NEW y \in Req,
                 op'[x] = "refresh", op'[y] = "refresh", given'[x] = given'[y]
          PROVE  x = y
      <4>1. CASE x # r /\ y # r
        BY <3>2, <3>3, <4>1 DEF Honest, PresentedOnce, TypeOK
      <4>2. CASE x = r /\ y # r
        BY <3>1, <3>2, <3>3, <4>2 DEF Presents, TypeOK
      <4>3. CASE x # r /\ y = r
        BY <3>1, <3>2, <3>3, <4>3 DEF Presents, TypeOK
      <4> QED
        BY <4>1, <4>2, <4>3
    <3> QED
      BY <3>3 DEF PresentedOnce
  <2>2. StoredAwaited'
    BY <1>1 DEF StartRefresh, Send, Refreshing, StoredAwaited, KnownDelivered, Delivered,
       Presents, Token, Honest, TypeOK, Handling, tabVars, callVars
  <2>3. KnownDelivered'
    BY <1>1 DEF StartRefresh, Send, Refreshing, KnownDelivered, Delivered, Presents,
       Answered, Honest, TypeOK, Handling, tabVars, callVars
  <2>4. RevokedRotated'
    <3>1. \A k \in Token : tokens'[k].status = "revoked" => tokens[k].status = "revoked"
      BY <1>1 DEF StartRefresh, Send, Refreshing, TypeOK, TokenRow, tabVars, callVars
    <3>2. \A x \in Req : op[x] = "refresh" /\ pc[x] \in {"sign", "ok", "failed"} =>
            op'[x] = op[x] /\ given'[x] = given[x] /\ pc'[x] \in {"sign", "ok", "failed"}
      BY <1>1 DEF StartRefresh, Send, Refreshing, TypeOK, Handling, Answered, tabVars,
         callVars
    <3> QED
      BY <3>1, <3>2, RotatedStays DEF Honest
  <2>5. NoAlarm'
    BY <1>1 DEF StartRefresh, Send, Refreshing, NoAlarm, RowOf, Honest, TypeOK, Handling,
       tabVars, callVars
  <2> QED
    BY <2>1, <2>2, <2>3, <2>4, <2>5 DEF Honest
<1>2. ASSUME NEW r \in Req, NEW t \in Tab, NEW c \in Company, StartLogin(r, t, c) PROVE Honest'
  <2>1. PresentedOnce'
    BY <1>2 DEF StartLogin, Send, PresentedOnce, StoredAwaited, KnownDelivered, Presents,
       Undisturbed, Honest, TypeOK, Handling, tabVars, callVars
  <2>2. StoredAwaited'
    BY <1>2 DEF StartLogin, Send, StoredAwaited, KnownDelivered, Delivered, Presents, Token,
       Honest, TypeOK, Handling, tabVars, callVars
  <2>3. KnownDelivered'
    BY <1>2 DEF StartLogin, Send, KnownDelivered, Delivered, Presents, Answered, Honest,
       TypeOK, Handling, tabVars, callVars
  <2>4. RevokedRotated'
    <3>1. \A k \in Token : tokens'[k].status = "revoked" => tokens[k].status = "revoked"
      BY <1>2 DEF StartLogin, Send, TypeOK, TokenRow, tabVars, callVars
    <3>2. \A x \in Req : op[x] = "refresh" /\ pc[x] \in {"sign", "ok", "failed"} =>
            op'[x] = op[x] /\ given'[x] = given[x] /\ pc'[x] \in {"sign", "ok", "failed"}
      BY <1>2 DEF StartLogin, Send, TypeOK, Handling, Answered, tabVars, callVars
    <3> QED
      BY <3>1, <3>2, RotatedStays DEF Honest
  <2>5. NoAlarm'
    BY <1>2 DEF StartLogin, Send, NoAlarm, RowOf, Honest, TypeOK, Handling, tabVars,
       callVars
  <2> QED
    BY <2>1, <2>2, <2>3, <2>4, <2>5 DEF Honest
<1>3. ASSUME NEW r \in Req, NEW t \in Tab, StartLogout(r, t) PROVE Honest'
  BY <1>3 DEF StartLogout, Send, Undisturbed, TypeOK, Handling
<1>4. ASSUME NEW r \in Req, StartPassword(r) PROVE Honest'
  BY <1>4 DEF StartPassword, Send, Undisturbed, TypeOK, Handling
<1>5. ASSUME NEW r \in Req, FindToken(r) PROVE Honest'
  <2>0. RowOf(r).status # "revoked"
    <3> SUFFICES ASSUME tokens[given[r]].status = "revoked" PROVE FALSE
      BY DEF RowOf
    <3>1. op[r] = "refresh" /\ given[r] \in Token /\ pc[r] = "find"
      BY <1>5 DEF FindToken, Handling
    <3>2. PICK y \in Req : Presents(y, given[r]) /\ pc[y] \in {"sign", "ok", "failed"}
      BY <3>1 DEF Honest, RevokedRotated
    <3> QED
      BY <3>1, <3>2 DEF Honest, PresentedOnce, Presents
  <2>1. PresentedOnce'
    BY <1>5, <2>0 DEF FindToken, RowOf, PresentedOnce, StoredAwaited, KnownDelivered,
       Presents, Undisturbed, Honest, TypeOK, Handling, tabVars, callVars
  <2>2. StoredAwaited'
    BY <1>5, <2>0 DEF FindToken, RowOf, StoredAwaited, KnownDelivered, Delivered, Presents,
       Token, Honest, TypeOK, Handling, tabVars, callVars
  <2>3. KnownDelivered'
    BY <1>5, <2>0 DEF FindToken, RowOf, KnownDelivered, Delivered, Presents, Answered,
       Honest, TypeOK, Handling, tabVars, callVars
  <2>4. RevokedRotated'
    <3>1. \A k \in Token : tokens'[k].status = "revoked" => tokens[k].status = "revoked"
      BY <1>5, <2>0 DEF FindToken, RowOf, TypeOK, TokenRow, tabVars, callVars
    <3>2. \A x \in Req : op[x] = "refresh" /\ pc[x] \in {"sign", "ok", "failed"} =>
            op'[x] = op[x] /\ given'[x] = given[x] /\ pc'[x] \in {"sign", "ok", "failed"}
      BY <1>5, <2>0 DEF FindToken, RowOf, TypeOK, Handling, Answered, tabVars, callVars
    <3> QED
      BY <3>1, <3>2, RotatedStays DEF Honest
  <2>5. NoAlarm'
    BY <1>5, <2>0 DEF FindToken, RowOf, NoAlarm, Honest, TypeOK, Handling, tabVars, callVars
  <2> QED
    BY <2>1, <2>2, <2>3, <2>4, <2>5 DEF Honest
<1>6. ASSUME NEW r \in Req, RevokeFamily(r) PROVE Honest'
  BY <1>6 DEF RevokeFamily, Honest, NoAlarm
<1>7. ASSUME NEW r \in Req, CreateToken(r) PROVE Honest'
  <2>1. PresentedOnce'
    BY <1>7 DEF CreateToken, PresentedOnce, StoredAwaited, KnownDelivered, Presents,
       Undisturbed, Honest, TypeOK, Handling, tabVars, callVars
  <2>2. StoredAwaited'
    BY <1>7 DEF CreateToken, StoredAwaited, KnownDelivered, Delivered, Presents, Token,
       Honest, TypeOK, Handling, tabVars, callVars
  <2>3. KnownDelivered'
    BY <1>7 DEF CreateToken, KnownDelivered, Delivered, Presents, Answered, Honest, TypeOK,
       Handling, tabVars, callVars
  <2>4. RevokedRotated'
    <3>1. \A k \in Token : tokens'[k].status = "revoked" => tokens[k].status = "revoked"
      BY <1>7 DEF CreateToken, TypeOK, TokenRow, tabVars, callVars
    <3>2. \A x \in Req : op[x] = "refresh" /\ pc[x] \in {"sign", "ok", "failed"} =>
            op'[x] = op[x] /\ given'[x] = given[x] /\ pc'[x] \in {"sign", "ok", "failed"}
      BY <1>7 DEF CreateToken, TypeOK, Handling, Answered, tabVars, callVars
    <3> QED
      BY <3>1, <3>2, RotatedStays DEF Honest
  <2>5. NoAlarm'
    BY <1>7 DEF CreateToken, NoAlarm, RowOf, Honest, TypeOK, Handling, tabVars, callVars
  <2> QED
    BY <2>1, <2>2, <2>3, <2>4, <2>5 DEF Honest
<1>8. ASSUME NEW r \in Req, ReplaceToken(r) PROVE Honest'
  <2>1. PresentedOnce'
    BY <1>8 DEF ReplaceToken, PresentedOnce, StoredAwaited, KnownDelivered, Presents,
       Undisturbed, Honest, TypeOK, Handling, tabVars, callVars
  <2>2. StoredAwaited'
    BY <1>8 DEF ReplaceToken, StoredAwaited, KnownDelivered, Delivered, Presents, Token,
       Honest, TypeOK, Handling, tabVars, callVars
  <2>3. KnownDelivered'
    BY <1>8 DEF ReplaceToken, KnownDelivered, Delivered, Presents, Answered, Honest, TypeOK,
       Handling, tabVars, callVars
  <2>4. RevokedRotated'
    <3> SUFFICES ASSUME NEW k \in Token, tokens'[k].status = "revoked"
                 PROVE  \E x \in Req : op'[x] = "refresh" /\ given'[x] = k
                                       /\ pc'[x] \in {"sign", "ok", "failed"}
      BY DEF RevokedRotated, Presents
    <3>1. op' = op /\ given' = given /\ pc' = [pc EXCEPT ![r] = "sign"]
          /\ op[r] = "refresh" /\ given[r] \in Token /\ tokens' = Revoked({given[r]})
      BY <1>8 DEF ReplaceToken, Handling, callVars
    <3>2. CASE k = given[r]
      BY <3>1, <3>2 DEF TypeOK
    <3>3. CASE k # given[r]
      <4>1. tokens[k].status = "revoked"
        BY <3>1, <3>3, RevokedFacts
      <4>2. PICK x \in Req : op[x] = "refresh" /\ given[x] = k /\ pc[x] \in {"sign", "ok", "failed"}
        BY <4>1 DEF Honest, RevokedRotated, Presents
      <4> QED
        BY <3>1, <4>2 DEF TypeOK
    <3> QED
      BY <3>2, <3>3
  <2>5. NoAlarm'
    BY <1>8 DEF ReplaceToken, NoAlarm, RowOf, Honest, TypeOK, Handling, tabVars, callVars
  <2> QED
    BY <2>1, <2>2, <2>3, <2>4, <2>5 DEF Honest
<1>9. ASSUME NEW r \in Req, SignAccess(r) PROVE Honest'
  <2>1. PresentedOnce'
    BY <1>9 DEF SignAccess, PresentedOnce, StoredAwaited, KnownDelivered, Presents,
       Undisturbed, Honest, TypeOK, Handling, tabVars, callVars
  <2>2. StoredAwaited'
    BY <1>9 DEF SignAccess, StoredAwaited, KnownDelivered, Delivered, Presents, Token,
       Honest, TypeOK, Handling, tabVars, callVars
  <2>3. KnownDelivered'
    BY <1>9 DEF SignAccess, KnownDelivered, Delivered, Presents, Answered, Honest, TypeOK,
       Handling, tabVars, callVars
  <2>4. RevokedRotated'
    <3>1. \A k \in Token : tokens'[k].status = "revoked" => tokens[k].status = "revoked"
      BY <1>9 DEF SignAccess, TypeOK, TokenRow, tabVars, callVars
    <3>2. \A x \in Req : op[x] = "refresh" /\ pc[x] \in {"sign", "ok", "failed"} =>
            op'[x] = op[x] /\ given'[x] = given[x] /\ pc'[x] \in {"sign", "ok", "failed"}
      BY <1>9 DEF SignAccess, TypeOK, Handling, Answered, tabVars, callVars
    <3> QED
      BY <3>1, <3>2, RotatedStays DEF Honest
  <2>5. NoAlarm'
    BY <1>9 DEF SignAccess, NoAlarm, RowOf, Honest, TypeOK, Handling, tabVars, callVars
  <2> QED
    BY <2>1, <2>2, <2>3, <2>4, <2>5 DEF Honest
<1>10. ASSUME NEW r \in Req, IssueToken(r) PROVE Honest'
  <2>1. PresentedOnce'
    BY <1>10 DEF IssueToken, PresentedOnce, StoredAwaited, KnownDelivered, Presents,
       Undisturbed, Honest, TypeOK, Handling, tabVars, callVars
  <2>2. StoredAwaited'
    BY <1>10 DEF IssueToken, StoredAwaited, KnownDelivered, Delivered, Presents, Token,
       Honest, TypeOK, Handling, tabVars, callVars
  <2>3. KnownDelivered'
    BY <1>10 DEF IssueToken, KnownDelivered, Delivered, Presents, Answered, Honest, TypeOK,
       Handling, tabVars, callVars
  <2>4. RevokedRotated'
    <3>1. \A k \in Token : tokens'[k].status = "revoked" => tokens[k].status = "revoked"
      BY <1>10 DEF IssueToken, TypeOK, TokenRow, tabVars, callVars
    <3>2. \A x \in Req : op[x] = "refresh" /\ pc[x] \in {"sign", "ok", "failed"} =>
            op'[x] = op[x] /\ given'[x] = given[x] /\ pc'[x] \in {"sign", "ok", "failed"}
      BY <1>10 DEF IssueToken, TypeOK, Handling, Answered, tabVars, callVars
    <3> QED
      BY <3>1, <3>2, RotatedStays DEF Honest
  <2>5. NoAlarm'
    BY <1>10 DEF IssueToken, NoAlarm, RowOf, Honest, TypeOK, Handling, tabVars, callVars
  <2> QED
    BY <2>1, <2>2, <2>3, <2>4, <2>5 DEF Honest
<1>11. ASSUME NEW r \in Req, RevokeTokens(r) PROVE Honest'
  BY <1>11 DEF RevokeTokens, Undisturbed, Handling
<1>12. ASSUME NEW r \in Req, Fail(r) PROVE Honest'
  <2>1. PresentedOnce'
    BY <1>12 DEF Fail, PresentedOnce, StoredAwaited, KnownDelivered, Presents, Undisturbed,
       Honest, TypeOK, Handling, tabVars, callVars
  <2>2. StoredAwaited'
    BY <1>12 DEF Fail, StoredAwaited, KnownDelivered, Delivered, Presents, Token, Honest,
       TypeOK, Handling, tabVars, callVars
  <2>3. KnownDelivered'
    BY <1>12 DEF Fail, KnownDelivered, Delivered, Presents, Answered, Honest, TypeOK,
       Handling, tabVars, callVars
  <2>4. RevokedRotated'
    <3>1. \A k \in Token : tokens'[k].status = "revoked" => tokens[k].status = "revoked"
      BY <1>12 DEF Fail, TypeOK, TokenRow, tabVars, callVars
    <3>2. \A x \in Req : op[x] = "refresh" /\ pc[x] \in {"sign", "ok", "failed"} =>
            op'[x] = op[x] /\ given'[x] = given[x] /\ pc'[x] \in {"sign", "ok", "failed"}
      BY <1>12 DEF Fail, TypeOK, Handling, Answered, tabVars, callVars
    <3> QED
      BY <3>1, <3>2, RotatedStays DEF Honest
  <2>5. NoAlarm'
    BY <1>12 DEF Fail, NoAlarm, RowOf, Honest, TypeOK, Handling, tabVars, callVars
  <2> QED
    BY <2>1, <2>2, <2>3, <2>4, <2>5 DEF Honest
<1>13. ASSUME NEW r \in Req, StoreTokens(r) PROVE Honest'
  <2>0. store'.refresh = r
    BY <1>13 DEF StoreTokens, Done
  <2>1. PresentedOnce'
    BY <1>13, <2>0 DEF StoreTokens, Done, PresentedOnce, StoredAwaited, KnownDelivered,
       Presents, Undisturbed, Honest, TypeOK, Handling, tabVars, callVars
  <2>2. StoredAwaited'
    BY <1>13, <2>0 DEF StoreTokens, Done, StoredAwaited, KnownDelivered, Delivered,
       Presents, Token, Honest, TypeOK, Handling, tabVars, callVars
  <2>3. KnownDelivered'
    BY <1>13, <2>0 DEF StoreTokens, Done, KnownDelivered, Delivered, Presents, Answered,
       Honest, TypeOK, Handling, tabVars, callVars
  <2>4. RevokedRotated'
    <3>1. \A k \in Token : tokens'[k].status = "revoked" => tokens[k].status = "revoked"
      BY <1>13, <2>0 DEF StoreTokens, Done, TypeOK, TokenRow, tabVars, callVars
    <3>2. \A x \in Req : op[x] = "refresh" /\ pc[x] \in {"sign", "ok", "failed"} =>
            op'[x] = op[x] /\ given'[x] = given[x] /\ pc'[x] \in {"sign", "ok", "failed"}
      BY <1>13, <2>0 DEF StoreTokens, Done, TypeOK, Handling, Answered, tabVars, callVars
    <3> QED
      BY <3>1, <3>2, RotatedStays DEF Honest
  <2>5. NoAlarm'
    BY <1>13, <2>0 DEF StoreTokens, Done, NoAlarm, RowOf, Honest, TypeOK, Handling, tabVars,
       callVars
  <2> QED
    BY <2>1, <2>2, <2>3, <2>4, <2>5 DEF Honest
<1>14. ASSUME NEW r \in Req, RefreshFailed(r) PROVE Honest'
  <2>0. store'.refresh = Nobody
    BY <1>14 DEF RefreshFailed, Done, NoSession
  <2>1. PresentedOnce'
    BY <1>14, <2>0 DEF RefreshFailed, Done, NoSession, PresentedOnce, StoredAwaited,
       KnownDelivered, Presents, Undisturbed, Honest, TypeOK, Handling, tabVars, callVars
  <2>2. StoredAwaited'
    BY <1>14, <2>0 DEF RefreshFailed, Done, NoSession, StoredAwaited, KnownDelivered,
       Delivered, Presents, Token, Honest, TypeOK, Handling, tabVars, callVars
  <2>3. KnownDelivered'
    BY <1>14, <2>0 DEF RefreshFailed, Done, NoSession, KnownDelivered, Delivered, Presents,
       Answered, Honest, TypeOK, Handling, tabVars, callVars
  <2>4. RevokedRotated'
    <3>1. \A k \in Token : tokens'[k].status = "revoked" => tokens[k].status = "revoked"
      BY <1>14, <2>0 DEF RefreshFailed, Done, NoSession, TypeOK, TokenRow, tabVars, callVars
    <3>2. \A x \in Req : op[x] = "refresh" /\ pc[x] \in {"sign", "ok", "failed"} =>
            op'[x] = op[x] /\ given'[x] = given[x] /\ pc'[x] \in {"sign", "ok", "failed"}
      BY <1>14, <2>0 DEF RefreshFailed, Done, NoSession, TypeOK, Handling, Answered,
         tabVars, callVars
    <3> QED
      BY <3>1, <3>2, RotatedStays DEF Honest
  <2>5. NoAlarm'
    BY <1>14, <2>0 DEF RefreshFailed, Done, NoSession, NoAlarm, RowOf, Honest, TypeOK,
       Handling, tabVars, callVars
  <2> QED
    BY <2>1, <2>2, <2>3, <2>4, <2>5 DEF Honest
<1>15. ASSUME NEW r \in Req, LoginFailed(r) PROVE Honest'
  <2>1. PresentedOnce'
    BY <1>15 DEF LoginFailed, Done, PresentedOnce, StoredAwaited, KnownDelivered, Presents,
       Undisturbed, Honest, TypeOK, Handling, tabVars, callVars
  <2>2. StoredAwaited'
    BY <1>15 DEF LoginFailed, Done, StoredAwaited, KnownDelivered, Delivered, Presents,
       Token, Honest, TypeOK, Handling, tabVars, callVars
  <2>3. KnownDelivered'
    BY <1>15 DEF LoginFailed, Done, KnownDelivered, Delivered, Presents, Answered, Honest,
       TypeOK, Handling, tabVars, callVars
  <2>4. RevokedRotated'
    <3>1. \A k \in Token : tokens'[k].status = "revoked" => tokens[k].status = "revoked"
      BY <1>15 DEF LoginFailed, Done, TypeOK, TokenRow, tabVars, callVars
    <3>2. \A x \in Req : op[x] = "refresh" /\ pc[x] \in {"sign", "ok", "failed"} =>
            op'[x] = op[x] /\ given'[x] = given[x] /\ pc'[x] \in {"sign", "ok", "failed"}
      BY <1>15 DEF LoginFailed, Done, TypeOK, Handling, Answered, tabVars, callVars
    <3> QED
      BY <3>1, <3>2, RotatedStays DEF Honest
  <2>5. NoAlarm'
    BY <1>15 DEF LoginFailed, Done, NoAlarm, RowOf, Honest, TypeOK, Handling, tabVars,
       callVars
  <2> QED
    BY <2>1, <2>2, <2>3, <2>4, <2>5 DEF Honest
<1>16. ASSUME NEW r \in Req, LoggedOut(r) PROVE Honest'
  BY <1>16 DEF LoggedOut, Done, Undisturbed, Handling
<1>17. ASSUME NEW k \in Token, Expire(k) PROVE Honest'
  <2>1. PresentedOnce'
    BY <1>17 DEF Expire, PresentedOnce, StoredAwaited, KnownDelivered, Presents,
       Undisturbed, Honest, TypeOK, Handling, tabVars, callVars
  <2>2. StoredAwaited'
    BY <1>17 DEF Expire, StoredAwaited, KnownDelivered, Delivered, Presents, Token, Honest,
       TypeOK, Handling, tabVars, callVars
  <2>3. KnownDelivered'
    BY <1>17 DEF Expire, KnownDelivered, Delivered, Presents, Answered, Honest, TypeOK,
       Handling, tabVars, callVars
  <2>4. RevokedRotated'
    <3>1. \A j \in Token : tokens'[j].status = "revoked" => tokens[j].status = "revoked"
      <4>1. tokens' = [tokens EXCEPT ![k].status = "expired"]
        BY <1>17 DEF Expire
      <4>2. tokens[k] \in TokenRow
        BY DEF TypeOK
      <4>3. [tokens[k] EXCEPT !.status = "expired"].status = "expired"
        BY <4>2 DEF TokenRow
      <4>4. tokens'[k].status = "expired"
        BY <4>1, <4>3 DEF TypeOK
      <4>5. \A j \in Token : j # k => tokens'[j] = tokens[j]
        BY <4>1 DEF TypeOK
      <4> QED
        BY <4>4, <4>5
    <3>2. \A x \in Req : op[x] = "refresh" /\ pc[x] \in {"sign", "ok", "failed"} =>
            op'[x] = op[x] /\ given'[x] = given[x] /\ pc'[x] \in {"sign", "ok", "failed"}
      BY <1>17 DEF Expire, TypeOK, Handling, Answered, tabVars, callVars
    <3> QED
      BY <3>1, <3>2, RotatedStays DEF Honest
  <2>5. NoAlarm'
    BY <1>17 DEF Expire, NoAlarm, RowOf, Honest, TypeOK, Handling, tabVars, callVars
  <2> QED
    BY <2>1, <2>2, <2>3, <2>4, <2>5 DEF Honest
<1>18. ASSUME NEW t \in Tab, ProfileFailed(t) PROVE Honest'
  <2>0. store'.refresh = Nobody
    BY <1>18 DEF ProfileFailed, NoSession
  <2>1. PresentedOnce'
    BY <1>18, <2>0 DEF ProfileFailed, NoSession, PresentedOnce, StoredAwaited,
       KnownDelivered, Presents, Undisturbed, Honest, TypeOK, Handling, tabVars, callVars
  <2>2. StoredAwaited'
    <3>1. op' = op /\ given' = given
      BY <1>18 DEF ProfileFailed, callVars
    <3>2. \A r \in Req : op[r] = "refresh" => given[r] # Nobody
      BY DEF Handling, Token
    <3> QED
      BY <2>0, <3>1, <3>2 DEF StoredAwaited, Presents
  <2>3. KnownDelivered'
    BY <1>18, <2>0 DEF ProfileFailed, NoSession, KnownDelivered, Delivered, Presents,
       Answered, Honest, TypeOK, Handling, tabVars, callVars
  <2>4. RevokedRotated'
    <3>1. \A k \in Token : tokens'[k].status = "revoked" => tokens[k].status = "revoked"
      BY <1>18, <2>0 DEF ProfileFailed, NoSession, TypeOK, TokenRow, tabVars, callVars
    <3>2. \A x \in Req : op[x] = "refresh" /\ pc[x] \in {"sign", "ok", "failed"} =>
            op'[x] = op[x] /\ given'[x] = given[x] /\ pc'[x] \in {"sign", "ok", "failed"}
      BY <1>18, <2>0 DEF ProfileFailed, NoSession, TypeOK, Handling, Answered, tabVars,
         callVars
    <3> QED
      BY <3>1, <3>2, RotatedStays DEF Honest
  <2>5. NoAlarm'
    BY <1>18, <2>0 DEF ProfileFailed, NoSession, NoAlarm, RowOf, Honest, TypeOK, Handling,
       tabVars, callVars
  <2> QED
    BY <2>1, <2>2, <2>3, <2>4, <2>5 DEF Honest
<1>19. ASSUME NEW t \in Tab, Reload(t) PROVE Honest'
  BY <1>19 DEF Reload, Undisturbed, TypeOK, Handling
<1>20. CASE UNCHANGED vars
  <2>1. RevokedRotated'
    BY <1>20, RotatedStays DEF vars, Honest
  <2>2. PresentedOnce' /\ NoAlarm'
    BY <1>20 DEF vars, Honest, PresentedOnce, NoAlarm
  <2>3. StoredAwaited' /\ KnownDelivered'
    BY <1>20 DEF vars, Honest, StoredAwaited, KnownDelivered, Presents, Delivered
  <2> QED
    BY <2>1, <2>2, <2>3 DEF Honest
<1> QED
  BY <1>1, <1>2, <1>3, <1>4, <1>5, <1>6, <1>7, <1>8, <1>9, <1>10, <1>11, <1>12, <1>13, <1>14, <1>15, <1>16, <1>17, <1>18, <1>19, <1>20 DEF Next, Start, Serve, Receive

\* One tab, one refresh in flight, a store that is cleared when a refresh fails:
\* theft detection never fires on its own user, for any number of requests and any
\* placing of failures and lost answers (api.ts:71-101, token.service.ts:95-103).
THEOREM NoFalseTheft == Spec => []NoFalseAlarm
<1>1. HonestInv => NoFalseAlarm
  BY DEF HonestInv, Honest, NoAlarm, NoFalseAlarm
<1> QED
  BY <1>1, InitSession, StepSession, InitHonest, StepHonest, PTL DEF Spec

\* Nor is that user left with a dead token: the stored one can be used, or the tab
\* waits for its replacement (api.ts:71-101).
THEOREM StoredTokenIsUsable == Spec => []StoredIsUsable
<1>1. SessionInv /\ HonestInv => StoredIsUsable
  <2> SUFFICES ASSUME SessionInv, Undisturbed, Honest, store # NoSession,
                      tokens[store.refresh].status \notin {"live", "expired"}
               PROVE  \E r \in Req : /\ op[r] = "refresh" /\ given[r] = store.refresh
                                     /\ waiter[r] \in open
    BY DEF HonestInv, StoredIsUsable
  <2>1. store.refresh \in Token
    BY DEF SessionInv, TypeOK, Session
  <2>2. tokens[store.refresh].status # "absent"
    BY <2>1 DEF SessionInv, Present, TokenFits, Honest, KnownDelivered, Delivered, Token
  <2>3. tokens[store.refresh].status = "revoked"
    BY <2>1, <2>2 DEF SessionInv, TypeOK, TokenRow
  <2> QED
    BY <2>1, <2>3 DEF Honest, RevokedRotated, StoredAwaited, Presents
<1> QED
  BY <1>1, InitSession, StepSession, InitHonest, StepHonest, PTL DEF Spec
=============================================================================
