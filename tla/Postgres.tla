------------------------------ MODULE Postgres ------------------------------
(***************************************************************************)
(* What the API's request handlers rely on from PostgreSQL, reached        *)
(* through Prisma.  External code: modelled from how apps/api uses it.     *)
(*                                                                         *)
(* No call in apps/api chooses an isolation level, so every transaction    *)
(* runs at READ COMMITTED: a statement sees what was committed before it   *)
(* started, plus its own transaction's writes; a row written by an open    *)
(* transaction stays locked until that transaction ends, and every other   *)
(* writer of the row waits; plain reads never wait.                        *)
(*                                                                         *)
(* A table is a value [now, work, lock]: `now` the committed rows, `work`  *)
(* the rows as the transaction that locked them left them (equal to `now`  *)
(* where nobody did), `lock` the request whose transaction holds the row.  *)
(* A series is the part of a table that @@unique([companyId, number])      *)
(* makes visible to other transactions: how many rows are committed, and   *)
(* the open transaction, if any, that has inserted the next one.           *)
(***************************************************************************)
EXTENDS Integers

CONSTANTS Req,      \* the requests being handled
          Nobody    \* no request

ASSUME NobodyAssumption == Nobody \notin Req

Owner == Req \cup {Nobody}

-----------------------------------------------------------------------------
TableOf(K, V) == [now : [K -> V], work : [K -> V], lock : [K -> Owner]]

NewTable(rows) == [now  |-> rows,
                   work |-> rows,
                   lock |-> [k \in DOMAIN rows |-> Nobody]]

\* The rows a statement of request r sees.
Seen(t, r) == [k \in DOMAIN t.now |->
                 IF t.lock[k] = r THEN t.work[k] ELSE t.now[k]]

\* r can write row k without waiting.
Writable(t, r, k) == t.lock[k] \in {r, Nobody}

\* A write inside r's transaction.
Put(t, r, k, v) == [t EXCEPT !.work[k] = v, !.lock[k] = r]

\* A write outside any transaction commits by itself.
Save(t, k, v) == [t EXCEPT !.now[k] = v, !.work[k] = v]

Unlocked(t, r) == [k \in DOMAIN t.now |->
                     IF t.lock[k] = r THEN Nobody ELSE t.lock[k]]

Commit(t, r) == [now |-> Seen(t, r), work |-> t.work, lock |-> Unlocked(t, r)]

Rollback(t, r) ==
  [now  |-> t.now,
   work |-> [k \in DOMAIN t.now |->
               IF t.lock[k] = r THEN t.now[k] ELSE t.work[k]],
   lock |-> Unlocked(t, r)]

-----------------------------------------------------------------------------
Series == [rows : Nat, holder : Owner]

NewSeries == [rows |-> 0, holder |-> Nobody]

\* Inserting number n: it is taken once the n-th row is committed (P2002); a
\* transaction that inserted it and is still open makes every other one wait.
Taken(s, n) == n <= s.rows

Insertable(s, n) == n > s.rows /\ s.holder = Nobody

Insert(s, r) == [s EXCEPT !.holder = r]

CommitSeries(s, r) == IF s.holder = r
                        THEN [rows |-> s.rows + 1, holder |-> Nobody]
                        ELSE s

RollbackSeries(s, r) == IF s.holder = r THEN [s EXCEPT !.holder = Nobody] ELSE s
=============================================================================
