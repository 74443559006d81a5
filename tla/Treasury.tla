------------------------------ MODULE Treasury -------------------------------
(***************************************************************************)
(* Balances and statements: finance/accounts.service.ts, the statements of *)
(* customers and suppliers, and the cancelling of a sales invoice, which   *)
(* takes it out of the customer's statement.  A report looks the account   *)
(* up and then sums one table per statement; the statements form a batch,  *)
(* but at READ COMMITTED each sees what was committed before it.           *)
(*                                                                         *)
(* The documents are rows of MasterData; collections and payments here are *)
(* on account: those that pay an invoice are in Settlements.               *)
(***************************************************************************)
EXTENDS MasterData, FiniteSetsExt

VARIABLES
  voided,   \* the sales invoices that are cancelled
  reading,  \* per request: the statement a report is at
  sofar,    \* what it has added up
  before    \* history: the account's movements when it was looked up

treasuryVars == <<voided, reading, sofar, before>>

NotBegun == [opening |-> 0, up |-> 0, down |-> 0]

TreasuryInit ==
  /\ voided = {}
  /\ reading = [r \in Req |-> 0]
  /\ sofar = [r \in Req |-> 0]
  /\ before = [r \in Req |-> NotBegun]

-----------------------------------------------------------------------------
\* What each report sums, and with which sign.
\* Mutant: payments are added.
CashBalanceAdding ==
  <<[table |-> "collection", sign |-> 1], [table |-> "income", sign |-> 1],
    [table |-> "payment", sign |-> 1], [table |-> "expense", sign |-> 1]>>

CashBalance ==
  <<[table |-> "collection", sign |-> 1], [table |-> "income", sign |-> 1],
    [table |-> "payment", sign |-> -1], [table |-> "expense", sign |-> -1]>>

BankBalance == <<[table |-> "bank_transaction", sign |-> 1]>>

CustomerStatement ==
  <<[table |-> "sales_invoice", sign |-> 1], [table |-> "collection", sign |-> -1]>>

SupplierStatement ==
  <<[table |-> "purchase_invoice", sign |-> 1], [table |-> "payment", sign |-> -1]>>

Reports == [cash_account |-> CashBalance, bank_account |-> BankBalance,
            customer |-> CustomerStatement, supplier |-> SupplierStatement]

Opening(id) == IF id[1] \in {"cash_account", "bank_account"} THEN rows[id].value ELSE 0

Documents(on, id) == {x \in Peers(on) \ voided : id \in rows[x].links}

Worth(S) == MapThenSumSet(LAMBDA x : rows[x].value, S)

StartReport(r) ==
  \E id \in DOMAIN rows :
    /\ id[1] \in DOMAIN Reports /\ Routed(<<"report", id[1]>>)
    /\ Begin(r, <<"report", id[1]>>, "find account")
    /\ Asks(r, id, 0, {}, 0, "unsaid")
    /\ UNCHANGED treasuryVars

StartCancel(r) ==
  \E id \in Peers("sales_invoice") :
    /\ Routed(<<"cancel", "sales_invoice">>)
    /\ Begin(r, <<"cancel", "sales_invoice">>, "find invoice")
    /\ Asks(r, id, 0, {}, 0, "unsaid")
    /\ UNCHANGED treasuryVars

-----------------------------------------------------------------------------
(* History: all that has ever been added to and taken from an account.     *)

Concerns(x, id) ==
  /\ id \in rows[x].links
  /\ id[1] = "bank_account" => x[1] = "bank_transaction"

\* Money that leaves, and what a customer has paid of its debt.
Lessens(x, id) ==
  x[1] \in {"payment", "expense"} \/ (x[1] = "collection" /\ id[1] = "customer")

Effect(x, id) == IF Lessens(x, id) THEN -rows[x].value ELSE rows[x].value

Moves(id) == {x \in DOMAIN rows : Concerns(x, id)}

Up(id) == Worth({x \in Moves(id) : Effect(x, id) > 0})

Down(id) ==
  MapThenSumSet(LAMBDA x : -Effect(x, id), {x \in Moves(id) : Effect(x, id) < 0})
  + Worth(Moves(id) \cap voided)

-----------------------------------------------------------------------------
\* findFirst, and the opening balance of the row it finds.
FindAccount(r) ==
  /\ pc[r] = "find account"
  /\ IF Row(r) \in DOMAIN rows
       THEN /\ sofar' = [sofar EXCEPT ![r] = Opening(Row(r))]
            /\ before' = [before EXCEPT ![r] = [opening |-> Opening(Row(r)),
                                                up |-> Up(Row(r)), down |-> Down(Row(r))]]
            /\ reading' = [reading EXCEPT ![r] = 1]
            /\ Goto(r, "sum")
       ELSE Answer(r, FALSE) /\ UNCHANGED <<reading, sofar, before>>
  /\ UNCHANGED <<masterVars, voided>>

\* One aggregate of the batch.
SumNext(r) ==
  /\ pc[r] = "sum"
  /\ LET report == Reports[On(r)]
         s == report[reading[r]]
     IN /\ sofar' = [sofar EXCEPT ![r] = @ + s.sign * Worth(Documents(s.table, Row(r)))]
        /\ reading' = [reading EXCEPT ![r] = @ + 1]
        /\ Goto(r, IF reading[r] < Cardinality(DOMAIN report) THEN "sum" ELSE "ok")
  /\ UNCHANGED <<masterVars, voided, before>>

FindInvoice(r) ==
  /\ pc[r] = "find invoice"
  /\ IF Row(r) \in DOMAIN rows THEN Goto(r, "void") ELSE Answer(r, FALSE)
  /\ UNCHANGED <<masterVars, treasuryVars>>

CancelInvoice(r) ==
  /\ pc[r] = "void"
  /\ voided' = voided \cup {Row(r)}
  /\ Answer(r, TRUE)
  /\ UNCHANGED <<masterVars, reading, sofar, before>>

TreasuryStart(r) == Idle(r) /\ (StartReport(r) \/ StartCancel(r))

TreasuryWork(r) == FindAccount(r) \/ SumNext(r) \/ FindInvoice(r) \/ CancelInvoice(r)

-----------------------------------------------------------------------------
TreasuryTypeOK ==
  /\ voided \subseteq Ids
  /\ reading \in [Req -> 0 .. 5] /\ sofar \in [Req -> Int]
  /\ before \in [Req -> [opening : Int, up : Int, down : Int]]

\* A report that summed its tables at different moments answers no less than if only
\* what was taken meanwhile counted, and no more than if only what was added did.
ReportBounded ==
  \A r \in Req :
    Does(r, "report") /\ pc[r] = "ok" /\ On(r) \in DOMAIN Reports =>
      LET b == before[r]
      IN sofar[r] \in (b.opening + b.up - Down(Row(r))) .. (b.opening + Up(Row(r)) - b.down)
=============================================================================
