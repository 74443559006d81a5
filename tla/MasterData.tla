----------------------------- MODULE MasterData ------------------------------
(***************************************************************************)
(* The tables of the back office that are written a row at a time: parties, *)
(* products, warehouses, the lists the documents choose from, and those    *)
(* documents that are only recorded (expenses, collections, ...).  Their   *)
(* services have one shape (scripts/generate-crud.mjs writes it): create   *)
(* inserts, update and remove look the row up and then write it by id, in  *)
(* separate statements.  A service is told apart by where the row's code   *)
(* comes from, the rows it points to, and what the data base does to a     *)
(* link whose row is deleted.                                              *)
(*                                                                         *)
(* A row is named <<resource, n>>: n a number for the rows there were, the *)
(* creating request for the others.                                        *)
(***************************************************************************)
EXTENDS Requests

CONSTANTS Olds,    \* how many rows each resource has at first
          Codes,   \* the codes a client may type
          Amounts  \* the amounts a client may give

ASSUME MasterDataAssumption ==
  /\ Olds \in Nat /\ Codes \subseteq Nat \ {0} /\ Amounts \subseteq Nat \ {0}
  /\ Req \cap (1 .. Olds) = {}

\* code: "typed" by the client, "numbered" when the client types none, always
\* "counted", or "none".  links: the resources a row may point to; keeps: those it
\* must point to, which the data base then refuses to delete (the other links are
\* set to null).
Service(code, links, keeps) == [code |-> code, links |-> links \cup keeps, keeps |-> keeps]

\* The services of generate-crud.mjs.
BankService == Service("none", {}, {})
CostCenterService == Service("typed", {"cost_center"}, {})
DepartmentService == Service("typed", {"department"}, {})
ExpenseCategoryService == Service("typed", {"expense_category"}, {})
IncomeCategoryService == Service("typed", {}, {})
JobPositionService == Service("typed", {"department"}, {})
TaxRateService == Service("typed", {}, {})
UnitService == Service("typed", {}, {})

\* Those written by hand in the same shape.
BrandService == Service("typed", {}, {})
PaymentMethodService == Service("typed", {}, {})
CategoryService == Service("typed", {"category"}, {})
BranchService == Service("typed", {}, {})
WarehouseService == Service("typed", {"branch"}, {})
ProductService == Service("typed", {"category", "brand", "tax_rate"}, {"unit"})
CustomerService == Service("numbered", {"warehouse"}, {})
SupplierService == Service("numbered", {"warehouse"}, {})
EmployeeService == Service("numbered", {"branch", "department", "job_position"}, {})
ProjectService == Service("typed", {"customer", "branch"}, {})
AccountService == Service("typed", {"account"}, {})
CashAccountService == Service("none", {"branch"}, {})
BankAccountService == Service("none", {"branch"}, {"bank"})

\* Documents that are recorded and not changed.
BankTransactionService == Service("none", {}, {"bank_account"})
ExpenseService == Service("none", {"branch", "cost_center", "cash_account", "bank_account"},
                          {"expense_category"})
IncomeService == Service("none", {"branch", "cash_account", "bank_account"},
                         {"income_category"})
CollectionService == Service("none", {"cash_account", "bank_account"},
                             {"customer", "payment_method"})
PaymentService == Service("none", {"cash_account", "bank_account"},
                          {"supplier", "payment_method"})
SalesInvoiceService == Service("counted", {"branch"}, {"customer"})
PurchaseInvoiceService == Service("counted", {}, {"supplier"})
StockMovementService == Service("none", {}, {"product", "warehouse"})

Services ==
  [bank |-> BankService, brand |-> BrandService, cost_center |-> CostCenterService,
   department |-> DepartmentService, expense_category |-> ExpenseCategoryService,
   income_category |-> IncomeCategoryService, job_position |-> JobPositionService,
   payment_method |-> PaymentMethodService, tax_rate |-> TaxRateService,
   unit |-> UnitService, category |-> CategoryService, branch |-> BranchService,
   warehouse |-> WarehouseService, product |-> ProductService,
   customer |-> CustomerService, supplier |-> SupplierService,
   employee |-> EmployeeService, project |-> ProjectService,
   account |-> AccountService, cash_account |-> CashAccountService,
   bank_account |-> BankAccountService, bank_transaction |-> BankTransactionService,
   expense |-> ExpenseService, income |-> IncomeService,
   collection |-> CollectionService, payment |-> PaymentService,
   sales_invoice |-> SalesInvoiceService, purchase_invoice |-> PurchaseInvoiceService,
   stock_movement |-> StockMovementService]

Resources == DOMAIN Services
Ids == Resources \X ((1 .. Olds) \cup Req)

\* The services that look up what a new row must point to, before inserting it.
Careful == {"bank_account", "bank_transaction", "expense", "income", "collection",
            "payment", "sales_invoice", "purchase_invoice", "stock_movement"}

\* The amount of a row: what a document is about, the balance an account was opened
\* with, an employee's salary.  A bank transaction is incoming or outgoing.
Valued == {"cash_account", "bank_account", "expense", "income", "collection",
           "payment", "sales_invoice", "purchase_invoice", "employee"}

Values(on) == CASE on \in Valued            -> Amounts
                [] on = "bank_transaction" -> Amounts \cup {-a : a \in Amounts}
                [] OTHER                   -> {0}

RowType == [code : Nat, links : SUBSET Ids, value : Int]

\* What a client asks for: a code (0: none), links (at most one per resource), an
\* amount, and whether the branch is to be the main one.
Form == [id : Ids, code : Nat, number : Nat, links : SUBSET Ids, value : Int,
         main : {"unsaid", "yes", "no"}]

VARIABLES
  rows,     \* the tables: the rows there are, by name
  mains,    \* the branches whose isMain is set
  cited,    \* the rows that lines of journal entries point to
  form,     \* per request: the row it is about and what is asked
  left,     \* per request: the main branches updateMany has yet to reach
  held      \* per request: those its transaction has cleared, and locks

masterVars == <<rows, mains, cited, form, left, held>>

NoForm == [id |-> <<"none", 0>>, code |-> 0, number |-> 0, links |-> {}, value |-> 0,
           main |-> "unsaid"]

\* The tables that the requests may come to: those of the scene, and what their rows
\* must point to.
Present ==
  LET Kept(S) == S \cup UNION {Services[on].keeps : on \in S}
  IN Kept(Kept(Kept(Resources \cap About)))

OldRows == Present \X (1 .. Olds)

\* The rows there are were numbered one after the other and point to what they must.
OldRow(id) == [code  |-> IF Services[id[1]].code = "none" THEN 0 ELSE id[2],
               links |-> Services[id[1]].keeps \X {1},
               value |-> IF id[1] \in Valued \cup {"bank_transaction"} THEN 1 ELSE 0]

\* `cited` is the journal's: see BackOffice.
MasterInit ==
  /\ rows = [id \in OldRows |-> OldRow(id)]
  /\ mains = {id \in OldRows : id = <<"branch", 1>>}
  /\ form = [r \in Req |-> NoForm]
  /\ left = [r \in Req |-> {}]
  /\ held = [r \in Req |-> {}]

-----------------------------------------------------------------------------
Routed(o) == o \in scene.ops

Peers(on) == {id \in DOMAIN rows : id[1] = on}

\* The rows a client may point a new row to: of this scene, or such as it must.
Targets(on) == {id \in DOMAIN rows : id[1] \in (Services[on].links \cap About)
                                              \cup Services[on].keeps}

LinkChoices(on) ==
  {L \in SUBSET Targets(on) : \A x, y \in L : x[1] = y[1] => x = y}

Kept(on, L) == Services[on].keeps \subseteq {x[1] : x \in L}

Mains(on) == IF on = "branch" THEN {"unsaid", "yes", "no"} ELSE {"unsaid"}

TypedCodes(on) == CASE Services[on].code = "typed"    -> Codes
                    [] Services[on].code = "numbered" -> Codes \cup {0}
                    [] OTHER                          -> {0}

Asks(r, id, code, links, value, main) ==
  /\ form' = [form EXCEPT ![r] = [id |-> id, code |-> code, number |-> code,
                                  links |-> links, value |-> value, main |-> main]]
  /\ UNCHANGED <<rows, mains, cited, left, held>>

\* What comes before the insert: the number, or the other main branches.
NumberAt(on, code, main) ==
  CASE Services[on].code \in {"numbered", "counted"} /\ code = 0 -> "count"
    [] main = "yes"                                              -> "find mains"
    [] OTHER                                                     -> "insert"

StartCreate(r) ==
  \E on \in Resources \cap About, act \in {"create", "adjust"} :
    \E code \in TypedCodes(on), L \in LinkChoices(on), v \in Values(on), main \in Mains(on) :
      /\ Routed(<<act, on>>) /\ Kept(on, L)
      /\ Begin(r, <<act, on>>, IF on \in Careful THEN "find kept"
                                                ELSE NumberAt(on, code, main))
      /\ Asks(r, <<on, r>>, code, L, v, main)

\* Clients name rows they have seen.  updateEmployee leaves the number alone.
StartUpdate(r) ==
  \E on \in Resources \cap About :
    \E id \in Peers(on), code \in TypedCodes(on) \cup {0}, L \in LinkChoices(on),
       v \in Values(on), main \in Mains(on) :
      /\ Routed(<<"update", on>>) /\ (on = "employee" => code = 0)
      /\ Begin(r, <<"update", on>>, "find")
      /\ Asks(r, id, code, L, v, main)

\* findOne and remove.
StartOne(r) ==
  \E on \in Resources \cap About, act \in {"get", "remove"} :
    \E id \in Peers(on) :
      /\ Routed(<<act, on>>)
      /\ Begin(r, <<act, on>>, "find")
      /\ Asks(r, id, 0, {}, 0, "unsaid")

StartList(r) ==
  \E on \in Resources :
    /\ Routed(<<"list", on>>)
    /\ Begin(r, <<"list", on>>, "page")
    /\ UNCHANGED masterVars

MasterStart(r) ==
  /\ Idle(r)
  /\ StartCreate(r) \/ StartUpdate(r) \/ StartOne(r) \/ StartList(r)

-----------------------------------------------------------------------------
Row(r) == form[r].id

\* What the row must point to is there, and was given.
FindKept(r) ==
  /\ pc[r] = "find kept"
  /\ IF {x \in form[r].links : x[1] \in Services[On(r)].keeps} \subseteq DOMAIN rows
       THEN Goto(r, NumberAt(On(r), form[r].code, form[r].main))
       ELSE Answer(r, FALSE)
  /\ UNCHANGED masterVars

\* Mutant: the next number is the count itself.
CountRowsOnly(r) ==
  /\ pc[r] = "count"
  /\ form' = [form EXCEPT ![r].number = Cardinality(Peers(On(r)))]
  /\ Goto(r, "insert")
  /\ UNCHANGED <<rows, mains, cited, left, held>>

\* nextDocumentNumber: how many there are, and one.
CountRows(r) ==
  /\ pc[r] = "count"
  /\ form' = [form EXCEPT ![r].number = Cardinality(Peers(On(r))) + 1]
  /\ Goto(r, "insert")
  /\ UNCHANGED <<rows, mains, cited, left, held>>

CodeTaken(id, code) ==
  code # 0 /\ \E x \in Peers(id[1]) \ {id} : rows[x].code = code

\* A row that an open transaction has cleared makes other writers wait.
Free(r, id) == \A s \in Req \ {r} : id \notin held[s]

\* The main branches after r's transaction commits.
MainsAfter(r) ==
  CASE form[r].main = "yes"    -> (mains \ held[r]) \cup {Row(r)}
    [] form[r].main = "no"     -> mains \ {Row(r)}
    [] form[r].main = "unsaid" -> mains

\* A transaction that ends, either way.
Release(r) ==
  /\ held' = [held EXCEPT ![r] = {}]
  /\ left' = [left EXCEPT ![r] = {}]
  /\ UNCHANGED <<form, cited>>

\* The unique code, and the rows pointed to, are the data base's to refuse.
Acceptable(r) ==
  /\ ~CodeTaken(Row(r), form[r].number)
  /\ form[r].links \subseteq DOMAIN rows

InsertRow(r) ==
  /\ pc[r] = "insert"
  /\ IF Acceptable(r)
       THEN /\ rows' = [id \in DOMAIN rows \cup {Row(r)} |->
                          IF id = Row(r)
                            THEN [code |-> form[r].number, links |-> form[r].links,
                                  value |-> form[r].value]
                            ELSE rows[id]]
            /\ mains' = MainsAfter(r)
       ELSE UNCHANGED <<rows, mains>>
  /\ Answer(r, Acceptable(r)) /\ Release(r)

FindRow(r) ==
  /\ pc[r] = "find"
  /\ IF Row(r) \notin DOMAIN rows THEN Answer(r, FALSE)
     ELSE CASE Does(r, "get")                         -> Answer(r, TRUE)
            [] Does(r, "remove")                      -> Goto(r, "count movements")
            [] Does(r, "update") /\ form[r].main = "yes" -> Goto(r, "find mains")
            [] OTHER                                  -> Goto(r, "write")
  /\ UNCHANGED masterVars

\* findAll: the page, then the total.
ReadPage(r) == pc[r] = "page" /\ Goto(r, "total") /\ UNCHANGED masterVars
CountPage(r) == pc[r] = "total" /\ Answer(r, TRUE) /\ UNCHANGED masterVars

\* What the row becomes: what is not given stays.
Written(r) ==
  LET old == rows[Row(r)]
      given == {x[1] : x \in form[r].links}
  IN [code  |-> IF form[r].code = 0 THEN old.code ELSE form[r].code,
      links |-> form[r].links \cup {x \in old.links : x[1] \notin given},
      value |-> form[r].value]

UpdateRow(r) ==
  /\ pc[r] = "write" /\ Free(r, Row(r))
  /\ LET fine == Row(r) \in DOMAIN rows /\ Acceptable(r)
     IN /\ IF fine THEN /\ rows' = [rows EXCEPT ![Row(r)] = Written(r)]
                       /\ mains' = MainsAfter(r)
                  ELSE UNCHANGED <<rows, mains>>
        /\ Answer(r, fine)
  /\ Release(r)

-----------------------------------------------------------------------------
(* A branch that is to be the main one: updateMany clears the others, a     *)
(* row at a time, and waits for the rows that another transaction holds.    *)

\* Mutant: NOT { id } the wrong way round.
OtherMainsOwn(r) == mains \cap {Row(r)}

OtherMains(r) == mains \ {Row(r)}

FindMains(r) ==
  /\ pc[r] = "find mains"
  /\ left' = [left EXCEPT ![r] = OtherMains(r)]
  /\ Goto(r, "clear")
  /\ UNCHANGED <<rows, mains, cited, form, held>>

\* A row that was waited for is looked at again.
ClearMain(r) ==
  /\ pc[r] = "clear"
  /\ \E id \in left[r] :
       /\ Free(r, id)
       /\ left' = [left EXCEPT ![r] = @ \ {id}]
       /\ held' = [held EXCEPT ![r] = @ \cup ({id} \cap mains)]
  /\ UNCHANGED <<requestVars, rows, mains, cited, form>>

MainsCleared(r) ==
  /\ pc[r] = "clear" /\ left[r] = {}
  /\ Goto(r, IF Does(r, "create") THEN "insert" ELSE "write")
  /\ UNCHANGED masterVars

-----------------------------------------------------------------------------
\* A product with movements is not deleted; the other services do not look.
CountMovements(r) ==
  /\ pc[r] = "count movements"
  /\ IF On(r) = "product" /\ \E x \in Peers("stock_movement") : Row(r) \in rows[x].links
       THEN Answer(r, FALSE)
       ELSE Goto(r, "delete")
  /\ UNCHANGED masterVars

\* Something must keep pointing to the row.
Needed(id) ==
  \/ id \in cited
  \/ \E x \in DOMAIN rows : id \in rows[x].links /\ id[1] \in Services[x[1]].keeps

Delete(r) ==
  /\ rows' = [id \in DOMAIN rows \ {Row(r)} |-> [rows[id] EXCEPT !.links = @ \ {Row(r)}]]
  /\ mains' = mains \ {Row(r)}
  /\ Answer(r, TRUE)

\* Mutant: a link that must stay is set to null like the others.
DeleteRowAnyway(r) ==
  /\ pc[r] = "delete" /\ Free(r, Row(r))
  /\ IF Row(r) \in DOMAIN rows THEN Delete(r)
       ELSE Answer(r, FALSE) /\ UNCHANGED <<rows, mains>>
  /\ UNCHANGED <<cited, form, left, held>>

\* The delete by id: a row that is gone, or needed, is an error; the other links to
\* it become null.
DeleteRow(r) ==
  /\ pc[r] = "delete" /\ Free(r, Row(r))
  /\ IF Row(r) \in DOMAIN rows /\ ~Needed(Row(r)) THEN Delete(r)
       ELSE Answer(r, FALSE) /\ UNCHANGED <<rows, mains>>
  /\ UNCHANGED <<cited, form, left, held>>

-----------------------------------------------------------------------------
MasterWork(r) ==
  /\ On(r) \in Resources
  /\ \/ FindKept(r) \/ CountRows(r) \/ InsertRow(r) \/ FindRow(r) \/ UpdateRow(r)
     \/ ReadPage(r) \/ CountPage(r) \/ CountMovements(r) \/ DeleteRow(r)
     \/ FindMains(r) \/ ClearMain(r) \/ MainsCleared(r)

\* A transaction that is cut off is rolled back.
MasterDrop(r) == Release(r) /\ UNCHANGED <<rows, mains>>

-----------------------------------------------------------------------------
MasterTypeOK ==
  /\ DOMAIN rows \subseteq Ids
  /\ \A id \in DOMAIN rows : rows[id] \in RowType
  /\ mains \subseteq DOMAIN rows /\ cited \subseteq Ids
  /\ form \in [Req -> Form \cup {NoForm}]
  /\ left \in [Req -> SUBSET Ids] /\ held \in [Req -> SUBSET Ids]

\* What a row or a journal line points to is there, whatever is removed meanwhile.
ReferencesResolve ==
  \A id \in cited \cup UNION {rows[x].links : x \in DOMAIN rows} : id \in DOMAIN rows

\* A create that leaves the number to the API succeeds, unless rows were removed,
\* codes typed, or another writer overlapped: the count is then not the last number.
Disturbs(s, r) ==
  \/ Does(s, "remove") /\ pc[s] = "ok"
  \/ form[s].code # 0
  \/ Met(r, s)

AutoCodeAccepted ==
  \A r \in Req :
    (/\ On(r) \in Resources /\ pc[r] = "refused" /\ Row(r) = <<On(r), r>>
     /\ form[r].code = 0 /\ form[r].number # 0)
    => \/ \E s \in Req \ {r} : On(s) = On(r) /\ Disturbs(s, r)
       \/ ~(form[r].links \subseteq DOMAIN rows)

\* At most one branch is the main one, unless two requests that each set one
\* overlapped: then the second does not see what the first inserts.
SetsMain(r) == On(r) = "branch" /\ form[r].main = "yes"

SingleMain ==
  Cardinality(mains) > 1 => \E r, s \in Req : Met(r, s) /\ SetsMain(r) /\ SetsMain(s)
=============================================================================
