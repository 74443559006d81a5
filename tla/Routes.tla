------------------------------- MODULE Routes -------------------------------
(***************************************************************************)
(* The controllers of apps/api/src/modules: for every handler, the         *)
(* permission its @RequirePermissions names and whether it carries @Audit. *)
(* A handler is <<act, on>>, a permission <<resource, action>>.            *)
(***************************************************************************)
Route(act, on, resource, action, audited) ==
  [op |-> <<act, on>>, needs |-> <<resource, action>>, audited |-> audited]

\* A handler that changes something, and one that only reads.
Write(act, on, resource, action) == Route(act, on, resource, action, TRUE)
Read(act, on, resource) == Route(act, on, resource, "read", FALSE)

\* The five routes of a simple resource.
CrudRoutes(on, resource) ==
  {Write("create", on, resource, "create"), Read("list", on, resource),
   Read("get", on, resource),
   Write("update", on, resource, "update"), Write("remove", on, resource, "delete")}

BranchRoutes == CrudRoutes("branch", "branch")
WarehouseRoutes == CrudRoutes("warehouse", "warehouse")
CategoryRoutes == CrudRoutes("category", "category")
BrandRoutes == CrudRoutes("brand", "brand")
UnitRoutes == CrudRoutes("unit", "unit")
TaxRateRoutes == CrudRoutes("tax_rate", "tax_rate")
ProductRoutes == CrudRoutes("product", "product")
CostCenterRoutes == CrudRoutes("cost_center", "cost_center")
ExpenseCategoryRoutes == CrudRoutes("expense_category", "expense")
IncomeCategoryRoutes == CrudRoutes("income_category", "income")
DepartmentRoutes == CrudRoutes("department", "employee")
JobPositionRoutes == CrudRoutes("job_position", "employee")
PaymentMethodRoutes == CrudRoutes("payment_method", "collection")
BankRoutes == CrudRoutes("bank", "bank_account")

CustomerRoutes ==
  CrudRoutes("customer", "customer") \cup {Read("report", "customer", "customer")}

SupplierRoutes ==
  CrudRoutes("supplier", "supplier") \cup {Read("report", "supplier", "supplier")}

\* Mutant: posting an entry asks for the permission to read it.
AccountingRoutesRead ==
  CrudRoutes("account", "account") \cup
  {Write("create", "journal_entry", "journal_entry", "create"),
   Write("post", "journal_entry", "journal_entry", "read"),
   Read("trial", "journal_entry", "journal_entry"),
   Read("list", "journal_entry", "journal_entry"),
   Read("get", "journal_entry", "journal_entry")}

AccountingRoutes ==
  CrudRoutes("account", "account") \cup
  {Write("create", "journal_entry", "journal_entry", "create"),
   Write("post", "journal_entry", "journal_entry", "approve"),
   Read("trial", "journal_entry", "journal_entry"),
   Read("list", "journal_entry", "journal_entry"),
   Read("get", "journal_entry", "journal_entry")}

CashAndBankRoutes ==
  {Write("create", "cash_account", "cash_account", "create"),
   Write("update", "cash_account", "cash_account", "update"),
   Read("report", "cash_account", "cash_account"),
   Read("list", "cash_account", "cash_account"),
   Write("create", "bank_account", "bank_account", "create"),
   Write("update", "bank_account", "bank_account", "update"),
   Read("report", "bank_account", "bank_account"),
   Read("list", "bank_account", "bank_account"),
   Write("create", "bank_transaction", "bank_account", "update"),
   Read("list", "bank_transaction", "bank_account")}

ExpenseIncomeRoutes ==
  {Write("create", "expense", "expense", "create"), Read("list", "expense", "expense"),
   Write("create", "income", "income", "create"), Read("list", "income", "income")}

CollectionRoutes ==
  {Write("create", "collection", "collection", "create"),
   Read("list", "collection", "collection"), Read("get", "collection", "collection")}

PaymentRoutes ==
  {Write("create", "payment", "payment", "create"),
   Read("list", "payment", "payment"), Read("get", "payment", "payment")}

SalesInvoiceRoutes ==
  {Write("create", "sales_invoice", "sales_invoice", "create"),
   Read("list", "sales_invoice", "sales_invoice"),
   Read("get", "sales_invoice", "sales_invoice"),
   Write("approve", "sales_invoice", "sales_invoice", "approve"),
   Write("cancel", "sales_invoice", "sales_invoice", "update")}

PurchaseInvoiceRoutes ==
  {Write("create", "purchase_invoice", "purchase_invoice", "create"),
   Read("list", "purchase_invoice", "purchase_invoice"),
   Read("get", "purchase_invoice", "purchase_invoice"),
   Write("approve", "purchase_invoice", "purchase_invoice", "approve")}

HrRoutes ==
  {Write("create", "employee", "employee", "create"), Read("list", "employee", "employee"),
   Read("get", "employee", "employee"),
   Write("update", "employee", "employee", "update"),
   Write("create", "payroll", "payroll", "create"), Read("list", "payroll", "payroll"),
   Write("approve", "payroll", "payroll", "approve"),
   Write("record", "attendance", "attendance", "create"),
   Read("list", "attendance", "attendance")}

EDocumentRoutes ==
  {Write("issue", "e_invoice", "sales_invoice", "approve"),
   Read("list", "e_invoice", "sales_invoice"), Read("get", "e_invoice", "sales_invoice"),
   Write("cancel", "e_invoice", "sales_invoice", "update"),
   Write("issue", "e_waybill", "waybill", "approve"),
   Read("list", "e_waybill", "waybill")}

FileRoutes ==
  {Write("upload", "attachment", "attachment", "create"),
   Read("list", "attachment", "attachment"), Read("url", "attachment", "attachment"),
   Write("remove", "attachment", "attachment", "delete")}

ProjectRoutes == CrudRoutes("project", "project") \cup (CrudRoutes("task", "task")
                   \ {Read("get", "task", "task")})

RoleRoutes ==
  CrudRoutes("role", "role") \cup
  {Read("list", "permission", "role"), Read("list", "member", "user"),
   Write("invite", "member", "user", "create"), Write("assign", "member", "user", "update"),
   Write("suspend", "member", "user", "update"), Write("activate", "member", "user", "update")}

\* Every movement of goods names a product and a warehouse; see Inventory.
InventoryRoutes ==
  {Write("adjust", "stock_movement", "stock_movement", "create"),
   Write("transfer", "stock_movement", "stock_transfer", "create"),
   Read("list", "stock_movement", "stock_movement"), Read("list", "stock", "inventory")}

Routes ==
  UNION {BranchRoutes, WarehouseRoutes, CategoryRoutes, BrandRoutes, UnitRoutes,
         TaxRateRoutes, ProductRoutes, CostCenterRoutes, ExpenseCategoryRoutes,
         IncomeCategoryRoutes, DepartmentRoutes, JobPositionRoutes, PaymentMethodRoutes,
         BankRoutes, CustomerRoutes, SupplierRoutes, AccountingRoutes, CashAndBankRoutes,
         ExpenseIncomeRoutes, CollectionRoutes, PaymentRoutes, SalesInvoiceRoutes,
         PurchaseInvoiceRoutes, HrRoutes, EDocumentRoutes,
         FileRoutes, ProjectRoutes, RoleRoutes, InventoryRoutes}

RoutesOf == [o \in {x.op : x \in Routes} |-> {x \in Routes : x.op = o}]

\* The auth handlers (register, login, refresh) name no permission.
Needs(o) == IF o \in DOMAIN RoutesOf THEN {x.needs : x \in RoutesOf[o]} ELSE {}

Audited(o) == o \in DOMAIN RoutesOf /\ \A x \in RoutesOf[o] : x.audited
=============================================================================
