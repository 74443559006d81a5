# idfb: verification

TLA+ specifications of the idfb ERP (a NestJS API over Prisma and PostgreSQL in
`apps/api`, a Next.js client in `apps/web`), the TLC configurations that check
them on small instances, and TLAPS proofs of the properties that matter most.

    tlc -config MCInventory.cfg MCInventory      # one run; see "The runs"
    tlapm Inventory_proofs.tla                   # one proof module

## 1. The system

The API is one stateless process (or several: nothing in it depends on there
being one) in front of one PostgreSQL database. A request is an `async` handler
that awaits Prisma calls; between any two of its awaits other requests run. Only
what is inside `prisma.$transaction(async tx => ...)` is one transaction, no call
chooses an isolation level, so that transactions run at READ COMMITTED and plain
reads take no lock. This is where the difficulties of the program are: a handler
reads a row, checks it, and writes later what it computed from it.

| Component (under `apps/api/src/`) | State | Operations | Talks to |
|---|---|---|---|
| Inventory `modules/inventory` | `stock_items`, `stock_movements`, `stock_transfers` | adjust, transfer, `applyMovement` | called by the three below, in their transactions |
| Purchase orders `modules/purchasing` | orders, lines, receipts | create, update, confirm, receive, cancel | `applyMovement(PURCHASE_IN)` per line |
| Sales orders, quotations `modules/sales` | orders, lines, quotations | create, update, confirm, deliver, cancel; quotation status, removal, conversion | `applyMovement(SALE_OUT)` per line |
| Point of sale `modules/pos` | terminals, receipts | createSale, terminals | `applyMovement(SALE_OUT)` per line |
| Invoices `modules/sales`, `modules/purchasing` | invoices: status, total, paid amount | create, approve, cancel | written by settlements |
| Collections, payments `modules/finance` | one row per settlement | create | write the invoice they settle |
| Document numbers `common/util` | none: counts rows | `nextDocumentNumber` | every document's create |
| Sessions `auth`, `apps/web/src/lib` | refresh tokens; the browser's store | login, refresh, switch company, logout, change password | the client shares one refresh per tab |
| Routes and guards (every controller, `common/guards`) | none | permission and audit entry of each handler | in front of everything |
| Master data `modules/{branches,warehouses,products,...}` | 29 tables of one row at a time | create, list, get, update, remove | foreign keys of everything else |
| Cash and bank accounts, expenses, incomes `modules/finance` | accounts, transactions | create, update, balances | read collections and payments |
| Statements `modules/{customers,suppliers}`, invoice cancellation | invoices, settlements | `getStatement`, cancel | the same rows |
| Accounting `modules/accounting` | chart of accounts, journal entries | create, post, trial balance | accounts are master data |
| HR `modules/hr` | employees, payrolls, attendance | create, update, approve, record | employees are master data |
| E-documents `modules/e-documents` | e-invoices, e-waybills | issue, cancel | reads invoices; a worker outside the repository would send them |
| Projects and tasks `modules/projects` | projects, tasks | create, update, remove | customers, branches |
| Files `modules/files`, `storage` | rows and stored objects | upload, url, remove | an object store |
| Roles, members, sign-in `modules/roles`, `auth/rbac` | roles, permissions, members, users, companies | create, update, remove, assign, invite, register | read when an access token is signed |
| Settings, notifications, audit, dashboard, barcodes, platform | rows, or none | upserts, reads, wiring | not modelled, see 5 |

What makes each one correct:

- **Inventory**: stock is what its ledger of movements adds up to; a transfer
  happens in both warehouses or in none; nothing leaves that is not there; the
  average cost is the weighted one.
- **Orders**: received (delivered) quantities are those of the goods that came
  in (left); status tells the quantities; goods move only for confirmed orders,
  and at most once.
- **Point of sale**: receipts, ledger and stock agree.
- **Invoices and settlements**: the paid amount is backed by money and within
  the total; the status tells the paid amount; no more is collected than owed.
- **Sessions**: the client never presents a token that was replaced, so that
  theft detection does not fire on an honest user; a session stays in its company.
- **Master data**: a link leads to a row that is there, whatever is removed
  meanwhile; a code is given once; a company has one main branch.
- **Reports** (balances, statements, trial balance): each adds tables it reads at
  different moments, and must still be of something that was there; a trial
  balance balances, and names its accounts.
- **Payrolls**: what is paid, withheld and deducted is what was earned.
- **One of a kind** (payroll of a month, e-document of an invoice, account,
  membership): what was answered as created is kept and has no twin.
- **Files**: no row without its object nor object without its row, but for a
  removal or an upload that stopped half-way.
- **Tasks**: what is done says when.
- **Roles and members**: a holder has what one request asked for, not a mixture;
  a token holds what the member has had.
- **Routes**: what changes data asks for a permission to change it and is audited.

`PROJECT.json` lists, under `hazards`, every place where one of these is at risk,
with the properties that watch it.

## 2. The modules

    Postgres          external: rows, row locks, READ COMMITTED, unique numbers
    Inventory         applyMovement, adjust, transfer         uses Postgres
      StockBook       what the inventory promises (abstract)  implemented by Inventory
    PurchaseOrders    orders and receipts                     INSTANCE Inventory
    SalesOrders       orders, deliveries, quotations          INSTANCE Inventory
    PointOfSale       sales at a till                         INSTANCE Inventory
    Settlements       invoices, collections, payments         uses Postgres
    Sessions          refresh tokens and the client's tabs
    Requests          requests, guards, scenes                uses Postgres, Routes
      Routes          permission and audit entry of each handler
      MasterData      29 resources and their rows             extends Requests
        Treasury      balances, statements, cancelling        extends MasterData
        Journal       journal entries, trial balance          extends MasterData
        Personnel     payrolls, attendance                    extends MasterData
        EDocuments    e-invoices, e-waybills                  extends MasterData
        Projects      tasks                                   extends MasterData
      Files           rows and stored objects                 extends Requests
      Access          roles, the member, sign-in              extends Requests
      Members         registration, invitation                extends Requests
    BackOffice        composes the nine above
    MC<module>        instances for TLC
    <module>_proofs   theorems about one module
    BackOffice_invariants
                      the inductive invariants of BackOffice, which its proofs use
    Shared_proofs     lemmas on tables, series, sums and intervals, used by the
                      others; the documents' proofs also INSTANCE Inventory_proofs

**How a handler becomes actions.** `Req` is the set of requests; `pc[r]` is the
statement request `r` is at. Each action is the code from one await to the next:
one database statement with everything computed around it. A read outside a
transaction (`findOne`) is an action of its own, so that whatever it returned may
be stale when it is used. Each request is handled once; a client's retry is
another request.

**Postgres.tla** is external code: a table is its committed rows, the rows as the
transactions that hold them left them, and who holds each row. `Seen` is what a
statement of a transaction reads, `Writable` whether it would wait, `Put`,
`Save`, `Commit`, `Rollback` do what their names say. A series is a numbered
table under `@@unique([companyId, number])`: an insert waits for the open
transaction that inserted the same number, and fails once it is committed.

**Inventory.tla** models `applyMovement` as the read (`FindStock`,
`RefuseMovement`), the upsert (`UpsertStock`: the quantity is incremented in the
row as it is now, the average cost is the one computed from the earlier read) and
the insert of the movement (`LogMovement`). `adjust` calls it with no transaction
around it, so a failure may part the two writes; `transfer` calls it twice in
one. The ledger is kept as totals per type and item. `NoCost`, not a number, is the
unit cost of a movement that has none. `Abort` is any failing
statement: lost connection, crash of the process, a deadlock that PostgreSQL
breaks, the 5 s limit of Prisma's interactive transactions.

**PurchaseOrders.tla, SalesOrders.tla, PointOfSale.tla** instantiate Inventory on
the same variables: a document's transaction posts its movements through the same
actions, `Step` interleaves them with adjustments and transfers, and `Throw`,
`Abort` and `CommitOrder` end both parts together. A line of an order is named by
the order, its place and the request that created it, because `update` replaces
lines (`FindLines`, then `ReplaceLines`, since a `deleteMany` that waited does not
see rows inserted meanwhile). Baskets and deliveries are of any length but 0, which
their dtos refuse (`@ArrayMinSize(1)`), and may name a line or a product twice.

**Settlements.tla** has the invoices of both kinds and the settlements against
them: the check and the paid amount come from an invoice read without a lock, and
are written absolutely. Tax, lines and currency only enter as the total.

**Sessions.tla** has one user, the server's `refresh_tokens` and the browser. A
rotation is the code's four statements (`FindToken`, `CreateToken`,
`ReplaceToken`, `SignAccess`) with no transaction around them; `RevokeFamily` is
theft detection, `RevokeTokens` logout and a change of password, `IssueToken` a
login (registration, and the endpoint that switches companies, issue tokens in the
same way; what they read and write besides is in Members and Access). A token is
named by the request that created it. Tabs share one store and share one refresh each (`StartRefresh`); answers are `StoreTokens`,
`RefreshFailed`, `LoginFailed`, `LoggedOut`. `RefreshFailed` may come while the
server still works: the network failed. `Fail` is a failing statement or a server
that goes away between two of them. That an access token expires is abstracted:
any call may be answered 401. Left out: hashing, signing, and which permissions
an access token carries.

**StockBook.tla** is the abstract specification of the inventory: the quantity on
hand and the quantity the ledger accounts for. A document changes both at once; an
adjustment changes the first and is pending until it is entered.

Left out of these modules: descriptions, dates, currencies, prices and tax of
order lines, tenant checks (every `where` has the company's id, so that one
company's requests are modelled), audit rows, and listings, which only read.

**BackOffice.tla** composes the rest of the API: one data base, one pool of
requests. A component is a module with its tables as variables, a `...Start(r)`
(a request comes and passes the guards), a `...Work(r)` (its handler's next
statement) and the properties of its tables; BackOffice interleaves the steps of
all of them and adds `Forbid` (the guard answers 403), `Abort` (a process that
stops, a failing statement: the request ends between two steps and an open
transaction is rolled back) and `Worker`, external: the queue worker that would
transmit e-invoices, modelled by the status it leaves.

**Routes.tla** has, for every controller, what `@RequirePermissions` names and
whether `@Audit` is there. **Requests.tla** is what runs before a handler: two
tokens, one that holds every permission and one that holds those to read, tell
the routes apart. `may` is the token a request came with; `met` is history: which
requests overlapped.

**MasterData.tla**. The services of `modules/` for a table of one row at a time
have one shape - `scripts/generate-crud.mjs` writes eight of them, the others
follow it by hand. One set of actions is that shape, statement by statement, and
`Service(code, links, keeps)` tells a service apart: where its code comes from,
the rows it may point to, those it must point to (the foreign key then refuses to
delete them; other links are set to null). Hence the map gives a service's whole
file, and a controller's, to its one-line descriptor: the rest of the file is what
the generic actions stand for. What does not fit the shape has actions of its own:
the main branch (`FindMains`, `ClearMain`), and the product that is kept while it
has movements (`CountMovements`). `cited` are the rows other tables point to.

**Treasury.tla**: a report looks its account up and then sums one table per
statement, at READ COMMITTED each of its own moment (`SumNext`). **Journal.tla**:
an entry with its lines is one insert; the trial balance groups in one statement
and finds the names in the next. **Personnel.tla**: `CalculatePayroll` rounds each
part to kurus as `payroll-calculator.ts` does, in integers of 1/10000 lira.
**EDocuments.tla**, **Members.tla**: look for a rival, insert, and the unique
column decides. **Files.tla**: no transaction spans row and object, and the store
may fail or not answer. **Projects.tla**: an update decides by the status it read.
**Access.tla**: the pairs of a role and its permissions, or of the member and its
roles, are replaced by `deleteMany` (one action per row, which waits for a row
another transaction has deleted) and `createMany`; a sign-in reads the member,
the roles and the permissions in a statement each.

## 3. The runs

Bounds are the constants of each `.cfg`; requests are interchangeable, hence the
symmetry where no liveness is checked. Two requests are enough for every race
between two handlers; three let a third one see or overwrite what two have done.
Deadlock is not checked because every request is handled once: all answered, the
system stops.

| Run | Instance | What it shows |
|---|---|---|
| `inventory` | 3 requests, 2 warehouses, 1 product | `Reconciled`, `TransfersBalance`; `BookSpec`: Inventory implements StockBook |
| `purchase_orders` | 2 requests of any kind on 3 orders (confirmed, draft, not created), 2 warehouses; 3 requests if on one order (`ThirdOnSameOrder`) | received quantities are those of the committed receipts, goods match receipts, an order is left partially received only while short, nothing is received unconfirmed |
| `sales_orders` | the same, with a quotation and too little stock of one product | delivered is shipped, orders are delivered as a whole, only when confirmed, ledger and stock agree |
| `point_of_sale` | 2 requests, 1 till, 2 products, 2 warehouses | receipts, ledger and stock agree; tills alone never oversell; every request is answered |
| `settlements` | 3 requests, a sales and a purchase invoice, amounts 1 and 2 of 2 | paid amounts are backed and within the total, status tells paid, every request is answered |
| `back_office` | 2 requests of any handlers of tables that point to each other, 3 of those whose races need a third; one row of each table | see below |
| `sessions` | 3 requests of any kind from 1 or 2 tabs, 1 company | a token handed out has replaced a revoked one; a user who works in one tab, does not log out, change the password or reload is never taken for a thief nor left with a dead token |

`back_office` is one specification of some 160 handlers; a *scene* of
`MCBackOffice` is a set of handlers that share tables, and a behaviour stays in
one. Between them the scenes have every handler and every kind of link; what they
leave out are requests that share no table, and resources linked in the same way as
two that a scene has. The proofs of section 4 hold for any scenes, that of all
handlers and any number of requests included. Codes are 1, which a row has, and 3, which is free
until the count gets there; salaries are 0 and 123.4567 lira, which rounds at every
step; the two dates are days of one month, so that payrolls collide and attendance
does not; there is one permission, one address and one tax number to compete for.

| Property | What it says |
|---|---|
| `ReferencesResolve` | what a row or a journal line points to is there |
| `AutoCodeAccepted` | a create that leaves its number to the API is refused only if rows were removed, a code was typed, two requests overlapped, or a row it points to went |
| `SingleMain` | one main branch, unless two requests that set one overlapped |
| `TrialBalances`, `BalancesAreNamed` | debit is credit in every trial balance; no line is blank |
| `ReportBounded` | a balance lies between what only the decreases and only the increases made meanwhile would have left |
| `PayrollAddsUp` | gross and bonuses are net, tax, premiums and deductions, within the two roundings of the net salary |
| `CreatedIsKept` | an answered payroll, e-document, registration or invitation is there, the only one |
| `FilesAccountedFor` | row and object, unless a removal or an upload stopped between them |
| `DoneIsDated` | a done task has a date, unless it was created done |
| `AccessAsGranted` | permissions and roles are as one request asked, unless two that replace them overlapped; a token holds what the member had, unless a change of roles and a change of a role both overlapped the sign-in |
| `WritesAreGuarded` | a step that changes a table comes from an audited route that asks for more than a permission to read |

The exceptions are what the code does: each "unless" was a counterexample before it
was part of the property, and a mutant shows that the rest still says something.

Runs that find a disagreement between the code and its own words (`findings` in
`PROJECT.json` quotes them):

| Run | What happens |
|---|---|
| `average_is_weighted` | two costed receipts of an item overlap: both quantities count, one cost is lost |
| `no_over_receipt` | a receipt that names a line twice passes the check of each line alone |
| `not_over_collected` | two collections both fit the balance they read |
| `theft_ends_family` | a rotation that found its token live creates the successor after theft detection revoked the family |
| `company_is_kept` | a refresh signs for the company joined first, not for the one that was chosen at login |

The same pattern - a check on a row read before the write - lets a cancellation
overtake the receipt or the collection that completes a document, two deliveries
of one order both ship it (each still within what `DeliveredIsShipped` and
`DeliveredWhole` ask), an edit replace the lines
of an order confirmed meanwhile, a confirmation revive a cancelled order, and a removal delete a converted quotation. The models take all these
steps; what the passing runs check holds in spite of them.

**Fairness.** `point_of_sale` and `settlements` check that every request is
answered, under weak fairness of each request's own steps: the event loop and
PostgreSQL run a statement that does not wait. Rows are taken in the order of a
document's lines, so that two requests can wait for each other; the time limit of
Prisma's interactive transactions ends the wait, and `TimeOut` is fair for a
request that waits inside a transaction. In `settlements` a transaction takes one
row, and no time limit is assumed. The back office states no liveness: its
steps that wait (for the row of a branch or of a role) wait for transactions of a
few statements, and PostgreSQL ends those that wait for each other (`Abort`).

**Mutants.** For every property `PROJECT.json` names a change of one definition,
of the kind a bug would make (a quantity written from a stale read, a write moved
out of its transaction, a loop that ends early, a dropped check), under which the
run finds the property violated. Each stands before the definition it changes, in
a comment that starts with "Mutant".

## 4. The proofs

For every value of the constants - any set of requests, items, invoices and
amounts - TLAPS proves:

- `Inventory_proofs`: `TypeCorrect`, `StockReconciles`, `TransfersStayBalanced`,
  and `ImplementsBook`, Inventory's refinement of StockBook. Its first part, the
  books, is about `applyMovement` alone, whoever calls it. The invariant `Books`
  says that an item's working row belongs to the transaction that holds it and
  differs from the committed row by what that transaction has posted and the
  movement it has not logged yet; that a row nobody holds has no working copy;
  and that the committed stock is its opening, plus what the committed movements
  add, plus the adjustments between their two writes. It is kept by every
  statement of `applyMovement`, by a commit and by a rollback, provided the caller
  holds stock rows only at the stages `Holding` names. `Books` reconciles stock
  and ledger (`BooksReconcile`). Its second part adds the handlers: their types
  and arguments, what a transfer has posted at each of its stages (`HasPosted`)
  and that committed transfers cancel out over all warehouses (`Balanced`).
- `PurchaseOrders_proofs`: `TypeCorrect`, `ReceivedIsReceipted`, `GoodsMatch`,
  `PartialIsShort`, `ConfirmedBeforeReceipt`. `PurchasesInv` is the books, used
  through an instance of `Inventory_proofs`, and seven parts of its own.
  `Documents`: types, which handler a stage belongs to, where in its dto a receipt
  is, and who holds which row; `Serial`: only the request that holds the receipt
  number is at the lines; `Confirmations`: an order under receipt was confirmed;
  `MadeOnce`: a line that was deleted does not come back, and is received only
  after it was made, so that a new line starts with no receipts; `Progress`: a
  receipt has added to its rows, and posted, exactly the lines of its dto before
  the one it is at; `Committed`: rows and ledger are the sums over the committed
  receipts; `Short`: a receipt that has seen a line short still does. The last
  needs `Serial`: without it the other receipt could complete the line before
  the status is written.
- `SalesOrders_proofs`: `TypeCorrect`, `ConfirmedBeforeShipped`, `WholeDeliveries`,
  `DeliveredWasShipped`, `StockReconciles`. `OrdersInv` has, besides books,
  documents and confirmations, `Batches`: the lines one request gave an order are
  there or gone together, what an edit deletes is whole batches, and so is what a
  delivery has marked and has yet to mark, of which nothing is left at its commit;
  `Current`: the line a delivery is at and its movement match; and `Goods`: per
  product, what a delivery has marked is within what it has posted, and what is
  marked in committed lines within what the ledger says was sold.
- `PointOfSale_proofs`: `TypeCorrect`, `ReceiptsMatchStock`, `NoOversale`.
  `SalesInv` has the parts `Serial`, `Posts` and `Sold`, as above; and
  `NeverBelow`: while only tills take from the stock, the sale that holds the
  receipt number is alone at it, so what its check has read of a row is still so
  when it decrements the row.
- `Settlements_proofs`: `TypeCorrect`, `PaidAmountWithinTotal`,
  `PaidAmountIsBacked`, `StatusTellsPaid`. `SettleInv` adds what a settlement has
  read: its check was made on that row, totals never change, and the working row
  is exactly what the settlement computed, so a commit writes at most the total
  and adds its own amount to what was settled.
- `Sessions_proofs`: `TypeCorrect`, `ReplacedTokenIsRevoked`, `NoFalseTheft`,
  `StoredTokenIsUsable`. `SessionInv` says which handler is at which statement and
  which token exists by then. `HonestInv` is the history of an undisturbed user's
  tokens: each is presented at most once (`PresentedOnce`), the stored one only by
  a request whose answer is awaited (`StoredAwaited`), nothing is stored or
  presented before it was delivered (`KnownDelivered`), and a revoked token was
  rotated (`RevokedRotated`). The step that needs them all is a refresh: with one
  tab and none in flight, nobody has presented the stored token yet. TLC checked
  both invariants on `MCSessions` first.
- `BackOffice_proofs`, in eleven parts, each with its section of
  `BackOffice_invariants`, where the inductive invariants and the words they are
  stated in are defined. The frame: `RequestsTyped`. A handler's
  requests keep to its statements (`RequestTypes`), a step moves one request from
  one of a component's statements to another (the `...Moves` lemmas), and so a
  request about something else is left alone: an invariant of one table is argued
  over the steps of its component only.

  References: `ReferencesAlwaysResolve`, `BalancesAlwaysNamed`. `RefInv` adds that
  whatever a journal line or a trial balance in progress mentions is `cited`
  (`AllCited`): what is cited stays cited and is not deleted, hence the second
  statement of the trial balance finds what the first has grouped by.

  Records: `CreatedAlwaysKept`, `PayrollsAlwaysAddUp`, `FilesAlwaysAccountedFor`,
  `DoneAlwaysDated`. `RecordsInv` has a part per table. `PayrollInv`,
  `EDocumentInv`, `MemberInv`: a row belongs to the request that inserted it, which
  is past its insert, and says what that request asked for; the unique column gives
  the rest. `AddsInv`: what a request carries to its insert adds up, by the bounds
  of each rounding. `FileInv`: the object is put before and taken before its row,
  and the key is the upload's own. `TaskInv`: a request about to write DONE without
  a date has found the task dated, and no other step undates it.

  Guards: `WritesAlwaysGuarded`, over the whole table of routes. Handlers that read
  keep to statements that change no table (`ReadsOnly`, whose table is `Reading`);
  every other route asks for more than "read" and is audited (`RoutesGuarded`); and
  a request in flight came with a token its route lets through (`Passed`).

  The main branch: `SingleMainBranch`. `MainInv` says that requests in flight
  together have met (`Overlaps`), and that unless two that set a main branch did,
  there is one at most and a request about to set one finds none but its own
  (`Clears`).

  The journal: `TrialsAlwaysBalance`. `JournalInv`: every entry and every draft is
  even, so what a trial balance groups from whole entries is.

  Access: `AccessAlwaysAsGranted`. `AccessInv` says what a transaction that
  replaces a holder's pairs has found and deleted (`TxnOK`, `SweepOK`): when it
  inserts, whatever the holder still has is what it deletes, unless another
  replaced the same set meanwhile, so that the commit leaves what was asked for. Of
  a sign-in it says what was read (`ReadOK`): roles that grant what the member has
  had, unless a role changed, and that the member still has, unless those were
  assigned anew; hence what the token holds (`TokenOK`). TLC
  checked `AccessInv` on the scenes of roles and members first (281651 states).

  The rows: `RowsInv`. What a row of each resource holds (`RowsFit`: its links are
  of the kinds its service points to, documents are about an amount), that a new
  row was made by its request (`RowsWereMade`), and which handler is at which
  statement with which row in hand (`FormInv`). With it a step changes the rows in
  three ways only (`RowMade`, `RowChanged`, `RowRemoved`), and documents are neither
  changed nor removed, since no route does (`RoutesLasting`).

  The reports: `ReportsAlwaysBounded`. `UpIs`, `DownIs` and `DueStatement` turn the
  folds of the model into sums with one term per row: what has come to an account,
  what has gone from it, and what the tables still to be read would add (`DueSum`).
  `ReportInv` bounds what a report has added up together with what is due
  (`Within`). A statement of the report moves a table from the one to the other
  (`SumNextFits`); any other step moves what is due no further up than what came and
  no further down than what went (`TermsMove` row by row, `SumsMove` for the sums).
  It needs that a cancelled invoice is there and is not cancelled out twice
  (`Voids`), and that a document keeps its links to the account, which it must have
  (`Pointers`).

  The codes: `AutoCodesAlwaysAccepted`. `CodesInv` says that while no row of a
  resource is removed and no client types a code (`Tidy`), no code is beyond the
  number of its rows (`CodesWithin`), so that what a create counts is beyond them
  all; and that it stays so until its insert, or somebody has disturbed it
  (`Disturbed`). A step is one of a few for a form (`NumberStep`) and for the rows
  of a resource (`OneMore`): whoever inserts in between is in flight with the
  create that has counted, so the two have met. It needs `RowsInv` for the ways
  the rows change and `RefInv` for the rows a form points to.

  The types: `BackOfficeTypesAlwaysOK`. `TypeOK` is not inductive: `TypesInv` adds
  that sets of entries and lines are finite, so that what is summed over them is an
  integer; what a request has in hand (`Sheet`, `Paper`, `AskTypes`); and that it
  is of the narrower type a statement needs when the request is at one of the
  statements that write it to a table. There is one part per component, kept by the
  component's own steps and, since it is about its own statements only, by those of
  all others (the `...TypesAway` lemmas, from the frame). TLC checked `CodesInv` and
  `TypesInv` on the instance of section 3 first (462560 states).
- `Shared_proofs`: lemmas on `Seen`, `Put`, `Commit`, `Rollback` and series; and on
  sums over finite sets: adding, removing, changing or comparing terms, joining two
  sets; and on the size of an interval.
  They rest on `AddsExists`, which the induction over a set would give; it is
  argued by the smallest set for which it fails, since strict inclusion of finite
  sets is well founded. `FoldIs` says that `MapThenSumSet` is such a sum.

In the documents' proofs each step is first put in one of a few shapes (begins,
creates, replaces lines, takes a row, commits, is undone...), and each part of the
invariant is shown to be kept by each shape. TLC has checked the invariants of
Inventory, PurchaseOrders, SalesOrders, PointOfSale, Settlements and Sessions on
the instances of section 3.

Assumptions are the named ASSUMEs of the modules (quantities, codes and amounts
are positive, costs and salaries natural numbers, kinds are given; baskets and
deliveries have a line; what the sums are over is finite: the warehouses, the orders
of PurchaseOrders, the requests, orders and lines of SalesOrders; names of requests differ from those of the first rows, roles, tabs and tokens, and
those of roles, permissions and members from one another); TLC evaluates them
in every run that has them.

What stays with TLC:

- Liveness, which is beyond the prover. Every safety property of the passing runs is
  stated by a theorem.

## 5. Not modelled, and the plan

`PROJECT.json` gives the reason for each component. Not modelled:

- Company settings (an upsert no modelled handler reads), notifications, mail, the
  queue and the audit rows: written and not awaited, or never read back; the queue
  has no worker in the repository.
- The dashboard and the listings: they only read, one statement per number.
- Error responses, barcodes, configuration, health, metrics, logging, the pages of
  the client: functions of their input, or wiring, without a state the API reads.
- Seeds and migrations, which run before the API does.
- The lines of quotations and the rounding of the lines of documents: totals are
  one amount here.

Next, in order of importance:

1. That PurchaseOrders and SalesOrders implement StockBook as Inventory does.
2. Totals: `computeLineTotals` with its rounding, against what an invoice's lines
   come to.
