---------------------------- MODULE MCBackOffice -----------------------------
(***************************************************************************)
(* BackOffice for TLC: two or three requests at a time, of the handlers    *)
(* that share tables.                                                      *)
(***************************************************************************)
EXTENDS BackOffice, TLC

Symmetry == Permutations(Req)

\* All the handlers of some resources.
Of(S) == {o \in Ops : o[2] \in S}

Scene(ops, n) == [ops |-> ops, requests |-> n]

\* Tables of one row at a time: each with those it points to.
MasterScenes ==
  {Scene(Of(S), 2) : S \in
     {{"branch", "warehouse"}, {"product", "category", "tax_rate"}, {"product", "unit", "brand"},
      {"employee", "department", "job_position"}, {"project", "customer"},
      {"expense_category", "income_category", "cost_center"}, {"bank", "payment_method"}}}
  \cup {Scene({<<"create", "customer">>, <<"remove", "customer">>, <<"remove", "warehouse">>},
              3)}

\* Accounts, the documents that move them, and the reports that read both.
TreasuryScenes ==
  {Scene(Of(S), 2) : S \in
     {{"cash_account", "expense", "income"}, {"bank_account", "bank_transaction"},
      {"customer", "sales_invoice", "collection"}, {"supplier", "purchase_invoice", "payment"},
      {"product", "stock_movement"}}}
  \cup {Scene({<<"report", "cash_account">>, <<"create", "payment">>, <<"create", "income">>}, 3),
        Scene({<<"report", "customer">>, <<"cancel", "sales_invoice">>,
               <<"create", "collection">>}, 3)}

\* An entry is created, posted and reported while an account is removed.
JournalScenes ==
  {Scene(Of({"journal_entry"}) \cup {<<"remove", "account">>}, 3), Scene(Of({"account"}), 2)}

OtherScenes ==
  {Scene(Of({"payroll", "attendance"}) \cup {<<"update", "employee">>}, 2),
   Scene(Of({"sales_invoice", "e_invoice"}), 2), Scene(Of({"e_invoice"}), 3),
   Scene(Of({"e_waybill"}), 3), Scene(Of({"attachment"}), 3),
   Scene(Of({"task", "project"}), 2),
   Scene({<<"create", "task">>, <<"update", "task">>}, 3)}

\* Roles and members change while someone signs in.
AccessScenes ==
  {Scene(Of({"role", "member", "session", "registration"}), 2),
   Scene({<<"update", "role">>, <<"assign", "member">>, <<"login", "session">>}, 3)}

MCScenes == MasterScenes \cup TreasuryScenes \cup JournalScenes \cup OtherScenes
              \cup AccessScenes
MCDates == {<<1, 1>>, <<1, 2>>}
=============================================================================
