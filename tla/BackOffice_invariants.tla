------------------------ MODULE BackOffice_invariants -----------------------
(***************************************************************************)
(* The inductive invariants of BackOffice, on which BackOffice_proofs      *)
(* rests, and the vocabulary of its proofs: the statements and handlers of *)
(* each component, what its requests have in hand at each of them, and     *)
(* what a step may do to the parts of a state that an invariant is about.  *)
(*                                                                         *)
(* An invariant is named for its subject, with Inv at the end, and is a    *)
(* conjunction of named parts; it implies the properties of the same       *)
(* subject in Journal, Treasury, Personnel, EDocuments, Members, Files,    *)
(* Projects, Access, MasterData and Routes.                                *)
(***************************************************************************)
EXTENDS BackOffice, Shared_proofs

-----------------------------------------------------------------------------
(* The frame: the handlers of each component, and how they move.           *)

\* Those of a request in flight.
AllLabels == Labels \ ({"idle"} \cup Answered)

\* The handlers each component starts.
MasterOps ==
  {o \in Ops : /\ o[1] \in {"create", "adjust", "update", "get", "remove", "list"}
               /\ o[2] \in Resources}

TreasuryOps == {o \in Ops : o[1] = "report" \/ o = <<"cancel", "sales_invoice">>}
JournalOps == {"create", "post", "trial"} \X {"journal_entry"}

PersonnelOps ==
  {<<"create", "payroll">>, <<"approve", "payroll">>, <<"record", "attendance">>}

EDocumentOps ==
  {<<"issue", "e_invoice">>, <<"issue", "e_waybill">>, <<"cancel", "e_invoice">>}

FileOps == {"upload", "url", "remove"} \X {"attachment"}
TaskOps == {"create", "update", "remove"} \X {"task"}
AccessOps == {"create", "update", "remove"} \X {"role"}
             \cup {"assign", "suspend", "activate"} \X {"member"}
             \cup {"login", "refresh", "switch"} \X {"session"}

MemberOps == {<<"register", "registration">>, <<"invite", "member">>}

\* r starts one of the handlers `ops`, and meets those in flight, or takes a step from
\* one of `labels`; it stays among them or answers.
MovesAmong(r, labels, ops) ==
  /\ scene' = scene
  /\ \E at \in labels \cup Answered : pc' = [pc EXCEPT ![r] = at]
  /\ \/ /\ pc[r] \in labels /\ pc'[r] \in labels \cup {"ok", "refused"}
        /\ op' = op /\ may' = may /\ met' = met
     \/ /\ pc[r] = "idle" /\ met' = met \cup {{r, s} : s \in {x \in Req : InFlight(x)}}
        /\ \E o \in ops \cap Ops :
             /\ op' = [op EXCEPT ![r] = o]
             /\ may' = [may EXCEPT ![r] = IF Allows("reader", o) THEN "reader" ELSE "all"]

\* r works: from one of `labels` to another, or to its answer.
Works(r, labels) ==
  /\ pc[r] \in labels
  /\ UNCHANGED requestVars \/ \E at \in labels \cup {"ok", "refused"} : Goto(r, at)

\* r starts to make a row of `on`.
Creation(r, on, act) ==
  \E code \in TypedCodes(on), L \in LinkChoices(on), v \in Values(on), main \in Mains(on) :
    /\ Begin(r, <<act, on>>, IF on \in Careful THEN "find kept"
                                              ELSE NumberAt(on, code, main))
    /\ Asks(r, <<on, r>>, code, L, v, main)

\* r moves among other statements than `labels`, in no handler of `ops`.
Elsewhere(r, labels, ops) ==
  /\ pc[r] \notin labels \cup Answered
  /\ \E at \in Labels \ (labels \cup {"idle"}) : pc' = [pc EXCEPT ![r] = at]
  /\ op' = op \/ (pc[r] = "idle" /\ \E o : o \notin ops /\ op' = [op EXCEPT ![r] = o])

\* The statements L and the handlers O are none of `labels` and `ops`.
Apart(L, O, labels, ops) ==
  /\ \A x \in L : x \notin labels
  /\ \A o \in O : o \notin ops

-----------------------------------------------------------------------------
(* References: what points to a row finds it.                              *)

\* Rows, entries and trial balances are records of their fields.
Shapes ==
  /\ \A id \in DOMAIN rows : DOMAIN rows[id] = {"code", "links", "value"}
  /\ \A e \in DOMAIN entries : DOMAIN entries[e] = {"number", "lines", "status"}
  /\ DOMAIN trial = Req
  /\ \A r \in Req : DOMAIN trial[r] = {"accounts", "debit", "credit", "named"}

\* Whatever a journal line or a trial balance mentions is cited.
AllCited ==
  /\ \A e \in DOMAIN entries : AccountsOf(entries[e].lines) \subseteq cited
  /\ \A r \in Req : trial[r].accounts \subseteq cited

\* A trial balance is at one of its statements, or answered.
TrialOps == {o \in Ops : o[1] = "trial"}

TrialAt ==
  \A r \in Req : op[r] \in TrialOps => pc[r] \in {"group", "name"} \cup Answered

RefInv == Shapes /\ ReferencesResolve /\ AllCited /\ TrialAt /\ BalancesAreNamed
TrialLabels == {"group", "name"}

-----------------------------------------------------------------------------
(* Payrolls.                                                               *)

\* The requests in handlers of `ops` are at statements of `labels`, or answered.
Inside(labels, ops) == \A s \in Req : op[s] \in ops => pc[s] \in labels \cup Answered

\* What a step of another request leaves alone.
Spares(s) == op'[s] = op[s] /\ pc'[s] = pc[s]

PayLabels == {"find payee", "find period", "insert payroll"}
PayOps == {<<"create", "payroll">>}
SheetFields == {"employee", "date", "gross", "bonuses", "other", "pay", "payroll"}
SheetShapes == DOMAIN sheet = Req /\ \A r \in Req : DOMAIN sheet[r] = SheetFields

\* A payroll is what its request asked for.
AsAsked(p) ==
  /\ p \in Req /\ pc[p] \in Answered
  /\ DOMAIN payrolls[p] = {"employee", "period", "pay", "status"}
  /\ payrolls[p].employee = sheet[p].employee
  /\ payrolls[p].period = StartOfMonth(sheet[p].date)
  /\ payrolls[p].pay = sheet[p].pay

PayrollInv ==
  /\ SheetShapes /\ Inside(PayLabels, PayOps)
  /\ \A p \in DOMAIN payrolls : AsAsked(p)
  /\ \A p, q \in DOMAIN payrolls :
       p # q => payrolls[p].employee # payrolls[q].employee
                \/ payrolls[p].period # payrolls[q].period
  /\ \A r \in Req : At(r, "create", "payroll", "ok") => r \in DOMAIN payrolls

-----------------------------------------------------------------------------
(* Whole amounts.                                                          *)

FormFields == {"id", "code", "number", "links", "value", "main"}

WholeForms ==
  /\ DOMAIN form = Req
  /\ \A r \in Req : DOMAIN form[r] = FormFields /\ form[r].value \in Int

WholeRows == \A id \in DOMAIN rows : rows[id].value \in Int

AddsInv ==
  /\ WholeForms /\ WholeRows
  /\ \A r \in Req : /\ sheet[r].gross \in Int /\ sheet[r].bonuses \in Int
                    /\ sheet[r].other \in Int
                    /\ AddsUp(sheet[r].pay)
  /\ PayrollAddsUp

\* A form is filled in when its request comes, and numbered.
FormStep(r) ==
  \/ form' = form
  \/ \E id, code, links, main : \E value \in Int :
       form' = [form EXCEPT ![r] = [id |-> id, code |-> code, number |-> code,
                                    links |-> links, value |-> value, main |-> main]]
  \/ \E n : form' = [form EXCEPT ![r].number = n]

\* The sheet a payroll is computed on, and the payroll.
WholeSheet(s) ==
  s.gross \in Int /\ s.bonuses \in Int /\ s.other \in Int /\ AddsUp(s.pay)

-----------------------------------------------------------------------------
(* E-documents.                                                            *)

InvoiceLabels == {"find sales invoice", "find issued", "insert e-invoice"}
WaybillLabels == {"find waybill", "find issued waybill", "insert e-waybill"}
IssueLabels == InvoiceLabels \cup WaybillLabels
IssueOps == {<<"issue", "e_invoice">>, <<"issue", "e_waybill">>}
PaperFields == {"invoice", "waybill", "doc"}
PaperShapes == DOMAIN paper = Req /\ \A r \in Req : DOMAIN paper[r] = PaperFields

IssuedInvoice(d) ==
  /\ d \in Req /\ pc[d] \in Answered
  /\ DOMAIN einvoices[d] = {"invoice", "status"}
  /\ einvoices[d].invoice = paper[d].invoice

IssuedWaybill(d) ==
  /\ d \in Req /\ pc[d] \in Answered
  /\ ewaybills[d] = paper[d].waybill

EDocumentInv ==
  /\ PaperShapes
  /\ Inside(InvoiceLabels, {<<"issue", "e_invoice">>})
  /\ Inside(WaybillLabels, {<<"issue", "e_waybill">>})
  /\ \A d \in DOMAIN einvoices : IssuedInvoice(d)
  /\ \A d \in DOMAIN ewaybills : IssuedWaybill(d)
  /\ \A d, e \in DOMAIN einvoices : d # e => einvoices[d].invoice # einvoices[e].invoice
  /\ \A d, e \in DOMAIN ewaybills : d # e => ewaybills[d] # ewaybills[e]
  /\ \A r \in Req : At(r, "issue", "e_invoice", "ok") => r \in DOMAIN einvoices
  /\ \A r \in Req : At(r, "issue", "e_waybill", "ok") => r \in DOMAIN ewaybills

-----------------------------------------------------------------------------
(* Accounts and members.                                                   *)

RegisterLabels == {"find user", "find company", "register"}
InviteLabels == {"find invited", "find membership", "join", "mail"}
RegisterOps == {<<"register", "registration">>}
InviteOps == {<<"invite", "member">>}

PersonShapes ==
  DOMAIN person = Req /\ \A r \in Req : DOMAIN person[r] = {"email", "taxNumber", "found"}

Registered(r) ==
  /\ Email(r) \in DOMAIN users /\ users[Email(r)] = r
  /\ TaxNumber(r) \in DOMAIN companies /\ companies[TaxNumber(r)] = r

Invited(r) ==
  /\ Email(r) \in DOMAIN joined /\ joined[Email(r)] = r
  /\ Email(r) \in DOMAIN users

\* What is known of a request that registers or invites.
Owns(r) ==
  /\ op[r] \in RegisterOps /\ pc[r] = "ok" => Registered(r)
  /\ op[r] \in InviteOps /\ pc[r] \in {"mail", "ok"} => Invited(r)
  /\ op[r] \in InviteOps /\ pc[r] \in {"find membership", "join"} /\ person[r].found
       => Email(r) \in DOMAIN users

MemberInv ==
  /\ PersonShapes
  /\ Inside(RegisterLabels, RegisterOps) /\ Inside(InviteLabels, InviteOps)
  /\ \A r \in Req : Owns(r)

\* Rows are added to the tables of accounts, and stay as they are.
Extends(f, g) == \A k \in DOMAIN f : k \in DOMAIN g /\ g[k] = f[k]

Grown == Extends(users, users') /\ Extends(companies, companies') /\ Extends(joined, joined')

-----------------------------------------------------------------------------
(* Files.                                                                  *)

FileShapes == DOMAIN file = Req /\ \A r \in Req : DOMAIN file[r] = {"name", "failed"}

\* The upload of a row, or of its object, has been answered.
Stored(a) == a = 0 \/ (a \in Req /\ pc[a] = "ok")

\* What is known of a request at a statement of Files.
FileAt(s) ==
  /\ pc[s] \in {"put", "insert file"} => file[s].name = s
  /\ pc[s] = "insert file" => s \in objects
  /\ pc[s] \in {"find file", "remove object", "delete file"}
       => On(s) = "attachment" /\ Stored(file[s].name)
  /\ pc[s] = "find file" => Does(s, "url") \/ Does(s, "remove")
  /\ pc[s] \in {"remove object", "delete file"} => Does(s, "remove")
  /\ pc[s] = "delete file" /\ ~file[s].failed => file[s].name \notin objects
  /\ file[s].failed => pc[s] \in {"delete file"} \cup Answered

FileInv ==
  /\ FileShapes
  /\ \A s \in Req : FileAt(s)
  /\ \A a \in attachments : Stored(a)
  /\ FilesAccountedFor

\* What accounts for a row without an object, and for an object without a row.
Cut(s, a) == Removing(s, a) /\ pc[s] \in {"delete file", "aborted"}

Failed(s, a) == Removing(s, a) /\ file[s].failed
Uploading(a) == a \in Req /\ pc[a] \in {"insert file", "aborted"}

-----------------------------------------------------------------------------
(* Tasks.                                                                  *)

TaskShapes ==
  /\ \A t \in DOMAIN tasks : DOMAIN tasks[t] = {"status", "dated", "born", "project"}
  /\ DOMAIN job = Req
  /\ \A r \in Req : DOMAIN job[r] = {"task", "status", "project", "dates"}

\* A task there was, or one whose creation has been answered: it is not created again.
Settled(t) == t = 0 \/ (t \in Req /\ pc[t] = "ok")

Dated(t) == tasks[t].dated \/ tasks[t].born = "DONE"

\* An update that sets DONE and does not date its task need not.
JobAt(s) ==
  /\ pc[s] \in {"find task", "write task", "delete task"} => Settled(job[s].task)
  /\ /\ pc[s] = "write task" /\ job[s].status = "DONE" /\ ~job[s].dates
     /\ job[s].task \in DOMAIN tasks
     => Dated(job[s].task)

TaskInv ==
  /\ TaskShapes
  /\ \A t \in DOMAIN tasks : Settled(t)
  /\ \A s \in Req : JobAt(s)
  /\ DoneIsDated

-----------------------------------------------------------------------------
(* The records together.                                                   *)

RecordsInv == PayrollInv /\ AddsInv /\ EDocumentInv /\ MemberInv /\ FileInv /\ TaskInv

-----------------------------------------------------------------------------
(* Guards.                                                                 *)

\* The handlers that read, register or sign in, and their statements.
ReadActs == {"get", "list", "report", "trial", "url", "login", "refresh", "switch",
             "register"}

Reading == ({"get"} \X {"find"}) \cup ({"list"} \X {"page", "total"})
           \cup ({"report"} \X {"find account", "sum"})
           \cup ({"trial"} \X {"group", "name"})
           \cup ({"url"} \X {"find file", "presign"})
           \cup ({"login", "refresh", "switch"}
                \X {"find member", "read roles", "read permissions"})
           \cup ({"register"} \X {"find user", "find company", "register"})

ReadLabels == {"find", "page", "total", "find account", "sum", "group", "name",
               "find file", "presign", "find member", "read roles", "read permissions",
               "find user", "find company", "register"}

\* A handler that reads is at one of its statements.
ReadsOnly(r) ==
  op[r][1] \in ReadActs =>
    pc[r] \in {"idle"} \cup Answered \/ <<op[r][1], pc[r]>> \in Reading

\* A request in flight came with a token that its route lets through.
Passed(r) ==
  InFlight(r) => op[r] \in Ops /\ (may[r] = "all" \/ Allows("reader", op[r]))

GuardInv == RequestTypes /\ \A r \in Req : ReadsOnly(r) /\ Passed(r)

\* A route is one of a handler that reads, or one that is guarded.
Guarded(x) == x.op[1] \in ReadActs \/ (x.needs[2] # "read" /\ x.audited)

\* r is at a statement no reader comes to, or changes no table and still reads if it did.
Writing(r) == pc[r] \notin ReadLabels \cup {"idle"}

Harmless(r) == Writing(r) \/ (UNCHANGED Tables /\ (ReadsOnly(r) => ReadsOnly(r)'))

\* A step of a component.
ComponentStep(r) ==
  \/ MasterStep(r) \/ TreasuryStep(r) \/ JournalStep(r) \/ PersonnelStep(r)
  \/ EDocumentsStep(r) \/ FilesStep(r) \/ ProjectsStep(r) \/ AccessStep(r)
  \/ MembersStep(r)

\* What one step may do: WritesAreGuarded's action.
GuardedWrite ==
  \A r \in Req : pc'[r] # pc[r] /\ Tables' # Tables => may[r] = "all" /\ Audited(op[r])

-----------------------------------------------------------------------------
(* The main branch.                                                        *)

\* Requests that came while another was in flight are said to have met.
Overlaps ==
  /\ \A r \in Req : pc[r] = "idle" => op[r] = NoOp
  /\ \A r, s \in Req : r # s /\ InFlight(r) /\ InFlight(s) => Met(r, s)

\* What a form says of the main branch, and where the handlers are that say yes.
Saying ==
  /\ DOMAIN form = Req /\ DOMAIN left = Req /\ DOMAIN held = Req
  /\ \A r \in Req : /\ DOMAIN form[r] = FormFields
                    /\ form[r].main \in {"unsaid", "yes", "no"}

SetterLabels == {"find", "find mains", "clear", "insert", "write"}

Setters ==
  \A r \in Req : form[r].main = "yes" =>
    /\ On(r) = "branch" /\ pc[r] \in SetterLabels \cup Answered
    /\ pc[r] = "find" => Does(r, "update")

\* Two that set the main branch have met.
Clash == \E r, s \in Req : Met(r, s) /\ SetsMain(r) /\ SetsMain(s)

\* What r has yet to clear, and has cleared, are the other main branches.
Clears(r) ==
  /\ pc[r] = "clear" => mains \ {Row(r)} \subseteq left[r] \cup held[r]
  /\ pc[r] \in {"insert", "write"} => mains \ {Row(r)} \subseteq held[r]

OneMain == \A x, y \in mains : x = y

MainInv ==
  /\ Overlaps /\ Saying /\ Setters
  /\ Clash \/ (OneMain /\ \A r \in Req : form[r].main = "yes" => Clears(r))

\* r comes and meets those in flight, or takes a step, or is answered at once.
Meets(r) ==
  \/ pc[r] = "idle" /\ met' = met \cup {{r, s} : s \in {x \in Req : InFlight(x)}}
  \/ pc[r] # "idle" /\ met' = met
  \/ pc'[r] \in Answered /\ met' = met

SetterAt(r) ==
  form[r].main = "yes" =>
    /\ On(r) = "branch" /\ pc[r] \in SetterLabels \cup Answered
    /\ pc[r] = "find" => Does(r, "update")

\* A main branch may go, or r, done, has made its own the only one.
MainsStep(r) ==
  \/ /\ mains' \subseteq mains
     /\ form'[r].main = "yes" /\ (pc[r] # "idle" => Clears(r)) => Clears(r)'
  \/ /\ form[r].main = "yes" /\ InFlight(r) /\ pc'[r] \in Answered
     /\ Clears(r) => mains' \subseteq {Row(r)}

SaidBy(r) ==
  /\ Saying'
  /\ \A s \in Req \ {r} : form'[s] = form[s] /\ left'[s] = left[s] /\ held'[s] = held[s]
  /\ pc[r] # "idle" => form'[r].main = form[r].main /\ form'[r].id = form[r].id
  /\ SetterAt(r)' /\ MainsStep(r)

-----------------------------------------------------------------------------
(* The journal.                                                            *)

Even(lines) == Debits(lines) = Credits(lines)

JournalInv ==
  /\ DOMAIN draft = Req /\ DOMAIN trial = Req
  /\ \A e \in DOMAIN entries : /\ DOMAIN entries[e] = {"number", "lines", "status"}
                               /\ Even(entries[e].lines)
  /\ \A r \in Req : /\ DOMAIN draft[r] = {"lines", "number", "entry"}
                    /\ DOMAIN trial[r] = {"accounts", "debit", "credit", "named"}
                    /\ Even(draft[r].lines)
                    /\ trial[r].debit = trial[r].credit

-----------------------------------------------------------------------------
(* Access.                                                                 *)

Creating == <<"create", "role">>
Updating == <<"update", "role">>
Discarding == <<"remove", "role">>
Assigning == <<"assign", "member">>

\* A role of the start, or one whose create has inserted it.
Known(h) == h \in RoleNames /\ (h \in Req => pc[h] \notin {"idle", "insert role"})

Replacing == {"find pairs", "delete pairs", "insert pairs", "commit"}

AccessShapes ==
  /\ DOMAIN ask = Req /\ DOMAIN doomed = Req /\ DOMAIN gone = Req
  /\ DOMAIN coming = Req /\ DOMAIN read = Req /\ DOMAIN token = Req

\* A pair is of a role, or the member, that is there, and so is the role it names.
RolesInv ==
  /\ pairs \subseteq Pairs
  /\ \A h \in roles : Known(h)
  /\ \A x \in pairs : x[1] \in roles \cup {Member} /\ (x[1] = Member => x[2] \in roles)

\* What a request asks for: roles that are known, or permissions.
AskOK(r) ==
  /\ pc[r] = "idle" => ask[r] = NoAsk
  /\ op[r] = Creating => ask[r].items \cup ask[r].first \subseteq Permissions
  /\ pc[r] = "insert role" => Holder(r) = r
  /\ op[r] = Updating /\ pc[r] # "forbidden" =>
       Known(Holder(r)) /\ ask[r].items \cup ask[r].first \subseteq Permissions
  /\ op[r] = Assigning /\ pc[r] # "forbidden" =>
       Holder(r) = Member /\ \A h \in ask[r].items \cup ask[r].first : Known(h)

\* What a transaction has done so far.
TxnOK(r) ==
  /\ pc[r] \in Replacing => op[r] \in {Updating, Assigning}
  /\ pc[r] = "insert role" => op[r] = Creating
  /\ pc[r] = "find role" => op[r] \in {Updating, Discarding}
  /\ pc[r] = "check roles" => op[r] = Assigning
  /\ \A x \in doomed[r] \cup gone[r] : pc[r] \in Replacing /\ x[1] = Holder(r)
  /\ coming[r] = IF pc[r] = "commit" THEN Asked(r) ELSE {}
  /\ pc[r] = "commit" => \A x \in Asked(r) : Refers(x) \subseteq roles

Clashed(h) == \E r, s \in Req : Met(r, s) /\ Replaces(r, h) /\ Replaces(s, h)

Sweeps(r) ==
  /\ pc[r] = "delete pairs" =>
       \A x \in pairs : x[1] = Holder(r) => x \in doomed[r] \cup gone[r]
  /\ pc[r] \in {"insert pairs", "commit"} =>
       \A x \in pairs : x[1] = Holder(r) => x \in gone[r]

SweepOK(r) == Clashed(Holder(r)) \/ Sweeps(r)
MetOne(r, o) == \E s \in Req : Met(r, s) /\ op[s] = o

ReadOK(r) ==
  pc[r] = "read permissions" =>
    \A h \in read[r] :
      /\ Known(h)
      /\ h \in ItemsOf(Member) \/ h \notin roles \/ MetOne(r, Assigning)
      /\ ItemsOf(h) \subseteq had \/ MetOne(r, Updating)

TokenOK(r) == token[r] \subseteq had \/ (MetOne(r, Assigning) /\ MetOne(r, Updating))
RequestOK(r) == AskOK(r) /\ TxnOK(r) /\ SweepOK(r) /\ ReadOK(r) /\ TokenOK(r)

AccessInv ==
  /\ AccessShapes /\ RolesInv /\ Effective(pairs) \subseteq had
  /\ SetsAreAsAsked
  /\ \A r \in Req : RequestOK(r)

\* What the step of a request leaves alone.
Frame(r) ==
  /\ AccessShapes'
  /\ \A s \in Req \ {r} : /\ pc'[s] = pc[s] /\ op'[s] = op[s] /\ ask'[s] = ask[s]
                          /\ doomed'[s] = doomed[s] /\ gone'[s] = gone[s]
                          /\ coming'[s] = coming[s]
                          /\ read'[s] = read[s] /\ token'[s] = token[s]
  /\ met \subseteq met' /\ pc'[r] # "idle"
  /\ pc[r] = "idle" \/ (InFlight(r) /\ op'[r] = op[r] /\ ask'[r] = ask[r])
  /\ pc[r] # "idle" => pc'[r] \notin {"insert role", "forbidden"}

\* What a step must spare the others when it changes the tables.
LeavesAccess(r) ==
  /\ had \subseteq had'
  /\ \A s \in Req \ {r} :
       /\ pc[s] = "commit" => \A x \in Asked(s) : Refers(x) \subseteq roles'
       /\ pc[s] \in Replacing =>
            Clashed(Holder(s))' \/ \A x \in pairs' : x[1] = Holder(s) => x \in pairs
       /\ pc[s] = "read permissions" =>
            \A h : Known(h) =>
              /\ h \in roles' => h \in roles
              /\ h \in ItemsOf(Member) =>
                   h \in ItemsOf(Member)' \/ h \notin roles' \/ MetOne(s, Assigning)'
              /\ ItemsOf(h)' \subseteq ItemsOf(h) \/ MetOne(s, Updating)'

\* What a step must do to the set of a holder: nothing but take out roles that go; or
\* make it what r asks.
SetStep(r, h) ==
  \/ /\ h \in roles \cup {Member}
     /\ ItemsOf(h)' = ItemsOf(h) \cap (Permissions \cup roles')
     /\ \A i \in roles' : i \in roles \/ ~Known(i)
  \/ Settles(r, h)' /\ ItemsOf(h)' = ask'[r].items \cap (Permissions \cup roles')
  \/ Clashed(h)'

\* A request that comes notes the set as it is.
NotesFirst(r) == pc[r] = "idle" => \A h : Settles(r, h)' => ask'[r].first = ItemsOf(h)

\* Only a request that comes is turned away.
NotForbidden(r) == pc[r] = "idle" \/ pc'[r] # "forbidden"

\* What a step does to its request.
Advances(r) ==
  /\ met \subseteq met' /\ pc'[r] # "idle"
  /\ \A s \in Req \ {r} : pc'[s] = pc[s] /\ op'[s] = op[s]
  /\ pc[r] = "idle" \/ (InFlight(r) /\ op'[r] = op[r] /\ pc'[r] # "forbidden")

\* An answer, or a statement of another component: nothing is under way.
Resting(at) == at \notin AccessLabels /\ at # "idle"

\* The values a request has of its own.
OthersKeepAccess(r) ==
  /\ AccessShapes'
  /\ \A s \in Req \ {r} : /\ ask'[s] = ask[s] /\ doomed'[s] = doomed[s]
                          /\ gone'[s] = gone[s] /\ coming'[s] = coming[s]
                          /\ read'[s] = read[s] /\ token'[s] = token[s]
  /\ pc[r] = "idle" \/ (ask'[r] = ask[r] /\ pc'[r] # "insert role")

\* Somewhere else than in a transaction, or about to decide on one.
Quiet(at) == at \notin Replacing \cup {"insert role", "find role", "check roles",
                                       "read permissions", "idle"}

-----------------------------------------------------------------------------
(* The rows and the forms they are made from.                              *)

RowLabels == MasterLabels \cup TreasuryLabels
RowOps == MasterOps \cup TreasuryOps
Making == {"create", "adjust"}

\* The links a row may have, and the amount it may be about.
LinksFit(on, L) == \A y \in L : y \in Ids /\ y[1] \in Services[on].links

ValueFits(on, v) ==
  /\ v \in Int
  /\ on \in Valued => v > 0
  /\ on \notin Valued \cup {"bank_transaction"} => v = 0

RowsFit ==
  /\ IsFiniteSet(DOMAIN rows)
  /\ \A x \in DOMAIN rows :
       /\ x \in Ids /\ rows[x].code \in Nat
       /\ LinksFit(x[1], rows[x].links) /\ ValueFits(x[1], rows[x].value)

\* A row that was not there at first was created by its request.
RowsWereMade == \A r \in Req, on \in Resources : <<on, r>> \in DOMAIN rows => pc[r] = "ok"

FormFits(r) ==
  \/ form[r] = NoForm
  \/ /\ form[r].id \in Ids /\ form[r].code \in Nat /\ form[r].number \in Nat
     /\ LinksFit(form[r].id[1], form[r].links) /\ form[r].value \in Int

\* The form is about a row of the handler's resource, and the row it is to make.
FormIsOwn(r) ==
  pc[r] \notin {"idle", "forbidden"} /\ op[r] \in RowOps /\ ~Does(r, "list") =>
    /\ form[r].id \in Ids /\ form[r].id[1] = On(r)
    /\ LinksFit(On(r), form[r].links) /\ form[r].code \in Nat /\ form[r].number \in Nat
    /\ op[r][1] \in Making => form[r].id = <<On(r), r>>
    /\ op[r][1] \in Making \cup {"update"} => ValueFits(On(r), form[r].value)

\* Which handlers come to which statement.
InPlace(r) ==
  /\ pc[r] \in RowLabels => op[r] \in RowOps
  /\ pc[r] \in {"find kept", "count", "insert"} => op[r][1] \in Making
  /\ pc[r] \in {"find mains", "clear"} => op[r][1] \in {"create", "update"}
  /\ pc[r] = "write" => Does(r, "update")
  /\ pc[r] = "find" => op[r][1] \in {"get", "update", "remove"}
  /\ pc[r] \in {"count movements", "delete"} => Does(r, "remove")
  /\ pc[r] \in {"find account", "sum"} => Does(r, "report") /\ On(r) \in DOMAIN Reports
  /\ pc[r] \in {"find invoice", "void"} => op[r] = <<"cancel", "sales_invoice">>
  /\ pc[r] \in {"page", "total"} => Does(r, "list")

FormInv(r) == FormFits(r) /\ FormIsOwn(r) /\ InPlace(r) /\ left[r] \cup held[r] \subseteq Ids

RowsInv ==
  /\ RowsFit /\ RowsWereMade /\ mains \subseteq DOMAIN rows
  /\ \A r \in Req : FormInv(r)

\* Documents are not changed, and neither they nor accounts with a balance removed;
\* only stock is adjusted.
Documented == {"bank_transaction", "expense", "income", "collection", "payment",
               "sales_invoice", "purchase_invoice"}

Lasting(o) ==
  /\ o[1] = "update" => o[2] \notin Documented
  /\ o[1] = "remove" => o[2] \notin Documented \cup {"cash_account", "bank_account"}
  /\ o[1] = "adjust" => o[2] = "stock_movement"
  /\ o[2] # "none"

RowMade(r) ==
  /\ pc[r] = "insert" /\ pc'[r] = "ok" /\ Row(r) \notin DOMAIN rows /\ Acceptable(r)
  /\ DOMAIN rows' = DOMAIN rows \cup {Row(r)}
  /\ \A x \in DOMAIN rows : rows'[x] = rows[x]
  /\ DOMAIN rows'[Row(r)] = {"code", "links", "value"}
  /\ rows'[Row(r)].code = form[r].number /\ rows'[Row(r)].links = form[r].links
  /\ rows'[Row(r)].value = form[r].value

RowChanged(r) ==
  /\ pc[r] = "write" /\ Row(r) \in DOMAIN rows /\ Acceptable(r)
  /\ DOMAIN rows' = DOMAIN rows
  /\ \A x \in DOMAIN rows \ {Row(r)} : rows'[x] = rows[x]
  /\ DOMAIN rows'[Row(r)] = {"code", "links", "value"}
  /\ rows'[Row(r)].code = IF form[r].code = 0 THEN rows[Row(r)].code ELSE form[r].code
  /\ rows'[Row(r)].links \subseteq form[r].links \cup rows[Row(r)].links
  /\ rows'[Row(r)].value = form[r].value

RowRemoved(r) ==
  /\ pc[r] = "delete" /\ pc'[r] = "ok" /\ Row(r) \in DOMAIN rows /\ ~Needed(Row(r))
  /\ DOMAIN rows' = DOMAIN rows \ {Row(r)}
  /\ \A x \in DOMAIN rows \ {Row(r)} :
       /\ rows'[x].code = rows[x].code /\ rows'[x].value = rows[x].value
       /\ rows'[x].links = rows[x].links \ {Row(r)}

-----------------------------------------------------------------------------
(* Reports.                                                                *)

\* The tables from the i-th on.
Later(on, i) == {Reports[on][j].table : j \in {k \in DOMAIN Reports[on] : k >= i}}

Touches(x, id) == x \in DOMAIN rows /\ Concerns(x, id)
UpTerm(x, id) == IF Touches(x, id) /\ Effect(x, id) > 0 THEN Effect(x, id) ELSE 0
LessTerm(x, id) == IF Touches(x, id) /\ Effect(x, id) < 0 THEN -Effect(x, id) ELSE 0
VoidTerm(x, id) == IF Touches(x, id) /\ x \in voided THEN rows[x].value ELSE 0
DownTerm(x, id) == LessTerm(x, id) + VoidTerm(x, id)

\* What a report that has yet to read the tables T has yet to add.
DueTerm(x, id, T) ==
  IF Touches(x, id) /\ x \notin voided /\ x[1] \in T THEN Effect(x, id) ELSE 0

UpSum(id) == SumOf([x \in DOMAIN rows |-> UpTerm(x, id)], DOMAIN rows)
DownSum(id) == SumOf([x \in DOMAIN rows |-> DownTerm(x, id)], DOMAIN rows)
DueSum(id, T) == SumOf([x \in DOMAIN rows |-> DueTerm(x, id, T)], DOMAIN rows)

\* Only invoices are cancelled, and those there are.
Voids == \A x \in voided : x \in DOMAIN rows /\ x[1] = "sales_invoice"

\* Who points to an account, and who must.
Reported == {"cash_account", "customer", "supplier"}

\* What holds of the rows of any state holds of the next.
QuietFact ==
  RowsFit => \A id, x, T :
    id[1] \in DOMAIN Reports /\ (x \in DOMAIN rows => x[1] \notin Documented) =>
      UpTerm(x, id) = 0 /\ DownTerm(x, id) = 0 /\ DueTerm(x, id, T) = 0

WholeFact ==
  RowsFit => \A x, id, T :
    /\ UpTerm(x, id) \in Int /\ LessTerm(x, id) \in Int /\ VoidTerm(x, id) \in Int
    /\ DownTerm(x, id) \in Int /\ DueTerm(x, id, T) \in Int
    /\ x \in DOMAIN rows => rows[x].value \in Int /\ Effect(x, id) \in Int

\* What is due moves no further up than what came, and no further down than what
\* went.
MovesWithin(x, id, T) ==
  /\ DueTerm(x, id, T)' + UpTerm(x, id) <= UpTerm(x, id)' + DueTerm(x, id, T)
  /\ DueTerm(x, id, T) + DownTerm(x, id) <= DownTerm(x, id)' + DueTerm(x, id, T)'

\* The rows and the cancelled invoices change in one of these ways.
DocumentsStep(r) ==
  \/ rows' = rows /\ voided' = voided
  \/ /\ rows' = rows /\ voided' = voided \cup {Row(r)}
     /\ Row(r) \in DOMAIN rows /\ Row(r)[1] = "sales_invoice"
  \/ voided' = voided /\ (RowMade(r) \/ RowChanged(r) \/ RowRemoved(r))

Reporting(k) == Does(k, "report") /\ On(k) \in DOMAIN Reports

\* The tables a report has yet to read.
Rest(k) == IF pc[k] = "sum" THEN Later(On(k), reading[k]) ELSE {}

Within(k) ==
  LET due == DueSum(Row(k), Rest(k))
      b == before[k]
  IN /\ b.opening + b.up - DownSum(Row(k)) <= sofar[k] + due
     /\ sofar[k] + due <= b.opening + UpSum(Row(k)) - b.down

\* Where a report is, and an invoice to be cancelled.
ReportAt(k) ==
  /\ Does(k, "report") => pc[k] \in {"find account", "sum"} \cup Answered
  /\ pc[k] = "sum" => reading[k] \in DOMAIN Reports[On(k)]
  /\ pc[k] = "void" => Row(k) \in DOMAIN rows

ReportFits(k) ==
  /\ ReportAt(k)
  /\ Reporting(k) /\ pc[k] \in {"sum", "ok"} => Within(k)

ReportTypes ==
  /\ sofar \in [Req -> Int] /\ before \in [Req -> [opening : Int, up : Int, down : Int]]
  /\ DOMAIN reading = Req

ReportInv == ReportTypes /\ Voids /\ \A k \in Req : ReportFits(k)

\* An account a report is about, or that begins one, and any tables.
SumsWithin(id, T) ==
  /\ DueSum(id, T)' + UpSum(id) <= UpSum(id)' + DueSum(id, T)
  /\ DueSum(id, T) + DownSum(id) <= DownSum(id)' + DueSum(id, T)'
  /\ DueSum(id, T) \in Int /\ DueSum(id, T)' \in Int
  /\ UpSum(id) \in Int /\ UpSum(id)' \in Int
  /\ DownSum(id) \in Int /\ DownSum(id)' \in Int
-----------------------------------------------------------------------------
(* The codes that are counted.                                             *)

\* What leaves the codes of a resource other than counted, but for an overlap.
Untidy(s) == (Does(s, "remove") /\ pc[s] = "ok") \/ form[s].code # 0
Tidy(on) == \A s \in Req : On(s) = on => ~Untidy(s)

Disturbed(r) == \E s \in Req \ {r} : On(s) = On(r) /\ Disturbs(s, r)

\* No code is beyond the number of the rows.
CodesWithin ==
  \A on \in Resources : Tidy(on) =>
    \A x \in Peers(on) : rows[x].code <= Cardinality(Peers(on))

\* The number counted for r, and the rows it points to.
Counted(r) == form[r].code = 0 /\ form[r].number # 0

CountedFits(r) ==
  /\ pc[r] \in {"insert"} \cup Answered /\ op[r][1] \in Making
  /\ pc[r] = "insert" =>
       Disturbed(r) \/ \A x \in Peers(On(r)) : rows[x].code < form[r].number
  /\ pc[r] = "refused" => Disturbed(r) \/ ~(form[r].links \subseteq DOMAIN rows)

NumberFits(r) ==
  /\ pc[r] = "idle" => form[r] = NoForm
  /\ \A y \in form[r].links : y[2] \in Req => pc[y[2]] = "ok"
  /\ pc[r] = "insert" /\ form[r].code = 0 /\ Tidy(On(r)) =>
       form[r].number <= Cardinality(Peers(On(r))) + 1
  /\ Counted(r) => CountedFits(r)

CodesInv == CodesWithin /\ \A r \in Req : NumberFits(r)

\* What r's step does to the forms, and the answer to an insert.
NumberStep(r) ==
  /\ \A s \in Req \ {r} : form'[s] = form[s]
  /\ \/ form'[r] = form[r]
     \/ /\ pc[r] = "idle" /\ form'[r].number = form'[r].code
        /\ form'[r].links \subseteq DOMAIN rows
     \/ /\ pc[r] = "count" /\ pc'[r] = "insert" /\ form'[r].code = form[r].code
        /\ form'[r].links = form[r].links
        /\ form'[r].number = Cardinality(Peers(On(r))) + 1
  /\ pc[r] = "insert" =>
       /\ form'[r] = form[r]
       /\ pc'[r] \in {"ok", "aborted"} \/ (pc'[r] = "refused" /\ ~Acceptable(r))

\* The rows of one resource: the others' steps, and a tidy one's, leave them their
\* codes and add one row at most.
OneMore(r, on) ==
  /\ RowMade(r) /\ on = On(r) /\ form[r].code = 0
  /\ DOMAIN rows' = DOMAIN rows \cup {Row(r)} /\ Row(r)[1] = on
  /\ Cardinality(Peers(on))' = Cardinality(Peers(on)) + 1

-----------------------------------------------------------------------------
(* Types.                                                                  *)

MasterTypes ==
  /\ \A id \in DOMAIN rows : rows[id] \in RowType
  /\ form \in [Req -> Form \cup {NoForm}]
  /\ left \in [Req -> SUBSET Ids] /\ held \in [Req -> SUBSET Ids]

\* Entries and their lines are finitely many.
JournalTypes ==
  /\ JournalTypeOK /\ cited \subseteq Ids /\ IsFiniteSet(DOMAIN entries)
  /\ \A e \in DOMAIN entries : IsFiniteSet(entries[e].lines)
  /\ \A r \in Req : IsFiniteSet(draft[r].lines)

\* What a request has in hand, and what it has at the statements that use it.
SheetLabels == PayLabels \cup {"find attendee", "upsert"}
Sheet == [employee : Employees \cup {<<"employee", 1>>}, date : Nat \X Nat, gross : Int,
          bonuses : Int, other : Int, pay : Breakdown, payroll : Req \cup {Nobody}]

PersonnelTypes ==
  /\ PersonnelTypeOK /\ sheet \in [Req -> Sheet]
  /\ \A r \in Req : pc[r] \in SheetLabels =>
       sheet[r].employee \in Employees /\ sheet[r].date \in Dates

SalesInvoices == {"sales_invoice"} \X ((1 .. Olds) \cup Req)
Paper == [invoice : SalesInvoices \cup {<<"sales_invoice", 1>>}, waybill : Waybills,
          doc : Req \cup {Nobody}]

EDocumentTypes ==
  /\ EDocumentsTypeOK /\ paper \in [Req -> Paper]
  /\ \A r \in Req : pc[r] \in InvoiceLabels => paper[r].invoice \in SalesInvoices

CreateTaskLabels == {"find project", "insert task"}
TaskTypes ==
  /\ ProjectsTypeOK
  /\ \A r \in Req : pc[r] \in CreateTaskLabels => job[r].status \in TaskStatus

\* What a transaction has done so far, and a sign-in has read.
AskTypes(r) ==
  /\ ask[r].holder \in Holders /\ doomed[r] \subseteq Pairs /\ gone[r] \subseteq Pairs
  /\ read[r] \subseteq RoleNames /\ token[r] \subseteq Permissions

AccessTypes ==
  /\ active \in BOOLEAN /\ had \subseteq Permissions
  /\ \A r \in Req : AskTypes(r)

MemberTypes ==
  /\ MembersTypeOK /\ PersonShapes
  /\ \A r \in Req : /\ pc[r] \in RegisterLabels \cup InviteLabels => Email(r) \in Emails
                    /\ pc[r] \in RegisterLabels => TaxNumber(r) \in TaxNumbers

TypesInv ==
  /\ met \subseteq SUBSET Req /\ reading \in [Req -> 0 .. 5]
  /\ MasterTypes /\ JournalTypes /\ PersonnelTypes /\ EDocumentTypes /\ FilesTypeOK
  /\ TaskTypes /\ AccessTypes /\ MemberTypes

\* The requests that do not step stay where they are; r comes to none of `labels`.
Misses(r, labels) == pc'[r] \notin labels /\ \A s \in Req \ {r} : pc'[s] = pc[s]
=============================================================================
