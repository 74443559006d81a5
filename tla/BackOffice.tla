----------------------------- MODULE BackOffice ------------------------------
(***************************************************************************)
(* The back office of apps/api/src/modules: the components below share one *)
(* data base, one pool of requests and the guards in front of them.        *)
(* Any step of any request may fall between two steps of another; a        *)
(* process that stops, a data base error or a deadlock ends a request      *)
(* between two of its steps.                                               *)
(***************************************************************************)
EXTENDS Treasury, Journal, Personnel, EDocuments, Files, Projects, Access, Members

vars == <<requestVars, masterVars, treasuryVars, journalVars, personnelVars, edocVars,
          fileVars, taskVars, accessVars, memberVars>>

Init ==
  /\ RequestsInit /\ MasterInit /\ TreasuryInit /\ JournalInit /\ cited = JournalCites
  /\ PersonnelInit /\ EDocumentsInit /\ FilesInit /\ ProjectsInit
  /\ AccessInit /\ MembersInit

-----------------------------------------------------------------------------
MasterStep(r) ==
  /\ MasterStart(r) \/ MasterWork(r)
  /\ UNCHANGED <<treasuryVars, journalVars, personnelVars, edocVars, fileVars, taskVars,
                 accessVars, memberVars>>

TreasuryStep(r) ==
  /\ TreasuryStart(r) \/ TreasuryWork(r)
  /\ UNCHANGED <<journalVars, personnelVars, edocVars, fileVars, taskVars, accessVars,
                 memberVars>>

JournalStep(r) ==
  /\ JournalStart(r) \/ JournalWork(r)
  /\ UNCHANGED <<treasuryVars, personnelVars, edocVars, fileVars, taskVars, accessVars,
                 memberVars>>

PersonnelStep(r) ==
  /\ PersonnelStart(r) \/ PersonnelWork(r)
  /\ UNCHANGED <<treasuryVars, journalVars, edocVars, fileVars, taskVars, accessVars,
                 memberVars>>

EDocumentsStep(r) ==
  /\ EDocumentsStart(r) \/ EDocumentsWork(r)
  /\ UNCHANGED <<treasuryVars, journalVars, personnelVars, fileVars, taskVars, accessVars,
                 memberVars>>

FilesStep(r) ==
  /\ FilesStart(r) \/ FilesWork(r)
  /\ UNCHANGED <<masterVars, treasuryVars, journalVars, personnelVars, edocVars, taskVars,
                 accessVars, memberVars>>

ProjectsStep(r) ==
  /\ ProjectsStart(r) \/ ProjectsWork(r)
  /\ UNCHANGED <<treasuryVars, journalVars, personnelVars, edocVars, fileVars, accessVars,
                 memberVars>>

AccessStep(r) ==
  /\ AccessStart(r) \/ AccessWork(r)
  /\ UNCHANGED <<masterVars, treasuryVars, journalVars, personnelVars, edocVars, fileVars,
                 taskVars, memberVars>>

MembersStep(r) ==
  /\ MembersStart(r) \/ MembersWork(r)
  /\ UNCHANGED <<masterVars, treasuryVars, journalVars, personnelVars, edocVars, fileVars,
                 taskVars, accessVars>>

\* PermissionsGuard answers 403.
Forbid(r) ==
  /\ TurnAway(r)
  /\ UNCHANGED <<masterVars, treasuryVars, journalVars, personnelVars, edocVars, fileVars,
                 taskVars, accessVars, memberVars>>

\* The request ends between two steps; an open transaction is rolled back.
Abort(r) ==
  /\ InFlight(r) /\ Goto(r, "aborted")
  /\ MasterDrop(r) /\ AccessDrop(r)
  /\ UNCHANGED <<treasuryVars, journalVars, personnelVars, edocVars, fileVars, taskVars,
                 memberVars>>

\* The queue worker of the e-documents.
Worker ==
  /\ Transmit
  /\ UNCHANGED <<treasuryVars, journalVars, personnelVars, fileVars, taskVars, accessVars,
                 memberVars>>

Next ==
  \/ \E r \in Req :
       \/ MasterStep(r) \/ TreasuryStep(r) \/ JournalStep(r) \/ PersonnelStep(r)
       \/ EDocumentsStep(r) \/ FilesStep(r) \/ ProjectsStep(r) \/ AccessStep(r)
       \/ MembersStep(r) \/ Forbid(r) \/ Abort(r)
  \/ Worker

Spec == Init /\ [][Next]_vars

-----------------------------------------------------------------------------
\* The statements at which the handlers of each component are.
MasterLabels == {"find kept", "count", "find mains", "clear", "insert", "find", "write",
                 "page", "total", "count movements", "delete"}

TreasuryLabels == {"find account", "sum", "find invoice", "void"}
JournalLabels == {"find accounts", "count entries", "insert entry", "find entry", "post",
                  "reread", "group", "name"}

PersonnelLabels == {"find payee", "find period", "insert payroll", "find payroll",
                    "approve", "find attendee", "upsert"}

EDocumentLabels == {"find sales invoice", "find issued", "insert e-invoice",
                    "find waybill", "find issued waybill", "insert e-waybill",
                    "find e-invoice", "cancel e-invoice", "reread e-invoice"}

FileLabels == {"put", "insert file", "find file", "presign", "remove object",
               "delete file"}

TaskLabels == {"find project", "insert task", "find task", "write task", "delete task"}
AccessLabels == {"insert role", "find role", "check roles", "find pairs", "delete pairs",
                 "insert pairs", "commit", "delete role", "set status", "find member",
                 "read roles", "read permissions"}

MemberLabels == {"find user", "find company", "register", "find invited",
                 "find membership", "join", "mail"}

Labels == {"idle"} \cup Answered \cup MasterLabels \cup TreasuryLabels \cup JournalLabels
          \cup PersonnelLabels \cup EDocumentLabels \cup FileLabels \cup TaskLabels
          \cup AccessLabels \cup MemberLabels

RequestTypes ==
  /\ scene \in Scenes
  /\ pc \in [Req -> Labels]
  /\ op \in [Req -> Ops \cup {NoOp}]
  /\ may \in [Req -> {"nothing", "reader", "all"}]

\* A request is at a statement there is, in a handler that is routed, and the tables and
\* what the requests have in hand are of their types.
TypeOK ==
  /\ RequestTypes /\ met \subseteq SUBSET Req
  /\ MasterTypeOK /\ TreasuryTypeOK /\ JournalTypeOK /\ PersonnelTypeOK
  /\ EDocumentsTypeOK /\ FilesTypeOK /\ ProjectsTypeOK /\ AccessTypeOK /\ MembersTypeOK

\* What is created once is kept: a create, issue, registration or invitation that was
\* answered is in the table and the only one of its kind, though each of these handlers
\* looks for a rival in one statement and inserts in another.
CreatedIsKept == PayrollIsKept /\ EDocumentIsKept /\ MemberIsKept

Tables == <<rows, mains, voided, entries, payrolls, attendances, einvoices, ewaybills,
            attachments, objects, tasks, roles, pairs, active, joined>>

\* Whatever changes a table of the company comes from a request whose route asks for
\* more than a "read" permission, and is audited.
WritesAreGuarded ==
  [][\A r \in Req : pc'[r] # pc[r] /\ Tables' # Tables
                      => may[r] = "all" /\ Audited(op[r])]_vars
=============================================================================
