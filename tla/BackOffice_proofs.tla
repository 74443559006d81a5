-------------------------- MODULE BackOffice_proofs --------------------------
(***************************************************************************)
(* Theorems about BackOffice, for any scenes and any number of requests    *)
(* and rows.                                                               *)
(*                                                                         *)
(* The frame: each component moves a request among statements of its own,  *)
(* so that what is said of requests at one component's statements outlives *)
(* the steps of all others.  References: what points to a row finds it.    *)
(* Records: what was answered as created is kept, once, and adds up.       *)
(* Guards: what changes a table comes from a guarded, audited route.       *)
(* The main branch: clearing the others first leaves one, unless two that  *)
(* set one overlap.  The journal: what is read from lines that balance     *)
(* balances.  Access: what a transaction has swept and what a sign-in has  *)
(* read account for the roles and the tokens.  Rows: what the rows and the *)
(* forms they are made from hold.  Reports: what a report has added up and *)
(* has yet to add lies within what was committed since it began.  Codes:   *)
(* what a create counted is beyond every code, or somebody disturbed it.   *)
(* Types: what every variable, and what a request has in hand, holds.      *)
(***************************************************************************)
EXTENDS BackOffice_invariants

-----------------------------------------------------------------------------
LEMMA AnsweredFacts == \A x \in Answered : x \in Labels /\ x # "idle"
BY DEF Answered, Labels

LEMMA BeginOps ==
  ASSUME RequestTypes, NEW r, NEW o, NEW at, Begin(r, o, at)
  PROVE  o \in Ops
BY RequestsAssumption DEF Begin, RequestTypes

LEMMA BeginMoves ==
  ASSUME RequestTypes, NEW r \in Req, NEW o, NEW at, Begin(r, o, at),
         NEW labels, NEW ops, o \in Ops => o \in ops, at \in labels \cup Answered
  PROVE  MovesAmong(r, labels, ops)
BY BeginOps DEF Begin, Idle, MovesAmong

LEMMA WorksMoves ==
  ASSUME RequestTypes, NEW r \in Req, NEW labels, NEW ops, Works(r, labels)
  PROVE  MovesAmong(r, labels, ops)
<1>1. CASE UNCHANGED requestVars
  BY <1>1 DEF RequestTypes, requestVars, MovesAmong, Works
<1>2. CASE \E at \in labels \cup {"ok", "refused"} : Goto(r, at)
  <2>1. PICK at \in labels \cup {"ok", "refused"} : Goto(r, at)
    BY <1>2
  <2>2. pc'[r] = at /\ at \in labels \cup Answered
    BY <2>1 DEF Goto, RequestTypes, Answered
  <2> QED
    BY <2>1, <2>2 DEF Goto, MovesAmong, Works
<1> QED
  BY <1>1, <1>2 DEF Works

LEMMA MovesElsewhere ==
  ASSUME RequestTypes, NEW r \in Req, NEW L, NEW O, NEW labels, NEW ops, MovesAmong(r, L, O),
         \A x \in L : x \in Labels /\ x \notin labels,
         \A x \in L \cup labels : x \notin Answered /\ x # "idle",
         \A o \in O \cap Ops : o \notin ops
  PROVE  Elsewhere(r, labels, ops)
<1>1. pc[r] \notin labels \cup Answered
  BY DEF MovesAmong, Answered
<1>2. PICK at \in L \cup Answered : pc' = [pc EXCEPT ![r] = at]
  BY DEF MovesAmong
<1>3. at \in Labels \ (labels \cup {"idle"})
  BY AnsweredFacts, <1>2
<1>4. op' = op \/ (pc[r] = "idle" /\ \E o : o \notin ops /\ op' = [op EXCEPT ![r] = o])
  BY DEF MovesAmong
<1> QED
  BY <1>1, <1>2, <1>3, <1>4 DEF Elsewhere

-----------------------------------------------------------------------------
(* Each component moves requests among its own statements.                 *)

LEMMA CreateStarts ==
  ASSUME NEW r, StartCreate(r)
  PROVE  \E on \in Resources \cap About, act \in {"create", "adjust"} : Creation(r, on, act)
<1>1. PICK on \in Resources \cap About, act \in {"create", "adjust"} :
        \E code \in TypedCodes(on), L \in LinkChoices(on), v \in Values(on),
           main \in Mains(on) :
          /\ Routed(<<act, on>>) /\ Kept(on, L)
          /\ Begin(r, <<act, on>>, IF on \in Careful THEN "find kept"
                                                    ELSE NumberAt(on, code, main))
          /\ Asks(r, <<on, r>>, code, L, v, main)
  BY DEF StartCreate
<1>2. Creation(r, on, act)
  BY <1>1 DEF Creation
<1> QED
  BY <1>2

\* A step of a component moves its request among the component's own statements.
LEMMA MasterMoves ==
  ASSUME RequestTypes, NEW r \in Req, MasterStart(r) \/ MasterWork(r)
  PROVE  MovesAmong(r, MasterLabels, MasterOps)
<1>1. \A o \in Ops : o[1] \in {"create", "adjust", "update", "get", "remove", "list"}
                       /\ o[2] \in Resources => o \in MasterOps
  BY DEF MasterOps
<1>2. CASE StartCreate(r)
  <2>1. PICK on \in Resources \cap About, act \in {"create", "adjust"} :
          Creation(r, on, act)
    BY <1>2, CreateStarts
  <2>2. \A code, main : (IF on \in Careful THEN "find kept"
                         ELSE NumberAt(on, code, main)) \in MasterLabels
    BY DEF NumberAt, MasterLabels
  <2>3. PICK at \in MasterLabels : Begin(r, <<act, on>>, at)
    BY Zenon, <2>1, <2>2 DEF Creation
  <2> QED
    BY <1>1, <2>1, <2>3, BeginMoves
<1>3. CASE StartUpdate(r) \/ StartOne(r) \/ StartList(r)
  <2>1. PICK on \in Resources, act \in {"update", "get", "remove", "list"},
             at \in MasterLabels :
          Begin(r, <<act, on>>, at)
    BY Zenon, <1>3 DEF StartUpdate, StartOne, StartList, MasterLabels
  <2> QED
    BY <1>1, <2>1, BeginMoves
<1>4. CASE MasterWork(r)
  <2>1. Works(r, MasterLabels)
    BY Zenon, <1>4
       DEF MasterWork, FindKept, CountRows, InsertRow, FindRow, UpdateRow, ReadPage,
           CountPage, CountMovements, DeleteRow, Delete, FindMains, ClearMain,
           MainsCleared, NumberAt, MasterLabels, Works, Answer, Answered
  <2> QED
    BY <2>1, WorksMoves
<1> QED
  BY <1>2, <1>3, <1>4 DEF MasterStart

LEMMA TreasuryMoves ==
  ASSUME RequestTypes, NEW r \in Req, TreasuryStart(r) \/ TreasuryWork(r)
  PROVE  MovesAmong(r, TreasuryLabels, TreasuryOps)
<1>1. CASE StartReport(r)
  <2>1. PICK id \in DOMAIN rows, at \in TreasuryLabels :
          Begin(r, <<"report", id[1]>>, at)
    BY Zenon, <1>1 DEF StartReport, TreasuryLabels
  <2>2. <<"report", id[1]>> \in Ops => <<"report", id[1]>> \in TreasuryOps
    BY DEF TreasuryOps
  <2> QED
    BY <2>1, <2>2, BeginMoves
<1>2. CASE StartCancel(r)
  <2>1. PICK at \in TreasuryLabels : Begin(r, <<"cancel", "sales_invoice">>, at)
    BY Zenon, <1>2 DEF StartCancel, TreasuryLabels
  <2> QED
    BY <2>1, BeginMoves DEF TreasuryOps
<1>3. CASE TreasuryWork(r)
  <2>1. Works(r, TreasuryLabels)
    BY Zenon, <1>3
       DEF TreasuryWork, FindAccount, SumNext, FindInvoice, CancelInvoice, TreasuryLabels,
           Works, Answer, Answered
  <2> QED
    BY <2>1, WorksMoves
<1> QED
  BY <1>1, <1>2, <1>3 DEF TreasuryStart

LEMMA JournalMoves ==
  ASSUME RequestTypes, NEW r \in Req, JournalStart(r) \/ JournalWork(r)
  PROVE  MovesAmong(r, JournalLabels, JournalOps)
<1>1. CASE JournalStart(r)
  <2>1. PICK act \in {"create", "post", "trial"}, at \in JournalLabels \cup Answered :
          Begin(r, <<act, "journal_entry">>, at)
    BY Zenon, <1>1
       DEF JournalStart, StartEntry, StartPost, StartTrial, JournalLabels, Answered
  <2> QED
    BY <2>1, BeginMoves DEF JournalOps
<1>2. CASE JournalWork(r)
  <2>1. Works(r, JournalLabels)
    BY Zenon, <1>2
       DEF JournalWork, FindAccounts, CountEntries, InsertEntry, FindEntry, PostEntry,
           RereadEntry, GroupLines, NameAccounts, JournalLabels, Works, Answer, Answered
  <2> QED
    BY <2>1, WorksMoves
<1> QED
  BY <1>1, <1>2

LEMMA PersonnelMoves ==
  ASSUME RequestTypes, NEW r \in Req, PersonnelStart(r) \/ PersonnelWork(r)
  PROVE  MovesAmong(r, PersonnelLabels, PersonnelOps)
<1>1. CASE PersonnelStart(r)
  <2>1. PICK o \in PersonnelOps, at \in PersonnelLabels : Begin(r, o, at)
    BY Zenon, <1>1
       DEF PersonnelStart, StartPayroll, StartApprove, StartAttendance, PersonnelLabels,
           PersonnelOps
  <2> QED
    BY <2>1, BeginMoves
<1>2. CASE PersonnelWork(r)
  <2>1. Works(r, PersonnelLabels)
    BY Zenon, <1>2
       DEF PersonnelWork, FindPayee, FindPeriod, InsertPayroll, FindPayroll,
           ApprovePayroll, FindAttendee, RecordAttendance, PersonnelLabels, Works, Answer,
           Answered
  <2> QED
    BY <2>1, WorksMoves
<1> QED
  BY <1>1, <1>2

LEMMA EDocumentMoves ==
  ASSUME RequestTypes, NEW r \in Req, EDocumentsStart(r) \/ EDocumentsWork(r)
  PROVE  MovesAmong(r, EDocumentLabels, EDocumentOps)
<1>1. CASE EDocumentsStart(r)
  <2>1. PICK o \in EDocumentOps, at \in EDocumentLabels : Begin(r, o, at)
    BY Zenon, <1>1
       DEF EDocumentsStart, StartIssueInvoice, StartIssueWaybill, StartCancelEInvoice,
           EDocumentLabels, EDocumentOps
  <2> QED
    BY <2>1, BeginMoves
<1>2. CASE EDocumentsWork(r)
  <2>1. Works(r, EDocumentLabels)
    BY Zenon, <1>2
       DEF EDocumentsWork, FindSalesInvoice, FindIssued, InsertEInvoice, FindWaybill,
           FindIssuedWaybill, InsertEWaybill, FindEInvoice, CancelEInvoice, RereadEInvoice,
           EDocumentLabels, Works, Answer, Answered
  <2> QED
    BY <2>1, WorksMoves
<1> QED
  BY <1>1, <1>2

LEMMA FileMoves ==
  ASSUME RequestTypes, NEW r \in Req, FilesStart(r) \/ FilesWork(r)
  PROVE  MovesAmong(r, FileLabels, FileOps)
<1>1. CASE FilesStart(r)
  <2>1. PICK o \in FileOps, at \in FileLabels : Begin(r, o, at)
    BY Zenon, <1>1 DEF FilesStart, StartUpload, StartFile, FileLabels, FileOps
  <2> QED
    BY <2>1, BeginMoves
<1>2. CASE FilesWork(r)
  <2>1. Works(r, FileLabels)
    BY Zenon, <1>2
       DEF FilesWork, PutObject, PutFails, InsertFile, FindFile, Presign, RemoveObject,
           RemoveFails, DeleteFile, FileLabels, Works, Answer, Answered
  <2> QED
    BY <2>1, WorksMoves
<1> QED
  BY <1>1, <1>2

LEMMA TaskMoves ==
  ASSUME RequestTypes, NEW r \in Req, ProjectsStart(r) \/ ProjectsWork(r)
  PROVE  MovesAmong(r, TaskLabels, TaskOps)
<1>1. CASE ProjectsStart(r)
  <2>1. PICK o \in TaskOps, at \in TaskLabels : Begin(r, o, at)
    BY Zenon, <1>1 DEF ProjectsStart, StartTask, StartChange, TaskLabels, TaskOps
  <2> QED
    BY <2>1, BeginMoves
<1>2. CASE ProjectsWork(r)
  <2>1. Works(r, TaskLabels)
    BY Zenon, <1>2
       DEF ProjectsWork, FindProject, InsertTask, FindTask, WriteTask, DeleteTask,
           TaskLabels, Works, Answer, Answered
  <2> QED
    BY <2>1, WorksMoves
<1> QED
  BY <1>1, <1>2

LEMMA AccessMoves ==
  ASSUME RequestTypes, NEW r \in Req, AccessStart(r) \/ AccessWork(r)
  PROVE  MovesAmong(r, AccessLabels, AccessOps)
<1>1. CASE AccessStart(r)
  <2>1. PICK o \in AccessOps, at \in AccessLabels : Begin(r, o, at)
    BY Zenon, <1>1
       DEF AccessStart, StartCreateRole, StartUpdateRole, StartRemoveRole, StartAssign,
           StartSetStatus, StartSignIn, AccessLabels, AccessOps
  <2> QED
    BY <2>1, BeginMoves
<1>2. CASE AccessWork(r)
  <2>1. Works(r, AccessLabels)
    BY Zenon, <1>2
       DEF AccessWork, InsertRole, FindRole, CheckRoles, FindPairs, DeletePair,
           PairsDeleted, InsertPairs, CommitPairs, DeleteRole, SetStatus, FindMember,
           ReadRoles, ReadPermissions, AccessLabels, Works, Answer, Answered
  <2> QED
    BY <2>1, WorksMoves
<1> QED
  BY <1>1, <1>2

LEMMA MemberMoves ==
  ASSUME RequestTypes, NEW r \in Req, MembersStart(r) \/ MembersWork(r)
  PROVE  MovesAmong(r, MemberLabels, MemberOps)
<1>1. CASE MembersStart(r)
  <2>1. PICK o \in MemberOps, at \in MemberLabels : Begin(r, o, at)
    BY Zenon, <1>1 DEF MembersStart, StartRegister, StartInvite, MemberLabels, MemberOps
  <2> QED
    BY <2>1, BeginMoves
<1>2. CASE MembersWork(r)
  <2>1. Works(r, MemberLabels)
    BY Zenon, <1>2
       DEF MembersWork, FindUser, FindCompany, Register, FindInvited, FindMembership, Join,
           SendMail, MemberLabels, Works, Answer, Answered
  <2> QED
    BY <2>1, WorksMoves
<1> QED
  BY <1>1, <1>2

-----------------------------------------------------------------------------
LEMMA StepMoves ==
  ASSUME RequestTypes, NEW r \in Req
  PROVE  /\ MasterStep(r) => MovesAmong(r, MasterLabels, MasterOps)
         /\ TreasuryStep(r) => MovesAmong(r, TreasuryLabels, TreasuryOps)
         /\ JournalStep(r) => MovesAmong(r, JournalLabels, JournalOps)
         /\ PersonnelStep(r) => MovesAmong(r, PersonnelLabels, PersonnelOps)
         /\ EDocumentsStep(r) => MovesAmong(r, EDocumentLabels, EDocumentOps)
         /\ FilesStep(r) => MovesAmong(r, FileLabels, FileOps)
         /\ ProjectsStep(r) => MovesAmong(r, TaskLabels, TaskOps)
         /\ AccessStep(r) => MovesAmong(r, AccessLabels, AccessOps)
         /\ MembersStep(r) => MovesAmong(r, MemberLabels, MemberOps)
<1>1. MasterStep(r) => MovesAmong(r, MasterLabels, MasterOps)
  BY MasterMoves DEF MasterStep
<1>2. TreasuryStep(r) => MovesAmong(r, TreasuryLabels, TreasuryOps)
  BY TreasuryMoves DEF TreasuryStep
<1>3. JournalStep(r) => MovesAmong(r, JournalLabels, JournalOps)
  BY JournalMoves DEF JournalStep
<1>4. PersonnelStep(r) => MovesAmong(r, PersonnelLabels, PersonnelOps)
  BY PersonnelMoves DEF PersonnelStep
<1>5. EDocumentsStep(r) => MovesAmong(r, EDocumentLabels, EDocumentOps)
  BY EDocumentMoves DEF EDocumentsStep
<1>6. FilesStep(r) => MovesAmong(r, FileLabels, FileOps)
  BY FileMoves DEF FilesStep
<1>7. ProjectsStep(r) => MovesAmong(r, TaskLabels, TaskOps)
  BY TaskMoves DEF ProjectsStep
<1>8. AccessStep(r) => MovesAmong(r, AccessLabels, AccessOps)
  BY AccessMoves DEF AccessStep
<1>9. MembersStep(r) => MovesAmong(r, MemberLabels, MemberOps)
  BY MemberMoves DEF MembersStep
<1> QED
  BY <1>1, <1>2, <1>3, <1>4, <1>5, <1>6, <1>7, <1>8, <1>9

LEMMA MovesTypes ==
  ASSUME RequestTypes, NEW r \in Req, NEW L, NEW O, MovesAmong(r, L, O), L \subseteq Labels
  PROVE  RequestTypes'
<1>1. PICK at \in Labels : pc' = [pc EXCEPT ![r] = at]
  BY AnsweredFacts DEF MovesAmong
<1>2. op' \in [Req -> Ops \cup {NoOp}] /\ may' \in [Req -> {"nothing", "reader", "all"}]
  BY DEF MovesAmong, RequestTypes
<1> QED
  BY <1>1, <1>2 DEF MovesAmong, RequestTypes

LEMMA RequestTypesStep == RequestTypes /\ [Next]_vars => RequestTypes'
<1> SUFFICES ASSUME RequestTypes, [Next]_vars PROVE RequestTypes'
  OBVIOUS
<1>1. CASE UNCHANGED vars
  BY <1>1 DEF vars, requestVars, RequestTypes
<1>2. ASSUME NEW r \in Req,
             \/ MasterStep(r) \/ TreasuryStep(r) \/ JournalStep(r) \/ PersonnelStep(r)
             \/ EDocumentsStep(r) \/ FilesStep(r) \/ ProjectsStep(r) \/ AccessStep(r)
             \/ MembersStep(r)
      PROVE  RequestTypes'
  BY <1>2, StepMoves, MovesTypes DEF Labels
<1>3. ASSUME NEW r \in Req, Forbid(r) PROVE RequestTypes'
  <2>1. PICK o \in Ops : op' = [op EXCEPT ![r] = o]
    BY <1>3, RequestsAssumption DEF Forbid, TurnAway, RequestTypes
  <2>2. "forbidden" \in Labels
    BY DEF Labels, Answered
  <2> QED
    BY <1>3, <2>1, <2>2 DEF Forbid, TurnAway, RequestTypes
<1>4. ASSUME NEW r \in Req, Abort(r) PROVE RequestTypes'
  <2>1. "aborted" \in Labels
    BY DEF Labels, Answered
  <2> QED
    BY <1>4, <2>1 DEF Abort, Goto, RequestTypes
<1>5. CASE Worker
  BY <1>5 DEF Worker, Transmit, requestVars, RequestTypes
<1> QED
  BY <1>1, <1>2, <1>3, <1>4, <1>5 DEF Next

LEMMA RequestTypesInit == Init => RequestTypes
<1>1. "idle" \in Labels
  BY DEF Labels
<1> QED
  BY <1>1 DEF Init, RequestsInit, RequestTypes

\* At any time every request is at a statement of one of the components, or answered,
\* and every handler is one of the API's.
THEOREM RequestsTyped == Spec => []RequestTypes
BY RequestTypesInit, RequestTypesStep, PTL DEF Spec

-----------------------------------------------------------------------------
(* A step of one component is elsewhere for each of the others.            *)

\* No statement, and no handler, is of two components.
LEMMA LabelsApart ==
  /\ \A x \in MasterLabels :
       x \notin TreasuryLabels \cup JournalLabels \cup PersonnelLabels \cup EDocumentLabels
                \cup FileLabels \cup TaskLabels \cup AccessLabels \cup MemberLabels
  /\ \A x \in TreasuryLabels :
       x \notin JournalLabels \cup PersonnelLabels \cup EDocumentLabels \cup FileLabels
                \cup TaskLabels \cup AccessLabels \cup MemberLabels
  /\ \A x \in JournalLabels :
       x \notin PersonnelLabels \cup EDocumentLabels \cup FileLabels \cup TaskLabels
                \cup AccessLabels \cup MemberLabels
  /\ \A x \in PersonnelLabels :
       x \notin EDocumentLabels \cup FileLabels \cup TaskLabels \cup AccessLabels
                \cup MemberLabels
  /\ \A x \in EDocumentLabels :
       x \notin FileLabels \cup TaskLabels \cup AccessLabels \cup MemberLabels
  /\ \A x \in FileLabels : x \notin TaskLabels \cup AccessLabels \cup MemberLabels
  /\ \A x \in TaskLabels : x \notin AccessLabels \cup MemberLabels
  /\ \A x \in AccessLabels : x \notin MemberLabels
BY DEF MasterLabels, TreasuryLabels, JournalLabels, PersonnelLabels, EDocumentLabels,
   FileLabels, TaskLabels, AccessLabels, MemberLabels

LEMMA OpsApart ==
  /\ \A o \in MasterOps :
       o \notin TreasuryOps \cup JournalOps \cup PersonnelOps \cup EDocumentOps
                \cup FileOps \cup TaskOps \cup AccessOps \cup MemberOps
  /\ \A o \in TreasuryOps :
       o \notin JournalOps \cup PersonnelOps \cup EDocumentOps \cup FileOps
                \cup TaskOps \cup AccessOps \cup MemberOps
  /\ \A o \in JournalOps :
       o \notin PersonnelOps \cup EDocumentOps \cup FileOps \cup TaskOps
                \cup AccessOps \cup MemberOps
  /\ \A o \in PersonnelOps :
       o \notin EDocumentOps \cup FileOps \cup TaskOps \cup AccessOps \cup MemberOps
  /\ \A o \in EDocumentOps :
       o \notin FileOps \cup TaskOps \cup AccessOps \cup MemberOps
  /\ \A o \in FileOps : o \notin TaskOps \cup AccessOps \cup MemberOps
  /\ \A o \in TaskOps : o \notin AccessOps \cup MemberOps
  /\ \A o \in AccessOps : o \notin MemberOps
BY DEF MasterOps, TreasuryOps, JournalOps, PersonnelOps, EDocumentOps, FileOps, TaskOps,
   AccessOps, MemberOps, Resources, Services

LEMMA PartsAreStatements ==
  /\ MasterLabels \subseteq AllLabels /\ TreasuryLabels \subseteq AllLabels
  /\ JournalLabels \subseteq AllLabels /\ PersonnelLabels \subseteq AllLabels
  /\ EDocumentLabels \subseteq AllLabels /\ FileLabels \subseteq AllLabels
  /\ TaskLabels \subseteq AllLabels /\ AccessLabels \subseteq AllLabels
  /\ MemberLabels \subseteq AllLabels
BY DEF AllLabels, Labels, Answered, MasterLabels, TreasuryLabels, JournalLabels,
   PersonnelLabels, EDocumentLabels, FileLabels, TaskLabels, AccessLabels, MemberLabels

\* A step of one component is elsewhere for what is apart from it.
LEMMA StepsApart ==
  ASSUME RequestTypes, NEW r \in Req, NEW labels, NEW ops, labels \subseteq AllLabels
  PROVE  /\ MasterStep(r) /\ Apart(MasterLabels, MasterOps, labels, ops)
              => Elsewhere(r, labels, ops)
         /\ TreasuryStep(r) /\ Apart(TreasuryLabels, TreasuryOps, labels, ops)
              => Elsewhere(r, labels, ops)
         /\ JournalStep(r) /\ Apart(JournalLabels, JournalOps, labels, ops)
              => Elsewhere(r, labels, ops)
         /\ PersonnelStep(r) /\ Apart(PersonnelLabels, PersonnelOps, labels, ops)
              => Elsewhere(r, labels, ops)
         /\ EDocumentsStep(r) /\ Apart(EDocumentLabels, EDocumentOps, labels, ops)
              => Elsewhere(r, labels, ops)
         /\ FilesStep(r) /\ Apart(FileLabels, FileOps, labels, ops)
              => Elsewhere(r, labels, ops)
         /\ ProjectsStep(r) /\ Apart(TaskLabels, TaskOps, labels, ops)
              => Elsewhere(r, labels, ops)
         /\ AccessStep(r) /\ Apart(AccessLabels, AccessOps, labels, ops)
              => Elsewhere(r, labels, ops)
         /\ MembersStep(r) /\ Apart(MemberLabels, MemberOps, labels, ops)
              => Elsewhere(r, labels, ops)
<1>1. ASSUME NEW L, NEW O, MovesAmong(r, L, O), L \subseteq AllLabels,
             Apart(L, O, labels, ops)
      PROVE  Elsewhere(r, labels, ops)
  BY <1>1, MovesElsewhere DEF Apart, AllLabels
<1> QED
  BY <1>1, StepMoves, PartsAreStatements

\* A step of the other components is elsewhere than at the statements of HR.
LEMMA AwayFromPersonnel ==
  ASSUME RequestTypes, NEW r \in Req,
         \/ MasterStep(r) \/ TreasuryStep(r) \/ JournalStep(r) \/ EDocumentsStep(r)
         \/ FilesStep(r) \/ ProjectsStep(r) \/ AccessStep(r) \/ MembersStep(r)
  PROVE  Elsewhere(r, PersonnelLabels, PersonnelOps)
BY StepsApart, PartsAreStatements, LabelsApart, OpsApart DEF Apart

\* A step of the other components is elsewhere than at the statements of the e-documents.
LEMMA AwayFromEDocuments ==
  ASSUME RequestTypes, NEW r \in Req,
         \/ MasterStep(r) \/ TreasuryStep(r) \/ JournalStep(r) \/ PersonnelStep(r)
         \/ FilesStep(r) \/ ProjectsStep(r) \/ AccessStep(r) \/ MembersStep(r)
  PROVE  Elsewhere(r, EDocumentLabels, EDocumentOps)
BY StepsApart, PartsAreStatements, LabelsApart, OpsApart DEF Apart

\* A step of the other components is elsewhere than at the statements of accounts and members.
LEMMA AwayFromMembers ==
  ASSUME RequestTypes, NEW r \in Req,
         \/ MasterStep(r) \/ TreasuryStep(r) \/ JournalStep(r) \/ PersonnelStep(r)
         \/ EDocumentsStep(r) \/ FilesStep(r) \/ ProjectsStep(r) \/ AccessStep(r)
  PROVE  Elsewhere(r, MemberLabels, MemberOps)
BY StepsApart, PartsAreStatements, LabelsApart, OpsApart DEF Apart

\* A step of the other components is elsewhere than at the statements of files.
LEMMA AwayFromFiles ==
  ASSUME RequestTypes, NEW r \in Req,
         \/ MasterStep(r) \/ TreasuryStep(r) \/ JournalStep(r) \/ PersonnelStep(r)
         \/ EDocumentsStep(r) \/ ProjectsStep(r) \/ AccessStep(r) \/ MembersStep(r)
  PROVE  Elsewhere(r, FileLabels, FileOps)
BY StepsApart, PartsAreStatements, LabelsApart, OpsApart DEF Apart

\* A step of the other components is elsewhere than at the statements of tasks.
LEMMA AwayFromProjects ==
  ASSUME RequestTypes, NEW r \in Req,
         \/ MasterStep(r) \/ TreasuryStep(r) \/ JournalStep(r) \/ PersonnelStep(r)
         \/ EDocumentsStep(r) \/ FilesStep(r) \/ AccessStep(r) \/ MembersStep(r)
  PROVE  Elsewhere(r, TaskLabels, TaskOps)
BY StepsApart, PartsAreStatements, LabelsApart, OpsApart DEF Apart

-----------------------------------------------------------------------------
(***************************************************************************)
(* Theorems about the references of BackOffice, for every set of requests, *)
(* handlers, codes and amounts: what a row or a journal line points to is  *)
(* there, and no line of a trial balance is blank.                         *)
(*                                                                         *)
(* The trial balance reads the accounts a statement after it has grouped   *)
(* the lines; it finds them because every account it grouped by is cited,  *)
(* because what is cited once stays cited, and because what is cited is    *)
(* not deleted.                                                            *)
(***************************************************************************)

-----------------------------------------------------------------------------
(* At first.                                                               *)

\* What a row must point to must in turn point to something, which then must not.
LEMMA KeepsAreShort ==
  \A w \in Resources : \A z \in Services[w].keeps :
    /\ z \in Resources
    /\ \A y \in Services[z].keeps : y \in Resources /\ Services[y].keeps = {}
BY DEF Resources, Services, Service, BankService, CostCenterService, DepartmentService,
       ExpenseCategoryService, IncomeCategoryService, JobPositionService, TaxRateService,
       UnitService, BrandService, PaymentMethodService, CategoryService, BranchService,
       WarehouseService, ProductService, CustomerService, SupplierService,
       EmployeeService, ProjectService, AccountService, CashAccountService,
       BankAccountService, BankTransactionService, ExpenseService, IncomeService,
       CollectionService, PaymentService, SalesInvoiceService, PurchaseInvoiceService,
       StockMovementService

\* So the tables present at first hold all that their rows must point to.
LEMMA PresentIsClosed ==
  \A on \in Present : Services[on].keeps \subseteq Present
<1> DEFINE K(S) == S \cup UNION {Services[on].keeps : on \in S}
           S == Resources \cap About
<1>1. Present = K(K(K(S)))
  BY DEF Present
<1>2. SUFFICES ASSUME NEW on \in K(K(K(S))) PROVE Services[on].keeps \subseteq K(K(K(S)))
  BY <1>1
<1>3. CASE on \in K(K(S))
  BY <1>3
<1>4. CASE on \notin K(K(S))
  <2>1. PICK y \in K(K(S)) : on \in Services[y].keeps
    BY <1>4
  <2>2. y \notin K(S)
    BY <1>4, <2>1
  <2>3. PICK z \in K(S) : y \in Services[z].keeps
    BY <2>1, <2>2
  <2>4. z \notin S
    BY <2>2, <2>3
  <2>5. PICK w \in S : z \in Services[w].keeps
    BY <2>3, <2>4
  <2>6. Services[y].keeps = {}
    BY <2>5, <2>3, KeepsAreShort
  <2> QED
    BY <2>1, <2>6
<1> QED
  BY <1>3, <1>4

LEMMA OldLinksResolve == \A id \in OldRows : OldRow(id).links \subseteq OldRows
BY MasterDataAssumption, PresentIsClosed DEF OldRows, OldRow

LEMMA InitRefInv == Init => RefInv
<1> SUFFICES ASSUME Init PROVE RefInv
  OBVIOUS
<1>1. /\ DOMAIN rows = OldRows
      /\ \A id \in OldRows : rows[id] = OldRow(id)
  BY DEF Init, MasterInit
<1>2. \A e \in DOMAIN entries :
        /\ DOMAIN entries[e] = {"number", "lines", "status"}
        /\ AccountsOf(entries[e].lines) \subseteq OldRows
  <2>1. AccountsOf(OldLines) = {<<"account", 1>>}
    BY DEF AccountsOf, OldLines
  <2>2. CASE {<<"account", 1>>} \subseteq OldRows
    <3>1. PICK status : entries = [e \in {0} |-> [number |-> 1, lines |-> OldLines,
                                                 status |-> status]]
      BY <2>2 DEF Init, JournalInit
    <3> QED
      BY <2>1, <2>2, <3>1
  <2>3. CASE ~({<<"account", 1>>} \subseteq OldRows)
    BY <2>3 DEF Init, JournalInit
  <2> QED
    BY <2>2, <2>3
<1>3. \A e \in DOMAIN entries : AccountsOf(entries[e].lines) \subseteq cited
  BY DEF Init, JournalCites
<1>4. cited \subseteq OldRows
  BY <1>2 DEF Init, JournalCites
<1>5. ASSUME NEW r \in Req
      PROVE  /\ op[r][1] = "none"
             /\ trial[r].accounts = {}
             /\ DOMAIN trial[r] = {"accounts", "debit", "credit", "named"}
  BY DEF Init, RequestsInit, JournalInit, NoOp, NoTrial
<1>6. Shapes
  BY <1>1, <1>2, <1>5 DEF OldRow, Shapes, Init, JournalInit
<1>7. ReferencesResolve
  BY <1>1, <1>4, OldLinksResolve DEF ReferencesResolve
<1>8. AllCited
  BY <1>3, <1>5 DEF AllCited
<1>9. TrialAt /\ BalancesAreNamed
  BY <1>5 DEF TrialAt, TrialOps, BalancesAreNamed, Does
<1> QED
  BY <1>6, <1>7, <1>8, <1>9 DEF RefInv

-----------------------------------------------------------------------------
(* What each component leaves alone.                                       *)

\* The rest of the back office reads the tables of master data, and writes none.
LEMMA MastersStand ==
  ASSUME NEW r \in Req,
         \/ PersonnelStep(r) \/ EDocumentsStep(r) \/ FilesStep(r) \/ ProjectsStep(r)
         \/ AccessStep(r) \/ MembersStep(r) \/ Forbid(r) \/ Worker
  PROVE  UNCHANGED masterVars
<1>1. CASE PersonnelStep(r)
  BY Zenon, <1>1 DEF PersonnelStep, PersonnelStart, PersonnelWork, StartPayroll, StartApprove,
     StartAttendance, FindPayee, FindPeriod, InsertPayroll, FindPayroll, ApprovePayroll,
     FindAttendee, RecordAttendance
<1>2. CASE EDocumentsStep(r)
  BY Zenon, <1>2 DEF EDocumentsStep, EDocumentsStart, EDocumentsWork, StartIssueInvoice,
     StartIssueWaybill, StartCancelEInvoice, FindSalesInvoice, FindIssued,
     InsertEInvoice, FindWaybill, FindIssuedWaybill, InsertEWaybill, FindEInvoice,
     CancelEInvoice, RereadEInvoice
<1>3. CASE ProjectsStep(r)
  BY Zenon, <1>3 DEF ProjectsStep, ProjectsStart, ProjectsWork, StartTask, StartChange,
     FindProject, InsertTask, FindTask, WriteTask, DeleteTask
<1>4. CASE FilesStep(r) \/ AccessStep(r) \/ MembersStep(r) \/ Forbid(r) \/ Worker
  BY <1>4 DEF FilesStep, AccessStep, MembersStep, Forbid, Worker, Transmit
<1> QED
  BY <1>1, <1>2, <1>3, <1>4

\* The journal only cites.
LEMMA OthersKeepMasters ==
  ASSUME NEW r \in Req,
         \/ JournalStep(r) \/ PersonnelStep(r) \/ EDocumentsStep(r) \/ FilesStep(r)
         \/ ProjectsStep(r) \/ AccessStep(r) \/ MembersStep(r) \/ Forbid(r) \/ Worker
  PROVE  /\ rows' = rows /\ mains' = mains /\ form' = form
         /\ left' = left /\ held' = held
<1>1. CASE JournalStep(r)
  BY Zenon, <1>1 DEF JournalStep, JournalStart, JournalWork, StartEntry, StartPost, StartTrial,
     FindAccounts, CountEntries, InsertEntry, FindEntry, PostEntry, RereadEntry,
     GroupLines, NameAccounts, masterVars
<1> QED
  BY <1>1, MastersStand DEF masterVars

\* Neither does a request that ends, or one about the accounts.
LEMMA RowsAreMasters ==
  ASSUME NEW r \in Req,
         \/ TreasuryStep(r) \/ JournalStep(r) \/ PersonnelStep(r) \/ EDocumentsStep(r)
         \/ FilesStep(r) \/ ProjectsStep(r) \/ AccessStep(r) \/ MembersStep(r)
         \/ Forbid(r) \/ Abort(r) \/ Worker
  PROVE  rows' = rows /\ mains' = mains
<1>1. CASE TreasuryStep(r)
  BY Zenon, <1>1 DEF TreasuryStep, TreasuryStart, TreasuryWork, StartReport, StartCancel, Asks,
     FindAccount, SumNext, FindInvoice, CancelInvoice, masterVars
<1>2. CASE Abort(r)
  BY <1>2 DEF Abort, MasterDrop
<1> QED
  BY <1>1, <1>2, OthersKeepMasters

LEMMA EntriesAreJournals ==
  ASSUME NEW r \in Req,
         \/ MasterStep(r) \/ TreasuryStep(r) \/ PersonnelStep(r) \/ EDocumentsStep(r)
         \/ FilesStep(r) \/ ProjectsStep(r) \/ AccessStep(r) \/ MembersStep(r)
         \/ Forbid(r) \/ Abort(r) \/ Worker
  PROVE  entries' = entries /\ trial' = trial /\ cited' = cited
<1>1. entries' = entries /\ trial' = trial
  BY DEF MasterStep, TreasuryStep, PersonnelStep, EDocumentsStep, FilesStep, ProjectsStep,
     AccessStep, MembersStep, Forbid, Abort, Worker, journalVars
<1>2. CASE MasterStep(r)
  <2>1. CASE MasterStart(r)
    BY Zenon, <1>1, <2>1, CreateStarts DEF MasterStart, Creation, StartUpdate, StartOne,
       StartList, Asks, masterVars
  <2>2. CASE MasterWork(r)
    BY Zenon, <1>1, <2>2 DEF MasterWork, FindKept, CountRows, InsertRow, FindRow, UpdateRow, ReadPage,
       CountPage, CountMovements, DeleteRow, FindMains, ClearMain, MainsCleared, Release,
       masterVars
  <2> QED
    BY <1>1, <1>2, <2>1, <2>2 DEF MasterStep
<1>3. CASE TreasuryStep(r)
  BY Zenon, <1>1, <1>3 DEF TreasuryStep, TreasuryStart, TreasuryWork, StartReport, StartCancel,
     Asks, FindAccount, SumNext, FindInvoice, CancelInvoice, masterVars
<1>4. CASE Abort(r)
  BY <1>1, <1>4 DEF Abort, MasterDrop, Release
<1> QED
  BY <1>1, <1>2, <1>3, <1>4, MastersStand DEF masterVars

-----------------------------------------------------------------------------
(* The rows.                                                               *)

\* Three statements write rows.
LEMMA RowsAreWritten ==
  ASSUME NEW r \in Req, MasterStep(r)
  PROVE  InsertRow(r) \/ UpdateRow(r) \/ DeleteRow(r) \/ (rows' = rows /\ mains' = mains)
<1>1. CASE MasterStart(r)
  <2>1. CASE StartCreate(r)
    BY <2>1, CreateStarts DEF Creation, Asks
  <2>2. CASE StartUpdate(r) \/ StartOne(r) \/ StartList(r)
    BY <2>2 DEF StartUpdate, StartOne, StartList, Asks, masterVars
  <2> QED
    BY <1>1, <2>1, <2>2 DEF MasterStart
<1>2. CASE MasterWork(r)
  BY Zenon, <1>2 DEF MasterWork, FindKept, CountRows, FindRow, ReadPage, CountPage, CountMovements,
     FindMains, ClearMain, MainsCleared, masterVars
<1> QED
  BY <1>1, <1>2 DEF MasterStep

\* No step of MasterData leaves a row, or a line, pointing to a row that is gone.
LEMMA MasterKeepsLinks ==
  ASSUME Shapes, ReferencesResolve, NEW r \in Req, MasterStep(r)
  PROVE  /\ ReferencesResolve'
         /\ \A id \in DOMAIN rows' : DOMAIN rows'[id] = {"code", "links", "value"}
<1>1. cited' = cited
  BY EntriesAreJournals
<1>2. CASE rows' = rows
  BY <1>1, <1>2 DEF ReferencesResolve, Shapes
<1>3. CASE InsertRow(r)
  <2>1. CASE Acceptable(r)
    BY <1>3, <2>1, <1>1 DEF InsertRow, Acceptable, Shapes, ReferencesResolve
  <2> QED
    BY <1>2, <1>3, <2>1 DEF InsertRow
<1>4. CASE UpdateRow(r)
  <2>1. CASE rows' # rows
    <3>1. /\ Row(r) \in DOMAIN rows /\ Acceptable(r)
          /\ rows' = [rows EXCEPT ![Row(r)] = Written(r)]
      BY <1>4, <2>1 DEF UpdateRow
    <3>2. /\ DOMAIN Written(r) = {"code", "links", "value"}
          /\ Written(r).links \subseteq DOMAIN rows
      BY <3>1 DEF Written, Acceptable, ReferencesResolve
    <3>3. ASSUME NEW id \in DOMAIN rows
          PROVE  rows'[id] = IF id = Row(r) THEN Written(r) ELSE rows[id]
      BY <3>1
    <3> HIDE DEF Written
    <3>4. DOMAIN rows' = DOMAIN rows
      BY <3>1
    <3> QED
      BY <1>1, <3>2, <3>3, <3>4 DEF ReferencesResolve, Shapes
  <2> QED
    BY <1>2, <2>1
<1>5. CASE DeleteRow(r)
  <2>1. CASE Row(r) \in DOMAIN rows /\ ~Needed(Row(r))
    BY <1>5, <2>1, <1>1 DEF DeleteRow, Delete, Shapes, Needed, ReferencesResolve
  <2> QED
    BY <1>2, <1>5, <2>1 DEF DeleteRow
<1> QED
  BY <1>2, <1>3, <1>4, <1>5, RowsAreWritten

-----------------------------------------------------------------------------
(* The journal and the trial balance.                                      *)

LEMMA TrialsAreTrialOps ==
  ASSUME RequestTypes, NEW s \in Req, Does(s, "trial")
  PROVE  op[s] \in TrialOps
<1>1. op[s] # NoOp
  BY DEF NoOp, Does
<1> QED
  BY <1>1 DEF Does, RequestTypes, TrialOps

\* A request that is, and stays, in another handler.
LEMMA OthersKeepTrials ==
  ASSUME RequestTypes, RequestTypes', TrialAt, BalancesAreNamed, NEW r \in Req, NEW at, NEW o,
         pc' = [pc EXCEPT ![r] = at], op' = [op EXCEPT ![r] = o], o \notin TrialOps,
         \A s \in Req \ {r} : trial'[s] = trial[s]
  PROVE  TrialAt' /\ BalancesAreNamed'
<1>1. op'[r] \notin TrialOps
  BY DEF RequestTypes
<1>2. op'[r][1] # "trial"
  BY <1>1 DEF RequestTypes, TrialOps, NoOp
<1>3. \A s \in Req \ {r} : op'[s] = op[s] /\ pc'[s] = pc[s]
  OBVIOUS
<1> QED
  BY <1>1, <1>2, <1>3 DEF TrialAt, BalancesAreNamed, Does

LEMMA ElsewhereKeepsTrials ==
  ASSUME RequestTypes, RequestTypes', TrialAt, BalancesAreNamed, NEW r \in Req,
         Elsewhere(r, TrialLabels, TrialOps), trial' = trial
  PROVE  TrialAt' /\ BalancesAreNamed'
<1>1. PICK at : pc' = [pc EXCEPT ![r] = at]
  BY DEF Elsewhere
<1>2. op[r] \notin TrialOps
  BY DEF Elsewhere, TrialAt, TrialLabels
<1>3. CASE op' = op
  BY <1>3, <1>1, <1>2, OthersKeepTrials DEF RequestTypes
<1>4. CASE \E o : o \notin TrialOps /\ op' = [op EXCEPT ![r] = o]
  BY <1>1, <1>4, OthersKeepTrials
<1> QED
  BY <1>3, <1>4 DEF Elsewhere

\* The steps of the journal that are not of the trial balance.
LEMMA JournalElsewhere ==
  ASSUME RequestTypes, NEW r \in Req, JournalStart(r) \/ JournalWork(r),
         ~StartTrial(r), ~GroupLines(r), ~NameAccounts(r)
  PROVE  Elsewhere(r, TrialLabels, TrialOps) /\ trial' = trial
<1> DEFINE labels == JournalLabels \ TrialLabels
           ops == JournalOps \ TrialOps
<1>1. MovesAmong(r, labels, ops) /\ trial' = trial
  <2>1. CASE StartEntry(r)
    <3>1. <<"create", "journal_entry">> \in ops
      BY DEF JournalOps, TrialOps
    <3>2. PICK at \in labels \cup Answered : Begin(r, <<"create", "journal_entry">>, at)
      BY Zenon, <2>1 DEF StartEntry, JournalLabels, TrialLabels, Answered
    <3>3. trial' = trial
      BY Zenon, <2>1 DEF StartEntry, journalVars
    <3> HIDE DEF labels, ops
    <3> QED
      BY <3>1, <3>2, <3>3, BeginMoves
  <2>2. CASE StartPost(r)
    <3>1. <<"post", "journal_entry">> \in ops
      BY DEF JournalOps, TrialOps
    <3>2. PICK at \in labels \cup Answered : Begin(r, <<"post", "journal_entry">>, at)
      BY Zenon, <2>2 DEF StartPost, JournalLabels, TrialLabels, Answered
    <3>3. trial' = trial
      BY Zenon, <2>2 DEF StartPost
    <3> HIDE DEF labels, ops
    <3> QED
      BY <3>1, <3>2, <3>3, BeginMoves
  <2>3. CASE JournalWork(r)
    <3>1. Works(r, labels) /\ trial' = trial
      BY Zenon, <2>3 DEF FindAccounts, JournalLabels, TrialLabels, Works, Answer, Answered,
         journalVars, CountEntries, InsertEntry, FindEntry, PostEntry, RereadEntry,
         JournalWork
    <3> HIDE DEF labels, ops
    <3> QED
      BY <3>1, WorksMoves
  <2> QED
    BY <2>1, <2>2, <2>3 DEF JournalStart
<1>2. \A x \in labels : x \in Labels /\ x \notin TrialLabels
  BY DEF Labels
<1>3. \A x \in labels \cup TrialLabels : x \notin Answered /\ x # "idle"
  BY Zenon DEF JournalLabels, TrialLabels, Answered
<1>4. \A o \in ops \cap Ops : o \notin TrialOps
  OBVIOUS
<1> HIDE DEF labels, ops
<1> QED
  BY <1>1, <1>2, <1>3, <1>4, MovesElsewhere

\* The three steps of a trial balance.
LEMMA TrialStep ==
  ASSUME RequestTypes, RefInv, NEW r \in Req, rows' = rows,
         StartTrial(r) \/ GroupLines(r) \/ NameAccounts(r)
  PROVE  RefInv'
<1> USE DEF RefInv
<1>1. CASE StartTrial(r)
  BY <1>1, "group" # "ok" DEF StartTrial, journalVars, masterVars, Begin, TrialAt,
     BalancesAreNamed, Does, RequestTypes, Shapes, ReferencesResolve, AllCited
<1>2. CASE GroupLines(r)
  BY <1>2 DEF GroupLines, Goto, masterVars, Shapes, AllCited, Posted, TrialAt,
     BalancesAreNamed, Does, RequestTypes, ReferencesResolve
<1>3. CASE NameAccounts(r)
  <2>1. UNCHANGED <<entries, cited, op>> /\ pc' = [pc EXCEPT ![r] = "ok"]
    BY <1>3 DEF NameAccounts, Answer, Goto, masterVars
  <2>2. trial' = [trial EXCEPT ![r].named = trial[r].accounts \cap DOMAIN rows]
    BY <1>3 DEF NameAccounts
  <2>3. /\ DOMAIN trial' = Req
        /\ DOMAIN trial'[r] = {"accounts", "debit", "credit", "named"}
        /\ trial'[r].accounts = trial[r].accounts
        /\ trial'[r].named = trial[r].accounts \cap DOMAIN rows
        /\ \A s \in Req \ {r} : trial'[s] = trial[s]
    BY <2>2 DEF Shapes
  <2>4. trial[r].accounts \subseteq DOMAIN rows
    BY DEF AllCited, ReferencesResolve
  <2>5. trial'[r].named = trial'[r].accounts
    BY <2>3, <2>4
  <2>6. TrialAt' /\ BalancesAreNamed'
    BY <2>1, <2>3, <2>5 DEF TrialAt, BalancesAreNamed, Does, RequestTypes, Answered
  <2>7. Shapes'
    BY <2>1, <2>3 DEF Shapes
  <2>8. AllCited'
    BY <2>1, <2>3 DEF AllCited
  <2> QED
    BY <2>1, <2>6, <2>7, <2>8 DEF ReferencesResolve
<1> QED
  BY <1>1, <1>2, <1>3

\* What is entered cites accounts that are there, and what is cited stays so.
LEMMA JournalKeepsCited ==
  ASSUME Shapes, ReferencesResolve, AllCited, NEW r \in Req, rows' = rows, trial' = trial,
         JournalStart(r) \/ JournalWork(r)
  PROVE  Shapes' /\ ReferencesResolve' /\ AllCited'
<1>1. CASE entries' = entries /\ cited' = cited
  BY <1>1 DEF Shapes, ReferencesResolve, AllCited
<1>2. CASE InsertEntry(r)
  <2>1. CASE entries' # entries \/ cited' # cited
    <3>1. /\ AccountsOf(Lines(r)) \subseteq DOMAIN rows
          /\ cited' = cited \cup AccountsOf(Lines(r))
          /\ DOMAIN entries' = DOMAIN entries \cup {r}
          /\ \A e \in DOMAIN entries' :
               entries'[e] = IF e = r THEN [number |-> draft[r].number, lines |-> Lines(r),
                                            status |-> "DRAFT"]
                                      ELSE entries[e]
      BY Zenon, <1>2, <2>1 DEF InsertEntry
    <3>2. ASSUME NEW e \in DOMAIN entries'
          PROVE  /\ DOMAIN entries'[e] = {"number", "lines", "status"}
                 /\ AccountsOf(entries'[e].lines) \subseteq cited'
      <4>1. CASE e = r
        BY <3>1, <4>1
      <4>2. CASE e # r
        BY <3>1, <4>2 DEF Shapes, AllCited
      <4> QED
        BY <4>1, <4>2
    <3>3. Shapes'
      BY <3>2 DEF Shapes
    <3>4. ReferencesResolve'
      BY <3>1 DEF ReferencesResolve
    <3>5. AllCited'
      BY <3>1, <3>2 DEF AllCited
    <3> QED
      BY <3>3, <3>4, <3>5
  <2> QED
    BY <1>1, <2>1
<1>3. CASE PostEntry(r)
  BY <1>3 DEF PostEntry, masterVars, Shapes, ReferencesResolve, AllCited
<1> QED
  BY Zenon, <1>1, <1>2, <1>3 DEF JournalStart, JournalWork, StartEntry, StartPost, StartTrial,
     FindAccounts, CountEntries, FindEntry, RereadEntry, GroupLines, NameAccounts,
     masterVars, journalVars

-----------------------------------------------------------------------------
(* Every step.                                                             *)

LEMMA StepsElsewhere ==
  ASSUME RequestTypes, NEW r \in Req,
         \/ MasterStep(r) \/ TreasuryStep(r) \/ PersonnelStep(r) \/ EDocumentsStep(r)
         \/ FilesStep(r) \/ ProjectsStep(r) \/ AccessStep(r) \/ MembersStep(r)
  PROVE  Elsewhere(r, TrialLabels, TrialOps)
<1>1. /\ TrialLabels \subseteq JournalLabels
      /\ \A o \in TrialOps : o[1] = "trial"
  BY DEF TrialLabels, JournalLabels, TrialOps
<1>2. \A o \in MasterOps \cup TreasuryOps \cup PersonnelOps \cup EDocumentOps \cup FileOps
              \cup TaskOps \cup AccessOps \cup MemberOps : o[1] # "trial"
  BY DEF MasterOps, TreasuryOps, PersonnelOps, EDocumentOps, FileOps, TaskOps, AccessOps,
     MemberOps
<1> QED
  BY <1>1, <1>2, StepsApart, PartsAreStatements, LabelsApart DEF Apart

\* A request that is turned away or cut off.
LEMMA EndsElsewhere ==
  ASSUME RequestTypes, RequestTypes', TrialAt, BalancesAreNamed, NEW r \in Req,
         Forbid(r) \/ Abort(r)
  PROVE  TrialAt' /\ BalancesAreNamed'
<1>1. PICK at \in {"forbidden", "aborted"} : pc' = [pc EXCEPT ![r] = at]
  BY DEF Forbid, TurnAway, Abort, Goto
<1>2. trial' = trial /\ \A s \in Req \ {r} : op'[s] = op[s]
  BY EntriesAreJournals DEF Forbid, TurnAway, Abort, Goto, RequestTypes
<1>3. pc'[r] \in Answered /\ pc'[r] # "ok"
  BY <1>1 DEF RequestTypes, Answered
<1> QED
  BY <1>1, <1>2, <1>3 DEF TrialAt, BalancesAreNamed, Does

LEMMA RefInvStep ==
  ASSUME RequestTypes, RefInv, [Next]_vars PROVE RefInv'
<1> USE DEF RefInv
<1>1. RequestTypes'
  BY RequestTypesStep
<1>2. CASE UNCHANGED vars
  BY <1>2 DEF vars, requestVars, masterVars, journalVars, Shapes, ReferencesResolve,
     AllCited, TrialAt, BalancesAreNamed, Does
<1>3. ASSUME NEW r \in Req, MasterStep(r) PROVE RefInv'
  BY <1>3, EntriesAreJournals, MasterKeepsLinks, <1>1, StepsElsewhere,
     ElsewhereKeepsTrials DEF Shapes, AllCited
<1>4. ASSUME NEW r \in Req, JournalStep(r) PROVE RefInv'
  <2>1. rows' = rows
    BY <1>4, RowsAreMasters
  <2>2. JournalStart(r) \/ JournalWork(r)
    BY <1>4 DEF JournalStep
  <2>3. CASE StartTrial(r) \/ GroupLines(r) \/ NameAccounts(r)
    BY <2>1, <2>3, TrialStep
  <2>4. CASE ~(StartTrial(r) \/ GroupLines(r) \/ NameAccounts(r))
    BY <2>2, <2>4, JournalElsewhere, <1>1, ElsewhereKeepsTrials, <2>1, JournalKeepsCited
  <2> QED
    BY <2>3, <2>4
<1>5. ASSUME NEW r \in Req,
             \/ TreasuryStep(r) \/ PersonnelStep(r) \/ EDocumentsStep(r) \/ FilesStep(r)
             \/ ProjectsStep(r) \/ AccessStep(r) \/ MembersStep(r) \/ Forbid(r) \/ Abort(r)
      PROVE  RefInv'
  <2>1. UNCHANGED <<rows, entries, trial, cited>>
    BY <1>5, RowsAreMasters, EntriesAreJournals
  <2>2. TrialAt' /\ BalancesAreNamed'
    BY <1>1, EndsElsewhere, <1>5, <2>1, StepsElsewhere, ElsewhereKeepsTrials
  <2> QED
    BY <2>1, <2>2 DEF Shapes, ReferencesResolve, AllCited
<1>6. CASE Worker
  BY <1>6 DEF Worker, Transmit, requestVars, masterVars, journalVars, Shapes,
     ReferencesResolve, AllCited, TrialAt, BalancesAreNamed, Does
<1> QED
  BY <1>2, <1>3, <1>4, <1>5, <1>6 DEF Next

LEMMA RefInvAlways == Spec => []RefInv
<1>1. RequestTypes /\ RefInv /\ [Next]_vars => RefInv'
  BY RefInvStep
<1> QED
  BY <1>1, InitRefInv, RequestsTyped, PTL DEF Spec

\* What a row or a line of a journal entry points to is there, whatever is created,
\* updated and removed meanwhile and wherever a request is cut off.
THEOREM ReferencesAlwaysResolve == Spec => []ReferencesResolve
<1>1. RefInv => ReferencesResolve
  BY DEF RefInv
<1> QED
  BY <1>1, RefInvAlways, PTL

\* The trial balance names every account it groups by, though it reads the accounts
\* a statement after the lines and accounts are removed meanwhile.
THEOREM BalancesAlwaysNamed == Spec => []BalancesAreNamed
<1>1. RefInv => BalancesAreNamed
  BY DEF RefInv
<1> QED
  BY <1>1, RefInvAlways, PTL

-----------------------------------------------------------------------------
(***************************************************************************)
(* Theorems about the records of BackOffice, for every set of requests,    *)
(* dates, salaries and addresses: what a handler that looks for a rival    *)
(* in one statement and inserts in another has created is kept, a payroll  *)
(* adds up, a stored file and its row account for each other, and a task   *)
(* that is done is dated.                                                  *)
(*                                                                         *)
(* Each is inductive with what ties a record to the request that made it:  *)
(* the request has answered, and what it asked for stays as it was.        *)
(***************************************************************************)

LEMMA ElsewhereSpares ==
  ASSUME RequestTypes, NEW r \in Req, NEW labels, NEW ops, Inside(labels, ops),
         Elsewhere(r, labels, ops)
  PROVE  /\ \A s \in Req : op[s] \in ops \/ op'[s] \in ops => Spares(s)
         /\ \A s \in Req : pc[s] \in labels \cup Answered => pc'[s] = pc[s]
         /\ Inside(labels, ops)'
<1>1. PICK at \in Labels \ (labels \cup {"idle"}) : pc' = [pc EXCEPT ![r] = at]
  BY DEF Elsewhere
<1>2. pc[r] \notin labels \cup Answered /\ op[r] \notin ops /\ op'[r] \notin ops
  BY DEF Elsewhere, Inside, RequestTypes
<1>3. \A s \in Req \ {r} : Spares(s)
  BY <1>1 DEF Elsewhere, RequestTypes, Spares
<1> QED
  BY <1>2, <1>3 DEF Inside, Spares

\* A request that is turned away or cut off ends without an answer.
LEMMA EndsSpare ==
  ASSUME RequestTypes, NEW r \in Req, Forbid(r) \/ Abort(r)
  PROVE  /\ \A s \in Req \ {r} : Spares(s)
         /\ pc'[r] \in {"forbidden", "aborted"} /\ pc[r] \notin Answered
         /\ pc'[r] = "aborted" => op'[r] = op[r] /\ pc[r] # "idle"
         /\ \A labels, ops : Inside(labels, ops) => Inside(labels, ops)'
<1>1. PICK at \in {"forbidden", "aborted"} : pc' = [pc EXCEPT ![r] = at]
  BY DEF Forbid, TurnAway, Abort, Goto
<1>2. \A s \in Req \ {r} : Spares(s)
  BY <1>1 DEF Forbid, TurnAway, Abort, Goto, RequestTypes, Spares
<1>3. /\ pc'[r] \in {"forbidden", "aborted"} /\ pc[r] \notin Answered
      /\ pc'[r] = "aborted" => op'[r] = op[r] /\ pc[r] # "idle"
  BY <1>1 DEF Forbid, TurnAway, Idle, Abort, InFlight, Goto, RequestTypes, Answered
<1>4. \A labels, ops : Inside(labels, ops) => Inside(labels, ops)'
  BY <1>2, <1>3 DEF Inside, Spares, Answered
<1> QED
  BY <1>2, <1>3, <1>4

-----------------------------------------------------------------------------
(* Payrolls.                                                               *)

LEMMA PayrollInvKeeps == PayrollInv => PayrollIsKept
BY DEF PayrollInv, AsAsked, PayrollIsKept

LEMMA InitPayrollInv == Init => PayrollInv
BY DEF Init, RequestsInit, PersonnelInit, NoOp, NoSheet, SheetFields, PayrollInv,
   SheetShapes, Inside, PayOps, At

\* A step that inserts and answers no payroll, and writes no sheet but its request's.
LEMMA PayrollsUntouched ==
  ASSUME PayrollInv, NEW r \in Req, payrolls' = payrolls, SheetShapes',
         \A s \in Req \ {r} : sheet'[s] = sheet[s] /\ Spares(s),
         pc[r] \notin Answered, Inside(PayLabels, PayOps)',
         op'[r] \in PayOps => pc'[r] # "ok"
  PROVE  PayrollInv'
<1>1. \A p \in DOMAIN payrolls : p # r
  BY DEF PayrollInv, AsAsked
<1>2. \A p \in DOMAIN payrolls : AsAsked(p)'
  BY <1>1 DEF PayrollInv, AsAsked, Spares
<1>3. \A s \in Req : At(s, "create", "payroll", "ok")' => s \in DOMAIN payrolls
  BY DEF PayrollInv, At, PayOps, Spares
<1> QED
  BY <1>2, <1>3 DEF PayrollInv

LEMMA SheetWritten ==
  ASSUME SheetShapes, NEW r \in Req, NEW new, DOMAIN new = SheetFields,
         sheet' = [sheet EXCEPT ![r] = new]
  PROVE  SheetShapes' /\ \A s \in Req \ {r} : sheet'[s] = sheet[s]
BY DEF SheetShapes

LEMMA PayrollInvPersonnel ==
  ASSUME RequestTypes, PayrollInv, NEW r \in Req, PersonnelStep(r)
  PROVE  PayrollInv'
<1> USE DEF PayrollInv
<1>1. MovesAmong(r, PersonnelLabels, PersonnelOps)
  BY StepMoves
<1>2. /\ pc[r] \notin Answered
      /\ \A s \in Req \ {r} : Spares(s)
  BY Zenon, <1>1 DEF PersonnelLabels, Answered, MovesAmong, RequestTypes, Spares
<1>3. CASE StartPayroll(r)
  <2>1. ASSUME NEW id, NEW date, NEW gross, NEW bonuses, NEW other
        PROVE  DOMAIN PayrollSheet(id, date, gross, bonuses, other) = SheetFields
    BY DEF PayrollSheet, NoSheet, SheetFields
  <2>2. PICK new : DOMAIN new = SheetFields /\ sheet' = [sheet EXCEPT ![r] = new]
    BY Zenon, <1>3, <2>1 DEF StartPayroll
  <2>3. payrolls' = payrolls /\ pc'[r] = "find payee"
    BY Zenon, <1>3 DEF StartPayroll, Begin, RequestTypes
  <2>4. Inside(PayLabels, PayOps)'
    BY Zenon, <1>2, <2>3 DEF Inside, PayLabels, Spares
  <2> QED
    BY Zenon, <1>2, <2>1, <2>2, <2>3, <2>4, SheetWritten, PayrollsUntouched
<1>4. CASE StartApprove(r)
  <2>1. PICK p : sheet' = [sheet EXCEPT ![r].payroll = p]
    BY Zenon, <1>4 DEF StartApprove
  <2>2. SheetShapes' /\ \A s \in Req \ {r} : sheet'[s] = sheet[s]
    BY <2>1 DEF SheetShapes
  <2>3. payrolls' = payrolls /\ op'[r] = <<"approve", "payroll">>
    BY Zenon, <1>4 DEF StartApprove, Begin, RequestTypes
  <2>4. op'[r] \notin PayOps
    BY <2>3 DEF PayOps
  <2>5. Inside(PayLabels, PayOps)'
    BY <1>2, <2>4 DEF Inside, Spares
  <2> QED
    BY <1>2, <2>2, <2>3, <2>4, <2>5, PayrollsUntouched
<1>5. CASE StartAttendance(r)
  <2>1. PICK id, date :
          sheet' = [sheet EXCEPT ![r] = [NoSheet EXCEPT !.employee = id, !.date = date]]
    BY Zenon, <1>5 DEF StartAttendance
  <2>2. DOMAIN [NoSheet EXCEPT !.employee = id, !.date = date] = SheetFields
    BY DEF NoSheet, SheetFields
  <2>3. payrolls' = payrolls /\ op'[r] = <<"record", "attendance">>
    BY Zenon, <1>5 DEF StartAttendance, Begin, RequestTypes
  <2>4. op'[r] \notin PayOps
    BY <2>3 DEF PayOps
  <2>5. Inside(PayLabels, PayOps)'
    BY <1>2, <2>4 DEF Inside, Spares
  <2> QED
    BY <1>2, <2>1, <2>2, <2>3, <2>4, <2>5, SheetWritten, PayrollsUntouched
<1>6. CASE FindPayee(r)
  <2>1. /\ payrolls' = payrolls /\ op' = op
        /\ pc'[r] \in {"find period", "refused"}
    BY Zenon, <1>6 DEF FindPayee, Goto, Answer, RequestTypes
  <2>2. SheetShapes' /\ \A s \in Req \ {r} : sheet'[s] = sheet[s]
    <3>1. CASE sheet' = sheet
      BY <3>1 DEF SheetShapes
    <3>2. CASE sheet' # sheet
      <4>1. PICK pay : sheet' = [sheet EXCEPT ![r].pay = pay]
        BY Zenon, <1>6, <3>2 DEF FindPayee
      <4> QED
        BY <4>1 DEF SheetShapes
    <3> QED
      BY <3>1, <3>2
  <2>3. Inside(PayLabels, PayOps)'
    BY Zenon, <1>2, <2>1 DEF Inside, Spares, PayLabels, Answered
  <2> QED
    BY Zenon, <1>2, <2>1, <2>2, <2>3, PayrollsUntouched
<1>7. CASE FindPeriod(r)
  <2>1. /\ payrolls' = payrolls /\ sheet' = sheet /\ op' = op
        /\ pc'[r] \in {"insert payroll", "refused"}
    BY Zenon, <1>7 DEF FindPeriod, Goto, Answer, RequestTypes, personnelVars
  <2>2. Inside(PayLabels, PayOps)'
    BY Zenon, <1>2, <2>1 DEF Inside, Spares, PayLabels, Answered
  <2> QED
    BY Zenon, <1>2, <2>1, <2>2, PayrollsUntouched DEF SheetShapes
<1>8. CASE InsertPayroll(r)
  <2>1. sheet' = sheet /\ op' = op /\ pc'[r] = IF PayrollExists(r) THEN "refused" ELSE "ok"
    BY Zenon, <1>8 DEF InsertPayroll, Goto, Answer, RequestTypes
  <2>2. Inside(PayLabels, PayOps)'
    BY <1>2, <2>1 DEF Inside, Spares, Answered
  <2>3. CASE PayrollExists(r)
    BY Zenon, <1>8, <2>3, <1>2, <2>1, <2>2, PayrollsUntouched DEF InsertPayroll, SheetShapes
  <2>4. CASE ~PayrollExists(r)
    <3>1. /\ DOMAIN payrolls' = DOMAIN payrolls \cup {r}
          /\ \A p \in DOMAIN payrolls' :
               payrolls'[p] = IF p = r THEN Inserted(r) ELSE payrolls[p]
      BY Zenon, <1>8, <2>4 DEF InsertPayroll
    <3>2. /\ DOMAIN Inserted(r) = {"employee", "period", "pay", "status"}
          /\ Inserted(r).employee = sheet[r].employee
          /\ Inserted(r).period = StartOfMonth(sheet[r].date)
          /\ Inserted(r).pay = sheet[r].pay
      BY DEF Inserted
    <3>3. r \notin DOMAIN payrolls
      BY <1>2 DEF AsAsked
    <3>4. pc'[r] \in Answered
      BY <2>1, <2>4 DEF Answered
    <3>5. \A p \in DOMAIN payrolls' : AsAsked(p)'
      BY <1>2, <2>1, <3>1, <3>2, <3>4 DEF AsAsked, Spares
    <3>6. \A p, q \in DOMAIN payrolls' :
            p # q => payrolls'[p].employee # payrolls'[q].employee
                     \/ payrolls'[p].period # payrolls'[q].period
      BY <2>4, <3>1, <3>2 DEF PayrollExists
    <3>7. \A s \in Req : At(s, "create", "payroll", "ok")' => s \in DOMAIN payrolls'
      BY <1>2, <3>1 DEF At, Spares
    <3> QED
      BY <2>1, <2>2, <3>5, <3>6, <3>7 DEF SheetShapes
  <2> QED
    BY <2>3, <2>4
<1>9. CASE ApprovePayroll(r)
  <2>1. sheet' = sheet /\ op' = op /\ op[r] \notin PayOps
    BY Zenon, <1>9 DEF ApprovePayroll, Goto, Answer, Inside, PayLabels, Answered
  <2>2. Inside(PayLabels, PayOps)'
    BY <1>2, <2>1 DEF Inside, Spares
  <2>3. payrolls' = [payrolls EXCEPT ![sheet[r].payroll].status = "APPROVED"]
    BY <1>9 DEF ApprovePayroll
  <2>4. /\ DOMAIN payrolls' = DOMAIN payrolls
        /\ \A p \in DOMAIN payrolls :
             /\ DOMAIN payrolls'[p] = DOMAIN payrolls[p]
             /\ payrolls'[p].employee = payrolls[p].employee
             /\ payrolls'[p].period = payrolls[p].period
             /\ payrolls'[p].pay = payrolls[p].pay
    BY <2>3 DEF AsAsked
  <2>5. \A p \in DOMAIN payrolls' : AsAsked(p)'
    BY <1>2, <2>1, <2>4 DEF AsAsked, Spares
  <2>6. \A s \in Req : At(s, "create", "payroll", "ok")' => s \in DOMAIN payrolls'
    BY <1>2, <2>1, <2>4 DEF At, Spares, PayOps
  <2> QED
    BY <2>1, <2>2, <2>4, <2>5, <2>6 DEF SheetShapes
<1>10. CASE FindPayroll(r) \/ FindAttendee(r) \/ RecordAttendance(r)
  <2>1. payrolls' = payrolls /\ sheet' = sheet /\ op' = op
    BY Zenon, <1>10 DEF FindPayroll, FindAttendee, RecordAttendance, Goto, Answer, personnelVars
  <2>2. op[r] \notin PayOps
    BY Zenon, <1>10 DEF FindPayroll, FindAttendee, RecordAttendance, Inside, PayLabels, Answered
  <2>3. Inside(PayLabels, PayOps)'
    BY <1>2, <2>1, <2>2 DEF Inside, Spares
  <2> QED
    BY <1>2, <2>1, <2>2, <2>3, PayrollsUntouched DEF SheetShapes
<1> QED
  BY <1>3, <1>4, <1>5, <1>6, <1>7, <1>8, <1>9, <1>10 DEF PersonnelStep, PersonnelStart,
     PersonnelWork

\* A step in which the payroll handlers take no part.
LEMMA PayrollInvOthers ==
  ASSUME RequestTypes, PayrollInv, NEW r \in Req, UNCHANGED personnelVars,
         Elsewhere(r, PayLabels, PayOps) \/ Forbid(r) \/ Abort(r)
  PROVE  PayrollInv'
<1> USE DEF PayrollInv
<1>1. /\ \A p \in DOMAIN payrolls : pc'[p] \in Answered
      /\ Inside(PayLabels, PayOps)'
      /\ \A s \in Req :
           At(s, "create", "payroll", "ok")' => At(s, "create", "payroll", "ok")
  <2>1. CASE Elsewhere(r, PayLabels, PayOps)
    <3>1. /\ \A s \in Req : op'[s] \in PayOps => Spares(s)
          /\ \A s \in Req : pc[s] \in Answered => pc'[s] = pc[s]
          /\ Inside(PayLabels, PayOps)'
      BY <2>1, ElsewhereSpares
    <3> QED
      BY <3>1 DEF AsAsked, At, PayOps, Spares
  <2>2. CASE Forbid(r) \/ Abort(r)
    BY <2>2, EndsSpare DEF AsAsked, At, Spares, Answered
  <2> QED
    BY <2>1, <2>2
<1> QED
  BY <1>1 DEF AsAsked, SheetShapes, personnelVars

-----------------------------------------------------------------------------
(* Whole amounts, and the payrolls computed from them.                     *)

LEMMA RoundedNear == \A x \in Int : Rounded(x) \in Int /\ Rounded(x) - x \in -50 .. 50
BY DEF Rounded

LEMMA ShareIsWhole ==
  ASSUME NEW x \in Int, NEW n \in Nat, NEW d \in Nat \ {0}
  PROVE  Share(x, n, d) \in Int
<1>1. 100 * d \in Nat \ {0} /\ x * n + 50 * d \in Int
  OBVIOUS
<1>2. \A a \in Int, b \in Nat \ {0} : (a \div b) * 100 \in Int
  OBVIOUS
<1> QED
  BY <1>1, <1>2, Zenon DEF Share

LEMMA SharesAreWhole ==
  ASSUME NEW x \in Int
  PROVE  /\ SgkEmployee(x) \in Int /\ Unemployment(x) \in Int /\ StampTax(x) \in Int
         /\ IncomeTax(x) \in Int
<1>1. SgkEmployee(x) \in Int
  BY ShareIsWhole DEF SgkEmployee
<1>2. Unemployment(x) \in Int
  BY ShareIsWhole DEF Unemployment
<1>3. StampTax(x) \in Int
  BY ShareIsWhole DEF StampTax
<1>4. x - SgkEmployee(x) - Unemployment(x) \in Int
  BY <1>1, <1>2
<1> QED
  BY <1>1, <1>2, <1>3, <1>4, ShareIsWhole DEF IncomeTax

\* Whatever the two taxes and the two premiums are rounded to, the net salary is off by
\* its own two roundings.
LEMMA ComputedAddsUp ==
  ASSUME NEW gross \in Int, NEW bonuses \in Int, NEW other \in Int
  PROVE  AddsUp(CalculatePayroll(gross, bonuses, other))
<1> DEFINE taxable == gross + bonuses
           sgk == SgkEmployee(taxable)
           unemployment == Unemployment(taxable)
           incomeTax == IncomeTax(taxable)
           stampTax == StampTax(taxable)
           due == sgk + unemployment + incomeTax + stampTax + other
           pay == CalculatePayroll(gross, bonuses, other)
<1>1. sgk \in Int /\ unemployment \in Int /\ stampTax \in Int /\ incomeTax \in Int
  BY SharesAreWhole
<1>3. /\ pay.gross = gross /\ pay.bonuses = bonuses /\ pay.other = other
      /\ pay.sgkEmployee = sgk /\ pay.unemployment = unemployment
      /\ pay.tax = incomeTax + stampTax
      /\ pay.net = Rounded(taxable - Rounded(due))
  BY DEF CalculatePayroll, Deductions
<1> HIDE DEF sgk, unemployment, incomeTax, stampTax, pay
<1>4. Rounded(due) \in Int /\ Rounded(due) - due \in -50 .. 50
  BY <1>1, RoundedNear
<1> HIDE DEF due
<1>5. /\ pay.net \in Int
      /\ pay.net - (taxable - Rounded(due)) \in -50 .. 50
  BY <1>4, <1>3, RoundedNear
<1>6. due = sgk + unemployment + incomeTax + stampTax + other
  BY DEF due
<1>7. AddsUp(pay)
  BY <1>1, <1>3, <1>4, <1>5, <1>6 DEF AddsUp
<1> QED
  BY <1>7 DEF pay

LEMMA ValuesAreWhole == \A on : Values(on) \subseteq Int
BY MasterDataAssumption DEF Values

LEMMA InitAddsInv == Init => AddsInv
<1> SUFFICES ASSUME Init PROVE AddsInv
  OBVIOUS
<1>1. ASSUME NEW r \in Req
      PROVE  /\ DOMAIN form[r] = FormFields /\ form[r].value \in Int
             /\ sheet[r].gross = Unsaid /\ sheet[r].bonuses = 0 /\ sheet[r].other = 0
             /\ sheet[r].pay = NoPay
  BY DEF Init, MasterInit, PersonnelInit, NoForm, FormFields, NoSheet
<1>2. AddsUp(NoPay)
  BY DEF AddsUp, NoPay
<1>3. WholeRows
  BY DEF Init, MasterInit, OldRow, WholeRows
<1>4. DOMAIN form = Req /\ DOMAIN payrolls = {}
  BY DEF Init, MasterInit, PersonnelInit
<1> QED
  BY <1>1, <1>2, <1>3, <1>4 DEF AddsInv, WholeForms, PayrollAddsUp, Unsaid

LEMMA AsksFormStep ==
  ASSUME NEW r, NEW id, NEW code, NEW links, NEW value \in Int, NEW main,
         Asks(r, id, code, links, value, main)
  PROVE  FormStep(r)
BY DEF Asks, FormStep

LEMMA FormStepWhole ==
  ASSUME WholeForms, NEW r \in Req, FormStep(r) PROVE WholeForms'
<1>1. CASE form' = form
  BY <1>1 DEF WholeForms
<1>2. ASSUME NEW id, NEW code, NEW links, NEW main, NEW value \in Int,
             form' = [form EXCEPT ![r] = [id |-> id, code |-> code, number |-> code,
                                          links |-> links, value |-> value, main |-> main]]
      PROVE  WholeForms'
  BY <1>2 DEF WholeForms, FormFields
<1>3. CASE \E n : form' = [form EXCEPT ![r].number = n]
  <2>1. PICK n : form' = [form EXCEPT ![r].number = n]
    BY <1>3
  <2>2. DOMAIN form' = Req /\ \A s \in Req \ {r} : form'[s] = form[s]
    BY <2>1 DEF WholeForms
  <2>3. DOMAIN form'[r] = FormFields /\ form'[r].value = form[r].value
    BY <2>1 DEF WholeForms, FormFields
  <2> QED
    BY <2>2, <2>3 DEF WholeForms
<1> QED
  BY <1>1, <1>2, <1>3 DEF FormStep

LEMMA StepsFormStep ==
  ASSUME NEW r \in Req,
         \/ MasterStep(r) \/ TreasuryStep(r) \/ JournalStep(r) \/ PersonnelStep(r)
         \/ EDocumentsStep(r) \/ FilesStep(r) \/ ProjectsStep(r) \/ AccessStep(r)
         \/ MembersStep(r) \/ Forbid(r) \/ Abort(r) \/ Worker
  PROVE  FormStep(r)
<1>1. CASE MasterStep(r)
  <2>1. CASE StartCreate(r)
    <3>1. PICK on, id, code, links, main : \E value \in Values(on) :
                  Asks(r, id, code, links, value, main)
      BY Zenon, <2>1 DEF StartCreate
    <3> QED
      BY <3>1, ValuesAreWhole, AsksFormStep
  <2>2. CASE StartUpdate(r)
    <3>1. PICK on, id, code, links, main : \E value \in Values(on) :
                  Asks(r, id, code, links, value, main)
      BY <2>2 DEF StartUpdate
    <3> QED
      BY <3>1, ValuesAreWhole, AsksFormStep
  <2>3. CASE StartOne(r)
    BY <2>3, 0 \in Int, AsksFormStep DEF StartOne
  <2>4. CASE StartList(r)
    BY <2>4 DEF StartList, FormStep, masterVars
  <2>5. CASE MasterWork(r)
    BY Zenon, <2>5 DEF MasterWork, FindKept, CountRows, InsertRow, FindRow, UpdateRow, ReadPage,
       CountPage, CountMovements, DeleteRow, FindMains, ClearMain, MainsCleared, Release,
       FormStep, masterVars
  <2> QED
    BY <1>1, <2>1, <2>2, <2>3, <2>4, <2>5 DEF MasterStep, MasterStart
<1>2. CASE TreasuryStep(r)
  <2>1. CASE TreasuryStart(r)
    <3>1. PICK id : Asks(r, id, 0, {}, 0, "unsaid")
      BY Zenon, <2>1 DEF TreasuryStart, StartReport, StartCancel
    <3> QED
      BY <3>1, 0 \in Int, AsksFormStep
  <2>2. CASE TreasuryWork(r)
    BY Zenon, <2>2 DEF TreasuryWork, FindAccount, SumNext, FindInvoice, CancelInvoice, FormStep,
       masterVars
  <2> QED
    BY <1>2, <2>1, <2>2 DEF TreasuryStep
<1>3. CASE Abort(r)
  BY <1>3 DEF Abort, MasterDrop, Release, FormStep
<1>4. CASE ~MasterStep(r) /\ ~TreasuryStep(r) /\ ~Abort(r)
  BY <1>4, OthersKeepMasters DEF FormStep
<1> QED
  BY <1>1, <1>2, <1>3, <1>4

LEMMA MasterKeepsWhole ==
  ASSUME Shapes, WholeRows, WholeForms, NEW r \in Req, MasterStep(r)
  PROVE  WholeRows'
<1>1. CASE rows' = rows
  BY <1>1 DEF WholeRows
<1>2. CASE InsertRow(r)
  <2>1. CASE rows' # rows
    BY <1>2, <2>1 DEF InsertRow, WholeRows, WholeForms
  <2> QED
    BY <1>1, <2>1
<1>3. CASE UpdateRow(r)
  <2>1. CASE rows' # rows
    <3>1. rows' = [rows EXCEPT ![Row(r)] = Written(r)]
      BY <1>3, <2>1 DEF UpdateRow
    <3>2. Written(r).value = form[r].value
      BY DEF Written
    <3> HIDE DEF Written
    <3> QED
      BY <3>1, <3>2 DEF WholeRows, WholeForms
  <2> QED
    BY <1>1, <2>1
<1>4. CASE DeleteRow(r)
  <2>1. CASE rows' # rows
    <3>1. /\ DOMAIN rows' \subseteq DOMAIN rows
          /\ \A id \in DOMAIN rows' : rows'[id] = [rows[id] EXCEPT !.links = @ \ {Row(r)}]
      BY <1>4, <2>1 DEF DeleteRow, Delete
    <3>2. ASSUME NEW id \in DOMAIN rows' PROVE rows'[id].value = rows[id].value
      BY <3>1 DEF Shapes
    <3> QED
      BY <3>1, <3>2 DEF WholeRows
  <2> QED
    BY <1>1, <2>1
<1> QED
  BY <1>1, <1>2, <1>3, <1>4, RowsAreWritten

LEMMA PersonnelKeepsAdding ==
  ASSUME SheetShapes, AddsInv, \A p \in DOMAIN payrolls : AsAsked(p),
         NEW r \in Req, PersonnelStep(r)
  PROVE  (\A s \in Req : WholeSheet(sheet'[s])) /\ PayrollAddsUp'
<1>1. \A s \in Req : WholeSheet(sheet[s])
  BY DEF AddsInv, WholeSheet
<1>2. AddsUp(NoPay)
  BY DEF AddsUp, NoPay
<1>3. CASE StartPayroll(r)
  <2>1. ASSUME NEW id, NEW date, NEW gross \in Int, NEW bonuses \in Int, NEW other \in Int
        PROVE  WholeSheet(PayrollSheet(id, date, gross, bonuses, other))
    BY <1>2 DEF PayrollSheet, NoSheet, WholeSheet
  <2>2. Salaries \subseteq Int /\ Unsaid \in Int
    BY PersonnelAssumption DEF Unsaid
  <2>3. PICK new : WholeSheet(new) /\ sheet' = [sheet EXCEPT ![r] = new]
    BY Zenon, <1>3, <2>1, <2>2 DEF StartPayroll
  <2>4. payrolls' = payrolls
    BY Zenon, <1>3 DEF StartPayroll
  <2> QED
    BY <1>1, <2>3, <2>4 DEF AddsInv, PayrollAddsUp, SheetShapes
<1>4. CASE StartApprove(r)
  <2>1. PICK p : sheet' = [sheet EXCEPT ![r].payroll = p]
    BY Zenon, <1>4 DEF StartApprove
  <2>2. \A s \in Req : /\ sheet'[s].gross = sheet[s].gross
                       /\ sheet'[s].bonuses = sheet[s].bonuses
                       /\ sheet'[s].other = sheet[s].other /\ sheet'[s].pay = sheet[s].pay
    BY <2>1 DEF SheetShapes, SheetFields
  <2>3. payrolls' = payrolls
    BY Zenon, <1>4 DEF StartApprove
  <2> QED
    BY <1>1, <2>2, <2>3 DEF AddsInv, PayrollAddsUp, WholeSheet
<1>5. CASE StartAttendance(r)
  <2>1. ASSUME NEW id, NEW date
        PROVE  WholeSheet([NoSheet EXCEPT !.employee = id, !.date = date])
    BY <1>2 DEF NoSheet, WholeSheet, Unsaid
  <2>2. PICK new : WholeSheet(new) /\ sheet' = [sheet EXCEPT ![r] = new]
    BY Zenon, <1>5, <2>1 DEF StartAttendance
  <2>3. payrolls' = payrolls
    BY Zenon, <1>5 DEF StartAttendance
  <2> QED
    BY <1>1, <2>2, <2>3 DEF AddsInv, PayrollAddsUp, SheetShapes
<1>6. CASE FindPayee(r)
  <2>1. payrolls' = payrolls
    BY Zenon, <1>6 DEF FindPayee
  <2>2. CASE sheet' = sheet
    BY <1>1, <2>1, <2>2 DEF AddsInv, PayrollAddsUp
  <2>3. CASE sheet' # sheet
    <3> DEFINE gross == IF sheet[r].gross = Unsaid THEN rows[sheet[r].employee].value
                                                   ELSE sheet[r].gross
               pay == CalculatePayroll(gross, sheet[r].bonuses, sheet[r].other)
    <3>1. /\ sheet[r].employee \in DOMAIN rows
          /\ sheet' = [sheet EXCEPT ![r].pay = pay]
      BY Zenon, <1>6, <2>3 DEF FindPayee
    <3>2. gross \in Int
      BY <3>1 DEF AddsInv, WholeRows
    <3>3. AddsUp(pay)
      BY <3>2, ComputedAddsUp DEF AddsInv
    <3> HIDE DEF pay
    <3>4. \A s \in Req : /\ sheet'[s].gross = sheet[s].gross
                         /\ sheet'[s].bonuses = sheet[s].bonuses
                         /\ sheet'[s].other = sheet[s].other
                         /\ sheet'[s].pay = IF s = r THEN pay ELSE sheet[s].pay
      BY <3>1 DEF SheetShapes, SheetFields
    <3> QED
      BY <1>1, <2>1, <3>3, <3>4 DEF AddsInv, PayrollAddsUp, WholeSheet
  <2> QED
    BY <2>2, <2>3
<1>7. CASE InsertPayroll(r)
  <2>1. sheet' = sheet
    BY Zenon, <1>7 DEF InsertPayroll
  <2>2. CASE payrolls' = payrolls
    BY <1>1, <2>1, <2>2 DEF AddsInv, PayrollAddsUp
  <2>3. CASE payrolls' # payrolls
    <3>1. \A p \in DOMAIN payrolls' :
            payrolls'[p] = IF p = r THEN Inserted(r) ELSE payrolls[p]
      BY Zenon, <1>7, <2>3 DEF InsertPayroll
    <3>2. DOMAIN payrolls' = DOMAIN payrolls \cup {r}
      BY Zenon, <1>7, <2>3 DEF InsertPayroll
    <3>3. Inserted(r).pay = sheet[r].pay
      BY DEF Inserted
    <3> QED
      BY <1>1, <2>1, <3>1, <3>2, <3>3 DEF AddsInv, PayrollAddsUp, WholeSheet
  <2> QED
    BY <2>2, <2>3
<1>8. CASE ApprovePayroll(r)
  BY <1>8, <1>1 DEF ApprovePayroll, AsAsked, AddsInv, PayrollAddsUp
<1>9. CASE UNCHANGED <<payrolls, sheet>>
  BY <1>1, <1>9 DEF AddsInv, PayrollAddsUp
<1> QED
  BY Zenon, <1>3, <1>4, <1>5, <1>6, <1>7, <1>8, <1>9 DEF PersonnelStep, PersonnelStart,
     PersonnelWork, FindPeriod, FindPayroll, FindAttendee, RecordAttendance, personnelVars

-----------------------------------------------------------------------------
(* E-documents.                                                            *)

LEMMA EDocumentInvKeeps == EDocumentInv => EDocumentIsKept
<1> SUFFICES ASSUME EDocumentInv PROVE EDocumentIsKept
  OBVIOUS
<1>1. ASSUME NEW r \in Req, At(r, "issue", "e_invoice", "ok")
      PROVE  {d \in DOMAIN einvoices : einvoices[d].invoice = paper[r].invoice} = {r}
  BY <1>1 DEF EDocumentInv, IssuedInvoice
<1>2. ASSUME NEW r \in Req, At(r, "issue", "e_waybill", "ok")
      PROVE  {d \in DOMAIN ewaybills : ewaybills[d] = paper[r].waybill} = {r}
  BY <1>2 DEF EDocumentInv, IssuedWaybill
<1> QED
  BY Zenon, <1>1, <1>2 DEF EDocumentIsKept

LEMMA InitEDocumentInv == Init => EDocumentInv
BY DEF Init, RequestsInit, EDocumentsInit, NoOp, NoPaper, PaperFields, EDocumentInv,
   PaperShapes, Inside, At

\* A step that writes no e-document and answers no issue, of a request that has not
\* answered.
LEMMA EDocumentsUntouched ==
  ASSUME EDocumentInv, NEW r \in Req, UNCHANGED <<einvoices, ewaybills>>, PaperShapes',
         \A s \in Req \ {r} : paper'[s] = paper[s] /\ Spares(s),
         pc[r] \notin Answered,
         Inside(InvoiceLabels, {<<"issue", "e_invoice">>})',
         Inside(WaybillLabels, {<<"issue", "e_waybill">>})',
         op'[r] \in IssueOps => pc'[r] # "ok"
  PROVE  EDocumentInv'
<1>1. /\ \A d \in DOMAIN einvoices : d # r
      /\ \A d \in DOMAIN ewaybills : d # r
  BY DEF EDocumentInv, IssuedInvoice, IssuedWaybill
<1>2. /\ \A d \in DOMAIN einvoices : IssuedInvoice(d)'
      /\ \A d \in DOMAIN ewaybills : IssuedWaybill(d)'
  BY <1>1 DEF EDocumentInv, IssuedInvoice, IssuedWaybill, Spares
<1>3. /\ \A s \in Req : At(s, "issue", "e_invoice", "ok")' => s \in DOMAIN einvoices
      /\ \A s \in Req : At(s, "issue", "e_waybill", "ok")' => s \in DOMAIN ewaybills
  BY DEF EDocumentInv, At, IssueOps, Spares
<1> QED
  BY <1>2, <1>3 DEF EDocumentInv

LEMMA EDocumentInvStart ==
  ASSUME EDocumentInv, NEW r \in Req, EDocumentsStart(r), RequestTypes
  PROVE  EDocumentInv'
<1>1. pc[r] \notin Answered
  BY DEF EDocumentsStart, Idle, Answered
<1>2. \A s \in Req \ {r} : Spares(s)
  BY Zenon DEF EDocumentsStart, StartIssueInvoice, StartIssueWaybill, StartCancelEInvoice, Begin,
     RequestTypes, Spares
<1>3. UNCHANGED <<einvoices, ewaybills>>
  BY Zenon DEF EDocumentsStart, StartIssueInvoice, StartIssueWaybill, StartCancelEInvoice
<1>4. PaperShapes' /\ \A s \in Req \ {r} : paper'[s] = paper[s]
  BY Zenon DEF EDocumentsStart, StartIssueInvoice, StartIssueWaybill, StartCancelEInvoice,
     EDocumentInv, PaperShapes
<1>5. ASSUME /\ op'[r] = <<"issue", "e_invoice">> => pc'[r] \in InvoiceLabels
             /\ op'[r] = <<"issue", "e_waybill">> => pc'[r] \in WaybillLabels
             /\ pc'[r] # "ok"
      PROVE  EDocumentInv'
  BY <1>2, <1>5, <1>1, <1>3, <1>4, EDocumentsUntouched DEF EDocumentInv, Inside, Spares
<1>6. CASE StartIssueInvoice(r)
  <2>1. op'[r] = <<"issue", "e_invoice">>
    BY Zenon, <1>6 DEF StartIssueInvoice, Begin, RequestTypes
  <2>2. op'[r] # <<"issue", "e_waybill">>
    BY <2>1
  <2>3. pc'[r] # "ok" /\ pc'[r] \in InvoiceLabels
    BY Zenon, <1>6 DEF StartIssueInvoice, Begin, RequestTypes, InvoiceLabels
  <2> QED
    BY <1>5, <2>2, <2>3
<1>7. CASE StartIssueWaybill(r)
  <2>1. op'[r] = <<"issue", "e_waybill">>
    BY Zenon, <1>7 DEF StartIssueWaybill, Begin, RequestTypes
  <2>2. op'[r] # <<"issue", "e_invoice">>
    BY <2>1
  <2>3. pc'[r] # "ok" /\ pc'[r] \in WaybillLabels
    BY Zenon, <1>7 DEF StartIssueWaybill, Begin, RequestTypes, WaybillLabels
  <2> QED
    BY <1>5, <2>2, <2>3
<1>8. CASE StartCancelEInvoice(r)
  <2>1. op'[r] = <<"cancel", "e_invoice">>
    BY Zenon, <1>8 DEF StartCancelEInvoice, Begin, RequestTypes
  <2>2. op'[r] # <<"issue", "e_invoice">>
    BY <2>1
  <2>3. op'[r] # <<"issue", "e_waybill">>
    BY <2>1
  <2>4. pc'[r] # "ok"
    BY Zenon, <1>8 DEF StartCancelEInvoice, Begin, RequestTypes
  <2> QED
    BY <1>5, <2>2, <2>3, <2>4
<1> QED
  BY <1>6, <1>7, <1>8 DEF EDocumentsStart

LEMMA EDocumentInvWork ==
  ASSUME EDocumentInv, NEW r \in Req, EDocumentsWork(r), RequestTypes
  PROVE  EDocumentInv'
<1> USE DEF EDocumentInv
<1>1. paper' = paper /\ PaperShapes'
  BY Zenon DEF EDocumentsWork, FindSalesInvoice, FindIssued, InsertEInvoice, FindWaybill,
     FindIssuedWaybill, InsertEWaybill, FindEInvoice, CancelEInvoice, RereadEInvoice,
     edocVars, PaperShapes
<1>2. op' = op /\ \A s \in Req \ {r} : Spares(s)
  BY Zenon DEF EDocumentsWork, FindSalesInvoice, FindIssued, InsertEInvoice, FindWaybill,
     FindIssuedWaybill, InsertEWaybill, FindEInvoice, CancelEInvoice, RereadEInvoice,
     Goto, Answer, RequestTypes, Spares
<1>3. pc[r] \notin Answered
  BY Zenon DEF EDocumentsWork, FindSalesInvoice, FindIssued, InsertEInvoice, FindWaybill,
     FindIssuedWaybill, InsertEWaybill, FindEInvoice, CancelEInvoice, RereadEInvoice,
     Answered
<1>4. CASE FindSalesInvoice(r) \/ FindIssued(r) \/ FindWaybill(r) \/ FindIssuedWaybill(r)
  <2>1. /\ UNCHANGED <<einvoices, ewaybills>> /\ pc'[r] # "ok"
        /\ pc[r] \in InvoiceLabels => pc'[r] \in InvoiceLabels \cup Answered
        /\ pc[r] \in WaybillLabels => pc'[r] \in WaybillLabels \cup Answered
    BY Zenon, <1>4 DEF FindSalesInvoice, FindIssued, FindWaybill, FindIssuedWaybill, Goto, Answer,
       edocVars, RequestTypes, InvoiceLabels, WaybillLabels, Answered
  <2>2. /\ Inside(InvoiceLabels, {<<"issue", "e_invoice">>})'
        /\ Inside(WaybillLabels, {<<"issue", "e_waybill">>})'
    BY <1>2, <1>3, <2>1 DEF Inside, Spares
  <2> QED
    BY <1>1, <1>2, <1>3, <2>1, <2>2, EDocumentsUntouched
<1>5. CASE InsertEInvoice(r) \/ InsertEWaybill(r)
  <2>1. /\ pc'[r] \in Answered
        /\ Inside(InvoiceLabels, {<<"issue", "e_invoice">>})'
        /\ Inside(WaybillLabels, {<<"issue", "e_waybill">>})'
    <3>1. pc'[r] \in Answered
      BY Zenon, <1>5 DEF InsertEInvoice, InsertEWaybill, Answer, Goto, RequestTypes, Answered
    <3> QED
      BY <1>2, <3>1 DEF Inside, Spares
  <2>2. r \notin DOMAIN einvoices /\ r \notin DOMAIN ewaybills
    BY <1>3 DEF IssuedInvoice, IssuedWaybill
  <2>3. CASE InsertEInvoice(r)
    <3>1. ewaybills' = ewaybills /\ op[r] # <<"issue", "e_waybill">>
      BY Zenon, <2>3 DEF InsertEInvoice, Inside, WaybillLabels, Answered
    <3>2. CASE InvoiceIssued(r)
      BY Zenon, <2>3, <3>2, <1>1, <1>2, <1>3, <2>1, <3>1, EDocumentsUntouched
         DEF InsertEInvoice, Answer, Goto, RequestTypes
    <3>3. CASE ~InvoiceIssued(r)
      <4>1. /\ DOMAIN einvoices' = DOMAIN einvoices \cup {r}
            /\ \A d \in DOMAIN einvoices' :
                 einvoices'[d] = IF d = r THEN [invoice |-> paper[r].invoice,
                                                status |-> "QUEUED"]
                                          ELSE einvoices[d]
        BY Zenon, <2>3, <3>3 DEF InsertEInvoice
      <4>2. /\ einvoices'[r].invoice = paper[r].invoice
            /\ DOMAIN einvoices'[r] = {"invoice", "status"}
        BY <4>1
      <4>3. \A d \in DOMAIN einvoices' : IssuedInvoice(d)'
        BY <1>1, <1>2, <2>1, <4>1, <4>2 DEF IssuedInvoice, Spares
      <4>4. \A d \in DOMAIN ewaybills' : IssuedWaybill(d)'
        BY <1>1, <1>2, <2>1, <3>1 DEF IssuedWaybill, Spares
      <4>5. \A d, e \in DOMAIN einvoices' :
              d # e => einvoices'[d].invoice # einvoices'[e].invoice
        BY <3>3, <4>1, <4>2 DEF InvoiceIssued
      <4>6. /\ \A s \in Req : At(s, "issue", "e_invoice", "ok")' => s \in DOMAIN einvoices'
            /\ \A s \in Req : At(s, "issue", "e_waybill", "ok")' => s \in DOMAIN ewaybills'
        BY <1>2, <3>1, <4>1 DEF At, Spares
      <4> QED
        BY <1>1, <2>1, <3>1, <4>3, <4>4, <4>5, <4>6
    <3> QED
      BY <3>2, <3>3
  <2>4. CASE InsertEWaybill(r)
    <3>1. einvoices' = einvoices /\ op[r] # <<"issue", "e_invoice">>
      BY Zenon, <2>4 DEF InsertEWaybill, Inside, InvoiceLabels, Answered
    <3>2. CASE WaybillIssued(r)
      BY Zenon, <2>4, <3>2, <1>1, <1>2, <1>3, <2>1, <3>1, EDocumentsUntouched
         DEF InsertEWaybill, Answer, Goto, RequestTypes
    <3>3. CASE ~WaybillIssued(r)
      <4>1. /\ DOMAIN ewaybills' = DOMAIN ewaybills \cup {r}
            /\ \A d \in DOMAIN ewaybills' :
                 ewaybills'[d] = IF d = r THEN paper[r].waybill ELSE ewaybills[d]
        BY Zenon, <2>4, <3>3 DEF InsertEWaybill
      <4>2. \A d \in DOMAIN ewaybills' : IssuedWaybill(d)'
        BY <1>1, <1>2, <2>1, <4>1 DEF IssuedWaybill, Spares
      <4>3. \A d \in DOMAIN einvoices' : IssuedInvoice(d)'
        BY <1>1, <1>2, <2>1, <3>1 DEF IssuedInvoice, Spares
      <4>4. \A d, e \in DOMAIN ewaybills' : d # e => ewaybills'[d] # ewaybills'[e]
        BY <3>3, <4>1 DEF WaybillIssued
      <4>5. /\ \A s \in Req : At(s, "issue", "e_invoice", "ok")' => s \in DOMAIN einvoices'
            /\ \A s \in Req : At(s, "issue", "e_waybill", "ok")' => s \in DOMAIN ewaybills'
        BY <1>2, <3>1, <4>1 DEF At, Spares
      <4> QED
        BY <1>1, <2>1, <3>1, <4>2, <4>3, <4>4, <4>5
    <3> QED
      BY <3>2, <3>3
  <2> QED
    BY <1>5, <2>3, <2>4
<1>6. CASE FindEInvoice(r) \/ CancelEInvoice(r) \/ RereadEInvoice(r)
  <2>1. op[r] \notin IssueOps
    BY Zenon, <1>6 DEF FindEInvoice, CancelEInvoice, RereadEInvoice, Inside, InvoiceLabels,
       WaybillLabels, Answered, IssueOps
  <2>2. /\ Inside(InvoiceLabels, {<<"issue", "e_invoice">>})'
        /\ Inside(WaybillLabels, {<<"issue", "e_waybill">>})'
    BY <1>2, <2>1 DEF Inside, Spares, IssueOps
  <2>3. CASE CancelEInvoice(r)
    <3>1. /\ ewaybills' = ewaybills
          /\ einvoices' = [einvoices EXCEPT ![paper[r].doc].status = "CANCELLED"]
      BY Zenon, <2>3 DEF CancelEInvoice
    <3>2. /\ DOMAIN einvoices' = DOMAIN einvoices
          /\ \A d \in DOMAIN einvoices : /\ DOMAIN einvoices'[d] = DOMAIN einvoices[d]
                                         /\ einvoices'[d].invoice = einvoices[d].invoice
      BY <3>1 DEF IssuedInvoice
    <3>3. \A d \in DOMAIN einvoices : d # r
      BY <1>3 DEF IssuedInvoice
    <3>4. \A d \in DOMAIN ewaybills : d # r
      BY <1>3 DEF IssuedWaybill
    <3>5. \A d \in DOMAIN einvoices' : IssuedInvoice(d)'
      BY <1>1, <1>2, <3>2, <3>3 DEF IssuedInvoice, Spares
    <3>6. \A d \in DOMAIN ewaybills' : IssuedWaybill(d)'
      BY <1>1, <1>2, <3>1, <3>4 DEF IssuedWaybill, Spares
    <3>7. /\ \A s \in Req : At(s, "issue", "e_invoice", "ok")' => s \in DOMAIN einvoices'
          /\ \A s \in Req : At(s, "issue", "e_waybill", "ok")' => s \in DOMAIN ewaybills'
      BY <1>2, <2>1, <3>1, <3>2 DEF At, Spares, IssueOps
    <3> QED
      BY <1>1, <2>2, <3>1, <3>2, <3>5, <3>6, <3>7
  <2>4. CASE FindEInvoice(r) \/ RereadEInvoice(r)
    BY Zenon, <2>4, <1>1, <1>2, <1>3, <2>1, <2>2, EDocumentsUntouched DEF FindEInvoice,
       RereadEInvoice, edocVars
  <2> QED
    BY <1>6, <2>3, <2>4
<1> QED
  BY <1>4, <1>5, <1>6 DEF EDocumentsWork

LEMMA EDocumentInvTransmit == EDocumentInv /\ Transmit => EDocumentInv'
<1> SUFFICES ASSUME EDocumentInv, Transmit PROVE EDocumentInv'
  OBVIOUS
<1> USE DEF EDocumentInv
<1>1. PICK x, answer : einvoices' = [einvoices EXCEPT ![x].status = answer]
  BY DEF Transmit
<1>2. UNCHANGED <<pc, op, ewaybills, paper>>
  BY DEF Transmit, requestVars
<1>3. /\ DOMAIN einvoices' = DOMAIN einvoices
      /\ \A d \in DOMAIN einvoices : /\ DOMAIN einvoices'[d] = DOMAIN einvoices[d]
                                     /\ einvoices'[d].invoice = einvoices[d].invoice
  BY <1>1 DEF IssuedInvoice
<1>4. \A d \in DOMAIN einvoices' : IssuedInvoice(d)'
  BY <1>2, <1>3 DEF IssuedInvoice
<1> QED
  BY <1>2, <1>3, <1>4 DEF PaperShapes, Inside, IssuedWaybill, At

LEMMA EDocumentInvOthers ==
  ASSUME RequestTypes, EDocumentInv, NEW r \in Req, UNCHANGED edocVars,
         \/ /\ Elsewhere(r, InvoiceLabels, {<<"issue", "e_invoice">>})
            /\ Elsewhere(r, WaybillLabels, {<<"issue", "e_waybill">>})
         \/ Forbid(r) \/ Abort(r)
  PROVE  EDocumentInv'
<1> USE DEF EDocumentInv
<1>1. /\ \A s \in Req : pc[s] \in Answered => pc'[s] \in Answered
      /\ Inside(InvoiceLabels, {<<"issue", "e_invoice">>})'
      /\ Inside(WaybillLabels, {<<"issue", "e_waybill">>})'
      /\ \A s \in Req, o \in IssueOps : op'[s] = o /\ pc'[s] = "ok" => Spares(s)
  <2>1. CASE /\ Elsewhere(r, InvoiceLabels, {<<"issue", "e_invoice">>})
             /\ Elsewhere(r, WaybillLabels, {<<"issue", "e_waybill">>})
    BY <2>1, ElsewhereSpares DEF IssueOps
  <2>2. CASE Forbid(r) \/ Abort(r)
    BY <2>2, EndsSpare DEF Answered, Spares
  <2> QED
    BY <2>1, <2>2
<1>2. \A s \in Req : \A act, on : <<act, on>> \in IssueOps /\ At(s, act, on, "ok")'
                                => At(s, act, on, "ok")
  BY <1>1 DEF At, Spares
<1>3. /\ \A s \in Req : At(s, "issue", "e_invoice", "ok")' => s \in DOMAIN einvoices
      /\ \A s \in Req : At(s, "issue", "e_waybill", "ok")' => s \in DOMAIN ewaybills
  BY <1>2 DEF IssueOps
<1> QED
  BY <1>1, <1>3 DEF PaperShapes, IssuedInvoice, IssuedWaybill, edocVars

-----------------------------------------------------------------------------
(* Accounts and members.                                                   *)

LEMMA MemberInvKeeps == MemberInv => MemberIsKept
BY Zenon DEF MemberInv, Owns, Registered, Invited, MemberIsKept, At, RegisterOps, InviteOps

LEMMA InitMemberInv == Init => MemberInv
BY DEF Init, RequestsInit, NoOp, RegisterOps, InviteOps, MembersInit, PersonShapes,
   MemberInv, Inside, Owns

LEMMA WithKeeps ==
  ASSUME NEW f, NEW k, NEW r, k \notin DOMAIN f
  PROVE  /\ Extends(f, With(f, k, r))
         /\ k \in DOMAIN With(f, k, r) /\ With(f, k, r)[k] = r
BY DEF With, Extends

\* A step of one request leaves what the others own.
LEMMA OwnersStay ==
  ASSUME PersonShapes, Grown, NEW s \in Req, Owns(s), Spares(s), person'[s] = person[s]
  PROVE  Owns(s)'
BY Zenon DEF Email, TaxNumber, Registered, Grown, Extends, Invited, Owns, Spares

LEMMA MemberInvStep ==
  ASSUME RequestTypes, MemberInv, NEW r \in Req, MembersStart(r) \/ MembersWork(r)
  PROVE  MemberInv'
<1> USE DEF MemberInv
<1>1. MovesAmong(r, MemberLabels, MemberOps)
  BY MemberMoves
<1>2. \A s \in Req \ {r} : Spares(s)
  BY <1>1 DEF MovesAmong, RequestTypes, Spares
<1>3. SUFFICES /\ Grown /\ PersonShapes'
               /\ \A s \in Req \ {r} : person'[s] = person[s]
               /\ op'[r] \in RegisterOps => pc'[r] \in RegisterLabels \cup Answered
               /\ op'[r] \in InviteOps => pc'[r] \in InviteLabels \cup Answered
               /\ Owns(r)'
  BY <1>2, OwnersStay DEF Inside, Spares
<1>4. \A f : Extends(f, f)
  BY DEF Extends
<1>5. CASE StartRegister(r)
  <2>1. PICK e, n : person' = [person EXCEPT ![r].email = e, ![r].taxNumber = n]
    BY Zenon, <1>5 DEF StartRegister
  <2>2. op'[r] = <<"register", "registration">>
    BY Zenon, <1>5 DEF StartRegister, Begin, RequestTypes
  <2>3. op'[r] \notin InviteOps
    BY <2>2 DEF InviteOps
  <2>4. pc'[r] \in RegisterLabels /\ pc'[r] # "ok"
    BY Zenon, <1>5 DEF StartRegister, Begin, RequestTypes, RegisterLabels
  <2>5. PersonShapes' /\ \A s \in Req \ {r} : person'[s] = person[s]
    BY <2>1 DEF PersonShapes
  <2>6. Grown
    BY Zenon, <1>4, <1>5 DEF StartRegister, Grown
  <2> QED
    BY Zenon, <2>3, <2>4, <2>5, <2>6 DEF Owns
<1>6. CASE StartInvite(r)
  <2>1. PICK e : person' = [person EXCEPT ![r].email = e]
    BY Zenon, <1>6 DEF StartInvite
  <2>2. op'[r] = <<"invite", "member">>
    BY Zenon, <1>6 DEF StartInvite, Begin, RequestTypes
  <2>3. op'[r] \notin RegisterOps
    BY <2>2 DEF RegisterOps
  <2>4. /\ pc'[r] \in InviteLabels
        /\ pc'[r] \notin {"mail", "ok", "find membership", "join"}
    BY Zenon, <1>6 DEF StartInvite, Begin, RequestTypes, InviteLabels
  <2>5. PersonShapes' /\ \A s \in Req \ {r} : person'[s] = person[s]
    BY <2>1 DEF PersonShapes
  <2>6. Grown
    BY Zenon, <1>4, <1>6 DEF StartInvite, Grown
  <2> QED
    BY Zenon, <2>3, <2>4, <2>5, <2>6 DEF Owns
<1>7. CASE FindUser(r) \/ FindCompany(r)
  BY Zenon, <1>7, <1>4 DEF FindUser, FindCompany, Goto, Answer, RequestTypes, RegisterLabels,
     Answered, InviteLabels, Inside, memberVars, Grown, PersonShapes, Owns
<1>8. CASE Register(r)
  <2>1. pc[r] \in RegisterLabels /\ op' = op /\ pc'[r] \in {"ok", "refused"}
    BY Zenon, <1>8 DEF Register, Goto, Answer, RequestTypes, RegisterLabels
  <2>2. pc[r] \notin InviteLabels \cup Answered
    BY Zenon, <2>1 DEF RegisterLabels, InviteLabels, Answered
  <2>3. op'[r] \notin InviteOps
    BY <2>1, <2>2 DEF Inside
  <2>4. person' = person /\ joined' = joined /\ PersonShapes'
    BY <1>8 DEF Register, PersonShapes
  <2>5. pc'[r] \in Answered
    BY <2>1 DEF Answered
  <2>6. CASE Email(r) \notin DOMAIN users /\ TaxNumber(r) \notin DOMAIN companies
    <3>1. /\ users' = With(users, Email(r), r)
          /\ companies' = With(companies, TaxNumber(r), r)
      BY <1>8, <2>6 DEF Register
    <3>2. Grown /\ Registered(r)'
      BY <1>4, <2>4, <2>6, <3>1, WithKeeps DEF Grown, Registered, Email, TaxNumber
    <3> QED
      BY Zenon, <2>3, <2>4, <2>5, <3>2 DEF Owns
  <2>7. CASE ~(Email(r) \notin DOMAIN users /\ TaxNumber(r) \notin DOMAIN companies)
    BY Zenon, <1>8, <2>7, <1>4, <2>4, <2>3, <2>5 DEF Register, Goto, Answer, RequestTypes,
       Grown, Owns
  <2> QED
    BY <2>6, <2>7
<1>9. ASSUME pc[r] \in InviteLabels, op' = op PROVE op'[r] \notin RegisterOps
  BY Zenon, <1>9 DEF Inside, RegisterLabels, InviteLabels, Answered
<1>10. CASE FindInvited(r)
  BY Zenon, <1>10, <1>4, <1>9 DEF FindInvited, Goto, RequestTypes, InviteLabels, PersonShapes,
     Grown, Email, Owns
<1>11. CASE FindMembership(r)
  BY Zenon, <1>11, <1>4, <1>9 DEF FindMembership, Goto, Answer, RequestTypes, InviteLabels,
     Answered, memberVars, PersonShapes, Grown, Email, Owns
<1>12. CASE Join(r)
  <2>1. /\ pc[r] \in InviteLabels /\ pc[r] \in {"find membership", "join"} /\ op' = op
        /\ pc'[r] \in {"mail", "refused"}
    BY Zenon, <1>12 DEF Join, Goto, Answer, RequestTypes, InviteLabels
  <2>2. pc'[r] \in InviteLabels \cup Answered /\ pc'[r] \notin {"find membership", "join"}
    BY Zenon, <2>1 DEF InviteLabels, Answered
  <2>3. UNCHANGED <<companies, person>> /\ PersonShapes' /\ Email(r)' = Email(r)
    BY <1>12 DEF Join, PersonShapes, Email
  <2>4. CASE UNCHANGED <<users, joined>> /\ pc'[r] = "refused"
    BY Zenon, <1>4, <2>3, <2>4, <1>9, <2>1, <2>2 DEF Grown, Owns
  <2>5. CASE ~(UNCHANGED <<users, joined>> /\ pc'[r] = "refused")
    <3>1. /\ Email(r) \in DOMAIN users => person[r].found
          /\ Email(r) \notin DOMAIN joined
          /\ joined' = With(joined, Email(r), r)
          /\ users' = IF person[r].found THEN users ELSE With(users, Email(r), r)
      BY <1>12, <2>5 DEF Join, Answer, Goto, RequestTypes
    <3>2. /\ Extends(joined, joined') /\ Email(r) \in DOMAIN joined'
          /\ joined'[Email(r)] = r
      BY <3>1, WithKeeps
    <3>3. Extends(users, users')
      BY <1>4, <3>1, WithKeeps
    <3>4. op[r] \in InviteOps => Email(r) \in DOMAIN users'
      BY Zenon, <2>1, <3>1, WithKeeps DEF Owns
    <3>5. op[r] \in InviteOps => Invited(r)'
      BY <2>3, <3>2, <3>4 DEF Invited
    <3>6. Grown
      BY <1>4, <2>3, <3>2, <3>3 DEF Grown
    <3> QED
      BY Zenon, <1>9, <2>1, <2>2, <2>3, <3>5, <3>6 DEF Owns
  <2> QED
    BY <2>4, <2>5
<1>13. CASE SendMail(r)
  BY Zenon, <1>13, <1>4, <1>9 DEF SendMail, Goto, Answer, RequestTypes, InviteLabels, Answered,
     memberVars, PersonShapes, Grown, Invited, Email, Owns
<1> QED
  BY <1>5, <1>6, <1>7, <1>8, <1>10, <1>11, <1>12, <1>13 DEF MembersStart, MembersWork

LEMMA MemberInvOthers ==
  ASSUME RequestTypes, MemberInv, NEW r \in Req, UNCHANGED memberVars,
         \/ /\ Elsewhere(r, RegisterLabels, RegisterOps)
            /\ Elsewhere(r, InviteLabels, InviteOps)
         \/ Forbid(r) \/ Abort(r)
  PROVE  MemberInv'
<1> USE DEF MemberInv
<1>1. UNCHANGED <<users, companies, joined, person>> /\ PersonShapes'
  BY DEF memberVars, PersonShapes
<1>2. Grown
  BY <1>1 DEF Grown, Extends
<1>3. CASE /\ Elsewhere(r, RegisterLabels, RegisterOps)
           /\ Elsewhere(r, InviteLabels, InviteOps)
  <2>1. /\ \A s \in Req : op'[s] \in RegisterOps \cup InviteOps => Spares(s)
        /\ Inside(RegisterLabels, RegisterOps)' /\ Inside(InviteLabels, InviteOps)'
    BY <1>3, ElsewhereSpares
  <2>2. ASSUME NEW s \in Req PROVE Owns(s)'
    BY Zenon, <1>1, <1>2, <2>1, OwnersStay DEF Owns
  <2> QED
    BY <1>1, <2>1, <2>2
<1>4. CASE Forbid(r) \/ Abort(r)
  BY Zenon, <1>4, EndsSpare, <1>1, <1>2, OwnersStay DEF Owns
<1> QED
  BY <1>3, <1>4

-----------------------------------------------------------------------------
(* Files.                                                                  *)

\* Only the rows and objects of the request that steps need another account.
LEMMA StillAccountedFor ==
  ASSUME FilesAccountedFor, NEW r \in Req,
         \A s \in Req \ {r} : Spares(s) /\ file'[s] = file[s],
         \A a \in attachments' \ objects' :
           Cut(r, a)' \/ (a \in attachments \ objects /\ ~Cut(r, a)),
         \A a \in objects' \ attachments' :
           \/ Failed(r, a)' \/ Uploading(a)'
           \/ a \in objects \ attachments /\ ~Failed(r, a) /\ ~(a = r /\ Uploading(r))
  PROVE  FilesAccountedFor'
<1>1. ASSUME NEW s \in Req \ {r}, NEW a
      PROVE  Cut(s, a)' = Cut(s, a) /\ Failed(s, a)' = Failed(s, a)
  BY Zenon DEF Cut, Failed, Removing, Does, On, Spares
<1>2. \A a : a # r /\ Uploading(a) => Uploading(a)'
  BY Zenon DEF Uploading, Spares
<1>3. /\ \A a \in attachments \ objects : \E s \in Req : Cut(s, a)
      /\ \A a \in objects \ attachments : Uploading(a) \/ \E s \in Req : Failed(s, a)
  BY Zenon DEF FilesAccountedFor, Cut, Failed, Uploading
<1>4. ASSUME NEW a \in attachments' \ objects' PROVE \E s \in Req : Cut(s, a)'
  BY <1>1, <1>3
<1>5. ASSUME NEW a \in objects' \ attachments'
      PROVE  Uploading(a)' \/ \E s \in Req : Failed(s, a)'
  BY <1>1, <1>2, <1>3
<1> QED
  BY Zenon, <1>4, <1>5 DEF FilesAccountedFor, Cut, Failed, Uploading

LEMMA InitFileInv == Init => FileInv
<1> SUFFICES ASSUME Init PROVE FileInv
  OBVIOUS
<1>1. ASSUME NEW r \in Req
      PROVE  pc[r] = "idle" /\ ~file[r].failed /\ DOMAIN file[r] = {"name", "failed"}
  BY DEF Init, RequestsInit, FilesInit, NoFile
<1>2. DOMAIN file = Req /\ attachments = {0} /\ objects = {0}
  BY DEF Init, FilesInit
<1> QED
  BY Zenon, <1>1, <1>2 DEF FileInv, FileShapes, FileAt, Stored, FilesAccountedFor

LEMMA FileInvStep ==
  ASSUME RequestTypes, FileInv, NEW r \in Req, FilesStep(r)
  PROVE  FileInv'
<1> USE DEF FileInv
<1>1. MovesAmong(r, FileLabels, FileOps)
  BY StepMoves
<1>2. /\ pc[r] \notin Answered
      /\ \A s \in Req \ {r} : Spares(s)
  BY Zenon, <1>1 DEF FileLabels, Answered, MovesAmong, RequestTypes, Spares
<1>3. \A a : Stored(a) => Stored(a)' /\ a # r
  BY <1>2, FilesAssumption DEF Stored, Spares, Answered
\* What is left to show: how the others, the request itself and the rows fare.
<1>4. ASSUME NEW s \in Req \ {r}, file'[s] = file[s],
             s \in objects /\ pc[s] = "insert file" => s \in objects',
             \A a : Stored(a) /\ a \notin objects => a \notin objects'
      PROVE  FileAt(s)'
  BY Zenon, <1>2, <1>3, <1>4 DEF FileAt, Spares, On, Does
<1>5. /\ pc[r] # "delete file" => \A a : ~Cut(r, a) /\ ~Failed(r, a)
      /\ pc[r] # "insert file" => ~Uploading(r)
  BY Zenon, <1>2 DEF FileAt, Cut, Failed, Uploading, Answered
<1>6. CASE StartUpload(r)
  <2>1. file' = [file EXCEPT ![r].name = r] /\ UNCHANGED <<attachments, objects>>
    BY <1>6 DEF StartUpload
  <2>2. pc[r] = "idle" /\ pc'[r] = "put"
    BY <1>6 DEF StartUpload, Begin, Idle, RequestTypes
  <2>3. /\ FileShapes' /\ \A s \in Req \ {r} : file'[s] = file[s]
        /\ file'[r].name = r /\ file'[r].failed = file[r].failed
    BY <2>1 DEF FileShapes
  <2>4. ~file[r].failed
    BY Zenon, <2>2 DEF FileAt, Answered
  <2>5. FileAt(r)'
    BY Zenon, <2>2, <2>3, <2>4 DEF FileAt
  <2>6. FilesAccountedFor'
    BY <1>2, <1>5, <2>1, <2>2, <2>3, StillAccountedFor
  <2> QED
    BY Zenon, <1>3, <1>4, <2>1, <2>3, <2>5, <2>6
<1>7. CASE StartFile(r)
  <2>1. PICK a \in attachments, act \in {"url", "remove"} :
          /\ Begin(r, <<act, "attachment">>, "find file")
          /\ file' = [file EXCEPT ![r].name = a]
          /\ UNCHANGED <<attachments, objects>>
    BY Zenon, <1>7 DEF StartFile
  <2>2. pc[r] = "idle" /\ pc'[r] = "find file"
    BY Zenon, <2>1 DEF Begin, Idle, RequestTypes
  <2>3. /\ FileShapes' /\ \A s \in Req \ {r} : file'[s] = file[s]
        /\ file'[r].name = a /\ file'[r].failed = file[r].failed
    BY Zenon, <2>1 DEF FileShapes
  <2>4. ~file[r].failed
    BY Zenon, <2>2 DEF FileAt, Answered
  <2>5. op'[r] = <<act, "attachment">>
    BY Zenon, <2>1 DEF Begin, RequestTypes
  <2>6. On(r)' = "attachment" /\ (Does(r, "url")' \/ Does(r, "remove")')
    BY <2>5 DEF On, Does
  <2>7. FileAt(r)'
    BY Zenon, <1>3, <2>1, <2>2, <2>3, <2>4, <2>6 DEF FileAt
  <2>8. FilesAccountedFor'
    BY Zenon, <1>2, <1>5, <2>1, <2>2, <2>3, StillAccountedFor
  <2> QED
    BY Zenon, <1>3, <1>4, <2>1, <2>3, <2>7, <2>8
<1>8. CASE FilesWork(r)
  <2>1. op' = op
    BY Zenon, <1>8 DEF FilesWork, PutObject, PutFails, InsertFile, FindFile, Presign,
       RemoveObject, RemoveFails, DeleteFile, Goto, Answer
  <2>2. CASE PutObject(r)
    <3>1. /\ pc[r] = "put" /\ pc'[r] = "insert file" /\ file' = file
          /\ attachments' = attachments /\ objects' = objects \cup {r}
      BY Zenon, <2>2 DEF PutObject, Goto, RequestTypes, FileAt
    <3>2. FileAt(r)' /\ FileShapes'
      BY Zenon, <1>2, <3>1 DEF FileAt, FileShapes, Answered
    <3>3. FilesAccountedFor'
      <4>1. Uploading(r)'
        BY Zenon, <3>1 DEF Uploading
      <4> QED
        BY Zenon, <1>2, <1>5, <3>1, <4>1, StillAccountedFor
    <3> QED
      BY Zenon, <1>3, <1>4, <3>1, <3>2, <3>3
  <2>3. CASE InsertFile(r)
    <3>1. /\ pc[r] = "insert file" /\ pc'[r] = "ok" /\ file' = file
          /\ attachments' = attachments \cup {r} /\ objects' = objects /\ r \in objects
      BY Zenon, <2>3 DEF InsertFile, Goto, Answer, RequestTypes, FileAt
    <3>2. FileAt(r)' /\ FileShapes'
      BY Zenon, <3>1 DEF FileAt, FileShapes, Answered
    <3>3. FilesAccountedFor'
      BY Zenon, <1>2, <1>5, <3>1, StillAccountedFor
    <3>4. Stored(r)'
      BY Zenon, <3>1 DEF Stored
    <3> QED
      BY Zenon, <1>3, <1>4, <3>1, <3>2, <3>3, <3>4
  <2>4. CASE FindFile(r) \/ Presign(r) \/ PutFails(r)
    <3>1. /\ UNCHANGED fileVars
          /\ pc[r] \in {"put", "find file", "presign"}
          /\ \/ pc'[r] \in {"ok", "refused"}
             \/ pc[r] = "find file" /\ pc'[r] = "presign" /\ Does(r, "url")
             \/ pc[r] = "find file" /\ pc'[r] = "remove object" /\ ~Does(r, "url")
      BY Zenon, <2>4 DEF FindFile, Presign, PutFails, Goto, Answer, RequestTypes
    <3>2. FileShapes' /\ file' = file /\ attachments' = attachments /\ objects' = objects
      BY Zenon, <3>1 DEF fileVars, FileShapes
    <3>3. FileAt(r)'
      BY Zenon, <1>3, <2>1, <3>1, <3>2 DEF FileAt, Answered, Does, On
    <3>4. FilesAccountedFor'
      BY Zenon, <1>2, <1>5, <3>1, <3>2, StillAccountedFor
    <3> QED
      BY Zenon, <1>3, <1>4, <3>2, <3>3, <3>4
  <2>5. CASE RemoveObject(r)
    <3>1. /\ pc[r] = "remove object" /\ pc'[r] = "delete file" /\ file' = file
          /\ attachments' = attachments /\ objects' = objects \ {file[r].name}
      BY Zenon, <2>5 DEF RemoveObject, Goto, RequestTypes
    <3>2. Stored(file[r].name) /\ On(r) = "attachment" /\ Does(r, "remove")
      BY Zenon, <3>1 DEF FileAt
    <3>3. FileAt(r)' /\ FileShapes'
      BY Zenon, <1>3, <2>1, <3>1, <3>2 DEF FileAt, FileShapes, Answered, Does, On
    <3>4. FilesAccountedFor'
      <4>1. Cut(r, file[r].name)'
        BY Zenon, <2>1, <3>1, <3>2 DEF Cut, Removing, Does, On
      <4> QED
        BY Zenon, <1>2, <1>5, <3>1, <4>1, StillAccountedFor
    <3>5. \A s \in Req : pc[s] = "insert file" => s # file[r].name
      BY Zenon, <3>2, FilesAssumption DEF Stored
    <3> QED
      BY Zenon, <1>3, <1>4, <3>1, <3>3, <3>4, <3>5
  <2>6. CASE RemoveFails(r)
    <3>1. /\ pc[r] = "remove object" /\ pc'[r] = "delete file"
          /\ file' = [file EXCEPT ![r].failed = TRUE]
          /\ attachments' = attachments /\ objects' = objects
      BY Zenon, <2>6 DEF RemoveFails, Goto, RequestTypes
    <3>2. Stored(file[r].name) /\ On(r) = "attachment" /\ Does(r, "remove")
      BY Zenon, <3>1 DEF FileAt
    <3>3. /\ FileShapes' /\ \A s \in Req \ {r} : file'[s] = file[s]
          /\ file'[r].name = file[r].name /\ file'[r].failed
      BY Zenon, <3>1 DEF FileShapes
    <3>4. FileAt(r)'
      BY Zenon, <1>3, <2>1, <3>1, <3>2, <3>3 DEF FileAt, Does, On
    <3>5. FilesAccountedFor'
      BY Zenon, <1>2, <1>5, <3>1, <3>3, StillAccountedFor
    <3> QED
      BY Zenon, <1>3, <1>4, <3>1, <3>3, <3>4, <3>5
  <2>7. CASE DeleteFile(r)
    <3>1. /\ pc[r] = "delete file" /\ pc'[r] \in {"ok", "refused"} /\ file' = file
          /\ attachments' = attachments \ {file[r].name} /\ objects' = objects
      BY Zenon, <2>7 DEF DeleteFile, Goto, Answer, RequestTypes
    <3>2. /\ On(r) = "attachment" /\ Does(r, "remove")
          /\ ~file[r].failed => file[r].name \notin objects
      BY Zenon, <3>1 DEF FileAt
    <3>3. FileAt(r)' /\ FileShapes'
      BY Zenon, <3>1 DEF FileAt, FileShapes, Answered
    <3>4. FilesAccountedFor'
      <4>1. /\ \A a : Cut(r, a) => a = file[r].name
            /\ \A a : Failed(r, a) => Failed(r, a)'
            /\ file[r].name \in objects => Failed(r, file[r].name)'
        BY Zenon, <2>1, <3>1, <3>2 DEF Cut, Failed, Removing, Does, On
      <4> QED
        BY Zenon, <1>2, <1>5, <3>1, <4>1, StillAccountedFor
    <3> QED
      BY Zenon, <1>3, <1>4, <3>1, <3>3, <3>4
  <2> QED
    BY <1>8, <2>2, <2>3, <2>4, <2>5, <2>6, <2>7 DEF FilesWork
<1> QED
  BY <1>6, <1>7, <1>8 DEF FilesStep, FilesStart

LEMMA FileInvOthers ==
  ASSUME RequestTypes, FileInv, NEW r \in Req, UNCHANGED fileVars,
         Elsewhere(r, FileLabels, FileOps) \/ Forbid(r) \/ Abort(r)
  PROVE  FileInv'
<1> USE DEF FileInv
<1>1. file' = file /\ attachments' = attachments /\ objects' = objects /\ FileShapes'
  BY DEF fileVars, FileShapes
<1>2. /\ \A s \in Req \ {r} : Spares(s)
      /\ pc[r] \notin Answered
      /\ \/ pc[r] \notin FileLabels /\ pc'[r] \notin FileLabels
         \/ pc'[r] = "aborted" /\ op'[r] = op[r]
  <2>1. CASE Elsewhere(r, FileLabels, FileOps)
    BY <2>1 DEF Elsewhere, RequestTypes, Spares
  <2>2. CASE Forbid(r)
    BY Zenon, <2>2, EndsSpare DEF Forbid, TurnAway, Idle, FileLabels, RequestTypes
  <2>3. CASE Abort(r)
    BY <2>3, EndsSpare DEF Abort, Goto, RequestTypes
  <2> QED
    BY <2>1, <2>2, <2>3
<1>3. \A a : Stored(a) => Stored(a)' /\ a # r
  BY <1>2, FilesAssumption DEF Stored, Spares, Answered
<1>4. ASSUME NEW s \in Req \ {r} PROVE FileAt(s)'
  <2>1. Spares(s) /\ FileAt(s)
    BY <1>2
  <2>2. Stored(file[s].name) => Stored(file[s].name)'
    BY <1>1, <1>3
  <2> QED
    BY Zenon, <1>1, <2>1, <2>2 DEF FileAt, Spares, On, Does
<1>5. file[r].failed => pc[r] \in FileLabels
  BY Zenon, <1>2 DEF FileAt, FileLabels
<1>6. FileAt(r)' /\ FilesAccountedFor'
  <2>1. CASE pc[r] \notin FileLabels /\ pc'[r] \notin FileLabels
    <3>1. ~file[r].failed
      BY <1>5, <2>1
    <3>2. FileAt(r)'
      BY Zenon, <1>1, <2>1, <3>1 DEF FileAt, FileLabels
    <3>3. pc[r] # "insert file" /\ pc[r] \notin {"delete file", "aborted"}
      BY Zenon, <1>2, <2>1 DEF FileLabels, Answered
    <3>4. FilesAccountedFor'
      BY Zenon, <3>1, <3>3, <1>2, <1>1, StillAccountedFor DEF Cut, Failed, Uploading, Answered
    <3> QED
      BY <3>2, <3>4
  <2>2. CASE pc'[r] = "aborted" /\ op'[r] = op[r]
    <3>1. FileAt(r)'
      BY Zenon, <1>1, <2>2 DEF FileAt, Answered
    <3>2. FilesAccountedFor'
      BY Zenon, <1>1, <2>2, <1>2, StillAccountedFor DEF Cut, Removing, Does, On, Failed,
         Uploading
    <3> QED
      BY <3>1, <3>2
  <2> QED
    BY <1>2, <2>1, <2>2
<1> QED
  BY <1>1, <1>3, <1>4, <1>6

-----------------------------------------------------------------------------
(* Tasks.                                                                  *)

LEMMA DoneMeansDated ==
  DoneIsDated <=> \A t \in DOMAIN tasks : tasks[t].status = "DONE" => Dated(t)
BY Zenon DEF DoneIsDated, Dated

LEMMA InitTaskInv == Init => TaskInv
BY DEF Init, RequestsInit, ProjectsInit, NoJob, TaskInv, TaskShapes, Settled, JobAt,
   DoneIsDated

\* A step that leaves the tasks there are dated where they were.
LEMMA OtherJobsStay ==
  ASSUME TaskShapes, NEW s \in Req, JobAt(s), Spares(s), job'[s] = job[s],
         \A t : Settled(t) => Settled(t)',
         \A t \in DOMAIN tasks' :
           Settled(t) => t \in DOMAIN tasks /\ (Dated(t) => Dated(t)')
  PROVE  JobAt(s)'
<1> DEFINE t == job[s].task
<1>1. pc'[s] = pc[s] /\ job'[s] = job[s]
  BY DEF Spares
<1>2. ASSUME pc[s] \in {"find task", "write task", "delete task"} PROVE Settled(t)'
  BY Zenon, <1>2 DEF JobAt
<1>3. ASSUME pc[s] = "write task", job[s].status = "DONE", ~job[s].dates,
             t \in DOMAIN tasks'
      PROVE  Dated(t)'
  BY Zenon, <1>3 DEF JobAt
<1> QED
  BY Zenon, <1>1, <1>2, <1>3 DEF JobAt

LEMMA TaskInvStep ==
  ASSUME RequestTypes, TaskInv, NEW r \in Req, ProjectsStep(r)
  PROVE  TaskInv'
<1> USE DEF TaskInv
<1>1. MovesAmong(r, TaskLabels, TaskOps)
  BY StepMoves
<1>2. /\ pc[r] \notin Answered
      /\ \A s \in Req \ {r} : Spares(s)
  BY Zenon, <1>1 DEF TaskLabels, Answered, MovesAmong, RequestTypes, Spares
<1>3. \A t : Settled(t) => Settled(t)' /\ t # r
  BY <1>2, ProjectsAssumption DEF Settled, Spares, Answered
<1>4. ASSUME tasks' = tasks PROVE \A t \in DOMAIN tasks : Dated(t) = Dated(t)'
  BY <1>4 DEF Dated
<1>5. CASE StartTask(r)
  <2>1. PICK new : /\ DOMAIN new = {"task", "status", "project", "dates"}
                   /\ job' = [job EXCEPT ![r] = new]
    BY Zenon, <1>5 DEF NoJob, StartTask
  <2>2. tasks' = tasks /\ pc'[r] \in {"insert task", "find project"}
    BY Zenon, <1>5 DEF StartTask, Begin, RequestTypes
  <2>3. TaskShapes' /\ \A s \in Req \ {r} : job'[s] = job[s]
    BY Zenon, <2>1, <2>2 DEF TaskShapes
  <2>4. JobAt(r)'
    BY Zenon, <2>2 DEF JobAt
  <2>5. \A s \in Req \ {r} : JobAt(s)'
    BY Zenon, <1>2, <1>3, <1>4, <2>2, <2>3, OtherJobsStay
  <2> QED
    BY Zenon, <1>3, <2>2, <2>3, <2>4, <2>5 DEF DoneIsDated
<1>6. CASE StartChange(r)
  <2>1. PICK t, new :
          /\ t \in DOMAIN tasks /\ new.task = t
          /\ DOMAIN new = {"task", "status", "project", "dates"}
          /\ job' = [job EXCEPT ![r] = new]
    BY Zenon, <1>6 DEF NoJob, StartChange
  <2>2. tasks' = tasks /\ pc'[r] = "find task"
    BY Zenon, <1>6 DEF StartChange, Begin, RequestTypes
  <2>3. /\ TaskShapes' /\ \A s \in Req \ {r} : job'[s] = job[s]
        /\ job'[r].task = t
    BY Zenon, <2>1, <2>2 DEF TaskShapes
  <2>4. JobAt(r)'
    BY Zenon, <1>3, <2>1, <2>2, <2>3 DEF JobAt
  <2>5. \A s \in Req \ {r} : JobAt(s)'
    BY Zenon, <1>2, <1>3, <1>4, <2>2, <2>3, OtherJobsStay
  <2> QED
    BY Zenon, <1>3, <2>2, <2>3, <2>4, <2>5 DEF DoneIsDated
<1>7. CASE FindProject(r)
  BY Zenon, <1>7, <1>2, <1>3, <1>4, OtherJobsStay DEF FindProject, taskVars, Goto, Answer,
     RequestTypes, TaskShapes, JobAt, DoneIsDated
<1>8. CASE InsertTask(r)
  <2>1. job' = job /\ pc'[r] \in {"ok", "refused"}
    BY Zenon, <1>8 DEF InsertTask, Goto, Answer, RequestTypes
  <2>2. CASE tasks' = tasks
    BY Zenon, <2>1, <2>2, <1>2, <1>3, <1>4, OtherJobsStay DEF TaskShapes, JobAt, DoneIsDated
  <2>3. CASE tasks' # tasks
    <3>1. ProjectThere(r) /\ pc'[r] = "ok"
      BY Zenon, <1>8, <2>3 DEF InsertTask, Goto, Answer, RequestTypes
    <3>2. /\ DOMAIN tasks' = DOMAIN tasks \cup {r}
          /\ \A t \in DOMAIN tasks' :
               tasks'[t] = IF t = r THEN [status |-> job[r].status, dated |-> FALSE,
                                          born |-> job[r].status,
                                          project |-> job[r].project]
                                    ELSE tasks[t]
      BY Zenon, <1>8, <3>1 DEF InsertTask
    <3>3. /\ \A t \in DOMAIN tasks : t # r /\ tasks'[t] = tasks[t]
          /\ DOMAIN tasks'[r] = {"status", "dated", "born", "project"}
          /\ tasks'[r].status = tasks'[r].born
      BY <1>3, <3>2
    <3>4. TaskShapes' /\ DoneIsDated'
      BY <2>1, <3>2, <3>3 DEF TaskShapes, DoneIsDated
    <3>5. JobAt(r)' /\ Settled(r)'
      BY Zenon, <2>1, <3>1 DEF JobAt, Settled
    <3>6. \A t \in DOMAIN tasks' : Settled(t) => t \in DOMAIN tasks /\ (Dated(t) => Dated(t)')
      BY <1>3, <3>2, <3>3 DEF Dated
    <3>7. \A s \in Req \ {r} : JobAt(s)'
      BY <1>2, <1>3, <2>1, <3>6, OtherJobsStay
    <3> QED
      BY <1>3, <3>2, <3>4, <3>5, <3>7
  <2> QED
    BY <2>2, <2>3
<1>9. CASE FindTask(r)
  <2>1. tasks' = tasks /\ pc[r] = "find task"
    BY Zenon, <1>9 DEF FindTask
  <2>2. CASE job[r].task \in DOMAIN tasks
    <3>1. /\ job' = [job EXCEPT ![r].dates = Completes(r)]
          /\ pc'[r] \in {"write task", "delete task"}
      BY Zenon, <1>9, <2>2 DEF FindTask, Goto, RequestTypes
    <3>2. /\ TaskShapes' /\ \A s \in Req \ {r} : job'[s] = job[s]
          /\ job'[r].task = job[r].task /\ job'[r].status = job[r].status
          /\ job'[r].dates = Completes(r)
      BY Zenon, <2>1, <3>1 DEF TaskShapes
    <3>3. Settled(job[r].task)
      BY Zenon, <2>1 DEF JobAt
    <3>4. ASSUME job'[r].status = "DONE", ~job'[r].dates PROVE Dated(job[r].task)
      BY <3>2, <3>4, <2>2 DEF Completes, DoneIsDated, Dated
    <3>5. Dated(job[r].task) => Dated(job[r].task)'
      BY Zenon, <2>1, <3>2 DEF Dated
    <3>6. JobAt(r)'
      BY Zenon, <1>3, <2>1, <2>2, <1>4, <3>1, <3>2, <3>3, <3>4 DEF JobAt
    <3>7. \A s \in Req \ {r} : JobAt(s)'
      BY Zenon, <1>2, <1>3, <1>4, <2>1, <3>2, OtherJobsStay
    <3> QED
      BY Zenon, <1>3, <2>1, <3>2, <3>6, <3>7 DEF DoneIsDated
  <2>3. CASE job[r].task \notin DOMAIN tasks
    BY Zenon, <1>9, <2>3, <2>1, <1>2, <1>3, <1>4, OtherJobsStay DEF FindTask, Goto, Answer,
       RequestTypes, TaskShapes, JobAt, DoneIsDated
  <2> QED
    BY <2>2, <2>3
<1>10. CASE WriteTask(r)
  <2> DEFINE t == job[r].task
  <2>1. job' = job /\ pc[r] = "write task" /\ pc'[r] \in {"ok", "refused"}
    BY Zenon, <1>10 DEF WriteTask, Goto, Answer, RequestTypes
  <2>2. JobAt(r)'
    BY Zenon, <2>1 DEF JobAt
  <2>3. CASE tasks' = tasks
    BY Zenon, <2>1, <2>3, <1>2, <1>3, <1>4, OtherJobsStay, <2>2 DEF TaskShapes, DoneIsDated
  <2>4. CASE tasks' # tasks
    <3>1. /\ t \in DOMAIN tasks
          /\ tasks' = [tasks EXCEPT
               ![t].status  = IF job[r].status = Unstated THEN @ ELSE job[r].status,
               ![t].dated   = @ \/ job[r].dates,
               ![t].project = IF job[r].project = NoProject THEN @ ELSE job[r].project]
      BY Zenon, <1>10, <2>4 DEF WriteTask
    <3>2. /\ DOMAIN tasks' = DOMAIN tasks
          /\ \A u \in DOMAIN tasks : u # t => tasks'[u] = tasks[u]
          /\ DOMAIN tasks'[t] = {"status", "dated", "born", "project"}
          /\ tasks'[t].status = IF job[r].status = Unstated THEN tasks[t].status
                                                           ELSE job[r].status
          /\ tasks'[t].dated = (tasks[t].dated \/ job[r].dates)
          /\ tasks'[t].born = tasks[t].born
      BY <3>1 DEF TaskShapes
    <3>3. /\ tasks[t].dated \/ job[r].dates => Dated(t)'
          /\ tasks[t].born = "DONE" => Dated(t)'
      BY Zenon, <2>1, <3>2 DEF Dated
    <3>4. \A u \in DOMAIN tasks : Dated(u) => Dated(u)'
      BY <3>2, <3>3 DEF Dated
    <3>5. tasks'[t].status = "DONE" => Dated(t)'
      <4>1. CASE job[r].status = Unstated
        BY Zenon, <2>1, <3>1, <3>2, <3>4, <4>1, DoneMeansDated
      <4>2. CASE job[r].status # Unstated
        BY Zenon, <2>1, <3>1, <3>4, <3>3, <3>2, <4>2 DEF JobAt
      <4> QED
        BY <4>1, <4>2
    <3>6. DoneIsDated'
      BY Zenon, <2>1, <3>2, <3>5, <3>4, DoneMeansDated DEF DoneIsDated, Dated
    <3>7. TaskShapes'
      BY Zenon, <2>1, <3>2 DEF TaskShapes
    <3>8. \A s \in Req \ {r} : JobAt(s)'
      BY Zenon, <1>2, <1>3, <2>1, <3>2, <3>4, OtherJobsStay
    <3> QED
      BY <1>3, <2>2, <3>2, <3>6, <3>7, <3>8
  <2> QED
    BY <2>3, <2>4
<1>11. CASE DeleteTask(r)
  BY Zenon, <1>11, <1>2, <1>3, OtherJobsStay DEF DeleteTask, Goto, Answer, RequestTypes,
     TaskShapes, JobAt, DoneIsDated, Dated
<1> QED
  BY <1>5, <1>6, <1>7, <1>8, <1>9, <1>10, <1>11 DEF ProjectsStep, ProjectsStart,
     ProjectsWork

LEMMA TaskInvOthers ==
  ASSUME RequestTypes, TaskInv, NEW r \in Req, UNCHANGED taskVars,
         Elsewhere(r, TaskLabels, TaskOps) \/ Forbid(r) \/ Abort(r)
  PROVE  TaskInv'
<1> USE DEF TaskInv
<1>1. tasks' = tasks /\ job' = job /\ TaskShapes' /\ DoneIsDated'
  BY DEF taskVars, TaskShapes, DoneIsDated
<1>2. /\ \A s \in Req \ {r} : Spares(s)
      /\ pc[r] \notin Answered /\ pc'[r] \notin TaskLabels
  <2>1. CASE Elsewhere(r, TaskLabels, TaskOps)
    BY <2>1 DEF Elsewhere, RequestTypes, Spares
  <2>2. CASE Forbid(r) \/ Abort(r)
    BY Zenon, <2>2, EndsSpare DEF TaskLabels
  <2> QED
    BY <2>1, <2>2
<1>3. \A t : Settled(t) => Settled(t)'
  BY <1>2, ProjectsAssumption DEF Settled, Spares, Answered
<1>4. \A t \in DOMAIN tasks : Dated(t) => Dated(t)'
  BY <1>1 DEF Dated
<1>5. \A s \in Req \ {r} : JobAt(s)'
  BY <1>1, <1>2, <1>3, <1>4, OtherJobsStay
<1>6. JobAt(r)'
  BY Zenon, <1>2 DEF JobAt, TaskLabels
<1> QED
  BY <1>1, <1>3, <1>5, <1>6

-----------------------------------------------------------------------------
(* Every step.                                                             *)

LEMMA ElsewhereWithin ==
  ASSUME NEW r \in Req, NEW L, NEW O, Elsewhere(r, L, O),
         NEW labels, NEW ops, labels \subseteq L, ops \subseteq O
  PROVE  Elsewhere(r, labels, ops)
BY DEF Elsewhere

LEMMA PayrollsAway ==
  ASSUME RequestTypes, PayrollInv, NEW r \in Req,
         \/ MasterStep(r) \/ TreasuryStep(r) \/ JournalStep(r) \/ EDocumentsStep(r)
         \/ FilesStep(r) \/ ProjectsStep(r) \/ AccessStep(r) \/ MembersStep(r)
         \/ Forbid(r) \/ Abort(r)
  PROVE  PayrollInv'
<1>1. UNCHANGED personnelVars
  BY DEF MasterStep, TreasuryStep, JournalStep, EDocumentsStep, FilesStep, ProjectsStep,
     AccessStep, MembersStep, Forbid, Abort
<1>2. CASE Forbid(r) \/ Abort(r)
  BY <1>1, <1>2, PayrollInvOthers
<1>3. CASE ~(Forbid(r) \/ Abort(r))
  <2>1. PayLabels \subseteq PersonnelLabels
    BY DEF PayLabels, PersonnelLabels
  <2>2. PayOps \subseteq PersonnelOps
    BY DEF PayOps, PersonnelOps
  <2>3. Elsewhere(r, PersonnelLabels, PersonnelOps)
    BY <1>3, AwayFromPersonnel
  <2>4. Elsewhere(r, PayLabels, PayOps)
    BY <2>1, <2>2, <2>3, ElsewhereWithin
  <2> QED
    BY <1>1, <2>4, PayrollInvOthers
<1> QED
  BY <1>2, <1>3

LEMMA EDocumentsAway ==
  ASSUME RequestTypes, EDocumentInv, NEW r \in Req,
         \/ MasterStep(r) \/ TreasuryStep(r) \/ JournalStep(r) \/ PersonnelStep(r)
         \/ FilesStep(r) \/ ProjectsStep(r) \/ AccessStep(r) \/ MembersStep(r)
         \/ Forbid(r) \/ Abort(r)
  PROVE  EDocumentInv'
<1>1. UNCHANGED edocVars
  BY DEF MasterStep, TreasuryStep, JournalStep, PersonnelStep, FilesStep, ProjectsStep,
     AccessStep, MembersStep, Forbid, Abort
<1>2. CASE Forbid(r) \/ Abort(r)
  BY <1>1, <1>2, EDocumentInvOthers
<1>3. CASE ~(Forbid(r) \/ Abort(r))
  <2>1. InvoiceLabels \subseteq EDocumentLabels /\ WaybillLabels \subseteq EDocumentLabels
    BY DEF InvoiceLabels, WaybillLabels, EDocumentLabels
  <2>2. /\ {<<"issue", "e_invoice">>} \subseteq EDocumentOps
        /\ {<<"issue", "e_waybill">>} \subseteq EDocumentOps
    BY DEF EDocumentOps
  <2>3. Elsewhere(r, EDocumentLabels, EDocumentOps)
    BY <1>3, AwayFromEDocuments
  <2>4. /\ Elsewhere(r, InvoiceLabels, {<<"issue", "e_invoice">>})
        /\ Elsewhere(r, WaybillLabels, {<<"issue", "e_waybill">>})
    BY <2>1, <2>2, <2>3, ElsewhereWithin
  <2> QED
    BY <1>1, <2>4, EDocumentInvOthers
<1> QED
  BY <1>2, <1>3

LEMMA MembersAway ==
  ASSUME RequestTypes, MemberInv, NEW r \in Req,
         \/ MasterStep(r) \/ TreasuryStep(r) \/ JournalStep(r) \/ PersonnelStep(r)
         \/ EDocumentsStep(r) \/ FilesStep(r) \/ ProjectsStep(r) \/ AccessStep(r)
         \/ Forbid(r) \/ Abort(r)
  PROVE  MemberInv'
<1>1. UNCHANGED memberVars
  BY DEF MasterStep, TreasuryStep, JournalStep, PersonnelStep, EDocumentsStep, FilesStep,
     ProjectsStep, AccessStep, Forbid, Abort
<1>2. CASE Forbid(r) \/ Abort(r)
  BY <1>1, <1>2, MemberInvOthers
<1>3. CASE ~(Forbid(r) \/ Abort(r))
  <2>1. RegisterLabels \subseteq MemberLabels /\ InviteLabels \subseteq MemberLabels
    BY DEF RegisterLabels, InviteLabels, MemberLabels
  <2>2. RegisterOps \subseteq MemberOps /\ InviteOps \subseteq MemberOps
    BY DEF RegisterOps, InviteOps, MemberOps
  <2>3. Elsewhere(r, MemberLabels, MemberOps)
    BY <1>3, AwayFromMembers
  <2>4. Elsewhere(r, RegisterLabels, RegisterOps) /\ Elsewhere(r, InviteLabels, InviteOps)
    BY <2>1, <2>2, <2>3, ElsewhereWithin
  <2> QED
    BY <1>1, <2>4, MemberInvOthers
<1> QED
  BY <1>2, <1>3

LEMMA FilesAway ==
  ASSUME RequestTypes, FileInv, NEW r \in Req,
         \/ MasterStep(r) \/ TreasuryStep(r) \/ JournalStep(r) \/ PersonnelStep(r)
         \/ EDocumentsStep(r) \/ ProjectsStep(r) \/ AccessStep(r) \/ MembersStep(r)
         \/ Forbid(r) \/ Abort(r)
  PROVE  FileInv'
BY AwayFromFiles, FileInvOthers DEF MasterStep, TreasuryStep, JournalStep,
   PersonnelStep, EDocumentsStep, ProjectsStep, AccessStep, MembersStep, Forbid, Abort

LEMMA TasksAway ==
  ASSUME RequestTypes, TaskInv, NEW r \in Req,
         \/ MasterStep(r) \/ TreasuryStep(r) \/ JournalStep(r) \/ PersonnelStep(r)
         \/ EDocumentsStep(r) \/ FilesStep(r) \/ AccessStep(r) \/ MembersStep(r)
         \/ Forbid(r) \/ Abort(r)
  PROVE  TaskInv'
BY AwayFromProjects, TaskInvOthers DEF MasterStep, TreasuryStep, JournalStep,
   PersonnelStep, EDocumentsStep, FilesStep, AccessStep, MembersStep, Forbid, Abort

\* A step that leaves the payrolls and what they are computed from.
LEMMA AddsInvKept ==
  ASSUME AddsInv, WholeForms', WholeRows', payrolls' = payrolls, sheet' = sheet
  PROVE  AddsInv'
BY DEF AddsInv, PayrollAddsUp

LEMMA AddsInvStep ==
  ASSUME Shapes, PayrollInv, AddsInv, NEW r \in Req,
         \/ MasterStep(r) \/ TreasuryStep(r) \/ JournalStep(r) \/ PersonnelStep(r)
         \/ EDocumentsStep(r) \/ FilesStep(r) \/ ProjectsStep(r) \/ AccessStep(r)
         \/ MembersStep(r) \/ Forbid(r) \/ Abort(r)
  PROVE  AddsInv'
<1>1. WholeForms /\ WholeRows /\ SheetShapes /\ \A p \in DOMAIN payrolls : AsAsked(p)
  BY DEF AddsInv, PayrollInv
<1>2. WholeForms'
  BY <1>1, StepsFormStep, FormStepWhole
<1>3. WholeRows'
  <2>1. CASE MasterStep(r)
    BY <1>1, <2>1, MasterKeepsWhole
  <2>2. CASE ~MasterStep(r)
    <3>1. rows' = rows
      BY <2>2, RowsAreMasters
    <3> QED
      BY <1>1, <3>1 DEF WholeRows
  <2> QED
    BY <2>1, <2>2
<1>4. CASE PersonnelStep(r)
  BY <1>1, <1>4, PersonnelKeepsAdding, <1>2, <1>3 DEF AddsInv, WholeSheet
<1>5. CASE ~PersonnelStep(r)
  BY <1>5, <1>2, <1>3, AddsInvKept DEF MasterStep, TreasuryStep, JournalStep,
     EDocumentsStep, FilesStep, ProjectsStep, AccessStep, MembersStep, Forbid, Abort,
     personnelVars
<1> QED
  BY <1>4, <1>5

\* A step that moves no request.
LEMMA NobodyMoves ==
  ASSUME UNCHANGED <<requestVars, personnelVars, memberVars, fileVars, taskVars, rows, form>>,
         PayrollInv, AddsInv, MemberInv, FileInv, TaskInv
  PROVE  PayrollInv' /\ AddsInv' /\ MemberInv' /\ FileInv' /\ TaskInv'
<1>1. UNCHANGED <<pc, op, payrolls, sheet, rows, form>>
  BY DEF requestVars, personnelVars
<1>2. PayrollInv'
  BY <1>1 DEF PayrollInv, SheetShapes, Inside, AsAsked, At
<1>3. AddsInv'
  BY <1>1, AddsInvKept DEF AddsInv, WholeForms, WholeRows
<1>4. MemberInv'
  BY Zenon, <1>1 DEF memberVars, MemberInv, PersonShapes, Inside, Owns, Registered, Invited,
     Email, TaxNumber
<1>5. FileInv'
  <2>1. UNCHANGED <<pc, op, file, attachments, objects>>
    BY <1>1 DEF fileVars
  <2>2. FileShapes' /\ \A a \in attachments : Stored(a)'
    BY <2>1 DEF FileInv, FileShapes, Stored
  <2>3. ASSUME NEW s \in Req PROVE FileAt(s)'
    <3>1. FileAt(s)
      BY DEF FileInv
    <3> QED
      BY Zenon, <2>1, <3>1 DEF FileAt, Stored, Does, On
  <2>4. FilesAccountedFor'
    <3>1. ASSUME NEW s, NEW a PROVE Removing(s, a)' = Removing(s, a)
      BY <2>1 DEF Removing, Does, On
    <3> QED
      BY Zenon, <2>1, <3>1 DEF FileInv, FilesAccountedFor
  <2> QED
    BY <2>1, <2>2, <2>3, <2>4 DEF FileInv
<1>6. TaskInv'
  BY Zenon, <1>1 DEF taskVars, TaskInv, TaskShapes, JobAt, Settled, Dated, DoneIsDated
<1> QED
  BY <1>2, <1>3, <1>4, <1>5, <1>6

LEMMA RecordsInvStep ==
  ASSUME RequestTypes, RefInv, RecordsInv, [Next]_vars PROVE RecordsInv'
<1> USE DEF RecordsInv
<1>1. Shapes
  BY DEF RefInv
<1>2. ASSUME NEW r \in Req, \/ MasterStep(r) \/ TreasuryStep(r) \/ JournalStep(r)
                            \/ AccessStep(r) \/ Forbid(r) \/ Abort(r)
      PROVE  RecordsInv'
  BY <1>1, <1>2, PayrollsAway, EDocumentsAway, MembersAway, FilesAway, TasksAway, AddsInvStep
<1>3. ASSUME NEW r \in Req, PersonnelStep(r) PROVE RecordsInv'
  BY <1>1, <1>3, PayrollInvPersonnel, EDocumentsAway, MembersAway, FilesAway, TasksAway,
     AddsInvStep
<1>4. ASSUME NEW r \in Req, EDocumentsStep(r) PROVE RecordsInv'
  <2>1. EDocumentInv'
    BY <1>4, EDocumentInvStart, EDocumentInvWork DEF EDocumentsStep
  <2> QED
    BY <1>1, <1>4, <2>1, PayrollsAway, MembersAway, FilesAway, TasksAway, AddsInvStep
<1>5. ASSUME NEW r \in Req, MembersStep(r) PROVE RecordsInv'
  <2>1. MemberInv'
    BY <1>5, MemberInvStep DEF MembersStep
  <2> QED
    BY <1>1, <1>5, <2>1, PayrollsAway, EDocumentsAway, FilesAway, TasksAway, AddsInvStep
<1>6. ASSUME NEW r \in Req, FilesStep(r) PROVE RecordsInv'
  BY <1>1, <1>6, PayrollsAway, EDocumentsAway, MembersAway, FileInvStep, TasksAway,
     AddsInvStep
<1>7. ASSUME NEW r \in Req, ProjectsStep(r) PROVE RecordsInv'
  BY <1>1, <1>7, PayrollsAway, EDocumentsAway, MembersAway, FilesAway, TaskInvStep,
     AddsInvStep
<1>8. CASE Worker
  BY <1>8, EDocumentInvTransmit, NobodyMoves DEF Worker, Transmit, masterVars
<1>9. CASE UNCHANGED vars
  BY <1>9, NobodyMoves DEF vars, masterVars, requestVars, edocVars, EDocumentInv,
     PaperShapes, Inside, IssuedInvoice, IssuedWaybill, At
<1> QED
  BY <1>2, <1>3, <1>4, <1>5, <1>6, <1>7, <1>8, <1>9 DEF Next

LEMMA RecordsInvAlways == Spec => []RecordsInv
<1>1. Init => RecordsInv
  BY InitPayrollInv, InitAddsInv, InitEDocumentInv, InitMemberInv, InitFileInv, InitTaskInv
     DEF RecordsInv
<1>2. RequestTypes /\ RefInv /\ RecordsInv /\ [Next]_vars => RecordsInv'
  BY RecordsInvStep
<1> QED
  BY <1>1, <1>2, RequestsTyped, RefInvAlways, PTL DEF Spec

\* A payroll, an e-document, an account and a membership that a request was told it had
\* created is in the table and the only one of its kind, for any number of requests and
\* although the handlers look for a rival a statement before they insert.
THEOREM CreatedAlwaysKept == Spec => []CreatedIsKept
<1>1. RecordsInv => CreatedIsKept
  BY PayrollInvKeeps, EDocumentInvKeeps, MemberInvKeeps DEF RecordsInv, CreatedIsKept
<1> QED
  BY <1>1, RecordsInvAlways, PTL

\* Whatever the salary, bonuses and deductions, and whatever an employee's row says when
\* it is read, the net salary of a payroll is off by its own two roundings at most.
THEOREM PayrollsAlwaysAddUp == Spec => []PayrollAddsUp
<1>1. RecordsInv => PayrollAddsUp
  BY DEF RecordsInv, AddsInv
<1> QED
  BY <1>1, RecordsInvAlways, PTL

\* A row without its object has a removal that stopped between the two, and an object
\* without its row an upload that did, or a removal the store failed.
THEOREM FilesAlwaysAccountedFor == Spec => []FilesAccountedFor
<1>1. RecordsInv => FilesAccountedFor
  BY DEF RecordsInv, FileInv
<1> QED
  BY <1>1, RecordsInvAlways, PTL

\* A task that is done is dated, though an update decides by a status it read earlier.
THEOREM DoneAlwaysDated == Spec => []DoneIsDated
<1>1. RecordsInv => DoneIsDated
  BY DEF RecordsInv, TaskInv
<1> QED
  BY <1>1, RecordsInvAlways, PTL

-----------------------------------------------------------------------------
(***************************************************************************)
(* The theorem that what changes a table of the back office passed a guard *)
(* that asks for more than to read, and is audited: over the whole table   *)
(* of routes, and for every step of every handler.                         *)
(*                                                                         *)
(* The handlers that only read are told by their name; they keep to        *)
(* statements (Reading) that leave the tables alone.  Every other handler  *)
(* has a route that is guarded, and its request held the permission.       *)
(***************************************************************************)

-----------------------------------------------------------------------------
(* The routes.                                                             *)

LEMMA WriteGuarded ==
  ASSUME NEW act, NEW on, NEW resource, NEW action, action # "read"
  PROVE  Guarded(Write(act, on, resource, action))
BY DEF Guarded, Write, Route

LEMMA ReadGuarded ==
  ASSUME NEW act \in ReadActs, NEW on, NEW resource
  PROVE  Guarded(Read(act, on, resource))
BY DEF Guarded, Read, Route

LEMMA CrudGuarded ==
  ASSUME NEW on, NEW resource
  PROVE  \A x \in CrudRoutes(on, resource) : Guarded(x)
BY WriteGuarded, ReadGuarded DEF ReadActs, CrudRoutes

LEMMA RoutesGuarded == \A x \in Routes : Guarded(x)
<1>1. /\ "list" \in ReadActs /\ "get" \in ReadActs /\ "report" \in ReadActs
      /\ "trial" \in ReadActs /\ "url" \in ReadActs
  BY DEF ReadActs
<1>2. \A x \in BranchRoutes \cup WarehouseRoutes \cup CategoryRoutes \cup BrandRoutes
            \cup UnitRoutes \cup TaxRateRoutes \cup ProductRoutes \cup CostCenterRoutes :
        Guarded(x)
  BY CrudGuarded DEF BranchRoutes, WarehouseRoutes, CategoryRoutes, BrandRoutes, UnitRoutes,
     TaxRateRoutes, ProductRoutes, CostCenterRoutes
<1>3. \A x \in ExpenseCategoryRoutes \cup IncomeCategoryRoutes \cup DepartmentRoutes
            \cup JobPositionRoutes \cup PaymentMethodRoutes \cup BankRoutes :
        Guarded(x)
  BY CrudGuarded DEF ExpenseCategoryRoutes, IncomeCategoryRoutes, DepartmentRoutes,
     JobPositionRoutes, PaymentMethodRoutes, BankRoutes
<1>4. \A x \in CustomerRoutes \cup SupplierRoutes : Guarded(x)
  BY <1>1, CrudGuarded, ReadGuarded DEF CustomerRoutes, SupplierRoutes
<1>5. \A x \in AccountingRoutes : Guarded(x)
  BY <1>1, CrudGuarded, ReadGuarded, WriteGuarded DEF AccountingRoutes
<1>6. \A x \in CashAndBankRoutes : Guarded(x)
  BY <1>1, ReadGuarded, WriteGuarded DEF CashAndBankRoutes
<1>7. \A x \in ExpenseIncomeRoutes \cup CollectionRoutes \cup PaymentRoutes : Guarded(x)
  BY <1>1, ReadGuarded, WriteGuarded DEF ExpenseIncomeRoutes, CollectionRoutes, PaymentRoutes
<1>8. \A x \in SalesInvoiceRoutes \cup PurchaseInvoiceRoutes : Guarded(x)
  BY <1>1, ReadGuarded, WriteGuarded DEF SalesInvoiceRoutes, PurchaseInvoiceRoutes
<1>9. \A x \in HrRoutes \cup EDocumentRoutes : Guarded(x)
  BY <1>1, ReadGuarded, WriteGuarded DEF HrRoutes, EDocumentRoutes
<1>10. \A x \in FileRoutes : Guarded(x)
  BY <1>1, ReadGuarded, WriteGuarded DEF FileRoutes
<1>11. \A x \in ProjectRoutes : Guarded(x)
  BY CrudGuarded DEF ProjectRoutes
<1>12. \A x \in RoleRoutes : Guarded(x)
  BY <1>1, CrudGuarded, ReadGuarded, WriteGuarded DEF RoleRoutes
<1>13. \A x \in InventoryRoutes : Guarded(x)
  BY <1>1, ReadGuarded, WriteGuarded DEF InventoryRoutes
<1> QED
  BY <1>2, <1>3, <1>4, <1>5, <1>6, <1>7, <1>8, <1>9, <1>10, <1>11, <1>12, <1>13 DEF Routes

\* A handler that does not read is closed to a token that only reads, and audited.
LEMMA WritersAreGuarded ==
  ASSUME NEW o \in Ops, o[1] \notin ReadActs
  PROVE  ~Allows("reader", o) /\ Audited(o)
<1>1. o \in DOMAIN RoutesOf
  BY DEF Ops, ReadActs
<1>2. RoutesOf[o] = {x \in Routes : x.op = o}
  BY <1>1 DEF RoutesOf
<1>3. \A x \in RoutesOf[o] : x.needs[2] # "read" /\ x.audited
  BY <1>2, RoutesGuarded DEF Guarded
<1>4. PICK x \in Routes : x.op = o
  BY <1>1 DEF RoutesOf
<1>5. x \in RoutesOf[o] /\ x.needs \in Needs(o)
  BY <1>1, <1>2, <1>4 DEF Needs
<1>6. ~Allows("reader", o)
  BY <1>3, <1>5 DEF Allows
<1> QED
  BY <1>1, <1>3, <1>6 DEF Audited

-----------------------------------------------------------------------------
(* The steps of the handlers that read, and of those that begin.           *)

LEMMA AnswerReads ==
  ASSUME RequestTypes, NEW r \in Req, NEW fine, Answer(r, fine)
  PROVE  ReadsOnly(r)'
BY DEF RequestTypes, Answer, Goto, Answered, ReadsOnly

LEMMA BeginReads ==
  ASSUME RequestTypes, NEW r \in Req, NEW o, NEW at, Begin(r, o, at),
         o[1] \in ReadActs => <<o[1], at>> \in Reading
  PROVE  ReadsOnly(r)'
BY DEF RequestTypes, Begin, ReadsOnly

LEMMA GotoReads ==
  ASSUME RequestTypes, NEW r \in Req, NEW at, Goto(r, at),
         op[r][1] \in ReadActs => <<op[r][1], at>> \in Reading
  PROVE  ReadsOnly(r)'
BY DEF RequestTypes, Goto, ReadsOnly

\* Looking a row up, and listing, change no table.
LEMMA MasterReads ==
  ASSUME RequestTypes, NEW r \in Req, MasterStart(r) \/ MasterWork(r)
  PROVE  Writing(r) \/ (UNCHANGED <<rows, mains>> /\ (ReadsOnly(r) => ReadsOnly(r)'))
<1>1. CASE StartCreate(r)
  <2>1. PICK on \in Resources \cap About, act \in {"create", "adjust"} :
          Creation(r, on, act)
    BY <1>1, CreateStarts
  <2>2. (\E at : Begin(r, <<act, on>>, at)) /\ UNCHANGED <<rows, mains>>
    BY Zenon, <2>1 DEF Creation, Asks
  <2> QED
    BY <2>2, BeginReads DEF ReadActs
<1>2. CASE StartUpdate(r)
  <2>1. PICK on : Begin(r, <<"update", on>>, "find") /\ UNCHANGED <<rows, mains>>
    BY <1>2 DEF StartUpdate, Asks
  <2> QED
    BY <2>1, BeginReads DEF ReadActs
<1>3. CASE StartOne(r)
  <2>1. PICK on \in Resources, act \in {"get", "remove"} :
          Begin(r, <<act, on>>, "find") /\ UNCHANGED <<rows, mains>>
    BY <1>3 DEF StartOne, Asks
  <2> QED
    BY Zenon, <2>1, BeginReads DEF ReadActs, Reading
<1>4. CASE StartList(r)
  BY Zenon, <1>4, BeginReads DEF StartList, masterVars, ReadActs, Reading
<1>5. CASE FindRow(r) \/ ReadPage(r) \/ CountPage(r)
  BY Zenon, <1>5, AnswerReads, GotoReads
     DEF FindRow, ReadPage, CountPage, masterVars, Does, ReadsOnly, ReadActs, Reading,
         Answered
<1>6. CASE \/ FindKept(r) \/ CountRows(r) \/ InsertRow(r) \/ UpdateRow(r)
           \/ CountMovements(r) \/ DeleteRow(r) \/ FindMains(r) \/ ClearMain(r)
           \/ MainsCleared(r)
  BY Zenon, <1>6
     DEF FindKept, CountRows, InsertRow, UpdateRow, CountMovements, DeleteRow, Delete,
         FindMains, ClearMain, MainsCleared, Writing, ReadLabels
<1> QED
  BY <1>1, <1>2, <1>3, <1>4, <1>5, <1>6 DEF MasterStart, MasterWork

\* Nor does a report.
LEMMA TreasuryReads ==
  ASSUME RequestTypes, NEW r \in Req, TreasuryStart(r) \/ TreasuryWork(r)
  PROVE  Writing(r) \/ (UNCHANGED <<rows, mains, voided>>
                           /\ (ReadsOnly(r) => ReadsOnly(r)'))
<1>1. CASE StartReport(r)
  <2>1. PICK id :
          Begin(r, <<"report", id[1]>>, "find account") /\ UNCHANGED <<rows, mains, voided>>
    BY Zenon, <1>1 DEF StartReport, Asks, treasuryVars
  <2> QED
    BY Zenon, <2>1, BeginReads DEF ReadActs, Reading
<1>2. CASE StartCancel(r)
  BY Zenon, <1>2, BeginReads DEF StartCancel, Asks, treasuryVars, ReadActs
<1>3. CASE FindAccount(r)
  BY Zenon, <1>3, AnswerReads, GotoReads
     DEF FindAccount, masterVars, ReadsOnly, ReadActs, Reading, Answered
<1>4. CASE SumNext(r)
  <2>1. PICK at \in {"sum", "ok"} : Goto(r, at) /\ UNCHANGED <<rows, mains, voided>>
    BY <1>4 DEF SumNext, masterVars
  <2>2. pc[r] = "sum"
    BY <1>4 DEF SumNext
  <2> QED
    BY <2>1, <2>2, AnswerReads, GotoReads DEF Answer, ReadsOnly, Answered
<1>5. CASE FindInvoice(r) \/ CancelInvoice(r)
  BY Zenon, <1>5 DEF FindInvoice, CancelInvoice, Writing, ReadLabels
<1> QED
  BY <1>1, <1>2, <1>3, <1>4, <1>5 DEF TreasuryStart, TreasuryWork

\* Nor does the trial balance.
LEMMA JournalReads ==
  ASSUME RequestTypes, NEW r \in Req, JournalStart(r) \/ JournalWork(r)
  PROVE  Writing(r) \/ (UNCHANGED <<rows, mains, entries>>
                           /\ (ReadsOnly(r) => ReadsOnly(r)'))
<1>1. CASE JournalStart(r)
  BY Zenon, <1>1, BeginReads
     DEF JournalStart, StartEntry, StartPost, StartTrial, masterVars, journalVars, ReadActs,
         Reading
<1>2. CASE GroupLines(r) \/ NameAccounts(r)
  BY Zenon, <1>2, AnswerReads, GotoReads
     DEF GroupLines, NameAccounts, masterVars, ReadsOnly, ReadActs, Reading, Answered
<1>3. CASE \/ FindAccounts(r) \/ CountEntries(r) \/ InsertEntry(r) \/ FindEntry(r)
           \/ PostEntry(r) \/ RereadEntry(r)
  BY Zenon, <1>3
     DEF FindAccounts, CountEntries, InsertEntry, FindEntry, PostEntry, RereadEntry,
         Writing, ReadLabels
<1> QED
  BY <1>1, <1>2, <1>3 DEF JournalWork

\* A request that begins changes none.
LEMMA PersonnelReads ==
  ASSUME RequestTypes, NEW r \in Req, PersonnelStart(r) \/ PersonnelWork(r)
  PROVE  Writing(r) \/ (UNCHANGED <<rows, mains, payrolls, attendances>>
                           /\ (ReadsOnly(r) => ReadsOnly(r)'))
<1>1. CASE PersonnelStart(r)
  <2>1. PICK o \in PersonnelOps : /\ \E at : Begin(r, o, at)
                                  /\ UNCHANGED <<rows, mains, payrolls, attendances>>
    BY Zenon, <1>1
       DEF PersonnelStart, StartPayroll, StartApprove, StartAttendance, masterVars,
           PersonnelOps
  <2> QED
    BY <2>1, BeginReads DEF PersonnelOps, ReadActs
<1>2. CASE PersonnelWork(r)
  BY Zenon, <1>2
     DEF PersonnelWork, FindPayee, FindPeriod, InsertPayroll, FindPayroll, ApprovePayroll,
         FindAttendee, RecordAttendance, Writing, ReadLabels
<1> QED
  BY <1>1, <1>2

\* The same of e-documents.
LEMMA EDocumentReads ==
  ASSUME RequestTypes, NEW r \in Req, EDocumentsStart(r) \/ EDocumentsWork(r)
  PROVE  Writing(r) \/ (UNCHANGED <<rows, mains, einvoices, ewaybills>>
                           /\ (ReadsOnly(r) => ReadsOnly(r)'))
<1>1. CASE EDocumentsStart(r)
  <2>1. PICK o \in EDocumentOps : /\ \E at : Begin(r, o, at)
                                  /\ UNCHANGED <<rows, mains, einvoices, ewaybills>>
    BY Zenon, <1>1
       DEF EDocumentsStart, StartIssueInvoice, StartIssueWaybill, StartCancelEInvoice,
           masterVars, EDocumentOps
  <2> QED
    BY <2>1, BeginReads DEF EDocumentOps, ReadActs
<1>2. CASE EDocumentsWork(r)
  BY Zenon, <1>2
     DEF EDocumentsWork, FindSalesInvoice, FindIssued, InsertEInvoice, FindWaybill,
         FindIssuedWaybill, InsertEWaybill, FindEInvoice, CancelEInvoice, RereadEInvoice,
         Writing, ReadLabels
<1> QED
  BY <1>1, <1>2

\* Nor does finding a file, or signing its URL.
LEMMA FileReads ==
  ASSUME RequestTypes, NEW r \in Req, FilesStart(r) \/ FilesWork(r)
  PROVE  Writing(r) \/ (UNCHANGED <<attachments, objects>>
                           /\ (ReadsOnly(r) => ReadsOnly(r)'))
<1>1. CASE FilesStart(r)
  BY Zenon, <1>1, BeginReads DEF FilesStart, StartUpload, StartFile, ReadActs, Reading
<1>2. CASE FindFile(r) \/ Presign(r)
  BY Zenon, <1>2, AnswerReads, GotoReads
     DEF FindFile, Presign, fileVars, Does, ReadsOnly, ReadActs, Reading, Answered
<1>3. CASE \/ PutObject(r) \/ PutFails(r) \/ InsertFile(r) \/ RemoveObject(r)
           \/ RemoveFails(r) \/ DeleteFile(r)
  BY Zenon, <1>3
     DEF PutObject, PutFails, InsertFile, RemoveObject, RemoveFails, DeleteFile, Writing,
         ReadLabels
<1> QED
  BY <1>1, <1>2, <1>3 DEF FilesWork

\* The same of tasks.
LEMMA TaskReads ==
  ASSUME RequestTypes, NEW r \in Req, ProjectsStart(r) \/ ProjectsWork(r)
  PROVE  Writing(r) \/ (UNCHANGED <<rows, mains, tasks>>
                           /\ (ReadsOnly(r) => ReadsOnly(r)'))
<1>1. CASE ProjectsStart(r)
  <2>1. PICK o \in TaskOps : (\E at : Begin(r, o, at)) /\ UNCHANGED <<rows, mains, tasks>>
    BY Zenon, <1>1 DEF ProjectsStart, StartTask, StartChange, masterVars, TaskOps
  <2> QED
    BY <2>1, BeginReads DEF TaskOps, ReadActs
<1>2. CASE ProjectsWork(r)
  BY Zenon, <1>2
     DEF ProjectsWork, FindProject, InsertTask, FindTask, WriteTask, DeleteTask, Writing,
         ReadLabels
<1> QED
  BY <1>1, <1>2

\* Nor does signing in.
LEMMA AccessReads ==
  ASSUME RequestTypes, NEW r \in Req, AccessStart(r) \/ AccessWork(r)
  PROVE  Writing(r) \/ (UNCHANGED <<roles, pairs, active>>
                           /\ (ReadsOnly(r) => ReadsOnly(r)'))
<1>1. CASE StartCreateRole(r) \/ StartUpdateRole(r) \/ StartRemoveRole(r) \/ StartAssign(r)
  BY Zenon, <1>1, BeginReads
     DEF StartCreateRole, StartUpdateRole, StartRemoveRole, StartAssign, Asking,
         accessTables, ReadActs
<1>2. CASE StartSetStatus(r) \/ StartSignIn(r)
  BY Zenon, <1>2, BeginReads DEF StartSetStatus, StartSignIn, accessVars, ReadActs, Reading
<1>3. CASE FindMember(r) \/ ReadRoles(r) \/ ReadPermissions(r)
  BY Zenon, <1>3, AnswerReads, GotoReads
     DEF FindMember, ReadRoles, ReadPermissions, accessVars, accessTables, ReadsOnly,
         ReadActs, Reading, Answered
<1>4. CASE \/ InsertRole(r) \/ FindRole(r) \/ CheckRoles(r) \/ FindPairs(r)
           \/ DeletePair(r) \/ PairsDeleted(r) \/ InsertPairs(r) \/ CommitPairs(r)
           \/ DeleteRole(r) \/ SetStatus(r)
  BY Zenon, <1>4
     DEF InsertRole, FindRole, CheckRoles, FindPairs, DeletePair, PairsDeleted,
         InsertPairs, CommitPairs, DeleteRole, SetStatus, Writing, ReadLabels
<1> QED
  BY <1>1, <1>2, <1>3, <1>4 DEF AccessStart, AccessWork

\* A registration makes a company of its own, and no member of this one.
LEMMA MemberReads ==
  ASSUME RequestTypes, NEW r \in Req, MembersStart(r) \/ MembersWork(r)
  PROVE  Writing(r) \/ (UNCHANGED <<joined>> /\ (ReadsOnly(r) => ReadsOnly(r)'))
<1>1. CASE MembersStart(r)
  BY Zenon, <1>1, BeginReads DEF MembersStart, StartRegister, StartInvite, ReadActs, Reading
<1>2. CASE FindUser(r) \/ FindCompany(r) \/ Register(r)
  BY Zenon, <1>2, AnswerReads, GotoReads
     DEF FindUser, FindCompany, Register, memberVars, ReadsOnly, ReadActs, Reading, Answered
<1>3. CASE FindInvited(r) \/ FindMembership(r) \/ Join(r) \/ SendMail(r)
  BY Zenon, <1>3 DEF FindInvited, FindMembership, Join, SendMail, Writing, ReadLabels
<1> QED
  BY <1>1, <1>2, <1>3 DEF MembersWork

-----------------------------------------------------------------------------
(* Every step.                                                             *)

LEMMA StepReads ==
  ASSUME RequestTypes, NEW r \in Req, ComponentStep(r)
  PROVE  Harmless(r)
<1> USE DEF Harmless, Tables, masterVars, treasuryVars, journalVars, personnelVars, edocVars,
            fileVars, taskVars, accessVars, memberVars
<1>1. CASE MasterStep(r)
  BY <1>1, MasterReads DEF MasterStep
<1>2. CASE TreasuryStep(r)
  BY <1>2, TreasuryReads DEF TreasuryStep
<1>3. CASE JournalStep(r)
  BY <1>3, JournalReads DEF JournalStep
<1>4. CASE PersonnelStep(r)
  BY <1>4, PersonnelReads DEF PersonnelStep
<1>5. CASE EDocumentsStep(r)
  BY <1>5, EDocumentReads DEF EDocumentsStep
<1>6. CASE FilesStep(r)
  BY <1>6, FileReads DEF FilesStep
<1>7. CASE ProjectsStep(r)
  BY <1>7, TaskReads DEF ProjectsStep
<1>8. CASE AccessStep(r)
  BY <1>8, AccessReads DEF AccessStep
<1>9. CASE MembersStep(r)
  BY <1>9, MemberReads DEF MembersStep
<1> QED
  BY <1>1, <1>2, <1>3, <1>4, <1>5, <1>6, <1>7, <1>8, <1>9 DEF ComponentStep

LEMMA ComponentMoves ==
  ASSUME RequestTypes, NEW r \in Req, ComponentStep(r)
  PROVE  MovesAmong(r, AllLabels, Ops)
<1>1. /\ MasterLabels \subseteq AllLabels /\ TreasuryLabels \subseteq AllLabels
      /\ JournalLabels \subseteq AllLabels /\ PersonnelLabels \subseteq AllLabels
      /\ EDocumentLabels \subseteq AllLabels /\ FileLabels \subseteq AllLabels
      /\ TaskLabels \subseteq AllLabels /\ AccessLabels \subseteq AllLabels
      /\ MemberLabels \subseteq AllLabels
  BY DEF AllLabels, Labels, Answered, MasterLabels, TreasuryLabels, JournalLabels,
     PersonnelLabels, EDocumentLabels, FileLabels, TaskLabels, AccessLabels, MemberLabels
<1>2. \A L, O : MovesAmong(r, L, O) /\ L \subseteq AllLabels => MovesAmong(r, AllLabels, Ops)
  BY DEF MovesAmong
<1> QED
  BY <1>1, <1>2, StepMoves DEF ComponentStep

\* A request that was stopped, or turned away, is answered.
LEMMA AnsweredGuards ==
  ASSUME NEW r \in Req, pc'[r] \in Answered
  PROVE  ReadsOnly(r)' /\ Passed(r)'
BY DEF ReadsOnly, Passed, InFlight

LEMMA OthersKeep ==
  ASSUME NEW s \in Req, ReadsOnly(s), Passed(s),
         pc'[s] = pc[s], op'[s] = op[s], may'[s] = may[s]
  PROVE  ReadsOnly(s)' /\ Passed(s)'
BY DEF ReadsOnly, Passed, InFlight

LEMMA MovePasses ==
  ASSUME GuardInv, NEW r \in Req, MovesAmong(r, AllLabels, Ops)
  PROVE  Passed(r)'
BY DEF GuardInv, Passed, InFlight, AllLabels, RequestTypes, MovesAmong

\* A statement no reader comes to is left by a handler that is no reader's.
LEMMA WritingIsNoReader ==
  ASSUME NEW r \in Req, ReadsOnly(r), Writing(r), pc[r] \notin Answered
  PROVE  op[r][1] \notin ReadActs
BY Zenon DEF Reading, ReadLabels, ReadsOnly, Writing

LEMMA GuardInvInit == Init => GuardInv
BY RequestTypesInit DEF Init, RequestsInit, ReadsOnly, Passed, InFlight, GuardInv

LEMMA GuardInvStep == GuardInv /\ [Next]_vars => GuardInv'
<1> SUFFICES ASSUME GuardInv, [Next]_vars
             PROVE  \A s \in Req : ReadsOnly(s)' /\ Passed(s)'
  BY RequestTypesStep DEF GuardInv
<1>1. CASE UNCHANGED vars
  BY <1>1, OthersKeep DEF vars, requestVars, GuardInv
<1>2. ASSUME NEW r \in Req, ComponentStep(r), NEW s \in Req
      PROVE  ReadsOnly(s)' /\ Passed(s)'
  <2>1. MovesAmong(r, AllLabels, Ops)
    BY <1>2, ComponentMoves DEF GuardInv
  <2>2. CASE s # r
    BY <2>1, <2>2, OthersKeep DEF MovesAmong, GuardInv, RequestTypes
  <2>3. ReadsOnly(r)'
    <3>1. CASE Writing(r)
      BY <2>1, <3>1, WritingIsNoReader DEF MovesAmong, Writing, AllLabels, GuardInv,
         ReadsOnly
    <3>2. CASE ~Writing(r)
      BY <1>2, <3>2, StepReads DEF Harmless, GuardInv
    <3> QED
      BY <3>1, <3>2
  <2> QED
    BY <2>1, <2>2, <2>3, MovePasses
<1>3. ASSUME NEW r \in Req, Forbid(r) \/ Abort(r), NEW s \in Req
      PROVE  ReadsOnly(s)' /\ Passed(s)'
  BY <1>3, AnsweredGuards, OthersKeep DEF Forbid, Abort, TurnAway, Goto, Answered,
     GuardInv, RequestTypes
<1>4. CASE Worker
  BY <1>4, OthersKeep DEF Worker, Transmit, requestVars, GuardInv
<1> QED
  BY <1>1, <1>2, <1>3, <1>4 DEF Next, ComponentStep

-----------------------------------------------------------------------------
LEMMA StepIsGuarded == GuardInv /\ [Next]_vars => GuardedWrite
<1> SUFFICES ASSUME GuardInv, [Next]_vars, NEW s \in Req, pc'[s] # pc[s], Tables' # Tables
             PROVE  may[s] = "all" /\ Audited(op[s])
  BY DEF GuardedWrite
<1>1. CASE UNCHANGED vars
  BY <1>1 DEF vars, requestVars
<1>2. ASSUME NEW r \in Req, ComponentStep(r)
      PROVE  may[s] = "all" /\ Audited(op[s])
  BY <1>2, ComponentMoves, StepReads, WritingIsNoReader, WritersAreGuarded DEF GuardInv,
     MovesAmong, RequestTypes, Harmless, Writing, AllLabels, InFlight, Passed
<1>3. ASSUME NEW r \in Req, Forbid(r)
      PROVE  Tables' = Tables
  BY <1>3 DEF Forbid, Tables, masterVars, treasuryVars, journalVars, personnelVars,
     edocVars, fileVars, taskVars, accessVars, memberVars
<1>4. ASSUME NEW r \in Req, Abort(r)
      PROVE  Tables' = Tables
  BY <1>4 DEF Abort, MasterDrop, AccessDrop, accessTables, Tables, treasuryVars, journalVars,
     personnelVars, edocVars, fileVars, taskVars, memberVars
<1>5. CASE Worker
  BY <1>5 DEF Worker, Transmit, requestVars
<1> QED
  BY <1>1, <1>2, <1>3, <1>4, <1>5 DEF Next, ComponentStep

\* Of all the routes none that writes is open to a token that only reads, or goes
\* unaudited: a step that changes a table is a guarded and audited handler's.
THEOREM WritesAlwaysGuarded == Spec => WritesAreGuarded
<1>1. GuardInv /\ [Next]_vars => [GuardedWrite]_vars
  BY StepIsGuarded
<1> QED
  BY <1>1, GuardInvInit, GuardInvStep, PTL DEF Spec, WritesAreGuarded, GuardedWrite

-----------------------------------------------------------------------------
(***************************************************************************)
(* The theorem that a company has one main branch.                         *)
(*                                                                         *)
(* While no two requests that set one have overlapped, the one under way   *)
(* has found all others, and holds or has yet to clear each of them that   *)
(* still is a main branch; nobody else makes one.  So it is alone when it  *)
(* is written.                                                             *)
(***************************************************************************)

LEMMA MainInvSingle == MainInv => SingleMain
<1> SUFFICES ASSUME MainInv, Cardinality(mains) > 1 PROVE Clash
  BY DEF SingleMain, Clash
<1>1. SUFFICES ASSUME OneMain PROVE FALSE
  BY DEF MainInv
<1>2. CASE mains = {}
  BY <1>2, FS_EmptySet
<1>3. CASE mains # {}
  <2>1. PICK x \in mains : TRUE
    BY <1>3
  <2>2. mains = {x}
    BY <1>1, <2>1 DEF OneMain
  <2>3. Cardinality(mains) = 1
    BY <2>2, FS_Singleton
  <2> QED
    BY <2>3
<1> QED
  BY <1>2, <1>3

LEMMA InitMainInv == Init => MainInv
BY DEF Init, RequestsInit, MasterInit, NoForm, FormFields, Overlaps, InFlight, Saying,
   Setters, OneMain, MainInv

-----------------------------------------------------------------------------
(* Who has met whom.                                                       *)

LEMMA ComponentMeets ==
  ASSUME RequestTypes, NEW r \in Req, ComponentStep(r)
  PROVE  Meets(r) /\ NotForbidden(r)
<1>1. MovesAmong(r, AllLabels, Ops)
  BY ComponentMoves
<1>2. "idle" \notin AllLabels /\ "forbidden" \notin AllLabels
  BY DEF AllLabels, Answered
<1> QED
  BY <1>1, <1>2 DEF MovesAmong, Meets, NotForbidden

\* What the history says stays so.
LEMMA OverlapsStep ==
  ASSUME RequestTypes, Overlaps, NEW r \in Req, ComponentStep(r) \/ Forbid(r) \/ Abort(r)
  PROVE  /\ Overlaps'
         /\ pc'[r] # "idle" /\ met \subseteq met'
         /\ \A s \in Req \ {r} : pc'[s] = pc[s] /\ op'[s] = op[s]
         /\ op'[r] = op[r] \/ pc[r] = "idle"
<1>1. Meets(r)
  BY ComponentMeets DEF Forbid, TurnAway, RequestTypes, Meets, Answered, Abort, Goto
<1>2. /\ pc'[r] # "idle"
      /\ \A s \in Req \ {r} : pc'[s] = pc[s] /\ op'[s] = op[s]
      /\ op'[r] = op[r] \/ pc[r] = "idle"
  <2>1. CASE ComponentStep(r)
    BY <2>1, ComponentMoves DEF MovesAmong, RequestTypes, AllLabels, Answered
  <2>2. CASE Forbid(r)
    BY <2>2 DEF Forbid, TurnAway, Idle, RequestTypes
  <2>3. CASE Abort(r)
    BY <2>3 DEF Abort, Goto, RequestTypes
  <2> QED
    BY <2>1, <2>2, <2>3
<1>3. met \subseteq met'
  BY <1>1 DEF Meets
<1>4. ASSUME NEW s \in Req, pc'[s] = "idle" PROVE op'[s] = NoOp
  BY <1>2, <1>4 DEF Overlaps
<1>5. ASSUME NEW s \in Req, NEW t \in Req, s # t, InFlight(s)', InFlight(t)'
      PROVE  {s, t} \in met'
  <2>1. CASE s # r /\ t # r
    BY <1>2, <1>3, <1>5, <2>1 DEF Overlaps, InFlight, Met
  <2>2. ASSUME NEW x \in Req \ {r}, InFlight(x)', InFlight(r)' PROVE {r, x} \in met'
    <3>1. InFlight(x)
      BY <1>2, <2>2 DEF InFlight
    <3>2. CASE pc[r] = "idle" /\ met' = met \cup {{r, y} : y \in {z \in Req : InFlight(z)}}
      BY <3>1, <3>2
    <3>3. CASE pc[r] # "idle" /\ met' = met
      <4>1. CASE InFlight(r)
        BY <2>2, <3>1, <3>3, <4>1 DEF Overlaps, Met
      <4>2. CASE pc[r] \in Answered
        <5>1. CASE ComponentStep(r)
          BY <5>1, ComponentMoves, <3>3, <4>2 DEF MovesAmong, AllLabels
        <5>2. CASE Forbid(r)
          BY <3>3, <5>2 DEF Forbid, TurnAway, Idle
        <5>3. CASE Abort(r)
          BY <4>2, <5>3 DEF Abort, InFlight
        <5> QED
          BY <5>1, <5>2, <5>3
      <4> QED
        BY <3>3, <4>1, <4>2 DEF InFlight
    <3> QED
      BY <1>1, <2>2, <3>2, <3>3 DEF Meets, InFlight
  <2>3. CASE s = r \/ t = r
    BY <1>5, <2>2, <2>3
  <2> QED
    BY <2>1, <2>3
<1>6. Overlaps'
  BY <1>4, <1>5 DEF Overlaps, Met
<1> QED
  BY <1>2, <1>3, <1>6

-----------------------------------------------------------------------------
(* What a step does to the forms, to what is held and to the main branches. *)

LEMMA AsksSays ==
  ASSUME Saying, NEW r \in Req, NEW id, NEW code, NEW links, NEW value,
         NEW main \in {"unsaid", "yes", "no"}, Asks(r, id, code, links, value, main)
  PROVE  /\ Saying' /\ mains' = mains /\ form'[r].main = main
         /\ \A s \in Req \ {r} : form'[s] = form[s] /\ left'[s] = left[s] /\ held'[s] = held[s]
BY DEF Asks, Saying, FormFields

\* A request that ends lets go of the branches it held.
LEMMA OthersKeepForm ==
  ASSUME NEW r \in Req,
         \/ JournalStep(r) \/ PersonnelStep(r) \/ EDocumentsStep(r) \/ FilesStep(r)
         \/ ProjectsStep(r) \/ AccessStep(r) \/ MembersStep(r) \/ Forbid(r) \/ Abort(r)
  PROVE  /\ form' = form
         /\ left' = left \/ left' = [left EXCEPT ![r] = {}]
         /\ held' = held \/ held' = [held EXCEPT ![r] = {}]
<1>1. CASE Abort(r)
  BY <1>1 DEF Abort, MasterDrop, Release
<1> QED
  BY <1>1, OthersKeepMasters

\* The other components set no main branch.
LEMMA OthersSay ==
  ASSUME RequestTypes, MainInv, NEW r \in Req,
         \/ TreasuryStep(r) \/ JournalStep(r) \/ PersonnelStep(r) \/ EDocumentsStep(r)
         \/ FilesStep(r) \/ ProjectsStep(r) \/ AccessStep(r) \/ MembersStep(r)
         \/ Forbid(r) \/ Abort(r)
  PROVE  SaidBy(r)
<1>1. /\ mains' = mains /\ Saying'
      /\ \A s \in Req \ {r} : form'[s] = form[s] /\ left'[s] = left[s] /\ held'[s] = held[s]
      /\ form'[r] = form[r] \/ (form'[r].main = "unsaid" /\ pc[r] = "idle")
  <2>0. Saying
    BY DEF MainInv
  <2>1. CASE TreasuryStep(r)
    <3>1. CASE TreasuryStart(r)
      <4>1. PICK id : Asks(r, id, 0, {}, 0, "unsaid")
        BY Zenon, <3>1 DEF TreasuryStart, StartReport, StartCancel
      <4> QED
        BY <2>0, <3>1, <4>1, AsksSays DEF Saying, TreasuryStart, Idle
    <3>2. CASE TreasuryWork(r)
      BY Zenon, <2>0, <3>2 DEF Saying, TreasuryWork, FindAccount, SumNext, FindInvoice,
         CancelInvoice, masterVars
    <3> QED
      BY <2>1, <3>1, <3>2 DEF TreasuryStep
  <2>2. CASE ~TreasuryStep(r)
    <3>1. /\ mains' = mains /\ form' = form
          /\ left' = left \/ left' = [left EXCEPT ![r] = {}]
          /\ held' = held \/ held' = [held EXCEPT ![r] = {}]
      BY <2>2, OthersKeepForm, RowsAreMasters
    <3> QED
      BY <2>0, <3>1 DEF Saying
  <2> QED
    BY <2>1, <2>2
<1>2. pc'[r] \notin SetterLabels /\ (pc[r] \in SetterLabels => Abort(r))
  <2>1. CASE Forbid(r)
    BY <2>1 DEF Forbid, TurnAway, Idle, RequestTypes, SetterLabels
  <2>2. CASE Abort(r)
    BY <2>2 DEF Abort, Goto, RequestTypes, SetterLabels
  <2>3. CASE ~Forbid(r) /\ ~Abort(r)
    <3> DEFINE Away(L) == \A x \in SetterLabels : x \notin L /\ x \notin Answered /\ x # "idle"
    <3>1. /\ Away(TreasuryLabels) /\ Away(JournalLabels) /\ Away(PersonnelLabels)
          /\ Away(EDocumentLabels) /\ Away(FileLabels) /\ Away(TaskLabels)
          /\ Away(AccessLabels) /\ Away(MemberLabels)
      BY DEF SetterLabels, Answered, TreasuryLabels, JournalLabels,
         PersonnelLabels, EDocumentLabels, FileLabels, TaskLabels, AccessLabels, MemberLabels
    <3>2. \A L, O : MovesAmong(r, L, O) /\ Away(L) =>
                      pc'[r] \notin SetterLabels /\ pc[r] \notin SetterLabels
      BY DEF MovesAmong, RequestTypes
    <3> HIDE DEF Away
    <3> QED
      BY <2>3, <3>1, <3>2, StepMoves
  <2> QED
    BY <2>1, <2>2, <2>3
<1>3. pc[r] = "idle" => form[r].main # "yes"
  BY Zenon DEF MainInv, Setters, SetterLabels, Answered
<1>4. SetterAt(r)'
  <2>1. SUFFICES ASSUME form'[r].main = "yes" PROVE On(r)' = "branch" /\ pc'[r] \in Answered
    BY Zenon, <1>2 DEF SetterAt, SetterLabels
  <2>2. form[r].main = "yes" /\ pc[r] # "idle" /\ form'[r] = form[r]
    BY <1>1, <1>3, <2>1
  <2>3. On(r) = "branch" /\ pc[r] \in SetterLabels \cup Answered
    BY <2>2 DEF MainInv, Setters
  <2>4. CASE Abort(r)
    BY <2>3, <2>4 DEF Abort, Goto, RequestTypes, Answered, On
  <2>5. CASE ~Abort(r)
    <3>1. pc[r] \in Answered
      BY <1>2, <2>3, <2>5
    <3>2. CASE Forbid(r)
      BY <2>2, <3>2 DEF Forbid, TurnAway, Idle
    <3>3. CASE ~Forbid(r)
      BY <2>5, <3>3, ComponentMoves, <2>2, <3>1 DEF ComponentStep, MovesAmong, AllLabels
    <3> QED
      BY <3>2, <3>3
  <2> QED
    BY <2>4, <2>5
<1>5. MainsStep(r)
  BY Zenon, <1>1, <1>2 DEF MainsStep, Clears, SetterLabels
<1> QED
  BY <1>1, <1>4, <1>5 DEF SaidBy

LEMMA BeginsAt ==
  ASSUME RequestTypes, NEW r \in Req, NEW o, NEW at, Begin(r, o, at)
  PROVE  op'[r] = o /\ pc'[r] = at
BY DEF Begin, RequestTypes

\* What a start asks of the main branch; only a branch is asked to be one.
LEMMA MasterAsks ==
  ASSUME RequestTypes, MainInv, NEW r \in Req, MasterStart(r)
  PROVE  SaidBy(r)
<1>1. Saying /\ pc[r] = "idle"
  BY DEF MainInv, MasterStart, Idle
<1>2. \A on, main : main \in Mains(on) => main \in {"unsaid", "yes", "no"}
                                           /\ (main = "yes" => on = "branch")
  BY DEF Mains
<1>3. CASE StartCreate(r)
  <2>1. PICK on \in Resources \cap About, act \in {"create", "adjust"} :
          Creation(r, on, act)
    BY <1>3, CreateStarts
  <2>2. PICK code \in TypedCodes(on), L \in LinkChoices(on), v \in Values(on),
             main \in Mains(on) :
            /\ Begin(r, <<act, on>>, IF on \in Careful THEN "find kept"
                                                      ELSE NumberAt(on, code, main))
            /\ Asks(r, <<on, r>>, code, L, v, main)
    BY Zenon, <2>1 DEF Creation
  <2>3. main \in {"unsaid", "yes", "no"}
    BY <1>2
  <2>8. main = "yes" => on = "branch"
    BY <1>2
  <2>4. /\ Saying' /\ mains' = mains /\ form'[r].main = main
        /\ \A s \in Req \ {r} : form'[s] = form[s] /\ left'[s] = left[s] /\ held'[s] = held[s]
    <3>1. Asks(r, <<on, r>>, code, L, v, main)
      BY Zenon, <2>2
    <3> QED
      BY <1>1, <2>3, <3>1, AsksSays
  <2>5. op'[r] = <<act, on>>
    BY Zenon, <2>2, BeginsAt
  <2>10. pc'[r] = IF on \in Careful THEN "find kept" ELSE NumberAt(on, code, main)
    BY Zenon, <2>2, BeginsAt
  <2>9. main = "yes" => pc'[r] = "find mains"
    <3>1. "branch" \notin Careful /\ Services["branch"].code = "typed"
      BY DEF Careful, Services, BranchService, Service
    <3>2. NumberAt("branch", code, "yes") = "find mains"
      BY <3>1 DEF NumberAt
    <3> QED
      BY Zenon, <2>8, <2>10, <3>1, <3>2
  <2>6. SetterAt(r)'
    <3>1. On(r)' = on
      BY <2>5 DEF On
    <3>2. form'[r].main = "yes" => pc'[r] = "find mains"
      BY Zenon, <2>4, <2>9
    <3> QED
      BY Zenon, <2>4, <2>8, <3>1, <3>2 DEF SetterAt, SetterLabels
  <2>7. MainsStep(r)
    BY Zenon, <2>4, <2>9 DEF MainsStep, Clears
  <2> QED
    BY <1>1, <2>4, <2>6, <2>7 DEF SaidBy
<1>4. CASE StartUpdate(r)
  <2>1. PICK on \in Resources \cap About :
          \E id \in Peers(on), code \in TypedCodes(on) \cup {0}, L \in LinkChoices(on),
             v \in Values(on), main \in Mains(on) :
            Begin(r, <<"update", on>>, "find") /\ Asks(r, id, code, L, v, main)
    BY <1>4 DEF StartUpdate
  <2>2. PICK id \in Peers(on), code \in TypedCodes(on) \cup {0}, L \in LinkChoices(on),
             v \in Values(on), main \in Mains(on) :
            Begin(r, <<"update", on>>, "find") /\ Asks(r, id, code, L, v, main)
    BY <2>1
  <2>3. main \in {"unsaid", "yes", "no"}
    BY <1>2
  <2>8. main = "yes" => on = "branch"
    BY <1>2
  <2>4. /\ Saying' /\ mains' = mains /\ form'[r].main = main
        /\ \A s \in Req \ {r} : form'[s] = form[s] /\ left'[s] = left[s] /\ held'[s] = held[s]
    BY <2>2, <1>1, <2>3, AsksSays
  <2>5. op'[r] = <<"update", on>> /\ pc'[r] = "find"
    BY <2>2 DEF Begin, RequestTypes
  <2>6. SetterAt(r)'
    BY <2>8, <2>4, <2>5 DEF SetterAt, On, Does, SetterLabels
  <2>7. MainsStep(r)
    BY <2>4, <2>5 DEF MainsStep, Clears
  <2> QED
    BY <1>1, <2>4, <2>6, <2>7 DEF SaidBy
<1>5. CASE StartOne(r)
  <2>1. PICK id : Asks(r, id, 0, {}, 0, "unsaid")
    BY <1>5 DEF StartOne
  <2>2. /\ Saying' /\ mains' = mains /\ form'[r].main = "unsaid"
        /\ \A s \in Req \ {r} : form'[s] = form[s] /\ left'[s] = left[s] /\ held'[s] = held[s]
    BY <1>1, <2>1, AsksSays
  <2> QED
    BY <1>1, <2>2 DEF SaidBy, SetterAt, MainsStep
<1>6. CASE StartList(r)
  <2>1. form[r].main # "yes"
    BY Zenon, <1>1 DEF MainInv, Setters, SetterLabels, Answered
  <2> QED
    BY <1>1, <1>6, <2>1 DEF StartList, masterVars, SaidBy, Saying, SetterAt, MainsStep
<1> QED
  BY <1>3, <1>4, <1>5, <1>6 DEF MasterStart

\* Where nobody sets the main branch, a step that leaves the forms' wish alone and
\* adds no main branch says nothing new.
LEMMA NoSetterSays ==
  ASSUME MainInv, NEW r \in Req, pc[r] # "idle", form[r].main # "yes",
         Saying', form'[r].main = form[r].main, form'[r].id = form[r].id,
         mains' \subseteq mains,
         \A s \in Req \ {r} : form'[s] = form[s] /\ left'[s] = left[s] /\ held'[s] = held[s]
  PROVE  SaidBy(r)
BY DEF SaidBy, SetterAt, MainsStep

LEMMA ReleaseSays ==
  ASSUME Saying, NEW r \in Req, Release(r)
  PROVE  /\ Saying' /\ form' = form
         /\ \A s \in Req \ {r} : left'[s] = left[s] /\ held'[s] = held[s]
BY DEF Release, Saying

\* The end of the transaction: the row is written, and r is the one main branch.
LEMMA WriteSays ==
  ASSUME RequestTypes, MainInv, NEW r \in Req, pc[r] \in {"insert", "write"},
         mains' = MainsAfter(r) \/ mains' = mains, Release(r),
         NEW fine, Answer(r, fine)
  PROVE  SaidBy(r)
<1>1. Saying /\ Setters
  BY DEF MainInv
<1>2. /\ Saying' /\ form' = form
      /\ \A s \in Req \ {r} : left'[s] = left[s] /\ held'[s] = held[s]
  BY <1>1, ReleaseSays
<1>3. pc'[r] \in Answered /\ op' = op
  BY DEF Answer, Goto, RequestTypes, Answered
<1>4. SetterAt(r)'
  BY <1>1, <1>2, <1>3 DEF SetterAt, Setters, On, Does, Answered
<1>5. Clears(r)'
  BY <1>3 DEF Clears, Answered
<1>6. MainsStep(r)
  <2>1. CASE form[r].main = "yes" /\ mains' = MainsAfter(r)
    BY <2>1, <1>3 DEF MainsAfter, Clears, MainsStep, InFlight, Answered
  <2>2. CASE form[r].main # "yes" \/ mains' = mains
    BY <1>1, <2>2, <1>5 DEF MainsAfter, Saying, MainsStep
  <2> QED
    BY <2>1, <2>2
<1> QED
  BY <1>2, <1>4, <1>6 DEF SaidBy

LEMMA MasterSays ==
  ASSUME RequestTypes, MainInv, NEW r \in Req, MasterWork(r)
  PROVE  SaidBy(r)
<1>1. Saying /\ Setters
  BY DEF MainInv
<1>2. pc[r] \notin SetterLabels \cup Answered => form[r].main # "yes"
  BY <1>1 DEF Setters
<1>3. CASE FindKept(r) \/ ReadPage(r) \/ CountPage(r) \/ CountMovements(r)
  BY Zenon, <1>2, <1>3, <1>1, NoSetterSays DEF FindKept, ReadPage, CountPage, CountMovements,
     SetterLabels, Answered, masterVars, Saying
<1>4. CASE CountRows(r)
  <2>1. form[r].main # "yes" /\ pc[r] # "idle"
    BY <1>2, <1>4 DEF CountRows, SetterLabels, Answered
  <2>2. PICK n : form' = [form EXCEPT ![r].number = n]
    BY <1>4 DEF CountRows
  <2>3. mains' = mains /\ left' = left /\ held' = held
    BY <1>4 DEF CountRows
  <2>4. "main" \in FormFields /\ "id" \in FormFields
    BY DEF FormFields
  <2>5. /\ Saying' /\ form'[r].main = form[r].main /\ form'[r].id = form[r].id
        /\ \A s \in Req \ {r} : form'[s] = form[s] /\ left'[s] = left[s] /\ held'[s] = held[s]
    BY <1>1, <2>2, <2>3, <2>4 DEF Saying
  <2> QED
    BY <2>1, <2>3, <2>5, NoSetterSays
<1>5. CASE InsertRow(r)
  BY <1>5, WriteSays DEF InsertRow
<1>6. CASE UpdateRow(r)
  BY <1>6, WriteSays DEF UpdateRow
<1>7. CASE FindRow(r)
  <2>1. UNCHANGED masterVars /\ pc[r] = "find"
    BY Zenon, <1>7 DEF FindRow
  <2>2. op' = op /\ pc'[r] \in {"refused", "ok", "count movements", "find mains", "write"}
    BY Zenon, <1>7 DEF FindRow, Answer, Goto, RequestTypes
  <2>3. ASSUME form[r].main = "yes"
        PROVE  On(r) = "branch" /\ pc'[r] \in {"refused", "find mains"}
    BY Zenon, <1>1, <2>1, <2>3, <1>7 DEF Setters, Does, FindRow, Answer, Goto, RequestTypes
  <2>4. SetterAt(r)'
    BY Zenon, <2>1, <2>2, <2>3 DEF SetterAt, masterVars, On, SetterLabels, Answered
  <2>5. MainsStep(r)
    BY Zenon, <2>1, <2>3 DEF MainsStep, masterVars, Clears
  <2> QED
    BY <1>1, <2>1, <2>4, <2>5 DEF SaidBy, Saying, masterVars
<1>8. CASE FindMains(r)
  BY Zenon, <1>8, <1>1 DEF FindMains, OtherMains, Goto, RequestTypes, SetterAt, Setters, On,
     SetterLabels, Saying, Row, MainsStep, Clears, SaidBy
<1>9. CASE ClearMain(r)
  <2>1. /\ pc[r] = "clear" /\ pc' = pc /\ op' = op /\ mains' = mains /\ form' = form
    BY <1>9 DEF ClearMain, requestVars
  <2>2. PICK id : /\ left' = [left EXCEPT ![r] = @ \ {id}]
                  /\ held' = [held EXCEPT ![r] = @ \cup ({id} \cap mains)]
    BY <1>9 DEF ClearMain
  <2>3. SetterAt(r)'
    BY <1>1, <2>1 DEF SetterAt, Setters, On, Does
  <2>4. left'[r] = left[r] \ {id} /\ held'[r] = held[r] \cup ({id} \cap mains)
    BY <1>1, <2>2 DEF Saying
  <2>5. MainsStep(r)
    BY <2>1, <2>4 DEF MainsStep, Clears, Row
  <2> QED
    BY <1>1, <2>1, <2>2, <2>3, <2>5 DEF SaidBy, Saying
<1>10. CASE MainsCleared(r)
  BY Zenon, <1>10, <1>1 DEF MainsCleared, masterVars, Goto, RequestTypes, SetterAt, Setters,
     On, SetterLabels, MainsStep, Clears, Row, SaidBy, Saying
<1>11. CASE DeleteRow(r)
  BY <1>2, <1>11, <1>1, NoSetterSays DEF DeleteRow, SetterLabels, Answered, Delete,
     Saying
<1> QED
  BY <1>3, <1>4, <1>5, <1>6, <1>7, <1>8, <1>9, <1>10, <1>11 DEF MasterWork

-----------------------------------------------------------------------------
LEMMA MainInvKept ==
  ASSUME RequestTypes, MainInv, NEW r \in Req, ComponentStep(r) \/ Forbid(r) \/ Abort(r)
  PROVE  MainInv'
<1>1. Overlaps /\ Saying /\ Setters
  BY DEF MainInv
<1>2. /\ Overlaps'
      /\ pc'[r] # "idle" /\ met \subseteq met'
      /\ \A s \in Req \ {r} : pc'[s] = pc[s] /\ op'[s] = op[s]
      /\ op'[r] = op[r] \/ pc[r] = "idle"
  BY <1>1, OverlapsStep
<1>3. SaidBy(r)
  BY MasterAsks, MasterSays, OthersSay DEF MasterStep, ComponentStep
<1>4. /\ Saying' /\ SetterAt(r)' /\ MainsStep(r)
      /\ \A s \in Req \ {r} : form'[s] = form[s] /\ left'[s] = left[s] /\ held'[s] = held[s]
      /\ pc[r] # "idle" => form'[r].main = form[r].main /\ form'[r].id = form[r].id
  BY <1>3 DEF SaidBy
<1>5. ASSUME NEW s \in Req, form'[s].main = "yes"
      PROVE  /\ On(s)' = "branch" /\ pc'[s] \in SetterLabels \cup Answered
             /\ pc'[s] = "find" => Does(s, "update")'
  <2>1. CASE s = r
    BY <1>4, <1>5, <2>1 DEF SetterAt
  <2>2. CASE s # r
    BY <1>2, <1>4, <2>2, <1>1, <1>5 DEF Setters, On, Does
  <2> QED
    BY <2>1, <2>2
<1>6. Setters'
  BY <1>5 DEF Setters
<1>7. ASSUME NEW s \in Req, SetsMain(s) PROVE SetsMain(s)'
  <2>1. pc[s] # "idle"
    BY Zenon, <1>1, <1>7 DEF SetsMain, Setters, SetterLabels, Answered
  <2>2. op'[s] = op[s] /\ form'[s].main = form[s].main
    BY <1>2, <1>4, <2>1
  <2> QED
    BY <1>7, <2>2 DEF SetsMain, On
<1>8. Clash => Clash'
  BY <1>2, <1>7 DEF Clash, Met
<1>9. ASSUME ~Clash'
      PROVE  OneMain' /\ \A s \in Req : form'[s].main = "yes" => Clears(s)'
  <2>1. OneMain /\ \A s \in Req : form[s].main = "yes" => Clears(s)
    BY <1>8, <1>9 DEF MainInv
  <2>2. \A s \in Req \ {r} : Row(s)' = Row(s)
    BY <1>4 DEF Row
  <2>3. CASE /\ mains' \subseteq mains
             /\ form'[r].main = "yes" /\ (pc[r] # "idle" => Clears(r)) => Clears(r)'
    <3>1. OneMain'
      BY <2>1, <2>3 DEF OneMain
    <3>2. ASSUME NEW s \in Req, form'[s].main = "yes" PROVE Clears(s)'
      <4>1. CASE s = r
        BY <1>4, <2>1, <2>3, <3>2, <4>1
      <4>2. CASE s # r
        BY <1>4, <2>1, <3>2, <4>2, <1>2, <2>2, <2>3 DEF Clears
      <4> QED
        BY <4>1, <4>2
    <3> QED
      BY <3>1, <3>2
  <2>4. CASE /\ form[r].main = "yes" /\ InFlight(r) /\ pc'[r] \in Answered
             /\ Clears(r) => mains' \subseteq {Row(r)}
    <3>1. OneMain'
      BY <2>1, <2>4 DEF OneMain
    <3>2. ASSUME NEW s \in Req, form'[s].main = "yes" PROVE Clears(s)'
      <4>1. CASE s = r
        BY <2>4, <4>1 DEF Clears, Answered
      <4>2. CASE s # r
        BY <1>2, <1>4, <3>2, <4>2, <1>1, <2>4, <1>8, <1>9 DEF SetsMain, Setters, Clash,
           Overlaps, Clears, InFlight, Answered
      <4> QED
        BY <4>1, <4>2
    <3> QED
      BY <3>1, <3>2
  <2> QED
    BY <1>4, <2>3, <2>4 DEF MainsStep
<1> QED
  BY <1>2, <1>4, <1>6, <1>9 DEF MainInv

LEMMA MainInvStep == RequestTypes /\ MainInv /\ [Next]_vars => MainInv'
<1> SUFFICES ASSUME RequestTypes, MainInv, [Next]_vars PROVE MainInv'
  OBVIOUS
<1> USE DEF MainInv, Overlaps, Saying, Setters, Clash, OneMain, Clears, InFlight, Met, On,
            Does, SetsMain, Row
<1>1. CASE UNCHANGED vars
  BY <1>1 DEF vars, requestVars, masterVars
<1>2. CASE Worker
  BY <1>2 DEF Worker, Transmit, requestVars, masterVars
<1>3. ASSUME NEW r \in Req, ComponentStep(r) \/ Forbid(r) \/ Abort(r) PROVE MainInv'
  BY ONLY RequestTypes, MainInv, r \in Req, <1>3, MainInvKept
<1> QED
  BY <1>1, <1>2, <1>3 DEF Next, ComponentStep

\* A company has one main branch: branches.service clears the others and writes the
\* new one in one transaction, so only two such transactions that overlap, neither
\* seeing what the other inserts, leave two.
THEOREM SingleMainBranch == Spec => []SingleMain
<1>1. Init => RequestTypes /\ MainInv
  BY RequestTypesInit, InitMainInv
<1>2. (RequestTypes /\ MainInv) /\ [Next]_vars => (RequestTypes /\ MainInv)'
  BY RequestTypesStep, MainInvStep
<1>3. RequestTypes /\ MainInv => SingleMain
  BY MainInvSingle
<1> QED
  BY <1>1, <1>2, <1>3, PTL DEF Spec

-----------------------------------------------------------------------------
(***************************************************************************)
(* The theorem that trial balances balance.                                *)
(*                                                                         *)
(* Every entry's debits are its credits, from the draft on: create checks  *)
(* the lines before it awaits anything, and posting leaves them alone.  So *)
(* are the sums over any set of entries, whichever are posted by then.     *)
(***************************************************************************)

LEMMA JournalInvBalances == JournalInv => TrialBalances
BY Zenon DEF JournalInv, TrialBalances

\* Folds of equal values are equal.
LEMMA NoLinesEven == Even({})
<1> DEFINE P(it) == it = [s \in SUBSET {} |->
                            IF s = {} THEN 0
                            ELSE (CHOOSE x \in s : TRUE).debit + it[s \ {CHOOSE x \in s : TRUE}]]
           Q(it) == it = [s \in SUBSET {} |->
                            IF s = {} THEN 0
                            ELSE (CHOOSE x \in s : TRUE).credit + it[s \ {CHOOSE x \in s : TRUE}]]
<1>1. Debits({}) = (CHOOSE it : P(it))[{}] /\ Credits({}) = (CHOOSE it : Q(it))[{}]
  BY DEF Debits, Credits, MapThenSumSet, MapThenFoldSet
<1>2. \A it : P(it) <=> Q(it)
  OBVIOUS
<1> HIDE DEF P, Q
<1>3. (CHOOSE it : P(it)) = (CHOOSE it : Q(it))
  BY <1>2
<1> QED
  BY <1>1, <1>3 DEF Even

LEMMA EvenEntriesAddUp ==
  ASSUME JournalInv
  PROVE  MapThenSumSet(LAMBDA e : Debits(entries[e].lines), Posted)
           = MapThenSumSet(LAMBDA e : Credits(entries[e].lines), Posted)
<1> DEFINE P(it) == it = [s \in SUBSET Posted |->
                            IF s = {} THEN 0
                            ELSE Debits(entries[CHOOSE x \in s : TRUE].lines)
                                   + it[s \ {CHOOSE x \in s : TRUE}]]
           Q(it) == it = [s \in SUBSET Posted |->
                            IF s = {} THEN 0
                            ELSE Credits(entries[CHOOSE x \in s : TRUE].lines)
                                   + it[s \ {CHOOSE x \in s : TRUE}]]
<1>1. /\ MapThenSumSet(LAMBDA e : Debits(entries[e].lines), Posted) = (CHOOSE it : P(it))[Posted]
      /\ MapThenSumSet(LAMBDA e : Credits(entries[e].lines), Posted) = (CHOOSE it : Q(it))[Posted]
  BY DEF MapThenSumSet, MapThenFoldSet
<1>2. \A it : P(it) <=> Q(it)
  BY DEF JournalInv, Even, Posted
<1> HIDE DEF P, Q
<1>3. (CHOOSE it : P(it)) = (CHOOSE it : Q(it))
  BY <1>2
<1> QED
  BY <1>1, <1>3

\* The fold of debits, and of credits, over finitely many lines is a sum.
LEMMA DebitsSum ==
  ASSUME NEW L, IsFiniteSet(L), \A l \in L : l.debit \in Int
  PROVE  Debits(L) = SumOf([l \in L |-> l.debit], L)
<1> DEFINE g == [l \in L |-> l.debit]
           P(it) == it = [s \in SUBSET L |->
                            IF s = {} THEN 0
                            ELSE (CHOOSE x \in s : TRUE).debit + it[s \ {CHOOSE x \in s : TRUE}]]
<1>1. \A it : P(it) <=> Iterates(it, g, L)
  BY DEF Iterates
<1>2. Debits(L) = (CHOOSE it : P(it))[L]
  BY DEF Debits, MapThenSumSet, MapThenFoldSet
<1>4. \A l \in L : g[l] \in Int
  OBVIOUS
<1> HIDE DEF P, g
<1>3. P(CHOOSE it : P(it))
  BY <1>1, <1>4, FoldIs
<1>5. (CHOOSE it : P(it))[L] = SumOf(g, L)
  BY <1>1, <1>3, <1>4, FoldIs
<1> QED
  BY <1>2, <1>5 DEF g

LEMMA CreditsSum ==
  ASSUME NEW L, IsFiniteSet(L), \A l \in L : l.credit \in Int
  PROVE  Credits(L) = SumOf([l \in L |-> l.credit], L)
<1> DEFINE g == [l \in L |-> l.credit]
           P(it) == it = [s \in SUBSET L |->
                            IF s = {} THEN 0
                            ELSE (CHOOSE x \in s : TRUE).credit + it[s \ {CHOOSE x \in s : TRUE}]]
<1>1. \A it : P(it) <=> Iterates(it, g, L)
  BY DEF Iterates
<1>2. Credits(L) = (CHOOSE it : P(it))[L]
  BY DEF Credits, MapThenSumSet, MapThenFoldSet
<1>4. \A l \in L : g[l] \in Int
  OBVIOUS
<1> HIDE DEF P, g
<1>3. P(CHOOSE it : P(it))
  BY <1>1, <1>4, FoldIs
<1>5. (CHOOSE it : P(it))[L] = SumOf(g, L)
  BY <1>1, <1>3, <1>4, FoldIs
<1> QED
  BY <1>2, <1>5 DEF g

LEMMA TwoSum ==
  ASSUME NEW a, NEW b, a # b, NEW g, g[a] \in Int, g[b] \in Int
  PROVE  IsFiniteSet({a, b}) /\ SumOf(g, {a, b}) = g[a] + g[b]
<1> DEFINE S == {a, b}
<1>1. IsFiniteSet(S)
  <2>1. IsFiniteSet({a})
    BY FS_Singleton
  <2>2. IsFiniteSet({a} \cup {b})
    BY <2>1, FS_AddElement
  <2> QED
    BY <2>2, S = {a} \cup {b}
<1>2. \A x \in S : g[x] \in Int
  OBVIOUS
<1>3. a \in S /\ b \in S /\ S \in SUBSET S /\ S \ {a} = {b} /\ {b} \in SUBSET S /\ {b} \ {b} = {}
  OBVIOUS
<1> HIDE DEF S
<1>4. SumOf(g, S) = g[a] + SumOf(g, S \ {a})
  BY <1>1, <1>2, <1>3, SumFacts
<1>5. SumOf(g, {b}) = g[b] + SumOf(g, {b} \ {b})
  BY <1>1, <1>2, <1>3, SumFacts
<1>6. SumOf(g, {}) = 0
  BY <1>1, <1>2, SumFacts
<1>7. SumOf(g, {b}) = g[b]
  BY <1>3, <1>5, <1>6
<1>8. SumOf(g, S) = g[a] + g[b]
  BY <1>3, <1>4, <1>7
<1> QED
  BY <1>1, <1>8 DEF S

LEMMA OldLinesEven == Even(OldLines)
<1> DEFINE a == [account |-> <<"account", 1>>, debit |-> 1, credit |-> 0]
           b == [account |-> <<"account", 1>>, debit |-> 0, credit |-> 1]
           d == [l \in {a, b} |-> l.debit]
           c == [l \in {a, b} |-> l.credit]
<1>1. OldLines = {a, b}
  BY DEF OldLines
<1>2. a.debit = 1 /\ b.debit = 0 /\ a.credit = 0 /\ b.credit = 1
  OBVIOUS
<1> HIDE DEF a, b
<1>3. a # b
  BY <1>2
<1>4. d[a] = 1 /\ d[b] = 0 /\ c[a] = 0 /\ c[b] = 1
  BY <1>2
<1>9. d[a] \in Int /\ d[b] \in Int /\ c[a] \in Int /\ c[b] \in Int
  BY <1>4
<1> HIDE DEF d, c
<1>10. IsFiniteSet({a, b}) /\ SumOf(d, {a, b}) = d[a] + d[b]
  BY <1>3, <1>9, TwoSum
<1>11. SumOf(c, {a, b}) = c[a] + c[b]
  BY <1>3, <1>9, TwoSum
<1>5. IsFiniteSet({a, b}) /\ SumOf(d, {a, b}) = 1
  BY <1>4, <1>10
<1>6. SumOf(c, {a, b}) = 1
  BY <1>4, <1>11
<1>7. \A l \in {a, b} : l.debit \in Int /\ l.credit \in Int
  BY <1>2
<1>8. Debits({a, b}) = SumOf(d, {a, b}) /\ Credits({a, b}) = SumOf(c, {a, b})
  BY <1>5, <1>7, DebitsSum, CreditsSum DEF d, c
<1> QED
  BY <1>1, <1>5, <1>6, <1>8 DEF Even

LEMMA InitJournalInv == Init => JournalInv
<1> SUFFICES ASSUME Init PROVE JournalInv
  OBVIOUS
<1>1. /\ draft = [r \in Req |-> NoDraft] /\ trial = [r \in Req |-> NoTrial]
      /\ \/ \E status \in {"DRAFT", "POSTED"} :
              entries = [e \in {0} |-> [number |-> 1, lines |-> OldLines,
                                       status |-> status]]
         \/ entries = [e \in {} |-> 0]
  BY DEF Init, JournalInit
<1>2. /\ DOMAIN NoDraft = {"lines", "number", "entry"} /\ NoDraft.lines = {}
      /\ DOMAIN NoTrial = {"accounts", "debit", "credit", "named"}
      /\ NoTrial.debit = NoTrial.credit
  BY DEF NoDraft, NoTrial
<1>3. ASSUME NEW e \in DOMAIN entries
      PROVE  DOMAIN entries[e] = {"number", "lines", "status"} /\ entries[e].lines = OldLines
  BY <1>1
<1> QED
  BY <1>1, <1>2, <1>3, NoLinesEven, OldLinesEven DEF JournalInv

\* A step that leaves the entries alone, and keeps draft and trial balance even.
LEMMA EntriesStay ==
  ASSUME JournalInv, NEW r \in Req, entries' = entries,
         DOMAIN draft' = Req, DOMAIN trial' = Req,
         \A s \in Req \ {r} : draft'[s] = draft[s] /\ trial'[s] = trial[s],
         DOMAIN draft'[r] = {"lines", "number", "entry"}, Even(draft'[r].lines),
         DOMAIN trial'[r] = {"accounts", "debit", "credit", "named"},
         trial'[r].debit = trial'[r].credit
  PROVE  JournalInv'
BY DEF JournalInv

LEMMA JournalInvKept ==
  ASSUME JournalInv, NEW r \in Req, JournalStart(r) \/ JournalWork(r)
  PROVE  JournalInv'
<1>0. /\ DOMAIN draft = Req /\ DOMAIN trial = Req
      /\ DOMAIN draft[r] = {"lines", "number", "entry"}
      /\ DOMAIN trial[r] = {"accounts", "debit", "credit", "named"}
      /\ Even(draft[r].lines) /\ trial[r].debit = trial[r].credit
  BY DEF JournalInv
<1>1. CASE UNCHANGED journalVars
  BY <1>1, <1>0, EntriesStay DEF journalVars
<1>2. CASE \E lines \in LineChoices : /\ Balanced(lines) /\ UNCHANGED <<entries, trial>>
                                      /\ draft' = [draft EXCEPT ![r].lines = lines]
  <2>1. PICK lines \in LineChoices : /\ Balanced(lines) /\ UNCHANGED <<entries, trial>>
                                     /\ draft' = [draft EXCEPT ![r].lines = lines]
    BY <1>2
  <2>2. Even(lines)
    BY <2>1 DEF Balanced, Even
  <2>3. draft'[r].lines = lines /\ DOMAIN draft'[r] = {"lines", "number", "entry"}
    BY <1>0, <2>1
  <2>4. DOMAIN draft' = Req /\ \A s \in Req \ {r} : draft'[s] = draft[s]
    BY <1>0, <2>1
  <2> QED
    BY <1>0, <2>1, <2>2, <2>3, <2>4, EntriesStay
<1>3. CASE StartPost(r) \/ CountEntries(r)
  <2>1. UNCHANGED <<entries, trial>>
    BY Zenon, <1>3 DEF StartPost, CountEntries
  <2>2. \/ \E e : draft' = [draft EXCEPT ![r].entry = e]
        \/ \E n : draft' = [draft EXCEPT ![r].number = n]
    BY Zenon, <1>3 DEF StartPost, CountEntries
  <2>3. draft'[r].lines = draft[r].lines /\ DOMAIN draft'[r] = {"lines", "number", "entry"}
    BY <1>0, <2>2
  <2>4. DOMAIN draft' = Req /\ \A s \in Req \ {r} : draft'[s] = draft[s]
    BY <1>0, <2>2
  <2> QED
    BY <1>0, <2>1, <2>3, <2>4, EntriesStay
<1>4. CASE InsertEntry(r)
  <2>1. draft' = draft /\ trial' = trial
    BY Zenon, <1>4 DEF InsertEntry
  <2>2. CASE entries' = entries
    BY <1>0, <2>1, <2>2, EntriesStay
  <2>3. CASE entries' = [e \in DOMAIN entries \cup {r} |->
                           IF e = r THEN [number |-> draft[r].number,
                                          lines |-> Lines(r), status |-> "DRAFT"]
                                    ELSE entries[e]]
    <3>1. ASSUME NEW e \in DOMAIN entries'
          PROVE  DOMAIN entries'[e] = {"number", "lines", "status"} /\ Even(entries'[e].lines)
      <4>1. CASE e = r
        BY <2>3, <4>1, <1>0 DEF Lines
      <4>2. CASE e # r
        BY <2>3, <4>2 DEF JournalInv
      <4> QED
        BY <4>1, <4>2
    <3> QED
      BY <2>1, <3>1 DEF JournalInv
  <2> QED
    BY Zenon, <1>4, <2>2, <2>3 DEF InsertEntry
<1>5. CASE PostEntry(r)
  <2>1. /\ draft' = draft /\ trial' = trial
        /\ entries' = [entries EXCEPT ![draft[r].entry].status = "POSTED"]
    BY <1>5 DEF PostEntry
  <2>2. ASSUME NEW e \in DOMAIN entries'
        PROVE  DOMAIN entries'[e] = {"number", "lines", "status"} /\ Even(entries'[e].lines)
    BY <2>1 DEF JournalInv
  <2> QED
    BY <2>1, <2>2 DEF JournalInv
<1>6. CASE GroupLines(r)
  <2>1. entries' = entries /\ draft' = draft
    BY <1>6 DEF GroupLines
  <2> DEFINE d == MapThenSumSet(LAMBDA e : Debits(entries[e].lines), Posted)
             c == MapThenSumSet(LAMBDA e : Credits(entries[e].lines), Posted)
             a == UNION {AccountsOf(entries[e].lines) : e \in Posted}
  <2>3. d = c
    BY EvenEntriesAddUp
  <2>4. trial' = [trial EXCEPT ![r] = [accounts |-> a, debit |-> d, credit |-> c, named |-> {}]]
    BY <1>6 DEF GroupLines
  <2> HIDE DEF d, c, a
  <2>5. /\ DOMAIN trial'[r] = {"accounts", "debit", "credit", "named"}
        /\ trial'[r].debit = trial'[r].credit
    BY <1>0, <2>3, <2>4
  <2>6. DOMAIN trial' = Req /\ \A s \in Req \ {r} : trial'[s] = trial[s]
    BY <1>0, <2>4
  <2> QED
    BY <1>0, <2>1, <2>5, <2>6, EntriesStay
<1>7. CASE NameAccounts(r)
  <2>1. entries' = entries /\ draft' = draft
    BY <1>7 DEF NameAccounts
  <2>2. PICK n : trial' = [trial EXCEPT ![r].named = n]
    BY <1>7 DEF NameAccounts
  <2>3. /\ DOMAIN trial'[r] = {"accounts", "debit", "credit", "named"}
        /\ trial'[r].debit = trial[r].debit /\ trial'[r].credit = trial[r].credit
    BY <1>0, <2>2
  <2>4. DOMAIN trial' = Req /\ \A s \in Req \ {r} : trial'[s] = trial[s]
    BY <1>0, <2>2
  <2> QED
    BY <1>0, <2>1, <2>3, <2>4, EntriesStay
<1>8. CASE StartEntry(r)
  BY Zenon, <1>1, <1>2, <1>8 DEF StartEntry
<1>9. CASE StartTrial(r) \/ FindAccounts(r) \/ FindEntry(r) \/ RereadEntry(r)
  <2>1. UNCHANGED journalVars
    BY Zenon, <1>9 DEF StartTrial, FindAccounts, FindEntry, RereadEntry
  <2> QED
    BY <1>1, <2>1
<1> QED
  BY <1>3, <1>4, <1>5, <1>6, <1>7, <1>8, <1>9 DEF JournalStart, JournalWork

LEMMA JournalInvStep == JournalInv /\ [Next]_vars => JournalInv'
<1> SUFFICES ASSUME JournalInv, [Next]_vars PROVE JournalInv'
  OBVIOUS
<1>1. CASE UNCHANGED journalVars
  BY <1>1 DEF journalVars, JournalInv
<1>2. ASSUME NEW r \in Req, JournalStep(r) PROVE JournalInv'
  BY <1>2, JournalInvKept DEF JournalStep
<1>3. ASSUME NEW r \in Req, ~JournalStep(r),
             \/ MasterStep(r) \/ TreasuryStep(r) \/ JournalStep(r) \/ PersonnelStep(r)
             \/ EDocumentsStep(r) \/ FilesStep(r) \/ ProjectsStep(r) \/ AccessStep(r)
             \/ MembersStep(r) \/ Forbid(r) \/ Abort(r)
      PROVE  UNCHANGED journalVars
  BY <1>3 DEF MasterStep, TreasuryStep, PersonnelStep, EDocumentsStep, FilesStep,
     ProjectsStep, AccessStep, MembersStep, Forbid, Abort
<1>4. CASE UNCHANGED vars
  BY <1>1, <1>4 DEF vars
<1>5. CASE Worker
  BY <1>1, <1>5 DEF Worker
<1> QED
  BY <1>1, <1>2, <1>3, <1>4, <1>5 DEF Next

\* The trial balance balances: journal-entries.service refuses an uneven entry before
\* its first await, posts only entries that are there, and groups all their lines in
\* one statement; whatever is entered or posted meanwhile, debits are credits.
THEOREM TrialsAlwaysBalance == Spec => []TrialBalances
BY InitJournalInv, JournalInvStep, JournalInvBalances, PTL DEF Spec

-----------------------------------------------------------------------------
(***************************************************************************)
(* The theorem that access is as it was granted.                           *)
(*                                                                         *)
(* A transaction that replaces a holder's set has, when it inserts, swept  *)
(* all the pairs that the holder still has, unless another that replaces   *)
(* the same set was in flight with it; so what it commits is what it was   *)
(* asked.  A role that goes takes its pairs with it, and is not named      *)
(* again.  A sign-in that has read the member's roles reads permissions    *)
(* the member has had, unless a role changed meanwhile, of roles it still  *)
(* has, unless the member's did.                                           *)
(***************************************************************************)

\* Items and what they grant, pair by pair.
LEMMA ItemsAre ==
  \A h, i : i \in ItemsOf(h) <=> \E x \in pairs : x[1] = h /\ x[2] = i
BY DEF ItemsOf

LEMMA EffectiveAre ==
  ASSUME NEW P, P \subseteq Pairs
  PROVE  \A i : i \in Effective(P) <=>
                  \E x, y \in P : y[1] = Member /\ y[2] = x[1] /\ x[2] = i
<1>1. ASSUME NEW x \in P
      PROVE  <<Member, x[1]>> \in P <=> \E y \in P : y[1] = Member /\ y[2] = x[1]
  BY DEF Pairs
<1>2. ASSUME NEW i
      PROVE  i \in Effective(P) <=> \E x \in P : <<Member, x[1]>> \in P /\ x[2] = i
  BY DEF Effective
<1> QED
  BY <1>1, <1>2

\* A role has permissions, the member has roles, and nobody else has anything.
LEMMA ItemKinds ==
  ASSUME RolesInv
  PROVE  /\ \A h \in RoleNames : ItemsOf(h) \subseteq Permissions
         /\ ItemsOf(Member) \subseteq roles
         /\ \A h : h \notin roles \cup {Member} => ItemsOf(h) = {}
<1>1. ASSUME NEW x \in pairs
      PROVE  /\ x[1] \in RoleNames => x[2] \in Permissions
             /\ x[1] = Member => x[2] \in roles
             /\ x[1] \in roles \cup {Member}
  BY AccessAssumption DEF RoleNames, RolesInv, Pairs
<1> QED
  BY <1>1, ItemsAre

\* It takes back nothing of what was known of the requests.
LEMMA FrameStays ==
  ASSUME Overlaps, NEW r \in Req, Frame(r)
  PROVE  /\ \A h : Known(h) => Known(h)'
         /\ \A s \in Req : \A h : Settles(s, h) => Settles(s, h)' /\ ask'[s] = ask[s]
         /\ \A h : Clashed(h) => Clashed(h)'
         /\ \A s \in Req : /\ MetOne(s, Updating) => MetOne(s, Updating)'
                           /\ MetOne(s, Assigning) => MetOne(s, Assigning)'
<1>0. NoOp # Updating /\ NoOp # Assigning /\ NoOp # Creating
  BY DEF NoOp, Updating, Assigning, Creating
<1>1. ASSUME NEW s \in Req, pc[s] # "idle"
      PROVE  /\ op'[s] = op[s] /\ ask'[s] = ask[s] /\ pc'[s] # "idle"
             /\ pc[s] # "forbidden" => pc'[s] # "forbidden"
             /\ pc[s] # "insert role" => pc'[s] # "insert role"
  BY Zenon, <1>1 DEF Frame
<1>2. ASSUME NEW s \in Req, op[s] \in {Updating, Assigning, Creating} PROVE pc[s] # "idle"
  BY <1>0, <1>2 DEF Overlaps
<1>3. ASSUME NEW h, Known(h) PROVE Known(h)'
  BY Zenon, <1>1, <1>3 DEF Known, RoleNames
<1>4. ASSUME NEW s \in Req, NEW h, Replaces(s, h)
      PROVE  Replaces(s, h)' /\ op[s] \in {Updating, Assigning}
  BY Zenon, <1>4, <1>1, <1>2 DEF Replaces, Updating, Assigning, Holder
<1>5. ASSUME NEW s \in Req, NEW h, Settles(s, h)
      PROVE  Settles(s, h)' /\ ask'[s] = ask[s]
  <2>1. CASE Replaces(s, h)
    BY Zenon, <1>4, <2>1, <1>1, <1>2 DEF Settles
  <2>2. CASE op[s] = Creating /\ h = s
    BY Zenon, <1>1, <1>2, <2>2 DEF Settles, Creating
  <2> QED
    BY <1>5, <2>1, <2>2 DEF Settles, Creating
<1>6. ASSUME NEW h, Clashed(h) PROVE Clashed(h)'
  <2>1. PICK s, t \in Req : Met(s, t) /\ Replaces(s, h) /\ Replaces(t, h)
    BY <1>6 DEF Clashed
  <2>2. Met(s, t)' /\ Replaces(s, h)' /\ Replaces(t, h)'
    BY Zenon, <1>4, <2>1 DEF Met, Frame
  <2> QED
    BY <2>2 DEF Clashed
<1>7. ASSUME NEW s \in Req, NEW o \in {Updating, Assigning}, MetOne(s, o)
      PROVE  MetOne(s, o)'
  <2>1. PICK t \in Req : Met(s, t) /\ op[t] = o
    BY <1>7 DEF MetOne
  <2>2. Met(s, t)' /\ op'[t] = o
    BY Zenon, <1>1, <1>2, <2>1 DEF Met, Frame
  <2> QED
    BY <2>2 DEF MetOne
<1> QED
  BY <1>3, <1>5, <1>6, <1>7

LEMMA OthersOK ==
  ASSUME Overlaps, AccessInv, NEW r \in Req, Frame(r), LeavesAccess(r), NEW s \in Req \ {r}
  PROVE  RequestOK(s)'
<1>1. /\ pc'[s] = pc[s] /\ op'[s] = op[s] /\ ask'[s] = ask[s]
      /\ doomed'[s] = doomed[s] /\ gone'[s] = gone[s] /\ coming'[s] = coming[s]
      /\ read'[s] = read[s] /\ token'[s] = token[s]
  BY Zenon DEF Frame
<1>2. Holder(s)' = Holder(s) /\ Asked(s)' = Asked(s)
  BY <1>1 DEF Holder, Asked
<1>3. /\ \A h : Known(h) => Known(h)'
      /\ \A h : Clashed(h) => Clashed(h)'
      /\ MetOne(s, Updating) => MetOne(s, Updating)'
      /\ MetOne(s, Assigning) => MetOne(s, Assigning)'
  BY FrameStays
<1>4. RequestOK(s)
  BY DEF AccessInv
<1>5. AskOK(s)'
  BY Zenon, <1>1, <1>2, <1>3, <1>4 DEF RequestOK, AskOK
<1>6. TxnOK(s)'
  BY Zenon, <1>1, <1>2, <1>4 DEF RequestOK, TxnOK, LeavesAccess
<1>7. SweepOK(s)'
  <2>1. CASE Clashed(Holder(s))
    BY <1>2, <1>3, <2>1 DEF SweepOK
  <2>2. CASE Sweeps(s) /\ ~Clashed(Holder(s))'
    BY Zenon, <2>2, <1>1, <1>2 DEF LeavesAccess, Sweeps, Replacing, SweepOK
  <2> QED
    BY <1>2, <1>4, <2>1, <2>2 DEF RequestOK, SweepOK
<1>8. ReadOK(s)'
  BY Zenon, <1>1, <1>4, <1>3 DEF ReadOK, RequestOK, LeavesAccess
<1>9. TokenOK(s)'
  BY Zenon, <1>1, <1>3, <1>4 DEF RequestOK, TokenOK, LeavesAccess
<1> QED
  BY <1>5, <1>6, <1>7, <1>8, <1>9 DEF RequestOK

LEMMA SettlersKnow ==
  ASSUME AccessInv, NEW h \in roles \cup {Member}, NEW s \in Req, Settles(s, h),
         NEW i \in ask[s].items \cup ask[s].first
  PROVE  i \in Permissions \/ Known(i)
BY Zenon DEF AccessInv, RequestOK, Settles, Replaces, Creating, Updating, Assigning, AskOK

LEMMA SetsStay ==
  ASSUME Overlaps, AccessInv, NEW r \in Req, Frame(r), NotesFirst(r),
         \A h \in roles' \cup {Member} : SetStep(r, h)
  PROVE  SetsAreAsAsked'
<1> SUFFICES ASSUME NEW h \in roles' \cup {Member} PROVE SetIsAsAsked(h)'
  BY DEF SetsAreAsAsked
<1> DEFINE There == Permissions \cup roles
           After == Permissions \cup roles'
<1>0. SetIsAsAsked(h)' <=>
        \/ \A s \in Req : ~Settles(s, h)'
        \/ \E s \in Req : /\ Settles(s, h)'
                          /\ \/ ItemsOf(h)' = ask'[s].items \cap After
                             \/ ItemsOf(h)' = ask'[s].first \cap After
        \/ Clashed(h)'
  BY DEF SetIsAsAsked, Clashed
<1>1. CASE /\ h \in roles \cup {Member}
           /\ ItemsOf(h)' = ItemsOf(h) \cap After
           /\ \A i \in roles' : i \in roles \/ ~Known(i)
  <2>1. \/ \A s \in Req : ~Settles(s, h)
        \/ \E s \in Req : /\ Settles(s, h)
                          /\ \/ ItemsOf(h) = ask[s].items \cap There
                             \/ ItemsOf(h) = ask[s].first \cap There
        \/ Clashed(h)
    BY <1>1 DEF AccessInv, SetsAreAsAsked, SetIsAsAsked, Clashed
  <2>2. CASE \A s \in Req : ~Settles(s, h)
    <3>1. SUFFICES ASSUME NEW s \in Req, Settles(s, h)' PROVE ItemsOf(h)' = ask'[s].first \cap After
      BY <1>0, <3>1
    <3>2. s = r
      BY Zenon, <3>1, <2>2 DEF Frame, Settles, Replaces, Holder
    <3>3. pc[r] = "idle"
      BY Zenon, <3>1, <3>2, <2>2 DEF Frame, InFlight, Answered, Settles, Replaces, Holder
    <3> QED
      BY <1>1, <3>1, <3>2, <3>3 DEF NotesFirst
  <2>3. ASSUME NEW s \in Req, Settles(s, h),
               \/ ItemsOf(h) = ask[s].items \cap There
               \/ ItemsOf(h) = ask[s].first \cap There
        PROVE  SetIsAsAsked(h)'
    BY <2>3, FrameStays, <1>1, SettlersKnow, <1>0
  <2>4. CASE Clashed(h)
    BY <1>0, <2>4, FrameStays
  <2> QED
    BY <2>1, <2>2, <2>3, <2>4, <1>0
<1>2. CASE Settles(r, h)' /\ ItemsOf(h)' = ask'[r].items \cap After
  BY <1>0, <1>2
<1>3. CASE Clashed(h)'
  BY <1>0, <1>3
<1> QED
  BY <1>1, <1>2, <1>3 DEF SetStep

LEMMA AccessInvFrom ==
  ASSUME Overlaps, AccessInv, NEW r \in Req, Frame(r), NotesFirst(r), LeavesAccess(r),
         RolesInv', Effective(pairs') \subseteq had',
         \A h \in roles' \cup {Member} : SetStep(r, h), RequestOK(r)'
  PROVE  AccessInv'
BY Zenon, SetsStay, OthersOK DEF Frame, Effective, AccessInv

\* A step that leaves the tables alone.
LEMMA TablesSame ==
  ASSUME Overlaps, AccessInv, NEW r \in Req, Frame(r), NotesFirst(r),
         roles' = roles, pairs' = pairs, had' = had, RequestOK(r)'
  PROVE  AccessInv'
<1>1. RolesInv /\ Effective(pairs) \subseteq had /\ \A s \in Req : RequestOK(s)
  BY DEF AccessInv
<1>2. \A h : ItemsOf(h)' = ItemsOf(h)
  BY DEF ItemsOf
<1>3. RolesInv'
  BY FrameStays, <1>1 DEF RolesInv
<1>4. LeavesAccess(r)
  BY Zenon, <1>1, <1>2 DEF RequestOK, TxnOK, LeavesAccess
<1>5. ASSUME NEW h \in roles' \cup {Member} PROVE SetStep(r, h)
  <2>1. ItemsOf(h) \subseteq Permissions \cup roles
    BY Zenon, <1>1, ItemKinds DEF RolesInv, Known
  <2> QED
    BY <1>2, <2>1 DEF SetStep
<1>6. Effective(pairs') \subseteq had'
  BY <1>1
<1> QED
  BY <1>3, <1>4, <1>5, <1>6, AccessInvFrom

-----------------------------------------------------------------------------
(* The frame of every step.                                                *)

LEMMA StepsAdvance ==
  ASSUME RequestTypes, Overlaps, NEW r \in Req, ComponentStep(r) \/ Forbid(r) \/ Abort(r)
  PROVE  Advances(r)
<1>1. /\ pc'[r] # "idle" /\ met \subseteq met'
      /\ \A s \in Req \ {r} : pc'[s] = pc[s] /\ op'[s] = op[s]
      /\ op'[r] = op[r] \/ pc[r] = "idle"
  BY OverlapsStep
<1>2. pc[r] = "idle" \/ (InFlight(r) /\ pc'[r] # "forbidden")
  <2>1. CASE ComponentStep(r)
    BY <2>1, ComponentMoves, ComponentMeets DEF MovesAmong, AllLabels, InFlight,
       NotForbidden
  <2>2. CASE Forbid(r)
    BY <2>2 DEF Forbid, TurnAway, Idle
  <2>3. CASE Abort(r)
    BY <2>3 DEF Abort, Goto, RequestTypes
  <2> QED
    BY <2>1, <2>2, <2>3
<1> QED
  BY <1>1, <1>2 DEF Advances

\* A step of the other components is elsewhere than at the statements of roles.
LEMMA AwayFromAccess ==
  ASSUME RequestTypes, NEW r \in Req,
         \/ MasterStep(r) \/ TreasuryStep(r) \/ JournalStep(r) \/ PersonnelStep(r)
         \/ EDocumentsStep(r) \/ FilesStep(r) \/ ProjectsStep(r) \/ MembersStep(r)
  PROVE  Elsewhere(r, AccessLabels, AccessOps)
BY StepsApart, PartsAreStatements, LabelsApart, OpsApart DEF Apart

LEMMA RestingFacts ==
  \A at : Resting(at) =>
    at \notin Replacing /\ at \notin {"insert role", "find role", "check roles",
                                      "read permissions", "idle"}
BY Zenon DEF Resting, Replacing, AccessLabels

\* r, under way, takes a step and says nothing new.
LEMMA OwnAsk ==
  ASSUME Overlaps, AccessInv, NEW r \in Req, Frame(r), pc[r] # "idle"
  PROVE  AskOK(r)' /\ NotesFirst(r) /\ Holder(r)' = Holder(r) /\ Asked(r)' = Asked(r)
BY Zenon, FrameStays DEF Frame, InFlight, Answered, AccessInv, RequestOK, AskOK, NotesFirst,
   Holder, Asked

LEMMA OwnToken ==
  ASSUME Overlaps, AccessInv, NEW r \in Req, Frame(r), had \subseteq had',
         token'[r] = token[r]
  PROVE  TokenOK(r)'
<1>1. TokenOK(r)
  BY DEF AccessInv, RequestOK
<1> QED
  BY <1>1, FrameStays DEF TokenOK

\* What the transactions hold when they rest.
LEMMA OwnRest ==
  ASSUME NEW r \in Req, Resting(pc[r])', doomed'[r] = {}, gone'[r] = {}, coming'[r] = {}
  PROVE  TxnOK(r)' /\ SweepOK(r)' /\ ReadOK(r)'
BY Zenon, RestingFacts DEF Resting, TxnOK, SweepOK, Sweeps, ReadOK, Replacing

LEMMA IdleHoldsNothing ==
  ASSUME AccessInv, NEW r \in Req, pc[r] \notin Replacing
  PROVE  doomed[r] = {} /\ gone[r] = {} /\ coming[r] = {}
<1>1. TxnOK(r)
  BY DEF AccessInv, RequestOK
<1> QED
  BY Zenon, <1>1 DEF TxnOK, Replacing

\* The steps of the other components, and those that end a request.
LEMMA ElsewhereKeepsAccess ==
  ASSUME RequestTypes, Overlaps, AccessInv, NEW r \in Req, Advances(r),
         Elsewhere(r, AccessLabels, AccessOps), UNCHANGED accessVars
  PROVE  AccessInv'
<1>1. PICK at \in Labels \ (AccessLabels \cup {"idle"}) : pc' = [pc EXCEPT ![r] = at]
  BY DEF Elsewhere
<1>2. pc'[r] = at /\ Resting(pc'[r]) /\ pc[r] \notin Replacing
  BY Zenon, <1>1 DEF RequestTypes, Resting, Elsewhere, Replacing, AccessLabels
<1>3. /\ ask' = ask /\ doomed' = doomed /\ gone' = gone /\ coming' = coming
      /\ read' = read /\ token' = token /\ roles' = roles /\ pairs' = pairs /\ had' = had
  BY DEF accessVars, accessTables, replaceVars
<1>4. Frame(r)
  BY Zenon, <1>2, RestingFacts, <1>3 DEF Frame, Advances, AccessInv, AccessShapes
<1>5. TxnOK(r)' /\ SweepOK(r)' /\ ReadOK(r)'
  BY <1>2, <1>3, IdleHoldsNothing, OwnRest
<1>6. TokenOK(r)'
  BY <1>3, <1>4, OwnToken
<1>7. AskOK(r)' /\ NotesFirst(r)
  <2>1. CASE pc[r] # "idle"
    BY <1>4, <2>1, OwnAsk
  <2>2. CASE pc[r] = "idle"
    <3>1. op'[r] \notin {Creating, Updating, Assigning}
      BY <2>2 DEF Creating, Updating, Assigning, AccessOps, Overlaps, NoOp,
         RequestTypes, Elsewhere
    <3>2. \A h : ~Settles(r, h)'
      BY <3>1 DEF Settles, Replaces, Creating, Updating, Assigning
    <3>3. pc'[r] \notin {"idle", "insert role"}
      BY Zenon, <1>2, RestingFacts
    <3> QED
      BY Zenon, <3>1, <3>2, <3>3 DEF AskOK, NotesFirst
  <2> QED
    BY <2>1, <2>2
<1>8. RequestOK(r)'
  BY <1>5, <1>6, <1>7 DEF RequestOK
<1> QED
  BY <1>3, <1>4, <1>7, <1>8, TablesSame

LEMMA ForbidKeepsAccess ==
  ASSUME RequestTypes, Overlaps, AccessInv, NEW r \in Req, Advances(r), Forbid(r)
  PROVE  AccessInv'
<1>1. pc[r] = "idle" /\ pc'[r] = "forbidden"
  BY DEF Forbid, TurnAway, Idle, RequestTypes
<1>2. Resting(pc'[r]) /\ pc[r] \notin Replacing
  BY <1>1 DEF Resting, Replacing, AccessLabels
<1>3. /\ ask' = ask /\ doomed' = doomed /\ gone' = gone /\ coming' = coming
      /\ read' = read /\ token' = token /\ roles' = roles /\ pairs' = pairs /\ had' = had
  BY DEF Forbid, accessVars, accessTables, replaceVars
<1>4. Frame(r)
  BY <1>1, <1>3 DEF Frame, Advances, AccessInv, AccessShapes
<1>5. TxnOK(r)' /\ SweepOK(r)' /\ ReadOK(r)'
  BY <1>2, <1>3, IdleHoldsNothing, OwnRest
<1>6. TokenOK(r)'
  BY <1>3, <1>4, OwnToken
<1>7. ask'[r] = NoAsk /\ NoAsk.items = {} /\ NoAsk.first = {}
  <2>1. AskOK(r)
    BY DEF AccessInv, RequestOK
  <2> QED
    BY <1>1, <1>3, <2>1 DEF AskOK, NoAsk
<1>8. AskOK(r)'
  BY <1>1, <1>7 DEF AskOK
<1>9. NotesFirst(r)
  BY Zenon, <1>1, AccessAssumption, ItemKinds, <1>7 DEF NotesFirst, Settles, Replaces,
     AccessInv, RolesInv, Known
<1>10. RequestOK(r)'
  BY <1>5, <1>6, <1>8 DEF RequestOK
<1> QED
  BY <1>3, <1>4, <1>9, <1>10, TablesSame

LEMMA AbortKeepsAccess ==
  ASSUME RequestTypes, Overlaps, AccessInv, NEW r \in Req, Advances(r), Abort(r)
  PROVE  AccessInv'
<1>1. InFlight(r) /\ pc'[r] = "aborted" /\ pc[r] # "idle"
  BY DEF Abort, Goto, RequestTypes, InFlight
<1>2. Resting(pc'[r])
  BY <1>1 DEF Resting, AccessLabels
<1>3. /\ ask' = ask /\ read' = read /\ token' = token
      /\ doomed' = [doomed EXCEPT ![r] = {}] /\ gone' = [gone EXCEPT ![r] = {}]
      /\ coming' = [coming EXCEPT ![r] = {}]
      /\ roles' = roles /\ pairs' = pairs /\ had' = had
  BY DEF Abort, AccessDrop, AccessRelease, accessTables
<1>4. Frame(r)
  BY <1>1, <1>3 DEF Frame, Advances, AccessInv, AccessShapes
<1>5. TxnOK(r)' /\ SweepOK(r)' /\ ReadOK(r)'
  BY <1>3, <1>2, OwnRest DEF AccessInv, AccessShapes
<1>6. TokenOK(r)'
  BY <1>3, <1>4, OwnToken
<1>7. AskOK(r)' /\ NotesFirst(r)
  BY <1>1, <1>4, OwnAsk
<1>8. RequestOK(r)'
  BY <1>5, <1>6, <1>7 DEF RequestOK
<1> QED
  BY <1>3, <1>4, <1>7, <1>8, TablesSame

-----------------------------------------------------------------------------
(* The statements of roles and members.                                    *)

LEMMA ItemsNext ==
  \A h, i : i \in ItemsOf(h)' <=> \E x \in pairs' : x[1] = h /\ x[2] = i
BY DEF ItemsOf

LEMMA InitAccessInv == Init => AccessInv
<1> SUFFICES ASSUME Init PROVE AccessInv
  OBVIOUS
<1>1. /\ roles = {0, 1} /\ pairs = ({0} \X Permissions) \cup {<<Member, 1>>}
      /\ had = Effective(pairs)
  BY DEF Init, AccessInit, System
<1>2. /\ ask = [r \in Req |-> NoAsk] /\ doomed = [r \in Req |-> {}]
      /\ gone = [r \in Req |-> {}] /\ coming = [r \in Req |-> {}]
      /\ read = [r \in Req |-> {}] /\ token = [r \in Req |-> {}]
  BY DEF Init, AccessInit
<1>3. /\ pc = [r \in Req |-> "idle"] /\ op = [r \in Req |-> NoOp]
  BY DEF Init, RequestsInit
<1>4. RolesInv
  <2>1. ASSUME NEW h \in roles PROVE Known(h)
    BY Zenon, <1>1, <2>1, AccessAssumption DEF Known, RoleNames
  <2>2. ASSUME NEW x \in pairs
        PROVE  x \in Pairs /\ x[1] \in roles \cup {Member} /\ (x[1] = Member => x[2] \in roles)
    BY <1>1, AccessAssumption, <2>2 DEF Pairs, RoleNames
  <2> QED
    BY <2>1, <2>2 DEF RolesInv
<1>5. SetsAreAsAsked
  BY <1>3 DEF Settles, Replaces, NoOp, SetsAreAsAsked, SetIsAsAsked
<1>6. AccessShapes
  BY <1>2 DEF AccessShapes
<1>7. ASSUME NEW r \in Req PROVE RequestOK(r)
  BY <1>2, <1>3 DEF NoOp, Creating, Updating, Assigning, RequestOK, AskOK, TxnOK,
     SweepOK, Sweeps, ReadOK, TokenOK, Replacing
<1> QED
  BY <1>1, <1>4, <1>5, <1>6, <1>7 DEF AccessInv

LEMMA FrameOf ==
  ASSUME NEW r \in Req, Advances(r), OthersKeepAccess(r)
  PROVE  Frame(r)
BY Zenon DEF Advances, OthersKeepAccess, Frame

LEMMA AccessFrame ==
  ASSUME RequestTypes, AccessShapes, NEW r \in Req, Advances(r), AccessStart(r) \/ AccessWork(r)
  PROVE  Frame(r)
<1> USE FrameOf DEF AccessShapes, OthersKeepAccess, RequestTypes, accessVars, accessTables,
        replaceVars
<1>1. CASE AccessStart(r)
  BY Zenon, <1>1 DEF AccessStart, Idle, Asking, StartCreateRole, StartUpdateRole,
     StartRemoveRole, StartAssign, StartSetStatus, StartSignIn
<1>2. CASE InsertRole(r)
  BY Zenon, <1>2 DEF InsertRole, Answer, Goto
<1>3. CASE FindRole(r)
  BY Zenon, <1>3 DEF FindRole, Answer, Goto
<1>4. CASE CheckRoles(r)
  BY Zenon, <1>4 DEF CheckRoles, Answer, Goto
<1>5. CASE FindPairs(r)
  BY Zenon, <1>5 DEF FindPairs, Goto
<1>6. CASE DeletePair(r)
  BY Zenon, <1>6 DEF DeletePair, requestVars
<1>7. CASE PairsDeleted(r)
  BY Zenon, <1>7 DEF PairsDeleted, Goto
<1>8. CASE InsertPairs(r)
  BY Zenon, <1>8 DEF InsertPairs, Answer, Goto, AccessRelease
<1>9. CASE CommitPairs(r)
  BY Zenon, <1>9 DEF CommitPairs, Answer, Goto, AccessRelease
<1>10. CASE DeleteRole(r)
  BY Zenon, <1>10 DEF DeleteRole, Answer, Goto
<1>11. CASE SetStatus(r)
  BY Zenon, <1>11 DEF SetStatus, Answer, Goto
<1>12. CASE FindMember(r)
  BY Zenon, <1>12 DEF FindMember, Answer, Goto
<1>13. CASE ReadRoles(r)
  BY Zenon, <1>13 DEF ReadRoles, Goto
<1>14. CASE ReadPermissions(r)
  BY Zenon, <1>14 DEF ReadPermissions, Answer, Goto
<1> QED
  BY Zenon, <1>1, <1>2, <1>3, <1>4, <1>5, <1>6, <1>7, <1>8, <1>9, <1>10, <1>11, <1>12, <1>13, <1>14
     DEF AccessWork

LEMMA OwnQuiet ==
  ASSUME NEW r \in Req, Quiet(pc[r])', doomed'[r] = {}, gone'[r] = {}, coming'[r] = {}
  PROVE  TxnOK(r)' /\ SweepOK(r)' /\ ReadOK(r)'
BY Zenon DEF Quiet, TxnOK, SweepOK, Sweeps, ReadOK, Replacing

\* What r has of its own when it answers, or starts, or stays out of a transaction.
LEMMA QuietOK ==
  ASSUME Overlaps, AccessInv, NEW r \in Req, Frame(r), pc[r] # "idle", Quiet(pc[r])',
         had \subseteq had', token'[r] = token[r],
         doomed'[r] = {}, gone'[r] = {}, coming'[r] = {}
  PROVE  RequestOK(r)' /\ NotesFirst(r)
BY OwnQuiet, OwnAsk, OwnToken DEF RequestOK

\* The requests that come.
LEMMA AccessStartKeeps ==
  ASSUME RequestTypes, Overlaps, AccessInv, NEW r \in Req, Advances(r), AccessStart(r)
  PROVE  AccessInv'
<1>1. pc[r] = "idle"
  BY DEF AccessStart, Idle
<1>2. Frame(r)
  BY AccessFrame DEF AccessInv
<1>3. /\ roles' = roles /\ pairs' = pairs /\ had' = had /\ doomed' = doomed /\ gone' = gone
      /\ coming' = coming /\ read' = read /\ token' = token
  BY Zenon DEF AccessStart, StartCreateRole, StartUpdateRole, StartRemoveRole, StartAssign,
     StartSetStatus, StartSignIn, Asking, accessVars, accessTables, replaceVars
<1>4. doomed'[r] = {} /\ gone'[r] = {} /\ coming'[r] = {}
  BY Zenon, <1>1, <1>3, IdleHoldsNothing DEF Replacing
<1>5. TokenOK(r)'
  BY <1>2, <1>3, OwnToken
<1>6. /\ \A h \in RoleNames : ItemsOf(h) \subseteq Permissions
      /\ ItemsOf(Member) \subseteq roles
  BY ItemKinds DEF AccessInv
<1>7. \A h \in roles : Known(h)'
  BY <1>2, FrameStays DEF AccessInv, RolesInv
<1>8. ASSUME NEW o, NEW at, Begin(r, o, at) PROVE pc'[r] = at /\ op'[r] = o
  BY <1>8 DEF Begin, RequestTypes
<1>9. ASSUME NEW h, NEW items, Asking(r, h, items)
      PROVE  /\ ask'[r].holder = h /\ ask'[r].items = items /\ ask'[r].first = ItemsOf(h)
  BY <1>9 DEF Asking, AccessInv, AccessShapes
<1>0. /\ Creating \notin {Updating, Assigning, Discarding}
      /\ Updating \notin {Assigning, Discarding} /\ Assigning # Discarding
  BY DEF Creating, Updating, Assigning, Discarding
<1>17. ASSUME NEW h, Settles(r, h)'
       PROVE  \/ op'[r] \in {Updating, Assigning} /\ ask'[r].holder = h
              \/ op'[r] = Creating /\ h = r
  BY <1>0, <1>17 DEF Settles, Replaces, Holder, Creating, Updating, Assigning
<1>10. ASSUME AskOK(r)', NotesFirst(r), TxnOK(r)', SweepOK(r)', ReadOK(r)' PROVE AccessInv'
  <2>1. RequestOK(r)'
    BY <1>5, <1>10 DEF RequestOK
  <2> QED
    BY <1>2, <1>3, <1>10, <2>1, TablesSame
<1>11. CASE StartCreateRole(r)
  <2>1. PICK P \in SUBSET Permissions :
          Begin(r, <<"create", "role">>, "insert role") /\ Asking(r, r, P)
    BY Zenon, <1>11 DEF StartCreateRole
  <2>2. pc'[r] = "insert role" /\ op'[r] = Creating
    BY Zenon, <1>8, <2>1 DEF Creating
  <2>3. ask'[r].holder = r /\ ask'[r].items = P /\ ask'[r].first = ItemsOf(r)
    BY Zenon, <1>9, <2>1
  <2>4. ItemsOf(r) \subseteq Permissions
    BY <1>6 DEF RoleNames
  <2>5. AskOK(r)'
    BY Zenon, <1>0, <2>2, <2>3, <2>4 DEF AskOK, Holder, Known
  <2>6. NotesFirst(r)
    BY Zenon, <1>0, <2>2, <2>3, <1>17 DEF NotesFirst
  <2>7. TxnOK(r)' /\ SweepOK(r)' /\ ReadOK(r)'
    BY Zenon, <1>4, <2>2 DEF TxnOK, SweepOK, Sweeps, ReadOK, Replacing
  <2> QED
    BY <1>10, <2>5, <2>6, <2>7
<1>12. CASE StartUpdateRole(r)
  <2>1. PICK h \in roles, P \in SUBSET Permissions :
          Begin(r, <<"update", "role">>, "find role") /\ Asking(r, h, P)
    BY Zenon, <1>12 DEF StartUpdateRole
  <2>2. pc'[r] = "find role" /\ op'[r] = Updating
    BY Zenon, <1>8, <2>1 DEF Updating
  <2>3. ask'[r].holder = h /\ ask'[r].items = P /\ ask'[r].first = ItemsOf(h)
    BY Zenon, <1>9, <2>1
  <2>4. Known(h)' /\ ItemsOf(h) \subseteq Permissions
    BY Zenon, <1>6, <1>7 DEF Known
  <2>5. AskOK(r)'
    BY Zenon, <1>0, <2>2, <2>3, <2>4 DEF AskOK, Holder, Known
  <2>6. NotesFirst(r)
    BY Zenon, <1>0, <2>2, <2>3, <1>17 DEF NotesFirst
  <2>7. TxnOK(r)' /\ SweepOK(r)' /\ ReadOK(r)'
    BY Zenon, <1>4, <2>2 DEF TxnOK, SweepOK, Sweeps, ReadOK, Replacing
  <2> QED
    BY <1>10, <2>5, <2>6, <2>7
<1>13. CASE StartRemoveRole(r)
  <2>1. PICK h \in roles :
          Begin(r, <<"remove", "role">>, "find role") /\ Asking(r, h, {})
    BY Zenon, <1>13 DEF StartRemoveRole
  <2>2. pc'[r] = "find role" /\ op'[r] = Discarding
    BY Zenon, <1>8, <2>1 DEF Discarding
  <2>3. AskOK(r)'
    BY Zenon, <1>0, <2>2 DEF AskOK
  <2>4. NotesFirst(r)
    BY Zenon, <1>0, <1>17, <2>2 DEF NotesFirst
  <2>5. TxnOK(r)' /\ SweepOK(r)' /\ ReadOK(r)'
    BY Zenon, <1>4, <2>2 DEF TxnOK, SweepOK, Sweeps, ReadOK, Replacing
  <2> QED
    BY <1>10, <2>3, <2>4, <2>5
<1>14. CASE StartAssign(r)
  <2>1. PICK R \in SUBSET roles :
          Begin(r, <<"assign", "member">>, "check roles") /\ Asking(r, Member, R)
    BY Zenon, <1>14 DEF StartAssign
  <2>2. pc'[r] = "check roles" /\ op'[r] = Assigning
    BY Zenon, <1>8, <2>1 DEF Assigning
  <2>3. ask'[r].holder = Member /\ ask'[r].items = R /\ ask'[r].first = ItemsOf(Member)
    BY Zenon, <1>9, <2>1
  <2>4. \A h \in R \cup ItemsOf(Member) : Known(h)'
    BY <1>6, <1>7
  <2>5. AskOK(r)'
    BY Zenon, <1>0, <2>2, <2>3, <2>4 DEF AskOK, Holder, Known
  <2>6. NotesFirst(r)
    BY Zenon, <1>0, <2>2, <2>3, <1>17 DEF NotesFirst
  <2>7. TxnOK(r)' /\ SweepOK(r)' /\ ReadOK(r)'
    BY Zenon, <1>4, <2>2 DEF TxnOK, SweepOK, Sweeps, ReadOK, Replacing
  <2> QED
    BY <1>10, <2>5, <2>6, <2>7
<1>15. CASE StartSetStatus(r) \/ StartSignIn(r)
  <2>1. PICK o \in ({"suspend", "activate"} \X {"member"})
                     \cup ({"login", "refresh", "switch"} \X {"session"}),
             at \in {"set status", "find member"} : Begin(r, o, at)
    BY Zenon, <1>15 DEF StartSetStatus, StartSignIn
  <2>2. pc'[r] \in {"set status", "find member"} /\ op'[r] \notin {Creating, Updating, Assigning}
    <3>1. o[1] \in {"suspend", "activate", "login", "refresh", "switch"}
      BY Zenon, <2>1
    <3>2. /\ Creating[1] = "create" /\ Updating[1] = "update" /\ Assigning[1] = "assign"
      BY Zenon DEF Creating, Updating, Assigning
    <3>3. o \notin {Creating, Updating, Assigning}
      BY Zenon, <3>1, <3>2
    <3> QED
      BY Zenon, <1>8, <2>1, <3>3
  <2>3. AskOK(r)'
    BY Zenon, <2>2 DEF AskOK
  <2>4. NotesFirst(r)
    BY Zenon, <1>0, <1>17, <2>2 DEF NotesFirst
  <2>5. TxnOK(r)' /\ SweepOK(r)' /\ ReadOK(r)'
    BY Zenon, <1>4, <2>2 DEF TxnOK, SweepOK, Sweeps, ReadOK, Replacing
  <2> QED
    BY Zenon, <1>10, <2>3, <2>4, <2>5
<1> QED
  BY <1>11, <1>12, <1>13, <1>14, <1>15 DEF AccessStart

\* The statements that leave the tables alone.
LEMMA AccessReadKeeps ==
  ASSUME RequestTypes, Overlaps, AccessInv, NEW r \in Req, Advances(r), Frame(r),
         \/ FindRole(r) \/ CheckRoles(r) \/ FindPairs(r) \/ DeletePair(r) \/ PairsDeleted(r)
         \/ InsertPairs(r) \/ SetStatus(r) \/ FindMember(r) \/ ReadRoles(r)
         \/ ReadPermissions(r)
  PROVE  AccessInv'
<1>1. pc[r] \in AccessLabels /\ pc[r] # "idle"
  BY Zenon DEF FindRole, CheckRoles, FindPairs, DeletePair, PairsDeleted, InsertPairs, SetStatus,
     FindMember, ReadRoles, ReadPermissions, AccessLabels
<1>2. /\ roles' = roles /\ pairs' = pairs /\ had' = had /\ ask' = ask
  BY Zenon DEF FindRole, CheckRoles, FindPairs, DeletePair, PairsDeleted, InsertPairs, SetStatus,
     FindMember, ReadRoles, ReadPermissions, AccessRelease, accessVars, accessTables
<1>3. AskOK(r)' /\ NotesFirst(r) /\ Holder(r)' = Holder(r) /\ Asked(r)' = Asked(r)
  BY <1>1, OwnAsk
<1>4. ASSUME RequestOK(r)' PROVE AccessInv'
  BY <1>2, <1>3, <1>4, TablesSame
<1>5. ASSUME Quiet(pc[r])', token'[r] = token[r],
             doomed'[r] = {}, gone'[r] = {}, coming'[r] = {}
      PROVE  AccessInv'
  BY <1>1, <1>2, <1>4, <1>5, QuietOK
<1>6. ASSUME token' = token, TxnOK(r)', SweepOK(r)', ReadOK(r)' PROVE AccessInv'
  <2>1. TokenOK(r)'
    BY <1>2, <1>6, OwnToken
  <2> QED
    BY <1>3, <1>4, <1>6, <2>1 DEF RequestOK
<1>7. TxnOK(r) /\ SweepOK(r) /\ ReadOK(r) /\ TokenOK(r)
  BY DEF AccessInv, RequestOK
<1>8. op'[r] = op[r]
  BY Zenon, <1>1 DEF Frame
<1>9. Clashed(Holder(r)) => Clashed(Holder(r))'
  BY <1>3, FrameStays
<1>10. pc \in [Req -> Labels] /\ AccessShapes
  BY DEF RequestTypes, AccessInv
<1>11. ASSUME NEW at, Goto(r, at) PROVE pc'[r] = at
  BY <1>10, <1>11 DEF Goto
<1>12. ASSUME NEW fine, Answer(r, fine) PROVE pc'[r] \in {"ok", "refused"}
  BY <1>11, <1>12 DEF Answer
<1>13. ASSUME pc'[r] \in {"ok", "refused"} PROVE Quiet(pc[r])'
  BY Zenon, <1>13 DEF Quiet, Replacing
<1>14. ASSUME pc[r] \notin Replacing
       PROVE  doomed[r] = {} /\ gone[r] = {} /\ coming[r] = {}
  BY <1>14, IdleHoldsNothing
<1>15. CASE FindRole(r)
  <2>1. pc[r] = "find role" /\ UNCHANGED accessVars
    BY Zenon, <1>15 DEF FindRole
  <2>2. /\ doomed'[r] = {} /\ gone'[r] = {} /\ coming'[r] = {}
        /\ token' = token /\ read' = read
    BY Zenon, <1>14, <2>1 DEF Replacing, accessVars, accessTables, replaceVars
  <2>3. CASE pc'[r] = "find pairs" /\ Does(r, "update")
    <3>1. op[r] = Updating
      <4>1. op[r] \in {Updating, Discarding} /\ op[r][1] = "update"
        BY Zenon, <1>7, <2>1, <2>3 DEF TxnOK, Does
      <4>2. Discarding[1] = "remove"
        BY DEF Discarding
      <4> QED
        BY <4>1, <4>2
    <3>2. TxnOK(r)' /\ SweepOK(r)' /\ ReadOK(r)'
      BY Zenon, <1>8, <2>2, <2>3, <3>1 DEF TxnOK, SweepOK, Sweeps, ReadOK, Replacing
    <3> QED
      BY <1>6, <2>2, <3>2
  <2>4. CASE pc'[r] \in {"delete role", "ok", "refused"}
    <3>1. Quiet(pc[r])'
      BY Zenon, <2>4 DEF Quiet, Replacing
    <3> QED
      BY <1>5, <2>2, <3>1
  <2> QED
    BY Zenon, <1>11, <1>12, <1>15, <2>3, <2>4 DEF FindRole
<1>16. CASE CheckRoles(r)
  <2>1. pc[r] = "check roles" /\ UNCHANGED accessVars
    BY Zenon, <1>16 DEF CheckRoles
  <2>2. /\ doomed'[r] = {} /\ gone'[r] = {} /\ coming'[r] = {}
        /\ token' = token /\ read' = read
    BY Zenon, <1>14, <2>1 DEF Replacing, accessVars, accessTables, replaceVars
  <2>3. CASE pc'[r] = "find pairs"
    BY Zenon, <1>7, <2>1, <1>8, <2>2, <2>3, <1>6 DEF TxnOK, SweepOK, Sweeps, ReadOK, Replacing
  <2>4. CASE pc'[r] \in {"ok", "refused"}
    BY <1>5, <1>13, <2>2, <2>4
  <2> QED
    BY Zenon, <1>11, <1>12, <1>16, <2>3, <2>4 DEF CheckRoles
<1>17. CASE FindPairs(r)
  BY Zenon, <1>10, <1>11, <1>17, <1>3, <1>7, <1>8, <1>2, <1>6 DEF FindPairs, AccessShapes,
     TxnOK, Replacing, SweepOK, Sweeps, ReadOK
<1>18. CASE DeletePair(r)
  <2>1. PICK x \in doomed[r] : /\ doomed'[r] = doomed[r] \ {x}
                               /\ gone'[r] = gone[r] \cup ({x} \cap pairs)
    BY Zenon, <1>10, <1>18 DEF DeletePair, AccessShapes
  <2>2. /\ pc[r] = "delete pairs" /\ pc'[r] = "delete pairs" /\ coming' = coming
        /\ token' = token
    BY Zenon, <1>18 DEF DeletePair, requestVars
  <2>3. TxnOK(r)'
    BY Zenon, <1>3, <1>7, <1>8, <2>1, <2>2 DEF TxnOK, Replacing
  <2>4. SweepOK(r)'
    BY Zenon, <1>2, <1>3, <1>7, <1>9, <2>1, <2>2 DEF SweepOK, Sweeps
  <2>5. ReadOK(r)'
    BY Zenon, <2>2 DEF ReadOK
  <2> QED
    BY Zenon, <1>6, <2>2, <2>3, <2>4, <2>5
<1>19. CASE PairsDeleted(r)
  BY Zenon, <1>11, <1>19, <1>3, <1>7, <1>8, <1>2, <1>9, <1>6 DEF PairsDeleted, accessVars,
     replaceVars, TxnOK, Replacing, SweepOK, Sweeps, ReadOK
<1>20. CASE InsertPairs(r)
  <2>1. pc[r] = "insert pairs" /\ token' = token
    BY Zenon, <1>20 DEF InsertPairs, AccessRelease
  <2>2. CASE /\ \A x \in Asked(r) : Refers(x) \subseteq roles
             /\ coming' = [coming EXCEPT ![r] = Asked(r)] /\ Goto(r, "commit")
             /\ doomed' = doomed /\ gone' = gone
    <3>1. pc'[r] = "commit" /\ coming'[r] = Asked(r)
      BY <1>10, <1>11, <2>2 DEF AccessShapes
    <3>2. TxnOK(r)'
      BY Zenon, <1>2, <1>3, <1>7, <1>8, <2>1, <2>2, <3>1 DEF TxnOK, Replacing
    <3>3. SweepOK(r)'
      BY Zenon, <1>2, <1>3, <1>7, <1>9, <2>1, <2>2, <3>1 DEF SweepOK, Sweeps
    <3>4. ReadOK(r)'
      BY Zenon, <3>1 DEF ReadOK
    <3> QED
      BY Zenon, <1>6, <2>1, <3>2, <3>3, <3>4
  <2>3. CASE Answer(r, FALSE) /\ AccessRelease(r)
    BY Zenon, <1>10, <2>3, <1>5, <1>12, <1>13, <2>1 DEF AccessRelease, AccessShapes
  <2> QED
    BY Zenon, <1>20, <2>2, <2>3 DEF InsertPairs
<1>21. CASE SetStatus(r) \/ FindMember(r)
  <2>1. pc[r] \notin Replacing /\ Quiet(pc[r])'
    BY Zenon, <1>11, <1>12, <1>21 DEF SetStatus, FindMember, Replacing, Quiet
  <2>2. doomed' = doomed /\ gone' = gone /\ coming' = coming /\ token' = token
    BY Zenon, <1>21 DEF SetStatus, FindMember, accessVars, replaceVars
  <2> QED
    BY <1>5, <1>14, <2>1, <2>2
<1>22. \A h : Known(h) => Known(h)'
  BY FrameStays
<1>23. /\ RolesInv /\ pairs \subseteq Pairs /\ Effective(pairs) \subseteq had
       /\ \A h, i : i \in ItemsOf(h) <=> \E x \in pairs : x[1] = h /\ x[2] = i
       /\ \A h : ItemsOf(h)' = ItemsOf(h)
       /\ \A h : h \notin roles \cup {Member} => ItemsOf(h) = {}
       /\ \A h \in ItemsOf(Member) : h \in roles /\ Known(h)
  BY <1>2, ItemsAre, ItemKinds DEF AccessInv, RolesInv, ItemsOf
<1>24. ASSUME NEW h \in ItemsOf(Member) PROVE ItemsOf(h) \subseteq had
  <2>1. ASSUME NEW i \in ItemsOf(h) PROVE i \in Effective(pairs)
    <3>1. PICK x \in pairs : x[1] = h /\ x[2] = i
      BY <1>23, <2>1
    <3>2. PICK y \in pairs : y[1] = Member /\ y[2] = h
      BY <1>23, <1>24
    <3> QED
      BY <1>23, <3>1, <3>2, EffectiveAre
  <2> QED
    BY <1>23, <2>1
<1>25. CASE ReadRoles(r)
  <2>1. /\ pc[r] = "read roles" /\ pc'[r] = "read permissions" /\ read'[r] = ItemsOf(Member)
        /\ doomed' = doomed /\ gone' = gone /\ coming' = coming /\ token' = token
    BY Zenon, <1>10, <1>11, <1>25 DEF ReadRoles, AccessShapes, replaceVars
  <2>2. doomed'[r] = {} /\ gone'[r] = {} /\ coming'[r] = {}
    BY Zenon, <1>14, <2>1 DEF Replacing
  <2>3. TxnOK(r)' /\ SweepOK(r)'
    BY Zenon, <2>1, <2>2 DEF TxnOK, SweepOK, Sweeps, Replacing
  <2>4. ReadOK(r)'
    <3> SUFFICES ASSUME NEW h \in ItemsOf(Member)
                 PROVE  Known(h)' /\ h \in ItemsOf(Member)' /\ ItemsOf(h)' \subseteq had'
      BY Zenon, <2>1 DEF ReadOK
    <3> QED
      BY <1>2, <1>22, <1>23, <1>24
  <2> QED
    BY Zenon, <1>6, <2>1, <2>3, <2>4
<1>26. CASE ReadPermissions(r)
  <2>1. /\ pc[r] = "read permissions" /\ Quiet(pc[r])'
        /\ token'[r] = UNION {ItemsOf(h) : h \in read[r]}
        /\ doomed' = doomed /\ gone' = gone /\ coming' = coming
    BY Zenon, <1>10, <1>12, <1>13, <1>26 DEF ReadPermissions, AccessShapes, replaceVars
  <2>2. doomed'[r] = {} /\ gone'[r] = {} /\ coming'[r] = {}
    BY Zenon, <1>14, <2>1 DEF Replacing
  <2>3. TxnOK(r)' /\ SweepOK(r)' /\ ReadOK(r)'
    BY Zenon, <2>1, <2>2, OwnQuiet
  <2>4. TokenOK(r)'
    <3>1. CASE \A h \in read[r] : ItemsOf(h) \subseteq had
      BY Zenon, <1>2, <2>1, <3>1 DEF TokenOK
    <3>2. ASSUME NEW h \in read[r], ~(ItemsOf(h) \subseteq had) PROVE TokenOK(r)'
      <4>1. MetOne(r, Updating) /\ (h \in ItemsOf(Member) \/ h \notin roles \/ MetOne(r, Assigning))
        BY Zenon, <1>7, <2>1, <3>2 DEF ReadOK
      <4>2. h \notin ItemsOf(Member)
        BY <1>24, <3>2
      <4>3. h \in roles
        <5>1. Known(h)
          BY Zenon, <1>7, <2>1 DEF ReadOK
        <5>2. h # Member
          BY Zenon, <5>1, AccessAssumption DEF Known, RoleNames
        <5> QED
          BY <1>23, <3>2, <5>2
      <4> QED
        BY <4>1, <4>2, <4>3, FrameStays DEF TokenOK
    <3> QED
      BY <3>1, <3>2
  <2> QED
    BY <1>3, <1>4, <2>3, <2>4 DEF RequestOK
<1> QED
  BY <1>15, <1>16, <1>17, <1>18, <1>19, <1>20, <1>21, <1>25, <1>26

LEMMA ItemsStay ==
  ASSUME NEW h, \A x : x[1] = h => (x \in pairs' <=> x \in pairs)
  PROVE  ItemsOf(h)' = ItemsOf(h)
BY DEF ItemsOf

\* A role is inserted, with what it is to grant.
LEMMA InsertRoleKeeps ==
  ASSUME RequestTypes, Overlaps, AccessInv, NEW r \in Req, Advances(r), Frame(r), InsertRole(r)
  PROVE  AccessInv'
<1>1. /\ pc[r] = "insert role" /\ roles' = roles \cup {r} /\ pairs' = pairs \cup Asked(r)
      /\ had' = had /\ token' = token /\ doomed' = doomed /\ gone' = gone /\ coming' = coming
      /\ pc'[r] = "ok"
  BY Zenon DEF InsertRole, replaceVars, Answer, Goto, RequestTypes
<1>2. /\ op[r] = Creating /\ Holder(r) = r /\ ask[r].items \subseteq Permissions
      /\ op'[r] = op[r] /\ ask'[r] = ask[r]
  BY Zenon, <1>1 DEF AccessInv, RequestOK, AskOK, TxnOK, Frame
<1>3. RolesInv /\ Effective(pairs) \subseteq had
  BY DEF AccessInv
<1>4. ~Known(r) /\ r \notin roles /\ r \in RoleNames /\ r # Member
  BY Zenon, <1>1, <1>3, AccessAssumption DEF Known, RolesInv, RoleNames
<1>5. \A x \in Asked(r) : x[1] = r /\ x[2] \in Permissions /\ x \in Pairs
  BY <1>2, <1>4 DEF Asked, Pairs
<1>6. \A i \in ask[r].items : <<r, i>> \in Asked(r)
  BY <1>2 DEF Asked
<1>7. ItemsOf(r) = {} /\ \A h \in roles \cup {Member} : ItemsOf(h) \subseteq Permissions \cup roles
  BY Zenon, <1>3, ItemKinds, <1>4 DEF RolesInv, Known
<1>8. ASSUME NEW h, h # r PROVE ItemsOf(h)' = ItemsOf(h)
  BY Zenon, <1>1, <1>5, <1>8, ItemsStay
<1>9. ItemsOf(r)' = ask[r].items
  <2>1. ASSUME NEW i \in ask[r].items PROVE i \in ItemsOf(r)'
    <3>1. <<r, i>> \in pairs'
      BY Zenon, <1>1, <1>6, <2>1
    <3> QED
      BY <3>1, ItemsNext
  <2>2. ASSUME NEW i \in ItemsOf(r)' PROVE i \in ask[r].items
    <3>1. PICK x \in pairs' : x[1] = r /\ x[2] = i
      BY <2>2, ItemsNext
    <3>2. x \in Asked(r)
      BY Zenon, <1>1, <1>7, <3>1, ItemsAre
    <3> QED
      BY <3>1, <3>2 DEF Asked
  <2> QED
    BY <2>1, <2>2
<1>10. RolesInv'
  BY Zenon, FrameStays, <1>1, <1>4, <1>3, <1>5 DEF Known, RolesInv
<1>11. Effective(pairs') \subseteq had'
  <2> SUFFICES ASSUME NEW i \in Effective(pairs') PROVE i \in Effective(pairs)
    BY Zenon, <1>1, <1>3
  <2>1. PICK x, y \in pairs' : y[1] = Member /\ y[2] = x[1] /\ x[2] = i
    BY <1>10, EffectiveAre DEF RolesInv
  <2>2. y \in pairs
    BY Zenon, <1>1, <1>4, <1>5, <2>1
  <2>3. x[1] # r
    BY <1>3, <1>4, <2>1, <2>2 DEF RolesInv
  <2>4. x \in pairs
    BY Zenon, <1>1, <1>5, <2>1, <2>3
  <2> QED
    BY <1>3, <2>1, <2>2, <2>4, EffectiveAre DEF RolesInv
<1>12. LeavesAccess(r)
  <2>1. ASSUME NEW s \in Req \ {r}, pc[s] = "commit"
        PROVE  \A x \in Asked(s) : Refers(x) \subseteq roles'
    BY Zenon, <1>1, <2>1 DEF AccessInv, RequestOK, TxnOK
  <2>2. ASSUME NEW s \in Req \ {r}, pc[s] \in Replacing
        PROVE  \A x \in pairs' : x[1] = Holder(s) => x \in pairs
    <3>1. op[s] \in {Updating, Assigning} /\ pc[s] # "forbidden"
      BY Zenon, <2>2 DEF AccessInv, RequestOK, TxnOK, Replacing
    <3>2. Known(Holder(s)) \/ Holder(s) = Member
      BY Zenon, <3>1 DEF AccessInv, RequestOK, AskOK
    <3> QED
      BY Zenon, <1>1, <1>4, <1>5, <3>2
  <2>3. \A h : Known(h) => h # r
    BY <1>4
  <2> QED
    BY Zenon, <1>1, <1>4, <1>8, <2>1, <2>2, <2>3 DEF LeavesAccess
<1>13. ASSUME NEW h \in roles' \cup {Member} PROVE SetStep(r, h)
  <2>1. CASE h = r
    BY <1>2, <1>9, <2>1 DEF Settles, Creating, SetStep
  <2>2. CASE h # r
    <3>1. h \in roles \cup {Member} /\ ItemsOf(h)' = ItemsOf(h)
      BY Zenon, <1>1, <1>8, <2>2
    <3> QED
      BY Zenon, <1>1, <1>4, <1>7, <3>1 DEF SetStep
  <2> QED
    BY <2>1, <2>2
<1>14. RequestOK(r)' /\ NotesFirst(r)
  BY Zenon, <1>1, IdleHoldsNothing, QuietOK DEF Replacing, Quiet
<1> QED
  BY <1>10, <1>11, <1>12, <1>13, <1>14, AccessInvFrom

\* A role goes, and its pairs with it.
LEMMA DeleteRoleKeeps ==
  ASSUME RequestTypes, Overlaps, AccessInv, NEW r \in Req, Advances(r), Frame(r), DeleteRole(r)
  PROVE  AccessInv'
<1> DEFINE g == Holder(r)
<1>1. /\ pc[r] = "delete role" /\ roles' = roles \ {g}
      /\ pairs' = {x \in pairs : g \notin Refers(x)}
      /\ had' = had /\ token' = token /\ doomed' = doomed /\ gone' = gone /\ coming' = coming
      /\ pc'[r] \in {"ok", "refused"}
  BY Zenon DEF DeleteRole, replaceVars, Answer, Goto, RequestTypes
<1>2. \A s \in Req \ {r} : \A x \in coming[s] : g \notin Refers(x)
  BY Zenon DEF DeleteRole
<1> HIDE DEF g
<1>3. RolesInv /\ Effective(pairs) \subseteq had
  BY DEF AccessInv
<1>4. /\ \A h \in roles : h \in RoleNames
      /\ Member \notin RoleNames /\ \A p \in Permissions : p \notin RoleNames
  BY Zenon, <1>3, AccessAssumption DEF RolesInv, Known, RoleNames
<1>5. \A h \in roles \cup {Member} : ItemsOf(h) \subseteq Permissions \cup roles
  BY <1>3, <1>4, ItemKinds
<1>6. ASSUME NEW x \in pairs, x[1] \in roles' \cup {Member}, x[2] \in Permissions \cup roles'
      PROVE  x \in pairs'
  BY Zenon, <1>1, <1>4, <1>6 DEF Refers
<1>7. ASSUME NEW x \in pairs'
      PROVE  /\ x \in pairs /\ x[1] \in roles' \cup {Member}
             /\ x[2] \in roles => x[2] \in roles'
  BY Zenon, <1>1, <1>3, <1>4 DEF RolesInv, Refers
<1>8. ASSUME NEW h PROVE ItemsOf(h)' \subseteq ItemsOf(h)
  BY <1>7, ItemsAre, ItemsNext
<1>9. ASSUME NEW h \in roles' \cup {Member}
      PROVE  ItemsOf(h)' = ItemsOf(h) \cap (Permissions \cup roles')
  <2>1. ASSUME NEW i \in ItemsOf(h), i \in Permissions \cup roles' PROVE i \in ItemsOf(h)'
    <3>1. PICK x \in pairs : x[1] = h /\ x[2] = i
      BY <2>1, ItemsAre
    <3>2. x \in pairs'
      BY <1>6, <1>9, <2>1, <3>1
    <3> QED
      BY <3>1, <3>2, ItemsNext
  <2>2. ASSUME NEW i \in ItemsOf(h)' PROVE i \in ItemsOf(h) /\ i \in Permissions \cup roles'
    <3>1. PICK x \in pairs' : x[1] = h /\ x[2] = i
      BY <2>2, ItemsNext
    <3>2. i \in ItemsOf(h)
      BY <1>7, <3>1, ItemsAre
    <3>3. i \in Permissions \cup roles
      BY Zenon, <1>1, <1>5, <1>9, <3>2
    <3> QED
      BY <1>7, <3>1, <3>2, <3>3
  <2> QED
    BY <2>1, <2>2
<1>10. RolesInv'
  BY Zenon, FrameStays, <1>1, <1>3, <1>7 DEF RolesInv
<1>11. Effective(pairs') \subseteq had'
  <2> SUFFICES ASSUME NEW i \in Effective(pairs') PROVE i \in Effective(pairs)
    BY Zenon, <1>1, <1>3
  <2>1. PICK x, y \in pairs' : y[1] = Member /\ y[2] = x[1] /\ x[2] = i
    BY <1>10, EffectiveAre DEF RolesInv
  <2> QED
    BY <1>3, <1>7, <2>1, EffectiveAre DEF RolesInv
<1>12. LeavesAccess(r)
  <2>1. ASSUME NEW s \in Req \ {r}, pc[s] = "commit", NEW x \in Asked(s)
        PROVE  Refers(x) \subseteq roles'
    BY Zenon, <2>1, <1>1, <1>2 DEF AccessInv, RequestOK, TxnOK
  <2>2. ASSUME NEW h \in ItemsOf(Member) PROVE h \in ItemsOf(Member)' \/ h \notin roles'
    BY <1>9
  <2>3. \A h \in roles' : h \in roles
    BY Zenon, <1>1
  <2> QED
    BY Zenon, <1>1, <1>7, <1>8, <2>1, <2>2, <2>3 DEF LeavesAccess
<1>13. ASSUME NEW h \in roles' \cup {Member} PROVE SetStep(r, h)
  BY Zenon, <1>1, <1>9 DEF SetStep
<1>14. RequestOK(r)' /\ NotesFirst(r)
  BY Zenon, <1>1, IdleHoldsNothing, QuietOK DEF Replacing, Quiet
<1> QED
  BY <1>10, <1>11, <1>12, <1>13, <1>14, AccessInvFrom

\* A transaction commits: the set is what was asked for, unless another replaced it too.
LEMMA CommitKeeps ==
  ASSUME RequestTypes, Overlaps, AccessInv, NEW r \in Req, Advances(r), Frame(r),
         CommitPairs(r), Holder(r) \in roles \cup {Member}
  PROVE  AccessInv'
<1>0. PICK g : g = Holder(r)
  OBVIOUS
<1>1. /\ pc[r] = "commit" /\ roles' = roles /\ pairs' = (pairs \ gone[r]) \cup coming[r]
      /\ had' = had \cup Effective(pairs') /\ token' = token /\ pc'[r] \in {"ok", "refused"}
      /\ doomed'[r] = {} /\ gone'[r] = {} /\ coming'[r] = {}
  BY DEF CommitPairs, PairsAfter, AccessRelease, Answer, Goto, RequestTypes, AccessInv,
     AccessShapes
<1>2. /\ coming[r] = Asked(r) /\ op[r] \in {Updating, Assigning}
      /\ \A x \in gone[r] : x[1] = g
      /\ \A x \in Asked(r) : Refers(x) \subseteq roles
      /\ op[r] = Updating => Known(g) /\ ask[r].items \subseteq Permissions
      /\ op[r] = Assigning => g = Member /\ \A h \in ask[r].items : Known(h)
      /\ Clashed(g) \/ \A x \in pairs : x[1] = g => x \in gone[r]
  BY Zenon, <1>0, <1>1 DEF AccessInv, RequestOK, AskOK, TxnOK, SweepOK, Sweeps, Replacing
<1>3. InFlight(r) /\ op'[r] = op[r] /\ ask'[r] = ask[r] /\ Replaces(r, g)
  BY Zenon, <1>2, <1>0, <1>1 DEF Updating, Assigning, Frame, Replaces
<1>4. /\ \A x \in Asked(r) : x[1] = g /\ x[2] \in ask[r].items
      /\ \A i \in ask[r].items : <<g, i>> \in Asked(r)
  BY <1>0 DEF Asked
<1>5. g \in roles \cup {Member}
  BY <1>0
<1>6. RolesInv
  BY DEF AccessInv
<1>7. /\ Member \notin RoleNames /\ \A h : Known(h) => h \in RoleNames /\ h # Member
  BY Zenon, AccessAssumption DEF Known, RoleNames
<1>8. \A i \in ask[r].items : /\ i \in Permissions \cup roles
                              /\ g = Member => i \in roles
                              /\ <<g, i>> \in Pairs
  <2>1. CASE op[r] = Updating
    BY <1>2, <1>7, <2>1 DEF Pairs
  <2>2. CASE op[r] = Assigning
    BY <1>2, <1>7, <2>2, <1>4 DEF Refers, Pairs
  <2> QED
    BY <1>2, <2>1, <2>2
<1>9. \A x \in Asked(r) : x = <<g, x[2]>>
  BY <1>0 DEF Asked
<1>10. ASSUME NEW h, h # g PROVE ItemsOf(h)' = ItemsOf(h)
  BY <1>1, <1>2, <1>4, <1>10, ItemsStay
<1>11. RolesInv'
  BY <1>1, <1>6, FrameStays, <1>2, <1>4, <1>8, <1>9, <1>5 DEF RolesInv
<1>12. \A h : Clashed(h) => Clashed(h)'
  BY FrameStays
<1>13. ASSUME NEW s \in Req \ {r}, InFlight(s) PROVE Met(s, r)' /\ Met(r, s)'
  <2>1. Met(s, r) /\ Met(r, s)
    BY <1>3, <1>13 DEF Overlaps
  <2> QED
    BY Zenon, <2>1 DEF Met, Frame
<1>14. LeavesAccess(r)
  <2>1. ASSUME NEW s \in Req \ {r}, pc[s] = "commit"
        PROVE  \A x \in Asked(s) : Refers(x) \subseteq roles'
    BY Zenon, <1>1, <2>1 DEF AccessInv, RequestOK, TxnOK
  <2>2. ASSUME NEW s \in Req \ {r}, pc[s] \in Replacing
        PROVE  Clashed(Holder(s))' \/ \A x \in pairs' : x[1] = Holder(s) => x \in pairs
    <3>1. CASE Holder(s) = g
      <4>1. InFlight(s)
        BY Zenon, <2>2 DEF InFlight, Answered, Replacing
      <4>2. op[s] \in {Updating, Assigning} /\ pc[s] # "forbidden"
        BY Zenon, <2>2 DEF AccessInv, RequestOK, TxnOK, Replacing
      <4>3. Replaces(s, g)
        BY <3>1, <4>2 DEF Replaces, Updating, Assigning
      <4>4. Met(s, r)
        BY <1>3, <4>1 DEF Overlaps
      <4>5. Clashed(g)
        BY <1>3, <4>3, <4>4 DEF Clashed
      <4>6. Holder(s)' = g
        BY Zenon, <3>1 DEF Frame, Holder
      <4>7. Clashed(g)'
        BY <1>12, <4>5
      <4> QED
        BY <4>6, <4>7
    <3>2. CASE Holder(s) # g
      BY <1>1, <1>2, <1>4, <3>2
    <3> QED
      BY <3>1, <3>2
  <2>3. ASSUME NEW s \in Req \ {r}, pc[s] = "read permissions", NEW h, Known(h)
        PROVE  /\ h \in ItemsOf(Member) => h \in ItemsOf(Member)' \/ MetOne(s, Assigning)'
               /\ ItemsOf(h)' \subseteq ItemsOf(h) \/ MetOne(s, Updating)'
    <3>1. Met(s, r)'
      BY Zenon, <1>13, <2>3 DEF InFlight, Answered
    <3>2. CASE op[r] = Updating
      BY <1>3, <3>1, <3>2, <1>2, <1>7, <1>10 DEF MetOne
    <3>3. CASE op[r] = Assigning
      BY Zenon, <1>3, <3>1, <3>3, <1>2, <1>7, <1>10, <2>3 DEF MetOne
    <3> QED
      BY <1>2, <3>2, <3>3
  <2> QED
    BY Zenon, <1>1, <2>1, <2>2, <2>3 DEF LeavesAccess
<1>15. ASSUME NEW h \in roles' \cup {Member} PROVE SetStep(r, h)
  <2>1. CASE h # g
    <3>1. ItemsOf(h) \subseteq Permissions \cup roles
      BY <1>1, <1>6, <1>7, ItemKinds DEF RolesInv
    <3> QED
      BY <1>1, <1>10, <2>1, <3>1 DEF SetStep
  <2>2. CASE h = g /\ Clashed(g)
    BY <1>12, <2>2 DEF SetStep
  <2>3. CASE h = g /\ \A x \in pairs : x[1] = g => x \in gone[r]
    <3>1. \A x \in pairs' : x[1] = g => x \in Asked(r)
      BY <1>1, <1>2, <2>3
    <3>2. \A x \in Asked(r) : x \in pairs'
      BY <1>1, <1>2
    <3>3. ItemsOf(g)' = ask[r].items
      <4>1. ASSUME NEW i \in ask[r].items PROVE i \in ItemsOf(g)'
        <5>1. <<g, i>> \in pairs'
          BY <1>4, <3>2
        <5> QED
          BY <5>1, ItemsNext
      <4>2. ASSUME NEW i \in ItemsOf(g)' PROVE i \in ask[r].items
        BY <1>4, <3>1, ItemsNext
      <4> QED
        BY <4>1, <4>2
    <3>4. Settles(r, g)'
      <4>1. Settles(r, g)
        BY <1>3 DEF Settles
      <4> QED
        BY <4>1, FrameStays
    <3> QED
      BY <1>1, <1>3, <1>8, <2>3, <3>3, <3>4 DEF SetStep
  <2> QED
    BY <1>2, <2>1, <2>2, <2>3
<1>16. RequestOK(r)' /\ NotesFirst(r)
  BY Zenon, <1>1, QuietOK DEF Quiet, Replacing
<1>17. Effective(pairs') \subseteq had'
  BY <1>1
<1> QED
  BY <1>11, <1>14, <1>15, <1>16, <1>17, AccessInvFrom

\* The role is gone: the transaction is rolled back.
LEMMA CommitFailsKeeps ==
  ASSUME RequestTypes, Overlaps, AccessInv, NEW r \in Req, Advances(r), Frame(r),
         CommitPairs(r), Holder(r) \notin roles \cup {Member}
  PROVE  AccessInv'
BY Zenon, QuietOK, TablesSame DEF CommitPairs, AccessRelease, Answer, Goto, RequestTypes,
   AccessInv, AccessShapes, Quiet, Replacing

LEMMA AccessWorkKeeps ==
  ASSUME RequestTypes, Overlaps, AccessInv, NEW r \in Req, Advances(r), AccessWork(r)
  PROVE  AccessInv'
<1>1. Frame(r)
  BY AccessFrame DEF AccessInv
<1> QED
  BY <1>1, InsertRoleKeeps, DeleteRoleKeeps, CommitKeeps, CommitFailsKeeps, AccessReadKeeps
     DEF AccessWork

LEMMA StillAccess ==
  ASSUME AccessInv, UNCHANGED <<accessVars, pc, op, met>>
  PROVE  AccessInv'
<1>1. /\ roles' = roles /\ pairs' = pairs /\ had' = had /\ ask' = ask /\ doomed' = doomed
      /\ gone' = gone /\ coming' = coming /\ read' = read /\ token' = token
      /\ pc' = pc /\ op' = op /\ met' = met
  BY DEF accessVars, accessTables, replaceVars
<1>2. AccessShapes' /\ RolesInv' /\ (Effective(pairs) \subseteq had)'
  BY Zenon, <1>1 DEF AccessInv, AccessShapes, RolesInv, Known, Effective
<1>3. SetsAreAsAsked'
  <2>1. \A h : ItemsOf(h)' = ItemsOf(h)
    BY <1>1 DEF ItemsOf
  <2>2. \A s \in Req : \A h : Replaces(s, h)' <=> Replaces(s, h)
    BY <1>1 DEF Replaces, Holder
  <2>3. \A s \in Req : \A h : Settles(s, h)' <=> Settles(s, h)
    BY <1>1, <2>2 DEF Settles
  <2>4. ASSUME NEW h \in roles \cup {Member} PROVE SetIsAsAsked(h)'
    <3>1. SetIsAsAsked(h)
      BY DEF AccessInv, SetsAreAsAsked
    <3> QED
      BY <1>1, <2>1, <2>2, <2>3, <3>1 DEF SetIsAsAsked, Met
  <2> QED
    BY <1>1, <2>4 DEF SetsAreAsAsked
<1>4. ASSUME NEW r \in Req PROVE RequestOK(r)'
  <2>0. AskOK(r) /\ TxnOK(r)
    BY DEF AccessInv, RequestOK
  <2>4. Holder(r)' = Holder(r) /\ Asked(r)' = Asked(r)
    BY <1>1 DEF Holder, Asked
  <2>1. AskOK(r)' /\ TxnOK(r)'
    BY Zenon, <1>1, <2>0, <2>4 DEF AskOK, Known, Holder, TxnOK
  <2>2. SweepOK(r)'
    BY Zenon, <1>1 DEF AccessInv, RequestOK, SweepOK, Clashed, Sweeps, Replaces, Holder, Met
  <2>3. ReadOK(r)' /\ TokenOK(r)'
    BY Zenon, <1>1 DEF AccessInv, RequestOK, ReadOK, TokenOK, Known, MetOne, Met, ItemsOf
  <2> QED
    BY <2>1, <2>2, <2>3 DEF RequestOK
<1> QED
  BY <1>2, <1>3, <1>4 DEF AccessInv

LEMMA AccessInvStep ==
  RequestTypes /\ Overlaps /\ AccessInv /\ [Next]_vars => AccessInv'
<1> SUFFICES ASSUME RequestTypes, Overlaps, AccessInv, [Next]_vars PROVE AccessInv'
  OBVIOUS
<1>1. ASSUME UNCHANGED <<accessVars, pc, op, met>> PROVE AccessInv'
  BY <1>1, StillAccess
<1>2. CASE UNCHANGED vars
  BY <1>1, <1>2 DEF vars, requestVars
<1>3. CASE Worker
  BY <1>3, <1>1 DEF Worker, Transmit, requestVars
<1>4. ASSUME NEW r \in Req, ComponentStep(r) \/ Forbid(r) \/ Abort(r) PROVE AccessInv'
  <2>1. Advances(r)
    BY <1>4, StepsAdvance
  <2>2. CASE AccessStep(r)
    BY <2>1, <2>2, AccessStartKeeps, AccessWorkKeeps DEF AccessStep
  <2>3. CASE \/ MasterStep(r) \/ TreasuryStep(r) \/ JournalStep(r) \/ PersonnelStep(r)
             \/ EDocumentsStep(r) \/ FilesStep(r) \/ ProjectsStep(r) \/ MembersStep(r)
    BY <2>3, <2>1, AwayFromAccess, ElsewhereKeepsAccess DEF MasterStep, TreasuryStep,
       JournalStep, PersonnelStep, EDocumentsStep, FilesStep, ProjectsStep, MembersStep
  <2>4. CASE Forbid(r)
    BY <2>1, <2>4, ForbidKeepsAccess
  <2>5. CASE Abort(r)
    BY <2>1, <2>5, AbortKeepsAccess
  <2> QED
    BY <1>4, <2>2, <2>3, <2>4, <2>5 DEF ComponentStep
<1> QED
  BY <1>2, <1>3, <1>4 DEF Next, ComponentStep

LEMMA AccessInvGrants == AccessInv => AccessAsGranted
BY DEF AccessInv, AccessAsGranted, RequestOK, TokensWereHeld, TokenOK, MetOne, Updating,
   Assigning

\* A role, and the member, have what they had or what one request asked for, less the
\* roles that were removed, unless two requests that replace the set overlapped; and a
\* token holds no permission the member never had, unless the member's roles and a role
\* both changed while it was signed.  roles.service.ts and users.service.ts replace the
\* rows of a join table by deleteMany and createMany, and rbac.service.ts reads the two
\* tables one after the other.
THEOREM AccessAlwaysAsGranted == Spec => []AccessAsGranted
<1>1. Init => RequestTypes /\ MainInv /\ AccessInv
  BY RequestTypesInit, InitMainInv, InitAccessInv
<1>2. (RequestTypes /\ MainInv /\ AccessInv) /\ [Next]_vars
        => (RequestTypes /\ MainInv /\ AccessInv)'
  BY RequestTypesStep, MainInvStep, AccessInvStep DEF MainInv
<1>3. RequestTypes /\ MainInv /\ AccessInv => AccessAsGranted
  BY AccessInvGrants
<1> QED
  BY <1>1, <1>2, <1>3, PTL DEF Spec

-----------------------------------------------------------------------------
(***************************************************************************)
(* The rows and the forms they are made from: what a row of each resource  *)
(* holds, and which handler is at which statement with which row in hand.  *)
(* The reports, the numbers and the types below rest on it.                *)
(***************************************************************************)

-----------------------------------------------------------------------------
(* What the tables of routes and services say.                             *)

LEMMA CrudLasting ==
  ASSUME NEW on, NEW resource,
         on \notin Documented \cup {"cash_account", "bank_account", "none"}
  PROVE  \A x \in CrudRoutes(on, resource) : Lasting(x.op)
BY DEF Lasting, CrudRoutes, Write, Read, Route

LEMMA RoutesLasting == \A x \in Routes : Lasting(x.op)
<1>1. \A x \in BranchRoutes \cup WarehouseRoutes \cup CategoryRoutes \cup BrandRoutes
            \cup UnitRoutes \cup TaxRateRoutes \cup ProductRoutes \cup CostCenterRoutes :
        Lasting(x.op)
  BY CrudLasting DEF BranchRoutes, WarehouseRoutes, CategoryRoutes, BrandRoutes, UnitRoutes,
     TaxRateRoutes, ProductRoutes, CostCenterRoutes, Documented
<1>2. \A x \in ExpenseCategoryRoutes \cup IncomeCategoryRoutes \cup DepartmentRoutes
            \cup JobPositionRoutes \cup PaymentMethodRoutes \cup BankRoutes :
        Lasting(x.op)
  BY CrudLasting DEF ExpenseCategoryRoutes, IncomeCategoryRoutes, DepartmentRoutes,
     JobPositionRoutes, PaymentMethodRoutes, BankRoutes, Documented
<1>3. \A x \in CustomerRoutes \cup SupplierRoutes \cup AccountingRoutes : Lasting(x.op)
  BY CrudLasting DEF CustomerRoutes, SupplierRoutes, AccountingRoutes, Documented, Lasting,
     Write, Read, Route
<1>4. \A x \in CashAndBankRoutes : Lasting(x.op)
  BY DEF CashAndBankRoutes, Documented, Lasting, Write, Read, Route
<1>5. \A x \in ExpenseIncomeRoutes \cup CollectionRoutes \cup PaymentRoutes : Lasting(x.op)
  BY DEF ExpenseIncomeRoutes, CollectionRoutes, PaymentRoutes, Lasting, Write, Read, Route
<1>6. \A x \in SalesInvoiceRoutes \cup PurchaseInvoiceRoutes : Lasting(x.op)
  BY DEF SalesInvoiceRoutes, PurchaseInvoiceRoutes, Lasting, Write, Read, Route
<1>7. \A x \in HrRoutes : Lasting(x.op)
  BY DEF HrRoutes, Documented, Lasting, Write, Read, Route
<1>8. \A x \in EDocumentRoutes \cup FileRoutes : Lasting(x.op)
  BY DEF EDocumentRoutes, FileRoutes, Documented, Lasting, Write, Read, Route
<1>9. \A x \in ProjectRoutes : Lasting(x.op)
  BY CrudLasting DEF ProjectRoutes, Documented
<1>10. \A x \in RoleRoutes : Lasting(x.op)
  BY CrudLasting DEF RoleRoutes, Documented, Lasting, Write, Read, Route
<1>11. \A x \in InventoryRoutes : Lasting(x.op)
  BY DEF InventoryRoutes, Lasting, Write, Read, Route
<1> QED
  BY <1>1, <1>2, <1>3, <1>4, <1>5, <1>6, <1>7, <1>8, <1>9, <1>10, <1>11 DEF Routes

LEMMA OpsLasting == \A o \in Ops : Lasting(o)
<1> SUFFICES ASSUME NEW o \in Ops PROVE Lasting(o)
  OBVIOUS
<1>1. CASE o \in DOMAIN RoutesOf
  <2>1. PICK x \in Routes : x.op = o
    BY <1>1 DEF RoutesOf
  <2> QED
    BY <2>1, RoutesLasting
<1>2. CASE o \notin DOMAIN RoutesOf
  BY <1>2 DEF Ops, Lasting
<1> QED
  BY <1>1, <1>2

LEMMA KeepsAreLinks == \A on \in Resources : Services[on].keeps \subseteq Services[on].links
BY DEF Resources, Services, Service, BankService, CostCenterService, DepartmentService,
       ExpenseCategoryService, IncomeCategoryService, JobPositionService, TaxRateService,
       UnitService, BrandService, PaymentMethodService, CategoryService, BranchService,
       WarehouseService, ProductService, CustomerService, SupplierService,
       EmployeeService, ProjectService, AccountService, CashAccountService,
       BankAccountService, BankTransactionService, ExpenseService, IncomeService,
       CollectionService, PaymentService, SalesInvoiceService, PurchaseInvoiceService,
       StockMovementService

LEMMA FiniteResources == IsFiniteSet(Resources)
<1>1. \A a, b, c, d, e : IsFiniteSet({a, b, c, d, e})
  <2> SUFFICES ASSUME NEW a, NEW b, NEW c, NEW d, NEW e PROVE IsFiniteSet({a, b, c, d, e})
    OBVIOUS
  <2>1. IsFiniteSet({a}) /\ IsFiniteSet({b}) /\ IsFiniteSet({c}) /\ IsFiniteSet({d})
        /\ IsFiniteSet({e})
    BY FS_Singleton
  <2>2. IsFiniteSet({a} \cup {b})
    BY <2>1, FS_Union
  <2>3. IsFiniteSet(({a} \cup {b}) \cup {c})
    BY <2>1, <2>2, FS_Union
  <2>4. IsFiniteSet((({a} \cup {b}) \cup {c}) \cup {d})
    BY <2>1, <2>3, FS_Union
  <2>5. IsFiniteSet(((({a} \cup {b}) \cup {c}) \cup {d}) \cup {e})
    BY <2>1, <2>4, FS_Union
  <2>6. ((({a} \cup {b}) \cup {c}) \cup {d}) \cup {e} = {a, b, c, d, e}
    OBVIOUS
  <2> QED
    BY <2>5, <2>6
<1> DEFINE A == {"bank", "brand", "cost_center", "department", "expense_category"}
           B == {"income_category", "job_position", "payment_method", "tax_rate", "unit"}
           C == {"category", "branch", "warehouse", "product", "customer"}
           D == {"supplier", "employee", "project", "account", "cash_account"}
           E == {"bank_account", "bank_transaction", "expense", "income", "collection"}
           F == {"payment", "sales_invoice", "purchase_invoice", "stock_movement", "unit"}
<1>2. IsFiniteSet(A) /\ IsFiniteSet(B) /\ IsFiniteSet(C) /\ IsFiniteSet(D)
      /\ IsFiniteSet(E) /\ IsFiniteSet(F)
  BY <1>1
<1>3. Resources = ((A \cup B) \cup (C \cup D)) \cup (E \cup F)
  BY DEF Resources, Services
<1> HIDE DEF A, B, C, D, E, F
<1>4. IsFiniteSet(A \cup B) /\ IsFiniteSet(C \cup D) /\ IsFiniteSet(E \cup F)
  BY <1>2, FS_Union
<1>5. IsFiniteSet((A \cup B) \cup (C \cup D))
  BY <1>4, FS_Union
<1>6. IsFiniteSet(((A \cup B) \cup (C \cup D)) \cup (E \cup F))
  BY <1>4, <1>5, FS_Union
<1> QED
  BY <1>3, <1>6

LEMMA PresentAreResources == Present \subseteq Resources
<1> DEFINE K(S) == S \cup UNION {Services[on].keeps : on \in S}
<1>1. \A S \in SUBSET Resources : K(S) \in SUBSET Resources
  BY KeepsAreShort
<1>2. Resources \cap About \in SUBSET Resources
  OBVIOUS
<1>3. K(K(K(Resources \cap About))) \in SUBSET Resources
  <2> HIDE DEF K
  <2> QED
    BY <1>1, <1>2
<1> QED
  BY <1>3 DEF Present

-----------------------------------------------------------------------------
(* At first.                                                               *)

LEMMA InitRowsInv == Init => RowsInv
<1> SUFFICES ASSUME Init PROVE RowsInv
  OBVIOUS
<1>1. /\ DOMAIN rows = OldRows
      /\ \A id \in OldRows : rows[id] = OldRow(id)
      /\ \A r \in Req : pc[r] = "idle" /\ form[r] = NoForm /\ left[r] = {} /\ held[r] = {}
      /\ mains \subseteq OldRows
  BY DEF Init, MasterInit, RequestsInit
<1>2. ASSUME NEW id \in OldRows
      PROVE  /\ id \in Ids /\ rows[id].code \in Nat
             /\ LinksFit(id[1], rows[id].links) /\ ValueFits(id[1], rows[id].value)
  <2>1. id[1] \in Present /\ id[1] \in Resources /\ id[2] \in 1 .. Olds /\ id \in Ids
    BY PresentAreResources DEF OldRows, Ids
  <2>2. /\ rows[id].code = IF Services[id[1]].code = "none" THEN 0 ELSE id[2]
        /\ rows[id].links = Services[id[1]].keeps \X {1}
        /\ rows[id].value = IF id[1] \in Valued \cup {"bank_transaction"} THEN 1 ELSE 0
    BY <1>1 DEF OldRow
  <2>3. rows[id].code \in Nat
    BY <2>1, <2>2, MasterDataAssumption
  <2>4. LinksFit(id[1], rows[id].links)
    BY <2>1, MasterDataAssumption, <2>2, KeepsAreShort, KeepsAreLinks DEF LinksFit, Ids
  <2>5. ValueFits(id[1], rows[id].value)
    BY <2>2 DEF ValueFits
  <2> QED
    BY <2>1, <2>3, <2>4, <2>5
<1>3. IsFiniteSet(DOMAIN rows)
  <2>1. IsFiniteSet(Present)
    BY FiniteResources, PresentAreResources, FS_Subset
  <2>2. IsFiniteSet(1 .. Olds)
    BY FS_Interval, MasterDataAssumption
  <2>3. IsFiniteSet(Present \X (1 .. Olds))
    BY <2>1, <2>2, FS_Product
  <2> QED
    BY <1>1, <2>3 DEF OldRows
<1>4. RowsWereMade
  BY <1>1, MasterDataAssumption DEF RowsWereMade, OldRows
<1>5. ASSUME NEW r \in Req PROVE FormInv(r)
  <2>1. "idle" \notin RowLabels
    BY DEF RowLabels, MasterLabels, TreasuryLabels
  <2> QED
    BY Zenon, <1>1, <2>1 DEF FormInv, FormFits, FormIsOwn, InPlace
<1> QED
  BY <1>1, <1>2, <1>3, <1>4, <1>5 DEF RowsInv, RowsFit

-----------------------------------------------------------------------------
(* The forms and their handlers.                                           *)

LEMMA StepSays ==
  ASSUME RequestTypes, MainInv, NEW r \in Req, ComponentStep(r) \/ Forbid(r) \/ Abort(r)
  PROVE  SaidBy(r)
BY MasterAsks, MasterSays, OthersSay DEF MasterStep, ComponentStep

\* A step of the other components is elsewhere than at the statements of these two.
LEMMA AwayFromRows ==
  ASSUME RequestTypes, NEW r \in Req,
         \/ JournalStep(r) \/ PersonnelStep(r) \/ EDocumentsStep(r) \/ FilesStep(r)
         \/ ProjectsStep(r) \/ AccessStep(r) \/ MembersStep(r)
  PROVE  Elsewhere(r, RowLabels, RowOps)
BY StepsApart, PartsAreStatements, LabelsApart, OpsApart DEF Apart, RowLabels, RowOps

\* No request begins at NoOp, and none that has not begun is at another.
LEMMA NoOpIsNone == NoOp \notin RowOps
BY DEF NoOp, RowOps, MasterOps, TreasuryOps

LEMMA OthersKeepForms ==
  ASSUME RequestTypes, MainInv, NEW r \in Req, FormInv(r),
         \/ JournalStep(r) \/ PersonnelStep(r) \/ EDocumentsStep(r) \/ FilesStep(r)
         \/ ProjectsStep(r) \/ AccessStep(r) \/ MembersStep(r) \/ Forbid(r) \/ Abort(r)
  PROVE  FormInv(r)'
<1>1. /\ form' = form
      /\ left'[r] \subseteq left[r] /\ held'[r] \subseteq held[r]
  <2>0. DOMAIN left = Req /\ DOMAIN held = Req
    BY DEF MainInv, Saying
  <2> QED
    BY <2>0, OthersKeepForm
<1>2. /\ pc'[r] \notin RowLabels
      /\ \/ op'[r] = op[r] /\ (pc[r] \notin {"idle", "forbidden"} \/ op[r] \notin RowOps)
         \/ op'[r] \notin RowOps
         \/ pc'[r] = "forbidden"
  <2>0. \A x \in RowLabels : x \notin Answered /\ x # "idle"
    BY Zenon DEF RowLabels, MasterLabels, TreasuryLabels, Answered
  <2>1. CASE Forbid(r)
    BY <2>1, <2>0 DEF Forbid, TurnAway, RequestTypes, Answered
  <2>2. CASE Abort(r)
    BY <2>2, <2>0 DEF Abort, Goto, InFlight, RequestTypes, Answered
  <2>3. CASE ~Forbid(r) /\ ~Abort(r)
    BY <2>3, AwayFromRows, NoOpIsNone DEF Elsewhere, RequestTypes, MainInv, Overlaps,
       Answered
  <2> QED
    BY <2>1, <2>2, <2>3
<1>3. FormFits(r)'
  BY <1>1 DEF FormInv, FormFits
<1>4. FormIsOwn(r)'
  BY <1>1, <1>2 DEF FormInv, FormIsOwn, Does, On
<1>5. InPlace(r)'
  BY Zenon, <1>2 DEF InPlace, RowLabels, MasterLabels, TreasuryLabels
<1> QED
  BY <1>1, <1>3, <1>4, <1>5 DEF FormInv

\* What a request asks when it comes.
LEMMA AsksFits ==
  ASSUME RequestTypes, MainInv, NEW r \in Req, FormInv(r), NEW act, NEW on, NEW at,
         <<act, on>> \in RowOps, Begin(r, <<act, on>>, at), NEW id \in Ids, NEW code \in Nat, NEW links, NEW value, NEW main,
         Asks(r, id, code, links, value, main),
         id[1] = on, LinksFit(on, links), value \in Int,
         act \in Making => id = <<on, r>>,
         act \in Making \cup {"update"} => ValueFits(on, value),
         InPlace(r)'
  PROVE  FormInv(r)'
BY BeginsAt DEF Asks, MainInv, Saying, FormFits, FormIsOwn, On, Does, FormInv

LEMMA TreasuryForms ==
  ASSUME RequestTypes, MainInv, RowsInv, NEW r \in Req, TreasuryStep(r)
  PROVE  FormInv(r)'
<1>0. FormInv(r) /\ RowsFit
  BY DEF RowsInv
<1>4. LinksFit("sales_invoice", {}) /\ \A on : LinksFit(on, {})
  BY DEF LinksFit
<1>1. CASE StartReport(r)
  <2>1. PICK id \in DOMAIN rows :
          /\ id[1] \in DOMAIN Reports
          /\ Begin(r, <<"report", id[1]>>, "find account")
          /\ Asks(r, id, 0, {}, 0, "unsaid")
    BY Zenon, <1>1 DEF StartReport
  <2>2. id \in Ids
    BY <1>0 DEF RowsFit
  <2>3. <<"report", id[1]>> \in RowOps
    BY Zenon, <2>1, BeginOps DEF RowOps, TreasuryOps
  <2>4. op'[r] = <<"report", id[1]>>
    BY Zenon, <2>1, BeginsAt
  <2>7. pc'[r] = "find account"
    BY Zenon, <2>1, BeginsAt
  <2>9. op'[r][1] = "report"
    BY ONLY <2>4
  <2>10. On(r)' = id[1]
    BY ONLY <2>4 DEF On
  <2>5. InPlace(r)'
    BY Zenon, <2>1, <2>3, <2>4, <2>7, <2>9, <2>10 DEF InPlace, Does
  <2>6. "report" \notin Making \cup {"update"}
    BY DEF Making
  <2>8. LinksFit(id[1], {}) /\ 0 \in Nat /\ 0 \in Int
    BY <1>4
  <2> QED
    BY Zenon, <1>0, <2>1, <2>2, <2>3, <2>5, <2>6, <2>8, AsksFits
<1>2. CASE StartCancel(r)
  <2>1. PICK id \in Peers("sales_invoice") :
          /\ Begin(r, <<"cancel", "sales_invoice">>, "find invoice")
          /\ Asks(r, id, 0, {}, 0, "unsaid")
    BY Zenon, <1>2 DEF StartCancel
  <2>2. id \in Ids /\ id[1] = "sales_invoice"
    BY <1>0 DEF RowsFit, Peers
  <2>3. <<"cancel", "sales_invoice">> \in RowOps
    BY Zenon, <2>1, BeginOps DEF RowOps, TreasuryOps
  <2>4. op'[r] = <<"cancel", "sales_invoice">> /\ pc'[r] = "find invoice"
    BY Zenon, <2>1, BeginsAt
  <2>5. InPlace(r)'
    BY Zenon, <2>3, <2>4 DEF InPlace, On, Does
  <2>6. "cancel" \notin Making \cup {"update"}
    BY DEF Making
  <2>8. LinksFit("sales_invoice", {}) /\ 0 \in Nat /\ 0 \in Int
    BY <1>4
  <2> QED
    BY Zenon, <1>0, <2>1, <2>2, <2>3, <2>5, <2>6, <2>8, AsksFits
<1>3. CASE TreasuryWork(r)
  <2>1. /\ form' = form /\ left' = left /\ held' = held /\ op' = op
        /\ pc[r] \in TreasuryLabels
    BY Zenon, <1>3 DEF TreasuryWork, FindAccount, SumNext, FindInvoice, CancelInvoice, Answer, Goto,
       masterVars, TreasuryLabels
  <2>2. \/ pc'[r] \in Answered /\ pc'[r] # "forbidden"
        \/ pc'[r] = "sum" /\ pc[r] \in {"find account", "sum"}
        \/ pc'[r] = "void" /\ pc[r] = "find invoice"
    BY Zenon, <1>3 DEF TreasuryWork, FindAccount, SumNext, FindInvoice, CancelInvoice, Answer, Goto,
       RequestTypes, Answered
  <2>3. InPlace(r)'
    BY Zenon, <1>0, <2>1, <2>2 DEF Answered, RowLabels, MasterLabels, TreasuryLabels, InPlace,
       FormInv, On, Does
  <2>4. pc[r] \notin {"idle", "forbidden"}
    BY Zenon, <2>1 DEF TreasuryLabels
  <2> QED
    BY <1>0, <2>1, <2>3, <2>4 DEF FormInv, FormFits, FormIsOwn, On, Does
<1> QED
  BY <1>1, <1>2, <1>3 DEF TreasuryStep, TreasuryStart

-----------------------------------------------------------------------------
\* What a client may ask of a resource.
LEMMA ChoicesFit ==
  ASSUME RowsFit, NEW on \in Resources
  PROVE  /\ \A L \in LinkChoices(on) : LinksFit(on, L)
         /\ \A v \in Values(on) : v \in Int /\ ValueFits(on, v)
         /\ TypedCodes(on) \cup {0} \subseteq Nat
<1>1. ASSUME NEW L \in LinkChoices(on) PROVE LinksFit(on, L)
  BY KeepsAreLinks DEF LinkChoices, Targets, LinksFit, RowsFit
<1>2. ASSUME NEW v \in Values(on) PROVE v \in Int /\ ValueFits(on, v)
  BY MasterDataAssumption DEF Valued, Values, ValueFits
<1>3. TypedCodes(on) \cup {0} \subseteq Nat
  BY MasterDataAssumption DEF TypedCodes
<1> QED
  BY <1>1, <1>2, <1>3

LEMMA MasterBegins ==
  ASSUME RequestTypes, MainInv, RowsInv, NEW r \in Req, MasterStart(r)
  PROVE  FormInv(r)'
<1>0. FormInv(r) /\ RowsFit
  BY DEF RowsInv
<1>1. CASE StartCreate(r)
  <2>1. PICK on \in Resources \cap About, act \in {"create", "adjust"} :
          Creation(r, on, act)
    BY <1>1, CreateStarts
  <2>2. PICK code \in TypedCodes(on), L \in LinkChoices(on), v \in Values(on),
             main \in Mains(on) :
            /\ Begin(r, <<act, on>>, IF on \in Careful THEN "find kept"
                                                      ELSE NumberAt(on, code, main))
            /\ Asks(r, <<on, r>>, code, L, v, main)
    BY Zenon, <2>1 DEF Creation
  <2>3. on \in Resources
    BY <2>1
  <2>4. <<act, on>> \in RowOps /\ Lasting(<<act, on>>)
    <3>1. <<act, on>> \in Ops
      BY Zenon, <2>2, BeginOps
    <3> QED
      BY <2>3, <3>1, OpsLasting DEF RowOps, MasterOps
  <2>5. LinksFit(on, L) /\ v \in Int /\ ValueFits(on, v) /\ code \in Nat
    BY <1>0, <2>3, ChoicesFit
  <2>6. <<on, r>> \in Ids
    BY <2>3 DEF Ids
  <2>7. /\ op'[r] = <<act, on>>
        /\ pc'[r] = IF on \in Careful THEN "find kept" ELSE NumberAt(on, code, main)
    BY Zenon, <2>2, BeginsAt
  <2>8. pc'[r] = "find mains" => act = "create"
    BY Zenon, <2>7, <2>4 DEF Mains, NumberAt, Lasting
  <2>9. pc'[r] \in {"find kept", "count", "find mains", "insert"}
    BY Zenon, <2>7 DEF NumberAt
  <2>11. op'[r][1] = act
    <3>1. op'[r] = <<act, on>>
      BY Zenon, <2>7
    <3> QED
      BY ONLY <3>1
  <2>10. InPlace(r)'
    BY Zenon, <2>4, <2>7, <2>11, <2>8, <2>9 DEF InPlace, Making
  <2> QED
    BY Zenon, <1>0, <2>2, <2>4, <2>5, <2>6, <2>10, AsksFits
<1>2. CASE StartUpdate(r)
  <2>1. PICK on \in Resources \cap About :
          \E id \in Peers(on), code \in TypedCodes(on) \cup {0}, L \in LinkChoices(on),
             v \in Values(on), main \in Mains(on) :
            Begin(r, <<"update", on>>, "find") /\ Asks(r, id, code, L, v, main)
    BY <1>2 DEF StartUpdate
  <2>2. PICK id \in Peers(on), code \in TypedCodes(on) \cup {0}, L \in LinkChoices(on),
             v \in Values(on), main \in Mains(on) :
            Begin(r, <<"update", on>>, "find") /\ Asks(r, id, code, L, v, main)
    BY <2>1
  <2>3. on \in Resources /\ id \in Ids /\ id[1] = on
    BY <1>0, <2>1, <2>2 DEF RowsFit, Peers
  <2>4. <<"update", on>> \in RowOps
    BY <2>2, BeginOps, <2>3 DEF RowOps, MasterOps
  <2>5. LinksFit(on, L) /\ v \in Int /\ ValueFits(on, v) /\ code \in Nat
    BY <1>0, <2>3, ChoicesFit
  <2>6. op'[r] = <<"update", on>> /\ pc'[r] = "find"
    BY <2>2, BeginsAt
  <2>7. InPlace(r)'
    BY <2>4, <2>6 DEF InPlace
  <2>8. "update" \notin Making
    BY DEF Making
  <2> QED
    BY <1>0, <2>2, <2>3, <2>4, <2>5, <2>7, <2>8, AsksFits
<1>3. CASE StartOne(r)
  <2>1. PICK on \in Resources \cap About, act \in {"get", "remove"} :
          \E id \in Peers(on) :
            /\ Begin(r, <<act, on>>, "find") /\ Asks(r, id, 0, {}, 0, "unsaid")
    BY <1>3 DEF StartOne
  <2>2. PICK id \in Peers(on) :
            /\ Begin(r, <<act, on>>, "find") /\ Asks(r, id, 0, {}, 0, "unsaid")
    BY <2>1
  <2>3. on \in Resources /\ id \in Ids /\ id[1] = on
    BY <1>0, <2>1, <2>2 DEF RowsFit, Peers
  <2>4. <<act, on>> \in RowOps
    <3>1. <<act, on>> \in Ops
      BY <2>2, BeginOps
    <3> QED
      BY <2>3, <3>1 DEF RowOps, MasterOps
  <2>5. LinksFit(on, {})
    BY DEF LinksFit
  <2>6. op'[r] = <<act, on>> /\ pc'[r] = "find"
    BY <2>2, BeginsAt
  <2>7. InPlace(r)'
    BY <2>4, <2>6 DEF InPlace
  <2>8. act \notin Making \cup {"update"}
    BY DEF Making
  <2> QED
    BY <1>0, <2>2, <2>3, <2>4, <2>5, <2>7, <2>8, AsksFits
<1>4. CASE StartList(r)
  <2>1. PICK on \in Resources : /\ Begin(r, <<"list", on>>, "page")
                                /\ UNCHANGED masterVars
    BY <1>4 DEF StartList
  <2>2. op'[r] = <<"list", on>> /\ pc'[r] = "page"
    BY <2>1, BeginsAt
  <2>3. <<"list", on>> \in RowOps
    BY <2>1, BeginOps DEF RowOps, MasterOps
  <2>4. InPlace(r)'
    BY <2>2, <2>3 DEF InPlace, Does
  <2>5. FormIsOwn(r)'
    BY <2>2 DEF FormIsOwn, Does
  <2> QED
    BY <1>0, <2>1, <2>4, <2>5 DEF FormInv, FormFits, masterVars
<1> QED
  BY <1>1, <1>2, <1>3, <1>4 DEF MasterStart

\* A handler at work keeps its form, but for the number, and goes where its kind goes.
LEMMA FormsKept ==
  ASSUME RequestTypes, NEW r \in Req, FormInv(r), op' = op, pc[r] \in RowLabels,
         pc'[r] # "idle",
         form'[r].id = form[r].id, form'[r].code = form[r].code,
         form'[r].links = form[r].links, form'[r].value = form[r].value,
         form'[r].number = form[r].number \/ form'[r].number \in Nat,
         form'[r] = form[r] \/ form[r] # NoForm,
         left'[r] \cup held'[r] \subseteq Ids, InPlace(r)'
  PROVE  FormInv(r)'
BY Zenon DEF FormInv, FormFits, RowLabels, MasterLabels, TreasuryLabels, FormIsOwn, On, Does

LEMMA MasterForms ==
  ASSUME RequestTypes, MainInv, RowsInv, NEW r \in Req, MasterWork(r)
  PROVE  FormInv(r)'
<1>0. FormInv(r) /\ InPlace(r) /\ Saying /\ RowsFit /\ mains \subseteq DOMAIN rows
      /\ left[r] \cup held[r] \subseteq Ids
  BY DEF RowsInv, FormInv, MainInv
<1>1. /\ op' = op /\ pc[r] \in MasterLabels /\ pc[r] \in RowLabels
      /\ pc'[r] # "idle"
  BY Zenon DEF MasterWork, FindKept, CountRows, InsertRow, FindRow, UpdateRow, ReadPage, CountPage,
     CountMovements, DeleteRow, Delete, FindMains, ClearMain, MainsCleared, Answer, Goto,
     NumberAt, requestVars, MasterLabels, RowLabels, RequestTypes
<1>2. op[r] \in RowOps /\ Lasting(op[r])
  BY Zenon, <1>0, <1>1, OpsLasting DEF InPlace, RowOps, MasterOps, TreasuryOps
<1>3. InPlace(r)'
  <2>0. \A x \in Answered : x \notin RowLabels
    BY Zenon DEF Answered, RowLabels, MasterLabels, TreasuryLabels
  <2>1. CASE pc'[r] \in Answered
    BY Zenon, <2>0, <2>1 DEF InPlace, RowLabels, MasterLabels, TreasuryLabels
  <2>2. CASE pc'[r] \notin Answered
    <3>1. CASE FindKept(r)
      <4>1. pc[r] = "find kept" /\ pc'[r] = NumberAt(On(r), form[r].code, form[r].main)
        BY Zenon, <2>2, <3>1 DEF FindKept, Answer, Goto, RequestTypes, Answered
      <4>2. form[r].main # "yes"
        BY Zenon, <4>1 DEF MainInv, Setters, SetterLabels, Answered
      <4>3. pc'[r] \in {"count", "insert"}
        BY Zenon, <4>1, <4>2 DEF NumberAt
      <4> QED
        BY Zenon, <1>0, <1>1, <1>2, <4>1, <4>3 DEF InPlace
    <3>2. CASE CountRows(r)
      BY <3>2, <1>0, <1>1, <1>2 DEF CountRows, Goto, RequestTypes, InPlace
    <3>3. CASE FindRow(r)
      BY Zenon, <1>0, <3>3, <2>2, <1>1, <1>2 DEF FindRow, InPlace, Answer, Goto, RequestTypes,
         Answered, Does
    <3>4. CASE FindMains(r)
      BY Zenon, <3>4, <1>0, <1>1, <1>2 DEF FindMains, Goto, RequestTypes, InPlace
    <3>5. CASE ClearMain(r)
      <4>1. pc' = pc
        BY <3>5 DEF ClearMain, requestVars
      <4> QED
        BY Zenon, <1>0, <1>1, <4>1 DEF InPlace, Does, On
    <3>6. CASE MainsCleared(r)
      BY <3>6, <1>0, <1>1, <1>2 DEF MainsCleared, Goto, RequestTypes, InPlace, Does,
         Making
    <3>7. CASE CountMovements(r)
      BY Zenon, <2>2, <3>7, <1>0, <1>1, <1>2 DEF CountMovements, Answer, Goto, RequestTypes,
         Answered, InPlace, Does
    <3>8. CASE ReadPage(r)
      BY <3>8, <1>0, <1>1, <1>2 DEF ReadPage, Goto, RequestTypes, InPlace, Does
    <3>9. CASE InsertRow(r) \/ UpdateRow(r) \/ DeleteRow(r) \/ CountPage(r)
      BY <3>9, <2>2 DEF InsertRow, UpdateRow, DeleteRow, Delete, CountPage, Answer,
         Goto, RequestTypes, Answered
    <3> QED
      BY <3>1, <3>2, <3>3, <3>4, <3>5, <3>6, <3>7, <3>8, <3>9 DEF MasterWork
  <2> QED
    BY <2>1, <2>2
<1>4. CASE CountRows(r)
  <2>1. /\ form' = [form EXCEPT ![r].number = Cardinality(Peers(On(r))) + 1]
        /\ left' = left /\ held' = held /\ pc[r] = "count"
    BY <1>4 DEF CountRows
  <2>2. /\ form'[r].id = form[r].id /\ form'[r].code = form[r].code
        /\ form'[r].links = form[r].links /\ form'[r].value = form[r].value
        /\ form'[r].number = Cardinality(Peers(On(r))) + 1
    BY <1>0, <2>1 DEF Saying, FormFields
  <2>3. form'[r].number \in Nat
    BY <1>0, FS_Subset, FS_CardinalityType, <2>2 DEF Peers, RowsFit
  <2>4. form[r] # NoForm
    BY <1>0, <2>1, <1>2 DEF InPlace, FormInv, FormIsOwn, Does, Making, NoForm,
       Resources, Services, Ids
  <2> QED
    BY <1>0, <1>1, <1>3, <2>1, <2>2, <2>3, <2>4, FormsKept
<1>5. CASE ~CountRows(r)
  <2>1. form' = form
    BY Zenon, <1>5 DEF MasterWork, FindKept, InsertRow, FindRow, UpdateRow, ReadPage, CountPage,
       CountMovements, DeleteRow, FindMains, ClearMain, MainsCleared, Release, masterVars
  <2>2. left'[r] \cup held'[r] \subseteq Ids
    <3>1. CASE FindMains(r)
      BY Zenon, <1>0, <3>1 DEF FindMains, OtherMains, Saying, RowsFit
    <3>2. CASE ClearMain(r)
      <4>1. PICK id : /\ left' = [left EXCEPT ![r] = @ \ {id}]
                      /\ held' = [held EXCEPT ![r] = @ \cup ({id} \cap mains)]
        BY <3>2 DEF ClearMain
      <4>2. left'[r] = left[r] \ {id} /\ held'[r] = held[r] \cup ({id} \cap mains)
        BY <1>0, <4>1 DEF Saying
      <4>3. mains \subseteq Ids
        BY <1>0 DEF RowsFit
      <4> QED
        BY <1>0, <4>2, <4>3
    <3>3. CASE InsertRow(r) \/ UpdateRow(r)
      BY <1>0, <3>3 DEF InsertRow, UpdateRow, Release, Saying
    <3>4. CASE ~(FindMains(r) \/ ClearMain(r) \/ InsertRow(r) \/ UpdateRow(r))
      BY Zenon, <1>5, <3>4, <1>0 DEF MasterWork, FindKept, FindRow, ReadPage, CountPage,
         CountMovements, DeleteRow, MainsCleared, masterVars
    <3> QED
      BY <3>1, <3>2, <3>3, <3>4
  <2> QED
    BY <1>0, <1>1, <1>3, <2>1, <2>2, FormsKept
<1> QED
  BY <1>4, <1>5

-----------------------------------------------------------------------------
(* The three ways a table changes.                                         *)

\* The row in hand is one of the handler's resource, and the handler is routed.
LEMMA InHand ==
  ASSUME RequestTypes, RowsInv, NEW r \in Req, pc[r] \in RowLabels \ {"page", "total"}
  PROVE  /\ op[r] \in RowOps /\ Lasting(op[r])
         /\ Row(r) \in Ids /\ Row(r)[1] = On(r) /\ On(r) \in Resources
         /\ LinksFit(On(r), form[r].links) /\ form[r].code \in Nat /\ form[r].number \in Nat
         /\ op[r][1] \in Making => Row(r) = <<On(r), r>>
         /\ op[r][1] \in Making \cup {"update"} => ValueFits(On(r), form[r].value)
<1>1. FormInv(r)
  BY DEF RowsInv
<1>2. op[r] \in RowOps /\ pc[r] \notin {"idle", "forbidden"}
  BY Zenon, <1>1 DEF FormInv, InPlace, RowLabels, MasterLabels, TreasuryLabels
<1>3. ~Does(r, "list")
  <2>1. /\ pc[r] \in {"find kept", "count", "insert"} => op[r][1] \in Making
        /\ pc[r] \in {"find mains", "clear"} => op[r][1] \in {"create", "update"}
        /\ pc[r] = "write" => Does(r, "update")
        /\ pc[r] = "find" => op[r][1] \in {"get", "update", "remove"}
        /\ pc[r] \in {"count movements", "delete"} => Does(r, "remove")
        /\ pc[r] \in {"find account", "sum"} => Does(r, "report")
    BY Zenon, <1>1 DEF FormInv, InPlace
  <2>2. ASSUME pc[r] \in {"find invoice", "void"} PROVE op[r][1] = "cancel"
    <3>1. op[r] = <<"cancel", "sales_invoice">>
      BY Zenon, <1>1, <2>2 DEF FormInv, InPlace
    <3> QED
      BY ONLY <3>1
  <2>3. pc[r] \in (MasterLabels \cup TreasuryLabels) \ {"page", "total"}
    BY DEF RowLabels
  <2> QED
    BY ONLY Zenon, <2>1, <2>2, <2>3 DEF MasterLabels, TreasuryLabels, Making, Does
<1>4. Lasting(op[r])
  <2>1. op[r] \in Ops
    BY <1>2 DEF RowOps, MasterOps, TreasuryOps
  <2> QED
    BY <2>1, OpsLasting
<1>5. /\ form[r].id \in Ids /\ form[r].id[1] = On(r)
      /\ LinksFit(On(r), form[r].links) /\ form[r].code \in Nat /\ form[r].number \in Nat
      /\ op[r][1] \in Making => form[r].id = <<On(r), r>>
      /\ op[r][1] \in Making \cup {"update"} => ValueFits(On(r), form[r].value)
  BY <1>1, <1>2, <1>3 DEF FormInv, FormIsOwn
<1>6. form[r].id[1] \in Resources
  BY <1>5 DEF Ids
<1> QED
  BY <1>2, <1>4, <1>5, <1>6 DEF Row

LEMMA RowsChange ==
  ASSUME RequestTypes, RefInv, RowsInv, NEW r \in Req, MasterStep(r)
  PROVE  rows' = rows \/ RowMade(r) \/ RowChanged(r) \/ RowRemoved(r)
<1>1. CASE InsertRow(r)
  <2>1. CASE ~Acceptable(r)
    BY <1>1, <2>1 DEF InsertRow
  <2>2. CASE Acceptable(r)
    <3>1. pc[r] = "insert" /\ pc'[r] = "ok"
      BY <1>1, <2>2 DEF InsertRow, Answer, Goto, RequestTypes
    <3>2. /\ DOMAIN rows' = DOMAIN rows \cup {Row(r)}
          /\ \A id \in DOMAIN rows \cup {Row(r)} :
               rows'[id] = IF id = Row(r)
                             THEN [code |-> form[r].number, links |-> form[r].links,
                                   value |-> form[r].value]
                             ELSE rows[id]
      BY <1>1, <2>2 DEF InsertRow
    <3>3. Row(r) \notin DOMAIN rows
      BY Zenon, <3>1, InHand DEF RowLabels, MasterLabels, RowsInv, FormInv, InPlace,
         RowsWereMade
    <3>4. rows'[Row(r)] = [code |-> form[r].number, links |-> form[r].links,
                           value |-> form[r].value]
      BY <3>2
    <3>5. /\ DOMAIN rows'[Row(r)] = {"code", "links", "value"}
          /\ rows'[Row(r)].code = form[r].number /\ rows'[Row(r)].links = form[r].links
          /\ rows'[Row(r)].value = form[r].value
      BY <3>4
    <3>6. \A x \in DOMAIN rows : rows'[x] = rows[x]
      BY <3>2, <3>3
    <3> QED
      BY <2>2, <3>1, <3>2, <3>3, <3>5, <3>6 DEF RowMade
  <2> QED
    BY <2>1, <2>2
<1>2. CASE UpdateRow(r)
  <2>1. CASE ~(Row(r) \in DOMAIN rows /\ Acceptable(r))
    BY <1>2, <2>1 DEF UpdateRow
  <2>2. CASE Row(r) \in DOMAIN rows /\ Acceptable(r)
    BY <1>2, <2>2 DEF UpdateRow, Written, RowChanged
  <2> QED
    BY <2>1, <2>2
<1>3. CASE DeleteRow(r)
  <2>1. CASE ~(Row(r) \in DOMAIN rows /\ ~Needed(Row(r)))
    BY <1>3, <2>1 DEF DeleteRow
  <2>2. CASE Row(r) \in DOMAIN rows /\ ~Needed(Row(r))
    BY <1>3, <2>2 DEF DeleteRow, Delete, Answer, Goto, RequestTypes, RefInv, Shapes,
       RowRemoved
  <2> QED
    BY <2>1, <2>2
<1> QED
  BY <1>1, <1>2, <1>3, RowsAreWritten

-----------------------------------------------------------------------------
(* The rows stay as they should.                                           *)

LEMMA RowsFitKept ==
  ASSUME RequestTypes, RowsInv, NEW r \in Req,
         rows' = rows \/ RowMade(r) \/ RowChanged(r) \/ RowRemoved(r)
  PROVE  RowsFit'
<1>0. RowsFit /\ FormInv(r)
  BY DEF RowsInv
<1>1. CASE rows' = rows
  BY <1>0, <1>1 DEF RowsFit
<1>2. CASE RowMade(r)
  <2>1. pc[r] \in RowLabels \ {"page", "total"} /\ op[r][1] \in Making
    BY <1>0, <1>2 DEF RowMade, FormInv, InPlace, RowLabels, MasterLabels
  <2>2. /\ Row(r) \in Ids /\ Row(r)[1] = On(r) /\ form[r].number \in Nat
        /\ LinksFit(On(r), form[r].links) /\ ValueFits(On(r), form[r].value)
    BY <2>1, InHand
  <2>3. ASSUME NEW x \in DOMAIN rows'
        PROVE  /\ x \in Ids /\ rows'[x].code \in Nat
               /\ LinksFit(x[1], rows'[x].links) /\ ValueFits(x[1], rows'[x].value)
    <3>1. CASE x = Row(r)
      BY <1>2, <2>2, <3>1 DEF RowMade
    <3>2. CASE x # Row(r)
      BY <1>2, <2>3, <3>2, <1>0 DEF RowMade, RowsFit
    <3> QED
      BY <3>1, <3>2
  <2>4. IsFiniteSet(DOMAIN rows')
    BY <1>0, FS_AddElement, <1>2 DEF RowsFit, RowMade
  <2> QED
    BY <2>3, <2>4 DEF RowsFit, LinksFit, ValueFits
<1>3. CASE RowChanged(r)
  <2>1. pc[r] \in RowLabels \ {"page", "total"} /\ op[r][1] = "update"
    BY <1>0, <1>3 DEF RowChanged, FormInv, InPlace, RowLabels, MasterLabels, Does
  <2>2. /\ Row(r) \in Ids /\ Row(r)[1] = On(r) /\ form[r].code \in Nat
        /\ LinksFit(On(r), form[r].links) /\ ValueFits(On(r), form[r].value)
    BY <2>1, InHand
  <2>3. ASSUME NEW x \in DOMAIN rows'
        PROVE  /\ x \in Ids /\ rows'[x].code \in Nat
               /\ LinksFit(x[1], rows'[x].links) /\ ValueFits(x[1], rows'[x].value)
    <3>1. CASE x = Row(r)
      BY <1>3, <2>3, <1>0, <2>2, <3>1 DEF RowChanged, RowsFit, LinksFit
    <3>2. CASE x # Row(r)
      BY <1>3, <2>3, <3>2, <1>0 DEF RowChanged, RowsFit
    <3> QED
      BY <3>1, <3>2
  <2>4. IsFiniteSet(DOMAIN rows')
    BY <1>0, <1>3 DEF RowsFit, RowChanged
  <2> QED
    BY <2>3, <2>4 DEF RowsFit, LinksFit, ValueFits
<1>4. CASE RowRemoved(r)
  <2>1. ASSUME NEW x \in DOMAIN rows'
        PROVE  /\ x \in Ids /\ rows'[x].code \in Nat
               /\ LinksFit(x[1], rows'[x].links) /\ ValueFits(x[1], rows'[x].value)
    BY <1>4, <2>1, <1>0 DEF RowRemoved, RowsFit, LinksFit
  <2>2. IsFiniteSet(DOMAIN rows')
    BY <1>4, <1>0, FS_Subset DEF RowRemoved, RowsFit
  <2> QED
    BY <2>1, <2>2 DEF RowsFit, LinksFit, ValueFits
<1> QED
  BY <1>1, <1>2, <1>3, <1>4

\* The request that made a row is answered, and none is answered twice.
LEMMA RowsWereMadeKept ==
  ASSUME RequestTypes, RowsInv, NEW r \in Req,
         rows' = rows \/ RowMade(r) \/ RowChanged(r) \/ RowRemoved(r),
         \A s \in Req \ {r} : pc'[s] = pc[s], pc[r] \notin Answered
  PROVE  RowsWereMade'
<1> SUFFICES ASSUME NEW s \in Req, NEW on \in Resources, <<on, s>> \in DOMAIN rows'
             PROVE  pc'[s] = "ok"
  BY DEF RowsWereMade
<1>0. RowsWereMade
  BY DEF RowsInv
<1>1. CASE <<on, s>> \in DOMAIN rows
  <2>1. pc[s] = "ok"
    BY <1>0, <1>1 DEF RowsWereMade
  <2> QED
    BY <2>1 DEF Answered
<1>2. CASE <<on, s>> \notin DOMAIN rows
  <2>1. RowMade(r) /\ <<on, s>> = Row(r)
    BY <1>2 DEF RowMade, RowChanged, RowRemoved
  <2>2. pc[r] \in RowLabels \ {"page", "total"} /\ op[r][1] \in Making
    BY Zenon, <2>1 DEF RowMade, RowsInv, FormInv, InPlace, RowLabels, MasterLabels
  <2>3. Row(r) = <<On(r), r>>
    BY <2>2, InHand
  <2>4. s = r
    BY <2>1, <2>3
  <2> QED
    BY <2>1, <2>4 DEF RowMade
<1> QED
  BY <1>1, <1>2

\* A branch that is said to be a main one is a row.
LEMMA MainsAreRows ==
  ASSUME RequestTypes, RefInv, MainInv, RowsInv, NEW r \in Req, MasterStep(r)
  PROVE  mains' \subseteq DOMAIN rows'
<1>0. mains \subseteq DOMAIN rows /\ form[r].main \in {"unsaid", "yes", "no"}
  BY DEF RowsInv, MainInv, Saying
<1>1. MainsAfter(r) \subseteq mains \cup {Row(r)}
  BY <1>0 DEF MainsAfter
<1>2. CASE InsertRow(r)
  BY <1>0, <1>1, <1>2 DEF InsertRow
<1>3. CASE UpdateRow(r)
  BY <1>0, <1>1, <1>3 DEF UpdateRow
<1>4. CASE DeleteRow(r)
  BY <1>0, <1>4 DEF DeleteRow, Delete
<1> QED
  BY <1>0, <1>2, <1>3, <1>4, RowsAreWritten

\* The forms of the requests that do not step.
LEMMA OtherFormsStay ==
  ASSUME RequestTypes, MainInv, NEW r \in Req, ComponentStep(r) \/ Forbid(r) \/ Abort(r),
         NEW s \in Req \ {r}, FormInv(s)
  PROVE  FormInv(s)'
<1>1. form'[s] = form[s] /\ left'[s] = left[s] /\ held'[s] = held[s]
  <2>1. SaidBy(r)
    BY StepSays
  <2> QED
    BY <2>1 DEF SaidBy
<1>2. pc'[s] = pc[s] /\ op'[s] = op[s]
  <2>1. Overlaps
    BY DEF MainInv
  <2> QED
    BY <2>1, OverlapsStep
<1>3. FormFits(s)'
  BY <1>1 DEF FormInv, FormFits
<1>4. FormIsOwn(s)'
  BY <1>1, <1>2 DEF FormInv, FormIsOwn, Does, On
<1>5. InPlace(s)'
  BY Zenon, <1>2 DEF FormInv, InPlace, Does, On
<1> QED
  BY <1>1, <1>3, <1>4, <1>5 DEF FormInv

\* What the two components leave to a request that steps.
LEMMA AnsweredStaySo ==
  ASSUME RequestTypes, NEW r \in Req, ComponentStep(r) \/ Forbid(r) \/ Abort(r)
  PROVE  pc[r] \notin Answered
<1>1. CASE ComponentStep(r)
  BY <1>1, ComponentMoves DEF MovesAmong, AllLabels, Answered
<1>2. CASE Forbid(r)
  BY <1>2 DEF Forbid, TurnAway, Idle, Answered
<1>3. CASE Abort(r)
  BY <1>3 DEF Abort, InFlight
<1> QED
  BY <1>1, <1>2, <1>3

LEMMA RowsInvKept ==
  ASSUME RequestTypes, RefInv, MainInv, RowsInv, NEW r \in Req,
         ComponentStep(r) \/ Forbid(r) \/ Abort(r)
  PROVE  RowsInv'
<1>1. rows' = rows \/ RowMade(r) \/ RowChanged(r) \/ RowRemoved(r)
  BY RowsChange, RowsAreMasters DEF ComponentStep
<1>2. RowsFit'
  BY <1>1, RowsFitKept
<1>3. \A s \in Req \ {r} : pc'[s] = pc[s]
  <2>1. Overlaps
    BY DEF MainInv
  <2> QED
    BY <2>1, OverlapsStep
<1>4. RowsWereMade'
  <2>1. pc[r] \notin Answered
    BY AnsweredStaySo
  <2> QED
    BY <1>1, <1>3, <2>1, RowsWereMadeKept
<1>5. mains' \subseteq DOMAIN rows'
  <2>1. CASE MasterStep(r)
    BY <2>1, MainsAreRows
  <2>2. CASE ~MasterStep(r)
    BY <2>2, RowsAreMasters, RowsAreMasters DEF ComponentStep, RowsInv
  <2> QED
    BY <2>1, <2>2
<1>6. FormInv(r)'
  BY MasterBegins, MasterForms, TreasuryForms, OthersKeepForms DEF RowsInv, MasterStep,
     ComponentStep
<1>7. ASSUME NEW s \in Req PROVE FormInv(s)'
  <2>1. CASE s = r
    BY <1>6, <2>1
  <2>2. CASE s # r
    BY <2>2, OtherFormsStay DEF RowsInv
  <2> QED
    BY <2>1, <2>2
<1> QED
  BY <1>2, <1>4, <1>5, <1>7 DEF RowsInv

LEMMA RowsInvStep == RequestTypes /\ RefInv /\ MainInv /\ RowsInv /\ [Next]_vars => RowsInv'
<1> SUFFICES ASSUME RequestTypes, RefInv, MainInv, RowsInv, [Next]_vars PROVE RowsInv'
  OBVIOUS
<1>1. ASSUME NEW r \in Req, ComponentStep(r) \/ Forbid(r) \/ Abort(r) PROVE RowsInv'
  BY ONLY RequestTypes, RefInv, MainInv, RowsInv, r \in Req, <1>1, RowsInvKept
<1>2. CASE UNCHANGED vars \/ Worker
  <2>1. rows' = rows /\ mains' = mains /\ form' = form /\ left' = left /\ held' = held
        /\ pc' = pc /\ op' = op
    BY <1>2 DEF vars, Worker, Transmit, requestVars, masterVars
  <2>2. RowsFit' /\ RowsWereMade' /\ mains' \subseteq DOMAIN rows'
    BY <2>1 DEF RowsInv, RowsFit, RowsWereMade
  <2>3. ASSUME NEW s \in Req PROVE FormInv(s)'
    BY Zenon, <2>1 DEF RowsInv, FormInv, FormFits, FormIsOwn, Does, On, InPlace
  <2> QED
    BY <2>2, <2>3 DEF RowsInv
<1> QED
  BY <1>1, <1>2 DEF Next, ComponentStep

LEMMA MainInvAlways == Spec => []MainInv
<1>1. (RequestTypes /\ MainInv) /\ [Next]_vars => (RequestTypes /\ MainInv)'
  BY RequestTypesStep, MainInvStep
<1> QED
  BY <1>1, RequestTypesInit, InitMainInv, PTL DEF Spec

LEMMA RowsInvAlways == Spec => []RowsInv
BY RowsInvStep, InitRowsInv, RequestsTyped, RefInvAlways, MainInvAlways, PTL DEF Spec

-----------------------------------------------------------------------------
(***************************************************************************)
(* The theorem that reports are bounded by what was committed meanwhile.   *)
(*                                                                         *)
(* A report has added up some of its tables; the others it has yet to      *)
(* read.  What it has, with what the others say now, lies between the      *)
(* balance it started from less what was taken since, and that balance     *)
(* and what was added since: a document that comes, or an invoice that is  *)
(* cancelled, moves the bound at least as far as the sum.                  *)
(***************************************************************************)

-----------------------------------------------------------------------------
(* The reports and the tables they sum.                                    *)

LEMMA CashTables ==
  /\ DOMAIN CashBalance = 1 .. 4 /\ Cardinality(DOMAIN CashBalance) = 4
  /\ \A j \in 1 .. 4 : CashBalance[j].table
       = IF j = 1 THEN "collection" ELSE IF j = 2 THEN "income"
         ELSE IF j = 3 THEN "payment" ELSE "expense"
  /\ \A j \in 1 .. 4 : CashBalance[j].sign = IF j \in {1, 2} THEN 1 ELSE -1
<1>1. DOMAIN CashBalance = 1 .. 4
  BY DEF CashBalance
<1>2. Cardinality(1 .. 4) = 4
  BY CountTo
<1>3. \A j \in 1 .. 4 : j = 1 \/ j = 2 \/ j = 3 \/ j = 4
  OBVIOUS
<1> QED
  BY <1>1, <1>2, <1>3 DEF CashBalance

LEMMA BankTables ==
  /\ DOMAIN BankBalance = 1 .. 1 /\ Cardinality(DOMAIN BankBalance) = 1
  /\ BankBalance[1].table = "bank_transaction" /\ BankBalance[1].sign = 1
<1>1. DOMAIN BankBalance = 1 .. 1
  BY DEF BankBalance
<1>2. Cardinality(1 .. 1) = 1
  BY CountTo
<1> QED
  BY <1>1, <1>2 DEF BankBalance

LEMMA PartyTables ==
  /\ DOMAIN CustomerStatement = 1 .. 2 /\ Cardinality(DOMAIN CustomerStatement) = 2
  /\ CustomerStatement[1].table = "sales_invoice" /\ CustomerStatement[1].sign = 1
  /\ CustomerStatement[2].table = "collection" /\ CustomerStatement[2].sign = -1
  /\ DOMAIN SupplierStatement = 1 .. 2 /\ Cardinality(DOMAIN SupplierStatement) = 2
  /\ SupplierStatement[1].table = "purchase_invoice" /\ SupplierStatement[1].sign = 1
  /\ SupplierStatement[2].table = "payment" /\ SupplierStatement[2].sign = -1
BY CountTwo DEF CustomerStatement, SupplierStatement

\* A report reads each of its tables once, in order.
LEMMA ReportFacts ==
  ASSUME NEW on \in DOMAIN Reports
  PROVE  /\ on \in {"cash_account", "bank_account", "customer", "supplier"}
         /\ 1 \in DOMAIN Reports[on]
         /\ DOMAIN Reports[on] = 1 .. Cardinality(DOMAIN Reports[on])
         /\ Cardinality(DOMAIN Reports[on]) \in 1 .. 4
         /\ Later(on, Cardinality(DOMAIN Reports[on]) + 1) = {}
         /\ \A i \in DOMAIN Reports[on] :
              /\ Later(on, i) = Later(on, i + 1) \cup {Reports[on][i].table}
              /\ Reports[on][i].table \notin Later(on, i + 1)
              /\ Reports[on][i].sign \in {1, -1}
<1>1. on \in {"cash_account", "bank_account", "customer", "supplier"}
  BY DEF Reports
<1> DEFINE R == Reports[on]
<1>2. \E n \in 1 .. 4 :
        /\ DOMAIN R = 1 .. n /\ Cardinality(DOMAIN R) = n
        /\ \A i, j \in 1 .. n : R[i].table = R[j].table => i = j
        /\ \A i \in 1 .. n : R[i].sign \in {1, -1}
  <2>1. CASE on = "cash_account"
    <3>1. R = CashBalance
      BY <2>1 DEF Reports
    <3>2. /\ DOMAIN R = 1 .. 4 /\ Cardinality(DOMAIN R) = 4
          /\ \A j \in 1 .. 4 : R[j].table
               = IF j = 1 THEN "collection" ELSE IF j = 2 THEN "income"
                 ELSE IF j = 3 THEN "payment" ELSE "expense"
          /\ \A j \in 1 .. 4 : R[j].sign = IF j \in {1, 2} THEN 1 ELSE -1
      BY <3>1, CashTables
    <3> HIDE DEF R
    <3>3. \A i, j \in 1 .. 4 : R[i].table = R[j].table => i = j
      BY <3>2
    <3>4. \A i \in 1 .. 4 : R[i].sign \in {1, -1}
      BY <3>2
    <3> QED
      BY <3>2, <3>3, <3>4
  <2>2. CASE on = "bank_account"
    <3>1. R = BankBalance
      BY <2>2 DEF Reports
    <3> QED
      BY <3>1, BankTables
  <2>3. CASE on = "customer"
    BY <2>3, PartyTables DEF Reports
  <2>4. CASE on = "supplier"
    BY <2>4, PartyTables DEF Reports
  <2> QED
    BY <1>1, <2>1, <2>2, <2>3, <2>4
<1>3. Later(on, 1) = Later(on, 1) /\ \A i : Later(on, i) = {R[j].table : j \in {k \in DOMAIN R : k >= i}}
  BY DEF Later
<1> HIDE DEF R
<1>4. PICK n \in 1 .. 4 :
        /\ DOMAIN R = 1 .. n /\ Cardinality(DOMAIN R) = n
        /\ \A i, j \in 1 .. n : R[i].table = R[j].table => i = j
        /\ \A i \in 1 .. n : R[i].sign \in {1, -1}
  BY <1>2
<1>5. Later(on, n + 1) = {}
  BY <1>3, <1>4
<1>6. ASSUME NEW i \in 1 .. n
      PROVE  /\ Later(on, i) = Later(on, i + 1) \cup {R[i].table}
             /\ R[i].table \notin Later(on, i + 1)
  BY <1>3, <1>4
<1> QED
  BY <1>1, <1>4, <1>5, <1>6 DEF R

-----------------------------------------------------------------------------
(* What a document adds to a report, and to what came and went.            *)

LEMMA Pointers ==
  /\ \A on \in Resources : "cash_account" \in Services[on].links =>
       on \in {"expense", "income", "collection", "payment"}
  /\ \A on \in Resources : "customer" \in Services[on].links =>
       \/ on = "project"
       \/ on \in {"collection", "sales_invoice"} /\ "customer" \in Services[on].keeps
  /\ \A on \in Resources : "supplier" \in Services[on].links =>
       on \in {"payment", "purchase_invoice"} /\ "supplier" \in Services[on].keeps
<1>1. \A on \in {"bank", "brand", "cost_center", "department", "expense_category",
                 "income_category", "job_position", "payment_method", "tax_rate", "unit"} :
        Services[on].links \cap Reported = {}
  BY DEF Services, Service, BankService, BrandService, CostCenterService, DepartmentService,
     ExpenseCategoryService, IncomeCategoryService, JobPositionService,
     PaymentMethodService, TaxRateService, UnitService, Reported
<1>2. \A on \in {"category", "branch", "warehouse", "product", "customer", "supplier",
                 "employee"} :
        Services[on].links \cap Reported = {}
  BY DEF Services, Service, CategoryService, BranchService, WarehouseService,
     ProductService, CustomerService, SupplierService, EmployeeService, Reported
<1>3. \A on \in {"account", "cash_account", "bank_account", "bank_transaction",
                 "stock_movement"} :
        Services[on].links \cap Reported = {}
  BY DEF Services, Service, AccountService, CashAccountService, BankAccountService,
     BankTransactionService, StockMovementService, Reported
<1>4. /\ Services["expense"].links \cap Reported = {"cash_account"}
      /\ Services["income"].links \cap Reported = {"cash_account"}
      /\ Services["project"].links \cap Reported = {"customer"}
  BY DEF Services, Service, ExpenseService, IncomeService, ProjectService, Reported
<1>5. /\ Services["collection"].links \cap Reported = {"cash_account", "customer"}
      /\ Services["payment"].links \cap Reported = {"cash_account", "supplier"}
      /\ "customer" \in Services["collection"].keeps
      /\ "supplier" \in Services["payment"].keeps
  BY DEF Services, Service, CollectionService, PaymentService, Reported
<1>6. /\ Services["sales_invoice"].links \cap Reported = {"customer"}
      /\ Services["purchase_invoice"].links \cap Reported = {"supplier"}
      /\ "customer" \in Services["sales_invoice"].keeps
      /\ "supplier" \in Services["purchase_invoice"].keeps
  BY DEF Services, Service, SalesInvoiceService, PurchaseInvoiceService, Reported
<1>7. \A on \in Resources :
        \/ on \in {"bank", "brand", "cost_center", "department", "expense_category",
                  "income_category", "job_position", "payment_method", "tax_rate", "unit"}
        \/ on \in {"category", "branch", "warehouse", "product", "customer", "supplier",
                  "employee"}
        \/ on \in {"account", "cash_account", "bank_account", "bank_transaction",
                  "stock_movement"}
        \/ on \in {"expense", "income", "project", "collection", "payment",
                  "sales_invoice", "purchase_invoice"}
  BY DEF Resources, Services
<1>8. \A h \in Reported, on \in Resources :
        h \in Services[on].links => h \in Services[on].links \cap Reported
  OBVIOUS
<1>9. "cash_account" \in Reported /\ "customer" \in Reported /\ "supplier" \in Reported
  BY DEF Reported
<1>10. ASSUME NEW on \in Resources, NEW h \in Reported, h \in Services[on].links
       PROVE  /\ on \in {"expense", "income", "project", "collection", "payment",
                         "sales_invoice", "purchase_invoice"}
              /\ h \in Services[on].links \cap Reported
  BY ONLY on \in Resources, h \in Reported, <1>1, <1>2, <1>3, <1>7, <1>10
<1> HIDE DEF Reported
<1> QED
  BY ONLY <1>4, <1>5, <1>6, <1>9, <1>10

\* The rows that concern an account, and are about an amount, are documents; those
\* of a customer or a supplier keep it from being removed.
LEMMA TouchingRows ==
  ASSUME RowsFit, NEW id, id[1] \in DOMAIN Reports, NEW x, Touches(x, id)
  PROVE  /\ rows[x].value \in Int /\ id \in rows[x].links
         /\ \/ rows[x].value = 0 /\ x[1] = "project"
            \/ /\ x[1] \in Documented
               /\ \/ id[1] = "cash_account" /\ x[1] \in {"expense", "income", "collection", "payment"}
                  \/ id[1] = "bank_account" /\ x[1] = "bank_transaction"
                  \/ /\ id[1] = "customer" /\ x[1] \in {"collection", "sales_invoice"}
                     /\ id[1] \in Services[x[1]].keeps
                  \/ /\ id[1] = "supplier" /\ x[1] \in {"payment", "purchase_invoice"}
                     /\ id[1] \in Services[x[1]].keeps
         /\ x[1] \in Documented \ {"bank_transaction"} => rows[x].value > 0
BY ReportFacts, Pointers DEF Touches, Concerns, RowsFit, LinksFit, Ids, ValueFits,
   Documented, Valued

LEMMA TermsAreWhole ==
  ASSUME RowsFit, NEW x, NEW id, NEW T
  PROVE  /\ UpTerm(x, id) \in Int /\ LessTerm(x, id) \in Int /\ VoidTerm(x, id) \in Int
         /\ DownTerm(x, id) \in Int /\ DueTerm(x, id, T) \in Int
         /\ x \in DOMAIN rows => rows[x].value \in Int /\ Effect(x, id) \in Int
BY DEF RowsFit, ValueFits, Effect, UpTerm, LessTerm, DueTerm, Touches, VoidTerm,
   DownTerm

\* A row that is about no amount adds nothing.
LEMMA NothingFromNothing ==
  ASSUME NEW x, NEW id, rows[x].value \in Int, rows[x].value = 0, NEW T
  PROVE  UpTerm(x, id) = 0 /\ DownTerm(x, id) = 0 /\ DueTerm(x, id, T) = 0
<1>1. Effect(x, id) = 0
  <2>1. CASE Lessens(x, id)
    <3>1. Effect(x, id) = -rows[x].value
      BY <2>1 DEF Effect
    <3>2. \A v \in Int : -v = 0 - v
      OBVIOUS
    <3>3. rows[x].value \in Int
      OBVIOUS
    <3>4. Effect(x, id) = 0 - rows[x].value
      BY ONLY <3>1, <3>2, <3>3
    <3> QED
      BY <3>4
  <2>2. CASE ~Lessens(x, id)
    BY <2>2 DEF Effect
  <2> QED
    BY <2>1, <2>2
<1> QED
  BY <1>1 DEF UpTerm, DownTerm, LessTerm, VoidTerm, DueTerm

\* Rows of other tables than those of documents add nothing.
LEMMA QuietRows ==
  ASSUME RowsFit, NEW id, id[1] \in DOMAIN Reports,
         NEW x, x \in DOMAIN rows => x[1] \notin Documented, NEW T
  PROVE  UpTerm(x, id) = 0 /\ DownTerm(x, id) = 0 /\ DueTerm(x, id, T) = 0
<1>1. CASE ~Touches(x, id)
  BY <1>1 DEF UpTerm, DownTerm, LessTerm, VoidTerm, DueTerm
<1>2. CASE Touches(x, id)
  BY <1>2, TouchingRows, NothingFromNothing DEF Touches
<1> QED
  BY <1>1, <1>2

\* The sign a report gives a table is that of its documents, which all concern it.
LEMMA SignsAreEffects ==
  ASSUME RowsFit, NEW id, id[1] \in DOMAIN Reports, NEW i \in DOMAIN Reports[id[1]],
         NEW x \in DOMAIN rows, x[1] = Reports[id[1]][i].table, id \in rows[x].links
  PROVE  Touches(x, id) /\ Effect(x, id) = Reports[id[1]][i].sign * rows[x].value
<1>1. rows[x].value \in Int
  BY DEF RowsFit, ValueFits
<1>2. id[1] \in {"cash_account", "bank_account", "customer", "supplier"}
  BY ReportFacts
<1> DEFINE s == Reports[id[1]][i].sign
<1>3. /\ x[1] \in {"payment", "expense"} \/ (x[1] = "collection" /\ id[1] = "customer") => s = -1
      /\ ~(x[1] \in {"payment", "expense"} \/ (x[1] = "collection" /\ id[1] = "customer")) => s = 1
      /\ id[1] = "bank_account" => x[1] = "bank_transaction"
  <2>1. CASE id[1] = "cash_account"
    BY <2>1, CashTables DEF Reports
  <2>2. CASE id[1] = "bank_account"
    BY <2>2, BankTables DEF Reports
  <2>3. CASE id[1] = "customer"
    BY <2>3, PartyTables DEF Reports
  <2>4. CASE id[1] = "supplier"
    BY <2>4, PartyTables DEF Reports
  <2> QED
    BY <1>2, <2>1, <2>2, <2>3, <2>4
<1>4. Touches(x, id)
  BY <1>3 DEF Touches, Concerns
<1> HIDE DEF s
<1>5. CASE Lessens(x, id)
  BY <1>3, <1>5, <1>1, <1>4 DEF Lessens, Effect, s
<1>6. CASE ~Lessens(x, id)
  BY <1>3, <1>6, <1>1, <1>4 DEF Lessens, Effect, s
<1> QED
  BY <1>5, <1>6

\* What concerns an account and is about an amount is in one of the report's tables.
LEMMA TablesAreAll ==
  ASSUME RowsFit, NEW id, id[1] \in DOMAIN Reports, NEW x, Touches(x, id), rows[x].value # 0
  PROVE  x[1] \in Later(id[1], 1)
<1>1. \/ id[1] = "cash_account" /\ x[1] \in {"expense", "income", "collection", "payment"}
      \/ id[1] = "bank_account" /\ x[1] = "bank_transaction"
      \/ id[1] = "customer" /\ x[1] \in {"collection", "sales_invoice"}
      \/ id[1] = "supplier" /\ x[1] \in {"payment", "purchase_invoice"}
  BY TouchingRows
<1>2. SUFFICES \E j \in DOMAIN Reports[id[1]] : j >= 1 /\ Reports[id[1]][j].table = x[1]
  BY DEF Later
<1>3. CASE id[1] = "cash_account"
  BY <1>3, <1>1, CashTables DEF Reports
<1>4. CASE id[1] = "bank_account"
  BY <1>4, <1>1, BankTables DEF Reports
<1>5. CASE id[1] = "customer"
  BY <1>5, <1>1, PartyTables DEF Reports
<1>6. CASE id[1] = "supplier"
  BY <1>6, <1>1, PartyTables DEF Reports
<1> QED
  BY <1>1, <1>3, <1>4, <1>5, <1>6

-----------------------------------------------------------------------------
(* The folds of the reports, as sums over all rows.                        *)

LEMMA WorthIs ==
  ASSUME RowsFit, NEW S \in SUBSET DOMAIN rows
  PROVE  /\ Worth(S) = SumOf([x \in S |-> rows[x].value], S)
         /\ Worth(S) \in Int
<1> DEFINE g == [x \in S |-> rows[x].value]
           P(it) == it = [s \in SUBSET S |->
                            IF s = {} THEN 0
                            ELSE rows[CHOOSE x \in s : TRUE].value
                                   + it[s \ {CHOOSE x \in s : TRUE}]]
<1>1. \A it : P(it) <=> Iterates(it, g, S)
  BY DEF Iterates
<1>2. Worth(S) = (CHOOSE it : P(it))[S]
  BY DEF Worth, MapThenSumSet, MapThenFoldSet
<1>3. \A x \in S : g[x] \in Int
  BY DEF RowsFit, ValueFits
<1>4. IsFiniteSet(S)
  BY FS_Subset DEF RowsFit
<1> HIDE DEF P, g
<1>5. P(CHOOSE it : P(it))
  BY <1>1, <1>3, <1>4, FoldIs
<1>6. (CHOOSE it : P(it))[S] = SumOf(g, S)
  BY <1>1, <1>3, <1>4, <1>5, FoldIs
<1>7. SumOf(g, S) \in Int
  BY <1>3, <1>4, SumFacts
<1> QED
  BY <1>2, <1>6, <1>7 DEF g

LEMMA LessIs ==
  ASSUME RowsFit, NEW id, NEW S \in SUBSET DOMAIN rows
  PROVE  MapThenSumSet(LAMBDA x : -Effect(x, id), S) = SumOf([x \in S |-> -Effect(x, id)], S)
<1> DEFINE g == [x \in S |-> -Effect(x, id)]
           P(it) == it = [s \in SUBSET S |->
                            IF s = {} THEN 0
                            ELSE -Effect(CHOOSE x \in s : TRUE, id)
                                   + it[s \ {CHOOSE x \in s : TRUE}]]
<1>1. \A it : P(it) <=> Iterates(it, g, S)
  BY DEF Iterates
<1>2. MapThenSumSet(LAMBDA x : -Effect(x, id), S) = (CHOOSE it : P(it))[S]
  BY DEF MapThenSumSet, MapThenFoldSet
<1>3. \A x \in S : g[x] \in Int
  <2> SUFFICES ASSUME NEW x \in S PROVE g[x] \in Int
    OBVIOUS
  <2>1. Effect(x, id) \in Int
    BY TermsAreWhole
  <2> QED
    BY <2>1
<1>4. IsFiniteSet(S)
  BY FS_Subset DEF RowsFit
<1> HIDE DEF P, g
<1>5. P(CHOOSE it : P(it))
  BY <1>1, <1>3, <1>4, FoldIs
<1>6. (CHOOSE it : P(it))[S] = SumOf(g, S)
  BY <1>1, <1>3, <1>4, <1>5, FoldIs
<1> QED
  BY Zenon, <1>2, <1>6 DEF g

LEMMA UpIs ==
  ASSUME RowsFit, NEW id, id[1] \in DOMAIN Reports
  PROVE  Up(id) = UpSum(id) /\ Up(id) \in Int
<1> DEFINE S == {x \in Moves(id) : Effect(x, id) > 0}
           f == [x \in S |-> rows[x].value]
           g == [x \in DOMAIN rows |-> UpTerm(x, id)]
<1>1. S \in SUBSET DOMAIN rows
  BY DEF Moves
<1>2. Worth(S) = SumOf(f, S) /\ Worth(S) \in Int
  BY <1>1, WorthIs
<1>3. ASSUME NEW x \in S PROVE f[x] \in Int /\ g[x] = f[x]
  <2>1. Touches(x, id) /\ Effect(x, id) > 0 /\ x \in DOMAIN rows
    BY DEF Moves, Touches
  <2>2. ~Lessens(x, id)
    <3>1. SUFFICES ASSUME Lessens(x, id) PROVE FALSE
      OBVIOUS
    <3>2. x[1] \in Documented \ {"bank_transaction"}
      BY <3>1 DEF Lessens, Documented
    <3>3. rows[x].value \in Int /\ rows[x].value > 0
      BY <2>1, <3>2, TouchingRows
    <3>4. Effect(x, id) = -rows[x].value
      BY <3>1 DEF Effect
    <3> QED
      BY ONLY <2>1, <3>3, <3>4
  <2>3. Effect(x, id) = rows[x].value
    BY <2>2 DEF Effect
  <2>4. UpTerm(x, id) = rows[x].value /\ rows[x].value \in Int
    BY <2>1, <2>3, TermsAreWhole DEF UpTerm
  <2> QED
    BY <1>1, <2>4
<1>4. \A x \in DOMAIN rows \ S : g[x] = 0
  BY DEF UpTerm, Moves, Touches
<1>5. IsFiniteSet(DOMAIN rows)
  BY DEF RowsFit
<1>6. SumOf(g, DOMAIN rows) = SumOf(f, S)
  <2> HIDE DEF S, f, g
  <2> QED
    BY <1>1, <1>3, <1>4, <1>5, SumWiden
<1> QED
  BY <1>2, <1>6 DEF Up, UpSum

LEMMA DownIs ==
  ASSUME RowsFit, NEW id
  PROVE  Down(id) = DownSum(id) /\ Down(id) \in Int
<1> DEFINE S == {x \in Moves(id) : Effect(x, id) < 0}
           V == Moves(id) \cap voided
           f == [x \in S |-> -Effect(x, id)]
           e == [x \in V |-> rows[x].value]
           less == [x \in DOMAIN rows |-> LessTerm(x, id)]
           void == [x \in DOMAIN rows |-> VoidTerm(x, id)]
           both == [x \in DOMAIN rows |-> DownTerm(x, id)]
<1>1. S \in SUBSET DOMAIN rows /\ V \in SUBSET DOMAIN rows /\ IsFiniteSet(DOMAIN rows)
  BY DEF Moves, RowsFit
<1>2. MapThenSumSet(LAMBDA x : -Effect(x, id), S) = SumOf(f, S)
  BY Zenon, <1>1, LessIs
<1>3. Worth(V) = SumOf(e, V)
  BY <1>1, WorthIs
<1>4. SumOf(less, DOMAIN rows) = SumOf(f, S)
  <2>1. ASSUME NEW x \in S PROVE f[x] \in Int /\ less[x] = f[x]
    BY <1>1, TermsAreWhole DEF LessTerm, Touches, Moves
  <2>2. \A x \in DOMAIN rows \ S : less[x] = 0
    BY DEF LessTerm, Moves, Touches
  <2> HIDE DEF S, f, less
  <2> QED
    BY <1>1, <2>1, <2>2, SumWiden
<1>5. SumOf(void, DOMAIN rows) = SumOf(e, V)
  <2>1. ASSUME NEW x \in V PROVE e[x] \in Int /\ void[x] = e[x]
    BY <1>1, TermsAreWhole DEF VoidTerm, Touches, Moves
  <2>2. \A x \in DOMAIN rows \ V : void[x] = 0
    BY DEF VoidTerm, Moves, Touches
  <2> HIDE DEF V, e, void
  <2> QED
    BY <1>1, <2>1, <2>2, SumWiden
<1>6. \A x \in DOMAIN rows : less[x] \in Int /\ void[x] \in Int /\ both[x] = less[x] + void[x]
  BY TermsAreWhole DEF DownTerm
<1>7. /\ SumOf(both, DOMAIN rows) = SumOf(less, DOMAIN rows) + SumOf(void, DOMAIN rows)
      /\ SumOf(less, DOMAIN rows) \in Int /\ SumOf(void, DOMAIN rows) \in Int
  <2> HIDE DEF less, void, both
  <2>1. SumOf(both, DOMAIN rows) = SumOf(less, DOMAIN rows) + SumOf(void, DOMAIN rows)
    BY <1>1, <1>6, SumPlus
  <2>2. SumOf(less, DOMAIN rows) \in Int /\ SumOf(void, DOMAIN rows) \in Int
    BY <1>1, <1>6, SumFacts
  <2> QED
    BY <2>1, <2>2
<1>8. Down(id) = SumOf(f, S) + SumOf(e, V)
  BY Zenon, <1>2, <1>3 DEF Down
<1> HIDE DEF S, V, f, e, less, void
<1> QED
  BY <1>4, <1>5, <1>7, <1>8 DEF DownSum

\* A report that begins has all of the balance before it.
LEMMA AllIsDue ==
  ASSUME RowsFit, Voids, NEW id, id[1] \in DOMAIN Reports
  PROVE  /\ UpSum(id) = DueSum(id, Later(id[1], 1)) + DownSum(id)
         /\ DueSum(id, Later(id[1], 1)) \in Int
<1> DEFINE T == Later(id[1], 1)
           up == [x \in DOMAIN rows |-> UpTerm(x, id)]
           down == [x \in DOMAIN rows |-> DownTerm(x, id)]
           due == [x \in DOMAIN rows |-> DueTerm(x, id, T)]
<1>1. IsFiniteSet(DOMAIN rows)
  BY DEF RowsFit
<1>2. ASSUME NEW x \in DOMAIN rows
      PROVE  UpTerm(x, id) = DueTerm(x, id, T) + DownTerm(x, id)
  <2>0. rows[x].value \in Int /\ Effect(x, id) \in Int
    BY TermsAreWhole
  <2>1. CASE ~Touches(x, id)
    BY <2>1 DEF UpTerm, DownTerm, LessTerm, VoidTerm, DueTerm
  <2>2. CASE Touches(x, id) /\ x \in voided
    BY <2>2, TouchingRows, <2>0 DEF Voids, Effect, Lessens, Documented, UpTerm,
       DownTerm, LessTerm, VoidTerm, DueTerm
  <2>3. CASE Touches(x, id) /\ x \notin voided /\ rows[x].value = 0
    BY <2>0, <2>3, NothingFromNothing
  <2>4. CASE Touches(x, id) /\ x \notin voided /\ rows[x].value # 0
    BY <2>4, TablesAreAll, <2>0, TermsAreWhole DEF VoidTerm, DueTerm, UpTerm, LessTerm,
       DownTerm
  <2> QED
    BY <2>1, <2>2, <2>3, <2>4
<1>3. \A x \in DOMAIN rows : due[x] \in Int /\ down[x] \in Int /\ up[x] = due[x] + down[x]
  BY <1>2, TermsAreWhole
<1>4. SumOf(up, DOMAIN rows) = SumOf(due, DOMAIN rows) + SumOf(down, DOMAIN rows)
  <2> HIDE DEF up, down, due
  <2> QED
    BY <1>1, <1>3, SumPlus
<1>5. SumOf(due, DOMAIN rows) \in Int
  <2> HIDE DEF due
  <2> QED
    BY <1>1, <1>3, SumFacts
<1> QED
  BY <1>4, <1>5 DEF UpSum, DownSum, DueSum

\* One statement of a report takes from what is due what it adds.
LEMMA DueStatement ==
  ASSUME RowsFit, NEW id, id[1] \in DOMAIN Reports, NEW i \in DOMAIN Reports[id[1]]
  PROVE  LET s == Reports[id[1]][i] IN
         /\ DueSum(id, Later(id[1], i))
              = DueSum(id, Later(id[1], i + 1)) + s.sign * Worth(Documents(s.table, id))
         /\ s.sign * Worth(Documents(s.table, id)) \in Int
         /\ DueSum(id, Later(id[1], i + 1)) \in Int
<1> DEFINE s == Reports[id[1]][i]
           D == Documents(s.table, id)
           value == [x \in D |-> rows[x].value]
           signed == [x \in D |-> s.sign * rows[x].value]
           one == [x \in DOMAIN rows |-> IF x \in D THEN s.sign * rows[x].value ELSE 0]
           due == [x \in DOMAIN rows |-> DueTerm(x, id, Later(id[1], i))]
           next == [x \in DOMAIN rows |-> DueTerm(x, id, Later(id[1], i + 1))]
<1>1. IsFiniteSet(DOMAIN rows) /\ D \in SUBSET DOMAIN rows /\ s.sign \in {1, -1}
  BY ReportFacts DEF RowsFit, Documents, Peers
<1>2. IsFiniteSet(D)
  BY <1>1, FS_Subset
<1>3. \A x \in DOMAIN rows : rows[x].value \in Int
  BY DEF RowsFit, ValueFits
<1>4. ASSUME NEW x \in DOMAIN rows PROVE due[x] = next[x] + one[x] /\ next[x] \in Int /\ one[x] \in Int
  <2>1. /\ Later(id[1], i) = Later(id[1], i + 1) \cup {s.table}
        /\ s.table \notin Later(id[1], i + 1)
    BY ReportFacts
  <2>2. x \in D <=> x[1] = s.table /\ x \notin voided /\ id \in rows[x].links
    BY DEF Documents, Peers
  <2>3. next[x] \in Int /\ one[x] \in Int
    BY <1>1, <1>3, TermsAreWhole
  <2>4. CASE x \in D
    BY <2>2, <2>4, SignsAreEffects, <2>1, <2>3 DEF DueTerm
  <2>5. CASE x \notin D
    BY <2>1, <2>2, <2>5, <2>3 DEF DueTerm, Touches, Concerns
  <2> QED
    BY <2>3, <2>4, <2>5
<1>5. SumOf(due, DOMAIN rows) = SumOf(next, DOMAIN rows) + SumOf(one, DOMAIN rows)
      /\ SumOf(next, DOMAIN rows) \in Int
  <2> HIDE DEF due, next, one
  <2> QED
    BY <1>1, <1>4, SumPlus, SumFacts
<1>6. SumOf(one, DOMAIN rows) = SumOf(signed, D)
  <2>1. \A x \in D : signed[x] \in Int /\ one[x] = signed[x]
    BY <1>1, <1>3
  <2>2. \A x \in DOMAIN rows \ D : one[x] = 0
    OBVIOUS
  <2> HIDE DEF one, signed, D
  <2> QED
    BY <1>1, <2>1, <2>2, SumWiden
<1>7. Worth(D) = SumOf(value, D) /\ Worth(D) \in Int
  BY <1>1, WorthIs
<1>8. SumOf(signed, D) = s.sign * Worth(D)
  <2>1. CASE s.sign = 1
    <3>1. \A x \in D : value[x] \in Int /\ signed[x] = value[x]
      BY <1>1, <1>3, <2>1
    <3>2. SumOf(signed, D) = SumOf(value, D)
      <4> HIDE DEF value, signed, D
      <4> QED
        BY <1>2, <3>1, SumSame
    <3> QED
      BY <1>7, <2>1, <3>2
  <2>2. CASE s.sign = -1
    <3> DEFINE zero == [x \in D |-> 0]
    <3>1. \A x \in D : value[x] \in Int /\ signed[x] \in Int /\ zero[x] = value[x] + signed[x]
      BY <1>1, <1>3, <2>2
    <3>2. \A x \in D : zero[x] = 0
      OBVIOUS
    <3>3. SumOf(zero, D) = SumOf(value, D) + SumOf(signed, D) /\ SumOf(zero, D) = 0
          /\ SumOf(signed, D) \in Int
      <4> HIDE DEF value, signed, zero, D
      <4> QED
        BY <1>2, <3>1, <3>2, SumPlus, SumZero, SumFacts
    <3> HIDE DEF zero, value, signed, D
    <3> QED
      BY <1>7, <2>2, <3>3
  <2> QED
    BY <1>1, <2>1, <2>2
<1> HIDE DEF D, value, signed, one
<1>9. SumOf(due, DOMAIN rows) = SumOf(next, DOMAIN rows) + s.sign * Worth(D)
  BY <1>5, <1>6, <1>8
<1>10. s.sign * Worth(D) \in Int
  BY <1>1, <1>7
<1> QED
  BY <1>5, <1>9, <1>10 DEF D, DueSum

-----------------------------------------------------------------------------
(* A step moves the bounds at least as far as what is due.                 *)

LEMMA QuietNow == QuietFact
BY QuietRows DEF QuietFact

LEMMA QuietThen == QuietFact'
BY QuietNow, PTL

LEMMA WholeNow == WholeFact
BY TermsAreWhole DEF WholeFact

LEMMA WholeThen == WholeFact'
BY WholeNow, PTL

LEMMA SameTerms ==
  ASSUME RowsFit, NEW x, NEW id, NEW T,
         x \in DOMAIN rows' <=> x \in DOMAIN rows, x \in voided' <=> x \in voided,
         x \in DOMAIN rows => /\ rows'[x].value = rows[x].value
                              /\ id \in rows'[x].links <=> id \in rows[x].links
  PROVE  MovesWithin(x, id, T)
<1>1. Touches(x, id)' <=> Touches(x, id)
  BY DEF Touches, Concerns
<1>2. x \in DOMAIN rows => Effect(x, id)' = Effect(x, id)
  BY DEF Effect, Lessens
<1>3. /\ UpTerm(x, id)' = UpTerm(x, id) /\ LessTerm(x, id)' = LessTerm(x, id)
      /\ DueTerm(x, id, T)' = DueTerm(x, id, T)
  BY <1>1, <1>2 DEF UpTerm, LessTerm, DueTerm, Touches
<1>4. VoidTerm(x, id)' = VoidTerm(x, id)
  BY <1>1 DEF VoidTerm, Touches
<1>5. DownTerm(x, id)' = DownTerm(x, id)
  BY <1>3, <1>4 DEF DownTerm
<1>6. /\ UpTerm(x, id) \in Int /\ DownTerm(x, id) \in Int /\ DueTerm(x, id, T) \in Int
  BY TermsAreWhole
<1> QED
  BY <1>3, <1>5, <1>6 DEF MovesWithin

\* Nothing before, nothing after.
LEMMA QuietMoves ==
  ASSUME NEW x, NEW id, NEW T,
         UpTerm(x, id) = 0, DownTerm(x, id) = 0, DueTerm(x, id, T) = 0,
         UpTerm(x, id)' = 0, DownTerm(x, id)' = 0, DueTerm(x, id, T)' = 0
  PROVE  MovesWithin(x, id, T)
BY DEF MovesWithin

\* A new document, not cancelled, is due or not.
LEMMA ComingMoves ==
  ASSUME RowsFit', NEW x, NEW id, NEW T, x \notin DOMAIN rows, x \notin voided'
  PROVE  MovesWithin(x, id, T)
<1>1. UpTerm(x, id) = 0 /\ DownTerm(x, id) = 0 /\ DueTerm(x, id, T) = 0
  BY DEF UpTerm, DownTerm, LessTerm, VoidTerm, DueTerm, Touches
<1>2. CASE ~Touches(x, id)'
  BY <1>2, <1>1, QuietMoves DEF UpTerm, DownTerm, LessTerm, VoidTerm, DueTerm
<1>3. CASE Touches(x, id)'
  <2>1. Effect(x, id)' \in Int
    BY <1>3, WholeThen DEF WholeFact, Touches
  <2>2. /\ UpTerm(x, id)' = IF Effect(x, id)' > 0 THEN Effect(x, id)' ELSE 0
        /\ LessTerm(x, id)' = IF Effect(x, id)' < 0 THEN -Effect(x, id)' ELSE 0
        /\ VoidTerm(x, id)' = 0
        /\ DueTerm(x, id, T)' \in {0, Effect(x, id)'}
    BY <1>3 DEF UpTerm, LessTerm, VoidTerm, DueTerm
  <2>3. DownTerm(x, id)' = LessTerm(x, id)' + VoidTerm(x, id)'
    BY DEF DownTerm
  <2> QED
    BY <1>1, <2>1, <2>2, <2>3 DEF MovesWithin
<1> QED
  BY <1>2, <1>3

\* An invoice that is cancelled.
LEMMA VoidMoves ==
  ASSUME RowsFit, NEW x, NEW id, id[1] \in DOMAIN Reports, NEW T, rows' = rows,
         x \in DOMAIN rows, x[1] = "sales_invoice", x \notin voided, x \in voided'
  PROVE  MovesWithin(x, id, T)
<1>1. Touches(x, id)' <=> Touches(x, id)
  BY DEF Touches, Concerns
<1>2. Effect(x, id)' = Effect(x, id) /\ Effect(x, id) \in Int
  BY TermsAreWhole DEF Effect, Lessens
<1>3. CASE ~Touches(x, id)
  BY <1>1, <1>3, QuietMoves DEF UpTerm, DownTerm, LessTerm, VoidTerm, DueTerm
<1>4. CASE Touches(x, id)
  BY TermsAreWhole, <1>4, TouchingRows, <1>1, <1>2 DEF Effect, Lessens, Documented,
     UpTerm, LessTerm, VoidTerm, DueTerm, DownTerm, MovesWithin
<1> QED
  BY <1>3, <1>4

LEMMA TermsMove ==
  ASSUME RequestTypes, RowsInv, RowsFit', Voids, NEW r \in Req, DocumentsStep(r),
         NEW id, id[1] \in DOMAIN Reports, NEW x, NEW T
  PROVE  MovesWithin(x, id, T)
<1>0. RowsFit
  BY DEF RowsInv
<1>1. CASE rows' = rows /\ voided' = voided
  BY <1>0, <1>1, SameTerms
<1>2. CASE /\ rows' = rows /\ voided' = voided \cup {Row(r)}
           /\ Row(r) \in DOMAIN rows /\ Row(r)[1] = "sales_invoice"
  BY <1>0, <1>2, VoidMoves, SameTerms
<1>3. CASE voided' = voided /\ RowMade(r)
  <2>1. CASE x = Row(r)
    BY <1>3, <2>1, ComingMoves DEF RowMade, Voids
  <2>2. CASE x # Row(r)
    BY <1>0, <1>3, <2>2, SameTerms DEF RowMade
  <2> QED
    BY <2>1, <2>2
<1>4. CASE voided' = voided /\ RowChanged(r)
  <2>1. pc[r] \in RowLabels \ {"page", "total"} /\ Does(r, "update")
    BY Zenon, <1>4 DEF RowChanged, RowsInv, FormInv, InPlace, RowLabels, MasterLabels
  <2>2. Lasting(op[r]) /\ Row(r)[1] = On(r)
    BY <2>1, InHand
  <2>3. Row(r)[1] \notin Documented
    BY <2>1, <2>2 DEF Lasting, Does, On
  <2>4. CASE x = Row(r)
    BY <1>0, <2>3, <2>4, QuietRows, QuietThen, QuietMoves DEF QuietFact
  <2>5. CASE x # Row(r)
    BY <1>0, <1>4, <2>5, SameTerms DEF RowChanged
  <2> QED
    BY <2>4, <2>5
<1>5. CASE voided' = voided /\ RowRemoved(r)
  <2>1. pc[r] \in RowLabels \ {"page", "total"} /\ Does(r, "remove")
    BY Zenon, <1>5 DEF RowRemoved, RowsInv, FormInv, InPlace, RowLabels, MasterLabels
  <2>2. Lasting(op[r]) /\ Row(r)[1] = On(r)
    BY <2>1, InHand
  <2>3. Row(r)[1] \notin Documented \cup {"cash_account", "bank_account"}
    BY <2>1, <2>2 DEF Lasting, Does, On
  <2>4. CASE x = Row(r)
    BY <1>0, <2>3, <2>4, QuietRows, <1>5, QuietMoves DEF RowRemoved, UpTerm, DownTerm,
       LessTerm, VoidTerm, DueTerm, Touches
  <2>5. CASE x # Row(r) /\ id # Row(r)
    BY <1>5, <2>5, <1>0, SameTerms DEF RowRemoved
  <2>6. CASE x # Row(r) /\ id = Row(r)
    <3>1. x \in DOMAIN rows => id \notin rows'[x].links
      BY <1>5, <2>6 DEF RowRemoved
    <3>2. ~Touches(x, id)'
      BY <1>5, <2>6, <3>1 DEF Touches, Concerns, RowRemoved
    <3>3. UpTerm(x, id)' = 0 /\ DownTerm(x, id)' = 0 /\ DueTerm(x, id, T)' = 0
      BY <3>2 DEF UpTerm, DownTerm, LessTerm, VoidTerm, DueTerm
    <3>4. CASE ~Touches(x, id)
      BY <3>4, <3>3, QuietMoves DEF UpTerm, DownTerm, LessTerm, VoidTerm, DueTerm
    <3>5. CASE Touches(x, id)
      <4>1. x \in DOMAIN rows /\ id \in rows[x].links
        BY <3>5 DEF Touches, Concerns
      <4>2. id[1] \notin Services[x[1]].keeps
        BY <1>5, <2>6, <4>1 DEF RowRemoved, Needed
      <4>3. rows[x].value = 0 /\ rows[x].value \in Int
        BY <1>0, <2>3, <2>6, <3>5, <4>2, TouchingRows
      <4>4. UpTerm(x, id) = 0 /\ DownTerm(x, id) = 0 /\ DueTerm(x, id, T) = 0
        BY <4>3, NothingFromNothing
      <4> QED
        BY <3>3, <4>4, QuietMoves
    <3> QED
      BY <3>4, <3>5
  <2> QED
    BY <2>4, <2>5, <2>6
<1> QED
  BY <1>1, <1>2, <1>3, <1>4, <1>5 DEF DocumentsStep

LEMMA SumsMove ==
  ASSUME RowsFit, RowsFit', NEW id, NEW T, \A x : MovesWithin(x, id, T)
  PROVE  /\ DueSum(id, T)' + UpSum(id) <= UpSum(id)' + DueSum(id, T)
         /\ DueSum(id, T) + DownSum(id) <= DownSum(id)' + DueSum(id, T)'
         /\ DueSum(id, T) \in Int /\ DueSum(id, T)' \in Int
         /\ UpSum(id) \in Int /\ UpSum(id)' \in Int
         /\ DownSum(id) \in Int /\ DownSum(id)' \in Int
<1> DEFINE A == DOMAIN rows
           B == DOMAIN rows'
           up == [x \in A |-> UpTerm(x, id)]
           down == [x \in A |-> DownTerm(x, id)]
           due == [x \in A |-> DueTerm(x, id, T)]
           notdue == [x \in A |-> -DueTerm(x, id, T)]
           Up1 == [x \in B |-> UpTerm(x, id)']
           Down1 == [x \in B |-> DownTerm(x, id)']
           Due1 == [x \in B |-> DueTerm(x, id, T)']
           Notdue1 == [x \in B |-> -(DueTerm(x, id, T)')]
<1>1. IsFiniteSet(A) /\ IsFiniteSet(B)
  BY DEF RowsFit
<1>2. \A x : UpTerm(x, id) \in Int /\ DownTerm(x, id) \in Int /\ DueTerm(x, id, T) \in Int
  BY TermsAreWhole
<1>3. \A x : UpTerm(x, id)' \in Int /\ DownTerm(x, id)' \in Int /\ DueTerm(x, id, T)' \in Int
  BY WholeThen DEF WholeFact
<1>4. \A x : x \notin A => UpTerm(x, id) = 0 /\ DownTerm(x, id) = 0 /\ DueTerm(x, id, T) = 0
  BY DEF UpTerm, DownTerm, LessTerm, VoidTerm, DueTerm, Touches
<1>5. \A x : x \notin B => UpTerm(x, id)' = 0 /\ DownTerm(x, id)' = 0 /\ DueTerm(x, id, T)' = 0
  BY DEF UpTerm, DownTerm, LessTerm, VoidTerm, DueTerm, Touches
<1>6. \A x : /\ DueTerm(x, id, T)' + UpTerm(x, id) <= UpTerm(x, id)' + DueTerm(x, id, T)
             /\ DueTerm(x, id, T) + DownTerm(x, id) <= DownTerm(x, id)' + DueTerm(x, id, T)'
  BY DEF MovesWithin
<1>7. /\ SumOf(due, A) + SumOf(down, A) <= SumOf(Down1, B) + SumOf(Due1, B)
      /\ SumOf(due, A) \in Int /\ SumOf(down, A) \in Int
      /\ SumOf(Down1, B) \in Int /\ SumOf(Due1, B) \in Int
  <2>1. \A x \in A : due[x] \in Int /\ down[x] \in Int
    BY ONLY <1>2
  <2>2. \A x \in B : Down1[x] \in Int /\ Due1[x] \in Int
    BY ONLY <1>3
  <2>3. \A x \in A \cap B : due[x] + down[x] <= Down1[x] + Due1[x]
    BY ONLY <1>6
  <2>4. \A x \in A \ B : due[x] + down[x] <= 0
    BY ONLY <1>2, <1>5, <1>6
  <2>5. \A x \in B \ A : 0 <= Down1[x] + Due1[x]
    BY ONLY <1>3, <1>4, <1>6
  <2> HIDE DEF A, B, due, down, Due1, Down1
  <2> QED
    BY <1>1, <2>1, <2>2, <2>3, <2>4, <2>5, SumsCompare
<1>8. /\ SumOf(up, A) + SumOf(notdue, A) <= SumOf(Up1, B) + SumOf(Notdue1, B)
      /\ SumOf(up, A) \in Int /\ SumOf(notdue, A) \in Int
      /\ SumOf(Up1, B) \in Int /\ SumOf(Notdue1, B) \in Int
  <2>1. \A x \in A : up[x] \in Int /\ notdue[x] \in Int
    BY ONLY <1>2
  <2>2. \A x \in B : Up1[x] \in Int /\ Notdue1[x] \in Int
    BY ONLY <1>3
  <2>3. \A x \in A \cap B : up[x] + notdue[x] <= Up1[x] + Notdue1[x]
    BY ONLY <1>2, <1>3, <1>6
  <2>4. \A x \in A \ B : up[x] + notdue[x] <= 0
    BY ONLY <1>2, <1>5, <1>6
  <2>5. \A x \in B \ A : 0 <= Up1[x] + Notdue1[x]
    BY ONLY <1>3, <1>4, <1>6
  <2> HIDE DEF A, B, up, notdue, Up1, Notdue1
  <2> QED
    BY <1>1, <2>1, <2>2, <2>3, <2>4, <2>5, SumsCompare
<1>9. SumOf(notdue, A) = 0 - SumOf(due, A)
  <2>1. \A x \in A : due[x] \in Int /\ notdue[x] = -due[x]
    BY ONLY <1>2
  <2> HIDE DEF A, due, notdue
  <2> QED
    BY <1>1, <2>1, SumMinus
<1>10. SumOf(Notdue1, B) = 0 - SumOf(Due1, B)
  <2>1. \A x \in B : Due1[x] \in Int /\ Notdue1[x] = -Due1[x]
    BY ONLY <1>3
  <2> HIDE DEF B, Due1, Notdue1
  <2> QED
    BY <1>1, <2>1, SumMinus
<1>11. /\ UpSum(id) = SumOf(up, A) /\ DownSum(id) = SumOf(down, A) /\ DueSum(id, T) = SumOf(due, A)
       /\ UpSum(id)' = SumOf(Up1, B) /\ DownSum(id)' = SumOf(Down1, B)
       /\ DueSum(id, T)' = SumOf(Due1, B)
  BY DEF UpSum, DownSum, DueSum
<1> HIDE DEF A, B, up, down, due, notdue, Up1, Down1, Due1, Notdue1
<1>12. SumOf(Due1, B) + SumOf(up, A) <= SumOf(Up1, B) + SumOf(due, A)
  BY ONLY <1>7, <1>8, <1>9, <1>10
<1> QED
  BY ONLY <1>7, <1>8, <1>11, <1>12

\* Nothing is due of no table.
LEMMA NothingDue ==
  ASSUME RowsFit, NEW id PROVE DueSum(id, {}) = 0
<1> DEFINE due == [x \in DOMAIN rows |-> DueTerm(x, id, {})]
<1>1. \A x \in DOMAIN rows : due[x] = 0
  BY DEF DueTerm
<1>2. IsFiniteSet(DOMAIN rows)
  BY DEF RowsFit
<1>3. SumOf(due, DOMAIN rows) = 0
  <2> HIDE DEF due
  <2> QED
    BY <1>1, <1>2, SumZero
<1> QED
  BY <1>3 DEF DueSum

-----------------------------------------------------------------------------
(* The invariant of the reports.                                           *)

LEMMA InitReportInv == Init => ReportInv
BY DEF Init, TreasuryInit, RequestsInit, ReportTypes, Voids, NotBegun, NoOp, Does,
   ReportInv, ReportFits, ReportAt, Reporting

\* The account a report is about.
LEMMA ReportRow ==
  ASSUME RequestTypes, RowsInv, NEW k \in Req, Does(k, "report"),
         pc[k] \in {"find account", "sum", "ok"}
  PROVE  Row(k)[1] = On(k) /\ Row(k) \in Ids
<1>1. op[k] \in RowOps
  <2>1. NoOp[1] # "report"
    BY Zenon DEF NoOp
  <2>2. op[k] \in Ops
    BY Zenon, <2>1 DEF RequestTypes, Does
  <2> QED
    BY Zenon, <2>2 DEF Does, RowOps, TreasuryOps
<1>2. FormInv(k)
  BY Zenon DEF RowsInv
<1>3. ~Does(k, "list")
  BY Zenon DEF Does
<1>4. pc[k] \notin {"idle", "forbidden"}
  OBVIOUS
<1> QED
  BY Zenon, <1>1, <1>2, <1>3, <1>4 DEF FormInv, FormIsOwn, Row

-----------------------------------------------------------------------------
(* What a step leaves to the reports of others.                            *)

LEMMA TreasuryAlone ==
  ASSUME NEW r \in Req,
         \/ MasterStep(r) \/ JournalStep(r) \/ PersonnelStep(r) \/ EDocumentsStep(r)
         \/ FilesStep(r) \/ ProjectsStep(r) \/ AccessStep(r) \/ MembersStep(r)
         \/ Forbid(r) \/ Abort(r)
  PROVE  UNCHANGED treasuryVars
BY DEF MasterStep, JournalStep, PersonnelStep, EDocumentsStep, FilesStep, ProjectsStep,
   AccessStep, MembersStep, Forbid, Abort

LEMMA TreasuryTouches ==
  ASSUME ReportTypes, NEW r \in Req, TreasuryStep(r)
  PROVE  \A s \in Req \ {r} : /\ sofar'[s] = sofar[s] /\ before'[s] = before[s]
                              /\ reading'[s] = reading[s]
BY Zenon DEF TreasuryStart, StartReport, StartCancel, treasuryVars, FindAccount, ReportTypes,
   SumNext, FindInvoice, CancelInvoice, TreasuryStep, TreasuryWork

LEMMA StepsDocuments ==
  ASSUME RequestTypes, RefInv, RowsInv, ReportInv, NEW r \in Req,
         ComponentStep(r) \/ Forbid(r) \/ Abort(r)
  PROVE  DocumentsStep(r)
<1>1. CASE MasterStep(r)
  BY <1>1, TreasuryAlone, RowsChange DEF treasuryVars, DocumentsStep
<1>2. CASE CancelInvoice(r) /\ TreasuryStep(r)
  <2>1. pc[r] = "void" /\ voided' = voided \cup {Row(r)}
    BY <1>2 DEF CancelInvoice
  <2>2. rows' = rows
    BY <1>2, RowsAreMasters
  <2>3. Row(r) \in DOMAIN rows
    BY Zenon, <2>1 DEF ReportInv, ReportFits, ReportAt
  <2>4. Row(r)[1] = "sales_invoice"
    <3>1. pc[r] \in RowLabels \ {"page", "total"}
      BY <2>1 DEF RowLabels, TreasuryLabels
    <3>2. Row(r)[1] = On(r)
      BY <3>1, InHand
    <3>3. op[r] = <<"cancel", "sales_invoice">>
      BY Zenon, <2>1 DEF RowsInv, FormInv, InPlace
    <3>4. On(r) = "sales_invoice"
      BY ONLY <3>3 DEF On
    <3> QED
      BY <3>2, <3>4
  <2> QED
    BY <2>1, <2>2, <2>3, <2>4 DEF DocumentsStep
<1>3. CASE ~CancelInvoice(r) /\ TreasuryStep(r)
  BY Zenon, <1>3, RowsAreMasters DEF TreasuryStep, TreasuryStart, TreasuryWork, StartReport,
     StartCancel, FindAccount, SumNext, FindInvoice, treasuryVars, DocumentsStep
<1>4. CASE ~MasterStep(r) /\ ~TreasuryStep(r)
  BY <1>4, TreasuryAlone, RowsAreMasters DEF ComponentStep, treasuryVars, DocumentsStep
<1> QED
  BY <1>1, <1>2, <1>3, <1>4

LEMMA SumsStep ==
  ASSUME RequestTypes, RowsInv, RowsInv', Voids, NEW r \in Req, DocumentsStep(r),
         NEW id, id[1] \in DOMAIN Reports, NEW T
  PROVE  SumsWithin(id, T)
BY TermsMove, SumsMove DEF RowsInv, SumsWithin

\* A report that does not step stays within its bounds.
LEMMA OthersWithin ==
  ASSUME RequestTypes, RowsInv, RowsInv', ReportTypes, Voids, NEW r \in Req, DocumentsStep(r),
         NEW k \in Req, Reporting(k), pc[k] \in {"sum", "ok"}, Within(k),
         pc'[k] = pc[k], op'[k] = op[k], form'[k] = form[k],
         sofar'[k] = sofar[k], before'[k] = before[k], reading'[k] = reading[k]
  PROVE  Within(k)'
<1>1. PICK id \in {Row(k)} : TRUE
  OBVIOUS
<1>2. PICK T \in {Rest(k)} : TRUE
  OBVIOUS
<1>3. id[1] \in DOMAIN Reports
  BY Zenon, <1>1, ReportRow DEF Reporting
<1>4. SumsWithin(id, T)
  BY <1>3, SumsStep
<1>5. Row(k)' = id
  BY <1>1 DEF Row
<1>6. Rest(k)' = T
  BY <1>2 DEF Rest, On
<1>7. /\ sofar[k] \in Int /\ before[k].opening \in Int /\ before[k].up \in Int
      /\ before[k].down \in Int
  BY DEF ReportTypes
<1>8. /\ before[k].opening + before[k].up - DownSum(id) <= sofar[k] + DueSum(id, T)
      /\ sofar[k] + DueSum(id, T) <= before[k].opening + UpSum(id) - before[k].down
  BY <1>1, <1>2 DEF Within
<1>9. /\ before[k].opening + before[k].up - DownSum(id)' <= sofar[k] + DueSum(id, T)'
      /\ sofar[k] + DueSum(id, T)' <= before[k].opening + UpSum(id)' - before[k].down
  BY ONLY <1>4, <1>7, <1>8, WithinMoves DEF SumsWithin
<1> QED
  BY <1>5, <1>6, <1>9 DEF Within

-----------------------------------------------------------------------------
(* The steps of a report.                                                  *)

\* Nothing moves when no row does.
LEMMA SumsStay ==
  ASSUME rows' = rows, voided' = voided, NEW id, NEW T
  PROVE  /\ UpSum(id)' = UpSum(id) /\ DownSum(id)' = DownSum(id)
         /\ DueSum(id, T)' = DueSum(id, T)
BY DEF Touches, Concerns, Effect, Lessens, UpTerm, DownTerm, LessTerm, VoidTerm,
   DueTerm, UpSum, DownSum, DueSum

LEMMA StartFits ==
  ASSUME RequestTypes, ReportInv, NEW r \in Req, TreasuryStart(r)
  PROVE  ReportTypes' /\ ReportFits(r)'
<1>1. CASE StartReport(r)
  BY Zenon, <1>1 DEF StartReport, Begin, RequestTypes, ReportInv, ReportTypes, treasuryVars,
     ReportFits, ReportAt
<1>2. CASE StartCancel(r)
  <2>1. UNCHANGED treasuryVars
    BY Zenon, <1>2 DEF StartCancel
  <2>2. pc'[r] = "find invoice"
    BY Zenon, <1>2 DEF StartCancel, Begin, RequestTypes
  <2>5. op'[r] = <<"cancel", "sales_invoice">>
    BY Zenon, <1>2 DEF StartCancel, Begin, RequestTypes
  <2>3. ReportTypes'
    BY <2>1 DEF ReportInv, ReportTypes, treasuryVars
  <2>4. op'[r][1] = "cancel"
    BY ONLY <2>5
  <2> QED
    BY Zenon, <2>2, <2>3, <2>4 DEF ReportFits, ReportAt, Does, Reporting
<1> QED
  BY <1>1, <1>2 DEF TreasuryStart

LEMMA FindAccountFits ==
  ASSUME RequestTypes, RowsInv, ReportInv, NEW r \in Req, FindAccount(r)
  PROVE  ReportTypes' /\ ReportFits(r)'
<1>0. pc[r] = "find account" /\ rows' = rows /\ voided' = voided /\ form' = form /\ op' = op
  BY Zenon DEF FindAccount, masterVars, Goto, Answer
<1>1. Does(r, "report") /\ On(r) \in DOMAIN Reports
  BY Zenon, <1>0 DEF RowsInv, FormInv, InPlace
<1>2. ReportTypes /\ Voids /\ RowsFit
  BY DEF ReportInv, RowsInv
<1>3. CASE Row(r) \notin DOMAIN rows
  BY Zenon, <1>3, <1>2 DEF FindAccount, Answer, Goto, RequestTypes, ReportTypes, ReportFits,
     ReportAt, Answered
<1>4. CASE Row(r) \in DOMAIN rows
  <2>1. PICK id \in {Row(r)} : TRUE
    OBVIOUS
  <2>2. PICK T \in {Later(On(r), 1)} : TRUE
    OBVIOUS
  <2>3. id[1] = On(r)
    BY Zenon, <1>0, <1>1, <2>1, ReportRow
  <2>4. id[1] \in DOMAIN Reports
    BY <1>1, <2>3
  <2>5. Up(id) = UpSum(id) /\ Up(id) \in Int /\ Down(id) = DownSum(id) /\ Down(id) \in Int
    BY <1>2, <2>4, UpIs, DownIs
  <2>6. UpSum(id) = DueSum(id, T) + DownSum(id) /\ DueSum(id, T) \in Int
    BY <1>2, <2>2, <2>3, <2>4, AllIsDue
  <2>7. Opening(id) \in Int
    BY <1>2, <1>4, <2>1 DEF Opening, RowsFit, ValueFits
  <2>8. /\ sofar' = [sofar EXCEPT ![r] = Opening(id)]
        /\ before' = [before EXCEPT ![r] = [opening |-> Opening(id), up |-> Up(id),
                                            down |-> Down(id)]]
        /\ reading' = [reading EXCEPT ![r] = 1]
    BY Zenon, <1>4, <2>1 DEF FindAccount
  <2>9. pc'[r] = "sum"
    BY Zenon, <1>4 DEF FindAccount, Goto, RequestTypes
  <2>10. /\ sofar'[r] = Opening(id) /\ reading'[r] = 1
         /\ before'[r] = [opening |-> Opening(id), up |-> Up(id), down |-> Down(id)]
    BY <1>2, <2>8 DEF ReportTypes
  <2>11. ReportTypes'
    BY <1>2, <2>5, <2>7, <2>8 DEF ReportTypes
  <2>12. Row(r)' = id /\ Rest(r)' = T
    BY Zenon, <1>0, <2>1, <2>2, <2>9, <2>10 DEF Row, Rest, On
  <2>13. /\ UpSum(id)' = UpSum(id) /\ DownSum(id)' = DownSum(id)
         /\ DueSum(id, T)' = DueSum(id, T)
    BY Zenon, <1>0, SumsStay
  <2>14. /\ before'[r].opening = Opening(id) /\ before'[r].up = UpSum(id)
         /\ before'[r].down = DownSum(id)
    BY <2>5, <2>10
  <2>15. /\ before'[r].opening + before'[r].up - DownSum(id)' <= sofar'[r] + DueSum(id, T)'
         /\ sofar'[r] + DueSum(id, T)' <= before'[r].opening + UpSum(id)' - before'[r].down
    BY ONLY <2>5, <2>6, <2>7, <2>10, <2>13, <2>14
  <2>16. Within(r)'
    BY <2>12, <2>15 DEF Within
  <2>17. reading'[r] \in DOMAIN Reports[On(r)]
    BY <1>1, <2>10, ReportFacts
  <2>18. ReportAt(r)'
    BY Zenon, <1>0, <2>9, <2>17 DEF ReportAt, On
  <2> QED
    BY <2>11, <2>16, <2>18 DEF ReportFits
<1> QED
  BY <1>3, <1>4

LEMMA SumNextFits ==
  ASSUME RequestTypes, RowsInv, ReportInv, NEW r \in Req, SumNext(r)
  PROVE  ReportTypes' /\ ReportFits(r)'
<1>0. pc[r] = "sum" /\ rows' = rows /\ voided' = voided /\ form' = form /\ op' = op
      /\ before' = before
  BY DEF SumNext, masterVars, Goto
<1>1. Does(r, "report") /\ On(r) \in DOMAIN Reports
  BY Zenon, <1>0 DEF RowsInv, FormInv, InPlace
<1>2. ReportTypes /\ Voids /\ RowsFit /\ ReportFits(r)
  BY DEF ReportInv, RowsInv
<1>3. PICK id \in {Row(r)} : TRUE
  OBVIOUS
<1>4. PICK i \in {reading[r]} : TRUE
  OBVIOUS
<1>5. PICK on \in {On(r)} : TRUE
  OBVIOUS
<1>6. id[1] = on /\ on \in DOMAIN Reports
  BY Zenon, <1>0, <1>1, <1>3, <1>5, ReportRow
<1>7. i \in DOMAIN Reports[on]
  BY <1>0, <1>2, <1>4, <1>5 DEF ReportFits, ReportAt
<1>8. PICK n \in Nat : /\ n = Cardinality(DOMAIN Reports[on]) /\ DOMAIN Reports[on] = 1 .. n
                       /\ Later(on, n + 1) = {}
  <2>1. Cardinality(DOMAIN Reports[on]) \in Nat
    BY <1>6, ReportFacts
  <2> QED
    BY <1>6, <2>1, ReportFacts
<1>23. i \in Int /\ 1 <= i /\ i <= n
  <2>1. i \in 1 .. n
    BY ONLY <1>7, <1>8
  <2> QED
    BY ONLY <2>1, n \in Nat
<1>9. PICK term \in Int : term = Reports[on][i].sign * Worth(Documents(Reports[on][i].table, id))
  BY <1>2, <1>6, <1>7, DueStatement
<1>10. /\ DueSum(id, Later(on, i)) = DueSum(id, Later(on, i + 1)) + term
       /\ DueSum(id, Later(on, i + 1)) \in Int
  BY <1>2, <1>6, <1>7, <1>9, DueStatement
<1>11. /\ sofar' = [sofar EXCEPT ![r] = @ + term] /\ reading' = [reading EXCEPT ![r] = @ + 1]
       /\ pc' = [pc EXCEPT ![r] = IF i < n THEN "sum" ELSE "ok"]
  BY <1>3, <1>4, <1>5, <1>8, <1>9 DEF SumNext, Goto
<1>12. ReportTypes'
  BY <1>0, <1>2, <1>11 DEF ReportTypes
<1>13. /\ sofar'[r] = sofar[r] + term /\ reading'[r] = i + 1
       /\ pc'[r] = IF i < n THEN "sum" ELSE "ok"
  BY <1>2, <1>4, <1>11 DEF ReportTypes, RequestTypes
<1>14. PICK T \in {Later(on, i + 1)} : TRUE
  OBVIOUS
<1>15. Rest(r)' = T
  <2>1. CASE i < n
    BY <1>13, <2>1, <1>0, <1>5, <1>14 DEF Rest, On
  <2>2. CASE ~(i < n)
    <3>1. i = n
      BY ONLY <1>23, <2>2, n \in Nat
    <3>2. pc'[r] = "ok"
      BY <1>13, <2>2
    <3> QED
      BY <1>8, <1>14, <3>1, <3>2 DEF Rest
  <2> QED
    BY <2>1, <2>2
<1>16. Row(r)' = id
  BY <1>0, <1>3 DEF Row
<1>17. /\ UpSum(id)' = UpSum(id) /\ DownSum(id)' = DownSum(id)
       /\ DueSum(id, T)' = DueSum(id, T)
  BY <1>0, SumsStay
<1>18. Within(r) /\ Rest(r) = Later(on, i)
  BY <1>0, <1>1, <1>2, <1>4, <1>5 DEF ReportFits, Reporting, Rest
<1>19. /\ before[r].opening + before[r].up - DownSum(id) <= sofar[r] + DueSum(id, Later(on, i))
       /\ sofar[r] + DueSum(id, Later(on, i)) <= before[r].opening + UpSum(id) - before[r].down
  BY <1>3, <1>18 DEF Within
<1>20. sofar[r] + DueSum(id, Later(on, i)) = sofar'[r] + DueSum(id, T)
  <2>1. sofar[r] \in Int
    BY <1>2 DEF ReportTypes
  <2> QED
    BY ONLY <1>10, <1>13, <1>14, <2>1, term \in Int
<1>21. Within(r)'
  BY <1>0, <1>15, <1>16, <1>17, <1>19, <1>20 DEF Within
<1>22. ReportAt(r)'
  <2>1. CASE i < n
    <3>1. pc'[r] = "sum"
      BY <1>13, <2>1
    <3>3. i + 1 \in 1 .. n
      BY ONLY <1>23, <2>1, n \in Nat
    <3>2. reading'[r] \in DOMAIN Reports[on]
      BY ONLY <1>8, <1>13, <3>3
    <3> QED
      BY <1>0, <1>5, <3>1, <3>2 DEF ReportAt, On
  <2>2. CASE ~(i < n)
    <3>1. pc'[r] = "ok"
      BY <1>13, <2>2
    <3> QED
      BY <3>1 DEF ReportAt, Answered
  <2> QED
    BY <2>1, <2>2
<1> QED
  BY <1>12, <1>21, <1>22 DEF ReportFits

LEMMA CancelFits ==
  ASSUME RequestTypes, RowsInv, ReportInv, NEW r \in Req, FindInvoice(r) \/ CancelInvoice(r)
  PROVE  ReportTypes' /\ ReportFits(r)'
<1>1. /\ pc[r] \in {"find invoice", "void"} /\ op' = op /\ rows' = rows /\ form' = form
      /\ UNCHANGED <<reading, sofar, before>>
  BY Zenon DEF FindInvoice, CancelInvoice, masterVars, treasuryVars, Goto, Answer
<1>2. op[r] = <<"cancel", "sales_invoice">>
  BY Zenon, <1>1 DEF RowsInv, FormInv, InPlace
<1>3. op[r][1] = "cancel"
  BY ONLY <1>2
<1>4. ~Does(r, "report")'
  BY Zenon, <1>1, <1>3 DEF Does
<1>5. ReportTypes'
  BY Zenon, <1>1 DEF ReportInv, ReportTypes
<1>6. pc'[r] = "void" => Row(r) \in DOMAIN rows
  BY Zenon DEF FindInvoice, CancelInvoice, Goto, Answer, RequestTypes
<1>7. pc'[r] # "sum"
  BY Zenon DEF FindInvoice, CancelInvoice, Goto, Answer, RequestTypes
<1>8. pc'[r] = "void" => Row(r)' \in DOMAIN rows'
  BY Zenon, <1>1, <1>6 DEF Row
<1>9. ReportAt(r)'
  BY Zenon, <1>4, <1>7, <1>8 DEF ReportAt
<1> QED
  BY <1>4, <1>5, <1>9 DEF ReportFits, Reporting

LEMMA TreasuryFits ==
  ASSUME RequestTypes, RowsInv, ReportInv, NEW r \in Req, TreasuryStep(r)
  PROVE  ReportTypes' /\ ReportFits(r)'
BY StartFits, FindAccountFits, SumNextFits, CancelFits DEF TreasuryStep, TreasuryWork

-----------------------------------------------------------------------------
(* What the steps leave of the reports.                                    *)

LEMMA DocumentsStay ==
  ASSUME RequestTypes, RowsInv, NEW r \in Req, DocumentsStep(r),
         NEW x \in DOMAIN rows, x[1] \in Documented
  PROVE  x \in DOMAIN rows'
<1>1. CASE rows' = rows \/ RowMade(r) \/ RowChanged(r)
  BY <1>1 DEF RowMade, RowChanged
<1>2. CASE RowRemoved(r)
  BY Zenon, <1>2, InHand DEF RowRemoved, RowsInv, FormInv, InPlace, RowLabels, MasterLabels,
     Lasting, Does, On
<1> QED
  BY <1>1, <1>2 DEF DocumentsStep

LEMMA VoidsKept ==
  ASSUME RequestTypes, RowsInv, Voids, NEW r \in Req, DocumentsStep(r)
  PROVE  Voids'
<1>1. \A x \in voided : x \in DOMAIN rows' /\ x[1] = "sales_invoice"
  <2>1. TAKE x \in voided
  <2>2. x \in DOMAIN rows /\ x[1] = "sales_invoice"
    BY DEF Voids
  <2>3. x[1] \in Documented
    BY <2>2 DEF Documented
  <2> QED
    BY <2>2, <2>3, DocumentsStay
<1> QED
  BY <1>1 DEF DocumentsStep, Voids

\* The request that steps elsewhere than in the treasury.
LEMMA ElsewhereFits ==
  ASSUME RequestTypes, RequestTypes', ReportInv, NEW r \in Req,
         ComponentStep(r) \/ Forbid(r) \/ Abort(r), ~TreasuryStep(r)
  PROVE  ReportFits(r)'
<1>0. ReportAt(r)
  BY DEF ReportInv, ReportFits
<1>1. CASE MasterStep(r)
  <2>1. MovesAmong(r, MasterLabels, MasterOps)
    BY <1>1, StepMoves
  <2>2. pc'[r] \in MasterLabels \cup Answered
    BY <2>1 DEF MovesAmong, RequestTypes
  <2>3. op'[r][1] # "report"
    <3>1. CASE pc[r] \in MasterLabels /\ op' = op
      BY Zenon, <1>0, <3>1 DEF ReportAt, Does, MasterLabels, Answered
    <3>2. CASE \E o \in MasterOps \cap Ops : op' = [op EXCEPT ![r] = o]
      <4>1. PICK o \in MasterOps \cap Ops : op' = [op EXCEPT ![r] = o]
        BY <3>2
      <4>2. op'[r] = o
        BY <4>1 DEF RequestTypes
      <4> QED
        BY <4>2 DEF MasterOps
    <3> QED
      BY <2>1, <3>1, <3>2 DEF MovesAmong
  <2>4. pc'[r] \notin {"sum", "void"}
    BY Zenon, <2>2 DEF MasterLabels, Answered
  <2> QED
    BY Zenon, <2>3, <2>4 DEF ReportFits, ReportAt, Reporting, Does
<1>2. CASE Forbid(r) \/ Abort(r)
  BY Zenon, <1>2 DEF Forbid, TurnAway, Abort, Goto, RequestTypes, ReportFits, ReportAt,
     Answered
<1>3. CASE ~MasterStep(r) /\ ~(Forbid(r) \/ Abort(r))
  <2>1. Elsewhere(r, RowLabels, RowOps)
    BY <1>3, AwayFromRows DEF ComponentStep
  <2>2. /\ pc[r] \notin RowLabels \cup Answered
        /\ pc'[r] \notin RowLabels
        /\ op' = op \/ \E o : o \notin RowOps /\ op' = [op EXCEPT ![r] = o]
    BY <2>1 DEF Elsewhere, RequestTypes
  <2>3. ~Does(r, "report")'
    <3>1. CASE op' = op
      BY Zenon, <1>0, <2>2, <3>1 DEF ReportAt, Does, RowLabels, TreasuryLabels
    <3>2. CASE \E o : o \notin RowOps /\ op' = [op EXCEPT ![r] = o]
      BY <3>2 DEF RequestTypes, NoOp, RowOps, TreasuryOps, Does
    <3> QED
      BY <2>2, <3>1, <3>2
  <2>4. pc'[r] \notin {"sum", "void"}
    BY Zenon, <2>2 DEF RowLabels, TreasuryLabels
  <2> QED
    BY Zenon, <2>3, <2>4 DEF ReportFits, ReportAt, Reporting
<1> QED
  BY <1>1, <1>2, <1>3

LEMMA OthersFit ==
  ASSUME RequestTypes, MainInv, RowsInv, RowsInv', ReportInv, NEW r \in Req,
         ComponentStep(r) \/ Forbid(r) \/ Abort(r), DocumentsStep(r), NEW k \in Req \ {r}
  PROVE  ReportFits(k)'
<1>1. pc'[k] = pc[k] /\ op'[k] = op[k]
  <2>1. Overlaps
    BY DEF MainInv
  <2> QED
    BY <2>1, OverlapsStep
<1>2. form'[k] = form[k]
  <2>1. SaidBy(r)
    BY StepSays
  <2> QED
    BY <2>1 DEF SaidBy
<1>3. sofar'[k] = sofar[k] /\ before'[k] = before[k] /\ reading'[k] = reading[k]
  BY TreasuryTouches, TreasuryAlone DEF ReportInv, ComponentStep, treasuryVars
<1>4. ReportTypes /\ Voids /\ ReportFits(k) /\ k \in Req
  BY DEF ReportInv
<1>5. pc[k] = "void" => Row(k) \in DOMAIN rows'
  <2>1. HAVE pc[k] = "void"
  <2>2. Row(k) \in DOMAIN rows
    BY <1>4, <2>1 DEF ReportFits, ReportAt
  <2>3. pc[k] \in RowLabels \ {"page", "total"}
    BY <2>1 DEF RowLabels, TreasuryLabels
  <2>4. Row(k)[1] = On(k)
    BY <1>4, <2>3, InHand
  <2>5. op[k] = <<"cancel", "sales_invoice">>
    BY Zenon, <1>4, <2>1 DEF RowsInv, FormInv, InPlace
  <2>6. On(k) = "sales_invoice"
    BY ONLY <2>5 DEF On
  <2>7. Row(k)[1] \in Documented
    BY <2>4, <2>6 DEF Documented
  <2> QED
    BY <2>2, <2>7, DocumentsStay
<1>6. Row(k)' = Row(k) /\ On(k)' = On(k) /\ \A act : Does(k, act)' = Does(k, act)
  BY <1>1, <1>2 DEF Row, On, Does
<1>7. ReportAt(k)'
  BY Zenon, <1>1, <1>3, <1>4, <1>5, <1>6 DEF ReportFits, ReportAt
<1>8. ASSUME Reporting(k)', pc'[k] \in {"sum", "ok"} PROVE Within(k)'
  BY <1>1, <1>6, <1>8, <1>4, <1>2, <1>3, OthersWithin DEF Reporting, ReportFits
<1> QED
  BY <1>7, <1>8 DEF ReportFits

LEMMA ReportInvKept ==
  ASSUME RequestTypes, RequestTypes', RefInv, MainInv, RowsInv, RowsInv', ReportInv,
         NEW r \in Req, ComponentStep(r) \/ Forbid(r) \/ Abort(r)
  PROVE  ReportInv'
<1>1. DocumentsStep(r)
  BY StepsDocuments
<1>2. ReportTypes' /\ ReportFits(r)'
  <2>1. CASE TreasuryStep(r)
    BY <2>1, TreasuryFits
  <2>2. CASE ~TreasuryStep(r)
    BY <2>2, TreasuryAlone, ElsewhereFits DEF ComponentStep, ReportInv, ReportTypes,
       treasuryVars
  <2> QED
    BY <2>1, <2>2
<1>3. Voids'
  BY <1>1, VoidsKept DEF ReportInv
<1>4. ASSUME NEW k \in Req PROVE ReportFits(k)'
  BY <1>2, <1>1, OthersFit
<1> QED
  BY <1>2, <1>3, <1>4 DEF ReportInv

LEMMA ReportInvStep ==
  RequestTypes /\ RefInv /\ MainInv /\ RowsInv /\ ReportInv /\ [Next]_vars => ReportInv'
<1> SUFFICES ASSUME RequestTypes, RefInv, MainInv, RowsInv, ReportInv, [Next]_vars
             PROVE  ReportInv'
  OBVIOUS
<1>1. RequestTypes' /\ RowsInv'
  BY RequestTypesStep, RowsInvStep
<1>2. ASSUME NEW r \in Req, ComponentStep(r) \/ Forbid(r) \/ Abort(r) PROVE ReportInv'
  BY ONLY RequestTypes, RefInv, MainInv, RowsInv, ReportInv, r \in Req, <1>1, <1>2,
     ReportInvKept
<1>3. CASE UNCHANGED vars \/ Worker
  <2>1. /\ rows' = rows /\ form' = form /\ pc' = pc /\ op' = op
        /\ voided' = voided /\ reading' = reading /\ sofar' = sofar /\ before' = before
    BY <1>3 DEF vars, Worker, Transmit, requestVars, masterVars, treasuryVars
  <2>2. ReportTypes' /\ Voids'
    BY <2>1 DEF ReportInv, ReportTypes, Voids
  <2>3. ASSUME NEW k \in Req PROVE ReportFits(k)'
    <3>1. ReportFits(k)
      BY DEF ReportInv
    <3>2. Row(k)' = Row(k) /\ On(k)' = On(k) /\ \A act : Does(k, act)' = Does(k, act)
      BY <2>1 DEF Row, On, Does
    <3>3. ReportAt(k)'
      BY Zenon, <2>1, <3>1, <3>2 DEF ReportFits, ReportAt
    <3>4. Within(k) => Within(k)'
      <4>1. PICK id \in {Row(k)} : TRUE
        OBVIOUS
      <4>2. PICK T \in {Rest(k)} : TRUE
        OBVIOUS
      <4>3. Row(k)' = id /\ Rest(k)' = T
        BY <2>1, <4>1, <4>2, <3>2 DEF Rest
      <4>4. /\ UpSum(id)' = UpSum(id) /\ DownSum(id)' = DownSum(id)
            /\ DueSum(id, T)' = DueSum(id, T)
        BY <2>1, SumsStay
      <4> QED
        BY <2>1, <4>1, <4>2, <4>3, <4>4 DEF Within
    <3>5. Reporting(k)' => Reporting(k)
      BY <3>2 DEF Reporting
    <3> QED
      BY <2>1, <3>1, <3>3, <3>4, <3>5 DEF ReportFits
  <2> QED
    BY <2>2, <2>3 DEF ReportInv
<1> QED
  BY <1>2, <1>3 DEF Next, ComponentStep

LEMMA ReportInvBounds == RequestTypes /\ RowsInv /\ ReportInv => ReportBounded
<1> SUFFICES ASSUME RequestTypes, RowsInv, ReportInv, NEW r \in Req, Does(r, "report"),
                    pc[r] = "ok", On(r) \in DOMAIN Reports
             PROVE  sofar[r] \in (before[r].opening + before[r].up - Down(Row(r)))
                                   .. (before[r].opening + Up(Row(r)) - before[r].down)
  BY DEF ReportBounded
<1>1. RowsFit /\ ReportTypes /\ Within(r)
  BY DEF RowsInv, ReportInv, ReportFits, Reporting
<1>2. Row(r)[1] \in DOMAIN Reports
  BY Zenon, ReportRow
<1>3. Rest(r) = {}
  BY DEF Rest
<1>4. /\ Up(Row(r)) = UpSum(Row(r)) /\ Up(Row(r)) \in Int
      /\ Down(Row(r)) = DownSum(Row(r)) /\ Down(Row(r)) \in Int
  BY <1>1, <1>2, UpIs, DownIs
<1>5. DueSum(Row(r), {}) = 0
  BY <1>1, NothingDue
<1>6. /\ sofar[r] \in Int /\ before[r].opening \in Int /\ before[r].up \in Int
      /\ before[r].down \in Int
  BY <1>1 DEF ReportTypes
<1>7. /\ before[r].opening + before[r].up - DownSum(Row(r)) <= sofar[r] + 0
      /\ sofar[r] + 0 <= before[r].opening + UpSum(Row(r)) - before[r].down
  BY <1>1, <1>3, <1>5 DEF Within
<1> QED
  BY ONLY <1>4, <1>6, <1>7

\* A balance or a statement that reads its tables at different moments is never less than
\* if only what was taken from the account meanwhile counted, and never more than if only
\* what was added did: no document is counted twice, with the wrong sign, or lost that
\* was there all along.
THEOREM ReportsAlwaysBounded == Spec => []ReportBounded
<1>1. Spec => [](RequestTypes /\ RefInv /\ MainInv /\ RowsInv)
  BY RequestsTyped, RefInvAlways, MainInvAlways, RowsInvAlways, PTL
<1>2. Spec => []ReportInv
  BY <1>1, InitReportInv, ReportInvStep, PTL DEF Spec
<1> QED
  BY <1>1, <1>2, ReportInvBounds, PTL

-----------------------------------------------------------------------------
(***************************************************************************)
(* The theorem that a number the API counts is accepted.                   *)
(*                                                                         *)
(* While no row of a resource is removed and no client types a code, its   *)
(* codes stay within the number of its rows, so that what a create counts  *)
(* is beyond them all.  It stays so until the insert, unless another       *)
(* create, which then was in flight with this one, comes between.          *)
(***************************************************************************)

-----------------------------------------------------------------------------
(* How the forms move.                                                     *)

LEMMA AsksNumber ==
  ASSUME Saying, NEW r \in Req, NEW id, NEW code, NEW links, NEW value, NEW main,
         Asks(r, id, code, links, value, main), links \subseteq DOMAIN rows
  PROVE  form'[r].number = form'[r].code /\ form'[r].links \subseteq DOMAIN rows
<1>1. form'[r] = [id |-> id, code |-> code, number |-> code, links |-> links,
                  value |-> value, main |-> main]
  BY DEF Asks, Saying
<1> QED
  BY <1>1

LEMMA StepsNumber ==
  ASSUME RequestTypes, MainInv, RowsInv, NEW r \in Req,
         ComponentStep(r) \/ Forbid(r) \/ Abort(r)
  PROVE  NumberStep(r)
<1>0. Saying
  BY DEF MainInv
<1>1. \A s \in Req \ {r} : form'[s] = form[s]
  BY StepSays DEF SaidBy
<1>2. \A on : \A L \in LinkChoices(on) : L \subseteq DOMAIN rows
  BY DEF LinkChoices, Targets
<1>3. CASE MasterStart(r) \/ TreasuryStart(r)
  <2>1. pc[r] = "idle"
    BY <1>3 DEF MasterStart, TreasuryStart, Idle
  <2>2. \/ form'[r] = form[r]
        \/ form'[r].number = form'[r].code /\ form'[r].links \subseteq DOMAIN rows
    <3>1. CASE StartCreate(r)
      <4>1. PICK on : \E code, L, v, main : L \in LinkChoices(on) /\ Asks(r, <<on, r>>, code, L, v, main)
        BY Zenon, <3>1 DEF StartCreate
      <4> QED
        BY <1>0, <1>2, <4>1, AsksNumber
    <3>2. CASE StartUpdate(r)
      BY <1>0, <1>2, <3>2, AsksNumber DEF StartUpdate
    <3>3. CASE StartOne(r)
      BY <1>0, <3>3, AsksNumber DEF StartOne
    <3>4. CASE StartList(r)
      BY <3>4 DEF StartList, masterVars
    <3>5. CASE StartReport(r) \/ StartCancel(r)
      <4>1. PICK id : Asks(r, id, 0, {}, 0, "unsaid")
        BY Zenon, <3>5 DEF StartReport, StartCancel
      <4> QED
        BY <1>0, <4>1, AsksNumber
    <3> QED
      BY <1>3, <3>1, <3>2, <3>3, <3>4, <3>5 DEF MasterStart, TreasuryStart
  <2> QED
    BY <1>1, <2>1, <2>2 DEF NumberStep
<1>4. CASE MasterWork(r)
  <2>1. CASE CountRows(r)
    <3>1. /\ pc[r] = "count" /\ pc'[r] = "insert"
          /\ form' = [form EXCEPT ![r].number = Cardinality(Peers(On(r))) + 1]
      BY <2>1 DEF CountRows, Goto, RequestTypes
    <3>2. DOMAIN form = Req /\ DOMAIN form[r] = FormFields
      BY <1>0 DEF Saying
    <3>3. /\ form'[r].code = form[r].code /\ form'[r].links = form[r].links
          /\ form'[r].number = Cardinality(Peers(On(r))) + 1
      BY <3>1, <3>2 DEF FormFields
    <3> QED
      BY <1>1, <3>1, <3>3 DEF NumberStep
  <2>2. CASE InsertRow(r)
    BY <1>1, <2>2 DEF InsertRow, Answer, Goto, Release, NumberStep, RequestTypes
  <2>3. CASE ~CountRows(r) /\ ~InsertRow(r)
    <3>1. form' = form /\ pc[r] # "insert"
      BY Zenon, <1>4, <2>3 DEF MasterWork, FindKept, FindRow, UpdateRow, ReadPage, CountPage,
         CountMovements, DeleteRow, FindMains, ClearMain, MainsCleared, Release, masterVars
    <3> QED
      BY <1>1, <3>1 DEF NumberStep
  <2> QED
    BY <2>1, <2>2, <2>3
<1>5. CASE TreasuryWork(r)
  BY Zenon, <1>1, <1>5 DEF TreasuryWork, FindAccount, SumNext, FindInvoice, CancelInvoice,
     masterVars, NumberStep
<1>6. CASE ~MasterStep(r) /\ ~TreasuryStep(r)
  <2>1. form' = form
    BY <1>0, <1>6, OthersKeepForm DEF ComponentStep
  <2>2. pc[r] = "insert" => pc'[r] = "aborted"
    <3>1. CASE Forbid(r) \/ Abort(r)
      BY <3>1 DEF Forbid, TurnAway, Idle, Abort, Goto, RequestTypes
    <3>2. CASE ~(Forbid(r) \/ Abort(r))
      <4>1. Elsewhere(r, RowLabels, RowOps)
        BY <1>6, <3>2, AwayFromRows DEF ComponentStep
      <4> QED
        BY Zenon, <4>1 DEF Elsewhere, RowLabels, MasterLabels
    <3> QED
      BY <3>1, <3>2
  <2> QED
    BY <1>1, <2>1, <2>2 DEF NumberStep
<1> QED
  BY <1>3, <1>4, <1>5, <1>6 DEF MasterStep, TreasuryStep

-----------------------------------------------------------------------------
(* What disturbs the codes of a resource goes on to.                       *)

LEMMA UntidyStays ==
  ASSUME CodesInv, NEW r \in Req, Advances(r), NumberStep(r), pc[r] \notin Answered,
         NEW s \in Req, Untidy(s)
  PROVE  Untidy(s)' /\ op'[s] = op[s]
<1>1. CASE s # r
  BY <1>1 DEF Advances, NumberStep, Untidy, Does
<1>2. CASE s = r
  <2>1. form[r].code # 0
    BY <1>2 DEF Untidy, Answered
  <2>2. pc[r] # "idle"
    BY <2>1 DEF CodesInv, NumberFits, NoForm
  <2>3. form'[r].code = form[r].code
    BY <2>2 DEF NumberStep
  <2> QED
    BY <1>2, <2>1, <2>2, <2>3 DEF Advances, Untidy
<1> QED
  BY <1>1, <1>2

LEMMA DisturbedStays ==
  ASSUME RequestTypes, Overlaps, CodesInv, NEW r \in Req, Advances(r), NumberStep(r),
         pc[r] \notin Answered, NEW q \in Req, op[q][1] \in Making, op'[q] = op[q],
         Disturbed(q)
  PROVE  Disturbed(q)'
<1>1. PICK s \in Req \ {q} : On(s) = On(q) /\ Disturbs(s, q)
  BY DEF Disturbed
<1>2. CASE Untidy(s)
  <2>1. Untidy(s)' /\ op'[s] = op[s]
    BY <1>2, UntidyStays
  <2> QED
    BY <1>1, <2>1 DEF Disturbed, Disturbs, Untidy, On
<1>3. CASE Met(q, s)
  <2>1. Met(q, s)'
    BY <1>3 DEF Met, Advances
  <2>2. op[s] # NoOp
    <3>1. op[q] # NoOp
      BY DEF NoOp, Making
    <3>2. op[q] \in Ops
      BY <3>1 DEF RequestTypes
    <3>3. op[q][2] # "none"
      BY <3>2, OpsLasting DEF Lasting
    <3> QED
      BY <1>1, <3>3 DEF On, NoOp
  <2>3. op'[s] = op[s]
    BY <2>2 DEF Advances, Overlaps
  <2> QED
    BY <1>1, <2>1, <2>3 DEF Disturbed, Disturbs, On
<1> QED
  BY <1>1, <1>2, <1>3 DEF Disturbs, Untidy

\* A resource that is tidy after a step was so before.
LEMMA TidyBefore ==
  ASSUME CodesInv, NEW r \in Req, Advances(r), NumberStep(r), pc[r] \notin Answered,
         NEW on, Tidy(on)'
  PROVE  Tidy(on)
<1>1. \A s \in Req : Untidy(s) => Untidy(s)' /\ op'[s] = op[s]
  BY UntidyStays
<1> QED
  BY <1>1 DEF Tidy, On

LEMMA PeersNext ==
  ASSUME RequestTypes, MainInv, RowsInv, CodesInv, NEW r \in Req, Advances(r), NumberStep(r),
         pc[r] \notin Answered, NEW on \in Resources,
         rows' = rows \/ RowMade(r) \/ RowChanged(r) \/ RowRemoved(r),
         on = On(r) => Tidy(on)'
  PROVE  /\ Peers(on) \subseteq Peers(on)' /\ IsFiniteSet(Peers(on))
         /\ \A x \in Peers(on) : rows'[x].code = rows[x].code
         /\ Peers(on)' = Peers(on) \/ OneMore(r, on)
<1>0. IsFiniteSet(Peers(on)) /\ InPlace(r)
  <2>1. IsFiniteSet(DOMAIN rows) /\ FormInv(r)
    BY DEF RowsInv, RowsFit
  <2>2. Peers(on) \subseteq DOMAIN rows
    BY DEF Peers
  <2> QED
    BY <2>1, <2>2, FS_Subset DEF FormInv
<1>1. CASE rows' = rows
  BY <1>0, <1>1 DEF Peers
<1>2. ASSUME pc[r] \in {"insert", "write", "delete"}
      PROVE  /\ Row(r)[1] = On(r) /\ op'[r] = op[r]
             /\ on = On(r) => form[r].code = 0
  <2>1. pc[r] \in RowLabels \ {"page", "total"} /\ pc[r] # "idle"
    BY Zenon, <1>2 DEF RowLabels, MasterLabels
  <2>2. on = On(r) => Tidy(on)
    BY TidyBefore
  <2> QED
    BY <2>1, <2>2, InHand DEF Tidy, Untidy, Advances
<1>3. CASE RowMade(r)
  <2>1. /\ DOMAIN rows' = DOMAIN rows \cup {Row(r)} /\ Row(r) \notin DOMAIN rows
        /\ \A x \in DOMAIN rows : rows'[x] = rows[x]
        /\ Row(r)[1] = On(r) /\ (on = On(r) => form[r].code = 0)
    BY <1>2, <1>3 DEF RowMade
  <2>2. CASE on # On(r)
    BY <1>0, <2>1, <2>2 DEF Peers
  <2>3. CASE on = On(r)
    <3>1. Peers(on)' = Peers(on) \cup {Row(r)} /\ Row(r) \notin Peers(on)
      BY <2>1, <2>3 DEF Peers
    <3>2. Cardinality(Peers(on)') = Cardinality(Peers(on)) + 1
      BY <1>0, <3>1, FS_AddElement
    <3>3. \A x \in Peers(on) : rows'[x].code = rows[x].code
      BY <2>1 DEF Peers
    <3> QED
      BY <1>0, <1>3, <2>1, <2>3, <3>1, <3>2, <3>3 DEF OneMore
  <2> QED
    BY <2>2, <2>3
<1>4. CASE RowChanged(r)
  <2>1. Row(r)[1] = On(r) /\ (on = On(r) => form[r].code = 0)
    BY <1>2, <1>4 DEF RowChanged
  <2>2. Peers(on)' = Peers(on)
    BY <1>4 DEF RowChanged, Peers
  <2>3. \A x \in Peers(on) : rows'[x].code = rows[x].code
    BY <1>4, <2>1 DEF RowChanged, Peers
  <2> QED
    BY <1>0, <2>2, <2>3
<1>5. CASE RowRemoved(r)
  <2>1. Row(r)[1] = On(r) /\ op'[r] = op[r] /\ Does(r, "remove") /\ pc'[r] = "ok"
    BY <1>0, <1>2, <1>5 DEF RowRemoved, InPlace
  <2>2. on # On(r)
    BY <2>1 DEF Tidy, Untidy, Does, On
  <2>3. Peers(on)' = Peers(on)
    BY <1>5, <2>1, <2>2 DEF RowRemoved, Peers
  <2>4. \A x \in Peers(on) : rows'[x].code = rows[x].code
    BY <1>5, <2>1, <2>2 DEF RowRemoved, Peers
  <2> QED
    BY <1>0, <2>3, <2>4
<1> QED
  BY <1>1, <1>3, <1>4, <1>5

LEMMA CodesStay ==
  ASSUME RequestTypes, MainInv, RowsInv, CodesInv, NEW r \in Req, Advances(r), NumberStep(r),
         pc[r] \notin Answered,
         rows' = rows \/ RowMade(r) \/ RowChanged(r) \/ RowRemoved(r)
  PROVE  CodesWithin'
<1> SUFFICES ASSUME NEW on \in Resources, Tidy(on)', NEW x \in Peers(on)'
             PROVE  rows'[x].code <= Cardinality(Peers(on))'
  BY DEF CodesWithin
<1>1. /\ IsFiniteSet(Peers(on)) /\ (Peers(on)' = Peers(on) \/ OneMore(r, on))
      /\ \A y \in Peers(on) : rows'[y].code = rows[y].code
  BY PeersNext
<1>2. Tidy(on)
  BY TidyBefore
<1>3. \A y \in Peers(on) : rows[y].code \in Nat /\ rows[y].code <= Cardinality(Peers(on))
  BY <1>2 DEF CodesInv, CodesWithin, RowsInv, RowsFit, Peers
<1>4. Cardinality(Peers(on)) \in Nat
  BY <1>1, FS_CardinalityType
<1>5. CASE Peers(on)' = Peers(on)
  BY <1>1, <1>3, <1>5
<1>6. CASE OneMore(r, on)
  <2>1. CASE x = Row(r)
    <3>1. pc[r] = "insert" /\ rows'[x].code = form[r].number
      BY <1>6, <2>1 DEF OneMore, RowMade
    <3>2. form[r].number <= Cardinality(Peers(on)) + 1
      <4>1. on = On(r) /\ form[r].code = 0 /\ NumberFits(r)
        BY <1>6 DEF OneMore, CodesInv
      <4> QED
        BY <1>2, <3>1, <4>1 DEF NumberFits
    <3> QED
      BY <1>6, <3>1, <3>2 DEF OneMore
  <2>2. CASE x # Row(r)
    <3>1. x \in Peers(on)
      BY <1>6, <2>2 DEF OneMore, Peers
    <3>2. rows'[x].code = rows[x].code
      BY <1>1, <3>1
    <3>3. Cardinality(Peers(on))' = Cardinality(Peers(on)) + 1
      BY <1>6 DEF OneMore
    <3> QED
      BY <1>3, <1>4, <3>1, <3>2, <3>3
  <2> QED
    BY <2>1, <2>2
<1> QED
  BY <1>1, <1>5, <1>6

\* What has been counted stays within the rows there are.
LEMMA CountStays ==
  ASSUME RequestTypes, MainInv, RowsInv, CodesInv, NEW r \in Req, Advances(r), NumberStep(r),
         pc[r] \notin Answered,
         rows' = rows \/ RowMade(r) \/ RowChanged(r) \/ RowRemoved(r),
         NEW on \in Resources, Tidy(on)'
  PROVE  /\ Tidy(on) /\ Cardinality(Peers(on)) \in Nat /\ Cardinality(Peers(on))' \in Nat
         /\ Cardinality(Peers(on)) <= Cardinality(Peers(on))'
<1>1. IsFiniteSet(Peers(on)) /\ (Peers(on)' = Peers(on) \/ OneMore(r, on))
  BY PeersNext
<1>2. Cardinality(Peers(on)) \in Nat
  BY <1>1, FS_CardinalityType
<1>3. Tidy(on)
  BY TidyBefore
<1>4. CASE Peers(on)' = Peers(on)
  BY <1>2, <1>3, <1>4
<1>5. CASE OneMore(r, on)
  BY <1>2, <1>3, <1>5 DEF OneMore
<1> QED
  BY <1>1, <1>4, <1>5

\* The rows the others' forms point to.
LEMMA LinksStay ==
  ASSUME RequestTypes, RowsInv, NEW r \in Req, Advances(r), pc[r] \notin Answered,
         rows' = rows \/ RowMade(r) \/ RowChanged(r) \/ RowRemoved(r),
         NEW links, \A y \in links : y[2] \in Req => pc[y[2]] = "ok"
  PROVE  /\ \A y \in links : y[2] \in Req => pc'[y[2]] = "ok"
         /\ links \subseteq DOMAIN rows' => links \subseteq DOMAIN rows
<1>1. \A y \in links : y[2] \in Req => pc'[y[2]] = "ok"
  BY DEF Advances, Answered
<1>2. ASSUME NEW y \in links, y \in DOMAIN rows', y \notin DOMAIN rows PROVE FALSE
  <2>1. RowMade(r) /\ y = Row(r)
    BY <1>2 DEF RowMade, RowChanged, RowRemoved
  <2>2. pc[r] \in RowLabels \ {"page", "total"} /\ op[r][1] \in Making /\ pc[r] # "ok"
    BY Zenon, <2>1 DEF RowMade, RowsInv, FormInv, InPlace, RowLabels, MasterLabels
  <2>3. Row(r) = <<On(r), r>>
    BY <2>2, InHand
  <2>4. y[2] = r
    BY <2>1, <2>3
  <2> QED
    BY <2>2, <2>4
<1> QED
  BY <1>1, <1>2

\* What there is to show of the number of a request after a step.
LEMMA NumberNext ==
  ASSUME NEW q \in Req, NEW on, On(q)' = on,
         pc'[q] = "idle" => form'[q] = NoForm,
         \A y \in form'[q].links : y[2] \in Req => pc'[y[2]] = "ok",
         pc'[q] = "insert" /\ form'[q].code = 0 /\ Tidy(on)' =>
           form'[q].number <= Cardinality(Peers(on))' + 1,
         Counted(q)' =>
           /\ pc'[q] \in {"insert"} \cup Answered /\ op'[q][1] \in Making
           /\ pc'[q] = "insert" =>
                Disturbed(q)' \/ \A x \in Peers(on)' : rows'[x].code < form'[q].number
           /\ pc'[q] = "refused" => Disturbed(q)' \/ ~(form'[q].links \subseteq DOMAIN rows')
  PROVE  NumberFits(q)'
<1>1. /\ Tidy(On(q))' = Tidy(on)' /\ Peers(On(q))' = Peers(on)'
      /\ Cardinality(Peers(On(q)))' = Cardinality(Peers(on))'
  BY DEF Tidy, Peers
<1>2. Counted(q)' => CountedFits(q)'
  BY <1>1 DEF CountedFits
<1> QED
  BY <1>1, <1>2 DEF NumberFits

\* The requests that do not step.
LEMMA OthersNumber ==
  ASSUME RequestTypes, MainInv, RowsInv, CodesInv, NEW r \in Req, Advances(r), NumberStep(r),
         pc[r] \notin Answered,
         rows' = rows \/ RowMade(r) \/ RowChanged(r) \/ RowRemoved(r),
         NEW q \in Req \ {r}
  PROVE  NumberFits(q)'
<1>1. pc'[q] = pc[q] /\ op'[q] = op[q] /\ form'[q] = form[q] /\ NumberFits(q) /\ FormInv(q)
  BY DEF Advances, NumberStep, CodesInv, RowsInv
<1>2. PICK on : on = On(q)
  OBVIOUS
<1>3. On(q)' = on
  BY <1>1, <1>2 DEF On
<1>4. /\ \A y \in form[q].links : y[2] \in Req => pc'[y[2]] = "ok"
      /\ form[q].links \subseteq DOMAIN rows' => form[q].links \subseteq DOMAIN rows
  BY <1>1, LinksStay DEF NumberFits
<1>5. pc[q] = "insert" => on \in Resources /\ form[q].number \in Nat
  <2>1. "insert" \in RowLabels \ {"page", "total"}
    BY DEF RowLabels, MasterLabels
  <2> QED
    BY <1>2, <2>1, InHand
<1>6. ASSUME pc[q] = "insert", form[q].code = 0, Tidy(on)'
      PROVE  form[q].number <= Cardinality(Peers(on))' + 1
  <2>1. /\ Tidy(on) /\ Cardinality(Peers(on)) \in Nat /\ Cardinality(Peers(on))' \in Nat
        /\ Cardinality(Peers(on)) <= Cardinality(Peers(on))'
    BY <1>5, <1>6, CountStays
  <2>2. form[q].number <= Cardinality(Peers(on)) + 1
    BY <1>1, <1>2, <1>6, <2>1 DEF NumberFits
  <2>3. form[q].number \in Nat
    BY <1>5, <1>6
  <2> QED
    BY <2>1, <2>2, <2>3
<1>7. ASSUME Counted(q)
      PROVE  /\ pc[q] \in {"insert"} \cup Answered /\ op[q][1] \in Making
             /\ pc[q] = "insert" =>
                  Disturbed(q)' \/ \A x \in Peers(on)' : rows'[x].code < form[q].number
             /\ pc[q] = "refused" => Disturbed(q)' \/ ~(form[q].links \subseteq DOMAIN rows')
  <2>1. CountedFits(q)
    BY <1>1, <1>7 DEF NumberFits
  <2>2. pc[q] \in {"insert"} \cup Answered /\ op[q][1] \in Making
    BY <2>1 DEF CountedFits
  <2>3. Disturbed(q) => Disturbed(q)'
    BY <1>1, <2>2, DisturbedStays DEF MainInv
  <2>4. ASSUME pc[q] = "insert", ~Disturbed(q)'
        PROVE  \A x \in Peers(on)' : rows'[x].code < form[q].number
    <3>1. \A x \in Peers(on) : rows[x].code < form[q].number
      BY <1>2, <2>1, <2>3, <2>4 DEF CountedFits
    <3>2. CASE rows' = rows
      BY <3>1, <3>2 DEF Peers
    <3>3. CASE rows' # rows
      <4>1. pc[r] \in {"insert", "write", "delete"}
        BY <3>3 DEF RowMade, RowChanged, RowRemoved
      <4>2. InFlight(r) /\ InFlight(q)
        BY <2>4, <4>1 DEF InFlight, Answered
      <4>3. Met(q, r)'
        BY <4>2 DEF MainInv, Overlaps, Met, Advances
      <4>4. On(r) # on
        <5>1. ASSUME On(r) = on PROVE Disturbed(q)'
          <6>1. op'[r] = op[r]
            BY <4>2 DEF Advances, InFlight
          <6>2. On(r)' = On(q)' /\ Disturbs(r, q)'
            BY <1>3, <4>3, <5>1, <6>1 DEF On, Disturbs
          <6> QED
            BY <6>2 DEF Disturbed
        <5> QED
          BY <2>4, <5>1
      <4>5. /\ Peers(on)' = Peers(on) \/ OneMore(r, on)
            /\ \A x \in Peers(on) : rows'[x].code = rows[x].code
        BY <1>5, <2>4, <4>4, PeersNext
      <4> QED
        BY <3>1, <4>4, <4>5 DEF OneMore
    <3> QED
      BY <3>2, <3>3
  <2> QED
    BY <1>4, <2>1, <2>2, <2>3, <2>4 DEF CountedFits
<1>8. pc'[q] = "idle" => form'[q] = NoForm
  BY <1>1 DEF NumberFits
<1>9. /\ \A y \in form'[q].links : y[2] \in Req => pc'[y[2]] = "ok"
      /\ pc'[q] = "insert" /\ form'[q].code = 0 /\ Tidy(on)' =>
           form'[q].number <= Cardinality(Peers(on))' + 1
  BY <1>1, <1>4, <1>6
<1>10. Counted(q)' =>
         /\ pc'[q] \in {"insert"} \cup Answered /\ op'[q][1] \in Making
         /\ pc'[q] = "insert" =>
              Disturbed(q)' \/ \A x \in Peers(on)' : rows'[x].code < form'[q].number
         /\ pc'[q] = "refused" => Disturbed(q)' \/ ~(form'[q].links \subseteq DOMAIN rows')
  BY <1>1, <1>7 DEF Counted
<1> QED
  BY <1>3, <1>8, <1>9, <1>10, NumberNext

\* The request that steps.
LEMMA OwnNumber ==
  ASSUME RequestTypes, MainInv, RowsInv, CodesInv, NEW r \in Req, Advances(r), NumberStep(r),
         pc[r] \notin Answered,
         rows' = rows \/ RowMade(r) \/ RowChanged(r) \/ RowRemoved(r)
  PROVE  NumberFits(r)'
<1>1. NumberFits(r) /\ FormInv(r) /\ RowsFit /\ RowsWereMade
  BY DEF CodesInv, RowsInv
<1>2. PICK on : on = On(r)'
  OBVIOUS
<1>0. Cardinality(Peers(on))' \in Nat
  <2>1. IsFiniteSet(DOMAIN rows')
    BY RowsFitKept DEF RowsFit
  <2>2. IsFiniteSet(Peers(on)')
    BY <2>1, FS_Subset DEF Peers
  <2> QED
    BY <2>2, FS_CardinalityType
<1>3. pc'[r] # "idle"
  BY DEF Advances
<1>4. ASSUME pc[r] # "idle" PROVE op'[r] = op[r] /\ On(r) = on
  BY <1>2, <1>4 DEF Advances, On
<1>5. \A y \in form'[r].links : y[2] \in Req => pc'[y[2]] = "ok"
  <2>1. CASE form'[r].links = form[r].links
    BY <1>1, <2>1, LinksStay DEF NumberFits
  <2>2. CASE pc[r] = "idle" /\ form'[r].links \subseteq DOMAIN rows
    <3>1. ASSUME NEW y \in form'[r].links, y[2] \in Req PROVE pc[y[2]] = "ok"
      <4>1. y \in Ids
        BY <1>1, <2>2, <3>1 DEF RowsFit
      <4>2. y = <<y[1], y[2]>> /\ y[1] \in Resources
        BY <4>1 DEF Ids
      <4> QED
        BY <1>1, <2>2, <3>1, <4>2 DEF RowsWereMade
    <3> QED
      BY <2>2, <3>1 DEF Advances
  <2> QED
    BY <2>1, <2>2 DEF NumberStep
<1>6. pc[r] = "insert" => pc'[r] # "insert"
  BY DEF NumberStep, Acceptable
<1>7. CASE form'[r] = form[r]
  <2>1. Counted(r)' => Counted(r)
    BY <1>7 DEF Counted
  <2>2. ASSUME Counted(r)
        PROVE  /\ pc[r] = "insert" /\ op'[r] = op[r] /\ op[r][1] \in Making
               /\ pc'[r] \in Answered
               /\ pc'[r] = "refused" =>
                    Disturbed(r) \/ ~(form[r].links \subseteq DOMAIN rows)
    <3>1. CountedFits(r)
      BY <1>1, <2>2 DEF NumberFits
    <3>2. pc[r] = "insert" /\ op[r][1] \in Making
      BY <3>1 DEF CountedFits
    <3>3. Row(r)[1] = On(r)
      BY Zenon, <3>2, InHand DEF RowLabels, MasterLabels
    <3>4. pc'[r] = "refused" => ~Acceptable(r)
      BY <3>2 DEF NumberStep
    <3>5. ASSUME ~Acceptable(r), form[r].links \subseteq DOMAIN rows PROVE Disturbed(r)
      <4>1. PICK x \in Peers(On(r)) : rows[x].code = form[r].number
        BY <3>3, <3>5 DEF Acceptable, CodeTaken
      <4>2. form[r].number \in Nat
        BY Zenon, <3>2, InHand DEF RowLabels, MasterLabels
      <4> QED
        BY <3>1, <3>2, <4>1, <4>2 DEF CountedFits
    <3> QED
      BY <1>4, <3>2, <3>4, <3>5 DEF NumberStep, Answered
  <2>3. ASSUME pc'[r] = "insert", form'[r].code = 0, Tidy(on)'
        PROVE  form'[r].number <= Cardinality(Peers(on))' + 1
    <3>1. form[r].number = 0
      BY <1>6, <1>7, <2>2, <2>3 DEF Counted, Answered
    <3> QED
      BY <1>0, <1>7, <3>1
  <2>4. ASSUME Counted(r)'
        PROVE  /\ pc'[r] \in Answered /\ op'[r][1] \in Making /\ pc'[r] # "insert"
               /\ pc'[r] = "refused" => Disturbed(r)' \/ ~(form'[r].links \subseteq DOMAIN rows')
    <3>1. Counted(r)
      BY <2>1, <2>4
    <3>2. /\ pc[r] = "insert" /\ op'[r] = op[r] /\ op[r][1] \in Making
          /\ pc'[r] \in Answered
          /\ pc'[r] = "refused" => Disturbed(r) \/ ~(form[r].links \subseteq DOMAIN rows)
      BY <2>2, <3>1
    <3>3. Disturbed(r) => Disturbed(r)'
      BY <3>2, DisturbedStays DEF MainInv
    <3>4. form[r].links \subseteq DOMAIN rows' => form[r].links \subseteq DOMAIN rows
      BY <1>1, LinksStay DEF NumberFits
    <3> QED
      BY <1>6, <1>7, <3>2, <3>3, <3>4
  <2> QED
    BY <1>2, <1>3, <1>5, <2>3, <2>4, NumberNext
<1>8. CASE pc[r] = "idle" /\ form'[r].number = form'[r].code
  <2>1. ~Counted(r)'
    BY <1>8 DEF Counted
  <2>2. form'[r].code = 0 => form'[r].number <= Cardinality(Peers(on))' + 1
    BY <1>0, <1>8
  <2> QED
    BY <1>2, <1>3, <1>5, <2>1, <2>2, NumberNext
<1>9. CASE /\ pc[r] = "count" /\ pc'[r] = "insert" /\ form'[r].code = form[r].code
           /\ form'[r].number = Cardinality(Peers(On(r))) + 1
  <2>1. /\ op'[r] = op[r] /\ On(r) = on /\ op[r][1] \in Making /\ on \in Resources
    <3>1. pc[r] \in RowLabels \ {"page", "total"} /\ op[r][1] \in Making
      BY <1>1, <1>9 DEF RowLabels, MasterLabels, FormInv, InPlace
    <3> QED
      BY <1>4, <1>9, <3>1, InHand
  <2>2. rows' = rows
    BY <1>9 DEF RowMade, RowChanged, RowRemoved
  <2>3. Cardinality(Peers(on))' = Cardinality(Peers(on)) /\ Peers(on)' = Peers(on)
    BY <2>2 DEF Peers
  <2>4. Cardinality(Peers(on)) \in Nat
    <3>1. IsFiniteSet(Peers(on))
      BY <1>1, FS_Subset DEF RowsFit, Peers
    <3> QED
      BY <3>1, FS_CardinalityType
  <2>5. ASSUME form[r].code = 0, ~Disturbed(r)'
        PROVE  \A x \in Peers(on) : rows[x].code < form'[r].number
    <3>1. ASSUME NEW s \in Req, On(s) = on, Untidy(s) PROVE FALSE
      <4>1. s # r
        BY <1>9, <2>5, <3>1 DEF Untidy
      <4>2. Disturbed(r)
        BY <2>1, <3>1, <4>1 DEF Disturbed, Disturbs, Untidy
      <4> QED
        BY <2>1, <2>5, <4>2, DisturbedStays DEF MainInv
    <3>2. Tidy(on)
      BY <3>1 DEF Tidy
    <3>3. \A x \in Peers(on) : rows[x].code \in Nat /\ rows[x].code <= Cardinality(Peers(on))
      BY <1>1, <2>1, <3>2 DEF CodesInv, CodesWithin, RowsFit, Peers
    <3> QED
      BY <1>9, <2>1, <2>4, <3>3
  <2>6. form'[r].number <= Cardinality(Peers(on))' + 1
    BY <1>9, <2>1, <2>3, <2>4
  <2>7. Counted(r)' =>
          Disturbed(r)' \/ \A x \in Peers(on)' : rows'[x].code < form'[r].number
    BY <1>9, <2>2, <2>3, <2>5 DEF Counted
  <2> QED
    BY <1>2, <1>3, <1>5, <1>9, <2>1, <2>6, <2>7, NumberNext
<1> QED
  BY <1>7, <1>8, <1>9 DEF NumberStep

LEMMA InitCodesInv == Init => CodesInv
<1> SUFFICES ASSUME Init PROVE CodesInv
  OBVIOUS
<1>1. /\ DOMAIN rows = OldRows
      /\ \A id \in OldRows : rows[id] = OldRow(id)
      /\ \A r \in Req : pc[r] = "idle" /\ form[r] = NoForm
  BY DEF Init, MasterInit, RequestsInit
<1>2. ASSUME NEW on \in Resources, NEW x \in Peers(on)
      PROVE  rows[x].code <= Cardinality(Peers(on))
  <2>1. x \in OldRows /\ x[1] = on /\ x[2] \in 1 .. Olds /\ Olds \in Nat
    BY <1>1, <1>2, MasterDataAssumption DEF Peers, OldRows
  <2>2. Peers(on) = {on} \X (1 .. Olds)
    BY <1>1, <2>1 DEF Peers, OldRows
  <2>3. Cardinality(Peers(on)) = Olds
    <3>1. IsFiniteSet({on}) /\ Cardinality({on}) = 1
      BY FS_Singleton
    <3>2. IsFiniteSet(1 .. Olds) /\ Cardinality(1 .. Olds) = Olds
      BY <2>1, FS_Interval, CountTo
    <3>3. Cardinality({on} \X (1 .. Olds))
            = Cardinality({on}) * Cardinality(1 .. Olds)
      BY ONLY <3>1, <3>2, FS_Product
    <3> QED
      BY <2>1, <2>2, <3>1, <3>2, <3>3
  <2>4. rows[x].code \in {0, x[2]}
    BY <1>1, <2>1 DEF OldRow
  <2> QED
    BY <2>1, <2>3, <2>4
<1>3. ASSUME NEW r \in Req PROVE NumberFits(r)
  BY <1>1 DEF NumberFits, NoForm, Counted
<1> QED
  BY <1>2, <1>3 DEF CodesInv, CodesWithin

LEMMA CodesInvStep ==
  RequestTypes /\ RefInv /\ MainInv /\ RowsInv /\ CodesInv /\ [Next]_vars => CodesInv'
<1> SUFFICES ASSUME RequestTypes, RefInv, MainInv, RowsInv, CodesInv, [Next]_vars
             PROVE  CodesInv'
  OBVIOUS
<1>1. ASSUME NEW r \in Req, ComponentStep(r) \/ Forbid(r) \/ Abort(r) PROVE CodesInv'
  <2>1. Advances(r)
    BY <1>1, StepsAdvance DEF MainInv
  <2>2. NumberStep(r)
    BY <1>1, StepsNumber
  <2>3. pc[r] \notin Answered
    BY <1>1, AnsweredStaySo
  <2>4. rows' = rows \/ RowMade(r) \/ RowChanged(r) \/ RowRemoved(r)
    BY <1>1, RowsChange, RowsAreMasters DEF ComponentStep
  <2>5. CodesWithin'
    BY <2>1, <2>2, <2>3, <2>4, CodesStay
  <2>6. \A q \in Req : NumberFits(q)'
    BY <2>1, <2>2, <2>3, <2>4, OthersNumber, OwnNumber
  <2> QED
    BY <2>5, <2>6 DEF CodesInv
<1>2. CASE UNCHANGED vars \/ Worker
  <2>1. rows' = rows /\ form' = form /\ pc' = pc /\ op' = op /\ met' = met
    BY <1>2 DEF vars, Worker, Transmit, requestVars, masterVars
  <2> QED
    BY <2>1 DEF CodesInv, CodesWithin, NumberFits, Counted, CountedFits, Disturbed,
       Disturbs, Tidy, Untidy, Peers, On, Does, Met
<1> QED
  BY <1>1, <1>2 DEF Next, ComponentStep

\* A create that leaves the number to the API is refused only if it did not run alone
\* on its resource, or something else than a code was wrong.
THEOREM AutoCodesAlwaysAccepted == Spec => []AutoCodeAccepted
<1>1. CodesInv => AutoCodeAccepted
  BY DEF CodesInv, NumberFits, Counted, CountedFits, AutoCodeAccepted, Disturbed
<1>2. Spec => []CodesInv
  BY CodesInvStep, InitCodesInv, RequestsTyped, RefInvAlways, MainInvAlways, RowsInvAlways,
     PTL DEF Spec
<1> QED
  BY <1>1, <1>2, PTL

-----------------------------------------------------------------------------
(***************************************************************************)
(* The theorem that every variable has its type.                           *)
(*                                                                         *)
(* One invariant per component, kept by the steps of the others: what a    *)
(* request has in hand has its type at the statements that use it, and     *)
(* what is added up, or divided, is such that the sum is one of integers.  *)
(***************************************************************************)

LEMMA AwayMisses ==
  ASSUME RequestTypes, NEW r \in Req, NEW labels \in SUBSET AllLabels, NEW ops,
         Elsewhere(r, labels, ops) \/ Forbid(r) \/ Abort(r)
  PROVE  Misses(r, labels)
BY EndsSpare DEF AllLabels, Answered, Misses, Spares, Elsewhere, RequestTypes

LEMMA PersonnelTypesAway ==
  ASSUME RequestTypes, PersonnelTypes, NEW r \in Req,
         ComponentStep(r) \/ Forbid(r) \/ Abort(r), ~PersonnelStep(r)
  PROVE  PersonnelTypes'
<1>1. UNCHANGED personnelVars
  BY DEF ComponentStep, MasterStep, TreasuryStep, JournalStep, EDocumentsStep, FilesStep,
     ProjectsStep, AccessStep, MembersStep, Forbid, Abort
<1>2. Misses(r, PersonnelLabels)
  BY AwayFromPersonnel, AwayMisses, PartsAreStatements DEF ComponentStep
<1>3. SheetLabels \subseteq PersonnelLabels
  BY DEF SheetLabels, PayLabels, PersonnelLabels
<1> QED
  BY <1>1, <1>2, <1>3 DEF PersonnelTypes, personnelVars, PersonnelTypeOK, Misses

LEMMA EDocumentTypesAway ==
  ASSUME RequestTypes, EDocumentTypes, NEW r \in Req,
         ComponentStep(r) \/ Forbid(r) \/ Abort(r), ~EDocumentsStep(r)
  PROVE  EDocumentTypes'
<1>1. UNCHANGED edocVars
  BY DEF ComponentStep, MasterStep, TreasuryStep, JournalStep, PersonnelStep, FilesStep,
     ProjectsStep, AccessStep, MembersStep, Forbid, Abort
<1>2. Misses(r, EDocumentLabels)
  BY AwayFromEDocuments, AwayMisses, PartsAreStatements DEF ComponentStep
<1>3. InvoiceLabels \subseteq EDocumentLabels
  BY DEF InvoiceLabels, EDocumentLabels
<1> QED
  BY <1>1, <1>2, <1>3 DEF EDocumentTypes, edocVars, EDocumentsTypeOK, Misses

LEMMA TaskTypesAway ==
  ASSUME RequestTypes, TaskTypes, NEW r \in Req,
         ComponentStep(r) \/ Forbid(r) \/ Abort(r), ~ProjectsStep(r)
  PROVE  TaskTypes'
<1>1. UNCHANGED taskVars
  BY DEF ComponentStep, MasterStep, TreasuryStep, JournalStep, PersonnelStep, FilesStep,
     EDocumentsStep, AccessStep, MembersStep, Forbid, Abort
<1>2. Misses(r, TaskLabels)
  BY AwayFromProjects, AwayMisses, PartsAreStatements DEF ComponentStep
<1>3. CreateTaskLabels \subseteq TaskLabels
  BY DEF CreateTaskLabels, TaskLabels
<1> QED
  BY <1>1, <1>2, <1>3 DEF TaskTypes, taskVars, ProjectsTypeOK, Misses

LEMMA MemberTypesAway ==
  ASSUME RequestTypes, MemberTypes, NEW r \in Req,
         ComponentStep(r) \/ Forbid(r) \/ Abort(r), ~MembersStep(r)
  PROVE  MemberTypes'
<1>1. UNCHANGED memberVars
  BY DEF ComponentStep, MasterStep, TreasuryStep, JournalStep, PersonnelStep, FilesStep,
     EDocumentsStep, AccessStep, ProjectsStep, Forbid, Abort
<1>2. Misses(r, MemberLabels)
  BY AwayFromMembers, AwayMisses, PartsAreStatements DEF ComponentStep
<1>3. RegisterLabels \subseteq MemberLabels /\ InviteLabels \subseteq MemberLabels
  BY DEF RegisterLabels, InviteLabels, MemberLabels
<1> QED
  BY <1>1, <1>2, <1>3 DEF MemberTypes, memberVars, MembersTypeOK, Misses, PersonShapes,
     Email, TaxNumber

LEMMA FileTypesAway ==
  ASSUME FilesTypeOK, NEW r \in Req,
         ComponentStep(r) \/ Forbid(r) \/ Abort(r), ~FilesStep(r)
  PROVE  FilesTypeOK'
<1>1. UNCHANGED fileVars
  BY DEF ComponentStep, MasterStep, TreasuryStep, JournalStep, PersonnelStep, EDocumentsStep,
     ProjectsStep, AccessStep, MembersStep, Forbid, Abort
<1> QED
  BY <1>1 DEF FilesTypeOK, fileVars

LEMMA AccessTypesAway ==
  ASSUME AccessTypes, AccessShapes, NEW r \in Req,
         ComponentStep(r) \/ Forbid(r) \/ Abort(r), ~AccessStep(r)
  PROVE  AccessTypes'
<1>1. CASE Abort(r)
  BY <1>1 DEF Abort, AccessDrop, AccessRelease, accessTables, AccessShapes, AccessTypes,
     AskTypes
<1>2. CASE ~Abort(r)
  <2>1. UNCHANGED accessVars
    BY <1>2 DEF ComponentStep, MasterStep, TreasuryStep, JournalStep, PersonnelStep,
       EDocumentsStep, FilesStep, ProjectsStep, MembersStep, Forbid
  <2> QED
    BY <2>1 DEF AccessTypes, AskTypes, accessVars
<1> QED
  BY <1>1, <1>2


LEMMA PeersAre ==
  ASSUME RowsFit, NEW on, NEW x \in Peers(on)
  PROVE  x \in {on} \X ((1 .. Olds) \cup Req)
<1>1. x \in Ids /\ x[1] = on
  BY DEF Peers, RowsFit
<1> QED
  BY <1>1 DEF Ids

LEMMA ComputedBreakdown ==
  ASSUME NEW gross \in Int, NEW bonuses \in Int, NEW other \in Int
  PROVE  CalculatePayroll(gross, bonuses, other) \in Breakdown
<1> DEFINE taxable == gross + bonuses
<1>1. /\ SgkEmployee(taxable) \in Int /\ Unemployment(taxable) \in Int
      /\ StampTax(taxable) \in Int /\ IncomeTax(taxable) \in Int
  BY SharesAreWhole
<1>5. Share(taxable, 41, 200) \in Int
  BY ShareIsWhole
<1>3. Deductions(taxable, other) \in Int
  BY <1>1, RoundedNear DEF Deductions
<1>4. Rounded(taxable - Deductions(taxable, other)) \in Int
  BY <1>3, RoundedNear
<1> QED
  BY <1>1, <1>4, <1>5 DEF CalculatePayroll, Breakdown

LEMMA PersonnelTypesStep ==
  ASSUME RequestTypes, RowsFit, PersonnelTypes, NEW r \in Req, PersonnelStep(r)
  PROVE  PersonnelTypes'
<1>1. PersonnelStart(r) \/ PersonnelWork(r)
  BY DEF PersonnelStep
<1>2. \A s \in Req \ {r} : pc'[s] = pc[s]
  BY <1>1, PersonnelMoves DEF MovesAmong, RequestTypes
<1>3. SUFFICES /\ PersonnelTypeOK' /\ sheet' \in [Req -> Sheet]
               /\ \A s \in Req \ {r} : sheet'[s] = sheet[s]
               /\ pc'[r] \in SheetLabels =>
                    sheet'[r].employee \in Employees /\ sheet'[r].date \in Dates
  BY <1>2 DEF PersonnelTypes
<1> USE DEF PersonnelTypes
<1>0. NoPay \in Breakdown /\ Unsaid \in Int
  BY DEF NoPay, Breakdown, Unsaid
<1>4. ASSUME NEW id \in Peers("employee"), NEW date \in Dates, NEW gross \in Int,
             NEW bonuses \in Int, NEW other \in Int
      PROVE  /\ PayrollSheet(id, date, gross, bonuses, other) \in Sheet
             /\ PayrollSheet(id, date, gross, bonuses, other).employee \in Employees
             /\ PayrollSheet(id, date, gross, bonuses, other).date \in Dates
  <2>1. id \in Employees
    BY <1>4, PeersAre DEF Employees
  <2> QED
    BY Zenon, <1>0, <1>4, <2>1, PersonnelAssumption DEF PayrollSheet, NoSheet, Sheet
<1>5. ASSUME NEW new \in Sheet, new.employee \in Employees, new.date \in Dates,
             sheet' = [sheet EXCEPT ![r] = new], UNCHANGED <<payrolls, attendances>>
      PROVE  PersonnelTypes'
  BY <1>2, <1>5 DEF PersonnelTypeOK
<1>6. CASE StartPayroll(r)
  <2>1. Salaries \subseteq Int
    BY PersonnelAssumption
  <2> QED
    BY Zenon, <1>0, <1>4, <1>5, <1>6, <2>1 DEF StartPayroll
<1>7. CASE StartApprove(r)
  <2>1. PICK p \in DOMAIN payrolls : sheet' = [sheet EXCEPT ![r].payroll = p]
    BY Zenon, <1>7 DEF StartApprove
  <2>2. p \in Req
    BY DEF PersonnelTypeOK
  <2>3. pc'[r] = "find payroll"
    BY Zenon, <1>7 DEF StartApprove, Begin, RequestTypes
  <2>4. [sheet[r] EXCEPT !.payroll = p] \in Sheet
    BY <2>2 DEF Sheet
  <2>5. sheet' = [sheet EXCEPT ![r] = [sheet[r] EXCEPT !.payroll = p]]
    BY <2>1
  <2>6. pc'[r] \notin SheetLabels
    BY Zenon, <2>3 DEF SheetLabels, PayLabels
  <2> QED
    BY Zenon, <1>7, <2>4, <2>5, <2>6 DEF StartApprove, PersonnelTypeOK
<1>8. CASE StartAttendance(r)
  <2>0. NoSheet \in [employee : {<<"employee", 1>>}, date : Nat \X Nat, gross : Int,
                     bonuses : Int, other : Int, pay : Breakdown, payroll : Req \cup {Nobody}]
    BY <1>0 DEF NoSheet
  <2>1. ASSUME NEW id \in Employees, NEW date \in Dates
        PROVE  /\ [NoSheet EXCEPT !.employee = id, !.date = date] \in Sheet
               /\ [NoSheet EXCEPT !.employee = id, !.date = date].employee \in Employees
               /\ [NoSheet EXCEPT !.employee = id, !.date = date].date \in Dates
    BY Zenon, <2>0, PersonnelAssumption DEF Sheet
  <2>2. Peers("employee") \subseteq Employees
    BY PeersAre DEF Employees
  <2> QED
    BY Zenon, <1>5, <1>8, <2>1, <2>2 DEF StartAttendance
<1>9. CASE FindPayee(r)
  <2> DEFINE gross == IF sheet[r].gross = Unsaid THEN rows[sheet[r].employee].value
                                                 ELSE sheet[r].gross
             pay == CalculatePayroll(gross, sheet[r].bonuses, sheet[r].other)
  <2>1. sheet[r].employee \in Employees /\ sheet[r].date \in Dates
    BY Zenon, <1>9 DEF FindPayee, SheetLabels, PayLabels
  <2>2. CASE sheet' = sheet
    BY Zenon, <1>9, <2>1, <2>2 DEF FindPayee, PersonnelTypeOK
  <2>3. CASE sheet[r].employee \in DOMAIN rows /\ sheet' = [sheet EXCEPT ![r].pay = pay]
    <3>1. gross \in Int
      BY <2>3 DEF RowsFit, ValueFits, Sheet
    <3>2. pay \in Breakdown
      BY <3>1, ComputedBreakdown DEF Sheet
    <3> HIDE DEF pay
    <3> DEFINE new == [sheet[r] EXCEPT !.pay = pay]
    <3>3. new \in Sheet /\ new.employee = sheet[r].employee /\ new.date = sheet[r].date
      BY <3>2 DEF Sheet
    <3>4. sheet' = [sheet EXCEPT ![r] = new] /\ UNCHANGED <<payrolls, attendances>>
      BY Zenon, <1>9, <2>3 DEF FindPayee
    <3> HIDE DEF new
    <3> QED
      BY Zenon, <1>5, <2>1, <3>3, <3>4
  <2> QED
    BY Zenon, <1>9, <2>2, <2>3 DEF FindPayee
<1>10. CASE FindPeriod(r) \/ FindPayroll(r) \/ FindAttendee(r)
  BY Zenon, <1>10 DEF FindPeriod, FindPayroll, FindAttendee, SheetLabels, PayLabels, Goto,
     Answer, RequestTypes, personnelVars, PersonnelTypeOK
<1>11. CASE InsertPayroll(r)
  <2>1. sheet[r] \in Sheet /\ sheet[r].employee \in Employees /\ sheet[r].date \in Dates
    BY Zenon, <1>11 DEF InsertPayroll, SheetLabels, PayLabels
  <2>2. Inserted(r) \in Payroll
    BY <2>1, PersonnelAssumption DEF Inserted, Payroll, Sheet, StartOfMonth
  <2>3. /\ DOMAIN payrolls' \subseteq DOMAIN payrolls \cup {r}
        /\ \A p \in DOMAIN payrolls' : payrolls'[p] \in {Inserted(r), payrolls[p]}
        /\ \A p \in DOMAIN payrolls' : p \in DOMAIN payrolls \/ payrolls'[p] = Inserted(r)
    BY Zenon, <1>11 DEF InsertPayroll
  <2>4. pc'[r] \notin SheetLabels /\ sheet' = sheet /\ attendances' = attendances
    BY Zenon, <1>11 DEF InsertPayroll, Answer, Goto, RequestTypes, SheetLabels, PayLabels
  <2> HIDE DEF PersonnelTypes
  <2>5. PersonnelTypeOK'
    BY <2>2, <2>3, <2>4 DEF PersonnelTypes, PersonnelTypeOK
  <2> QED
    BY <2>4, <2>5 DEF PersonnelTypes
<1>12. CASE ApprovePayroll(r)
  BY Zenon, <1>12 DEF PersonnelTypeOK, Payroll, ApprovePayroll, Answer, Goto, RequestTypes,
     SheetLabels, PayLabels
<1>13. CASE RecordAttendance(r)
  <2>1. sheet[r].employee \in Employees /\ sheet[r].date \in Dates
    BY Zenon, <1>13 DEF RecordAttendance, SheetLabels
  <2>2. pc'[r] \notin SheetLabels /\ sheet' = sheet /\ payrolls' = payrolls
    BY Zenon, <1>13 DEF RecordAttendance, Answer, Goto, RequestTypes, SheetLabels, PayLabels
  <2> QED
    BY <1>13, <2>1, <2>2 DEF RecordAttendance, PersonnelTypeOK
<1> QED
  BY <1>1, <1>6, <1>7, <1>8, <1>9, <1>10, <1>11, <1>12, <1>13 DEF PersonnelStart, PersonnelWork


LEMMA EDocumentTypesStep ==
  ASSUME RequestTypes, RowsFit, EDocumentTypes, NEW r \in Req, EDocumentsStep(r)
  PROVE  EDocumentTypes'
<1>1. EDocumentsStart(r) \/ EDocumentsWork(r)
  BY DEF EDocumentsStep
<1>2. \A s \in Req \ {r} : pc'[s] = pc[s]
  BY <1>1, EDocumentMoves DEF MovesAmong, RequestTypes
<1> USE DEF EDocumentTypes
<1>3. ASSUME NEW new \in Paper, paper' = [paper EXCEPT ![r] = new],
             UNCHANGED <<einvoices, ewaybills>>,
             pc'[r] \notin InvoiceLabels \/ new.invoice \in SalesInvoices
      PROVE  EDocumentTypes'
  BY <1>2, <1>3 DEF EDocumentsTypeOK
<1>4. ASSUME EDocumentsTypeOK', paper' = paper,
             pc'[r] \in InvoiceLabels => pc[r] \in InvoiceLabels
      PROVE  EDocumentTypes'
  BY <1>2, <1>4
<1>5. CASE StartIssueInvoice(r)
  <2>1. PICK id \in Peers("sales_invoice") : paper' = [paper EXCEPT ![r].invoice = id]
    BY Zenon, <1>5 DEF StartIssueInvoice
  <2>2. id \in SalesInvoices
    BY PeersAre DEF SalesInvoices
  <2>3. /\ [paper[r] EXCEPT !.invoice = id] \in Paper
        /\ [paper[r] EXCEPT !.invoice = id].invoice = id
    BY <2>2 DEF Paper
  <2>4. paper' = [paper EXCEPT ![r] = [paper[r] EXCEPT !.invoice = id]]
    BY <2>1
  <2> QED
    BY Zenon, <1>3, <1>5, <2>2, <2>3, <2>4 DEF StartIssueInvoice
<1>6. CASE StartIssueWaybill(r)
  <2>1. PICK w \in Waybills : paper' = [paper EXCEPT ![r].waybill = w]
    BY Zenon, <1>6 DEF StartIssueWaybill
  <2>2. [paper[r] EXCEPT !.waybill = w] \in Paper
    BY DEF Paper
  <2>3. paper' = [paper EXCEPT ![r] = [paper[r] EXCEPT !.waybill = w]]
    BY <2>1
  <2>4. pc'[r] \notin InvoiceLabels
    BY Zenon, <1>6 DEF StartIssueWaybill, Begin, RequestTypes, InvoiceLabels
  <2> QED
    BY Zenon, <1>3, <1>6, <2>2, <2>3, <2>4 DEF StartIssueWaybill
<1>7. CASE StartCancelEInvoice(r)
  <2>1. PICK d \in DOMAIN einvoices : paper' = [paper EXCEPT ![r].doc = d]
    BY Zenon, <1>7 DEF StartCancelEInvoice
  <2>2. [paper[r] EXCEPT !.doc = d] \in Paper
    BY DEF Paper, EDocumentsTypeOK
  <2>3. paper' = [paper EXCEPT ![r] = [paper[r] EXCEPT !.doc = d]]
    BY <2>1
  <2>4. pc'[r] \notin InvoiceLabels
    BY Zenon, <1>7 DEF StartCancelEInvoice, Begin, RequestTypes, InvoiceLabels
  <2> QED
    BY Zenon, <1>3, <1>7, <2>2, <2>3, <2>4 DEF StartCancelEInvoice
<1>8. CASE \/ FindSalesInvoice(r) \/ FindIssued(r) \/ FindWaybill(r) \/ FindIssuedWaybill(r)
           \/ FindEInvoice(r) \/ RereadEInvoice(r)
  BY Zenon, <1>8, <1>4 DEF FindSalesInvoice, FindIssued, FindWaybill, FindIssuedWaybill,
     FindEInvoice, RereadEInvoice, InvoiceLabels, Goto, Answer, RequestTypes, edocVars,
     EDocumentsTypeOK
<1>9. CASE InsertEInvoice(r)
  <2>1. paper[r].invoice \in SalesInvoices
    BY Zenon, <1>9 DEF InsertEInvoice, InvoiceLabels
  <2>2. [invoice |-> paper[r].invoice, status |-> "QUEUED"] \in EInvoice
    BY <2>1 DEF EInvoice, SalesInvoices, EStatus
  <2>3. EDocumentsTypeOK'
    BY Zenon, <1>9, <2>2 DEF InsertEInvoice, EDocumentsTypeOK
  <2> QED
    BY Zenon, <1>4, <1>9, <2>3 DEF InsertEInvoice, InvoiceLabels
<1>10. CASE InsertEWaybill(r)
  <2>1. paper[r].waybill \in Waybills
    BY DEF Paper
  <2>2. pc'[r] \notin InvoiceLabels
    BY Zenon, <1>10 DEF InsertEWaybill, Answer, Goto, RequestTypes, InvoiceLabels
  <2>3. EDocumentsTypeOK'
    BY Zenon, <1>10, <2>1 DEF InsertEWaybill, EDocumentsTypeOK
  <2> QED
    BY Zenon, <1>4, <1>10, <2>2, <2>3 DEF InsertEWaybill
<1>11. CASE CancelEInvoice(r)
  <2>1. pc'[r] \notin InvoiceLabels
    BY Zenon, <1>11 DEF CancelEInvoice, Goto, RequestTypes, InvoiceLabels
  <2> QED
    BY Zenon, <1>11, <1>4, <2>1 DEF EDocumentsTypeOK, EInvoice, EStatus, CancelEInvoice
<1> QED
  BY <1>1, <1>5, <1>6, <1>7, <1>8, <1>9, <1>10, <1>11 DEF EDocumentsStart, EDocumentsWork

LEMMA EDocumentTypesTransmit == EDocumentTypes /\ Transmit => EDocumentTypes'
<1> SUFFICES ASSUME EDocumentTypes, Transmit PROVE EDocumentTypes'
  OBVIOUS
<1>1. PICK d \in DOMAIN einvoices, answer \in {"ACCEPTED", "REJECTED"} :
        einvoices' = [einvoices EXCEPT ![d].status = answer]
  BY Zenon DEF Transmit
<1>2. [einvoices[d] EXCEPT !.status = answer] \in EInvoice
  BY DEF EDocumentTypes, EDocumentsTypeOK, EInvoice, EStatus
<1> QED
  BY <1>1, <1>2 DEF Transmit, requestVars, EDocumentTypes, EDocumentsTypeOK

LEMMA FileTypesStep ==
  ASSUME FilesTypeOK, NEW r \in Req, FilesStep(r)
  PROVE  FilesTypeOK'
<1> USE DEF FilesTypeOK
<1>1. file[r].name \in Attachments /\ r \in Attachments
  BY DEF Attachments
<1>2. ASSUME NEW a \in Attachments PROVE [file[r] EXCEPT !.name = a] \in
                                           [name : Attachments, failed : BOOLEAN]
  OBVIOUS
<1>3. [file[r] EXCEPT !.failed = TRUE] \in [name : Attachments, failed : BOOLEAN]
  OBVIOUS
<1>4. \/ file' = file
      \/ \E a \in Attachments : file' = [file EXCEPT ![r] = [file[r] EXCEPT !.name = a]]
      \/ file' = [file EXCEPT ![r] = [file[r] EXCEPT !.failed = TRUE]]
  BY Zenon, <1>1 DEF FilesStep, FilesStart, FilesWork, StartUpload, StartFile, PutObject, PutFails,
     InsertFile, FindFile, Presign, RemoveObject, RemoveFails, DeleteFile, fileVars
<1>5. attachments' \subseteq Attachments /\ objects' \subseteq Attachments
  BY Zenon, <1>1 DEF FilesStep, FilesStart, FilesWork, StartUpload, StartFile, PutObject, PutFails,
     InsertFile, FindFile, Presign, RemoveObject, RemoveFails, DeleteFile, fileVars
<1> QED
  BY Zenon, <1>2, <1>3, <1>4, <1>5


LEMMA TaskTypesStep ==
  ASSUME RequestTypes, RowsFit, TaskTypes, NEW r \in Req, ProjectsStep(r)
  PROVE  TaskTypes'
<1>1. ProjectsStart(r) \/ ProjectsWork(r)
  BY DEF ProjectsStep
<1>2. \A s \in Req \ {r} : pc'[s] = pc[s]
  BY <1>1, TaskMoves DEF MovesAmong, RequestTypes
<1> USE DEF TaskTypes
<1>3. ASSUME NEW new \in Job, job' = [job EXCEPT ![r] = new], tasks' = tasks,
             pc'[r] \notin CreateTaskLabels \/ new.status \in TaskStatus
      PROVE  TaskTypes'
  BY <1>2, <1>3 DEF ProjectsTypeOK
<1>4. ASSUME ProjectsTypeOK', job' = job,
             pc'[r] \in CreateTaskLabels => pc[r] \in CreateTaskLabels
      PROVE  TaskTypes'
  BY <1>2, <1>4
<1>5. NoJob \in Job
  BY DEF NoJob, Job, TaskNames
<1>6. ProjectChoices \subseteq Ids \cup {NoProject}
  BY DEF ProjectChoices, Peers, RowsFit
<1>7. ASSUME NEW t \in TaskNames, NEW status \in TaskStatus \cup {Unstated},
             NEW project \in ProjectChoices
      PROVE  /\ [NoJob EXCEPT !.task = t, !.status = status, !.project = project] \in Job
             /\ [NoJob EXCEPT !.task = t, !.status = status, !.project = project].status
                  = status
  BY Zenon, <1>5, <1>6 DEF Job
<1>8. CASE StartTask(r)
  <2>1. r \in TaskNames
    BY DEF TaskNames
  <2>2. PICK project \in ProjectChoices, status \in TaskStatus :
          /\ tasks' = tasks
          /\ job' = [job EXCEPT ![r] = [NoJob EXCEPT !.task = r, !.status = status,
                                                    !.project = project]]
    BY Zenon, <1>8 DEF StartTask
  <2> DEFINE new == [NoJob EXCEPT !.task = r, !.status = status, !.project = project]
  <2>3. new \in Job /\ new.status = status
    BY Zenon, <1>7, <2>1
  <2> HIDE DEF new
  <2> QED
    BY Zenon, <1>3, <2>2, <2>3 DEF new
<1>9. CASE StartChange(r)
  <2>1. pc'[r] \notin CreateTaskLabels
    BY Zenon, <1>9 DEF StartChange, Begin, RequestTypes, CreateTaskLabels
  <2> QED
    BY Zenon, <1>3, <1>7, <1>9, <2>1 DEF StartChange, ProjectsTypeOK
<1>10. CASE FindProject(r)
  BY Zenon, <1>4, <1>10 DEF FindProject, taskVars, CreateTaskLabels, ProjectsTypeOK
<1>11. CASE InsertTask(r)
  <2>1. job[r].status \in TaskStatus
    BY Zenon, <1>11 DEF InsertTask, CreateTaskLabels
  <2>2. [status |-> job[r].status, dated |-> FALSE, born |-> job[r].status,
         project |-> job[r].project] \in Task
    BY <2>1 DEF ProjectsTypeOK, Job, Task
  <2>3. ProjectsTypeOK'
    BY Zenon, <1>11, <2>2 DEF InsertTask, ProjectsTypeOK, TaskNames
  <2> QED
    BY Zenon, <1>4, <1>11, <2>3 DEF InsertTask, CreateTaskLabels
<1>12. CASE FindTask(r)
  <2>1. pc'[r] \notin CreateTaskLabels
    BY Zenon, <1>12 DEF FindTask, Answer, Goto, RequestTypes, CreateTaskLabels
  <2>2. CASE job' = job
    BY Zenon, <1>4, <1>12, <2>1, <2>2 DEF FindTask, ProjectsTypeOK
  <2>3. CASE job' = [job EXCEPT ![r].dates = Completes(r)]
    <3>1. Completes(r) \in BOOLEAN
      BY DEF Completes
    <3> HIDE DEF Completes
    <3>2. [job[r] EXCEPT !.dates = Completes(r)] \in Job
      BY <3>1 DEF ProjectsTypeOK, Job
    <3> QED
      BY Zenon, <1>3, <1>12, <2>1, <2>3, <3>2 DEF FindTask
  <2> QED
    BY Zenon, <1>12, <2>2, <2>3 DEF FindTask
<1>13. CASE WriteTask(r)
  <2> DEFINE t == job[r].task
             old == tasks[t]
             new == [old EXCEPT
                       !.status  = IF job[r].status = Unstated THEN @ ELSE job[r].status,
                       !.dated   = @ \/ job[r].dates,
                       !.project = IF job[r].project = NoProject THEN @ ELSE job[r].project]
  <2>1. pc'[r] \notin CreateTaskLabels /\ job' = job
    BY Zenon, <1>13 DEF WriteTask, Answer, Goto, RequestTypes, CreateTaskLabels
  <2>2. CASE tasks' = tasks
    BY <1>4, <2>1, <2>2 DEF ProjectsTypeOK
  <2>3. CASE t \in DOMAIN tasks /\ tasks' = [tasks EXCEPT ![t] = new]
    <3>1. old \in Task /\ job[r] \in Job
      BY <2>3 DEF ProjectsTypeOK
    <3>2. (old.dated \/ job[r].dates) \in BOOLEAN
      OBVIOUS
    <3>3. new \in Task
      BY Zenon, <3>1, <3>2 DEF Task, Job
    <3> HIDE DEF new
    <3> QED
      BY <1>4, <2>1, <2>3, <3>3 DEF ProjectsTypeOK
  <2> QED
    BY Zenon, <1>13, <2>2, <2>3 DEF WriteTask
<1>14. CASE DeleteTask(r)
  BY Zenon, <1>14, <1>4 DEF DeleteTask, Answer, Goto, RequestTypes, CreateTaskLabels,
     ProjectsTypeOK
<1> QED
  BY <1>1, <1>8, <1>9, <1>10, <1>11, <1>12, <1>13, <1>14 DEF ProjectsStart, ProjectsWork

LEMMA MemberTypesStep ==
  ASSUME RequestTypes, MemberTypes, PersonShapes', NEW r \in Req, MembersStep(r)
  PROVE  MemberTypes'
<1>1. MembersStart(r) \/ MembersWork(r)
  BY DEF MembersStep
<1>2. \A s \in Req \ {r} : pc'[s] = pc[s]
  BY <1>1, MemberMoves DEF MovesAmong, RequestTypes
<1> USE DEF MemberTypes, PersonShapes
<1> DEFINE Own == /\ pc'[r] \in RegisterLabels \cup InviteLabels => Email(r)' \in Emails
                  /\ pc'[r] \in RegisterLabels => TaxNumber(r)' \in TaxNumbers
<1>3. SUFFICES /\ MembersTypeOK' /\ Own
               /\ \A s \in Req \ {r} : person'[s] = person[s]
  BY <1>2, <1>3 DEF Email, TaxNumber
<1>4. CASE StartRegister(r)
  <2>1. PICK e \in Emails, n \in TaxNumbers :
          person' = [person EXCEPT ![r].email = e, ![r].taxNumber = n]
    BY Zenon, <1>4 DEF StartRegister
  <2>2. /\ Email(r)' = e /\ TaxNumber(r)' = n
        /\ \A s \in Req \ {r} : person'[s] = person[s]
    BY <2>1 DEF Email, TaxNumber
  <2>3. MembersTypeOK'
    BY Zenon, <1>4 DEF StartRegister, MembersTypeOK
  <2> QED
    BY <2>2, <2>3
<1>5. CASE StartInvite(r)
  <2>1. pc'[r] \notin RegisterLabels
    BY Zenon, <1>5 DEF StartInvite, Begin, RequestTypes, RegisterLabels
  <2>2. PICK e \in Emails : person' = [person EXCEPT ![r].email = e]
    BY Zenon, <1>5 DEF StartInvite
  <2>3. Email(r)' = e /\ \A s \in Req \ {r} : person'[s] = person[s]
    BY <2>2 DEF Email
  <2>4. MembersTypeOK'
    BY Zenon, <1>5 DEF StartInvite, MembersTypeOK
  <2> QED
    BY <2>1, <2>3, <2>4
<1>6. CASE \/ FindUser(r) \/ FindCompany(r) \/ FindMembership(r) \/ SendMail(r)
  BY Zenon, <1>6 DEF FindUser, FindCompany, FindMembership, SendMail, memberVars, MembersTypeOK,
     RegisterLabels, InviteLabels, Goto, Answer, RequestTypes, Email, TaxNumber
<1>7. CASE FindInvited(r)
  BY Zenon, <1>7 DEF FindInvited, InviteLabels, Goto, RequestTypes, RegisterLabels, Email,
     MembersTypeOK
<1>8. ASSUME NEW f, NEW K, DOMAIN f \subseteq K, \A k \in DOMAIN f : f[k] \in Req, NEW k \in K
      PROVE  DOMAIN With(f, k, r) \subseteq K /\ \A x \in DOMAIN With(f, k, r) : With(f, k, r)[x] \in Req
  BY <1>8 DEF With
<1>9. CASE Register(r)
  <2>1. Email(r) \in Emails /\ TaxNumber(r) \in TaxNumbers
    BY Zenon, <1>9 DEF Register, RegisterLabels
  <2>2. person' = person /\ Own
    BY <1>9, <2>1 DEF Register, Email, TaxNumber
  <2>3. users' \in {users, With(users, Email(r), r)}
    BY <1>9 DEF Register
  <2>4. companies' \in {companies, With(companies, TaxNumber(r), r)} /\ joined' = joined
    BY <1>9 DEF Register
  <2>5. MembersTypeOK'
    BY Zenon, <1>8, <2>1, <2>3, <2>4 DEF MembersTypeOK
  <2> QED
    BY <2>2, <2>5
<1>10. CASE Join(r)
  <2>1. Email(r) \in Emails
    BY Zenon, <1>10 DEF Join, InviteLabels
  <2>2. person' = person /\ pc'[r] \notin RegisterLabels
    BY Zenon, <1>10 DEF Join, Answer, Goto, RequestTypes, RegisterLabels
  <2>3. users' \in {users, With(users, Email(r), r)}
    BY <1>10 DEF Join
  <2>4. joined' \in {joined, With(joined, Email(r), r)} /\ companies' = companies
    BY <1>10 DEF Join
  <2>5. MembersTypeOK'
    BY Zenon, <1>8, <2>1, <2>3, <2>4 DEF MembersTypeOK
  <2> QED
    BY <2>1, <2>2, <2>5 DEF Email
<1> QED
  BY <1>1, <1>4, <1>5, <1>6, <1>7, <1>9, <1>10 DEF MembersStart, MembersWork


\* What a transaction has inserted are pairs.
LEMMA ComingPairs ==
  ASSUME AccessInv, NEW r \in Req
  PROVE  coming[r] \subseteq Pairs
<1>1. RequestOK(r)
  BY DEF AccessInv
<1>2. CASE pc[r] = "commit"
  <2>1. coming[r] = Asked(r) /\ op[r] \in {Updating, Assigning}
    BY <1>1, <1>2 DEF RequestOK, TxnOK, Replacing
  <2>2. CASE op[r] = Updating
    BY Zenon, <1>1, <1>2, <2>2, <2>1 DEF RequestOK, AskOK, Known, Asked, Pairs
  <2>3. CASE op[r] = Assigning
    BY Zenon, <1>1, <1>2, <2>3, <2>1 DEF RequestOK, AskOK, Known, Asked, Pairs
  <2> QED
    BY <2>1, <2>2, <2>3
<1>3. CASE pc[r] # "commit"
  BY Zenon, <1>1, <1>3 DEF RequestOK, TxnOK
<1> QED
  BY <1>2, <1>3


LEMMA EffectivePermissions ==
  ASSUME NEW P \in SUBSET Pairs
  PROVE  Effective(P) \subseteq Permissions
<1> SUFFICES ASSUME NEW i \in Effective(P) PROVE i \in Permissions
  OBVIOUS
<1>1. PICK x \in P, y \in P : y[1] = Member /\ y[2] = x[1] /\ x[2] = i
  BY EffectiveAre
<1>2. Member \notin RoleNames
  BY AccessAssumption DEF RoleNames
<1>3. y[2] \in RoleNames
  BY <1>1, <1>2 DEF Pairs
<1> QED
  BY <1>1, <1>2, <1>3 DEF Pairs

LEMMA AccessTypesStep ==
  ASSUME RequestTypes, Overlaps, AccessInv, AccessTypes, NEW r \in Req, Advances(r),
         AccessStep(r)
  PROVE  AccessTypes'
<1>1. AccessStart(r) \/ AccessWork(r)
  BY DEF AccessStep
<1>2. Frame(r)
  BY <1>1, AccessFrame DEF AccessInv
<1>3. pairs \subseteq Pairs /\ roles \subseteq RoleNames /\ r \in Holders
  BY Zenon DEF AccessInv, RolesInv, Known, Holders, RoleNames
<1>4. SUFFICES active' \in BOOLEAN /\ had' \subseteq Permissions /\ AskTypes(r)'
  BY Zenon, <1>2 DEF AccessTypes, AskTypes, Frame
<1>5. active \in BOOLEAN /\ had \subseteq Permissions /\ AskTypes(r)
  BY DEF AccessTypes
<1> USE DEF AskTypes, accessTables, replaceVars, accessVars
<1>6. ASSUME NEW h \in Holders, NEW items, Asking(r, h, items)
      PROVE  active' \in BOOLEAN /\ had' \subseteq Permissions /\ AskTypes(r)'
  BY <1>5, <1>6 DEF Asking, AccessInv, AccessShapes
<1>7. CASE AccessStart(r)
  <2>1. CASE StartCreateRole(r) \/ StartUpdateRole(r) \/ StartRemoveRole(r) \/ StartAssign(r)
    BY Zenon, <1>3, <1>6, <2>1 DEF Holders, StartCreateRole, StartUpdateRole,
       StartRemoveRole, StartAssign
  <2>2. CASE StartSetStatus(r) \/ StartSignIn(r)
    BY Zenon, <1>5, <2>2 DEF StartSetStatus, StartSignIn
  <2> QED
    BY <1>7, <2>1, <2>2 DEF AccessStart
<1>8. CASE \/ InsertRole(r) \/ FindRole(r) \/ CheckRoles(r) \/ PairsDeleted(r)
           \/ DeleteRole(r) \/ FindMember(r)
  BY Zenon, <1>5, <1>8 DEF InsertRole, FindRole, CheckRoles, PairsDeleted, DeleteRole, FindMember
<1>9. CASE FindPairs(r) \/ DeletePair(r)
  BY Zenon, <1>3, <1>5, <1>9 DEF FindPairs, DeletePair, AccessInv, AccessShapes
<1>10. CASE InsertPairs(r)
  BY Zenon, <1>5, <1>10 DEF InsertPairs, AccessRelease, AccessInv, AccessShapes
<1>11. CASE CommitPairs(r)
  BY <1>3, <1>11, ComingPairs, EffectivePermissions, <1>5 DEF PairsAfter, CommitPairs,
     AccessRelease, AccessInv, AccessShapes
<1>12. CASE SetStatus(r)
  BY Zenon, <1>5, <1>12 DEF SetStatus, Does
<1>13. CASE ReadRoles(r)
  BY Zenon, <1>3, ItemKinds, <1>5, <1>13 DEF AccessInv, ReadRoles, AccessShapes
<1>14. CASE ReadPermissions(r)
  BY Zenon, <1>5, ItemKinds, <1>14 DEF AccessInv, ReadPermissions, AccessShapes
<1> QED
  BY <1>1, <1>7, <1>8, <1>9, <1>10, <1>11, <1>12, <1>13, <1>14 DEF AccessWork


LEMMA ReadingStep ==
  ASSUME RequestTypes, RowsInv, ReportInv, reading \in [Req -> 0 .. 5], NEW r \in Req,
         TreasuryStep(r)
  PROVE  reading' \in [Req -> 0 .. 5]
<1>1. TreasuryStart(r) \/ TreasuryWork(r)
  BY DEF TreasuryStep
<1>2. CASE SumNext(r)
  <2>1. On(r) \in DOMAIN Reports /\ reading[r] \in DOMAIN Reports[On(r)]
    BY Zenon, <1>2 DEF SumNext, RowsInv, FormInv, InPlace, ReportInv, ReportFits, ReportAt
  <2>2. reading[r] + 1 \in 0 .. 5
    BY <2>1, ReportFacts
  <2>3. reading' = [reading EXCEPT ![r] = reading[r] + 1]
    BY <1>2 DEF SumNext
  <2> QED
    BY <2>2, <2>3
<1>3. CASE FindAccount(r)
  <2>1. reading' = reading \/ reading' = [reading EXCEPT ![r] = 1]
    BY Zenon, <1>3 DEF FindAccount
  <2> QED
    BY <2>1
<1>4. CASE TreasuryStart(r) \/ FindInvoice(r) \/ CancelInvoice(r)
  <2>1. reading' = reading
    BY Zenon, <1>4 DEF TreasuryStart, StartReport, StartCancel, FindInvoice, CancelInvoice,
       treasuryVars
  <2> QED
    BY <2>1
<1> QED
  BY <1>1, <1>2, <1>3, <1>4 DEF TreasuryWork


LEMMA SumOfNats ==
  ASSUME NEW S, IsFiniteSet(S), NEW g, \A x \in S : g[x] \in Nat
  PROVE  SumOf(g, S) \in Nat
<1> DEFINE none == [x \in S |-> 0]
<1>1. SumOf(none, S) = 0
  BY SumZero
<1>2. \A x \in S : none[x] \in Int /\ g[x] \in Int /\ none[x] <= g[x]
  OBVIOUS
<1> HIDE DEF none
<1>3. SumOf(none, S) <= SumOf(g, S)
  BY <1>2, SumAtMost
<1>4. SumOf(g, S) \in Int
  BY <1>2, SumFacts
<1> QED
  BY <1>1, <1>3, <1>4

LEMMA DebitsAreNats ==
  ASSUME NEW L \in SUBSET Line, IsFiniteSet(L)
  PROVE  Debits(L) \in Nat
<1> DEFINE g == [l \in L |-> l.debit]
<1>1. \A l \in L : l.debit \in Nat
  BY DEF Line
<1>2. Debits(L) = SumOf(g, L)
  BY <1>1, DebitsSum
<1>3. \A l \in L : g[l] \in Nat
  BY <1>1
<1> HIDE DEF g
<1> QED
  BY <1>2, <1>3, SumOfNats

LEMMA PostedIsNat ==
  ASSUME JournalTypes
  PROVE  MapThenSumSet(LAMBDA e : Debits(entries[e].lines), Posted) \in Nat
<1> DEFINE g == [e \in Posted |-> Debits(entries[e].lines)]
           P(it) == it = [s \in SUBSET Posted |->
                            IF s = {} THEN 0
                            ELSE Debits(entries[CHOOSE x \in s : TRUE].lines)
                                   + it[s \ {CHOOSE x \in s : TRUE}]]
<1>1. \A it : P(it) <=> Iterates(it, g, Posted)
  BY Zenon DEF Iterates
<1>2. MapThenSumSet(LAMBDA e : Debits(entries[e].lines), Posted)
        = (CHOOSE it : P(it))[Posted]
  BY DEF MapThenSumSet, MapThenFoldSet
<1>3. \A e \in Posted : g[e] \in Nat
  BY DebitsAreNats DEF JournalTypes, JournalTypeOK, Entry, Posted
<1>4. IsFiniteSet(Posted)
  BY FS_Subset DEF JournalTypes, Posted
<1> HIDE DEF P, g
<1>5. P(CHOOSE it : P(it))
  BY <1>1, <1>3, <1>4, FoldIs
<1>6. (CHOOSE it : P(it))[Posted] = SumOf(g, Posted)
  BY <1>1, <1>3, <1>4, <1>5, FoldIs
<1> QED
  BY <1>2, <1>3, <1>4, <1>6, SumOfNats

LEMMA JournalTypesStep ==
  ASSUME RowsFit, JournalInv, JournalTypes, NEW r \in Req, JournalStep(r)
  PROVE  JournalTypes'
<1> DEFINE Draft == [lines : SUBSET Line, number : Nat, entry : EntryNames]
           Trial == [accounts : SUBSET Ids, debit : Nat, credit : Nat, named : SUBSET Ids]
           EntriesOK == /\ DOMAIN entries \subseteq EntryNames /\ IsFiniteSet(DOMAIN entries)
                        /\ \A e \in DOMAIN entries :
                             entries[e] \in Entry /\ IsFiniteSet(entries[e].lines)
<1>1. JournalStart(r) \/ JournalWork(r)
  BY DEF JournalStep
<1>2. /\ EntriesOK /\ draft \in [Req -> Draft] /\ trial \in [Req -> Trial] /\ cited \subseteq Ids
      /\ \A s \in Req : IsFiniteSet(draft[s].lines)
  BY DEF JournalTypes, JournalTypeOK
<1>3. ASSUME entries' = entries, cited' = cited, trial' = trial,
             NEW new \in Draft, IsFiniteSet(new.lines), draft' = [draft EXCEPT ![r] = new]
      PROVE  JournalTypes'
  BY <1>2, <1>3 DEF JournalTypes, JournalTypeOK
<1>4. ASSUME entries' = entries, cited' = cited, draft' = draft,
             NEW new \in Trial, trial' = [trial EXCEPT ![r] = new]
      PROVE  JournalTypes'
  BY <1>2, <1>4 DEF JournalTypes, JournalTypeOK
<1>5. ASSUME draft' = draft, trial' = trial, cited' \subseteq Ids, EntriesOK'
      PROVE  JournalTypes'
  BY <1>2, <1>5 DEF JournalTypes, JournalTypeOK
<1>6. ASSUME UNCHANGED <<masterVars, journalVars>> PROVE JournalTypes'
  BY <1>2, <1>5, <1>6 DEF masterVars, journalVars
<1>7. draft[r] \in Draft /\ trial[r] \in Trial /\ IsFiniteSet(draft[r].lines)
  BY <1>2
<1>8. CASE StartEntry(r)
  <2>1. CASE UNCHANGED <<masterVars, journalVars>>
    BY <1>6, <2>1
  <2>2. CASE \E lines \in LineChoices : /\ draft' = [draft EXCEPT ![r].lines = lines]
                                        /\ UNCHANGED <<masterVars, entries, trial>>
    <3>1. PICK lines \in LineChoices : draft' = [draft EXCEPT ![r].lines = lines]
      BY Zenon, <2>2
    <3> DEFINE Some == [account : {id \in DOMAIN rows : id[1] = "account"},
                        debit : Amounts \cup {0}, credit : Amounts \cup {0}]
    <3>5a. Some \subseteq Line
      <4>1. Amounts \cup {0} \subseteq Nat /\ {id \in DOMAIN rows : id[1] = "account"} \subseteq Ids
        BY MasterDataAssumption DEF RowsFit
      <4> QED
        BY <4>1 DEF Line
    <3>2. PICK l \in Line, m \in Line : lines = {l, m}
      <4>1. PICK l \in Some, m \in Some : lines = {l, m}
        BY DEF LineChoices
      <4> HIDE DEF Some
      <4> QED
        BY <4>1, <3>5a
    <3> HIDE DEF Some
    <3>3. IsFiniteSet(lines)
      <4>1. IsFiniteSet({l} \cup {m})
        BY Zenon, FS_Singleton, FS_AddElement
      <4> QED
        BY <3>2, <4>1, {l, m} = {l} \cup {m}
    <3>4. /\ [draft[r] EXCEPT !.lines = lines] \in Draft
          /\ [draft[r] EXCEPT !.lines = lines].lines = lines
      BY <1>7, <3>2
    <3>5. draft' = [draft EXCEPT ![r] = [draft[r] EXCEPT !.lines = lines]]
      BY <3>1
    <3> QED
      BY Zenon, <1>3, <2>2, <3>3, <3>4, <3>5 DEF masterVars
  <2> QED
    BY Zenon, <1>8, <2>1, <2>2 DEF StartEntry
<1>9. CASE StartPost(r)
  <2>1. PICK e \in DOMAIN entries : draft' = [draft EXCEPT ![r].entry = e]
    BY Zenon, <1>9 DEF StartPost
  <2>2. /\ [draft[r] EXCEPT !.entry = e] \in Draft
        /\ [draft[r] EXCEPT !.entry = e].lines = draft[r].lines
    BY <1>2, <1>7
  <2>3. draft' = [draft EXCEPT ![r] = [draft[r] EXCEPT !.entry = e]]
    BY <2>1
  <2> QED
    BY Zenon, <1>3, <1>7, <1>9, <2>2, <2>3 DEF StartPost, masterVars
<1>10. CASE CountEntries(r)
  <2> DEFINE n == Cardinality(DOMAIN entries) + 1
  <2>1. n \in Nat
    BY <1>2, FS_CardinalityType
  <2> HIDE DEF n
  <2>2. /\ [draft[r] EXCEPT !.number = n] \in Draft
        /\ [draft[r] EXCEPT !.number = n].lines = draft[r].lines
    BY <1>7, <2>1
  <2>3. draft' = [draft EXCEPT ![r] = [draft[r] EXCEPT !.number = n]]
    BY Zenon, <1>10 DEF CountEntries, n
  <2> QED
    BY Zenon, <1>3, <1>7, <1>10, <2>2, <2>3 DEF CountEntries, masterVars
<1>11. CASE InsertEntry(r)
  <2> DEFINE new == [number |-> draft[r].number, lines |-> Lines(r), status |-> "DRAFT"]
  <2>1. new \in Entry /\ IsFiniteSet(new.lines)
    BY <1>7 DEF Entry, Lines
  <2>2. AccountsOf(Lines(r)) \subseteq Ids
    BY <1>7 DEF AccountsOf, Lines, Line
  <2>3. draft' = draft /\ trial' = trial
    BY Zenon, <1>11 DEF InsertEntry
  <2>4. CASE entries' = entries /\ cited' = cited
    BY <1>2, <1>5, <2>3, <2>4
  <2>5. CASE /\ entries' = [e \in DOMAIN entries \cup {r} |-> IF e = r THEN new ELSE entries[e]]
             /\ cited' = cited \cup AccountsOf(Lines(r))
    <3> HIDE DEF new
    <3>1. IsFiniteSet(DOMAIN entries \cup {r})
      BY Zenon, <1>2, FS_AddElement
    <3>2. EntriesOK'
      BY <1>2, <2>1, <2>5, <3>1 DEF EntryNames
    <3> QED
      BY Zenon, <1>2, <1>5, <2>2, <2>3, <2>5, <3>2
  <2> QED
    BY Zenon, <1>11, <2>4, <2>5 DEF InsertEntry
<1>12. CASE PostEntry(r)
  <2>1. ASSUME NEW e \in DOMAIN entries
        PROVE  /\ [entries[e] EXCEPT !.status = "POSTED"] \in Entry
               /\ [entries[e] EXCEPT !.status = "POSTED"].lines = entries[e].lines
    BY <1>2 DEF Entry
  <2>2. /\ DOMAIN entries' = DOMAIN entries
        /\ \A e \in DOMAIN entries :
             entries'[e] \in {entries[e], [entries[e] EXCEPT !.status = "POSTED"]}
    BY <1>12 DEF PostEntry
  <2>3. EntriesOK'
    <3>1. ASSUME NEW e \in DOMAIN entries'
          PROVE  entries'[e] \in Entry /\ IsFiniteSet(entries'[e].lines)
      <4>1. e \in DOMAIN entries
        BY <2>2, <3>1
      <4>2. entries[e] \in Entry /\ IsFiniteSet(entries[e].lines)
        BY <1>2, <4>1
      <4>3. CASE entries'[e] = entries[e]
        BY <4>2, <4>3
      <4> DEFINE posted == [entries[e] EXCEPT !.status = "POSTED"]
      <4>4. posted \in Entry /\ posted.lines = entries[e].lines
        BY <2>1, <4>1
      <4> HIDE DEF posted
      <4>5. CASE entries'[e] = posted
        BY <4>2, <4>4, <4>5
      <4> QED
        BY <2>2, <4>1, <4>3, <4>5 DEF posted
    <3> QED
      BY <1>2, <2>2, <3>1
  <2> QED
    BY Zenon, <1>2, <1>5, <1>12, <2>3 DEF PostEntry, masterVars
<1>13. CASE GroupLines(r)
  <2> DEFINE debit == MapThenSumSet(LAMBDA e : Debits(entries[e].lines), Posted)
             credit == MapThenSumSet(LAMBDA e : Credits(entries[e].lines), Posted)
             accounts == UNION {AccountsOf(entries[e].lines) : e \in Posted}
             new == [accounts |-> accounts, debit |-> debit, credit |-> credit, named |-> {}]
  <2>1. debit \in Nat /\ credit = debit
    BY PostedIsNat, EvenEntriesAddUp
  <2>2. accounts \subseteq Ids
    BY <1>2 DEF AccountsOf, Posted, Entry, Line
  <2>3. trial' = [trial EXCEPT ![r] = new]
    BY <1>13 DEF GroupLines
  <2> HIDE DEF debit, credit, accounts
  <2>4. new \in Trial
    BY <2>1, <2>2
  <2> QED
    BY Zenon, <1>4, <1>13, <2>3, <2>4 DEF GroupLines, masterVars
<1>14. CASE NameAccounts(r)
  <2> DEFINE new == [trial[r] EXCEPT !.named = trial[r].accounts \cap DOMAIN rows]
  <2>1. new \in Trial
    BY <1>7
  <2>2. trial' = [trial EXCEPT ![r] = new]
    BY <1>14 DEF NameAccounts
  <2> QED
    BY Zenon, <1>4, <1>14, <2>1, <2>2 DEF NameAccounts, masterVars
<1>15. CASE StartTrial(r) \/ FindAccounts(r) \/ FindEntry(r) \/ RereadEntry(r)
  BY Zenon, <1>6, <1>15 DEF StartTrial, FindAccounts, FindEntry, RereadEntry
<1> QED
  BY <1>1, <1>8, <1>9, <1>10, <1>11, <1>12, <1>13, <1>14, <1>15 DEF JournalStart, JournalWork


LEMMA RowIs ==
  ASSUME RowsFit', NEW x \in DOMAIN rows', NEW c, NEW l, NEW v,
         rows'[x] = [code |-> c, links |-> l, value |-> v]
  PROVE  rows'[x] \in RowType
<1> DEFINE row == [code |-> c, links |-> l, value |-> v]
<1>1. /\ rows'[x].code \in Nat /\ LinksFit(x[1], rows'[x].links)
      /\ ValueFits(x[1], rows'[x].value)
  BY DEF RowsFit, LinksFit, ValueFits
<1>2. row.code = c /\ row.links = l /\ row.value = v
  OBVIOUS
<1>3. c \in Nat /\ l \in SUBSET Ids /\ v \in Int
  BY <1>1, <1>2 DEF LinksFit, ValueFits
<1>4. row \in RowType
  BY <1>3 DEF RowType
<1> QED
  BY <1>4

LEMMA RowTypesStep ==
  ASSUME RequestTypes, RowsFit', MasterTypes, NEW r \in Req,
         ComponentStep(r) \/ Forbid(r) \/ Abort(r)
  PROVE  \A x \in DOMAIN rows' : rows'[x] \in RowType
<1> SUFFICES ASSUME NEW x \in DOMAIN rows' PROVE rows'[x] \in RowType
  OBVIOUS
<1>0. \A id \in DOMAIN rows : rows[id] \in RowType
  BY DEF MasterTypes
<1>1. CASE rows' = rows
  BY <1>0, <1>1
<1>2. CASE InsertRow(r) /\ rows' # rows
  BY <1>2, <1>0, RowIs DEF InsertRow
<1>3. CASE UpdateRow(r) /\ rows' # rows
  BY <1>3, RowIs, <1>0 DEF UpdateRow, Written
<1>4. CASE DeleteRow(r) /\ rows' # rows
  <2>1. x \in DOMAIN rows /\ rows'[x] = [rows[x] EXCEPT !.links = @ \ {Row(r)}]
    BY Zenon, <1>4 DEF DeleteRow, Delete
  <2>2. rows[x] \in RowType
    BY <1>0, <2>1
  <2>3. [rows[x] EXCEPT !.links = @ \ {Row(r)}] \in RowType
    BY <2>2 DEF RowType
  <2> QED
    BY <2>1, <2>3
<1>5. CASE MasterStep(r)
  BY <1>1, <1>2, <1>3, <1>4, <1>5, RowsAreWritten
<1>6. CASE ~MasterStep(r)
  BY <1>1, <1>6, RowsAreMasters DEF ComponentStep
<1> QED
  BY <1>5, <1>6

LEMMA FormTypesStep ==
  ASSUME RowsInv', Saying', MasterTypes, NEW r \in Req, FormStep(r)
  PROVE  form' \in [Req -> Form \cup {NoForm}]
<1>0. form \in [Req -> Form \cup {NoForm}]
  BY DEF MasterTypes
<1>1. /\ \/ form'[r] = NoForm
         \/ /\ form'[r].id \in Ids /\ form'[r].code \in Nat /\ form'[r].number \in Nat
            /\ LinksFit(form'[r].id[1], form'[r].links) /\ form'[r].value \in Int
      /\ form'[r].main \in {"unsaid", "yes", "no"}
  BY DEF RowsInv, FormInv, FormFits, LinksFit, Saying
<1>2. ASSUME NEW id, NEW code, NEW links, NEW main, NEW value \in Int,
             form' = [form EXCEPT ![r] = [id |-> id, code |-> code, number |-> code,
                                          links |-> links, value |-> value, main |-> main]]
      PROVE  form' \in [Req -> Form \cup {NoForm}]
  <2> DEFINE new == [id |-> id, code |-> code, number |-> code,
                     links |-> links, value |-> value, main |-> main]
  <2>1. form'[r] = new
    BY <1>0, <1>2
  <2>2. /\ new.id = id /\ new.code = code /\ new.links = links /\ new.main = main
    OBVIOUS
  <2>3. \/ new = NoForm
        \/ /\ id \in Ids /\ code \in Nat /\ links \subseteq Ids
           /\ main \in {"unsaid", "yes", "no"}
    BY <1>1, <2>1, <2>2 DEF LinksFit
  <2>4. new \in Form \cup {NoForm}
    BY <2>3 DEF Form
  <2>5. form' = [form EXCEPT ![r] = new]
    BY <1>2
  <2> HIDE DEF new
  <2> QED
    BY <1>0, <2>4, <2>5
<1>3. ASSUME NEW n, form' = [form EXCEPT ![r].number = n]
      PROVE  form' \in [Req -> Form \cup {NoForm}]
  <2> DEFINE new == [form[r] EXCEPT !.number = n]
  <2>1. form' = [form EXCEPT ![r] = new]
    BY <1>3
  <2>2. form'[r] = new
    BY <1>0, <2>1
  <2>3. form[r] \in Form \/ form[r] = NoForm
    BY <1>0
  <2>4. new.number = n /\ new.id = form[r].id /\ new.main = form[r].main
        /\ new.code = form[r].code /\ new.links = form[r].links /\ new.value = form[r].value
    BY <2>3 DEF Form, NoForm
  <2>5. n \in Nat
    BY <1>1, <2>2, <2>4 DEF NoForm
  <2>6. new \in Form \cup {NoForm}
    <3>1. CASE form[r] \in Form
      BY <2>5, <3>1 DEF Form
    <3>2. CASE form[r] = NoForm
      BY <1>1, <2>2, <2>4, <3>2 DEF NoForm, Ids, Resources, Services
    <3> QED
      BY <2>3, <3>1, <3>2
  <2> HIDE DEF new
  <2> QED
    BY <1>0, <2>1, <2>6
<1> QED
  BY <1>0, <1>2, <1>3 DEF FormStep

\* Only r's transaction takes branches in hand, or lets go of them.
LEMMA HeldStep ==
  ASSUME NEW r \in Req, ComponentStep(r) \/ Forbid(r) \/ Abort(r)
  PROVE  /\ left' = left \/ \E L : left' = [left EXCEPT ![r] = L]
         /\ held' = held \/ \E H : held' = [held EXCEPT ![r] = H]
<1>1. CASE MasterStep(r)
  BY Zenon, <1>1 DEF MasterStep, MasterStart, MasterWork, StartCreate, StartUpdate, StartOne,
     StartList, Asks, FindKept, CountRows, InsertRow, FindRow, UpdateRow, ReadPage, CountPage,
     CountMovements, DeleteRow, FindMains, ClearMain, MainsCleared, Release, masterVars
<1>2. CASE TreasuryStep(r)
  BY Zenon, <1>2 DEF TreasuryStep, TreasuryStart, TreasuryWork, StartReport, StartCancel, Asks,
     FindAccount, SumNext, FindInvoice, CancelInvoice, masterVars
<1>3. CASE ~MasterStep(r) /\ ~TreasuryStep(r)
  BY <1>3, OthersKeepForm DEF ComponentStep
<1> QED
  BY <1>1, <1>2, <1>3

LEMMA MasterTypesStep ==
  ASSUME RequestTypes, MainInv, RowsInv, RowsInv', MasterTypes, NEW r \in Req,
         ComponentStep(r) \/ Forbid(r) \/ Abort(r)
  PROVE  MasterTypes'
<1>0. Saying'
  BY StepSays DEF SaidBy
<1>1. \A x \in DOMAIN rows' : rows'[x] \in RowType
  <2>1. RowsFit'
    BY DEF RowsInv
  <2> QED
    BY <2>1, RowTypesStep
<1>2. form' \in [Req -> Form \cup {NoForm}]
  <2>1. FormStep(r)
    BY StepsFormStep DEF ComponentStep
  <2> QED
    BY <1>0, <2>1, FormTypesStep
<1>3. left' \in [Req -> SUBSET Ids] /\ held' \in [Req -> SUBSET Ids]
  BY HeldStep DEF RowsInv, FormInv, MasterTypes
<1> QED
  BY <1>1, <1>2, <1>3 DEF MasterTypes

LEMMA JournalTypesAway ==
  ASSUME JournalTypes, NEW r \in Req, ComponentStep(r) \/ Forbid(r) \/ Abort(r),
         ~JournalStep(r)
  PROVE  JournalTypes'
BY EntriesAreJournals DEF ComponentStep, MasterStep, TreasuryStep, PersonnelStep,
   EDocumentsStep, FilesStep, ProjectsStep, AccessStep, MembersStep, Forbid, Abort,
   journalVars, JournalTypes, JournalTypeOK

LEMMA ReadingAway ==
  ASSUME NEW r \in Req, ComponentStep(r) \/ Forbid(r) \/ Abort(r), ~TreasuryStep(r)
  PROVE  reading' = reading
BY DEF ComponentStep, MasterStep, JournalStep, PersonnelStep, EDocumentsStep, FilesStep,
   ProjectsStep, AccessStep, MembersStep, Forbid, Abort, treasuryVars

LEMMA MetKept ==
  ASSUME RequestTypes, met \subseteq SUBSET Req, NEW r \in Req,
         ComponentStep(r) \/ Forbid(r) \/ Abort(r)
  PROVE  met' \subseteq SUBSET Req
BY ComponentMeets DEF Meets, Forbid, TurnAway, Abort, Goto

LEMMA TypesInvKept ==
  ASSUME RequestTypes, MainInv, RowsInv, RowsInv', ReportInv, AccessInv, JournalInv,
         PersonShapes', TypesInv, NEW r \in Req, ComponentStep(r) \/ Forbid(r) \/ Abort(r)
  PROVE  TypesInv'
<1>0. /\ met \subseteq SUBSET Req /\ reading \in [Req -> 0 .. 5]
      /\ MasterTypes /\ JournalTypes /\ PersonnelTypes /\ EDocumentTypes /\ FilesTypeOK
      /\ TaskTypes /\ AccessTypes /\ MemberTypes /\ RowsFit /\ Overlaps /\ AccessShapes
  BY DEF TypesInv, RowsInv, MainInv, AccessInv
<1>1. met' \subseteq SUBSET Req
  BY <1>0, MetKept
<1>2. reading' \in [Req -> 0 .. 5]
  BY <1>0, ReadingStep, ReadingAway
<1>3. MasterTypes'
  BY <1>0, MasterTypesStep
<1>4. JournalTypes'
  BY <1>0, JournalTypesStep, JournalTypesAway
<1>5. PersonnelTypes'
  BY <1>0, PersonnelTypesStep, PersonnelTypesAway
<1>6. EDocumentTypes'
  BY <1>0, EDocumentTypesStep, EDocumentTypesAway
<1>7. FilesTypeOK'
  BY <1>0, FileTypesStep, FileTypesAway
<1>8. TaskTypes'
  BY <1>0, TaskTypesStep, TaskTypesAway
<1>9. AccessTypes'
  BY <1>0, StepsAdvance, AccessTypesStep, AccessTypesAway
<1>10. MemberTypes'
  BY <1>0, MemberTypesStep, MemberTypesAway
<1> QED
  BY <1>1, <1>2, <1>3, <1>4, <1>5, <1>6, <1>7, <1>8, <1>9, <1>10 DEF TypesInv

LEMMA TypesInvStep ==
  RequestTypes /\ RecordsInv' /\ MainInv /\ RowsInv /\ RowsInv' /\ ReportInv /\ AccessInv
    /\ JournalInv /\ TypesInv /\ [Next]_vars => TypesInv'
<1> SUFFICES ASSUME RequestTypes, RecordsInv', MainInv, RowsInv, RowsInv', ReportInv,
                    AccessInv, JournalInv, TypesInv, [Next]_vars
             PROVE  TypesInv'
  OBVIOUS
<1>1. PersonShapes'
  BY DEF RecordsInv, MemberInv
<1>2. ASSUME NEW r \in Req, ComponentStep(r) \/ Forbid(r) \/ Abort(r) PROVE TypesInv'
  BY <1>1, <1>2, TypesInvKept
<1>3. CASE UNCHANGED vars \/ Worker
  <2>1. /\ UNCHANGED <<requestVars, masterVars, treasuryVars, journalVars, personnelVars,
                       fileVars, taskVars, accessVars, memberVars>>
        /\ Transmit \/ UNCHANGED edocVars
    BY <1>3 DEF vars, Worker, Transmit
  <2>2. /\ met' = met /\ reading' = reading
        /\ MasterTypes' /\ JournalTypes'
    BY <2>1 DEF requestVars, masterVars, treasuryVars, journalVars, TypesInv, MasterTypes,
       JournalTypes, JournalTypeOK
  <2>3. PersonnelTypes' /\ FilesTypeOK' /\ TaskTypes'
    BY <2>1 DEF requestVars, personnelVars, fileVars, taskVars, TypesInv, PersonnelTypes,
       PersonnelTypeOK, FilesTypeOK, TaskTypes, ProjectsTypeOK
  <2>4. AccessTypes' /\ MemberTypes'
    BY <2>1, <1>1 DEF requestVars, accessVars, accessTables, memberVars, TypesInv, AccessTypes,
       AskTypes, MemberTypes, MembersTypeOK, Email, TaxNumber
  <2>5. EDocumentTypes'
    BY EDocumentTypesTransmit, <2>1 DEF TypesInv, EDocumentTypes, EDocumentsTypeOK,
       edocVars, requestVars
  <2> QED
    BY <2>2, <2>3, <2>4, <2>5 DEF TypesInv
<1> QED
  BY <1>2, <1>3 DEF Next, ComponentStep

LEMMA InitMasterTypes == Init => MasterTypes
<1> SUFFICES ASSUME Init PROVE MasterTypes
  OBVIOUS
<1>1. RowsFit
  BY InitRowsInv DEF RowsInv
<1>2. ASSUME NEW id \in DOMAIN rows PROVE rows[id] \in RowType
  <2> DEFINE c == IF Services[id[1]].code = "none" THEN 0 ELSE id[2]
             l == Services[id[1]].keeps \X {1}
             v == IF id[1] \in Valued \cup {"bank_transaction"} THEN 1 ELSE 0
             row == [code |-> c, links |-> l, value |-> v]
  <2>1. rows[id] = row
    BY <1>2 DEF Init, MasterInit, OldRow
  <2>2. rows[id].code \in Nat /\ rows[id].links \in SUBSET Ids /\ rows[id].value \in Int
    BY <1>1, <1>2 DEF RowsFit, LinksFit, ValueFits
  <2> HIDE DEF c, l, v
  <2>3. row.code = c /\ row.links = l /\ row.value = v
    OBVIOUS
  <2>4. row \in RowType
    BY <2>1, <2>2, <2>3 DEF RowType
  <2> QED
    BY <2>1, <2>4
<1> QED
  BY <1>2 DEF Init, MasterInit, MasterTypes

LEMMA InitJournalTypes == Init => JournalTypes
<1> SUFFICES ASSUME Init PROVE JournalTypes
  OBVIOUS
<1>1. /\ cited = JournalCites
      /\ draft = [r \in Req |-> NoDraft] /\ trial = [r \in Req |-> NoTrial]
  BY DEF Init, JournalInit
<1>2. NoDraft \in [lines : SUBSET Line, number : Nat, entry : EntryNames]
      /\ NoDraft.lines = {}
  BY DEF NoDraft, EntryNames
<1>3. NoTrial \in [accounts : SUBSET Ids, debit : Nat, credit : Nat, named : SUBSET Ids]
  BY DEF NoTrial
<1>4. /\ DOMAIN entries \subseteq {0}
      /\ \A e \in DOMAIN entries : entries[e] \in Entry /\ IsFiniteSet(entries[e].lines)
  <2>1. CASE DOMAIN entries = {}
    BY <2>1
  <2>2. CASE DOMAIN entries # {}
    <3>1. <<"account", 1>> \in OldRows
      BY <2>2 DEF Init, JournalInit
    <3>2. <<"account", 1>> \in Ids
      BY InitRowsInv, <3>1 DEF RowsInv, Init, MasterInit, RowsFit
    <3> DEFINE account == <<"account", 1>>
    <3>3. PICK status \in {"DRAFT", "POSTED"} :
            entries = [e \in {0} |-> [number |-> 1, lines |-> OldLines, status |-> status]]
      BY <3>1 DEF Init, JournalInit
    <3>4. OldLines = {[account |-> account, debit |-> 1, credit |-> 0],
                      [account |-> account, debit |-> 0, credit |-> 1]}
      BY DEF OldLines
    <3> HIDE DEF account
    <3>5. OldLines \in SUBSET Line
      BY <3>2, <3>4 DEF Line, account
    <3>6. IsFiniteSet(OldLines)
      <4> DEFINE a == [account |-> account, debit |-> 1, credit |-> 0]
                 b == [account |-> account, debit |-> 0, credit |-> 1]
      <4>1. OldLines = {a} \cup {b}
        BY <3>4
      <4> HIDE DEF a, b
      <4> QED
        BY Zenon, <4>1, FS_Singleton, FS_AddElement
    <3>7. [number |-> 1, lines |-> OldLines, status |-> status] \in Entry
      BY <3>5 DEF Entry
    <3> QED
      BY <3>3, <3>6, <3>7
  <2> QED
    BY <2>1, <2>2
<1>5. IsFiniteSet(DOMAIN entries)
  BY Zenon, <1>4, FS_Singleton, FS_Subset
<1>6. cited \subseteq Ids
  BY <1>1, <1>4 DEF JournalCites, AccountsOf, Entry, Line
<1>7. \A r \in Req : IsFiniteSet(draft[r].lines)
  BY Zenon, <1>1, <1>2, FS_EmptySet
<1> QED
  BY <1>1, <1>2, <1>3, <1>4, <1>5, <1>6, <1>7 DEF JournalTypes, JournalTypeOK, EntryNames

LEMMA InitRecordTypes ==
  Init => PersonnelTypes /\ EDocumentTypes /\ FilesTypeOK /\ TaskTypes /\ MemberTypes
<1> SUFFICES ASSUME Init
             PROVE  PersonnelTypes /\ EDocumentTypes /\ FilesTypeOK /\ TaskTypes /\ MemberTypes
  OBVIOUS
<1>0. \A r \in Req : pc[r] = "idle"
  BY Zenon DEF Init, RequestsInit
<1>1. PersonnelTypes
  <2>1. NoPay \in Breakdown
    BY DEF NoPay, Breakdown
  <2>2. NoSheet \in Sheet
    BY <2>1 DEF NoSheet, Sheet, Unsaid
  <2>3. "idle" \notin SheetLabels
    BY DEF SheetLabels, PayLabels
  <2> QED
    BY <1>0, <2>2, <2>3 DEF Init, PersonnelInit, PersonnelTypes, PersonnelTypeOK
<1>2. EDocumentTypes
  <2>1. NoPaper \in Paper
    BY DEF NoPaper, Paper, Waybills
  <2> QED
    BY Zenon, <1>0, <2>1 DEF Init, EDocumentsInit, EDocumentTypes, EDocumentsTypeOK, InvoiceLabels
<1>3. FilesTypeOK
  BY DEF Init, FilesInit, FilesTypeOK, NoFile, Attachments
<1>4. TaskTypes
  BY Zenon, <1>0 DEF NoJob, Job, TaskNames, Task, TaskStatus, Init, ProjectsInit, TaskTypes,
     ProjectsTypeOK, CreateTaskLabels
<1>5. MemberTypes
  BY Zenon, <1>0 DEF Init, MembersInit, MemberTypes, MembersTypeOK, PersonShapes, RegisterLabels,
     InviteLabels
<1> QED
  BY <1>1, <1>2, <1>3, <1>4, <1>5

LEMMA InitTypesInv == Init => TypesInv
<1> SUFFICES ASSUME Init PROVE TypesInv
  OBVIOUS
<1>1. met \subseteq SUBSET Req /\ reading \in [Req -> 0 .. 5]
  BY DEF Init, RequestsInit, TreasuryInit
<1>2. AccessTypes
  BY InitAccessInv, EffectivePermissions DEF AccessInv, RolesInv, Init, AccessInit,
     AccessTypes, AskTypes, NoAsk, Holders
<1> QED
  BY <1>1, <1>2, InitMasterTypes, InitJournalTypes, InitRecordTypes DEF TypesInv

LEMMA TypesInvTypes ==
  RequestTypes /\ RowsInv /\ ReportInv /\ AccessInv /\ TypesInv => TypeOK
<1> SUFFICES ASSUME RequestTypes, RowsInv, ReportInv, AccessInv, TypesInv PROVE TypeOK
  OBVIOUS
<1>1. MasterTypeOK
  BY DEF TypesInv, MasterTypes, JournalTypes, RowsInv, RowsFit, MasterTypeOK
<1>2. TreasuryTypeOK
  BY DEF TypesInv, ReportInv, ReportTypes, Voids, RowsInv, RowsFit, TreasuryTypeOK
<1>3. AccessTypeOK
  BY Zenon, ComingPairs DEF AccessInv, RolesInv, Known, TypesInv, AccessTypes, AskTypes,
     AccessTypeOK
<1> QED
  BY <1>1, <1>2, <1>3 DEF TypesInv, JournalTypes, PersonnelTypes, EDocumentTypes, TaskTypes,
     MemberTypes, TypeOK

\* Whatever the requests do, every table, and whatever a request has in hand, is of its
\* type.
THEOREM BackOfficeTypesAlwaysOK == Spec => []TypeOK
<1>1. Spec => [](RequestTypes /\ MainInv /\ RowsInv /\ RecordsInv)
  BY RequestsTyped, MainInvAlways, RowsInvAlways, RecordsInvAlways, PTL
<1>2. Spec => []ReportInv
  BY <1>1, RefInvAlways, InitReportInv, ReportInvStep, PTL DEF Spec
<1>3. Spec => []JournalInv
  BY InitJournalInv, JournalInvStep, PTL DEF Spec
<1>4. Spec => []AccessInv
  <2>1. RequestTypes /\ MainInv /\ AccessInv /\ [Next]_vars => AccessInv'
    BY AccessInvStep DEF MainInv
  <2> QED
    BY <1>1, <2>1, InitAccessInv, PTL DEF Spec
<1>5. Spec => []TypesInv
  BY <1>1, <1>2, <1>3, <1>4, InitTypesInv, TypesInvStep, PTL DEF Spec
<1> QED
  BY <1>1, <1>2, <1>4, <1>5, TypesInvTypes, PTL

=============================================================================
