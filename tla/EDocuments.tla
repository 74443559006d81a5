----------------------------- MODULE EDocuments ------------------------------
(***************************************************************************)
(* e-documents/e-documents.service.ts: e-invoices and e-waybills.  A       *)
(* document is issued once for its invoice or waybill: the service looks   *)
(* for one, and the unique column decides.  Transmission is the work of a  *)
(* queue worker outside this repository, modelled by what it leaves.       *)
(***************************************************************************)
EXTENDS MasterData

VARIABLES
  einvoices,  \* the table e_invoices, by the request that created the row
  ewaybills,  \* the table e_waybills, likewise
  paper       \* per request: the invoice, waybill or e-invoice it is about

edocVars == <<einvoices, ewaybills, paper>>

\* One waybill of each direction.
Waybills == {"OUTBOUND", "INBOUND"}

EStatus == {"QUEUED", "ACCEPTED", "REJECTED", "CANCELLED"}
EInvoice == [invoice : {"sales_invoice"} \X ((1 .. Olds) \cup Req), status : EStatus]

NoPaper == [invoice |-> <<"sales_invoice", 1>>, waybill |-> "OUTBOUND", doc |-> Nobody]

EDocumentsInit ==
  /\ einvoices = [r \in {} |-> 0]
  /\ ewaybills = [r \in {} |-> 0]
  /\ paper = [r \in Req |-> NoPaper]

-----------------------------------------------------------------------------
StartIssueInvoice(r) ==
  \E id \in Peers("sales_invoice") :
    /\ Routed(<<"issue", "e_invoice">>)
    /\ Begin(r, <<"issue", "e_invoice">>, "find sales invoice")
    /\ paper' = [paper EXCEPT ![r].invoice = id]
    /\ UNCHANGED <<masterVars, einvoices, ewaybills>>

StartIssueWaybill(r) ==
  \E w \in Waybills :
    /\ Routed(<<"issue", "e_waybill">>)
    /\ Begin(r, <<"issue", "e_waybill">>, "find waybill")
    /\ paper' = [paper EXCEPT ![r].waybill = w]
    /\ UNCHANGED <<masterVars, einvoices, ewaybills>>

StartCancelEInvoice(r) ==
  \E d \in DOMAIN einvoices :
    /\ Routed(<<"cancel", "e_invoice">>)
    /\ Begin(r, <<"cancel", "e_invoice">>, "find e-invoice")
    /\ paper' = [paper EXCEPT ![r].doc = d]
    /\ UNCHANGED <<masterVars, einvoices, ewaybills>>

EDocumentsStart(r) ==
  /\ Idle(r)
  /\ StartIssueInvoice(r) \/ StartIssueWaybill(r) \/ StartCancelEInvoice(r)

InvoiceIssued(r) == \E d \in DOMAIN einvoices : einvoices[d].invoice = paper[r].invoice
WaybillIssued(r) == \E d \in DOMAIN ewaybills : ewaybills[d] = paper[r].waybill

FindSalesInvoice(r) ==
  /\ pc[r] = "find sales invoice"
  /\ IF paper[r].invoice \in DOMAIN rows THEN Goto(r, "find issued") ELSE Answer(r, FALSE)
  /\ UNCHANGED <<masterVars, edocVars>>

FindIssued(r) ==
  /\ pc[r] = "find issued"
  /\ IF InvoiceIssued(r) THEN Answer(r, FALSE) ELSE Goto(r, "insert e-invoice")
  /\ UNCHANGED <<masterVars, edocVars>>

\* salesInvoiceId is unique.
InsertEInvoice(r) ==
  /\ pc[r] = "insert e-invoice"
  /\ IF InvoiceIssued(r) THEN UNCHANGED einvoices
       ELSE einvoices' = [d \in DOMAIN einvoices \cup {r} |->
                            IF d = r THEN [invoice |-> paper[r].invoice, status |-> "QUEUED"]
                                     ELSE einvoices[d]]
  /\ Answer(r, ~InvoiceIssued(r))
  /\ UNCHANGED <<masterVars, ewaybills, paper>>

\* Only outbound waybills.
FindWaybill(r) ==
  /\ pc[r] = "find waybill"
  /\ IF paper[r].waybill = "OUTBOUND" THEN Goto(r, "find issued waybill")
                                     ELSE Answer(r, FALSE)
  /\ UNCHANGED <<masterVars, edocVars>>

FindIssuedWaybill(r) ==
  /\ pc[r] = "find issued waybill"
  /\ IF WaybillIssued(r) THEN Answer(r, FALSE) ELSE Goto(r, "insert e-waybill")
  /\ UNCHANGED <<masterVars, edocVars>>

InsertEWaybill(r) ==
  /\ pc[r] = "insert e-waybill"
  /\ IF WaybillIssued(r) THEN UNCHANGED ewaybills
       ELSE ewaybills' = [d \in DOMAIN ewaybills \cup {r} |->
                            IF d = r THEN paper[r].waybill ELSE ewaybills[d]]
  /\ Answer(r, ~WaybillIssued(r))
  /\ UNCHANGED <<masterVars, einvoices, paper>>

\* An accepted e-invoice is not cancelled, says the status that was read.
FindEInvoice(r) ==
  /\ pc[r] = "find e-invoice"
  /\ IF einvoices[paper[r].doc].status = "ACCEPTED" THEN Answer(r, FALSE)
                                                    ELSE Goto(r, "cancel e-invoice")
  /\ UNCHANGED <<masterVars, edocVars>>

CancelEInvoice(r) ==
  /\ pc[r] = "cancel e-invoice"
  /\ einvoices' = [einvoices EXCEPT ![paper[r].doc].status = "CANCELLED"]
  /\ Goto(r, "reread e-invoice")
  /\ UNCHANGED <<masterVars, ewaybills, paper>>

RereadEInvoice(r) ==
  pc[r] = "reread e-invoice" /\ Answer(r, TRUE) /\ UNCHANGED <<masterVars, edocVars>>

EDocumentsWork(r) ==
  \/ FindSalesInvoice(r) \/ FindIssued(r) \/ InsertEInvoice(r)
  \/ FindWaybill(r) \/ FindIssuedWaybill(r) \/ InsertEWaybill(r)
  \/ FindEInvoice(r) \/ CancelEInvoice(r) \/ RereadEInvoice(r)

\* The worker: the integrator accepts or rejects a queued e-invoice.
Transmit ==
  /\ \E d \in DOMAIN einvoices, answer \in {"ACCEPTED", "REJECTED"} :
       /\ einvoices[d].status = "QUEUED"
       /\ einvoices' = [einvoices EXCEPT ![d].status = answer]
  /\ UNCHANGED <<requestVars, masterVars, ewaybills, paper>>

-----------------------------------------------------------------------------
EDocumentsTypeOK ==
  /\ DOMAIN einvoices \subseteq Req /\ DOMAIN ewaybills \subseteq Req
  /\ \A d \in DOMAIN einvoices : einvoices[d] \in EInvoice
  /\ \A d \in DOMAIN ewaybills : ewaybills[d] \in Waybills

\* An e-document whose issue was answered is in the table, the only one of its invoice
\* or waybill.
EDocumentIsKept ==
  \A r \in Req :
    /\ At(r, "issue", "e_invoice", "ok") =>
         {d \in DOMAIN einvoices : einvoices[d].invoice = paper[r].invoice} = {r}
    /\ At(r, "issue", "e_waybill", "ok") =>
         {d \in DOMAIN ewaybills : ewaybills[d] = paper[r].waybill} = {r}
=============================================================================
