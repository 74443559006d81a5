-------------------------------- MODULE Files --------------------------------
(***************************************************************************)
(* files/files.service.ts and storage/storage.service.ts: an attachment is *)
(* a row, its content an object in the object store, and no transaction    *)
(* spans the two.  upload puts the object and then inserts the row; remove *)
(* removes the object, whether or not that works, and then the row.        *)
(***************************************************************************)
EXTENDS Requests

VARIABLES
  attachments,  \* the table attachments: the rows there are
  objects,      \* the object store: the keys there are
  file          \* per request: the attachment it is about, and how removal went

fileVars == <<attachments, objects, file>>

\* A row and its object are named by the request that uploads them, 0 for the one
\* there was.
Attachments == {0} \cup Req

ASSUME FilesAssumption == 0 \notin Req

NoFile == [name |-> 0, failed |-> FALSE]

FilesInit ==
  /\ attachments = {0} /\ objects = {0}
  /\ file = [r \in Req |-> NoFile]

StartUpload(r) ==
  /\ Begin(r, <<"upload", "attachment">>, "put")
  /\ file' = [file EXCEPT ![r].name = r]
  /\ UNCHANGED <<attachments, objects>>

\* getDownloadUrl and remove.
StartFile(r) ==
  \E a \in attachments, act \in {"url", "remove"} :
    /\ Begin(r, <<act, "attachment">>, "find file")
    /\ file' = [file EXCEPT ![r].name = a]
    /\ UNCHANGED <<attachments, objects>>

FilesStart(r) == Idle(r) /\ (StartUpload(r) \/ StartFile(r))

\* storage.upload: a key of its own.
PutObject(r) ==
  /\ pc[r] = "put"
  /\ objects' = objects \cup {file[r].name}
  /\ Goto(r, "insert file")
  /\ UNCHANGED <<attachments, file>>

\* The store cannot be reached.
PutFails(r) == pc[r] = "put" /\ Answer(r, FALSE) /\ UNCHANGED fileVars

InsertFile(r) ==
  /\ pc[r] = "insert file"
  /\ attachments' = attachments \cup {file[r].name}
  /\ Answer(r, TRUE)
  /\ UNCHANGED <<objects, file>>

FindFile(r) ==
  /\ pc[r] = "find file"
  /\ IF file[r].name \in attachments
       THEN Goto(r, IF Does(r, "url") THEN "presign" ELSE "remove object")
       ELSE Answer(r, FALSE)
  /\ UNCHANGED fileVars

\* A URL is signed whether the object is there or not.
Presign(r) == pc[r] = "presign" /\ Answer(r, TRUE) /\ UNCHANGED fileVars

RemoveObject(r) ==
  /\ pc[r] = "remove object"
  /\ objects' = objects \ {file[r].name}
  /\ Goto(r, "delete file")
  /\ UNCHANGED <<attachments, file>>

\* Mutant: the row goes first, and a failure of the store ends the request.
RemoveFailsSilently(r) ==
  /\ pc[r] = "remove object"
  /\ attachments' = attachments \ {file[r].name}
  /\ Answer(r, FALSE)
  /\ UNCHANGED <<objects, file>>

\* .catch(() => undefined)
RemoveFails(r) ==
  /\ pc[r] = "remove object"
  /\ file' = [file EXCEPT ![r].failed = TRUE]
  /\ Goto(r, "delete file")
  /\ UNCHANGED <<attachments, objects>>

DeleteFile(r) ==
  /\ pc[r] = "delete file"
  /\ attachments' = attachments \ {file[r].name}
  /\ Answer(r, file[r].name \in attachments)
  /\ UNCHANGED <<objects, file>>

FilesWork(r) ==
  \/ PutObject(r) \/ PutFails(r) \/ InsertFile(r) \/ FindFile(r) \/ Presign(r)
  \/ RemoveObject(r) \/ RemoveFails(r) \/ DeleteFile(r)

-----------------------------------------------------------------------------
FilesTypeOK ==
  /\ attachments \subseteq Attachments /\ objects \subseteq Attachments
  /\ file \in [Req -> [name : Attachments, failed : BOOLEAN]]

Removing(r, a) == Does(r, "remove") /\ On(r) = "attachment" /\ file[r].name = a

\* A row whose object is gone has a removal that stopped between the two; an object
\* without a row has an upload that did, or a removal the store did not answer.
FilesAccountedFor ==
  /\ \A a \in attachments \ objects :
       \E r \in Req : Removing(r, a) /\ pc[r] \in {"delete file", "aborted"}
  /\ \A a \in objects \ attachments :
       \/ a \in Req /\ pc[a] \in {"insert file", "aborted"}
       \/ \E r \in Req : Removing(r, a) /\ file[r].failed
=============================================================================
