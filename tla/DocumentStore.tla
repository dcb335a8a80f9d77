---------------------------- MODULE DocumentStore ----------------------------
(***************************************************************************)
(* Documents: the routes, DocumentController, DocumentService,              *)
(* DocumentRepository and the Document model, over PostgreSQL, S3 and a      *)
(* cache.                                                                   *)
(*                                                                          *)
(* The key of an object is made before the database has given the document  *)
(* its id, so the documents of one type and one year share a key.  The      *)
(* module follows the documents of one type, of one year, of one policy.    *)
(***************************************************************************)
EXTENDS Naturals, FiniteSets

CONSTANTS
  DocumentCalls,   \* slots for requests under way
  MaxFiles         \* bound: files that are uploaded

ASSUME DocumentStoreAssumption == MaxFiles \in Nat

VARIABLES
  dcFiles,       \* files uploaded so far; a document is named by its file
  dcRows,        \* documents with a row
  dcObject,      \* whose content the key holds; 0: the object does not exist
  dcCache,       \* documents in the cache
  dcList,        \* whether the list of the policy's documents is in the cache
  dcCall,        \* the requests
  dcConfirmed,   \* history: uploads answered with 201
  dcRefused,     \* history: uploads answered with an error
  dcReplaced,    \* history: documents whose content another upload replaced
  dcErased       \* history: documents whose content a permanent deletion removed

dcVars == <<dcFiles, dcRows, dcObject, dcCache, dcList, dcCall, dcConfirmed, dcRefused,
            dcReplaced, dcErased>>

Files == 1..MaxFiles
NoCall == [at |-> "idle", op |-> "none", file |-> 0, heard |-> FALSE]

DocumentStoreInit ==
  /\ dcFiles = 0 /\ dcRows = {} /\ dcObject = 0 /\ dcCache = {} /\ dcList = FALSE
  /\ dcCall = [c \in DocumentCalls |-> NoCall]
  /\ dcConfirmed = {} /\ dcRefused = {} /\ dcReplaced = {} /\ dcErased = {}

DocAt(c, at) == dcCall[c].at = at
DocStep(c, from, to) == DocAt(c, from) /\ dcCall' = [dcCall EXCEPT ![c].at = to]
dcStores == <<dcFiles, dcRows, dcObject, dcReplaced, dcErased>>
dcAnswers == <<dcConfirmed, dcRefused>>

\* A request is over; one whose breaker has answered already says nothing more.
Refuse(c) ==
  /\ dcCall' = [dcCall EXCEPT ![c] = NoCall]
  /\ dcRefused' = IF dcCall[c].op = "upload" THEN dcRefused \cup {dcCall[c].file}
                  ELSE dcRefused

-----------------------------------------------------------------------------
(* The breaker of the service, and the caches' ends.                       *)

AtRepository == {"encrypting", "storing", "saving", "finding", "fetching", "filling",
                 "erasing", "dropping"}

\* A breaker that has waited too long answers; the repository goes on.
DocumentBreakerTimesOut(c) ==
  /\ dcCall[c].at \in AtRepository /\ dcCall[c].heard
  /\ dcCall' = [dcCall EXCEPT ![c].heard = FALSE]
  /\ dcRefused' = IF dcCall[c].op = "upload" THEN dcRefused \cup {dcCall[c].file}
                  ELSE dcRefused
  /\ UNCHANGED <<dcStores, dcCache, dcList, dcConfirmed>>

DocumentCacheExpires ==
  /\ \/ dcCache' \in {dcCache \ {f} : f \in dcCache} /\ dcList' = dcList
     \/ dcList /\ dcList' = FALSE /\ dcCache' = dcCache
  /\ UNCHANGED <<dcStores, dcCall, dcAnswers>>

-----------------------------------------------------------------------------
(* POST /upload                                                            *)

ReceiveUpload(c) ==
  /\ DocAt(c, "idle") /\ dcFiles < MaxFiles /\ dcFiles' = dcFiles + 1
  /\ dcCall' = [dcCall EXCEPT ![c] = [at |-> "receiving", op |-> "upload",
                                      file |-> dcFiles + 1, heard |-> TRUE]]
  /\ UNCHANGED <<dcRows, dcObject, dcReplaced, dcErased, dcCache, dcList, dcAnswers>>

\* multer takes the file and the service validates it and fires its breaker, unless
\* there is no file, a field is missing or the breaker is open.
TakeFile(c) ==
  /\ DocAt(c, "receiving")
  /\ \/ DocStep(c, "receiving", "encrypting") /\ dcRefused' = dcRefused
     \/ Refuse(c)
  /\ UNCHANGED <<dcStores, dcCache, dcList, dcConfirmed>>

\* Mutant: the row first, then the object.
SaveRowFirst(c) ==
  /\ DocAt(c, "encrypting")
  /\ DocStep(c, "encrypting", "storing") /\ dcRows' = dcRows \cup {dcCall[c].file}
  /\ UNCHANGED <<dcFiles, dcObject, dcReplaced, dcErased, dcCache, dcList, dcAnswers>>

\* The new document, its key, and the encryption with a key of KMS.
EncryptUpload(c) ==
  /\ DocAt(c, "encrypting")
  /\ \/ DocStep(c, "encrypting", "storing") /\ dcRefused' = dcRefused
     \/ Refuse(c)
  /\ UNCHANGED <<dcStores, dcCache, dcList, dcConfirmed>>

PutObject(c) ==
  /\ DocAt(c, "storing")
  /\ \/ /\ DocStep(c, "storing", "saving") /\ dcObject' = dcCall[c].file
        /\ dcReplaced' = dcReplaced \cup ({dcObject} \ {0})
        /\ dcRefused' = dcRefused
     \/ Refuse(c) /\ UNCHANGED <<dcObject, dcReplaced>>
  /\ UNCHANGED <<dcFiles, dcRows, dcErased, dcCache, dcList, dcConfirmed>>

\* The database takes the row, or refuses it: the column of the content's hash allows
\* no null, and nothing sets it.
SaveRow(c) ==
  /\ DocAt(c, "saving")
  /\ \/ /\ DocStep(c, "saving", "confirming") /\ dcRows' = dcRows \cup {dcCall[c].file}
        /\ dcRefused' = dcRefused
     \/ Refuse(c) /\ dcRows' = dcRows
  /\ UNCHANGED <<dcFiles, dcObject, dcReplaced, dcErased, dcCache, dcList, dcConfirmed>>

\* The service caches the document and the controller answers; a failing cache makes
\* it a failed upload.
ConfirmUpload(c) ==
  /\ DocAt(c, "confirming") /\ dcCall[c].heard
  /\ \/ /\ dcCache' = dcCache \cup {dcCall[c].file}
        /\ dcConfirmed' = dcConfirmed \cup {dcCall[c].file}
        /\ dcCall' = [dcCall EXCEPT ![c] = NoCall] /\ dcRefused' = dcRefused
     \/ Refuse(c) /\ UNCHANGED <<dcCache, dcConfirmed>>
  /\ UNCHANGED <<dcStores, dcList>>

\* Nobody waits for this one any more.
EndUnheard(c) ==
  /\ dcCall[c].at \in {"confirming", "answering", "dropping again"} /\ ~dcCall[c].heard
  /\ dcCall' = [dcCall EXCEPT ![c] = NoCall]
  /\ UNCHANGED <<dcStores, dcCache, dcList, dcAnswers>>

-----------------------------------------------------------------------------
(* GET /:id                                                                *)

GivenUp(c) == dcCall' = [dcCall EXCEPT ![c] = NoCall]

RequestDocument(c) ==
  /\ DocAt(c, "idle")
  /\ \E f \in dcRows, op \in {"get", "decrypt"} :
       dcCall' = [dcCall EXCEPT ![c] = [at |-> "looking", op |-> op, file |-> f, heard |-> TRUE]]
  /\ UNCHANGED <<dcStores, dcCache, dcList, dcAnswers>>

\* Whatever the cache holds is the answer, with the content or without it; a caller
\* may ask to leave the cache out.
LookUpDocument(c) ==
  /\ DocAt(c, "looking")
  /\ \/ dcCall[c].file \in dcCache /\ GivenUp(c)
     \/ DocStep(c, "looking", "finding")
  /\ UNCHANGED <<dcStores, dcCache, dcList, dcAnswers>>

\* The repository asks the same cache once more, then the database.
FindDocument(c) ==
  /\ DocAt(c, "finding")
  /\ \/ dcCall[c].file \in dcCache /\ DocStep(c, "finding", "answering")
     \/ dcCall[c].op = "decrypt" /\ DocStep(c, "finding", "fetching")
     \/ dcCall[c].op = "get" /\ DocStep(c, "finding", "filling")
     \/ GivenUp(c)
  /\ UNCHANGED <<dcStores, dcCache, dcList, dcAnswers>>

\* The object is read and decrypted with the row's own key: that of another document
\* does not fit, and a missing object is an error.
FetchContent(c) ==
  /\ DocAt(c, "fetching")
  /\ \/ dcObject = dcCall[c].file /\ DocStep(c, "fetching", "filling")
     \/ GivenUp(c)
  /\ UNCHANGED <<dcStores, dcCache, dcList, dcAnswers>>

\* The link is signed, for an object that exists or not, and the cache is filled with
\* what was read before, unless it is left out.
FillDocument(c) ==
  /\ DocAt(c, "filling")
  /\ \/ /\ DocStep(c, "filling", "answering")
        /\ dcCache' \in {dcCache, dcCache \cup {dcCall[c].file}}
     \/ GivenUp(c) /\ dcCache' = dcCache
  /\ UNCHANGED <<dcStores, dcList, dcAnswers>>

AnswerDocument(c) ==
  /\ DocAt(c, "answering") /\ dcCall[c].heard /\ GivenUp(c)
  /\ UNCHANGED <<dcStores, dcCache, dcList, dcAnswers>>

-----------------------------------------------------------------------------
(* DELETE /:id                                                             *)

RequestDeletion(c) ==
  /\ DocAt(c, "idle")
  /\ \E f \in dcRows, op \in {"delete", "erase"} :
       dcCall' = [dcCall EXCEPT ![c] = [at |-> "erasing", op |-> op, file |-> f, heard |-> TRUE]]
  /\ UNCHANGED <<dcStores, dcCache, dcList, dcAnswers>>

\* softDelete marks the model in memory only, which nobody saves: the row stays as it
\* is.  A permanent deletion removes the object under the shared key.
SoftDelete(c) ==
  /\ DocAt(c, "erasing")
  /\ \/ dcCall[c].op = "delete" /\ DocStep(c, "erasing", "dropping")
        /\ UNCHANGED <<dcObject, dcErased>>
     \/ /\ dcCall[c].op = "erase" /\ DocStep(c, "erasing", "dropping")
        /\ dcObject' = 0 /\ dcErased' = dcErased \cup ({dcObject} \ {0})
     \/ GivenUp(c) /\ UNCHANGED <<dcObject, dcErased>>
  /\ UNCHANGED <<dcFiles, dcRows, dcReplaced, dcCache, dcList, dcAnswers>>

DropDocument(c) ==
  /\ DocAt(c, "dropping")
  /\ \/ DocStep(c, "dropping", "dropping again") /\ dcCache' = dcCache \ {dcCall[c].file}
     \/ GivenUp(c) /\ dcCache' = dcCache
  /\ UNCHANGED <<dcStores, dcList, dcAnswers>>

\* The service drops it once more and the controller answers.
DropDocumentAgain(c) ==
  /\ DocAt(c, "dropping again") /\ dcCall[c].heard /\ GivenUp(c)
  /\ dcCache' \in {dcCache, dcCache \ {dcCall[c].file}}
  /\ UNCHANGED <<dcStores, dcList, dcAnswers>>

-----------------------------------------------------------------------------
(* GET /policy/:policyId.  One entry serves every choice of document types, and no  *)
(* upload or deletion drops it.                                            *)

RequestList(c) ==
  /\ DocAt(c, "idle")
  /\ dcCall' = [dcCall EXCEPT ![c] = [at |-> "listing", op |-> "list", file |-> 0, heard |-> TRUE]]
  /\ UNCHANGED <<dcStores, dcCache, dcList, dcAnswers>>

\* A cached list is the answer; otherwise the rows are found and cached, unless the
\* caller wants the deleted ones too.
ListDocuments(c) ==
  /\ DocAt(c, "listing")
  /\ dcList' \in {dcList, TRUE} /\ GivenUp(c) /\ UNCHANGED <<dcStores, dcCache, dcAnswers>>

DocumentStoreNext ==
  \/ DocumentCacheExpires
  \/ \E c \in DocumentCalls :
       \/ DocumentBreakerTimesOut(c) \/ ReceiveUpload(c) \/ TakeFile(c)
       \/ EncryptUpload(c) \/ PutObject(c) \/ SaveRow(c) \/ ConfirmUpload(c) \/ EndUnheard(c)
       \/ RequestDocument(c) \/ LookUpDocument(c) \/ FindDocument(c) \/ FetchContent(c)
       \/ FillDocument(c) \/ AnswerDocument(c)
       \/ RequestDeletion(c) \/ SoftDelete(c) \/ DropDocument(c) \/ DropDocumentAgain(c)
       \/ RequestList(c) \/ ListDocuments(c)

DocumentStoreSpec == DocumentStoreInit /\ [][DocumentStoreNext]_dcVars

-----------------------------------------------------------------------------
\* The three stores, and the requests, are of their types.
DocumentStoreTypeOK ==
  /\ dcFiles \in 0..MaxFiles /\ dcRows \subseteq 1..dcFiles /\ dcObject \in 0..dcFiles
  /\ dcCache \subseteq 1..dcFiles /\ dcList \in BOOLEAN
  /\ \A c \in DocumentCalls :
       dcCall[c].at \in AtRepository \cup {"idle", "receiving", "confirming", "looking",
                                           "answering", "dropping again", "listing"}
  /\ dcConfirmed \cup dcRefused \cup dcReplaced \cup dcErased \subseteq Files

\* Three stores are written one after the other (DocumentRepository.ts:96-113).  An
\* upload that was confirmed has its row; a row without its content has lost it to a
\* later upload under the shared key or to a permanent deletion, never to a failure
\* between the stores; and content no row names is that of an upload that was refused
\* or is under way.
StoresAgree ==
  LET underWay == {dcCall[c].file : c \in DocumentCalls}
  IN  /\ dcConfirmed \subseteq dcRows
      /\ dcRows \subseteq {dcObject} \cup dcReplaced \cup dcErased
      /\ dcObject # 0 => dcObject \in dcRows \cup dcRefused \cup underWay
=============================================================================
