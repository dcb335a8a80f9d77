---------------------------- MODULE Endorsements ----------------------------
(***************************************************************************)
(* EndorsementRepository and the Endorsement model, for the endorsements of *)
(* one policy with one effective date, which exclude each other.            *)
(*                                                                          *)
(* The model has no column for a version, an audit log or a deletion: an    *)
(* update asks for an undefined version and is refused, and a deletion       *)
(* writes nothing.                                                          *)
(***************************************************************************)
EXTENDS Naturals

CONSTANTS
  EndorsementIds,   \* the endorsements that somebody tries to create
  Readers           \* slots for reads, updates, deletions and synchronisations

VARIABLES
  enStage,      \* how far the creation of each is
  enStatus,     \* the status of a committed row; "none": no row
  enCache,      \* endorsements in the cache
  enListed,     \* whether the policy's list is in the cache
  enWork,       \* the other calls
  enAtCarrier,  \* endorsements the carrier holds
  enTogether,   \* history: pairs whose creations overlapped
  enReverted    \* history: endorsements that were SYNCED and PENDING again

enVars == <<enStage, enStatus, enCache, enListed, enWork, enAtCarrier, enTogether, enReverted>>

\* A call: where it is, its endorsement, and the status it has read.
NoTask == [at |-> "idle", of |-> "none", read |-> "none"]
Blocking == {"PENDING", "APPROVED"}

EndorsementsInit ==
  /\ enStage = [e \in EndorsementIds |-> "new"]
  /\ enStatus = [e \in EndorsementIds |-> "none"]
  /\ enCache = {} /\ enListed = FALSE
  /\ enWork = [c \in Readers |-> NoTask]
  /\ enAtCarrier = {} /\ enTogether = {} /\ enReverted = {}

enData == <<enStatus, enCache, enListed, enAtCarrier, enTogether, enReverted>>

\* An entry ends after five minutes.
EndorsementExpires ==
  /\ \/ enCache' \in {enCache \ {e} : e \in enCache} /\ enListed' = enListed
     \/ enListed /\ enListed' = FALSE /\ enCache' = enCache
  /\ UNCHANGED <<enStage, enStatus, enWork, enAtCarrier, enTogether, enReverted>>

-----------------------------------------------------------------------------
(* create                                                                  *)

\* validate reads outside of the transaction, and so sees what others have committed.
Conflicts(e) == \E f \in EndorsementIds \ {e} : enStatus[f] \in Blocking

UnderWay == {e \in EndorsementIds : enStage[e] \in {"valid", "inserted", "cached"}}

\* Mutant: no look for a conflict.
ValidateFields(e) ==
  /\ enStage[e] = "new"
  /\ enStage' = [enStage EXCEPT ![e] = "valid"]
  /\ enTogether' = enTogether \cup {{e, f} : f \in UnderWay}
  /\ UNCHANGED <<enStatus, enCache, enListed, enWork, enAtCarrier, enReverted>>

ValidateEndorsement(e) ==
  /\ enStage[e] = "new" /\ ~Conflicts(e)
  /\ enStage' = [enStage EXCEPT ![e] = "valid"]
  /\ enTogether' = enTogether \cup {{e, f} : f \in UnderWay}
  /\ UNCHANGED <<enStatus, enCache, enListed, enWork, enAtCarrier, enReverted>>

InsertEndorsement(e) ==
  /\ enStage[e] = "valid" /\ enStage' = [enStage EXCEPT ![e] = "inserted"]
  /\ UNCHANGED <<enData, enWork>>

\* It is in the cache before the transaction is committed.
CacheCreated(e) ==
  /\ enStage[e] = "inserted" /\ enStage' = [enStage EXCEPT ![e] = "cached"]
  /\ enCache' = enCache \cup {e}
  /\ UNCHANGED <<enStatus, enListed, enWork, enAtCarrier, enTogether, enReverted>>

CommitEndorsement(e) ==
  /\ enStage[e] = "cached" /\ enStage' = [enStage EXCEPT ![e] = "committed"]
  /\ enStatus' = [enStatus EXCEPT ![e] = "PENDING"]
  /\ UNCHANGED <<enCache, enListed, enWork, enAtCarrier, enTogether, enReverted>>

\* A step fails; the transaction is rolled back, the cache entry stays.
CreationFails(e) ==
  /\ enStage[e] \notin {"committed", "failed"} /\ enStage' = [enStage EXCEPT ![e] = "failed"]
  /\ UNCHANGED <<enData, enWork>>

-----------------------------------------------------------------------------
(* findById, findByPolicyId, update, delete, syncWithCarrier               *)

Row(e) == enStatus[e] # "none"
Begins(c, at, e) ==
  /\ enWork[c].at = "idle"
  /\ enWork' = [enWork EXCEPT ![c] = [at |-> at, of |-> e, read |-> enStatus[e]]]
Steps(c, from, to) == enWork[c].at = from /\ enWork' = [enWork EXCEPT ![c].at = to]
Returns(c, from) == enWork[c].at = from /\ enWork' = [enWork EXCEPT ![c] = NoTask]

\* A cached endorsement is served; otherwise the row is looked for.
FindEndorsement(c) ==
  /\ \E e \in EndorsementIds : Row(e) /\ e \notin enCache /\ Begins(c, "filling", e)
  /\ UNCHANGED <<enStage, enData>>

FillEndorsement(c) ==
  /\ Returns(c, "filling") /\ enCache' = enCache \cup {enWork[c].of}
  /\ UNCHANGED <<enStage, enStatus, enListed, enAtCarrier, enTogether, enReverted>>

\* A page of the list, cached for five minutes and dropped by nothing.
ListEndorsements ==
  /\ ~enListed /\ enListed' = TRUE
  /\ UNCHANGED <<enStage, enStatus, enCache, enWork, enAtCarrier, enTogether, enReverted>>

\* update finds the row in its transaction; then the version is undefined, the update is
\* refused, and the transaction rolled back.
FindForUpdate(c) ==
  /\ \E e \in EndorsementIds : Row(e) /\ Begins(c, "updating", e)
  /\ UNCHANGED <<enStage, enData>>

RefuseUpdate(c) == Returns(c, "updating") /\ UNCHANGED <<enStage, enData>>

\* delete finds the row, writes no column, drops the cache entry, and commits.
FindForDelete(c) ==
  /\ \E e \in EndorsementIds : Row(e) /\ Begins(c, "deleting", e)
  /\ UNCHANGED <<enStage, enData>>

DropEndorsement(c) ==
  /\ Returns(c, "deleting") /\ enCache' \in {enCache, enCache \ {enWork[c].of}}
  /\ UNCHANGED <<enStage, enStatus, enListed, enAtCarrier, enTogether, enReverted>>

BeginSync(c) ==
  /\ \E e \in EndorsementIds : Row(e) /\ Begins(c, "syncing", e)
  /\ UNCHANGED <<enStage, enData>>

\* The carrier takes the endorsement, or not; an answer can be lost.
CallCarrier(c) ==
  /\ \/ Steps(c, "syncing", "synced") /\ enAtCarrier' = enAtCarrier \cup {enWork[c].of}
     \/ /\ Steps(c, "syncing", "sync failed")
        /\ enAtCarrier' \in {enAtCarrier, enAtCarrier \cup {enWork[c].of}}
  /\ UNCHANGED <<enStage, enStatus, enCache, enListed, enTogether, enReverted>>

\* save writes the columns that differ from what was read.
SaveStatus(c, status) ==
  enStatus' = IF enWork[c].read = status THEN enStatus
              ELSE [enStatus EXCEPT ![enWork[c].of] = status]

\* SYNCED is saved; when that fails, the carrier has it all the same.
SaveSynced(c) ==
  /\ \/ Returns(c, "synced") /\ SaveStatus(c, "SYNCED")
     \/ Steps(c, "synced", "sync failed") /\ enStatus' = enStatus
  /\ UNCHANGED <<enStage, enCache, enListed, enAtCarrier, enTogether, enReverted>>

\* Whatever failed, PENDING is saved, over SYNCED too.
SavePending(c) ==
  /\ Returns(c, "sync failed")
  /\ \/ SaveStatus(c, "PENDING") \/ enStatus' = enStatus
  /\ enReverted' = enReverted \cup {e \in EndorsementIds :
                       enStatus[e] = "SYNCED" /\ enStatus'[e] = "PENDING"}
  /\ UNCHANGED <<enStage, enCache, enListed, enAtCarrier, enTogether>>

EndorsementsNext ==
  \/ EndorsementExpires \/ ListEndorsements
  \/ \E e \in EndorsementIds :
       \/ ValidateEndorsement(e) \/ InsertEndorsement(e) \/ CacheCreated(e)
       \/ CommitEndorsement(e) \/ CreationFails(e)
  \/ \E c \in Readers :
       \/ FindEndorsement(c) \/ FillEndorsement(c) \/ FindForUpdate(c) \/ RefuseUpdate(c)
       \/ FindForDelete(c) \/ DropEndorsement(c) \/ BeginSync(c) \/ CallCarrier(c)
       \/ SaveSynced(c) \/ SavePending(c)

EndorsementsSpec == EndorsementsInit /\ [][EndorsementsNext]_enVars

-----------------------------------------------------------------------------
\* Creations, rows, caches and calls are of their types.
EndorsementsTypeOK ==
  /\ enStage \in [EndorsementIds -> {"new", "valid", "inserted", "cached", "committed", "failed"}]
  /\ enStatus \in [EndorsementIds -> {"none", "PENDING", "SYNCED"}]
  /\ enCache \subseteq EndorsementIds /\ enListed \in BOOLEAN
  /\ enWork \in [Readers ->
       [at : {"idle", "filling", "updating", "deleting", "syncing", "synced", "sync failed"},
        of : EndorsementIds \cup {"none"}, read : {"none", "PENDING", "SYNCED"}]]
  /\ enAtCarrier \subseteq EndorsementIds /\ enReverted \subseteq EndorsementIds

\* Two endorsements of one date are pending together only if their creations overlapped,
\* because validate reads outside of the transaction (Endorsement.ts:156), or if one of
\* them was synced before and a repeated synchronisation failed (:217).  What is served
\* from the cache without having a row is a creation under way or rolled back
\* (EndorsementRepository.ts:86).  A synced endorsement is at the carrier.
ConflictsExplained ==
  /\ \A e, f \in EndorsementIds :
       e # f /\ enStatus[e] \in Blocking /\ enStatus[f] \in Blocking =>
         {e, f} \in enTogether \/ {e, f} \cap enReverted # {}
  /\ \A e \in enCache : Row(e) \/ enStage[e] \in {"cached", "failed"}
  /\ \A e \in EndorsementIds : enStatus[e] = "SYNCED" => e \in enAtCarrier
=============================================================================
