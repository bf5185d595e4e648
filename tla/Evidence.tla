------------------------------- MODULE Evidence -------------------------------
(***************************************************************************)
(* Evidence files and what the database says of them, on top of the        *)
(* activity trail: save_upload (src/app/services/evidence_store.py), the   *)
(* upload handlers of src/app/web.py and src/app/portal.py, the comment    *)
(* and requester update handlers, the evidence check of the Recovery       *)
(* Doctor (src/app/backup_restore.py) and the audit export.                *)
(*                                                                         *)
(* An upload is a request of its own and a session of the trail.  The file *)
(* is complete before the handler takes the lock; row and entry are        *)
(* written in one transaction.                                             *)
(***************************************************************************)
EXTENDS AuditChain, FiniteSets

CONSTANTS
    Uploads,        \* uploads, sessions of the trail; also what is on record
    Portal,         \* those that come through the requester portal
    Note,           \* comments and requester updates
    MaxCrashes, MaxDamages

ASSUME EvidenceAssumption ==
    /\ Uploads \subseteq Sessions /\ Portal \subseteq Uploads
    /\ Events = Uploads \cup {Note} /\ Note \notin Uploads
    /\ MaxCrashes \in Nat /\ MaxDamages \in Nat

VARIABLES
    upload,     \* where each upload is
    file,       \* file[u]: its file in the store
    attached,   \* attachment rows that are committed
    doctor,     \* the rows in the Doctor's backup while it runs, its last verdict
    export,     \* what an audit export has read, None outside
    crashes

vars == <<trail, upload, file, attached, doctor, export, crashes>>

UploadState == {"new", "reading", "stored", "recorded", "done",
                "refused", "escaped", "killed"}
Ended == {"done", "refused", "escaped", "killed"}

EvidenceInit ==
    /\ TrailInit
    /\ upload = [u \in Uploads |-> "new"]
    /\ file = [u \in Uploads |-> "none"]
    /\ attached = {}
    /\ doctor = [copy |-> None, verdict |-> "none"] /\ export = None
    /\ crashes = 0

Readers == <<doctor, export>>
Damaged == {u \in Uploads : file[u] = "damaged"}

-----------------------------------------------------------------------------
(* save_upload.  Between the chunks it waits for the client.               *)
StartUpload(u) ==
    /\ upload[u] = "new"
    /\ upload' = [upload EXCEPT ![u] = "reading"]
    /\ file' = [file EXCEPT ![u] = "temp"]
    /\ UNCHANGED <<trail, attached, Readers, crashes>>

StoreUpload(u) ==
    /\ upload[u] = "reading"
    /\ upload' = [upload EXCEPT ![u] = "stored"]
    /\ file' = [file EXCEPT ![u] = "final"]
    /\ UNCHANGED <<trail, attached, Readers, crashes>>

(* Too large, empty, or any other exception of save_upload.                *)
RefuseUpload(u) ==
    /\ upload[u] = "reading"
    /\ upload' = [upload EXCEPT ![u] = "refused"]
    /\ file' = [file EXCEPT ![u] = "none"]
    /\ UNCHANGED <<trail, attached, Readers, crashes>>

(* attachment_add and requester_portal_evidence: under the lock, the row   *)
(* and its entry in one transaction.                                       *)
BeginRecord(u) ==
    /\ upload[u] = "stored"
    /\ Begin(u)
    /\ UNCHANGED <<upload, file, attached, Readers, crashes>>

RecordUpload(u) ==
    /\ upload[u] = "stored"
    /\ AppendActivity(u, u)
    /\ upload' = [upload EXCEPT ![u] = "recorded"]
    /\ UNCHANGED <<file, attached, Readers, crashes>>

\* Variant: the row is committed before its entry is written.
CommitEarly(u) ==
    /\ upload[u] \in {"stored", "recorded"}
    /\ Commit(u)
    /\ attached' = attached \cup {u}
    /\ upload' = [upload EXCEPT ![u] = "done"]
    /\ UNCHANGED <<file, Readers, crashes>>

CommitUpload(u) ==
    /\ upload[u] = "recorded"
    /\ Commit(u)
    /\ attached' = attached \cup {u}
    /\ upload' = [upload EXCEPT ![u] = "done"]
    /\ UNCHANGED <<file, Readers, crashes>>

(* An exception after the file was stored: both handlers remove the file,  *)
(* the portal only for a ValueError.                                       *)
FailRecord(u) ==
    /\ upload[u] \in {"stored", "recorded"}
    /\ Rollback(u)
    /\ \/ /\ upload' = [upload EXCEPT ![u] = "refused"]
          /\ file' = [file EXCEPT ![u] = "none"]
       \/ /\ u \in Portal
          /\ upload' = [upload EXCEPT ![u] = "escaped"]
          /\ UNCHANGED file
    /\ UNCHANGED <<attached, Readers, crashes>>

(* comment_add, requester_portal_update and every other handler.           *)
OtherHandler(s) ==
    /\ \/ Begin(s)
       \/ AppendActivity(s, Note)
       \/ Commit(s)
       \/ Rollback(s)
    /\ UNCHANGED <<upload, file, attached, Readers, crashes>>

(* The server is killed: transactions are rolled back, files stay.         *)
Crash ==
    /\ crashes < MaxCrashes
    /\ crashes' = crashes + 1
    /\ txn' = [s \in Sessions |-> None]
    /\ upload' = [u \in Uploads |-> IF upload[u] \in Ended \cup {"new"}
                                    THEN upload[u] ELSE "killed"]
    /\ export' = None
    /\ UNCHANGED <<rows, last, written, tampers, file, attached, doctor>>

(* A stored file is lost or altered behind the application.                *)
Damage(u) ==
    /\ Cardinality(Damaged) < MaxDamages
    /\ file[u] = "final"
    /\ file' = [file EXCEPT ![u] = "damaged"]
    /\ UNCHANGED <<trail, upload, attached, Readers, crashes>>

-----------------------------------------------------------------------------
(* run_recovery_doctor, a process of its own beside the server: a          *)
(* consistent copy of the database first, its evidence later.              *)
DoctorCopies ==
    /\ doctor = [copy |-> None, verdict |-> "none"]
    /\ doctor' = [doctor EXCEPT !.copy = attached]
    /\ UNCHANGED <<trail, upload, file, attached, export, crashes>>

Verdict(ok) == [copy |-> None, verdict |-> IF ok THEN "PASS" ELSE "FAIL"]

Problems(R) == {u \in R : file[u] # "final"}

\* Variant: a file without a row is a problem, too.
DoctorFindsStrays ==
    /\ doctor.copy # None
    /\ doctor' = Verdict({u \in Uploads : file[u] = "final"} = doctor.copy)
    /\ UNCHANGED <<trail, upload, file, attached, export, crashes>>

DoctorChecks ==
    /\ doctor.copy # None
    /\ doctor' = Verdict(Problems(doctor.copy) = {})
    /\ UNCHANGED <<trail, upload, file, attached, export, crashes>>

(* build_case_audit_export: queries without the lock, one after the other. *)
ExportAttachments ==
    /\ export = None
    /\ export' = [attachments |-> attached, activity |-> None]
    /\ UNCHANGED <<trail, upload, file, attached, doctor, crashes>>

\* Variant: the attachments are read last.
ExportAttachmentsLast ==
    /\ export # None /\ export.activity = None
    /\ export' = [attachments |-> attached, activity |-> export.attachments]
    /\ UNCHANGED <<trail, upload, file, attached, doctor, crashes>>

ExportActivity ==
    /\ export # None /\ export.activity = None
    /\ export' = [export EXCEPT !.activity = {e.body.what : e \in rows}]
    /\ UNCHANGED <<trail, upload, file, attached, doctor, crashes>>

(* The verification queries once more; the package is complete.            *)
ExportVerification ==
    /\ export # None /\ export.activity # None
    /\ export' = None
    /\ UNCHANGED <<trail, upload, file, attached, doctor, crashes>>

-----------------------------------------------------------------------------
HandleUpload(u) ==
    \/ StartUpload(u) \/ StoreUpload(u) \/ RefuseUpload(u)
    \/ BeginRecord(u) \/ RecordUpload(u) \/ CommitUpload(u) \/ FailRecord(u)
    \/ Damage(u)

EvidenceNext ==
    \/ \E u \in Uploads : HandleUpload(u)
    \/ \E s \in Sessions \ Uploads : OtherHandler(s)
    \/ Crash
    \/ DoctorCopies \/ DoctorChecks
    \/ ExportAttachments \/ ExportActivity \/ ExportVerification
    \/ Tamper /\ UNCHANGED <<upload, file, attached, Readers, crashes>>

EvidenceSpec == EvidenceInit /\ [][EvidenceNext]_vars

-----------------------------------------------------------------------------
EvidenceTypeOK ==
    /\ TrailTypeOK
    /\ upload \in [Uploads -> UploadState]
    /\ file \in [Uploads -> {"none", "temp", "final", "damaged"}]
    /\ attached \subseteq Uploads
    /\ doctor \in [copy : (SUBSET Uploads) \cup {None}, verdict : {"none", "PASS", "FAIL"}]
    /\ export \in [attachments : SUBSET Uploads,
                   activity : (SUBSET Events) \cup {None}] \cup {None}
    /\ crashes \in 0..MaxCrashes

(* Whatever fails and wherever the server is killed: an attachment row     *)
(* that is committed has its file, and an entry in the history tells of    *)
(* it.  No entry tells of an attachment that is not there.                 *)
EvidenceOnRecord ==
    /\ \A u \in attached : file[u] \in {"final", "damaged"}
    /\ tampers = 0 => attached = {e.body.what : e \in rows} \cap Uploads

(* The Doctor fails if and only if evidence was damaged: uploads that are  *)
(* in progress, refused or killed beside it are no problem.                *)
DoctorIsRight ==
    /\ doctor.verdict = "FAIL" => attached \cap Damaged # {}
    /\ doctor.copy # None => Problems(doctor.copy) = doctor.copy \cap Damaged

(* "Build a complete review package" (audit.py:135) while others append:   *)
(* an attachment it lists is in the activity it lists, and the             *)
(* verification, which comes last, covers all of that activity.            *)
ExportIsComplete ==
    export # None /\ export.activity # None /\ tampers = 0 =>
        /\ export.attachments \subseteq export.activity
        /\ export.activity \subseteq {e.body.what : e \in rows}
=============================================================================
