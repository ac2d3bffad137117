---------------------------- MODULE Verification ----------------------------
(***************************************************************************)
(* The Data Registry's verification pipeline: the rows of `transfers`,     *)
(* `transfer_objects` and `verification_attempts`, the HTTP handlers that  *)
(* change them (finalize, admin retry, admin delete), the ingest workers   *)
(* that claim a finalized transfer under a lease and verify the stored     *)
(* objects against the immutable manifest, and the object store they read. *)
(*                                                                         *)
(* A database transaction that holds its row lock from read to commit is   *)
(* one action.  Everything else is as many actions as it has points where  *)
(* another actor can get in between: finalize_transfer reads without a     *)
(* lock; initiate_multipart and complete_multipart read the object's row,  *)
(* call storage, and commit, without a lock; verify_claim loads the row,   *)
(* reads storage object by object, and commits once at the end;            *)
(* delete_transfer deletes stored objects one by one while it holds the    *)
(* transfer's row lock.                                                    *)
(*                                                                         *)
(* The files of one transport object are verified together or not at all,  *)
(* so one status stands for those of an object's files; the object's own   *)
(* row has another.  Messages, sizes and digests are abstracted to whether *)
(* the stored bytes match the manifest ("good") or not ("bad").            *)
(***************************************************************************)
EXTENDS Naturals, FiniteSets

CONSTANTS
    Transfers,      \* transfers whose objects are being uploaded
    Objects,        \* the transport objects of each transfer
    Workers,        \* ingest-worker processes (the deployment guide says one)
    MaxAttempts,    \* settings.verification_max_attempts
    MaxFinalizers,  \* bound: finalize requests of one transfer in progress at once
    MaxUploads,     \* bound: multipart uploads created for one object
    MaxAgain,       \* bound: multipart uploads created beyond the first ones, for all objects
    MaxCrashes,     \* bound: how often workers die or lose the database
    MaxDeletes      \* bound: how often an administrator asks for a deletion

ASSUME VerificationAssumption ==
    /\ Objects # {}
    /\ MaxAttempts \in Nat \ {0}
    /\ MaxFinalizers \in Nat
    /\ MaxUploads \in Nat \ {0}
    /\ MaxAgain \in Nat
    /\ MaxCrashes \in Nat
    /\ MaxDeletes \in Nat

VARIABLES
    status,       \* transfers.status; "deleted" when the row is gone
    attempts,     \* transfers.verification_attempt_count
    expired,      \* verification_started_at lies more than a lease in the past
    completedAt,  \* transfers.completed_at as a serial number, 0 for NULL
    objStatus,    \* transfer_objects.status
    objUpload,    \* transfer_objects.multipart_upload_id, NoUpload for NULL
    fileStatus,   \* transfer_files.status of the object's files
    attemptRow,   \* verification_attempts.status by attempt number
    uploads,      \* each object's multipart uploads: how far the store and a handler are
    stored,       \* the object store: what lies under each object's key
    assembled,    \* history: how many uploads storage assembled under the key
    finalizers,   \* finalize handlers that passed their checks and not committed
    purging,      \* transfers whose row an admin DELETE has locked
    toDelete,     \* the objects that DELETE has not come to yet
    toAbort,      \* the upload it read in each object's row and will abort
    outlived,     \* history: objects with an upload the last DELETE did not read as open
    again,        \* uploads created beyond the first of an object so far
    worker,       \* the worker processes
    clock,        \* serial number of the last completed_at
    crashes,      \* crashes so far
    deletes       \* DELETE requests so far

object == <<objStatus, objUpload, fileStatus>>
rows   == <<status, attempts, expired, completedAt, object, attemptRow>>
store  == <<uploads, stored, assembled, again>>
purge  == <<purging, toDelete, toAbort, outlived>>
vars   == <<rows, store, finalizers, purge, worker, clock, crashes, deletes>>

-----------------------------------------------------------------------------
(* Persistent state *)

TransferStatus == {"ready", "finalizing", "verifying", "complete", "failed", "deleted"}
ObjectStatus   == {"pending", "uploading", "uploaded", "verified", "none"}
FileStatus     == {"pending", "uploaded", "verified", "none"}
AttemptStatus  == {"none", "running", "complete", "failed", "retryable"}
StoredContent  == {"good", "bad", "absent"}

Uploads  == 1..MaxUploads
NoUpload == 0

(* A multipart upload: created in storage and its id not committed yet; open, with its id in
   the row now or before; open, with a handler on its way to complete it; assembled, with the
   handler not committed; or over.                                                          *)
UploadState == {"none", "created", "open", "completing", "assembled", "over"}
InStorage   == {"created", "open", "completing"}

(* A worker: which claim it holds (transfer and attempt number), the status, the
   attempt count and the verified objects it loaded with the rows, the objects it
   has already matched, and the verdict it has reached and not yet committed.    *)
NoClaim == [pc |-> "idle"]

Claims ==
    [pc : {"claimed", "verifying", "verdict"}, transfer : Transfers, number : 1..MaxAttempts,
     seen : TransferStatus, seenCount : 0..MaxAttempts, seenVerified : SUBSET Objects,
     matched : SUBSET Objects, verdict : {"none", "complete", "mismatch", "error"}]

(* The transaction finds no row under the transfer's id: an UPDATE then matches nothing and
   the session raises.                                                                     *)
UpsertedRow(t) == FALSE   \* mutant
RowGone(t) == status[t] = "deleted"

Init ==
    /\ status      = [t \in Transfers |-> "ready"]
    /\ attempts    = [t \in Transfers |-> 0]
    /\ expired     = [t \in Transfers |-> FALSE]
    /\ completedAt = [t \in Transfers |-> 0]
    /\ objStatus   = [t \in Transfers |-> [o \in Objects |-> "pending"]]
    /\ objUpload   = [t \in Transfers |-> [o \in Objects |-> NoUpload]]
    /\ fileStatus  = [t \in Transfers |-> [o \in Objects |-> "pending"]]
    /\ attemptRow  = [t \in Transfers |-> [n \in 1..MaxAttempts |-> "none"]]
    /\ uploads     = [t \in Transfers |-> [o \in Objects |-> [u \in Uploads |-> "none"]]]
    /\ stored      = [t \in Transfers |-> [o \in Objects |-> "absent"]]
    /\ assembled   = [t \in Transfers |-> [o \in Objects |-> 0]]
    /\ finalizers  = [t \in Transfers |-> 0]
    /\ purging     = {}
    /\ toDelete    = [t \in Transfers |-> {}]
    /\ toAbort     = [t \in Transfers |-> [o \in Objects |-> NoUpload]]
    /\ outlived    = [t \in Transfers |-> {}]
    /\ again       = 0
    /\ worker      = [w \in Workers |-> NoClaim]
    /\ clock       = 0
    /\ crashes     = 0
    /\ deletes     = 0

-----------------------------------------------------------------------------
(* Courier's requests.  A handler that never commits, because its Registry died or its
   transaction failed, is one whose next step does not come.                          *)

Moves(t, o, u, next) == uploads' = [uploads EXCEPT ![t][o][u] = next]

(* initiate_multipart finds no upload in the row and has storage create one.  It takes no
   lock: a second request, or the repetition of one given up, may be at the same point.  *)
initiate_multipart(t, o) ==
    /\ status[t] # "deleted"
    /\ objStatus[t][o] # "uploaded"
    /\ objUpload[t][o] = NoUpload
    /\ \E u \in Uploads :
         /\ uploads[t][o][u] = "none"
         /\ \A v \in Uploads : v < u => uploads[t][o][v] # "none"
         /\ u > 1 => again < MaxAgain
         /\ again' = IF u > 1 THEN again + 1 ELSE again
         /\ Moves(t, o, u, "created")
    /\ outlived' = IF t \in purging THEN [outlived EXCEPT ![t] = @ \cup {o}] ELSE outlived
    /\ UNCHANGED <<rows, stored, assembled, finalizers, purging, toDelete, toAbort, worker,
                   clock, crashes, deletes>>

(* Its commit, however late: it writes the two columns it changed, whatever the row says by
   then, and fails if the row is gone.                                                      *)
initiate_multipart_commit(t, o, u) ==
    /\ uploads[t][o][u] = "created"
    /\ ~ RowGone(t)
    /\ Moves(t, o, u, "open")
    /\ objUpload' = [objUpload EXCEPT ![t][o] = u]
    /\ objStatus' = [objStatus EXCEPT ![t][o] = "uploading"]
    /\ UNCHANGED <<status, attempts, expired, completedAt, fileStatus, attemptRow, stored,
                   assembled, again, finalizers, purge, worker, clock, crashes, deletes>>

(* complete_multipart reads the row: not uploaded, and with an upload ... *)
complete_multipart(t, o) ==
    /\ status[t] # "deleted"
    /\ objStatus[t][o] # "uploaded"
    /\ objUpload[t][o] # NoUpload
    /\ uploads[t][o][objUpload[t][o]] = "open"
    /\ Moves(t, o, objUpload[t][o], "completing")
    /\ UNCHANGED <<rows, stored, assembled, again, finalizers, purge, worker, clock, crashes,
                   deletes>>

(* ... storage puts the parts together and the object under its key, over what may be there;
   whether the bytes match the manifest was decided by what the client sent ...             *)
complete_multipart_stored(t, o, u) ==
    /\ uploads[t][o][u] = "completing"
    /\ Moves(t, o, u, "assembled")
    /\ \E content \in {"good", "bad"} : stored' = [stored EXCEPT ![t][o] = content]
    /\ assembled' = [assembled EXCEPT ![t][o] = @ + 1]
    /\ UNCHANGED <<rows, again, finalizers, purge, worker, clock, crashes, deletes>>

(* Rows of the object's parts are there already: inserting them again breaks the uniqueness of
   their numbers and the whole commit fails.                                                  *)
PartsRecorded(t, o) == fileStatus[t][o] # "pending"

(* ... and the commit: the parts, the object and its files are recorded as uploaded.  (A wait
   for a transfer's row lock, to write its transport_bytes, is a delay.)                      *)
complete_multipart_commit(t, o, u) ==
    /\ uploads[t][o][u] = "assembled"
    /\ Moves(t, o, u, "over")
    /\ \/ /\ RowGone(t) \/ PartsRecorded(t, o)
          /\ UNCHANGED <<objStatus, fileStatus>>
       \/ /\ ~ (RowGone(t) \/ PartsRecorded(t, o))
          /\ objStatus' = [objStatus EXCEPT ![t][o] = "uploaded"]
          /\ fileStatus' = [fileStatus EXCEPT ![t][o] = "uploaded"]
    /\ UNCHANGED <<status, attempts, expired, completedAt, objUpload, attemptRow, stored,
                   assembled, again, finalizers, purge, worker, clock, crashes, deletes>>

(* The checks of finalize_transfer.  (For a finalizing, verifying or complete transfer it
   answers without a change, for any other it is refused.)                               *)
FinalizeAllowedAfterFailure(t) == status[t] \in {"ready", "failed"}   \* mutant

FinalizeAllowed(t) ==
    /\ status[t] = "ready"
    /\ \A o \in Objects : objStatus[t][o] = "uploaded"

(* It reads the row without a lock and passes, ... *)
finalize_transfer_check(t) ==
    /\ finalizers[t] < MaxFinalizers
    /\ FinalizeAllowed(t)
    /\ finalizers' = [finalizers EXCEPT ![t] = @ + 1]
    /\ UNCHANGED <<rows, store, purge, worker, clock, crashes, deletes>>

(* ... and commits what it decided, whatever the row says by then.  Its UPDATE
   waits for the row lock and fails if the row is gone.                       *)
finalize_transfer_commit(t) ==
    /\ finalizers[t] > 0
    /\ t \notin purging
    /\ finalizers' = [finalizers EXCEPT ![t] = @ - 1]
    /\ \/ /\ RowGone(t)
          /\ UNCHANGED <<status, completedAt, clock>>
       \/ /\ ~ RowGone(t)
          /\ status' = [status EXCEPT ![t] = "finalizing"]
          /\ clock' = clock + 1
          /\ completedAt' = [completedAt EXCEPT ![t] = clock']
    /\ UNCHANGED <<attempts, expired, object, attemptRow, store, purge, worker, crashes, deletes>>

-----------------------------------------------------------------------------
(* The administrator's requests *)

RetryAllowedOfSettled(t) == status[t] \in {"failed", "complete"}   \* mutant

RetryAllowed(t) ==
    /\ status[t] = "failed"
    /\ \A o \in Objects : fileStatus[t][o] \in {"uploaded", "verified"}

(* The attempt count is left as it is. *)
retry_failed_transfer(t) ==
    /\ t \notin purging
    /\ RetryAllowed(t)
    /\ status' = [status EXCEPT ![t] = "finalizing"]
    /\ expired' = [expired EXCEPT ![t] = FALSE]
    /\ UNCHANGED <<attempts, completedAt, object, attemptRow, store, finalizers, purge, worker,
                   clock, crashes, deletes>>

(* delete_transfer locks the row and reads those of its objects: an upload that is neither
   uploaded nor verified is to be aborted.  The rows of the objects are not locked.       *)
delete_transfer_lock(t) ==
    LET unfinished(o) == objStatus[t][o] \notin {"uploaded", "verified"}
        named(o) == IF unfinished(o) THEN objUpload[t][o] ELSE NoUpload
    IN  /\ deletes < MaxDeletes
        /\ status[t] # "deleted"
        /\ t \notin purging
        /\ purging' = purging \cup {t}
        /\ toDelete' = [toDelete EXCEPT ![t] = Objects]
        /\ toAbort' = [toAbort EXCEPT ![t] = [o \in Objects |-> named(o)]]
        /\ outlived' = [outlived EXCEPT ![t] =
              {o \in Objects : \E u \in Uploads \ {named(o)} : uploads[t][o][u] \in InStorage}]
        /\ deletes' = deletes + 1
        /\ UNCHANGED <<rows, store, finalizers, worker, clock, crashes>>

(* For each object it aborts the upload, which makes storage raise if it is over, and deletes
   what lies under the key, which storage takes for done if nothing does.                    *)
delete_transfer_object(t, o) ==
    /\ o \in toDelete[t]
    /\ \/ toAbort[t][o] = NoUpload /\ UNCHANGED uploads
       \/ /\ toAbort[t][o] # NoUpload
          /\ uploads[t][o][toAbort[t][o]] \in InStorage
          /\ Moves(t, o, toAbort[t][o], "over")
    /\ stored' = [stored EXCEPT ![t][o] = "absent"]
    /\ toDelete' = [toDelete EXCEPT ![t] = @ \ {o}]
    /\ UNCHANGED <<rows, assembled, again, finalizers, purging, toAbort, outlived, worker, clock,
                   crashes, deletes>>

DeleteOver(t) ==
    /\ purging' = purging \ {t}
    /\ toDelete' = [toDelete EXCEPT ![t] = {}]
    /\ toAbort' = [toAbort EXCEPT ![t] = [o \in Objects |-> NoUpload]]

(* Then it deletes the row; its objects, files and attempts go with it.        *)
delete_transfer_commit(t) ==
    /\ t \in purging
    /\ toDelete[t] = {}
    /\ status' = [status EXCEPT ![t] = "deleted"]
    /\ objStatus' = [objStatus EXCEPT ![t] = [o \in Objects |-> "none"]]
    /\ objUpload' = [objUpload EXCEPT ![t] = [o \in Objects |-> NoUpload]]
    /\ fileStatus' = [fileStatus EXCEPT ![t] = [o \in Objects |-> "none"]]
    /\ attemptRow' = [attemptRow EXCEPT ![t] = [n \in 1..MaxAttempts |-> "none"]]
    /\ DeleteOver(t)
    /\ UNCHANGED <<attempts, expired, completedAt, store, finalizers, outlived, worker, clock,
                   crashes, deletes>>

(* A storage call raised, or the Registry died: the transaction rolls back, the
   objects deleted so far stay deleted.                                        *)
delete_transfer_rollback(t) ==
    /\ t \in purging
    /\ DeleteOver(t)
    /\ UNCHANGED <<rows, store, finalizers, outlived, worker, clock, crashes, deletes>>

-----------------------------------------------------------------------------
(* The ingest worker *)

LeaseExpires(t) ==
    /\ status[t] = "verifying"
    /\ ~ expired[t]
    /\ expired' = [expired EXCEPT ![t] = TRUE]
    /\ UNCHANGED <<status, attempts, completedAt, object, attemptRow, store, finalizers, purge,
                   worker, clock, crashes, deletes>>

ClaimableWithoutLimit(t) == \* mutant
    \/ status[t] = "finalizing"
    \/ status[t] = "verifying" /\ expired[t]

ClaimableOnlyFinalizing(t) == attempts[t] < MaxAttempts /\ status[t] = "finalizing"   \* mutant

Claimable(t) ==
    /\ attempts[t] < MaxAttempts
    /\ \/ status[t] = "finalizing"
       \/ status[t] = "verifying" /\ expired[t]

(* The oldest claimable transfer whose row is not locked (FOR UPDATE SKIP LOCKED). *)
NextClaim(t) ==
    LET open == {u \in Transfers \ purging : Claimable(u)}
    IN  t \in open /\ \A u \in open : completedAt[t] <= completedAt[u]

(* The number of the attempt the claim opens. *)
ReusedAttempt(t) == IF attempts[t] = 0 THEN 1 ELSE attempts[t]   \* mutant
NextAttempt(t) == attempts[t] + 1

claim_transfer(w) ==
    /\ worker[w].pc = "idle"
    /\ \E t \in Transfers :
         /\ NextClaim(t)
         /\ status' = [status EXCEPT ![t] = "verifying"]
         /\ expired' = [expired EXCEPT ![t] = FALSE]
         /\ attempts' = [attempts EXCEPT ![t] = NextAttempt(t)]
         /\ attemptRow' = [attemptRow EXCEPT ![t][NextAttempt(t)] = "running"]
         /\ worker' = [worker EXCEPT ![w] =
                         [pc |-> "claimed", transfer |-> t, number |-> NextAttempt(t),
                          seen |-> "verifying", seenCount |-> NextAttempt(t),
                          seenVerified |-> {}, matched |-> {}, verdict |-> "none"]]
    /\ UNCHANGED <<completedAt, object, store, finalizers, purge, clock, crashes, deletes>>

(* verify_claim opens a session of its own and loads the rows as they are by then. *)
verify_claim_load(w) ==
    /\ worker[w].pc = "claimed"
    /\ LET t == worker[w].transfer IN
       \/ /\ RowGone(t)                     \* "verification claim disappeared"
          /\ worker' = [worker EXCEPT ![w] = NoClaim]
       \/ /\ ~ RowGone(t)
          /\ worker' = [worker EXCEPT ![w].pc = "verifying", ![w].seen = status[t],
                                      ![w].seenCount = attempts[t],
               ![w].seenVerified = {o \in Objects : objStatus[t][o] = "verified"}]
    /\ UNCHANGED <<rows, store, finalizers, purge, clock, crashes, deletes>>

(* Every file of the object has the size and the digest of the manifest. *)
MatchesSizeOnly(t, o) == stored[t][o] \in {"good", "bad"}   \* mutant
MatchesManifest(t, o) == stored[t][o] = "good"

(* verify_transport_object reads one object and finds that every file matches. *)
verify_transport_object(w, o) ==
    /\ worker[w].pc = "verifying"
    /\ o \notin worker[w].matched
    /\ MatchesManifest(worker[w].transfer, o)
    /\ worker' = [worker EXCEPT ![w].matched = @ \cup {o}]
    /\ UNCHANGED <<rows, store, finalizers, purge, clock, crashes, deletes>>

(* The loop ends: every object matched; one does not match (VerificationMismatch);
   or storage raised, because the object is missing or for any reason of its own. *)
verify_claim_verdict(w) ==
    /\ worker[w].pc = "verifying"
    /\ LET t == worker[w].transfer
           left == Objects \ worker[w].matched
       IN \E verdict \in {"complete", "mismatch", "error"} :
            /\ verdict = "complete" => left = {}
            /\ verdict = "mismatch" => \E o \in left : stored[t][o] = "bad"
            /\ verdict = "error" => left # {}
            /\ worker' = [worker EXCEPT ![w].pc = "verdict", ![w].verdict = verdict]
    /\ UNCHANGED <<rows, store, finalizers, purge, clock, crashes, deletes>>

(* What fail_verification makes of a failure. *)
Permanent(claim) == claim.verdict = "mismatch" \/ claim.seenCount >= MaxAttempts

VerdictStatus(claim) ==
    IF claim.verdict = "complete" THEN "complete"
    ELSE IF Permanent(claim) THEN "failed" ELSE "finalizing"

VerdictRow(claim) ==
    IF claim.verdict = "complete" THEN "complete"
    ELSE IF Permanent(claim) THEN "failed" ELSE "retryable"

(* The single commit at the end.  The session writes the columns whose value differs
   from what it loaded, whatever the row holds now; if the row is gone it raises.   *)
verify_claim_commit(w) ==
    /\ worker[w].pc = "verdict"
    /\ LET claim == worker[w]
           t == claim.transfer
       IN /\ t \notin purging
          /\ \/ /\ RowGone(t)
                /\ UNCHANGED <<status, objStatus, fileStatus, attemptRow>>
             \/ /\ ~ RowGone(t)
                /\ status' = IF VerdictStatus(claim) = claim.seen THEN status
                             ELSE [status EXCEPT ![t] = VerdictStatus(claim)]
                /\ objStatus' = [objStatus EXCEPT ![t] =
                     [o \in Objects |-> IF o \in claim.matched \ claim.seenVerified
                                       THEN "verified" ELSE @[o]]]
                /\ fileStatus' = [fileStatus EXCEPT ![t] =
                     [o \in Objects |-> IF o \in claim.matched THEN "verified" ELSE @[o]]]
                /\ attemptRow' = [attemptRow EXCEPT ![t][claim.number] = VerdictRow(claim)]
    /\ worker' = [worker EXCEPT ![w] = NoClaim]
    /\ UNCHANGED <<attempts, expired, completedAt, objUpload, store, finalizers, purge, clock,
                   crashes, deletes>>

(* The process dies, or its database session raises: nothing of the claim's work is
   committed and the worker comes back idle.                                       *)
WorkerCrash(w) ==
    /\ worker[w].pc # "idle"
    /\ crashes < MaxCrashes
    /\ crashes' = crashes + 1
    /\ worker' = [worker EXCEPT ![w] = NoClaim]
    /\ UNCHANGED <<rows, store, finalizers, purge, clock, deletes>>

-----------------------------------------------------------------------------
WorkerStep(w) ==
    \/ claim_transfer(w)
    \/ verify_claim_load(w)
    \/ \E o \in Objects : verify_transport_object(w, o)
    \/ verify_claim_verdict(w)
    \/ verify_claim_commit(w)

UploadStep(t, o) ==
    \/ initiate_multipart(t, o)
    \/ complete_multipart(t, o)
    \/ \E u \in Uploads :
         \/ initiate_multipart_commit(t, o, u)
         \/ complete_multipart_stored(t, o, u)
         \/ complete_multipart_commit(t, o, u)

DeleteEnds(t) == delete_transfer_commit(t) \/ delete_transfer_rollback(t)

Next ==
    \/ \E t \in Transfers :
         \/ \E o \in Objects : UploadStep(t, o) \/ delete_transfer_object(t, o)
         \/ finalize_transfer_check(t)
         \/ finalize_transfer_commit(t)
         \/ retry_failed_transfer(t)
         \/ delete_transfer_lock(t)
         \/ DeleteEnds(t)
         \/ LeaseExpires(t)
    \/ \E w \in Workers : WorkerStep(w) \/ WorkerCrash(w)

Spec == Init /\ [][Next]_vars

(* The worker loops for as long as it runs, time passes, and an HTTP handler that
   holds a lock ends.  Clients, administrators and crashes owe nothing.          *)
Fairness ==
    /\ \A w \in Workers : WF_vars(WorkerStep(w))
    /\ \A t \in Transfers : WF_vars(LeaseExpires(t)) /\ WF_vars(DeleteEnds(t))

FairSpec == Spec /\ Fairness

-----------------------------------------------------------------------------
(* Properties *)

Settled(t) == status[t] \in {"complete", "failed", "deleted"}

(* Every variable stays in its domain; attempt numbers never pass the limit. *)
TypeOK ==
    /\ status \in [Transfers -> TransferStatus]
    /\ attempts \in [Transfers -> 0..MaxAttempts]
    /\ expired \in [Transfers -> BOOLEAN]
    /\ completedAt \in [Transfers -> Nat]
    /\ objStatus \in [Transfers -> [Objects -> ObjectStatus]]
    /\ objUpload \in [Transfers -> [Objects -> Uploads \cup {NoUpload}]]
    /\ fileStatus \in [Transfers -> [Objects -> FileStatus]]
    /\ attemptRow \in [Transfers -> [1..MaxAttempts -> AttemptStatus]]
    /\ uploads \in [Transfers -> [Objects -> [Uploads -> UploadState]]]
    /\ stored \in [Transfers -> [Objects -> StoredContent]]
    /\ assembled \in [Transfers -> [Objects -> Nat]]
    /\ finalizers \in [Transfers -> Nat]
    /\ purging \in SUBSET Transfers
    /\ toDelete \in [Transfers -> SUBSET Objects]
    /\ toAbort \in [Transfers -> [Objects -> Uploads \cup {NoUpload}]]
    /\ outlived \in [Transfers -> SUBSET Objects]
    /\ again \in Nat
    /\ worker \in [Workers -> Claims \cup {NoClaim}]
    /\ clock \in Nat
    /\ crashes \in Nat
    /\ deletes \in Nat

(* "advances the transfer to `complete` only when every file matches": however many workers
   race for a transfer, whatever an expired lease let them overwrite, and whatever a late
   handler of an upload commits, a complete transfer has the evidence: every file is recorded
   as verified and some attempt row as the success.  And what it vouches for is in storage:
   no object contradicts the manifest, unless a second upload of it was assembled over the
   first.  (The object's own row may read "uploading" again: see CompleteObjectsVerified.)   *)
CompleteIsVerified ==
    \A t \in Transfers : status[t] = "complete" =>
        /\ \E n \in 1..attempts[t] : attemptRow[t][n] = "complete"
        /\ \A o \in Objects :
             /\ fileStatus[t][o] = "verified"
             /\ assembled[t][o] = 1 => stored[t][o] \in {"good", "absent"}

(* Stronger, and not so: the rows of the objects say "verified" too.  The commit of a late
   initiate_multipart sets one back after it was uploaded, finalized and verified.         *)
CompleteObjectsVerified ==
    \A t \in Transfers : status[t] = "complete" => \A o \in Objects : objStatus[t][o] = "verified"

(* The row lock of claim_transfer makes attempts exclusive: two workers may work on
   one transfer after a lease expired, but never under one attempt number, and an
   attempt a worker still holds is still recorded as running.                       *)
AttemptsAreExclusive ==
    /\ \A v, w \in Workers :
         v # w /\ worker[v].pc # "idle" /\ worker[w].pc # "idle"
               /\ worker[v].transfer = worker[w].transfer
            => worker[v].number # worker[w].number
    /\ \A w \in Workers : worker[w].pc # "idle" /\ status[worker[w].transfer] # "deleted"
            => attemptRow[worker[w].transfer][worker[w].number] = "running"

(* With one worker and one finalize request at a time, the status of every transfer takes
   only the steps RegistryTransfer promises to Courier: a crash, an expired lease or a second
   claim never skips a state, and "complete" is taken back by deletion alone.               *)
Registry(t) == INSTANCE RegistryTransfer WITH status <- status[t]

ImplementsRegistryTransfer ==
    /\ \A t \in Transfers : Registry(t)!Init
    /\ [][\A t \in Transfers : Registry(t)!Next \/ UNCHANGED status[t]]_vars

(* "Integrity mismatches are permanent failures and remain visible for operator review":
   a failed transfer stays failed until an administrator retries or deletes it.       *)
FailedAwaitsOperator ==
    [][\A t \in Transfers : status[t] = "failed" /\ status'[t] # "failed" =>
          retry_failed_transfer(t) \/ delete_transfer_commit(t)]_vars

(* A deleted transfer is not resurrected by a worker or a handler that still held it, and its
   deletion leaves none of its objects behind, save where an upload outlived it: one that the
   DELETE does not abort, because a late initiate_multipart had replaced it in the object's row
   or because the request that created it came while the DELETE was under way.              *)
DeletedIsGone ==
    [][\A t \in Transfers : status[t] = "deleted" =>
          /\ status'[t] = "deleted"
          /\ \A o \in Objects \ outlived[t] : stored'[t][o] = "absent"]_vars

(* As long as attempts are left, a finalized transfer is brought to a verdict through
   crashes, expired leases and storage errors.                                        *)
SettlesWithinBudget ==
    \A t \in Transfers : status[t] \in {"finalizing", "verifying"} ~>
                            Settled(t) \/ attempts[t] = MaxAttempts

(* "durable claims with row locking and stale-lease recovery": a transfer that is queued,
   or whose claim went stale, reaches a verdict, in its last attempt and after a retry too. *)
QueuedReachesVerdict ==
    \A t \in Transfers : status[t] \in {"finalizing", "verifying"} ~> Settled(t)
=============================================================================
