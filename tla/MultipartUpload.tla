-------------------------- MODULE MultipartUpload --------------------------
(***************************************************************************)
(* The upload of one transport object, end to end: Courier's upload engine *)
(* (run_upload, upload_missing_parts, reconcile_file, complete_uploaded_file)*)
(* with the part records it keeps in SQLite, the Registry's multipart      *)
(* handlers with the transfer_objects row, and the S3 multipart store.     *)
(*                                                                         *)
(* What can go wrong does: Courier dies between any two steps; a request   *)
(* or its answer is lost, and a request given up may still take effect     *)
(* later; the Registry dies between a storage call and its commit; two     *)
(* handlers of one request overlap; the user pauses in mid-request.        *)
(*                                                                         *)
(* A part stands for its bytes and its ETag (the source file is not        *)
(* modified here; the manifest comparison in Verification catches it if it *)
(* is), so storage knows the set of parts an upload has received.          *)
(***************************************************************************)
EXTENDS Naturals, FiniteSets

CONSTANTS
    NParts,             \* number of parts of the plan
    PageSize,           \* parts one ListParts answer can hold
    MaxAttempts,        \* retry.max_attempts
    MaxFaults,          \* bound: requests or answers that are lost
    MaxClientCrashes,   \* bound
    MaxRegistryCrashes, \* bound
    MaxPauses,          \* bound
    MaxUploads          \* bound: multipart uploads ever created in the store

ASSUME MultipartAssumption ==
    /\ NParts \in Nat \ {0}
    /\ PageSize \in Nat \ {0}
    /\ MaxAttempts \in Nat \ {0}
    /\ MaxFaults \in Nat
    /\ MaxClientCrashes \in Nat
    /\ MaxRegistryCrashes \in Nat
    /\ MaxPauses \in Nat
    /\ MaxUploads \in Nat \ {0}

Parts   == 1..NParts
Uploads == 1..MaxUploads
NoUpload == 0

VARIABLES
    \* Courier: the running task (lost in a crash) ...
    pc, attempt, part, url, waiting, pausing,
    \* ... and what SQLite keeps: whether the object is a single file or a pack of files, the
    \* session, the confirmed parts, the files' status.
    standalone, session, local, marked,
    \* the Registry: the transfer_objects row and whether it has transport_parts, finalize's
    \* effect, handlers in progress
    row, finalized, initiating, completing,
    \* the object store: uploads, the parts each received, the finished object
    uploadState, received, object,
    \* requests Courier gave up on that may still arrive
    latePuts, lateComplete,
    \* what storage had confirmed when Courier last listed the parts
    confirmedAtList,
    faults, clientCrashes, registryCrashes, pauses

task    == <<pc, attempt, part, url, waiting, pausing>>
sqlite  == <<standalone, session, local, marked>>
registry == <<row, finalized, initiating, completing>>
storage == <<uploadState, received, object>>
network == <<latePuts, lateComplete>>
bounds  == <<faults, clientCrashes, registryCrashes, pauses>>
vars    == <<task, sqlite, registry, storage, network, confirmedAtList, bounds>>

Stopped == {"ready", "paused", "interrupted", "done"}
Running == {"check", "reconcile", "begin", "beginWait", "list", "parts", "authorize", "put",
            "confirm", "head", "complete", "completeWait", "recheck", "mark", "finalize"}

Init ==
    /\ pc = "ready" /\ attempt = 0 /\ part = 1 /\ url = NoUpload /\ waiting = NoUpload
    /\ pausing = FALSE
    /\ standalone \in BOOLEAN /\ session = FALSE /\ local = {} /\ marked = FALSE
    /\ row = [status |-> "pending", upload |-> NoUpload, parts |-> FALSE]
    /\ finalized = FALSE /\ initiating = {} /\ completing = FALSE
    /\ uploadState = [u \in Uploads |-> "none"]
    /\ received = [u \in Uploads |-> {}]
    /\ object = {}
    /\ latePuts = {} /\ lateComplete = FALSE
    /\ confirmedAtList = {}
    /\ faults = 0 /\ clientCrashes = 0 /\ registryCrashes = 0 /\ pauses = 0

-----------------------------------------------------------------------------
(* Courier's control flow *)

Goto(next) ==
    /\ pc' = next
    /\ UNCHANGED <<attempt, part, url, waiting, pausing>>

(* Enters a loop of up to MaxAttempts. *)
Enter(next) ==
    /\ pc' = next
    /\ attempt' = 0
    /\ UNCHANGED <<part, url, waiting, pausing>>

(* A retryable error: back to the top of the loop, or out once attempts are used up. *)
Retry(top) ==
    /\ IF attempt + 1 < MaxAttempts
       THEN pc' = top /\ attempt' = attempt + 1
       ELSE pc' = "interrupted" /\ attempt' = 0
    /\ waiting' = NoUpload
    /\ UNCHANGED <<part, url, pausing>>

Fault == faults < MaxFaults /\ faults' = faults + 1 /\ UNCHANGED <<clientCrashes, registryCrashes, pauses>>

(* The Registry's HEAD request: the object is in the store. *)
ObjectExistsByParts == object # {} \/ \E u \in Uploads : received[u] = Parts   \* mutant
ObjectNeverExists == FALSE   \* mutant
object_exists == object # {}

(* The user starts or resumes the transfer; start_upload installs a fresh pause flag.
   An object whose files are all uploaded is skipped.                                *)
run_upload ==
    /\ pc \in {"ready", "paused", "interrupted"}
    /\ pc' = IF marked THEN "finalize" ELSE "check"
    /\ attempt' = 0
    /\ pausing' = FALSE
    /\ UNCHANGED <<part, url, waiting, sqlite, registry, storage, network, confirmedAtList, bounds>>

pause_upload ==
    /\ pc \in Running
    /\ ~ pausing
    /\ pauses < MaxPauses
    /\ pauses' = pauses + 1
    /\ pausing' = TRUE
    /\ UNCHANGED <<pc, attempt, part, url, waiting, sqlite, registry, storage, network,
                   confirmedAtList, faults, clientCrashes, registryCrashes>>

(* The head of upload_missing_parts: the pause flag, then whether the object is there. *)
check_object_exists ==
    /\ pc = "check"
    /\ \/ /\ pausing
          /\ Goto("paused")
          /\ UNCHANGED <<marked, bounds>>
       \/ /\ ~ pausing
          /\ object_exists
          /\ marked' = (marked \/ standalone)   \* mark_file_uploaded finds no row for a pack
          /\ Goto("head")
          /\ UNCHANGED bounds
       \/ /\ ~ pausing
          /\ ~ object_exists
          /\ Enter("reconcile")
          /\ UNCHANGED <<marked, bounds>>
       \/ /\ ~ pausing
          /\ Fault
          /\ Goto("interrupted")
          /\ UNCHANGED marked
    /\ UNCHANGED <<standalone, session, local, registry, storage, network, confirmedAtList>>

(* reconcile_file: begin unless SQLite has a session. *)
reconcile_file ==
    /\ pc = "reconcile"
    /\ Goto(IF session THEN "list" ELSE "begin")
    /\ UNCHANGED <<sqlite, registry, storage, network, confirmedAtList, bounds>>

(* initiate_multipart up to its commit.  It takes no lock: two handlers can both find no
   upload and create one each.                                                         *)
initiate_multipart ==
    /\ pc = "begin"
    /\ \/ /\ row.status # "uploaded"                 \* the row has an upload: answered at once
          /\ row.upload # NoUpload
          /\ session' = TRUE
          /\ Goto("list")
          /\ UNCHANGED <<initiating, uploadState, bounds>>
       \/ /\ row.status # "uploaded"                 \* create one in the store
          /\ row.upload = NoUpload
          /\ \E u \in Uploads :
               /\ uploadState[u] = "none"
               /\ \A v \in Uploads : v < u => uploadState[v] # "none"
               /\ uploadState' = [uploadState EXCEPT ![u] = "open"]
               /\ initiating' = initiating \cup {u}
               /\ waiting' = u
          /\ pc' = "beginWait"
          /\ UNCHANGED <<attempt, part, url, pausing, session, bounds>>
       \/ /\ row.status = "uploaded"                 \* 409
          /\ Retry("reconcile")
          /\ UNCHANGED <<session, initiating, uploadState, bounds>>
       \/ /\ Fault                                   \* the request or its answer is lost
          /\ Retry("reconcile")
          /\ UNCHANGED <<session, initiating, uploadState>>
    /\ UNCHANGED <<standalone, local, marked, row, finalized, completing, received, object, network,
                   confirmedAtList>>

(* The handler's commit, whether or not anyone still waits for its answer; whoever does
   records the session.                                                                *)
initiate_multipart_commit(u) ==
    /\ u \in initiating
    /\ initiating' = initiating \ {u}
    /\ row' = [row EXCEPT !.status = "uploading", !.upload = u]
    /\ IF pc = "beginWait" /\ waiting = u
       THEN session' = TRUE /\ pc' = "list" /\ waiting' = NoUpload
       ELSE UNCHANGED <<session, pc, waiting>>
    /\ UNCHANGED <<attempt, part, url, pausing, standalone, local, marked, finalized, completing, storage,
                   network, confirmedAtList, bounds>>

GiveUpBegin ==
    /\ pc = "beginWait"
    /\ Fault
    /\ Retry("reconcile")
    /\ UNCHANGED <<sqlite, registry, storage, network, confirmedAtList>>

(* The parts one ListParts request returns: the lowest part numbers, one page of them. *)
Page(parts) == {p \in parts : Cardinality({q \in parts : q < p}) < PageSize}

(* reconcile_remote_parts: what SQLite holds complete once the listing is applied. *)
ForgetsListing(listed) == {}   \* mutant
KeepsLocalParts(listed) == local \cup listed   \* mutant
reconcile_remote_parts(listed) == listed

(* list_multipart_parts, then reconcile_remote_parts: the listed parts are complete, every
   other part is pending again.                                                          *)
list_multipart_parts ==
    /\ pc = "list"
    /\ \/ /\ row.upload # NoUpload
          /\ uploadState[row.upload] = "open"
          /\ local' = reconcile_remote_parts(Page(received[row.upload]))
          /\ confirmedAtList' = received[row.upload]
          /\ Goto("parts")
          /\ UNCHANGED bounds
       \/ /\ row.upload = NoUpload \/ uploadState[row.upload] # "open"   \* 409, or storage raised
          /\ Retry("reconcile")
          /\ UNCHANGED <<local, confirmedAtList, bounds>>
       \/ /\ Fault
          /\ Retry("reconcile")
          /\ UNCHANGED <<local, confirmedAtList>>
    /\ UNCHANGED <<standalone, session, marked, registry, storage, network>>

Missing == Parts \ local

(* The part loop: the next part that is not complete, in order; and the pause checks
   before a part and after the last one.                                            *)
next_part ==
    /\ pc = "parts"
    /\ \/ pausing /\ Goto("paused")
       \/ ~ pausing /\ Missing = {} /\ Goto("head")
       \/ /\ ~ pausing
          /\ \E p \in Missing :
               /\ \A q \in Missing : p <= q
               /\ part' = p
          /\ pc' = "authorize"
          /\ attempt' = 0
          /\ UNCHANGED <<url, waiting, pausing>>
    /\ UNCHANGED <<sqlite, registry, storage, network, confirmedAtList, bounds>>

(* authorize_part: a URL for the upload the row names now. *)
authorize_part ==
    /\ pc = "authorize"
    /\ \/ pausing /\ Goto("paused") /\ UNCHANGED bounds
       \/ /\ ~ pausing
          /\ row.upload # NoUpload /\ row.status = "uploading"
          /\ url' = row.upload
          /\ pc' = "put"
          /\ UNCHANGED <<attempt, part, waiting, pausing, bounds>>
       \/ /\ ~ pausing                                                 \* 409
          /\ ~ (row.upload # NoUpload /\ row.status = "uploading")
          /\ Retry("authorize")
          /\ UNCHANGED bounds
       \/ ~ pausing /\ Fault /\ Retry("authorize")
    /\ UNCHANGED <<sqlite, registry, storage, network, confirmedAtList>>

Stores(u, p) ==
    received' = IF uploadState[u] = "open"
                THEN [received EXCEPT ![u] = @ \cup {p}] ELSE received

(* A request Courier no longer waits for took effect, will later, or never does. *)
PutIsAbandoned ==
    \/ Stores(url, part) /\ UNCHANGED latePuts
    \/ UNCHANGED received /\ latePuts' = latePuts \cup {<<url, part>>}
    \/ UNCHANGED <<received, latePuts>>

(* A PUT that failed is authorized and sent again. *)
PutCountsAsAccepted == Goto("confirm")   \* mutant
PutFails == Retry("authorize")

(* upload_part: the PUT to the presigned URL.  A pause ends it at once, even if storage
   has answered.                                                                       *)
upload_part ==
    /\ pc = "put"
    /\ \/ /\ ~ pausing
          /\ uploadState[url] = "open"
          /\ Stores(url, part)
          /\ Goto("confirm")
          /\ UNCHANGED <<latePuts, bounds>>
       \/ /\ ~ pausing
          /\ uploadState[url] # "open"          \* 404: UploadNotFound is not retried
          /\ Goto("interrupted")
          /\ UNCHANGED <<received, latePuts, bounds>>
       \/ /\ ~ pausing
          /\ Fault
          /\ PutIsAbandoned
          /\ PutFails
       \/ /\ pausing
          /\ PutIsAbandoned
          /\ Goto("paused")
          /\ UNCHANGED bounds
    /\ UNCHANGED <<sqlite, registry, uploadState, object, lateComplete, confirmedAtList>>

confirm_part ==
    /\ pc = "confirm"
    /\ local' = local \cup {part}
    /\ Goto("parts")
    /\ UNCHANGED <<standalone, session, marked, registry, storage, network, confirmedAtList, bounds>>

(* The head of complete_uploaded_file. *)
complete_uploaded_file ==
    /\ pc = "head"
    /\ \/ /\ ~ session \/ (~ object_exists /\ Missing # {})   \* MissingUploadSession, IncompleteParts
          /\ Goto("interrupted")
          /\ UNCHANGED bounds
       \/ session /\ object_exists /\ Goto("mark") /\ UNCHANGED bounds
       \/ session /\ ~ object_exists /\ Missing = {} /\ Enter("complete") /\ UNCHANGED bounds
       \/ session /\ Fault /\ Goto("interrupted")
    /\ UNCHANGED <<sqlite, registry, storage, network, confirmedAtList>>

(* Storage assembles an open upload if it has every part the request names. *)
CanAssemble(parts) ==
    /\ row.upload # NoUpload
    /\ uploadState[row.upload] = "open"
    /\ parts \subseteq received[row.upload]

Assemble(parts) ==
    /\ object' = parts
    /\ uploadState' = [uploadState EXCEPT ![row.upload] = "closed"]
    /\ completing' = TRUE

(* complete_multipart up to its commit. *)
complete_multipart ==
    /\ pc = "complete"
    /\ \/ /\ row.status = "uploaded"
          /\ Goto("mark")
          /\ UNCHANGED <<completing, uploadState, object, lateComplete, bounds>>
       \/ /\ row.status # "uploaded"
          /\ CanAssemble(local)
          /\ Assemble(local)
          /\ Goto("completeWait")
          /\ UNCHANGED <<lateComplete, bounds>>
       \/ /\ row.status # "uploaded"
          /\ ~ CanAssemble(local)
          /\ Goto("recheck")
          /\ UNCHANGED <<completing, uploadState, object, lateComplete, bounds>>
       \/ /\ Fault
          /\ lateComplete' \in {lateComplete, TRUE}
          /\ Goto("recheck")
          /\ UNCHANGED <<completing, uploadState, object>>
    /\ UNCHANGED <<sqlite, row, finalized, initiating, received, latePuts, confirmedAtList>>

(* The handler's commit: the parts' rows and the object's.  Rows of the parts of an earlier
   completion would break the uniqueness of their numbers and fail it.                     *)
complete_multipart_commit ==
    /\ completing
    /\ completing' = FALSE
    /\ row' = IF row.parts THEN row ELSE [row EXCEPT !.status = "uploaded", !.parts = TRUE]
    /\ IF pc = "completeWait"
       THEN Goto(IF row.parts THEN "recheck" ELSE "mark") ELSE UNCHANGED task
    /\ UNCHANGED <<sqlite, finalized, initiating, storage, network, confirmedAtList, bounds>>

GiveUpComplete ==
    /\ pc = "completeWait"
    /\ Fault
    /\ Goto("recheck")
    /\ UNCHANGED <<sqlite, registry, storage, network, confirmedAtList>>

(* After a failed completion request: is the object there after all? *)
recheck_object_exists ==
    /\ pc = "recheck"
    /\ \/ object_exists /\ Goto("mark") /\ UNCHANGED bounds
       \/ ~ object_exists /\ Retry("complete") /\ UNCHANGED bounds
       \/ Fault /\ Goto("interrupted")
    /\ UNCHANGED <<sqlite, registry, storage, network, confirmedAtList>>

mark_file_uploaded ==
    /\ pc = "mark"
    /\ marked' = TRUE
    /\ Goto("finalize")
    /\ UNCHANGED <<standalone, session, local, registry, storage, network, confirmedAtList, bounds>>

(* finalize_transfer (for a transfer of this one object) and its idempotent repetition. *)
finalize_transfer ==
    /\ pc = "finalize"
    /\ \/ /\ finalized \/ row.status = "uploaded"
          /\ finalized' = TRUE
          /\ Goto("done")
          /\ UNCHANGED bounds
       \/ /\ ~ finalized /\ row.status # "uploaded"      \* 409
          /\ Goto("interrupted")
          /\ UNCHANGED <<finalized, bounds>>
       \/ /\ Fault
          /\ finalized' \in {finalized, finalized \/ row.status = "uploaded"}
          /\ Goto("interrupted")
    /\ UNCHANGED <<sqlite, row, initiating, completing, storage, network, confirmedAtList>>

-----------------------------------------------------------------------------
(* What happens without Courier *)

LatePutArrives ==
    /\ \E late \in latePuts : Stores(late[1], late[2]) /\ latePuts' = latePuts \ {late}
    /\ UNCHANGED <<task, sqlite, registry, uploadState, object, lateComplete, confirmedAtList, bounds>>

(* A completion request is only ever sent with every part of the plan. *)
LateCompleteArrives ==
    /\ lateComplete
    /\ lateComplete' = FALSE
    /\ IF row.status # "uploaded" /\ CanAssemble(Parts)
       THEN Assemble(Parts) ELSE UNCHANGED <<object, uploadState, completing>>
    /\ UNCHANGED <<task, sqlite, row, finalized, initiating, received, latePuts, confirmedAtList, bounds>>

(* Courier is closed or dies.  SQLite keeps what was committed, and the next start
   resumes; a request on its way may still arrive.                                *)
ClientCrash ==
    /\ pc \in Running
    /\ clientCrashes < MaxClientCrashes
    /\ clientCrashes' = clientCrashes + 1
    /\ pc' = "interrupted"
    /\ attempt' = 0 /\ waiting' = NoUpload /\ pausing' = FALSE
    /\ IF pc = "put" THEN PutIsAbandoned ELSE UNCHANGED <<received, latePuts>>
    /\ lateComplete' \in (IF pc = "complete" THEN {lateComplete, TRUE} ELSE {lateComplete})
    /\ UNCHANGED <<part, url, sqlite, registry, uploadState, object, confirmedAtList,
                   faults, registryCrashes, pauses>>

(* The Registry dies: handlers in progress never commit, what they did in the store stays. *)
RegistryCrash ==
    /\ initiating # {} \/ completing
    /\ registryCrashes < MaxRegistryCrashes
    /\ registryCrashes' = registryCrashes + 1
    /\ initiating' = {}
    /\ completing' = FALSE
    /\ IF pc = "beginWait" /\ waiting \in initiating THEN Retry("reconcile")
       ELSE IF pc = "completeWait" THEN Goto("recheck")
       ELSE UNCHANGED task
    /\ UNCHANGED <<sqlite, row, finalized, storage, network, confirmedAtList,
                   faults, clientCrashes, pauses>>

-----------------------------------------------------------------------------
ClientStep ==
    \/ run_upload \/ check_object_exists \/ reconcile_file \/ initiate_multipart
    \/ list_multipart_parts \/ next_part \/ authorize_part \/ upload_part \/ confirm_part
    \/ complete_uploaded_file \/ complete_multipart \/ recheck_object_exists
    \/ mark_file_uploaded \/ finalize_transfer

HandlerStep == complete_multipart_commit \/ \E u \in Uploads : initiate_multipart_commit(u)

Next ==
    \/ ClientStep
    \/ HandlerStep
    \/ GiveUpBegin \/ GiveUpComplete
    \/ pause_upload
    \/ LatePutArrives \/ LateCompleteArrives
    \/ ClientCrash \/ RegistryCrash

Spec == Init /\ [][Next]_vars

(* Courier runs and its user resumes it when it stops; handlers that are not killed end. *)
FairSpec == Spec /\ WF_vars(ClientStep) /\ WF_vars(HandlerStep)

-----------------------------------------------------------------------------
(* Properties *)

(* Every variable stays in its domain; no loop is entered for more than MaxAttempts. *)
TypeOK ==
    /\ pc \in Stopped \cup Running
    /\ attempt \in 0..(MaxAttempts - 1)
    /\ part \in Parts
    /\ url \in Uploads \cup {NoUpload}
    /\ waiting \in Uploads \cup {NoUpload}
    /\ pausing \in BOOLEAN
    /\ standalone \in BOOLEAN /\ session \in BOOLEAN /\ local \in SUBSET Parts /\ marked \in BOOLEAN
    /\ row \in [status : {"pending", "uploading", "uploaded"}, upload : Uploads \cup {NoUpload},
                parts : BOOLEAN]
    /\ finalized \in BOOLEAN /\ initiating \in SUBSET Uploads /\ completing \in BOOLEAN
    /\ uploadState \in [Uploads -> {"none", "open", "closed"}]
    /\ received \in [Uploads -> SUBSET Parts]
    /\ object \in SUBSET Parts
    /\ latePuts \in SUBSET (Uploads \X Parts) /\ lateComplete \in BOOLEAN
    /\ confirmedAtList \in SUBSET Parts
    /\ faults \in Nat /\ clientCrashes \in Nat /\ registryCrashes \in Nat /\ pauses \in Nat

(* Whoever believes the object is uploaded is right: when SQLite marks its files uploaded,
   when the Registry's row says "uploaded", and when the transfer is finalized, the store
   holds the object, assembled from every part of the plan.  A finished object is never
   short of a part.                                                                       *)
UploadedMeansStored ==
    /\ object # {} => object = Parts
    /\ marked \/ finalized \/ row.status = "uploaded" => object = Parts

(* "transactional ETag persistence only after storage acceptance": SQLite never records a
   part as complete that storage has not accepted in some upload of this object.          *)
ConfirmedPartsWereAccepted ==
    local \subseteq UNION {received[u] : u \in Uploads}

(* "Uploads only parts the object store has not already confirmed": a part is not sent
   that the upload already held when Courier reconciled.                                *)
OnlyMissingPartsSent == pc = "put" => part \notin confirmedAtList

(* The two ways a stored object misses its record in the Registry's row.  The commit that was
   to record it is lost; or it came, and the commit of a late initiate_multipart, whose
   request Courier had given up, set the row back to "uploading" after it.                    *)
CommitLost == object # {} /\ ~ row.parts /\ ~ completing
RowReset   == row.parts /\ row.status # "uploaded"

(* Remote-authoritative reconciliation repairs whatever crashes and lost requests left
   behind: if Courier is resumed, the object gets stored.                              *)
ObjectIsEventuallyStored == <>(object = Parts)

(* ... and the transfer finalized, unless the one commit that records the object was lost or
   its record was taken back: finalize_transfer is then refused for ever.                   *)
FinalizedUnlessLostOrReset == <>(finalized \/ CommitLost \/ RowReset)

(* "If the completion request fails after S3 accepted it, a HEAD check recognizes the
   finalized object and avoids restarting or duplicating the upload": the upload goes on
   to finalization.                                                                       *)
EventuallyFinalized == <>finalized
=============================================================================
