------------------------ MODULE MultipartUploadProofs ------------------------
(***************************************************************************)
(* Proofs about MultipartUpload, for any number of parts, attempts,        *)
(* uploads, lost requests, crashes and pauses, and any page size.          *)
(*                                                                         *)
(* UploadedMeansStored is not inductive: an object is assembled from the   *)
(* parts SQLite holds complete when the request is made, marked when the   *)
(* place in the code is reached, and recorded when a handler ends that may *)
(* have lost its caller.  IInv says what is true at each of these places.  *)
(***************************************************************************)
EXTENDS MultipartUpload, FiniteSetTheorems, TLAPS

Whole == object = Parts

(* The plan is all there whenever completion may be asked for ... *)
CompletesWholePlan == pc \in {"complete", "completeWait", "recheck"} => local = Parts

(* ... so the store has nothing or everything, and whoever is on the way to record the
   object, or has recorded it, found it there.                                        *)
RecordsWhatIsStored ==
    /\ object = {} \/ Whole
    /\ completing \/ pc = "mark" => Whole
    /\ row.status = "uploaded" \/ marked \/ finalized => Whole

(* An accepted part that is about to be confirmed is in its upload; URLs name an upload. *)
ConfirmsWhatWasAccepted ==
    /\ pc = "put" => url \in Uploads
    /\ pc = "confirm" => \E u \in Uploads : part \in received[u]
    /\ \A p \in local : \E u \in Uploads : p \in received[u]

IInv == TypeOK /\ CompletesWholePlan /\ RecordsWhatIsStored /\ ConfirmsWhatWasAccepted

-----------------------------------------------------------------------------
LEMMA PartsAreSomething == Parts # {} /\ 1 \in Parts /\ NoUpload \notin Uploads
  BY MultipartAssumption DEF Parts, Uploads, NoUpload

LEMMA PageIsListed == \A parts : Page(parts) \subseteq parts
  BY DEF Page

(* How a task moves: along, into a loop, or back to the top of one. *)
LEMMA TaskTypes ==
  ASSUME TypeOK
  PROVE  /\ \A next \in Stopped \cup Running : Goto(next) \/ Enter(next) \/ Retry(next) =>
              /\ pc' \in {next, "interrupted"} /\ pc' \in Stopped \cup Running
              /\ attempt' \in 0..(MaxAttempts - 1)
              /\ waiting' \in Uploads \cup {NoUpload}
              /\ UNCHANGED <<part, url, pausing>>
         /\ Fault => faults' \in Nat /\ UNCHANGED <<clientCrashes, registryCrashes, pauses>>
<1>1. ASSUME NEW next \in Stopped \cup Running, Goto(next) \/ Enter(next)
      PROVE  /\ pc' = next /\ attempt' \in 0..(MaxAttempts - 1)
             /\ waiting' = waiting /\ UNCHANGED <<part, url, pausing>>
  BY <1>1, MultipartAssumption DEF Goto, Enter, TypeOK
<1>2. ASSUME NEW next \in Stopped \cup Running, Retry(next)
      PROVE  /\ pc' \in {next, "interrupted"} /\ attempt' \in 0..(MaxAttempts - 1)
             /\ waiting' = NoUpload /\ UNCHANGED <<part, url, pausing>>
  BY <1>2, MultipartAssumption DEF Retry, TypeOK
<1>3. "interrupted" \in Stopped
  BY DEF Stopped
<1>4. waiting \in Uploads \cup {NoUpload}
  BY DEF TypeOK
<1>5. Fault => faults' \in Nat /\ UNCHANGED <<clientCrashes, registryCrashes, pauses>>
  BY DEF Fault, TypeOK
<1> QED
  BY <1>1, <1>2, <1>3, <1>4, <1>5

(* What storage has received only grows. *)
LEMMA StoresTypes ==
  ASSUME TypeOK, NEW u \in Uploads, NEW p \in Parts, Stores(u, p)
  PROVE  /\ received' \in [Uploads -> SUBSET Parts]
         /\ \A v \in Uploads : received[v] \subseteq received'[v]
  BY DEF TypeOK, Stores

LEMMA AbandonedTypes ==
  ASSUME TypeOK, url \in Uploads, PutIsAbandoned
  PROVE  /\ received' \in [Uploads -> SUBSET Parts]
         /\ \A v \in Uploads : received[v] \subseteq received'[v]
         /\ latePuts' \in SUBSET (Uploads \X Parts)
<1>1. part \in Parts
  BY DEF TypeOK
<1> QED
  BY <1>1, StoresTypes DEF TypeOK, PutIsAbandoned
-----------------------------------------------------------------------------
(* Every action keeps the invariant. *)

LEMMA run_upload_preserves ==
  ASSUME IInv, run_upload
  PROVE  IInv'
<1> USE DEF run_upload, task, sqlite, registry, storage, network, bounds
<1>1. TypeOK /\ CompletesWholePlan /\ RecordsWhatIsStored /\ ConfirmsWhatWasAccepted
  BY DEF IInv
<1>2. TypeOK'
  <2>1. pc' \in Stopped \cup Running
    BY DEF Stopped, Running
  <2>2. pausing' = FALSE /\ attempt' = 0
    OBVIOUS
  <2>3. UNCHANGED <<part, url, waiting, sqlite, registry, storage, network, confirmedAtList, bounds>>
    OBVIOUS
  <2> HIDE DEF run_upload
  <2>4. attempt' \in 0..(MaxAttempts - 1)
    BY <2>2, MultipartAssumption
  <2>5. pausing' \in BOOLEAN
    BY <2>2
  <2> QED
    BY <1>1, <2>1, <2>3, <2>4, <2>5 DEF TypeOK
<1>3. CompletesWholePlan'
  BY <1>1 DEF CompletesWholePlan, Goto, Enter, Retry, TypeOK
<1>4. RecordsWhatIsStored'
  BY <1>1, PartsAreSomething DEF RecordsWhatIsStored, CompletesWholePlan, Whole, Goto, Enter, Retry, TypeOK
<1>5. ConfirmsWhatWasAccepted'
  BY <1>1 DEF ConfirmsWhatWasAccepted, TypeOK, Goto, Enter, Retry
<1> QED
  BY <1>2, <1>3, <1>4, <1>5 DEF IInv

LEMMA pause_upload_preserves ==
  ASSUME IInv, pause_upload
  PROVE  IInv'
<1> USE DEF pause_upload, task, sqlite, registry, storage, network, bounds
<1>1. TypeOK /\ CompletesWholePlan /\ RecordsWhatIsStored /\ ConfirmsWhatWasAccepted
  BY DEF IInv
<1>2. TypeOK'
  BY <1>1, MultipartAssumption DEF TypeOK, Goto, Enter, Retry, Stopped, Running, Fault
<1>3. CompletesWholePlan'
  BY <1>1 DEF CompletesWholePlan, Goto, Enter, Retry, TypeOK
<1>4. RecordsWhatIsStored'
  BY <1>1, PartsAreSomething DEF RecordsWhatIsStored, CompletesWholePlan, Whole, Goto, Enter, Retry, TypeOK
<1>5. ConfirmsWhatWasAccepted'
  BY <1>1 DEF ConfirmsWhatWasAccepted, TypeOK, Goto, Enter, Retry
<1> QED
  BY <1>2, <1>3, <1>4, <1>5 DEF IInv

LEMMA check_object_exists_preserves ==
  ASSUME IInv, check_object_exists
  PROVE  IInv'
<1> USE DEF check_object_exists, object_exists, task, sqlite, registry, storage, network, bounds
<1>1. TypeOK /\ CompletesWholePlan /\ RecordsWhatIsStored /\ ConfirmsWhatWasAccepted
  BY DEF IInv
<1>2. TypeOK'
  BY <1>1, MultipartAssumption DEF TypeOK, Goto, Enter, Retry, Stopped, Running, Fault
<1>3. CompletesWholePlan'
  BY <1>1 DEF CompletesWholePlan, Goto, Enter, Retry, TypeOK
<1>4. RecordsWhatIsStored'
  BY <1>1, PartsAreSomething DEF RecordsWhatIsStored, CompletesWholePlan, Whole, Goto, Enter, Retry, TypeOK
<1>5. ConfirmsWhatWasAccepted'
  BY <1>1 DEF ConfirmsWhatWasAccepted, TypeOK, Goto, Enter, Retry
<1> QED
  BY <1>2, <1>3, <1>4, <1>5 DEF IInv

LEMMA reconcile_file_preserves ==
  ASSUME IInv, reconcile_file
  PROVE  IInv'
<1> USE DEF reconcile_file, task, sqlite, registry, storage, network, bounds
<1>1. TypeOK /\ CompletesWholePlan /\ RecordsWhatIsStored /\ ConfirmsWhatWasAccepted
  BY DEF IInv
<1>2. TypeOK'
  BY <1>1, MultipartAssumption DEF TypeOK, Goto, Enter, Retry, Stopped, Running, Fault
<1>3. CompletesWholePlan'
  BY <1>1 DEF CompletesWholePlan, Goto, Enter, Retry, TypeOK
<1>4. RecordsWhatIsStored'
  BY <1>1, PartsAreSomething DEF RecordsWhatIsStored, CompletesWholePlan, Whole, Goto, Enter, Retry, TypeOK
<1>5. ConfirmsWhatWasAccepted'
  BY <1>1 DEF ConfirmsWhatWasAccepted, TypeOK, Goto, Enter, Retry
<1> QED
  BY <1>2, <1>3, <1>4, <1>5 DEF IInv

LEMMA initiate_multipart_preserves ==
  ASSUME IInv, initiate_multipart
  PROVE  IInv'
<1> USE DEF initiate_multipart, task, sqlite, registry, storage, network, bounds
<1>1. TypeOK /\ CompletesWholePlan /\ RecordsWhatIsStored /\ ConfirmsWhatWasAccepted
  BY DEF IInv
<1>2. TypeOK'
  <2>1. /\ pc' \in Stopped \cup Running /\ attempt' \in 0..(MaxAttempts - 1)
        /\ waiting' \in Uploads \cup {NoUpload} /\ UNCHANGED <<part, url, pausing>>
    BY <1>1, MultipartAssumption DEF TypeOK, Goto, Retry, Stopped, Running
  <2>2. session' \in BOOLEAN
    <3>1. session' = TRUE \/ session' = session
      OBVIOUS
    <3> QED
      BY <1>1, <3>1 DEF TypeOK
  <2>3. initiating' \in SUBSET Uploads /\ uploadState' \in [Uploads -> {"none", "open", "closed"}]
    BY <1>1 DEF TypeOK
  <2>4. /\ faults' \in Nat
        /\ UNCHANGED <<standalone, local, marked, row, finalized, completing, received, object, network,
                       confirmedAtList, clientCrashes, registryCrashes, pauses>>
    BY <1>1 DEF TypeOK, Fault
  <2> HIDE DEF initiate_multipart
  <2> QED
    BY <1>1, <2>1, <2>2, <2>3, <2>4 DEF TypeOK
<1>3. CompletesWholePlan'
  BY <1>1 DEF CompletesWholePlan, Goto, Enter, Retry, TypeOK
<1>4. RecordsWhatIsStored'
  BY <1>1, PartsAreSomething DEF RecordsWhatIsStored, CompletesWholePlan, Whole, Goto, Enter, Retry, TypeOK
<1>5. ConfirmsWhatWasAccepted'
  BY <1>1 DEF ConfirmsWhatWasAccepted, TypeOK, Goto, Enter, Retry
<1> QED
  BY <1>2, <1>3, <1>4, <1>5 DEF IInv

LEMMA GiveUpBegin_preserves ==
  ASSUME IInv, GiveUpBegin
  PROVE  IInv'
<1> USE DEF GiveUpBegin, task, sqlite, registry, storage, network, bounds
<1>1. TypeOK /\ CompletesWholePlan /\ RecordsWhatIsStored /\ ConfirmsWhatWasAccepted
  BY DEF IInv
<1>2. TypeOK'
  BY <1>1, MultipartAssumption DEF TypeOK, Goto, Enter, Retry, Stopped, Running, Fault
<1>3. CompletesWholePlan'
  BY <1>1 DEF CompletesWholePlan, Goto, Enter, Retry, TypeOK
<1>4. RecordsWhatIsStored'
  BY <1>1, PartsAreSomething DEF RecordsWhatIsStored, CompletesWholePlan, Whole, Goto, Enter, Retry, TypeOK
<1>5. ConfirmsWhatWasAccepted'
  BY <1>1 DEF ConfirmsWhatWasAccepted, TypeOK, Goto, Enter, Retry
<1> QED
  BY <1>2, <1>3, <1>4, <1>5 DEF IInv

LEMMA list_multipart_parts_preserves ==
  ASSUME IInv, list_multipart_parts
  PROVE  IInv'
<1> USE DEF list_multipart_parts, reconcile_remote_parts, task, sqlite, registry, storage, network, bounds
<1>1. TypeOK /\ CompletesWholePlan /\ RecordsWhatIsStored /\ ConfirmsWhatWasAccepted
  BY DEF IInv
<1>2. TypeOK'
  BY <1>1, MultipartAssumption, PageIsListed DEF TypeOK, Goto, Enter, Retry, Stopped, Running, Fault
<1>3. CompletesWholePlan'
  BY <1>1 DEF CompletesWholePlan, Goto, Enter, Retry, TypeOK
<1>4. RecordsWhatIsStored'
  BY <1>1, PartsAreSomething DEF RecordsWhatIsStored, CompletesWholePlan, Whole, Goto, Enter, Retry, TypeOK
<1>5. ConfirmsWhatWasAccepted'
  BY <1>1, PageIsListed DEF ConfirmsWhatWasAccepted, TypeOK, Goto, Enter, Retry
<1> QED
  BY <1>2, <1>3, <1>4, <1>5 DEF IInv

LEMMA next_part_preserves ==
  ASSUME IInv, next_part
  PROVE  IInv'
<1> USE DEF next_part, Missing, task, sqlite, registry, storage, network, bounds
<1>1. TypeOK /\ CompletesWholePlan /\ RecordsWhatIsStored /\ ConfirmsWhatWasAccepted
  BY DEF IInv
<1>2. TypeOK'
  BY <1>1, MultipartAssumption DEF TypeOK, Goto, Enter, Retry, Stopped, Running, Fault
<1>3. CompletesWholePlan'
  BY <1>1 DEF CompletesWholePlan, Goto, Enter, Retry, TypeOK
<1>4. RecordsWhatIsStored'
  BY <1>1, PartsAreSomething DEF RecordsWhatIsStored, CompletesWholePlan, Whole, Goto, Enter, Retry, TypeOK
<1>5. ConfirmsWhatWasAccepted'
  BY <1>1 DEF ConfirmsWhatWasAccepted, TypeOK, Goto, Enter, Retry
<1> QED
  BY <1>2, <1>3, <1>4, <1>5 DEF IInv

LEMMA authorize_part_preserves ==
  ASSUME IInv, authorize_part
  PROVE  IInv'
<1> USE DEF authorize_part, task, sqlite, registry, storage, network, bounds
<1>1. TypeOK /\ CompletesWholePlan /\ RecordsWhatIsStored /\ ConfirmsWhatWasAccepted
  BY DEF IInv
<1>2. TypeOK'
  BY <1>1, MultipartAssumption DEF TypeOK, Goto, Enter, Retry, Stopped, Running, Fault
<1>3. CompletesWholePlan'
  BY <1>1 DEF CompletesWholePlan, Goto, Enter, Retry, TypeOK
<1>4. RecordsWhatIsStored'
  BY <1>1, PartsAreSomething DEF RecordsWhatIsStored, CompletesWholePlan, Whole, Goto, Enter, Retry, TypeOK
<1>5. ConfirmsWhatWasAccepted'
  BY <1>1 DEF ConfirmsWhatWasAccepted, TypeOK, Goto, Enter, Retry
<1> QED
  BY <1>2, <1>3, <1>4, <1>5 DEF IInv

LEMMA upload_part_preserves ==
  ASSUME IInv, upload_part
  PROVE  IInv'
<1> USE DEF upload_part, PutFails, task, sqlite, registry, storage, network, bounds
<1>1. TypeOK /\ CompletesWholePlan /\ RecordsWhatIsStored /\ ConfirmsWhatWasAccepted
  BY DEF IInv
<1>2. TypeOK'
  BY <1>1, MultipartAssumption, StoresTypes, AbandonedTypes DEF TypeOK, Goto, Enter, Retry, Stopped, Running, ConfirmsWhatWasAccepted, Fault
<1>3. CompletesWholePlan'
  BY <1>1 DEF CompletesWholePlan, Goto, Enter, Retry, TypeOK
<1>4. RecordsWhatIsStored'
  BY <1>1, PartsAreSomething DEF RecordsWhatIsStored, CompletesWholePlan, Whole, Goto, Enter, Retry, TypeOK
<1>5. ConfirmsWhatWasAccepted'
  <2>1. url \in Uploads /\ part \in Parts /\ local' = local
    BY <1>1 DEF ConfirmsWhatWasAccepted, TypeOK
  <2>2. \A v \in Uploads : received[v] \subseteq received'[v]
    BY <1>1, <2>1, StoresTypes, AbandonedTypes
  <2>3. ASSUME pc' = "confirm" PROVE part' = part /\ part \in received'[url]
    BY <1>1, <2>1, <2>3 DEF Goto, Retry, Stores, TypeOK
  <2>4. pc' # "put"
    BY DEF Goto, Retry
  <2> QED
    BY <1>1, <2>1, <2>2, <2>3, <2>4 DEF ConfirmsWhatWasAccepted
<1> QED
  BY <1>2, <1>3, <1>4, <1>5 DEF IInv

LEMMA confirm_part_preserves ==
  ASSUME IInv, confirm_part
  PROVE  IInv'
<1> USE DEF confirm_part, task, sqlite, registry, storage, network, bounds
<1>1. TypeOK /\ CompletesWholePlan /\ RecordsWhatIsStored /\ ConfirmsWhatWasAccepted
  BY DEF IInv
<1>2. TypeOK'
  BY <1>1, MultipartAssumption DEF TypeOK, Goto, Enter, Retry, Stopped, Running, Fault
<1>3. CompletesWholePlan'
  BY <1>1 DEF CompletesWholePlan, Goto, Enter, Retry, TypeOK
<1>4. RecordsWhatIsStored'
  BY <1>1, PartsAreSomething DEF RecordsWhatIsStored, CompletesWholePlan, Whole, Goto, Enter, Retry, TypeOK
<1>5. ConfirmsWhatWasAccepted'
  BY <1>1 DEF ConfirmsWhatWasAccepted, TypeOK, Goto, Enter, Retry
<1> QED
  BY <1>2, <1>3, <1>4, <1>5 DEF IInv

LEMMA complete_uploaded_file_preserves ==
  ASSUME IInv, complete_uploaded_file
  PROVE  IInv'
<1> USE DEF complete_uploaded_file, object_exists, Missing, task, sqlite, registry, storage, network, bounds
<1>1. TypeOK /\ CompletesWholePlan /\ RecordsWhatIsStored /\ ConfirmsWhatWasAccepted
  BY DEF IInv
<1>2. TypeOK'
  BY <1>1, MultipartAssumption DEF TypeOK, Goto, Enter, Retry, Stopped, Running, Fault
<1>3. CompletesWholePlan'
  BY <1>1 DEF CompletesWholePlan, Goto, Enter, Retry, TypeOK
<1>4. RecordsWhatIsStored'
  BY <1>1, PartsAreSomething DEF RecordsWhatIsStored, CompletesWholePlan, Whole, Goto, Enter, Retry, TypeOK
<1>5. ConfirmsWhatWasAccepted'
  BY <1>1 DEF ConfirmsWhatWasAccepted, TypeOK, Goto, Enter, Retry
<1> QED
  BY <1>2, <1>3, <1>4, <1>5 DEF IInv

LEMMA complete_multipart_preserves ==
  ASSUME IInv, complete_multipart
  PROVE  IInv'
<1> USE DEF complete_multipart, CanAssemble, Assemble, task, sqlite, registry, storage, network, bounds
<1>1. TypeOK /\ CompletesWholePlan /\ RecordsWhatIsStored /\ ConfirmsWhatWasAccepted
  BY DEF IInv
<1>2. TypeOK'
  <2>1. /\ pc' \in Stopped \cup Running
        /\ UNCHANGED <<attempt, part, url, waiting, pausing>>
    BY DEF Goto, Running
  <2>2. completing' \in BOOLEAN /\ lateComplete' \in BOOLEAN
    <3>1. /\ completing' = TRUE \/ completing' = completing
          /\ lateComplete' = TRUE \/ lateComplete' = lateComplete
      OBVIOUS
    <3> QED
      BY <1>1, <3>1, Zenon DEF TypeOK
  <2>3. /\ uploadState' \in [Uploads -> {"none", "open", "closed"}]
        /\ object' \in SUBSET Parts /\ faults' \in Nat
    BY <1>1, TaskTypes DEF TypeOK
  <2>4. UNCHANGED <<sqlite, row, finalized, initiating, received, latePuts, confirmedAtList,
                    clientCrashes, registryCrashes, pauses>>
    BY DEF Fault
  <2> HIDE DEF complete_multipart
  <2> QED
    BY <1>1, <2>1, <2>2, <2>3, <2>4 DEF TypeOK
<1>3. CompletesWholePlan'
  BY <1>1 DEF CompletesWholePlan, Goto, Enter, Retry, TypeOK
<1>4. RecordsWhatIsStored'
  <2>1. UNCHANGED <<row, marked, finalized>>
    OBVIOUS
  <2>2. CASE row.status = "uploaded" /\ pc' = "mark" /\ UNCHANGED <<completing, object>>
    BY <1>1, <2>1, <2>2 DEF RecordsWhatIsStored, Whole
  <2>3. CASE object' = local /\ pc' = "completeWait"
    BY <1>1, <2>1, <2>3 DEF RecordsWhatIsStored, CompletesWholePlan, Whole
  <2>4. CASE pc' = "recheck" /\ UNCHANGED <<completing, object>>
    BY <1>1, <2>1, <2>4 DEF RecordsWhatIsStored, Whole
  <2> QED
    BY <2>2, <2>3, <2>4 DEF Goto
<1>5. ConfirmsWhatWasAccepted'
  BY <1>1 DEF ConfirmsWhatWasAccepted, TypeOK, Goto, Enter, Retry
<1> QED
  BY <1>2, <1>3, <1>4, <1>5 DEF IInv

LEMMA complete_multipart_commit_preserves ==
  ASSUME IInv, complete_multipart_commit
  PROVE  IInv'
<1> USE DEF complete_multipart_commit, task, sqlite, registry, storage, network, bounds
<1>1. TypeOK /\ CompletesWholePlan /\ RecordsWhatIsStored /\ ConfirmsWhatWasAccepted
  BY DEF IInv
<1>2. TypeOK'
  <2>1. /\ pc' \in Stopped \cup Running
        /\ UNCHANGED <<attempt, part, url, waiting, pausing>>
    BY <1>1 DEF TypeOK, Goto, Running
  <2>2. row' \in [status : {"pending", "uploading", "uploaded"}, upload : Uploads \cup {NoUpload},
                parts : BOOLEAN]
    BY <1>1 DEF TypeOK
  <2>3. /\ completing' \in BOOLEAN
        /\ UNCHANGED <<sqlite, finalized, initiating, storage, network, confirmedAtList, bounds>>
    OBVIOUS
  <2> HIDE DEF complete_multipart_commit
  <2> QED
    BY <1>1, <2>1, <2>2, <2>3 DEF TypeOK
<1>3. CompletesWholePlan'
  BY <1>1 DEF CompletesWholePlan, Goto, Enter, Retry, TypeOK
<1>4. RecordsWhatIsStored'
  BY <1>1, PartsAreSomething DEF RecordsWhatIsStored, CompletesWholePlan, Whole, Goto, Enter, Retry, TypeOK
<1>5. ConfirmsWhatWasAccepted'
  BY <1>1 DEF ConfirmsWhatWasAccepted, TypeOK, Goto, Enter, Retry
<1> QED
  BY <1>2, <1>3, <1>4, <1>5 DEF IInv

LEMMA GiveUpComplete_preserves ==
  ASSUME IInv, GiveUpComplete
  PROVE  IInv'
<1> USE DEF GiveUpComplete, task, sqlite, registry, storage, network, bounds
<1>1. TypeOK /\ CompletesWholePlan /\ RecordsWhatIsStored /\ ConfirmsWhatWasAccepted
  BY DEF IInv
<1>2. TypeOK'
  BY <1>1, MultipartAssumption DEF TypeOK, Goto, Enter, Retry, Stopped, Running, Fault
<1>3. CompletesWholePlan'
  BY <1>1 DEF CompletesWholePlan, Goto, Enter, Retry, TypeOK
<1>4. RecordsWhatIsStored'
  BY <1>1, PartsAreSomething DEF RecordsWhatIsStored, CompletesWholePlan, Whole, Goto, Enter, Retry, TypeOK
<1>5. ConfirmsWhatWasAccepted'
  BY <1>1 DEF ConfirmsWhatWasAccepted, TypeOK, Goto, Enter, Retry
<1> QED
  BY <1>2, <1>3, <1>4, <1>5 DEF IInv

LEMMA recheck_object_exists_preserves ==
  ASSUME IInv, recheck_object_exists
  PROVE  IInv'
<1> USE DEF recheck_object_exists, object_exists, task, sqlite, registry, storage, network, bounds
<1>1. TypeOK /\ CompletesWholePlan /\ RecordsWhatIsStored /\ ConfirmsWhatWasAccepted
  BY DEF IInv
<1>2. TypeOK'
  BY <1>1, MultipartAssumption DEF TypeOK, Goto, Enter, Retry, Stopped, Running, Fault
<1>3. CompletesWholePlan'
  BY <1>1 DEF CompletesWholePlan, Goto, Enter, Retry, TypeOK
<1>4. RecordsWhatIsStored'
  BY <1>1, PartsAreSomething DEF RecordsWhatIsStored, CompletesWholePlan, Whole, Goto, Enter, Retry, TypeOK
<1>5. ConfirmsWhatWasAccepted'
  BY <1>1 DEF ConfirmsWhatWasAccepted, TypeOK, Goto, Enter, Retry
<1> QED
  BY <1>2, <1>3, <1>4, <1>5 DEF IInv

LEMMA mark_file_uploaded_preserves ==
  ASSUME IInv, mark_file_uploaded
  PROVE  IInv'
<1> USE DEF mark_file_uploaded, task, sqlite, registry, storage, network, bounds
<1>1. TypeOK /\ CompletesWholePlan /\ RecordsWhatIsStored /\ ConfirmsWhatWasAccepted
  BY DEF IInv
<1>2. TypeOK'
  BY <1>1, MultipartAssumption DEF TypeOK, Goto, Enter, Retry, Stopped, Running, Fault
<1>3. CompletesWholePlan'
  BY <1>1 DEF CompletesWholePlan, Goto, Enter, Retry, TypeOK
<1>4. RecordsWhatIsStored'
  BY <1>1, PartsAreSomething DEF RecordsWhatIsStored, CompletesWholePlan, Whole, Goto, Enter, Retry, TypeOK
<1>5. ConfirmsWhatWasAccepted'
  BY <1>1 DEF ConfirmsWhatWasAccepted, TypeOK, Goto, Enter, Retry
<1> QED
  BY <1>2, <1>3, <1>4, <1>5 DEF IInv

LEMMA finalize_transfer_preserves ==
  ASSUME IInv, finalize_transfer
  PROVE  IInv'
<1> USE DEF finalize_transfer, task, sqlite, registry, storage, network, bounds
<1>1. TypeOK /\ CompletesWholePlan /\ RecordsWhatIsStored /\ ConfirmsWhatWasAccepted
  BY DEF IInv
<1>2. TypeOK'
  <2>1. /\ pc' \in Stopped \cup Running
        /\ UNCHANGED <<attempt, part, url, waiting, pausing>>
    BY DEF Goto, Stopped
  <2>2. finalized' \in BOOLEAN
    BY <1>1, Zenon DEF TypeOK
  <2>3. /\ faults' \in Nat
        /\ UNCHANGED <<sqlite, row, initiating, completing, storage, network, confirmedAtList,
                       clientCrashes, registryCrashes, pauses>>
    BY <1>1, TaskTypes DEF TypeOK
  <2> HIDE DEF finalize_transfer
  <2> QED
    BY <1>1, <2>1, <2>2, <2>3 DEF TypeOK
<1>3. CompletesWholePlan'
  BY <1>1 DEF CompletesWholePlan, Goto, Enter, Retry, TypeOK
<1>4. RecordsWhatIsStored'
  BY <1>1, PartsAreSomething DEF RecordsWhatIsStored, CompletesWholePlan, Whole, Goto, Enter, Retry, TypeOK
<1>5. ConfirmsWhatWasAccepted'
  BY <1>1 DEF ConfirmsWhatWasAccepted, TypeOK, Goto, Enter, Retry
<1> QED
  BY <1>2, <1>3, <1>4, <1>5 DEF IInv

LEMMA LatePutArrives_preserves ==
  ASSUME IInv, LatePutArrives
  PROVE  IInv'
<1> USE DEF LatePutArrives, task, sqlite, registry, storage, network, bounds
<1>1. TypeOK /\ CompletesWholePlan /\ RecordsWhatIsStored /\ ConfirmsWhatWasAccepted
  BY DEF IInv
<1>2. TypeOK'
  BY <1>1, MultipartAssumption, StoresTypes DEF TypeOK, Goto, Enter, Retry, Stopped, Running, ConfirmsWhatWasAccepted, Fault
<1>3. CompletesWholePlan'
  BY <1>1 DEF CompletesWholePlan, Goto, Enter, Retry, TypeOK
<1>4. RecordsWhatIsStored'
  BY <1>1, PartsAreSomething DEF RecordsWhatIsStored, CompletesWholePlan, Whole, Goto, Enter, Retry, TypeOK
<1>5. ConfirmsWhatWasAccepted'
  BY <1>1, StoresTypes DEF ConfirmsWhatWasAccepted, TypeOK, Goto, Enter, Retry
<1> QED
  BY <1>2, <1>3, <1>4, <1>5 DEF IInv

LEMMA LateCompleteArrives_preserves ==
  ASSUME IInv, LateCompleteArrives
  PROVE  IInv'
<1> USE DEF LateCompleteArrives, CanAssemble, Assemble, task, sqlite, registry, storage, network, bounds
<1>1. TypeOK /\ CompletesWholePlan /\ RecordsWhatIsStored /\ ConfirmsWhatWasAccepted
  BY DEF IInv
<1>2. TypeOK'
  <2>1. completing' \in BOOLEAN /\ lateComplete' = FALSE
    <3>1. completing' = TRUE \/ completing' = completing
      OBVIOUS
    <3> QED
      BY <1>1, <3>1 DEF TypeOK
  <2>2. /\ uploadState' \in [Uploads -> {"none", "open", "closed"}]
        /\ object' \in SUBSET Parts
    BY <1>1 DEF TypeOK
  <2>3. UNCHANGED <<task, sqlite, row, finalized, initiating, received, latePuts, confirmedAtList, bounds>>
    OBVIOUS
  <2> HIDE DEF LateCompleteArrives
  <2> QED
    BY <1>1, <2>1, <2>2, <2>3 DEF TypeOK
<1>3. CompletesWholePlan'
  BY <1>1 DEF CompletesWholePlan, Goto, Enter, Retry, TypeOK
<1>4. RecordsWhatIsStored'
  BY <1>1, PartsAreSomething DEF RecordsWhatIsStored, CompletesWholePlan, Whole, Goto, Enter, Retry, TypeOK
<1>5. ConfirmsWhatWasAccepted'
  BY <1>1 DEF ConfirmsWhatWasAccepted, TypeOK, Goto, Enter, Retry
<1> QED
  BY <1>2, <1>3, <1>4, <1>5 DEF IInv

LEMMA ClientCrash_preserves ==
  ASSUME IInv, ClientCrash
  PROVE  IInv'
<1> USE DEF ClientCrash, task, sqlite, registry, storage, network, bounds
<1>1. TypeOK /\ CompletesWholePlan /\ RecordsWhatIsStored /\ ConfirmsWhatWasAccepted
  BY DEF IInv
<1>2. TypeOK'
  <2>1. /\ pc' = "interrupted" /\ attempt' \in 0..(MaxAttempts - 1)
        /\ waiting' = NoUpload /\ pausing' = FALSE
    BY MultipartAssumption
  <2>2. received' \in [Uploads -> SUBSET Parts] /\ latePuts' \in SUBSET (Uploads \X Parts)
    BY <1>1, AbandonedTypes DEF ConfirmsWhatWasAccepted, TypeOK
  <2>3. lateComplete' = TRUE \/ lateComplete' = lateComplete
    OBVIOUS
  <2>4. /\ clientCrashes' \in Nat
        /\ UNCHANGED <<part, url, sqlite, registry, uploadState, object, confirmedAtList,
                       faults, registryCrashes, pauses>>
    BY <1>1 DEF TypeOK
  <2> HIDE DEF ClientCrash
  <2> QED
    BY <1>1, <2>1, <2>2, <2>3, <2>4 DEF TypeOK, Stopped
<1>3. CompletesWholePlan'
  BY <1>1 DEF CompletesWholePlan, Goto, Enter, Retry, TypeOK
<1>4. RecordsWhatIsStored'
  BY <1>1, PartsAreSomething DEF RecordsWhatIsStored, CompletesWholePlan, Whole, Goto, Enter, Retry, TypeOK
<1>5. ConfirmsWhatWasAccepted'
  BY <1>1, StoresTypes, AbandonedTypes DEF ConfirmsWhatWasAccepted, TypeOK, Goto, Enter, Retry
<1> QED
  BY <1>2, <1>3, <1>4, <1>5 DEF IInv

LEMMA RegistryCrash_preserves ==
  ASSUME IInv, RegistryCrash
  PROVE  IInv'
<1> USE DEF RegistryCrash, task, sqlite, registry, storage, network, bounds
<1>1. TypeOK /\ CompletesWholePlan /\ RecordsWhatIsStored /\ ConfirmsWhatWasAccepted
  BY DEF IInv
<1>2. TypeOK'
  <2>1. /\ pc' \in Stopped \cup Running /\ attempt' \in 0..(MaxAttempts - 1)
        /\ waiting' \in Uploads \cup {NoUpload} /\ UNCHANGED <<part, url, pausing>>
    BY <1>1, MultipartAssumption DEF TypeOK, Goto, Retry, Stopped, Running
  <2>2. /\ initiating' = {} /\ completing' = FALSE /\ registryCrashes' \in Nat
        /\ UNCHANGED <<sqlite, row, finalized, storage, network, confirmedAtList,
                       faults, clientCrashes, pauses>>
    BY <1>1 DEF TypeOK
  <2> HIDE DEF RegistryCrash
  <2> QED
    BY <1>1, <2>1, <2>2 DEF TypeOK
<1>3. CompletesWholePlan'
  BY <1>1 DEF CompletesWholePlan, Goto, Enter, Retry, TypeOK
<1>4. RecordsWhatIsStored'
  BY <1>1, PartsAreSomething DEF RecordsWhatIsStored, CompletesWholePlan, Whole, Goto, Enter, Retry, TypeOK
<1>5. ConfirmsWhatWasAccepted'
  BY <1>1 DEF ConfirmsWhatWasAccepted, TypeOK, Goto, Enter, Retry
<1> QED
  BY <1>2, <1>3, <1>4, <1>5 DEF IInv

LEMMA initiate_multipart_commit_preserves ==
  ASSUME IInv, NEW u \in Uploads, initiate_multipart_commit(u)
  PROVE  IInv'
<1> USE DEF initiate_multipart_commit, task, sqlite, registry, storage, network, bounds
<1>1. TypeOK /\ CompletesWholePlan /\ RecordsWhatIsStored /\ ConfirmsWhatWasAccepted
  BY DEF IInv
<1>2. TypeOK'
  <2>1. /\ pc' \in Stopped \cup Running /\ waiting' \in Uploads \cup {NoUpload}
        /\ session' = TRUE \/ session' = session
    BY <1>1 DEF TypeOK, Running
  <2>2. row' \in [status : {"pending", "uploading", "uploaded"}, upload : Uploads \cup {NoUpload},
                parts : BOOLEAN]
    BY <1>1 DEF TypeOK
  <2>3. /\ initiating' \in SUBSET Uploads
        /\ UNCHANGED <<attempt, part, url, pausing, standalone, local, marked, finalized, completing,
                       storage, network, confirmedAtList, bounds>>
    BY <1>1 DEF TypeOK
  <2> HIDE DEF initiate_multipart_commit
  <2> QED
    BY <1>1, <2>1, <2>2, <2>3 DEF TypeOK
<1>3. CompletesWholePlan'
  BY <1>1 DEF CompletesWholePlan, Goto, Enter, Retry, TypeOK
<1>4. RecordsWhatIsStored'
  BY <1>1, PartsAreSomething DEF RecordsWhatIsStored, CompletesWholePlan, Whole, Goto, Enter, Retry, TypeOK
<1>5. ConfirmsWhatWasAccepted'
  BY <1>1 DEF ConfirmsWhatWasAccepted, TypeOK, Goto, Enter, Retry
<1> QED
  BY <1>2, <1>3, <1>4, <1>5 DEF IInv

-----------------------------------------------------------------------------
LEMMA Initially ==
  ASSUME Init
  PROVE  IInv
<1>1. TypeOK
  <2>1. attempt \in 0..(MaxAttempts - 1) /\ part \in Parts
    BY MultipartAssumption DEF Init, Parts
  <2>2. /\ pausing = FALSE /\ standalone \in BOOLEAN /\ session = FALSE /\ marked = FALSE
        /\ finalized = FALSE /\ completing = FALSE /\ lateComplete = FALSE
    BY DEF Init
  <2>3. /\ uploadState \in [Uploads -> {"none", "open", "closed"}]
        /\ received \in [Uploads -> SUBSET Parts]
        /\ row \in [status : {"pending", "uploading", "uploaded"}, upload : Uploads \cup {NoUpload},
                parts : BOOLEAN]
    BY DEF Init
  <2>4. /\ pc = "ready" /\ url = NoUpload /\ waiting = NoUpload
        /\ local = {} /\ initiating = {} /\ object = {} /\ latePuts = {} /\ confirmedAtList = {}
        /\ faults = 0 /\ clientCrashes = 0 /\ registryCrashes = 0 /\ pauses = 0
    BY DEF Init
  <2> QED
    BY <2>1, <2>2, <2>3, <2>4 DEF TypeOK, Stopped
<1>2. CompletesWholePlan /\ ConfirmsWhatWasAccepted
  BY DEF Init, CompletesWholePlan, ConfirmsWhatWasAccepted
<1>3. RecordsWhatIsStored
  BY DEF Init, RecordsWhatIsStored
<1> QED
  BY <1>1, <1>2, <1>3 DEF IInv

LEMMA EveryStep ==
  ASSUME IInv, [Next]_vars
  PROVE  IInv'
<1>1. CASE ClientStep
  BY <1>1, run_upload_preserves, check_object_exists_preserves, reconcile_file_preserves,
     initiate_multipart_preserves, list_multipart_parts_preserves, next_part_preserves,
     authorize_part_preserves, upload_part_preserves, confirm_part_preserves,
     complete_uploaded_file_preserves, complete_multipart_preserves,
     recheck_object_exists_preserves, mark_file_uploaded_preserves, finalize_transfer_preserves
     DEF ClientStep
<1>2. CASE HandlerStep
  BY <1>2, complete_multipart_commit_preserves, initiate_multipart_commit_preserves DEF HandlerStep
<1>3. CASE GiveUpBegin \/ GiveUpComplete \/ pause_upload
  BY <1>3, GiveUpBegin_preserves, GiveUpComplete_preserves, pause_upload_preserves
<1>4. CASE LatePutArrives \/ LateCompleteArrives
  BY <1>4, LatePutArrives_preserves, LateCompleteArrives_preserves
<1>5. CASE ClientCrash \/ RegistryCrash
  BY <1>5, ClientCrash_preserves, RegistryCrash_preserves
<1>6. CASE UNCHANGED vars
  <2> USE <1>6 DEF vars, task, sqlite, registry, storage, network, bounds
  <2>1. TypeOK'
    BY DEF IInv, TypeOK
  <2>2. CompletesWholePlan' /\ RecordsWhatIsStored' /\ ConfirmsWhatWasAccepted'
    BY DEF IInv, CompletesWholePlan, RecordsWhatIsStored, Whole, ConfirmsWhatWasAccepted
  <2> QED
    BY <2>1, <2>2 DEF IInv
<1> QED
  BY <1>1, <1>2, <1>3, <1>4, <1>5, <1>6 DEF Next

LEMMA Invariant == Spec => []IInv
<1>1. Init => IInv
  BY Initially
<1>2. IInv /\ [Next]_vars => IInv'
  BY EveryStep
<1> QED
  BY <1>1, <1>2, PTL DEF Spec

(* No retry loop of the upload engine runs for more than MaxAttempts, and every variable
   stays in its domain.                                                                 *)
THEOREM UploadTypes == Spec => []TypeOK
<1>1. IInv => TypeOK
  BY DEF IInv
<1> QED
  BY <1>1, Invariant, PTL

(* Whoever believes the object uploaded is right, whatever was lost, given up, paused or
   killed: SQLite's mark, the Registry's row and finalize_transfer.                      *)
THEOREM UploadedIsStored == Spec => []UploadedMeansStored
<1>1. IInv => UploadedMeansStored
  BY PartsAreSomething DEF IInv, RecordsWhatIsStored, Whole, UploadedMeansStored
<1> QED
  BY <1>1, Invariant, PTL

(* confirm_part and reconcile_remote_parts record no part that storage never accepted. *)
THEOREM ConfirmedWasAccepted == Spec => []ConfirmedPartsWereAccepted
<1>1. IInv => ConfirmedPartsWereAccepted
  BY DEF IInv, ConfirmsWhatWasAccepted, ConfirmedPartsWereAccepted
<1> QED
  BY <1>1, Invariant, PTL

-----------------------------------------------------------------------------
(* Only missing parts are sent, if a page of ListParts can hold the plan *)

(* From the listing on, what was confirmed then is among the parts held complete, and the
   part being sent is not.                                                               *)
SendsMissing ==
    /\ pc \in {"parts", "authorize", "put", "confirm"} => confirmedAtList \subseteq local
    /\ pc \in {"authorize", "put"} => part \notin local

LEMMA PageIsWhole ==
  ASSUME NParts <= PageSize, NEW parts \in SUBSET Parts
  PROVE  Page(parts) = parts
<1>1. ASSUME NEW p \in parts PROVE Cardinality({q \in parts : q < p}) < PageSize
  <2> DEFINE below == {q \in parts : q < p}
  <2>1. p \in Nat /\ 1 <= p /\ p <= NParts
    BY MultipartAssumption DEF Parts
  <2>2. below \subseteq 1..(p - 1)
    <3>1. \A q \in parts : q \in Nat /\ 1 <= q
      BY MultipartAssumption DEF Parts
    <3>2. \A q \in Nat : 1 <= q /\ q < p => q \in 1..(p - 1)
      BY <2>1
    <3> QED
      BY <3>1, <3>2
  <2>3. IsFiniteSet(1..(p - 1)) /\ Cardinality(1..(p - 1)) = p - 1
    BY <2>1, FS_Interval
  <2> HIDE DEF below
  <2>4. Cardinality(below) <= p - 1 /\ Cardinality(below) \in Nat
    BY <2>2, <2>3, FS_Subset, FS_CardinalityType
  <2>5. Cardinality(below) < PageSize
    BY <2>1, <2>4, MultipartAssumption
  <2> QED
    BY <2>5 DEF below
<1> QED
  BY <1>1 DEF Page

LEMMA SendsMissingPreserved ==
  ASSUME NParts <= PageSize, TypeOK, SendsMissing, [Next]_vars
  PROVE  SendsMissing'
<1> USE DEF SendsMissing, Goto, Enter, Retry, task, sqlite, registry, storage, network, bounds
<1>1. CASE list_multipart_parts
  <2>1. CASE pc' = "parts"
    <3>1. row.upload \in Uploads
      BY <1>1, <2>1 DEF list_multipart_parts, TypeOK
    <3>2. Page(received[row.upload]) = received[row.upload]
      BY <3>1, PageIsWhole DEF TypeOK
    <3> QED
      BY <1>1, <2>1, <3>2 DEF list_multipart_parts, reconcile_remote_parts
  <2> QED
    BY <1>1, <2>1 DEF list_multipart_parts
<1>2. CASE next_part \/ authorize_part \/ upload_part \/ confirm_part
  BY <1>2 DEF next_part, Missing, authorize_part, upload_part, PutFails, confirm_part
<1>3. CASE run_upload \/ check_object_exists \/ reconcile_file \/ initiate_multipart
  BY <1>3 DEF run_upload, check_object_exists, reconcile_file, initiate_multipart
<1>4. CASE complete_uploaded_file \/ complete_multipart \/ recheck_object_exists
  BY <1>4 DEF complete_uploaded_file, complete_multipart, recheck_object_exists
<1>5. CASE mark_file_uploaded \/ finalize_transfer
  BY <1>5 DEF mark_file_uploaded, finalize_transfer
<1>6. CASE HandlerStep
  BY <1>6 DEF HandlerStep, complete_multipart_commit, initiate_multipart_commit
<1>7. CASE GiveUpBegin \/ GiveUpComplete \/ pause_upload
  BY <1>7 DEF GiveUpBegin, GiveUpComplete, pause_upload
<1>8. CASE LatePutArrives \/ LateCompleteArrives
  BY <1>8 DEF LatePutArrives, LateCompleteArrives
<1>9. CASE ClientCrash \/ RegistryCrash
  BY <1>9 DEF ClientCrash, RegistryCrash
<1>10. CASE UNCHANGED vars
  BY <1>10 DEF vars
<1> QED
  BY <1>1, <1>2, <1>3, <1>4, <1>5, <1>6, <1>7, <1>8, <1>9, <1>10 DEF Next, ClientStep

(* list_multipart_parts reads one page: as long as the plan fits in it, upload_missing_parts
   sends no part again that storage held when it listed the upload.                        *)
THEOREM OnlyMissingIsSent ==
  ASSUME NParts <= PageSize
  PROVE  Spec => []OnlyMissingPartsSent
<1>1. Init => SendsMissing
  BY DEF Init, SendsMissing
<1>2. TypeOK /\ SendsMissing /\ [Next]_vars => SendsMissing'
  BY SendsMissingPreserved
<1>3. SendsMissing => OnlyMissingPartsSent
  BY DEF SendsMissing, OnlyMissingPartsSent
<1> QED
  BY <1>1, <1>2, <1>3, UploadTypes, PTL DEF Spec
==============================================================================
