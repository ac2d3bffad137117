------------------------- MODULE VerificationProofs -------------------------
(***************************************************************************)
(* Proofs about Verification, for any number of transfers, objects and     *)
(* workers, any limit of attempts, and any number of finalize requests,    *)
(* crashes and deletions; what needs one worker and one finalize request   *)
(* of a transfer at a time (OneAtATime) says so.                           *)
(***************************************************************************)
EXTENDS Verification, TLAPS

Busy(w) == worker[w].pc # "idle"

-----------------------------------------------------------------------------
(* Type correctness *)

(* Init sets every column, worker and stored object to a value of its domain. *)
LEMMA InitTypeOK == Init => TypeOK
  BY VerificationAssumption
  DEF Init, TypeOK, TransferStatus, ObjectStatus, FileStatus, AttemptStatus, StoredContent,
      Uploads, NoUpload, UploadState, NoClaim, Claims

(* A multipart upload moves from one of its states to another. *)
LEMMA MovesTypeOK ==
  ASSUME TypeOK, NEW t \in Transfers, NEW o \in Objects, NEW u \in Uploads,
         NEW next \in UploadState, Moves(t, o, u, next)
  PROVE  /\ uploads' \in [Transfers -> [Objects -> [Uploads -> UploadState]]]
         /\ uploads'[t][o][u] = next
         /\ \A r \in Transfers, p \in Objects, v \in Uploads :
               r # t \/ p # o \/ v # u => uploads'[r][p][v] = uploads[r][p][v]
  BY DEF TypeOK, Moves

(* No handler of an upload takes a variable out of its domain. *)
LEMMA UploadTypeOK ==
  ASSUME TypeOK, NEW t \in Transfers, NEW o \in Objects, UploadStep(t, o)
  PROVE  TypeOK'
<1>0. {"created", "open", "completing", "assembled", "over"} \subseteq UploadState
  BY DEF UploadState
<1>1. CASE initiate_multipart(t, o)
  <2>1. PICK u \in Uploads : /\ again' = IF u > 1 THEN again + 1 ELSE again
                             /\ Moves(t, o, u, "created")
    BY <1>1 DEF initiate_multipart
  <2>2. uploads' \in [Transfers -> [Objects -> [Uploads -> UploadState]]]
    BY <1>0, <2>1, MovesTypeOK
  <2>3. again' \in Nat /\ outlived' \in [Transfers -> SUBSET Objects]
    BY <1>1, <2>1 DEF TypeOK, initiate_multipart
  <2> QED
    BY <1>1, <2>2, <2>3 DEF TypeOK, initiate_multipart, rows, object
<1>2. ASSUME NEW u \in Uploads, initiate_multipart_commit(t, o, u) PROVE TypeOK'
  <2>1. uploads' \in [Transfers -> [Objects -> [Uploads -> UploadState]]]
    BY <1>0, <1>2, MovesTypeOK DEF initiate_multipart_commit
  <2>2. /\ objUpload' \in [Transfers -> [Objects -> Uploads \cup {NoUpload}]]
        /\ objStatus' \in [Transfers -> [Objects -> ObjectStatus]]
    BY <1>2 DEF TypeOK, initiate_multipart_commit, ObjectStatus
  <2> QED
    BY <1>2, <2>1, <2>2 DEF TypeOK, initiate_multipart_commit, purge
<1>3. CASE complete_multipart(t, o)
  <2>1. objUpload[t][o] \in Uploads
    BY <1>3 DEF TypeOK, complete_multipart
  <2>2. uploads' \in [Transfers -> [Objects -> [Uploads -> UploadState]]]
    BY <1>0, <1>3, <2>1, MovesTypeOK DEF complete_multipart
  <2> QED
    BY <1>3, <2>2 DEF TypeOK, complete_multipart, rows, object, purge
<1>4. ASSUME NEW u \in Uploads, complete_multipart_stored(t, o, u) PROVE TypeOK'
  <2>1. uploads' \in [Transfers -> [Objects -> [Uploads -> UploadState]]]
    BY <1>0, <1>4, MovesTypeOK DEF complete_multipart_stored
  <2>2. /\ stored' \in [Transfers -> [Objects -> StoredContent]]
        /\ assembled' \in [Transfers -> [Objects -> Nat]]
    BY <1>4 DEF TypeOK, complete_multipart_stored, StoredContent
  <2> QED
    BY <1>4, <2>1, <2>2 DEF TypeOK, complete_multipart_stored, rows, object, purge
<1>5. ASSUME NEW u \in Uploads, complete_multipart_commit(t, o, u) PROVE TypeOK'
  <2>1. uploads' \in [Transfers -> [Objects -> [Uploads -> UploadState]]]
    BY <1>0, <1>5, MovesTypeOK DEF complete_multipart_commit
  <2>2. /\ objStatus' \in [Transfers -> [Objects -> ObjectStatus]]
        /\ fileStatus' \in [Transfers -> [Objects -> FileStatus]]
    <3>1. \/ UNCHANGED <<objStatus, fileStatus>>
          \/ /\ objStatus' = [objStatus EXCEPT ![t][o] = "uploaded"]
             /\ fileStatus' = [fileStatus EXCEPT ![t][o] = "uploaded"]
      BY <1>5 DEF complete_multipart_commit
    <3>2. "uploaded" \in ObjectStatus /\ "uploaded" \in FileStatus
      BY DEF ObjectStatus, FileStatus
    <3>3. CASE UNCHANGED <<objStatus, fileStatus>>
      BY <3>3 DEF TypeOK
    <3>4. ASSUME objStatus' = [objStatus EXCEPT ![t][o] = "uploaded"]
          PROVE  objStatus' \in [Transfers -> [Objects -> ObjectStatus]]
      BY <3>2, <3>4 DEF TypeOK
    <3>5. ASSUME fileStatus' = [fileStatus EXCEPT ![t][o] = "uploaded"]
          PROVE  fileStatus' \in [Transfers -> [Objects -> FileStatus]]
      BY <3>2, <3>5 DEF TypeOK
    <3> QED
      BY <3>1, <3>3, <3>4, <3>5
  <2> QED
    BY <1>5, <2>1, <2>2 DEF TypeOK, complete_multipart_commit, purge
<1> QED
  BY <1>1, <1>2, <1>3, <1>4, <1>5 DEF UploadStep

(* Nor does a finalize request. *)
LEMMA FinalizeTypeOK ==
  ASSUME TypeOK, NEW t \in Transfers
  PROVE  /\ finalize_transfer_check(t) => TypeOK'
         /\ finalize_transfer_commit(t) => TypeOK'
<1>2. ASSUME finalize_transfer_check(t) PROVE TypeOK'
  BY <1>2 DEF TypeOK, finalize_transfer_check, rows, object, store, purge
<1>3. ASSUME finalize_transfer_commit(t) PROVE TypeOK'
  <2>1. finalizers' \in [Transfers -> Nat]
    BY <1>3 DEF TypeOK, finalize_transfer_commit
  <2>2. status' \in [Transfers -> TransferStatus]
    BY <1>3 DEF TypeOK, finalize_transfer_commit, TransferStatus
  <2>3. clock' \in Nat
    BY <1>3 DEF TypeOK, finalize_transfer_commit
  <2>4. completedAt' \in [Transfers -> Nat]
    BY <1>3, <2>3 DEF TypeOK, finalize_transfer_commit
  <2> QED
    BY <1>3, <2>1, <2>2, <2>3, <2>4 DEF TypeOK, finalize_transfer_commit, object, store, purge
<1> QED
  BY <1>2, <1>3

(* Nor does a request of the administrator, or a lease that expires. *)
LEMMA AdminTypeOK ==
  ASSUME TypeOK, NEW t \in Transfers
  PROVE  /\ retry_failed_transfer(t) => TypeOK'
         /\ delete_transfer_lock(t) => TypeOK'
         /\ \A o \in Objects : delete_transfer_object(t, o) => TypeOK'
         /\ DeleteEnds(t) => TypeOK'
         /\ LeaseExpires(t) => TypeOK'
<1>1. ASSUME retry_failed_transfer(t) PROVE TypeOK'
  BY <1>1 DEF TypeOK, retry_failed_transfer, TransferStatus, object, store, purge
<1>2. ASSUME delete_transfer_lock(t) PROVE TypeOK'
  <2>1. toAbort' \in [Transfers -> [Objects -> Uploads \cup {NoUpload}]]
    BY <1>2 DEF TypeOK, delete_transfer_lock
  <2>2. toDelete' \in [Transfers -> SUBSET Objects] /\ outlived' \in [Transfers -> SUBSET Objects]
    BY <1>2 DEF TypeOK, delete_transfer_lock
  <2> QED
    BY <1>2, <2>1, <2>2 DEF TypeOK, delete_transfer_lock, rows, object, store
<1>3. ASSUME NEW o \in Objects, delete_transfer_object(t, o) PROVE TypeOK'
  <2>1. uploads' \in [Transfers -> [Objects -> [Uploads -> UploadState]]]
    <3>1. CASE UNCHANGED uploads
      BY <3>1 DEF TypeOK
    <3>2. CASE toAbort[t][o] # NoUpload /\ Moves(t, o, toAbort[t][o], "over")
      <4>1. toAbort[t][o] \in Uploads /\ "over" \in UploadState
        BY <3>2 DEF TypeOK, UploadState
      <4> QED
        BY <3>2, <4>1, MovesTypeOK
    <3> QED
      BY <1>3, <3>1, <3>2 DEF delete_transfer_object
  <2>2. stored' \in [Transfers -> [Objects -> StoredContent]]
    BY <1>3 DEF TypeOK, delete_transfer_object, StoredContent
  <2>3. toDelete' \in [Transfers -> SUBSET Objects]
    BY <1>3 DEF TypeOK, delete_transfer_object
  <2> QED
    BY <1>3, <2>1, <2>2, <2>3 DEF TypeOK, delete_transfer_object, rows, object
<1>4. DeleteOver(t) => /\ purging' \in SUBSET Transfers
                       /\ toDelete' \in [Transfers -> SUBSET Objects]
                       /\ toAbort' \in [Transfers -> [Objects -> Uploads \cup {NoUpload}]]
  BY DEF TypeOK, DeleteOver
<1>5. ASSUME delete_transfer_commit(t) PROVE TypeOK'
  <2>1. /\ objStatus' \in [Transfers -> [Objects -> ObjectStatus]]
        /\ objUpload' \in [Transfers -> [Objects -> Uploads \cup {NoUpload}]]
        /\ fileStatus' \in [Transfers -> [Objects -> FileStatus]]
    BY <1>5 DEF TypeOK, delete_transfer_commit, ObjectStatus, FileStatus
  <2>2. /\ status' \in [Transfers -> TransferStatus]
        /\ attemptRow' \in [Transfers -> [1..MaxAttempts -> AttemptStatus]]
    BY <1>5 DEF TypeOK, delete_transfer_commit, TransferStatus, AttemptStatus
  <2> QED
    BY <1>4, <1>5, <2>1, <2>2 DEF TypeOK, delete_transfer_commit, store
<1>6. ASSUME delete_transfer_rollback(t) PROVE TypeOK'
  BY <1>4, <1>6 DEF TypeOK, delete_transfer_rollback, rows, object, store
<1>7. ASSUME LeaseExpires(t) PROVE TypeOK'
  BY <1>7 DEF TypeOK, LeaseExpires, object, store, purge
<1> QED
  BY <1>1, <1>2, <1>3, <1>5, <1>6, <1>7 DEF DeleteEnds

(* A claim opens an attempt within the limit. *)
LEMMA ClaimTypeOK ==
  ASSUME TypeOK, NEW w \in Workers, claim_transfer(w)
  PROVE  TypeOK'
<1>1. PICK t \in Transfers :
        /\ NextClaim(t)
        /\ status' = [status EXCEPT ![t] = "verifying"]
        /\ expired' = [expired EXCEPT ![t] = FALSE]
        /\ attempts' = [attempts EXCEPT ![t] = NextAttempt(t)]
        /\ attemptRow' = [attemptRow EXCEPT ![t][NextAttempt(t)] = "running"]
        /\ worker' = [worker EXCEPT ![w] =
                        [pc |-> "claimed", transfer |-> t, number |-> NextAttempt(t),
                         seen |-> "verifying", seenCount |-> NextAttempt(t),
                         seenVerified |-> {}, matched |-> {}, verdict |-> "none"]]
  BY DEF claim_transfer
<1>2. NextAttempt(t) \in 1..MaxAttempts /\ NextAttempt(t) \in 0..MaxAttempts
  BY <1>1, VerificationAssumption DEF TypeOK, NextClaim, Claimable, NextAttempt
<1>3. worker' \in [Workers -> Claims \cup {NoClaim}]
  <2>1. [pc |-> "claimed", transfer |-> t, number |-> NextAttempt(t),
         seen |-> "verifying", seenCount |-> NextAttempt(t),
         seenVerified |-> {}, matched |-> {}, verdict |-> "none"] \in Claims
    BY <1>2 DEF Claims, TransferStatus
  <2> QED
    BY <1>1, <2>1 DEF TypeOK
<1>4. attemptRow' \in [Transfers -> [1..MaxAttempts -> AttemptStatus]]
  BY <1>1, <1>2 DEF TypeOK, AttemptStatus
<1>5. status' \in [Transfers -> TransferStatus]
  BY <1>1 DEF TypeOK, TransferStatus
<1>6. attempts' \in [Transfers -> 0..MaxAttempts] /\ expired' \in [Transfers -> BOOLEAN]
  BY <1>1, <1>2 DEF TypeOK
<1> QED
  BY <1>3, <1>4, <1>5, <1>6 DEF TypeOK, claim_transfer, object, store, purge

(* The worker's record stays a claim until it is given up. *)
LEMMA BusyIsClaim ==
  ASSUME TypeOK, NEW w \in Workers, Busy(w)
  PROVE  /\ worker[w] \in Claims
         /\ worker[w].transfer \in Transfers
         /\ worker[w].number \in 1..MaxAttempts
         /\ worker[w].matched \subseteq Objects
<1>1. worker[w] \in Claims
  BY DEF TypeOK, Busy, NoClaim
<1> QED
  BY <1>1 DEF Claims

(* The steps of a worker that holds a claim keep the types. *)
LEMMA VerifyTypeOK ==
  ASSUME TypeOK, NEW w \in Workers
  PROVE  /\ verify_claim_load(w) => TypeOK'
         /\ \A o \in Objects : verify_transport_object(w, o) => TypeOK'
         /\ verify_claim_verdict(w) => TypeOK'
         /\ verify_claim_commit(w) => TypeOK'
         /\ WorkerCrash(w) => TypeOK'
<1>1. ASSUME verify_claim_load(w) PROVE TypeOK'
  <2>1. worker[w] \in Claims /\ worker[w].transfer \in Transfers
    BY <1>1, BusyIsClaim DEF verify_claim_load, Busy
  <2> DEFINE verified == {o \in Objects : objStatus[worker[w].transfer][o] = "verified"}
  <2>2. verified \subseteq Objects
    OBVIOUS
  <2>3. worker' \in [Workers -> Claims \cup {NoClaim}]
    <3> DEFINE c == [worker[w] EXCEPT !.pc = "verifying", !.seen = status[worker[w].transfer],
                                      !.seenCount = attempts[worker[w].transfer],
                                      !.seenVerified = verified]
    <3>1. \/ worker' = [worker EXCEPT ![w] = NoClaim]
          \/ worker' = [worker EXCEPT ![w] = c]
      BY <1>1 DEF verify_claim_load
    <3> HIDE DEF verified
    <3>2. c \in Claims
      BY <2>1, <2>2 DEF Claims, TypeOK
    <3> HIDE DEF c
    <3> QED
      BY <3>1, <3>2 DEF TypeOK
  <2> QED
    BY <1>1, <2>3 DEF TypeOK, verify_claim_load, rows, object, store, purge
<1>2. ASSUME NEW o \in Objects, verify_transport_object(w, o) PROVE TypeOK'
  <2>1. worker[w] \in Claims
    BY <1>2, BusyIsClaim DEF verify_transport_object, Busy
  <2>2. [worker[w] EXCEPT !.matched = @ \cup {o}] \in Claims
    BY <2>1 DEF Claims
  <2>3. worker' \in [Workers -> Claims \cup {NoClaim}]
    BY <1>2, <2>2 DEF TypeOK, verify_transport_object
  <2> QED
    BY <1>2, <2>3 DEF TypeOK, verify_transport_object, rows, object, store, purge
<1>3. ASSUME verify_claim_verdict(w) PROVE TypeOK'
  <2>1. worker[w] \in Claims
    BY <1>3, BusyIsClaim DEF verify_claim_verdict, Busy
  <2>2. \A verdict \in {"complete", "mismatch", "error"} :
          [worker[w] EXCEPT !.pc = "verdict", !.verdict = verdict] \in Claims
    BY <2>1 DEF Claims
  <2>3. worker' \in [Workers -> Claims \cup {NoClaim}]
    BY <1>3, <2>2 DEF TypeOK, verify_claim_verdict
  <2> QED
    BY <1>3, <2>3 DEF TypeOK, verify_claim_verdict, rows, object, store, purge
<1>4. ASSUME verify_claim_commit(w) PROVE TypeOK'
  <2> DEFINE claim == worker[w]
             t == worker[w].transfer
  <2>1. claim \in Claims /\ t \in Transfers /\ claim.number \in 1..MaxAttempts
    BY <1>4, BusyIsClaim DEF verify_claim_commit, Busy
  <2>2. VerdictStatus(claim) \in TransferStatus /\ VerdictRow(claim) \in AttemptStatus
    BY DEF VerdictStatus, VerdictRow, TransferStatus, AttemptStatus
  <2>3. status' \in [Transfers -> TransferStatus]
    BY <1>4, <2>1, <2>2 DEF TypeOK, verify_claim_commit
  <2>4. attemptRow' \in [Transfers -> [1..MaxAttempts -> AttemptStatus]]
    <3> DEFINE new == [attemptRow[t] EXCEPT ![claim.number] = VerdictRow(claim)]
    <3>1. attemptRow' = attemptRow \/ attemptRow' = [attemptRow EXCEPT ![t] = new]
      BY <1>4 DEF verify_claim_commit
    <3>2. new \in [1..MaxAttempts -> AttemptStatus]
      BY <2>1, <2>2 DEF TypeOK
    <3> HIDE DEF new
    <3> QED
      BY <2>1, <3>1, <3>2 DEF TypeOK
  <2>5. objStatus' \in [Transfers -> [Objects -> ObjectStatus]]
    <3> DEFINE new == [o \in Objects |-> IF o \in claim.matched \ claim.seenVerified
                                        THEN "verified" ELSE objStatus[t][o]]
    <3>1. objStatus' = objStatus \/ objStatus' = [objStatus EXCEPT ![t] = new]
      BY <1>4 DEF verify_claim_commit
    <3>2. new \in [Objects -> ObjectStatus]
      BY <2>1 DEF TypeOK, ObjectStatus
    <3> HIDE DEF new
    <3> QED
      BY <2>1, <3>1, <3>2 DEF TypeOK
  <2>6. fileStatus' \in [Transfers -> [Objects -> FileStatus]]
    <3> DEFINE new == [o \in Objects |-> IF o \in claim.matched THEN "verified" ELSE fileStatus[t][o]]
    <3>1. fileStatus' = fileStatus \/ fileStatus' = [fileStatus EXCEPT ![t] = new]
      BY <1>4 DEF verify_claim_commit
    <3>2. new \in [Objects -> FileStatus]
      BY <2>1 DEF TypeOK, FileStatus
    <3> HIDE DEF new
    <3> QED
      BY <2>1, <3>1, <3>2 DEF TypeOK
  <2> QED
    BY <1>4, <2>3, <2>4, <2>5, <2>6 DEF TypeOK, verify_claim_commit, store, purge
<1>5. ASSUME WorkerCrash(w) PROVE TypeOK'
  BY <1>5 DEF TypeOK, WorkerCrash, rows, object, store, purge
<1> QED
  BY <1>1, <1>2, <1>3, <1>4, <1>5

(* Every step keeps the types. *)
LEMMA NextTypeOK == TypeOK /\ [Next]_vars => TypeOK'
<1> SUFFICES ASSUME TypeOK, [Next]_vars PROVE TypeOK'
  OBVIOUS
<1>1. CASE UNCHANGED vars
  BY <1>1 DEF TypeOK, vars, rows, object, store, purge
<1>2. ASSUME NEW w \in Workers, WorkerStep(w) \/ WorkerCrash(w) PROVE TypeOK'
  BY <1>2, ClaimTypeOK, VerifyTypeOK DEF WorkerStep
<1> QED
  BY <1>1, <1>2, UploadTypeOK, FinalizeTypeOK, AdminTypeOK DEF Next

(* The database rows, the object store and the workers' claims stay within their types; in
   particular claim_transfer never opens an attempt above verification_max_attempts.      *)
THEOREM TypeCorrect == Spec => []TypeOK
<1> QED
  BY InitTypeOK, NextTypeOK, PTL DEF Spec

-----------------------------------------------------------------------------
(* Safety *)

(* What lies under a key, when storage has put n uploads together there: something was, and
   with a single upload it is what the manifest says, or gone.                             *)
Sound(content, n) == n >= 1 /\ (n = 1 => content \in {"good", "absent"})

(* What lies under a key was assembled there. *)
StoredWasAssembled ==
    \A t \in Transfers, o \in Objects : stored[t][o] # "absent" => assembled[t][o] >= 1

(* What a worker matched was good when it was read, and only a second upload replaces it. *)
MatchedIsSound ==
    \A w \in Workers : Busy(w) => \A o \in worker[w].matched :
        Sound(stored[worker[w].transfer][o], assembled[worker[w].transfer][o])

(* A file the database calls verified matches the manifest, even when the transfer failed:
   a failed attempt commits the objects it had matched.                                   *)
VerifiedIsSound ==
    \A t \in Transfers, o \in Objects :
        fileStatus[t][o] = "verified" => Sound(stored[t][o], assembled[t][o])

(* A verdict of "complete" rests on every object. *)
VerdictIsFounded ==
    \A w \in Workers : worker[w].pc = "verdict" /\ worker[w].verdict = "complete" =>
                          worker[w].matched = Objects

(* A claim's number has been opened, so the next claim's number is a new one. *)
NumbersAreOpened ==
    \A w \in Workers : Busy(w) => worker[w].number <= attempts[worker[w].transfer]

(* The rows of a complete transfer carry the evidence.  The object's own row is not among them:
   the commit of a late initiate_multipart may set it back, that of a second completion fails. *)
CompleteIsRecorded ==
    \A t \in Transfers : status[t] = "complete" =>
        /\ \E n \in 1..attempts[t] : attemptRow[t][n] = "complete"
        /\ \A o \in Objects : fileStatus[t][o] = "verified"

(* The inductive invariant is TypeOK /\ Safe.  CompleteIsRecorded alone is not inductive: that
   a commit keeps or founds it needs what the workers hold (MatchedIsSound, VerdictIsFounded),
   that the attempt it overwrites is not the one that recorded the success
   (AttemptsAreExclusive), and that its number is one of those opened (NumbersAreOpened).     *)
Safe ==
    /\ StoredWasAssembled
    /\ MatchedIsSound
    /\ VerifiedIsSound
    /\ VerdictIsFounded
    /\ NumbersAreOpened
    /\ AttemptsAreExclusive
    /\ CompleteIsRecorded

(* It says what the property says. *)
LEMMA SafeIsVerified == TypeOK /\ Safe => CompleteIsVerified
  BY DEF Safe, CompleteIsRecorded, VerifiedIsSound, Sound, CompleteIsVerified

(* No worker is busy and nothing is verified or complete at the start. *)
LEMMA InitSafe == Init => Safe
  BY DEF Init, Safe, StoredWasAssembled, MatchedIsSound, VerifiedIsSound, VerdictIsFounded,
         NumbersAreOpened, AttemptsAreExclusive, CompleteIsRecorded, Busy, NoClaim

(* The facts do not mention the objects' own rows, leases, locks, finalize handlers or bounds. *)
LEMMA FrameSafe ==
  ASSUME Safe, UNCHANGED <<status, attempts, fileStatus, attemptRow, stored, assembled, worker>>
  PROVE  Safe'
  BY DEF Safe, StoredWasAssembled, MatchedIsSound, VerifiedIsSound, VerdictIsFounded,
         NumbersAreOpened, AttemptsAreExclusive, CompleteIsRecorded, Busy, Sound

(* Storage assembles an upload.  What a worker had matched, or a commit had recorded as verified,
   was assembled before: it is now replaced by a second upload.                                  *)
LEMMA StoredSafe ==
  ASSUME TypeOK, Safe, NEW t \in Transfers, NEW o \in Objects, NEW u \in Uploads,
         complete_multipart_stored(t, o, u)
  PROVE  Safe'
<1> USE DEF Safe
<1>1. UNCHANGED <<status, attempts, fileStatus, attemptRow, worker>>
  BY DEF complete_multipart_stored, rows, object
<1>2. /\ assembled'[t][o] = assembled[t][o] + 1
      /\ \A r \in Transfers, p \in Objects :
            r # t \/ p # o => stored'[r][p] = stored[r][p] /\ assembled'[r][p] = assembled[r][p]
      /\ \A r \in Transfers, p \in Objects : assembled[r][p] \in Nat
  BY DEF TypeOK, complete_multipart_stored
<1>3. \A r \in Transfers, p \in Objects :
        Sound(stored[r][p], assembled[r][p]) => Sound(stored'[r][p], assembled'[r][p])
  BY <1>2 DEF Sound
<1>4. StoredWasAssembled'
  BY <1>2 DEF StoredWasAssembled
<1>5. MatchedIsSound' /\ VerifiedIsSound'
  <2>1. \A w \in Workers : Busy(w) => worker[w].transfer \in Transfers /\ worker[w].matched \subseteq Objects
    BY BusyIsClaim
  <2> QED
    BY <1>1, <1>3, <2>1 DEF MatchedIsSound, VerifiedIsSound, Busy
<1>6. VerdictIsFounded' /\ NumbersAreOpened' /\ AttemptsAreExclusive' /\ CompleteIsRecorded'
  BY <1>1 DEF VerdictIsFounded, NumbersAreOpened, AttemptsAreExclusive, CompleteIsRecorded, Busy
<1> QED
  BY <1>4, <1>5, <1>6

(* Recording an upload changes the status of files that had none: none of a complete transfer. *)
LEMMA RecordedSafe ==
  ASSUME TypeOK, Safe, NEW t \in Transfers, NEW o \in Objects, NEW u \in Uploads,
         complete_multipart_commit(t, o, u)
  PROVE  Safe'
<1> USE DEF Safe
<1>1. UNCHANGED <<status, attempts, attemptRow, stored, assembled, worker>>
  BY DEF complete_multipart_commit
<1>2. CASE UNCHANGED fileStatus
  BY <1>1, <1>2, FrameSafe
<1>3. CASE ~ PartsRecorded(t, o) /\ fileStatus' = [fileStatus EXCEPT ![t][o] = "uploaded"]
  <2>1. StoredWasAssembled' /\ MatchedIsSound' /\ VerdictIsFounded' /\ NumbersAreOpened'
          /\ AttemptsAreExclusive'
    BY <1>1 DEF StoredWasAssembled, MatchedIsSound, VerdictIsFounded, NumbersAreOpened,
                AttemptsAreExclusive, Busy, Sound
  <2>2. /\ fileStatus[t][o] = "pending" /\ fileStatus'[t][o] = "uploaded"
        /\ \A r \in Transfers, p \in Objects :
              r # t \/ p # o => fileStatus'[r][p] = fileStatus[r][p]
    BY <1>3 DEF TypeOK, PartsRecorded
  <2>3. VerifiedIsSound'
    BY <1>1, <2>2 DEF VerifiedIsSound, Sound
  <2>4. CompleteIsRecorded'
    BY <1>1, <2>2 DEF CompleteIsRecorded
  <2> QED
    BY <2>1, <2>3, <2>4
<1> QED
  BY <1>2, <1>3 DEF complete_multipart_commit

(* A change of a transfer's status to "finalizing", whatever it was, touches no evidence. *)
LEMMA FinalizingSafe ==
  ASSUME TypeOK, Safe, NEW t \in Transfers,
         status[t] # "deleted",
         status' = [status EXCEPT ![t] = "finalizing"],
         UNCHANGED <<attempts, fileStatus, attemptRow, stored, assembled, worker>>
  PROVE  Safe'
<1> USE DEF Safe
<1>1. StoredWasAssembled' /\ MatchedIsSound' /\ VerifiedIsSound' /\ VerdictIsFounded'
        /\ NumbersAreOpened'
  BY DEF StoredWasAssembled, MatchedIsSound, VerifiedIsSound, VerdictIsFounded, NumbersAreOpened,
         Busy, Sound
<1>3. AttemptsAreExclusive'
  <2>1. \A w \in Workers : Busy(w) => worker[w].transfer \in Transfers
    BY BusyIsClaim
  <2> QED
    BY <2>1 DEF TypeOK, AttemptsAreExclusive, Busy
<1>4. CompleteIsRecorded'
  BY DEF TypeOK, CompleteIsRecorded
<1> QED
  BY <1>1, <1>3, <1>4

(* Deleting objects takes nothing from what was verified; the row goes when all are gone. *)
LEMMA DeleteSafe ==
  ASSUME TypeOK, Safe, NEW t \in Transfers
  PROVE  /\ \A o \in Objects : delete_transfer_object(t, o) => Safe'
         /\ delete_transfer_commit(t) => Safe'
<1> USE DEF Safe
<1>0. \A w \in Workers : Busy(w) => /\ worker[w].transfer \in Transfers
                                    /\ worker[w].matched \subseteq Objects
  BY BusyIsClaim
<1>1. ASSUME NEW o \in Objects, delete_transfer_object(t, o) PROVE Safe'
  <2>0. \A u \in Transfers, p \in Objects :
          stored'[u][p] = stored[u][p] \/ stored'[u][p] = "absent"
    BY <1>1 DEF TypeOK, delete_transfer_object
  <2>1. UNCHANGED <<status, attempts, fileStatus, attemptRow, assembled, worker>>
    BY <1>1 DEF delete_transfer_object, rows, object
  <2>2. StoredWasAssembled'
    BY <2>0, <2>1 DEF StoredWasAssembled
  <2>3. MatchedIsSound' /\ VerifiedIsSound'
    BY <1>0, <2>0, <2>1 DEF MatchedIsSound, VerifiedIsSound, Sound, Busy
  <2>4. VerdictIsFounded' /\ NumbersAreOpened' /\ AttemptsAreExclusive' /\ CompleteIsRecorded'
    BY <2>1 DEF VerdictIsFounded, NumbersAreOpened, AttemptsAreExclusive, CompleteIsRecorded, Busy
  <2> QED
    BY <2>2, <2>3, <2>4
<1>2. ASSUME delete_transfer_commit(t) PROVE Safe'
  <2>1. UNCHANGED <<attempts, stored, assembled, worker>>
    BY <1>2 DEF delete_transfer_commit, store
  <2>2. StoredWasAssembled' /\ MatchedIsSound' /\ VerdictIsFounded' /\ NumbersAreOpened'
    BY <2>1 DEF StoredWasAssembled, MatchedIsSound, VerdictIsFounded, NumbersAreOpened, Sound, Busy
  <2>3. /\ status'[t] = "deleted" /\ \A o \in Objects : fileStatus'[t][o] = "none"
        /\ \A r \in Transfers \ {t} : /\ status'[r] = status[r] /\ fileStatus'[r] = fileStatus[r]
                                       /\ attemptRow'[r] = attemptRow[r]
    BY <1>2 DEF TypeOK, delete_transfer_commit
  <2>4. VerifiedIsSound'
    BY <2>1, <2>3 DEF VerifiedIsSound, Sound
  <2>5. AttemptsAreExclusive'
    BY <1>0, <2>1, <2>3 DEF AttemptsAreExclusive, Busy
  <2>6. CompleteIsRecorded'
    BY <2>1, <2>3 DEF CompleteIsRecorded
  <2> QED
    BY <2>2, <2>4, <2>5, <2>6
<1> QED
  BY <1>1, <1>2

(* A claim opens a number no worker holds: those held are at most attempts[t]. *)
LEMMA ClaimSafe ==
  ASSUME TypeOK, Safe, NEW w \in Workers, claim_transfer(w)
  PROVE  Safe'
<1> USE DEF Safe
<1>1. PICK t \in Transfers :
        /\ NextClaim(t)
        /\ status' = [status EXCEPT ![t] = "verifying"]
        /\ attempts' = [attempts EXCEPT ![t] = NextAttempt(t)]
        /\ attemptRow' = [attemptRow EXCEPT ![t][NextAttempt(t)] = "running"]
        /\ worker' = [worker EXCEPT ![w] =
                        [pc |-> "claimed", transfer |-> t, number |-> NextAttempt(t),
                         seen |-> "verifying", seenCount |-> NextAttempt(t),
                         seenVerified |-> {}, matched |-> {}, verdict |-> "none"]]
  BY DEF claim_transfer
<1>2. UNCHANGED <<fileStatus, stored, assembled>>
  BY DEF claim_transfer, object, store
<1>3. /\ attempts[t] \in Nat /\ NextAttempt(t) = attempts[t] + 1
      /\ NextAttempt(t) \in 1..MaxAttempts
      /\ status[t] \in {"finalizing", "verifying"}
  BY <1>1, VerificationAssumption DEF TypeOK, NextClaim, Claimable, NextAttempt
<1>4. \A v \in Workers \ {w} : worker'[v] = worker[v]
  BY <1>1 DEF TypeOK
<1>5. /\ worker'[w].pc = "claimed" /\ worker'[w].transfer = t
      /\ worker'[w].number = NextAttempt(t) /\ worker'[w].matched = {}
  BY <1>1 DEF TypeOK
<1>6. \A v \in Workers : Busy(v) => /\ worker[v].transfer \in Transfers
                                    /\ worker[v].number \in 1..MaxAttempts
                                    /\ worker[v].number <= attempts[worker[v].transfer]
  BY BusyIsClaim DEF NumbersAreOpened
<1>7. StoredWasAssembled' /\ MatchedIsSound' /\ VerdictIsFounded' /\ VerifiedIsSound'
  BY <1>2, <1>4, <1>5
  DEF StoredWasAssembled, MatchedIsSound, VerdictIsFounded, VerifiedIsSound, Busy, Sound
<1>8. NumbersAreOpened'
  <2>1. attempts'[t] = NextAttempt(t) /\ \A u \in Transfers \ {t} : attempts'[u] = attempts[u]
    BY <1>1 DEF TypeOK
  <2> QED
    BY <1>3, <1>4, <1>5, <1>6, <2>1 DEF NumbersAreOpened, Busy
<1>10. attemptRow'[t][NextAttempt(t)] = "running"
       /\ \A u \in Transfers, n \in 1..MaxAttempts :
             u # t \/ n # NextAttempt(t) => attemptRow'[u][n] = attemptRow[u][n]
  BY <1>1, <1>3 DEF TypeOK
<1>11. AttemptsAreExclusive'
  <2>1. \A v \in Workers \ {w} : Busy(v) /\ worker[v].transfer = t
                                    => worker[v].number # NextAttempt(t)
    BY <1>3, <1>6
  <2>2. \A u \in Transfers : status'[u] # "deleted" => status[u] # "deleted"
    BY <1>1, <1>3 DEF TypeOK
  <2>3. ASSUME NEW u \in Workers, NEW v \in Workers, u # v, Busy(u)', Busy(v)',
               worker'[u].transfer = worker'[v].transfer
        PROVE  worker'[u].number # worker'[v].number
    BY <1>4, <1>5, <2>1, <2>3 DEF AttemptsAreExclusive, Busy
  <2>4. ASSUME NEW v \in Workers, Busy(v)', status'[worker'[v].transfer] # "deleted"
        PROVE  attemptRow'[worker'[v].transfer][worker'[v].number] = "running"
    <3>1. CASE v = w
      BY <1>5, <1>10, <3>1
    <3>2. CASE v # w
      BY <1>4, <1>6, <1>10, <2>1, <2>2, <2>4, <3>2 DEF AttemptsAreExclusive, Busy
    <3> QED
      BY <3>1, <3>2
  <2> QED
    BY <2>3, <2>4 DEF AttemptsAreExclusive, Busy
<1>12. CompleteIsRecorded'
  <2> SUFFICES ASSUME NEW u \in Transfers, status'[u] = "complete"
               PROVE  /\ \A o \in Objects : fileStatus'[u][o] = "verified"
                      /\ \E n \in 1..attempts'[u] : attemptRow'[u][n] = "complete"
    BY DEF CompleteIsRecorded
  <2>1. u # t /\ status[u] = "complete"
    BY <1>1 DEF TypeOK
  <2>2. attempts'[u] = attempts[u] /\ attemptRow'[u] = attemptRow[u]
    BY <1>1, <2>1 DEF TypeOK
  <2> QED
    BY <1>2, <2>1, <2>2 DEF CompleteIsRecorded
<1> QED
  BY <1>7, <1>8, <1>11, <1>12

(* A worker that loads, reads or reaches a verdict changes its own record only, and keeps the
   transfer and number it claimed.                                                          *)
LEMMA ReadSafe ==
  ASSUME TypeOK, Safe, NEW w \in Workers
  PROVE  /\ verify_claim_load(w) => Safe'
         /\ \A o \in Objects : verify_transport_object(w, o) => Safe'
         /\ verify_claim_verdict(w) => Safe'
         /\ WorkerCrash(w) => Safe'
<1> USE DEF Safe
<1>0. ASSUME NEW c \in Claims \cup {NoClaim},
             worker' = [worker EXCEPT ![w] = c],
             UNCHANGED <<status, attempts, fileStatus, attemptRow, stored, assembled>>,
             c.pc # "idle" =>
               /\ Busy(w) /\ c.transfer = worker[w].transfer /\ c.number = worker[w].number
               /\ \A o \in c.matched : Sound(stored[c.transfer][o], assembled[c.transfer][o])
               /\ c.pc = "verdict" /\ c.verdict = "complete" => c.matched = Objects
      PROVE  Safe'
  <2>1. worker'[w] = c /\ \A v \in Workers \ {w} : worker'[v] = worker[v]
    BY <1>0 DEF TypeOK
  <2>2. MatchedIsSound' /\ VerdictIsFounded' /\ NumbersAreOpened'
    BY <1>0, <2>1 DEF MatchedIsSound, VerdictIsFounded, NumbersAreOpened, Busy, Sound
  <2>3. StoredWasAssembled' /\ VerifiedIsSound' /\ CompleteIsRecorded'
    BY <1>0 DEF StoredWasAssembled, VerifiedIsSound, CompleteIsRecorded, Sound
  <2>4. AttemptsAreExclusive'
    BY <1>0, <2>1 DEF AttemptsAreExclusive, Busy
  <2> QED
    BY <2>2, <2>3, <2>4
<1>1. ASSUME worker' = [worker EXCEPT ![w] = NoClaim],
             UNCHANGED <<status, attempts, fileStatus, attemptRow, stored, assembled>>
      PROVE  Safe'
  BY <1>0, <1>1 DEF NoClaim
<1>2. ASSUME verify_claim_load(w) PROVE Safe'
  <2> DEFINE t == worker[w].transfer
             c == [worker[w] EXCEPT !.pc = "verifying", !.seen = status[t], !.seenCount = attempts[t],
                                    !.seenVerified = {o \in Objects : objStatus[t][o] = "verified"}]
  <2>1. Busy(w) /\ worker[w] \in Claims /\ t \in Transfers
    BY <1>2, BusyIsClaim DEF verify_claim_load, Busy
  <2>2. c \in Claims /\ c.pc = "verifying" /\ c.transfer = t /\ c.number = worker[w].number
        /\ c.matched = worker[w].matched
    <3> DEFINE verified == {o \in Objects : objStatus[t][o] = "verified"}
    <3>1. verified \subseteq Objects
      OBVIOUS
    <3> HIDE DEF verified
    <3>2. [worker[w] EXCEPT !.pc = "verifying", !.seen = status[t], !.seenCount = attempts[t],
                            !.seenVerified = verified] \in Claims
      BY <2>1, <3>1 DEF Claims, TypeOK
    <3> QED
      BY <2>1, <3>2 DEF Claims, verified
  <2>3. /\ worker' = [worker EXCEPT ![w] = NoClaim] \/ worker' = [worker EXCEPT ![w] = c]
        /\ UNCHANGED <<status, attempts, fileStatus, attemptRow, stored, assembled>>
    BY <1>2 DEF verify_claim_load, rows, object, store
  <2> HIDE DEF c
  <2>4. \A o \in c.matched : Sound(stored[c.transfer][o], assembled[c.transfer][o])
    BY <2>1, <2>2 DEF MatchedIsSound
  <2> QED
    BY <1>0, <1>1, <2>1, <2>2, <2>3, <2>4
<1>3. ASSUME NEW o \in Objects, verify_transport_object(w, o) PROVE Safe'
  <2> DEFINE c == [worker[w] EXCEPT !.matched = @ \cup {o}]
  <2>1. Busy(w) /\ worker[w] \in Claims /\ worker[w].pc = "verifying"
    BY <1>3, BusyIsClaim DEF verify_transport_object, Busy
  <2>2. c \in Claims /\ c.pc = "verifying" /\ c.transfer = worker[w].transfer
        /\ c.number = worker[w].number /\ c.matched = worker[w].matched \cup {o}
    BY <2>1 DEF Claims
  <2>3. /\ worker' = [worker EXCEPT ![w] = c]
        /\ UNCHANGED <<status, attempts, fileStatus, attemptRow, stored, assembled>>
    BY <1>3 DEF verify_transport_object, rows, object, store
  <2> HIDE DEF c
  <2>4. \A p \in c.matched : Sound(stored[c.transfer][p], assembled[c.transfer][p])
    <3>1. worker[w].transfer \in Transfers
      BY <2>1 DEF Claims
    <3>2. stored[c.transfer][o] = "good" /\ assembled[c.transfer][o] >= 1
      BY <1>3, <2>2, <3>1 DEF verify_transport_object, MatchesManifest, StoredWasAssembled
    <3> QED
      BY <2>1, <2>2, <3>2 DEF MatchedIsSound, Sound
  <2> QED
    BY <1>0, <2>1, <2>2, <2>3, <2>4
<1>4. ASSUME verify_claim_verdict(w) PROVE Safe'
  <2>1. Busy(w) /\ worker[w] \in Claims /\ worker[w].matched \subseteq Objects
    BY <1>4, BusyIsClaim DEF verify_claim_verdict, Busy
  <2>2. PICK verdict \in {"complete", "mismatch", "error"} :
          /\ verdict = "complete" => Objects \ worker[w].matched = {}
          /\ worker' = [worker EXCEPT ![w].pc = "verdict", ![w].verdict = verdict]
    BY <1>4 DEF verify_claim_verdict
  <2> DEFINE c == [worker[w] EXCEPT !.pc = "verdict", !.verdict = verdict]
  <2>3. c \in Claims /\ c.verdict = verdict /\ c.transfer = worker[w].transfer
        /\ c.number = worker[w].number /\ c.matched = worker[w].matched
    BY <2>1 DEF Claims
  <2>4. /\ worker' = [worker EXCEPT ![w] = c]
        /\ UNCHANGED <<status, attempts, fileStatus, attemptRow, stored, assembled>>
    BY <1>4, <2>2 DEF verify_claim_verdict, rows, object, store
  <2> HIDE DEF c
  <2>5. \A p \in c.matched : Sound(stored[c.transfer][p], assembled[c.transfer][p])
    BY <2>1, <2>3 DEF MatchedIsSound
  <2>6. c.verdict = "complete" => c.matched = Objects
    BY <2>1, <2>2, <2>3
  <2> QED
    BY <1>0, <2>1, <2>3, <2>4, <2>5, <2>6
<1>5. ASSUME WorkerCrash(w) PROVE Safe'
  BY <1>1, <1>5 DEF WorkerCrash, rows, object, store
<1> QED
  BY <1>2, <1>3, <1>4, <1>5

(* The commit.  When it makes or leaves the transfer complete, every object is verified and
   sound, and a successful attempt is on record: its own, or one with another number.      *)
LEMMA CommitSafe ==
  ASSUME TypeOK, Safe, NEW w \in Workers, verify_claim_commit(w)
  PROVE  Safe'
<1> USE DEF Safe
<1> DEFINE claim == worker[w]
           t == worker[w].transfer
           newRow == [attemptRow[t] EXCEPT ![claim.number] = VerdictRow(claim)]
           newFiles == [o \in Objects |-> IF o \in claim.matched THEN "verified" ELSE fileStatus[t][o]]
<1>1. /\ Busy(w) /\ claim.pc = "verdict" /\ t \in Transfers /\ claim.number \in 1..MaxAttempts
      /\ claim.matched \subseteq Objects
  BY BusyIsClaim DEF verify_claim_commit, Busy
<1>2. /\ worker' = [worker EXCEPT ![w] = NoClaim]
      /\ UNCHANGED <<attempts, stored, assembled>>
  BY DEF verify_claim_commit, store
<1>3. /\ \A v \in Workers \ {w} : worker'[v] = worker[v]
      /\ worker'[w].pc = "idle"
  BY <1>2 DEF TypeOK, NoClaim
<1>4. StoredWasAssembled' /\ MatchedIsSound' /\ VerdictIsFounded' /\ NumbersAreOpened'
  BY <1>2, <1>3 DEF StoredWasAssembled, MatchedIsSound, VerdictIsFounded, NumbersAreOpened, Busy, Sound
<1>5. CASE RowGone(t)
  <2>1. UNCHANGED <<status, fileStatus, attemptRow>>
    BY <1>5 DEF verify_claim_commit
  <2>2. VerifiedIsSound' /\ CompleteIsRecorded'
    BY <1>2, <2>1 DEF VerifiedIsSound, CompleteIsRecorded, Sound
  <2>3. AttemptsAreExclusive'
    BY <1>3, <2>1 DEF AttemptsAreExclusive, Busy
  <2> QED
    BY <1>4, <2>2, <2>3
<1>6. CASE ~ RowGone(t)
  <2>1. /\ status' = IF VerdictStatus(claim) = claim.seen THEN status
                     ELSE [status EXCEPT ![t] = VerdictStatus(claim)]
        /\ fileStatus' = [fileStatus EXCEPT ![t] = newFiles]
        /\ attemptRow' = [attemptRow EXCEPT ![t] = newRow]
    BY <1>6 DEF verify_claim_commit
  <2>2. /\ fileStatus'[t] = newFiles
        /\ \A u \in Transfers \ {t} : fileStatus'[u] = fileStatus[u] /\ attemptRow'[u] = attemptRow[u]
                                       /\ status'[u] = status[u]
    BY <1>1, <2>1 DEF TypeOK
  <2>3. /\ attemptRow'[t][claim.number] = VerdictRow(claim)
        /\ \A n \in 1..MaxAttempts : n # claim.number => attemptRow'[t][n] = attemptRow[t][n]
    BY <1>1, <2>1 DEF TypeOK
  <2>4. status[t] # "deleted" /\ attemptRow[t][claim.number] = "running"
    BY <1>1, <1>6 DEF RowGone, AttemptsAreExclusive, Busy
  <2>5. status'[t] # "deleted" /\ status'[t] \in {status[t], VerdictStatus(claim)}
    BY <1>1, <2>1, <2>4 DEF TypeOK, VerdictStatus
  <2>6. VerifiedIsSound'
    <3>1. \A o \in claim.matched : Sound(stored[t][o], assembled[t][o])
      BY <1>1 DEF MatchedIsSound
    <3> QED
      BY <1>1, <1>2, <2>2, <3>1 DEF VerifiedIsSound, Sound
  <2>8. AttemptsAreExclusive'
    <3>1. \A v \in Workers \ {w} : Busy(v) =>
            /\ worker[v].transfer \in Transfers
            /\ worker[v].number \in 1..MaxAttempts
            /\ worker[v].transfer = t => worker[v].number # claim.number
      BY <1>1, BusyIsClaim DEF AttemptsAreExclusive, Busy
    <3>2. \A u \in Transfers : status'[u] # "deleted" => status[u] # "deleted"
      BY <2>2, <2>4
    <3> QED
      BY <1>3, <2>2, <2>3, <3>1, <3>2 DEF AttemptsAreExclusive, Busy
  <2>9. CompleteIsRecorded'
    <3> SUFFICES ASSUME NEW u \in Transfers, status'[u] = "complete"
                 PROVE  /\ \A o \in Objects : fileStatus'[u][o] = "verified"
                        /\ \E n \in 1..attempts'[u] : attemptRow'[u][n] = "complete"
      BY DEF CompleteIsRecorded
    <3>1. CASE u # t
      BY <1>2, <2>2, <3>1 DEF CompleteIsRecorded
    <3>2. CASE u = t /\ claim.verdict = "complete"
      <4>1. claim.matched = Objects
        BY <1>1, <3>2 DEF VerdictIsFounded
      <4>3. VerdictRow(claim) = "complete" /\ claim.number \in 1..attempts[t]
        BY <1>1, <3>2 DEF VerdictRow, NumbersAreOpened, TypeOK
      <4> QED
        BY <1>2, <2>2, <2>3, <3>2, <4>1, <4>3
    <3>3. CASE u = t /\ claim.verdict # "complete"
      <4>1. status[t] = "complete"
        BY <2>5, <3>3 DEF VerdictStatus
      <4>2. PICK n \in 1..attempts[t] : attemptRow[t][n] = "complete"
        BY <1>1, <4>1 DEF CompleteIsRecorded
      <4>3. n \in 1..MaxAttempts /\ n # claim.number
        BY <1>1, <2>4, <4>2, VerificationAssumption DEF TypeOK
      <4>4. \A o \in Objects : fileStatus'[t][o] = "verified"
        BY <1>1, <2>2, <4>1 DEF CompleteIsRecorded
      <4> QED
        BY <1>2, <2>3, <3>3, <4>2, <4>3, <4>4
    <3> QED
      BY <3>1, <3>2, <3>3
  <2> QED
    BY <1>4, <2>6, <2>8, <2>9
<1> QED
  BY <1>5, <1>6

(* Every step keeps the invariant. *)
LEMMA NextSafe == TypeOK /\ Safe /\ [Next]_vars => Safe'
<1> SUFFICES ASSUME TypeOK, Safe, [Next]_vars PROVE Safe'
  OBVIOUS
<1>1. CASE UNCHANGED vars
  BY <1>1, FrameSafe DEF vars, rows, object, store
<1>2. ASSUME NEW w \in Workers, WorkerStep(w) \/ WorkerCrash(w) PROVE Safe'
  BY <1>2, ClaimSafe, ReadSafe, CommitSafe DEF WorkerStep
<1>3. ASSUME NEW t \in Transfers, NEW o \in Objects,
             UploadStep(t, o) \/ delete_transfer_object(t, o)
      PROVE  Safe'
  <2>1. ASSUME \/ initiate_multipart(t, o) \/ complete_multipart(t, o)
               \/ \E u \in Uploads : initiate_multipart_commit(t, o, u)
        PROVE  Safe'
    <3>1. UNCHANGED <<status, attempts, fileStatus, attemptRow, stored, assembled, worker>>
      BY <2>1 DEF initiate_multipart, complete_multipart, initiate_multipart_commit, rows, object
    <3> QED
      BY <3>1, FrameSafe
  <2> QED
    BY <1>3, <2>1, StoredSafe, RecordedSafe, DeleteSafe DEF UploadStep
<1>4. ASSUME NEW t \in Transfers, finalize_transfer_commit(t) PROVE Safe'
  <2>1. CASE RowGone(t)
    BY <1>4, <2>1, FrameSafe DEF finalize_transfer_commit, object, store
  <2>2. CASE ~ RowGone(t)
    BY <1>4, <2>2, FinalizingSafe DEF finalize_transfer_commit, RowGone, object, store
  <2> QED
    BY <2>1, <2>2
<1>5. ASSUME NEW t \in Transfers, retry_failed_transfer(t) PROVE Safe'
  BY <1>5, FinalizingSafe DEF retry_failed_transfer, RetryAllowed, object, store
<1>6. ASSUME NEW t \in Transfers,
             \/ finalize_transfer_check(t) \/ delete_transfer_lock(t)
             \/ delete_transfer_rollback(t) \/ LeaseExpires(t)
      PROVE  Safe'
  BY <1>6, FrameSafe
  DEF finalize_transfer_check, delete_transfer_lock, delete_transfer_rollback, LeaseExpires, rows,
      object, store
<1>7. ASSUME NEW t \in Transfers, DeleteEnds(t) PROVE Safe'
  BY <1>6, <1>7, DeleteSafe DEF DeleteEnds
<1> QED
  BY <1>1, <1>2, <1>3, <1>4, <1>5, <1>6, <1>7 DEF Next

(* The invariant holds in every reachable state. *)
LEMMA Invariance == Spec => [](TypeOK /\ Safe)
<1>1. Init => TypeOK /\ Safe
  BY InitTypeOK, InitSafe
<1>2. TypeOK /\ Safe /\ [Next]_vars => TypeOK' /\ Safe'
  BY NextTypeOK, NextSafe
<1> QED
  BY <1>1, <1>2, PTL DEF Spec

(* verify_claim makes a transfer complete only on evidence, and no race of workers, handlers
   and expired leases leaves a complete transfer without it.                                *)
THEOREM CompleteRestsOnEvidence == Spec => []CompleteIsVerified
<1>1. TypeOK /\ Safe => CompleteIsVerified
  BY SafeIsVerified
<1> QED
  BY Invariance, <1>1, PTL

(* claim_transfer's row lock gives every worker an attempt of its own. *)
THEOREM ClaimsAreExclusive == Spec => []AttemptsAreExclusive
<1>1. Safe => AttemptsAreExclusive
  BY DEF Safe
<1> QED
  BY Invariance, <1>1, PTL

-----------------------------------------------------------------------------
(* Deletion *)

(* Nothing lies under the object's key and storage holds no upload that could be put there. *)
Cleared(t, o) ==
    stored[t][o] = "absent" /\ \A u \in Uploads : uploads[t][o][u] \notin InStorage

(* The upload the DELETE read in the object's row is the only one that could. *)
OnlyToAbort(t, o) == \A u \in Uploads \ {toAbort[t][o]} : uploads[t][o][u] \notin InStorage

(* What a DELETE has done to an object that no upload outlives: DeletedIsGone is not inductive
   without the uploads, nor without what a DELETE under way still has to abort.              *)
Gone ==
    \A t \in Transfers : \A o \in Objects \ outlived[t] :
        /\ status[t] = "deleted" => Cleared(t, o)
        /\ t \in purging /\ o \in toDelete[t] => OnlyToAbort(t, o)
        /\ t \in purging /\ o \notin toDelete[t] => Cleared(t, o)

LEMMA InitGone == Init => Gone
  BY DEF Init, Gone

(* No step takes a transfer out of "deleted" or adds to the uploads that outlived it. *)
LEMMA DeletedStays ==
  ASSUME TypeOK, [Next]_vars, NEW t \in Transfers, status[t] = "deleted"
  PROVE  status'[t] = "deleted" /\ outlived'[t] = outlived[t]
<1>1. CASE UNCHANGED vars
  BY <1>1 DEF vars, rows, purge
<1>2. ASSUME NEW w \in Workers, WorkerStep(w) \/ WorkerCrash(w)
      PROVE  status'[t] = "deleted" /\ outlived'[t] = outlived[t]
  <2>1. CASE claim_transfer(w)
    BY <2>1 DEF TypeOK, claim_transfer, NextClaim, Claimable, purge
  <2>2. CASE verify_claim_commit(w)
    <3>1. worker[w].transfer \in Transfers
      BY <2>2, BusyIsClaim DEF verify_claim_commit, Busy
    <3> QED
      BY <2>2, <3>1 DEF TypeOK, verify_claim_commit, RowGone, purge
  <2> QED
    BY <1>2, <2>1, <2>2 DEF WorkerStep, WorkerCrash, verify_claim_load, verify_transport_object,
                            verify_claim_verdict, rows, purge
<1>3. ASSUME NEW s \in Transfers, NEW p \in Objects, UploadStep(s, p)
      PROVE  status'[t] = "deleted" /\ outlived'[t] = outlived[t]
  BY <1>3 DEF TypeOK, UploadStep, initiate_multipart, initiate_multipart_commit,
              complete_multipart, complete_multipart_stored, complete_multipart_commit, rows, purge
<1>4. ASSUME NEW s \in Transfers,
             \/ \E p \in Objects : delete_transfer_object(s, p)
             \/ finalize_transfer_check(s) \/ delete_transfer_lock(s) \/ LeaseExpires(s)
      PROVE  status'[t] = "deleted" /\ outlived'[t] = outlived[t]
  BY <1>4 DEF TypeOK, delete_transfer_object, finalize_transfer_check, delete_transfer_lock,
              LeaseExpires, rows, purge
<1>5. ASSUME NEW s \in Transfers,
             finalize_transfer_commit(s) \/ retry_failed_transfer(s) \/ DeleteEnds(s)
      PROVE  status'[t] = "deleted" /\ outlived'[t] = outlived[t]
  BY <1>5 DEF TypeOK, finalize_transfer_commit, RowGone, retry_failed_transfer, RetryAllowed,
              DeleteEnds, delete_transfer_commit, delete_transfer_rollback, rows, purge
<1> QED
  BY <1>1, <1>2, <1>3, <1>4, <1>5 DEF Next

(* Steps that leave storage and the DELETEs alone, and delete no row. *)
LEMMA FrameGone ==
  ASSUME Gone, UNCHANGED <<uploads, stored, purge>>,
         \A t \in Transfers : status'[t] = "deleted" => status[t] = "deleted"
  PROVE  Gone'
  BY DEF Gone, Cleared, OnlyToAbort, purge

(* An upload in storage moves on.  That disturbs no object storage has no upload of, nor one
   whose only upload is the one the DELETE will abort.                                      *)
LEMMA MoveGone ==
  ASSUME TypeOK, Gone, NEW t \in Transfers, NEW o \in Objects, NEW u \in Uploads,
         NEW next \in UploadState, Moves(t, o, u, next),
         next \in InStorage => uploads[t][o][u] \in InStorage,
         \A r \in Transfers, p \in Objects :
            stored'[r][p] # stored[r][p] => r = t /\ p = o /\ uploads[t][o][u] \in InStorage,
         UNCHANGED <<status, purge>>
  PROVE  Gone'
<1>1. \A r \in Transfers, p \in Objects, v \in Uploads :
        uploads'[r][p][v] \in InStorage => uploads[r][p][v] \in InStorage
  BY MovesTypeOK
<1>2. ASSUME NEW r \in Transfers, NEW p \in Objects
      PROVE  Cleared(r, p) => Cleared(r, p)'
  BY <1>1 DEF Cleared
<1>3. ASSUME NEW r \in Transfers, NEW p \in Objects
      PROVE  OnlyToAbort(r, p) => OnlyToAbort(r, p)'
  BY <1>1 DEF OnlyToAbort, purge
<1> QED
  BY <1>2, <1>3 DEF Gone, purge

(* Only a request that creates an upload during the DELETE adds one it does not see. *)
LEMMA UploadGone ==
  ASSUME TypeOK, Gone, NEW t \in Transfers, NEW o \in Objects, UploadStep(t, o)
  PROVE  Gone'
<1>0. /\ {"open", "completing", "assembled", "over"} \subseteq UploadState
      /\ "assembled" \notin InStorage /\ "over" \notin InStorage
      /\ {"created", "open", "completing"} \subseteq InStorage
  BY DEF UploadState, InStorage
<1>1. CASE initiate_multipart(t, o)
  <2>1. PICK u \in Uploads : Moves(t, o, u, "created")
    BY <1>1 DEF initiate_multipart
  <2>2. \A r \in Transfers, p \in Objects : r # t \/ p # o =>
           \A v \in Uploads : uploads'[r][p][v] = uploads[r][p][v]
    BY <2>1, MovesTypeOK DEF UploadState
  <2>3. /\ UNCHANGED <<status, stored, purging, toDelete, toAbort>> /\ status[t] # "deleted"
        /\ t \in purging => o \in outlived'[t]
        /\ \A r \in Transfers : outlived[r] \subseteq outlived'[r]
    BY <1>1 DEF TypeOK, initiate_multipart, rows
  <2>4. ASSUME NEW r \in Transfers, NEW p \in Objects, r # t \/ p # o
        PROVE  (Cleared(r, p) => Cleared(r, p)') /\ (OnlyToAbort(r, p) => OnlyToAbort(r, p)')
    BY <2>2, <2>3, <2>4 DEF Cleared, OnlyToAbort
  <2> QED
    BY <2>3, <2>4 DEF Gone
<1>2. ASSUME NEW u \in Uploads, initiate_multipart_commit(t, o, u) PROVE Gone'
  BY <1>0, <1>2, MoveGone DEF initiate_multipart_commit
<1>3. CASE complete_multipart(t, o)
  <2>1. objUpload[t][o] \in Uploads
    BY <1>3 DEF TypeOK, complete_multipart
  <2> QED
    BY <1>0, <1>3, <2>1, MoveGone DEF complete_multipart, rows
<1>4. ASSUME NEW u \in Uploads, complete_multipart_stored(t, o, u) PROVE Gone'
  <2>1. \A r \in Transfers, p \in Objects : stored'[r][p] # stored[r][p] => r = t /\ p = o
    BY <1>4 DEF TypeOK, complete_multipart_stored
  <2> QED
    BY <1>0, <1>4, <2>1, MoveGone DEF complete_multipart_stored, rows
<1>5. ASSUME NEW u \in Uploads, complete_multipart_commit(t, o, u) PROVE Gone'
  BY <1>0, <1>5, MoveGone DEF complete_multipart_commit
<1> QED
  BY <1>1, <1>2, <1>3, <1>4, <1>5 DEF UploadStep

(* The DELETE reads every row, clears object after object, and deletes the row after the last. *)
LEMMA DeleteGone ==
  ASSUME TypeOK, Gone, NEW t \in Transfers
  PROVE  /\ delete_transfer_lock(t) => Gone'
         /\ \A o \in Objects : delete_transfer_object(t, o) => Gone'
         /\ DeleteEnds(t) => Gone'
<1>1. ASSUME delete_transfer_lock(t) PROVE Gone'
  <2>1. /\ UNCHANGED <<status, uploads, stored>> /\ status[t] # "deleted"
        /\ purging' = purging \cup {t} /\ toDelete'[t] = Objects
        /\ \A r \in Transfers \ {t} : /\ toDelete'[r] = toDelete[r] /\ toAbort'[r] = toAbort[r]
                                       /\ outlived'[r] = outlived[r]
    BY <1>1 DEF TypeOK, delete_transfer_lock, rows, store
  <2>2. ASSUME NEW o \in Objects \ outlived'[t] PROVE OnlyToAbort(t, o)'
    BY <1>1, <2>1, <2>2 DEF TypeOK, delete_transfer_lock, OnlyToAbort
  <2>3. ASSUME NEW r \in Transfers \ {t}, NEW o \in Objects
        PROVE  (Cleared(r, o) => Cleared(r, o)') /\ (OnlyToAbort(r, o) => OnlyToAbort(r, o)')
    BY <2>1 DEF Cleared, OnlyToAbort
  <2> QED
    BY <2>1, <2>2, <2>3 DEF Gone
<1>2. ASSUME NEW o \in Objects, delete_transfer_object(t, o) PROVE Gone'
  <2>1. /\ UNCHANGED <<status, purging, toAbort, outlived>>
        /\ stored'[t][o] = "absent" /\ o \in toDelete[t]
        /\ \A r \in Transfers, p \in Objects : r # t \/ p # o => stored'[r][p] = stored[r][p]
        /\ \A r \in Transfers, p \in Objects :
              r # t \/ p # o => (p \in toDelete'[r] <=> p \in toDelete[r])
        /\ o \notin toDelete'[t]
    BY <1>2 DEF TypeOK, delete_transfer_object, rows
  <2>2. /\ \A r \in Transfers, p \in Objects, v \in Uploads :
             uploads'[r][p][v] \in InStorage => uploads[r][p][v] \in InStorage
        /\ toAbort[t][o] # NoUpload => uploads'[t][o][toAbort[t][o]] \notin InStorage
    <3>1. CASE toAbort[t][o] = NoUpload /\ UNCHANGED uploads
      BY <3>1
    <3>2. CASE toAbort[t][o] # NoUpload /\ Moves(t, o, toAbort[t][o], "over")
      <4>1. toAbort[t][o] \in Uploads /\ "over" \in UploadState /\ "over" \notin InStorage
        BY <3>2 DEF TypeOK, UploadState, InStorage
      <4> QED
        BY <3>2, <4>1, MovesTypeOK
    <3> QED
      BY <1>2, <3>1, <3>2 DEF delete_transfer_object
  <2>3. OnlyToAbort(t, o) => Cleared(t, o)'
    BY <2>1, <2>2 DEF OnlyToAbort, Cleared, Uploads, NoUpload
  <2>4. ASSUME NEW r \in Transfers, NEW p \in Objects
        PROVE  (Cleared(r, p) => Cleared(r, p)') /\ (OnlyToAbort(r, p) => OnlyToAbort(r, p)')
    BY <2>1, <2>2 DEF Cleared, OnlyToAbort
  <2> QED
    BY <2>1, <2>3, <2>4 DEF Gone
<1>3. ASSUME DeleteEnds(t) PROVE Gone'
  <2>1. /\ UNCHANGED <<uploads, stored, outlived>> /\ purging' = purging \ {t}
        /\ \A r \in Transfers \ {t} : /\ status'[r] = status[r] /\ toDelete'[r] = toDelete[r]
                                       /\ toAbort'[r] = toAbort[r]
        /\ status'[t] = "deleted" /\ status[t] # "deleted" => t \in purging /\ toDelete[t] = {}
    BY <1>3 DEF TypeOK, DeleteEnds, delete_transfer_commit, delete_transfer_rollback, DeleteOver,
                rows, store
  <2>2. ASSUME NEW r \in Transfers, NEW p \in Objects
        PROVE  /\ Cleared(r, p) => Cleared(r, p)'
               /\ r # t /\ OnlyToAbort(r, p) => OnlyToAbort(r, p)'
    BY <2>1 DEF Cleared, OnlyToAbort
  <2> QED
    BY <2>1, <2>2 DEF Gone
<1> QED
  BY <1>1, <1>2, <1>3

LEMMA NextGone == TypeOK /\ Gone /\ [Next]_vars => Gone'
<1> SUFFICES ASSUME TypeOK, Gone, [Next]_vars PROVE Gone'
  OBVIOUS
<1>1. CASE UNCHANGED vars
  BY <1>1, FrameGone DEF vars, rows, store
<1>2. ASSUME NEW w \in Workers, WorkerStep(w) \/ WorkerCrash(w) PROVE Gone'
  <2>1. UNCHANGED <<uploads, stored, purge>>
    BY <1>2 DEF WorkerStep, WorkerCrash, claim_transfer, verify_claim_load,
                verify_transport_object, verify_claim_verdict, verify_claim_commit, store
  <2>2. ASSUME NEW t \in Transfers, status'[t] = "deleted" PROVE status[t] = "deleted"
    <3>1. CASE claim_transfer(w)
      BY <2>2, <3>1 DEF TypeOK, claim_transfer
    <3>2. CASE verify_claim_commit(w)
      <4>1. VerdictStatus(worker[w]) # "deleted"
        BY DEF VerdictStatus
      <4>2. \/ status' = status
            \/ status' = [status EXCEPT ![worker[w].transfer] = VerdictStatus(worker[w])]
        BY <3>2 DEF verify_claim_commit
      <4> QED
        BY <2>2, <4>1, <4>2 DEF TypeOK
    <3> QED
      BY <1>2, <2>2, <3>1, <3>2 DEF WorkerStep, WorkerCrash, verify_claim_load,
                             verify_transport_object, verify_claim_verdict, rows
  <2> QED
    BY <2>1, <2>2, FrameGone
<1>3. ASSUME NEW t \in Transfers, finalize_transfer_commit(t) \/ retry_failed_transfer(t)
      PROVE  Gone'
  <2>1. UNCHANGED <<uploads, stored, purge>>
    BY <1>3 DEF finalize_transfer_commit, retry_failed_transfer, store
  <2>2. \A r \in Transfers : status'[r] = "deleted" => status[r] = "deleted"
    BY <1>3 DEF TypeOK, finalize_transfer_commit, retry_failed_transfer
  <2> QED
    BY <2>1, <2>2, FrameGone
<1>4. ASSUME NEW t \in Transfers, finalize_transfer_check(t) \/ LeaseExpires(t) PROVE Gone'
  <2>1. UNCHANGED <<status, uploads, stored, purge>>
    BY <1>4 DEF finalize_transfer_check, LeaseExpires, rows, store
  <2> QED
    BY <2>1, FrameGone
<1> QED
  BY <1>1, <1>2, <1>3, <1>4, UploadGone, DeleteGone DEF Next

LEMMA GoneInvariance == Spec => [](TypeOK /\ Gone)
<1>1. Init => TypeOK /\ Gone
  BY InitTypeOK, InitGone
<1>2. TypeOK /\ Gone /\ [Next]_vars => TypeOK' /\ Gone'
  BY NextTypeOK, NextGone
<1> QED
  BY <1>1, <1>2, PTL DEF Spec

(* delete_transfer is final: nothing brings back a deleted transfer, nor one of its objects
   that no upload outlived.                                                                 *)
THEOREM DeletionIsFinal == Spec => DeletedIsGone
<1> DEFINE Final == \A t \in Transfers : status[t] = "deleted" =>
                      /\ status'[t] = "deleted"
                      /\ \A o \in Objects \ outlived[t] : stored'[t][o] = "absent"
<1>1. TypeOK /\ Gone /\ [Next]_vars => [Final]_vars
  <2> SUFFICES ASSUME TypeOK, Gone, [Next]_vars, NEW t \in Transfers, status[t] = "deleted"
               PROVE  /\ status'[t] = "deleted"
                      /\ \A o \in Objects \ outlived[t] : stored'[t][o] = "absent"
    OBVIOUS
  <2>1. status'[t] = "deleted" /\ outlived'[t] = outlived[t]
    BY DeletedStays
  <2>2. Gone'
    BY NextGone
  <2> QED
    BY <2>1, <2>2 DEF Gone, Cleared
<1> QED
  BY GoneInvariance, <1>1, PTL DEF Spec, DeletedIsGone

-----------------------------------------------------------------------------
(* Refinement: the status the Registry promises *)

(* The deployment the abstract specification describes: one ingest worker, and no second
   finalize request of a transfer while one is in progress.                               *)
OneAtATime == (\A v, w \in Workers : v = w) /\ MaxFinalizers <= 1

(* A finalize handler that passed its checks finds the row as it read it, or no row. *)
FinalizerSeesReady ==
    \A t \in Transfers :
        finalizers[t] <= 1 /\ (finalizers[t] > 0 => status[t] \in {"ready", "deleted"})

(* What a worker holds is being verified, or no longer there.  Neither fact is true with two
   finalizers or two workers: the second one commits over what the first one did.          *)
ClaimIsVerifying ==
    \A w \in Workers : Busy(w) => status[worker[w].transfer] \in {"verifying", "deleted"}

Exclusive == FinalizerSeesReady /\ ClaimIsVerifying

LEMMA InitExclusive == Init => Exclusive
  BY DEF Init, Exclusive, FinalizerSeesReady, ClaimIsVerifying, Busy, NoClaim

(* What a step may do to the status of a transfer: the commit of a finalize request, the two
   actions of the administrator, a claim, and the commit of a worker.                       *)
StatusStep(u) ==
    \/ status'[u] = status[u]
    \/ finalize_transfer_commit(u) /\ status[u] = "ready" /\ status'[u] = "finalizing"
    \/ retry_failed_transfer(u) /\ status[u] = "failed" /\ status'[u] = "finalizing"
    \/ delete_transfer_commit(u) /\ status'[u] = "deleted"
    \/ status[u] = "finalizing" /\ status'[u] = "verifying"
    \/ /\ \E w \in Workers : verify_claim_commit(w)
       /\ status[u] = "verifying" /\ status'[u] \in {"finalizing", "complete", "failed"}

(* Every step of every actor is one of those, for each transfer. *)
LEMMA NextStatusStep ==
  ASSUME TypeOK, Exclusive, [Next]_vars, NEW u \in Transfers
  PROVE  StatusStep(u)
<1> USE DEF StatusStep
<1>1. CASE UNCHANGED vars
  BY <1>1 DEF vars, rows
<1>2. ASSUME NEW w \in Workers, WorkerStep(w) \/ WorkerCrash(w) PROVE StatusStep(u)
  <2>1. CASE claim_transfer(w)
    BY <2>1 DEF TypeOK, claim_transfer, NextClaim, Claimable
  <2>2. CASE verify_claim_commit(w)
    <3>1. worker[w].transfer \in Transfers /\ Busy(w)
      BY <2>2, BusyIsClaim DEF verify_claim_commit, Busy
    <3>2. VerdictStatus(worker[w]) \in {"finalizing", "complete", "failed"}
      BY DEF VerdictStatus
    <3>3. CASE RowGone(worker[w].transfer)
      BY <2>2, <3>3 DEF verify_claim_commit
    <3>4. CASE ~ RowGone(worker[w].transfer)
      <4>1. status[worker[w].transfer] = "verifying"
        BY <3>1, <3>4 DEF Exclusive, ClaimIsVerifying, RowGone
      <4>2. \/ status' = status
            \/ status' = [status EXCEPT ![worker[w].transfer] = VerdictStatus(worker[w])]
        BY <2>2 DEF verify_claim_commit
      <4>3. CASE u = worker[w].transfer
        BY <2>2, <3>1, <3>2, <4>1, <4>2, <4>3 DEF TypeOK
      <4>4. CASE u # worker[w].transfer
        BY <4>2, <4>4 DEF TypeOK
      <4> QED
        BY <4>3, <4>4
    <3> QED
      BY <3>3, <3>4
  <2> QED
    BY <1>2, <2>1, <2>2 DEF WorkerStep, WorkerCrash, verify_claim_load, verify_transport_object,
                            verify_claim_verdict, rows
<1>3. ASSUME NEW t \in Transfers,
             \/ \E o \in Objects : UploadStep(t, o) \/ delete_transfer_object(t, o)
             \/ finalize_transfer_check(t) \/ delete_transfer_lock(t)
             \/ delete_transfer_rollback(t) \/ LeaseExpires(t)
      PROVE  StatusStep(u)
  BY <1>3 DEF UploadStep, initiate_multipart, initiate_multipart_commit, complete_multipart,
              complete_multipart_stored, complete_multipart_commit, delete_transfer_object,
              finalize_transfer_check, delete_transfer_lock, delete_transfer_rollback,
              LeaseExpires, rows
<1>4. ASSUME NEW t \in Transfers, finalize_transfer_commit(t) PROVE StatusStep(u)
  <2>1. finalizers[t] > 0 => status[t] = "ready" \/ RowGone(t)
    BY DEF Exclusive, FinalizerSeesReady, RowGone
  <2>2. CASE u = t
    BY <1>4, <2>1, <2>2 DEF TypeOK, finalize_transfer_commit
  <2>3. CASE u # t
    BY <1>4, <2>3 DEF TypeOK, finalize_transfer_commit
  <2> QED
    BY <2>2, <2>3
<1>5. ASSUME NEW t \in Transfers, retry_failed_transfer(t) PROVE StatusStep(u)
  <2>1. CASE u = t
    BY <1>5, <2>1 DEF TypeOK, retry_failed_transfer, RetryAllowed
  <2>2. CASE u # t
    BY <1>5, <2>2 DEF TypeOK, retry_failed_transfer
  <2> QED
    BY <2>1, <2>2
<1>6. ASSUME NEW t \in Transfers, delete_transfer_commit(t) PROVE StatusStep(u)
  <2>1. CASE u = t
    BY <1>6, <2>1 DEF TypeOK, delete_transfer_commit
  <2>2. CASE u # t
    BY <1>6, <2>2 DEF TypeOK, delete_transfer_commit
  <2> QED
    BY <2>1, <2>2
<1> QED
  BY <1>1, <1>2, <1>3, <1>4, <1>5, <1>6 DEF Next, DeleteEnds

(* With one worker and one finalizer nothing comes between a check and its commit. *)
LEMMA NextExclusive ==
  ASSUME OneAtATime, TypeOK, Exclusive, [Next]_vars
  PROVE  Exclusive'
<1> USE DEF Exclusive
<1>0. \A u \in Transfers : StatusStep(u)
  BY NextStatusStep
<1>1. FinalizerSeesReady'
  <2> SUFFICES ASSUME NEW u \in Transfers
               PROVE  /\ finalizers'[u] <= 1
                      /\ finalizers'[u] > 0 => status'[u] \in {"ready", "deleted"}
    BY DEF FinalizerSeesReady
  <2>1. CASE \E t \in Transfers : finalize_transfer_check(t)
    <3>1. PICK t \in Transfers : finalize_transfer_check(t)
      BY <2>1
    <3>2. CASE u = t
      <4>1. finalizers[t] = 0 /\ finalizers'[t] = 1
        BY <3>1, VerificationAssumption DEF TypeOK, OneAtATime, finalize_transfer_check
      <4> QED
        BY <3>1, <3>2, <4>1 DEF finalize_transfer_check, FinalizeAllowed, rows
    <3>3. CASE u # t
      BY <3>1, <3>3 DEF TypeOK, FinalizerSeesReady, finalize_transfer_check, rows
    <3> QED
      BY <3>2, <3>3
  <2>2. CASE \E t \in Transfers : finalize_transfer_commit(t)
    <3>1. PICK t \in Transfers : finalize_transfer_commit(t)
      BY <2>2
    <3>2. CASE u = t
      BY <3>1, <3>2 DEF TypeOK, FinalizerSeesReady, finalize_transfer_commit
    <3>3. CASE u # t
      BY <3>1, <3>3 DEF TypeOK, FinalizerSeesReady, finalize_transfer_commit
    <3> QED
      BY <3>2, <3>3
  <2>3. CASE UNCHANGED finalizers
    <3>1. status[u] \in {"ready", "deleted"} /\ finalizers[u] > 0
             => status'[u] = status[u] \/ status'[u] = "deleted"
      <4>1. CASE delete_transfer_commit(u)
        BY <4>1 DEF delete_transfer_commit, TypeOK
      <4>2. CASE UNCHANGED vars
        BY <4>2 DEF vars, rows
      <4>3. finalizers[u] > 0 => ~ finalize_transfer_commit(u)
        BY <2>3 DEF TypeOK, finalize_transfer_commit
      <4>4. StatusStep(u)
        BY <1>0
      <4> QED
        BY <4>1, <4>2, <4>3, <4>4 DEF StatusStep
    <3> QED
      BY <2>3, <3>1 DEF FinalizerSeesReady
  <2>4. ASSUME NEW w \in Workers, WorkerStep(w) \/ WorkerCrash(w) PROVE UNCHANGED finalizers
    BY <2>4 DEF WorkerStep, WorkerCrash, claim_transfer, verify_claim_load,
                verify_transport_object, verify_claim_verdict, verify_claim_commit
  <2>5. ASSUME NEW t \in Transfers, NEW o \in Objects, UploadStep(t, o)
        PROVE  UNCHANGED finalizers
    BY <2>5 DEF UploadStep, initiate_multipart, initiate_multipart_commit, complete_multipart,
                complete_multipart_stored, complete_multipart_commit
  <2>6. ASSUME NEW t \in Transfers,
               \/ \E o \in Objects : delete_transfer_object(t, o)
               \/ retry_failed_transfer(t) \/ delete_transfer_lock(t)
               \/ DeleteEnds(t) \/ LeaseExpires(t)
        PROVE  UNCHANGED finalizers
    BY <2>6 DEF delete_transfer_object, retry_failed_transfer, delete_transfer_lock, DeleteEnds,
                delete_transfer_commit, delete_transfer_rollback, LeaseExpires
  <2> QED
    BY <2>1, <2>2, <2>3, <2>4, <2>5, <2>6 DEF Next, vars
<1>2. ClaimIsVerifying'
  <2> SUFFICES ASSUME NEW w \in Workers, Busy(w)'
               PROVE  status'[worker'[w].transfer] \in {"verifying", "deleted"}
    BY DEF ClaimIsVerifying
  <2>1. CASE claim_transfer(w)
    BY <2>1 DEF TypeOK, claim_transfer
  <2>2. CASE ~ claim_transfer(w)
    <3>1. ASSUME NEW v \in Workers, verify_claim_commit(v) PROVE FALSE
      BY <3>1 DEF OneAtATime, TypeOK, verify_claim_commit, NoClaim, Busy
    <3>2. Busy(w) /\ worker'[w].transfer = worker[w].transfer
      <4>1. CASE \E v \in Workers : WorkerStep(v) \/ WorkerCrash(v)
        <5>1. WorkerStep(w) \/ WorkerCrash(w)
          BY <4>1 DEF OneAtATime
        <5> QED
          BY <2>2, <3>1, <5>1, BusyIsClaim
          DEF TypeOK, WorkerStep, WorkerCrash, verify_claim_load, verify_transport_object,
              verify_claim_verdict, NoClaim, Busy, Claims
      <4>2. CASE UNCHANGED worker
        BY <4>2 DEF Busy
      <4> QED
        BY <4>1, <4>2
        DEF Next, vars, UploadStep, initiate_multipart, initiate_multipart_commit, complete_multipart,
            complete_multipart_stored, complete_multipart_commit, delete_transfer_object, finalize_transfer_check,
            finalize_transfer_commit, retry_failed_transfer, delete_transfer_lock, DeleteEnds,
            delete_transfer_commit, delete_transfer_rollback, LeaseExpires
    <3>3. worker[w].transfer \in Transfers /\ status[worker[w].transfer] \in {"verifying", "deleted"}
      BY <3>2, BusyIsClaim DEF ClaimIsVerifying
    <3>4. StatusStep(worker[w].transfer)
      BY <3>3, <1>0
    <3> QED
      BY <3>1, <3>2, <3>3, <3>4 DEF StatusStep
  <2> QED
    BY <2>1, <2>2
<1> QED
  BY <1>1, <1>2

LEMMA ExclusiveInvariance == ASSUME OneAtATime PROVE Spec => [](TypeOK /\ Exclusive)
<1>1. Init => TypeOK /\ Exclusive
  BY InitTypeOK, InitExclusive
<1>2. TypeOK /\ Exclusive /\ [Next]_vars => TypeOK' /\ Exclusive'
  BY NextTypeOK, NextExclusive
<1> QED
  BY <1>1, <1>2, PTL DEF Spec

(* With one worker and one finalizer at a time the Registry keeps the promise Courier relies
   on: the status of every transfer takes only the steps of RegistryTransfer.               *)
THEOREM RegistryTransferIsImplemented ==
  ASSUME OneAtATime PROVE Spec => ImplementsRegistryTransfer
<1> DEFINE Promised == \A t \in Transfers : Registry(t)!Next \/ UNCHANGED status[t]
<1>1. Init => \A t \in Transfers : Registry(t)!Init
  BY DEF Init, Registry!Init
<1>2. ASSUME TypeOK, Exclusive, [Next]_vars PROVE Promised
  <2> SUFFICES ASSUME NEW t \in Transfers PROVE Registry(t)!Next \/ status'[t] = status[t]
    OBVIOUS
  <2>1. StatusStep(t)
    BY <1>2, NextStatusStep
  <2>2. status[t] # "none"
    BY <1>2 DEF TypeOK, TransferStatus
  <2> QED
    BY <2>1, <2>2 DEF StatusStep, Registry!Next, Registry!Finalize, Registry!Claim,
                      Registry!Requeue, Registry!Verdict, Registry!Retry, Registry!Delete
<1>3. TypeOK /\ Exclusive /\ [Next]_vars => [Promised]_vars
  BY <1>2
<1> QED
  BY <1>1, <1>3, ExclusiveInvariance, PTL DEF Spec, ImplementsRegistryTransfer

(* Under the same conditions a mismatch stays visible: a failed transfer is taken up again by
   an administrator's retry or deletion alone.                                              *)
THEOREM FailureIsKept == ASSUME OneAtATime PROVE Spec => FailedAwaitsOperator
<1> DEFINE Awaits == \A t \in Transfers : status[t] = "failed" /\ status'[t] # "failed" =>
                        retry_failed_transfer(t) \/ delete_transfer_commit(t)
<1>1. TypeOK /\ Exclusive /\ [Next]_vars => [Awaits]_vars
  <2> SUFFICES ASSUME TypeOK, Exclusive, [Next]_vars PROVE Awaits
    OBVIOUS
  <2> QED
    BY NextStatusStep DEF StatusStep
<1> QED
  BY <1>1, ExclusiveInvariance, PTL DEF Spec, FailedAwaitsOperator
=============================================================================
