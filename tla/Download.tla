------------------------------- MODULE Download -------------------------------
(***************************************************************************)
(* Retrieval of verified datasets: the plan from the Registry, every       *)
(* object fetched into a cache with byte ranges, its files restored and    *)
(* verified in a partial directory, and that directory renamed to the      *)
(* destination.                                                            *)
(*                                                                         *)
(* Courier Desktop keeps the partial directory, named after the dataset,   *)
(* when a retrieval stops, and resumes in it; the retrieve command works   *)
(* in a directory of its own and removes it when it fails.  All datasets   *)
(* here have the same name and the same destination folder.                *)
(*                                                                         *)
(* Connections break, storage ignores ranges, the user pauses, the process *)
(* dies (and with the machine loses what was not synced), the dataset is   *)
(* deleted at the Registry, and a command runs beside Courier Desktop.     *)
(*                                                                         *)
(* A file on disk is told apart by the dataset whose content it has; an    *)
(* object is a row of numbered chunks, and its size is always known.       *)
(***************************************************************************)
EXTENDS Naturals, Sequences, FiniteSets, SequencesExt

CONSTANTS
    Desktop,    \* datasets retrieved by Courier Desktop
    Cli,        \* datasets retrieved by the retrieve command
    Resumed,    \* the datasets whose user starts again when a retrieval stops
    Layout,     \* per dataset: its objects, each the paths of its files in order
    Chunks,     \* chunks of an object
    MaxTrouble  \* bound: broken connections, pauses, deaths, deletions, together

Datasets   == Desktop \cup Cli
Objects(d) == DOMAIN Layout[d]
Paths(d)   == UNION {ToSet(Layout[d][o]) : o \in Objects(d)}
AllPaths   == UNION {Paths(d) : d \in Datasets}
Slots      == UNION {{<<d, o>> : o \in Objects(d)} : d \in Datasets}   \* names in the caches

None   == "none"
Torn   == "torn"      \* a file with wrong content
Shared == "shared"    \* the partial directory of Courier Desktop

ASSUME DownloadAssumption ==
    /\ Desktop \cap Cli = {} /\ Resumed \subseteq Datasets /\ Chunks \in Nat \ {0} /\ MaxTrouble \in Nat
    /\ Datasets \cap {None, Torn, Shared} = {}
    /\ Layout \in [Datasets -> Seq(Seq(STRING) \ {<<>>}) \ {<<>>}]

VARIABLES
    dirs,       \* the partial directories
    taken,      \* something is at the destination
    task,       \* per dataset, where its retrieval is
    pausing,    \* per dataset, the pause flag in download_controls
    published,  \* history: what was published for a dataset, and who had worked on it
    users,      \* history: the datasets that worked in a partial directory
    deleted,    \* the datasets deleted at the Registry
    torn,       \* history: a machine went down and unsynced bytes were lost
    trouble     \* what went wrong so far

disk == <<dirs, taken, published, users>>
vars == <<disk, task, pausing, deleted, torn, trouble>>

Lost    == 0                              \* a chunk with wrong content
Whole   == [i \in 1..Chunks |-> i]
Trouble == trouble < MaxTrouble /\ trouble' = trouble + 1

(* The partial directory a dataset is restored in: named after the dataset, or private. *)
Dir(d) == IF d \in Desktop THEN Shared ELSE d
Dirs   == {Dir(d) : d \in Datasets}

(* files: whose content is at a path; cache: the cache directory is there; started: the
   .part files that exist; parts: what is in them; objects: the fetched ones, <<>> for no
   such file.                                                                             *)
Absent == [files |-> [p \in AllPaths |-> None], cache |-> FALSE, started |-> {},
           parts |-> [s \in Slots |-> <<>>], objects |-> [s \in Slots |-> <<>>]]

Unpublished == [files |-> Absent.files, users |-> {}]

Idle        == [pc |-> "idle", o |-> 0, n |-> 0, at |-> 0]
AtObject(o) == [pc |-> "object", o |-> o, n |-> 0, at |-> 0]

Init ==
    /\ dirs = [k \in Dirs |-> Absent] /\ taken = FALSE
    /\ task = [d \in Datasets |-> Idle] /\ pausing = [d \in Datasets |-> FALSE]
    /\ published = [d \in Datasets |-> Unpublished] /\ users = [k \in Dirs |-> {}]
    /\ deleted = {} /\ torn = FALSE /\ trouble = 0

-----------------------------------------------------------------------------
At(d, pc)   == task[d].pc = pc
Goto(d, pc) == task' = [task EXCEPT ![d].pc = pc]
Mine(d)     == dirs[Dir(d)]
Slot(d)     == <<d, task[d].o>>
Part(d)     == Mine(d).parts[Slot(d)]
Fetched(d)  == Mine(d).objects[Slot(d)]
Disk(d, rows) == dirs' = [dirs EXCEPT ![Dir(d)] = rows] /\ UNCHANGED <<taken, published, users>>

NextObject(d) == task' = [task EXCEPT ![d] = AtObject(task[d].o + 1)]

(* The end of a retrieval with an error: the retrieve command removes its directories. *)
Fails(d) ==
    /\ task' = [task EXCEPT ![d] = Idle]
    /\ IF d \in Cli THEN Disk(d, Absent) ELSE UNCHANGED disk

(* The pause flag of a retrieval that starts. *)
OldFlag(d) == pausing[d]   \* mutant
NewFlag(d) == FALSE

(* download_dataset_inner, or the command, up to the loop over the objects.  It is refused
   while the destination is there and for a deleted dataset, which changes nothing; the
   interface runs one retrieval at a time.  A directory left by an earlier attempt is used
   again.                                                                                  *)
download_dataset(d) ==
    /\ At(d, "idle") /\ d \notin deleted /\ ~taken
    /\ d \in Desktop => \A e \in Desktop : At(e, "idle")
    /\ published[d] = Unpublished   \* bound: each dataset is retrieved once
    /\ dirs' = [dirs EXCEPT ![Dir(d)] = [(IF d \in Desktop THEN @ ELSE Absent)
                                           EXCEPT !.cache = TRUE]]
    /\ users' = [users EXCEPT ![Dir(d)] = @ \cup {d}]
    /\ pausing' = [pausing EXCEPT ![d] = NewFlag(d)]
    /\ task' = [task EXCEPT ![d] = AtObject(1)]
    /\ UNCHANGED <<taken, published, deleted, torn, trouble>>

pause_download(d) ==
    /\ d \in Desktop /\ ~At(d, "idle") /\ ~pausing[d] /\ Trouble
    /\ pausing' = [pausing EXCEPT ![d] = TRUE]
    /\ UNCHANGED <<disk, task, deleted, torn>>

(* restored_file_matches: its content has the manifest's digest. *)
Matches(d, p) == Mine(d).files[p] = d

Restored(d, o) == \A p \in ToSet(Layout[d][o]) : Matches(d, p)

(* The head of the loop: stop, pass over an object whose files are there, or fetch it with
   a URL the Registry gives for a dataset it still has.                                    *)
next_object(d) ==
    /\ At(d, "object") /\ task[d].o \in Objects(d)
    /\ \/ pausing[d] /\ Fails(d)
       \/ /\ ~pausing[d] /\ d \in Desktop /\ Restored(d, task[d].o)
          /\ NextObject(d) /\ UNCHANGED disk
       \/ /\ ~pausing[d] /\ (d \in Desktop => ~Restored(d, task[d].o))
          /\ \/ d \in deleted /\ Fails(d)
             \/ d \notin deleted /\ Goto(d, "fetch") /\ UNCHANGED disk
    /\ UNCHANGED <<pausing, deleted, torn, trouble>>

-----------------------------------------------------------------------------
(* download_object_resumable *)

(* The .part file becomes the object. *)
Complete(d) ==
    Disk(d, [Mine(d) EXCEPT !.objects[Slot(d)] = Part(d), !.parts[Slot(d)] = <<>>,
                            !.started = @ \ {Slot(d)}])

(* An object or a complete .part file of an earlier attempt is taken as it is. *)
resume_object(d) ==
    /\ At(d, "fetch")
    /\ \/ Len(Fetched(d)) = Chunks /\ Goto(d, "restore") /\ UNCHANGED disk
       \/ /\ Fetched(d) = <<>> /\ ~pausing[d] /\ Len(Part(d)) = Chunks
          /\ Complete(d) /\ Goto(d, "restore")
       \/ Fetched(d) = <<>> /\ pausing[d] /\ Fails(d)
    /\ UNCHANGED <<pausing, deleted, torn, trouble>>

(* What is appended to when storage answers 200 to a range: the file starts again. *)
KeepsPart(d) == Part(d)   \* mutant
RestartedPart(d) == <<>>

(* The request from the end of the .part file, and storage's answer: the range, the whole
   object, or an error.                                                                   *)
request_object(d) ==
    /\ At(d, "fetch") /\ Fetched(d) = <<>> /\ Len(Part(d)) < Chunks
    /\ ~pausing[d]
    /\ \/ /\ d \notin deleted
          /\ task' = [task EXCEPT ![d].pc = "stream", ![d].at = Len(Part(d)) + 1]
          /\ Disk(d, [Mine(d) EXCEPT !.started = @ \cup {Slot(d)}]) /\ UNCHANGED trouble
       \/ /\ d \notin deleted /\ Part(d) # <<>> /\ Trouble
          /\ task' = [task EXCEPT ![d].pc = "stream", ![d].at = 1]
          /\ Disk(d, [Mine(d) EXCEPT !.parts[Slot(d)] = RestartedPart(d)])
       \/ d \in deleted /\ Fails(d) /\ UNCHANGED trouble
       \/ Trouble /\ Fails(d)
    /\ UNCHANGED <<pausing, deleted, torn>>

(* A chunk arrives, or the pause flag or a broken connection ends the call.  *)
receive_chunk(d) ==
    /\ At(d, "stream") /\ task[d].at <= Chunks
    /\ \/ /\ ~pausing[d]
          /\ Disk(d, [Mine(d) EXCEPT !.parts[Slot(d)] = Append(@, task[d].at)])
          /\ task' = [task EXCEPT ![d].at = @ + 1]
          /\ UNCHANGED trouble
       \/ pausing[d] /\ Fails(d) /\ UNCHANGED trouble
       \/ Trouble /\ Fails(d)
    /\ UNCHANGED <<pausing, deleted, torn>>

(* The end of the answer: the size must be the expected one. *)
object_received(d) ==
    /\ At(d, "stream") /\ task[d].at > Chunks
    /\ IF Len(Part(d)) = Chunks
       THEN Complete(d) /\ Goto(d, "restore")
       ELSE Fails(d)
    /\ UNCHANGED <<pausing, deleted, torn, trouble>>

-----------------------------------------------------------------------------
(* What a file has once it is written from the fetched object, and whether that is what the
   manifest says.                                                                         *)
Written(d) == IF Fetched(d) = Whole THEN d ELSE Torn
SizeOnly(d) == Written(d) # None   \* mutant
Verified(d) == Written(d) = d

Path(d) == Layout[d][task[d].o][task[d].n + 1]

(* One file of the object is written and verified; a failure leaves what was written. *)
restore_file(d) ==
    /\ At(d, "restore")
    /\ IF Verified(d)
       THEN /\ Disk(d, [Mine(d) EXCEPT !.files[Path(d)] = Written(d)])
            /\ task' = [task EXCEPT ![d].n = @ + 1,
                  ![d].pc = IF task[d].n + 1 = Len(Layout[d][task[d].o]) THEN "remove" ELSE "restore"]
       ELSE /\ task' = [task EXCEPT ![d] = Idle]
            /\ Disk(d, IF d \in Cli THEN Absent ELSE [Mine(d) EXCEPT !.files[Path(d)] = Torn])
    /\ UNCHANGED <<pausing, deleted, torn, trouble>>

remove_object(d) ==
    /\ At(d, "remove")
    /\ Disk(d, [Mine(d) EXCEPT !.objects[Slot(d)] = <<>>]) /\ NextObject(d)
    /\ UNCHANGED <<pausing, deleted, torn, trouble>>

(* Courier removes the cache directory, which must be empty, and writes the manifest; the
   command removes its cache with all that is in it.                                     *)
CacheIsEmpty(d) ==
    Mine(d).started = {} /\ \A s \in Slots : Mine(d).objects[s] = <<>>

finish_download(d) ==
    /\ At(d, "object") /\ task[d].o \notin Objects(d)
    /\ IF d \in Cli \/ CacheIsEmpty(d)
       THEN Disk(d, [Mine(d) EXCEPT !.cache = FALSE]) /\ Goto(d, "publish")
       ELSE Fails(d)
    /\ UNCHANGED <<pausing, deleted, torn, trouble>>

(* The rename, which fails once something is at the destination. *)
publish(d) ==
    /\ At(d, "publish")
    /\ IF ~taken
       THEN /\ taken' = TRUE
            /\ published' = [published EXCEPT ![d] = [files |-> Mine(d).files, users |-> users[Dir(d)]]]
            /\ dirs' = [dirs EXCEPT ![Dir(d)] = Absent]
            /\ users' = [users EXCEPT ![Dir(d)] = {}]
            /\ task' = [task EXCEPT ![d] = Idle]
       ELSE Fails(d)
    /\ UNCHANGED <<pausing, deleted, torn, trouble>>

-----------------------------------------------------------------------------
(* The user moves the published folder away. *)
UserMovesFolder ==
    /\ taken /\ Trouble /\ taken' = FALSE
    /\ UNCHANGED <<dirs, published, users, task, pausing, deleted, torn>>

RegistryDeletes(d) ==
    /\ d \notin deleted /\ Trouble /\ deleted' = deleted \cup {d}
    /\ UNCHANGED <<disk, task, pausing, torn>>

(* The process dies, in the middle of a file perhaps.  When the machine goes down, the end of
   an unsynced .part file may be lost.  The directory of a command that died is never used
   again.                                                                                 *)
Crash ==
    /\ Trouble
    /\ task' = [d \in Datasets |-> Idle] /\ pausing' = [d \in Datasets |-> FALSE]
    /\ LET left == [k \in Dirs |-> IF k \in Cli THEN Absent ELSE dirs[k]] IN
       \/ dirs' = left /\ UNCHANGED torn
       \/ \E d \in Desktop : /\ At(d, "restore") /\ UNCHANGED torn
                             /\ dirs' = [left EXCEPT ![Shared].files[Path(d)] = Torn]
       \/ \E k \in Dirs, s \in Slots :
             /\ left[k].parts[s] # <<>>
             /\ dirs' = [left EXCEPT ![k].parts[s][Len(left[k].parts[s])] = Lost]
             /\ torn' = TRUE
    /\ UNCHANGED <<taken, published, users, deleted>>

Step(d) ==
    \/ download_dataset(d) \/ next_object(d) \/ resume_object(d) \/ request_object(d)
    \/ receive_chunk(d) \/ object_received(d) \/ restore_file(d) \/ remove_object(d)
    \/ finish_download(d) \/ publish(d)

Next ==
    \/ \E d \in Datasets : Step(d) \/ pause_download(d) \/ RegistryDeletes(d)
    \/ UserMovesFolder \/ Crash

Spec == Init /\ [][Next]_vars

(* A retrieval runs on, and its user starts it again whenever it stops. *)
FairSpec == Spec /\ \A d \in Resumed : WF_vars(Step(d))

-----------------------------------------------------------------------------
(* Types, and that nothing is in a cache directory that is not there. *)
TypeOK ==
    /\ \A k \in Dirs :
         /\ DOMAIN dirs[k].files = AllPaths
         /\ \A s \in Slots : /\ Len(dirs[k].parts[s]) <= Chunks
                             /\ dirs[k].parts[s] # <<>> => s \in dirs[k].started
                             /\ dirs[k].objects[s] \in Seq(0..Chunks)
         /\ ~dirs[k].cache => dirs[k].started = {} /\ \A s \in Slots : dirs[k].objects[s] = <<>>
    /\ \A d \in Datasets : /\ task[d].pc \in {"idle", "object", "fetch", "stream", "restore", "remove", "publish"}
                           /\ task[d].at \in 0..(Chunks + 1)
    /\ pausing \in [Datasets -> BOOLEAN] /\ deleted \subseteq Datasets
    /\ torn \in BOOLEAN /\ trouble \in 0..MaxTrouble

(* However often a fetch is stopped and resumed, by ranges or from the start, a .part file
   is a beginning of the object and a fetched object is the object, unless the machine went
   down under it.                                                                         *)
FetchedInPlace ==
    ~torn => \A k \in Dirs : \A s \in Slots :
                /\ dirs[k].parts[s] = SubSeq(Whole, 1, Len(dirs[k].parts[s]))
                /\ dirs[k].objects[s] \in {<<>>, Whole}

Exact(d) == [p \in AllPaths |-> IF p \in Paths(d) THEN d ELSE None]

(* A dataset that had its partial directory for itself is published exactly: every file
   verified, none missing, none more, through any number of stops, and crashes.          *)
PublishedAloneIsExact ==
    \A d \in Datasets : published[d].users = {d} => published[d].files = Exact(d)

(* The deployment guide: the destination is published only after every size and digest was
   checked, which means that dataset's files and no others.                               *)
PublishedIsExact ==
    \A d \in Datasets : published[d] # Unpublished => published[d].files = Exact(d)

(* An object whose files are restored is still in the cache of a stopped retrieval. *)
Leftover == \E d \in Desktop : \E o \in Objects(d) :
    At(d, "idle") /\ dirs[Shared].objects[<<d, o>>] # <<>> /\ Restored(d, o)

Settled(d) == published[d] # Unpublished \/ d \in deleted \/ taken

(* What the interface promises with "Resume download": a retrieval that is resumed whenever
   it stops ends with the dataset at the destination, unless the dataset is deleted, the
   destination is taken or the machine went down and bytes were lost.                     *)
ResumedIsRetrieved == \A d \in Resumed : <>(Settled(d) \/ torn)

(* The same unless Courier died between the verification of an
   object's files and the removal of the object from the cache, or another dataset was
   restored in the same directory: what it left in the cache is in the way.               *)
AloneInDir(d) == users[Dir(d)] \subseteq {d}

RetrievedUnlessLeftover ==
    \A d \in Resumed : <>(Settled(d) \/ torn \/ Leftover \/ ~AloneInDir(d))
=============================================================================
