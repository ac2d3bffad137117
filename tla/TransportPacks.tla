----------------------------- MODULE TransportPacks -----------------------------
(***************************************************************************)
(* The transport packs of one transfer: the inventory of the source files, *)
(* their grouping into packs and standalone objects, the staging of packs  *)
(* in a bounded cache, and their eviction and regeneration while the       *)
(* objects are uploaded one after another.                                 *)
(*                                                                         *)
(* Meanwhile files are edited, with or without a trace in their size and   *)
(* modification time, Courier dies, the user clears the transfer, and the  *)
(* removal of a file in the cache directory fails.                         *)
(*                                                                         *)
(* Files are numbered in the order of their paths.  A content is a number, *)
(* 0 the first; a pack is the row of its members' contents, and its size a *)
(* sum over them.  The upload of the parts of an object and its retries    *)
(* are MultipartUpload's.                                                  *)
(***************************************************************************)
EXTENDS Naturals, Sequences, FiniteSets, SequencesExt, FiniteSetsExt

CONSTANTS
    Sources,    \* the possible sources: per file its size and its size when packed
    MaxMember,  \* maximum_member_size, of a file that is packed with others
    Target,     \* target_pack_size
    Budget,     \* pack_cache_budget
    NParts,     \* parts of an object
    MaxEdits,   \* bound: edits of source files
    MaxCrashes, \* bound: deaths of Courier
    MaxFailures \* bound: removals in the cache directory that fail

ASSUME TransportAssumption ==
    /\ {MaxMember, Target, Budget, NParts} \subseteq Nat \ {0}
    /\ {MaxEdits, MaxCrashes, MaxFailures} \subseteq Nat
    /\ Sources \subseteq Seq([size : Nat, packed : Nat \ {0}]) \ {<<>>}

VARIABLES
    kinds,      \* the files of the source, one of Sources
    source,     \* per file, what is on disk: its content, and a stamp (size and modification time)
    records,    \* per file, what the inventory says it is
    status,     \* the transfer: inventorying, planned, uploaded, failed, cleared
    objects,    \* transport_objects with their members; in memory until they are saved
    order,      \* the order of the objects in SQLite, which is that of random ids
    marked,     \* the files that are "uploaded" in SQLite
    packs,      \* per object, the pack in the cache directory
    temps,      \* per object, its .tmp file, told by its size
    stored,     \* per object, what its parts in storage were read from
    pc, file, object, marks,   \* where Courier is; the file, the object, the members left to mark
    encoding,   \* the encode_pack call: staging or measuring, the contents read, its limit
    cachedBytes,   \* cached_bytes of prepare_transport_plan
    unremoved,  \* history: the objects whose pack is there because its removal failed
    strays,     \* per object, a .tmp file that is there because its removal failed
    failures,
    forgotten,  \* history: bytes taken off cachedBytes that were never added to it
    hidden,     \* history: a file was edited without a trace, or while it was being read
    clearedBusy,   \* history: the transfer was cleared while it was being uploaded
    edits, crashes

code   == <<pc, file, object, marks, encoding>>
sqlite == <<records, status, objects, order, marked>>
left   == <<unremoved, strays, failures>>
count  == <<cachedBytes, forgotten>>
cache  == <<packs, temps, left, count>>
world  == <<kinds, source, hidden, clearedBusy, edits, crashes>>
vars   == <<code, sqlite, cache, world, stored>>

Files  == DOMAIN kinds
NoPack == <<>>
NoTemp == <<>>
Temp(bytes) == <<bytes>>
NoCall == [staging |-> FALSE, members |-> <<>>, read |-> <<>>, limit |-> 0]

\* An edited content can compress worse than the first.
PackedSize(f, content) == kinds[f].packed + (IF content = 1 THEN 1 ELSE 0)

Sums(ns) == LET sum[n \in 0..Len(ns)] == IF n = 0 THEN 0 ELSE sum[n - 1] + ns[n] IN sum
Total(ns) == Sums(ns)[Len(ns)]

\* The size of a pack of some files with these contents.
PackSize(files, contents) == Total([i \in DOMAIN contents |-> PackedSize(files[i], contents[i])])

Size(files) == Total([i \in DOMAIN files |-> kinds[files[i]].size])

Init ==
    /\ kinds \in Sources
    /\ source = [f \in Files |-> [content |-> 0, stamp |-> 0]]
    /\ records = source /\ status = "inventorying" /\ objects = <<>> /\ order = <<>> /\ marked = {}
    /\ packs = [o \in Files |-> NoPack] /\ temps = [o \in Files |-> NoTemp]
    /\ stored = [o \in Files |-> <<>>]
    /\ pc = "stat" /\ file = 1 /\ object = 1 /\ marks = <<>> /\ encoding = NoCall
    /\ cachedBytes = 0 /\ forgotten = 0
    /\ unremoved = {} /\ strays = temps /\ failures = 0
    /\ hidden = FALSE /\ clearedBusy = FALSE /\ edits = 0 /\ crashes = 0

-----------------------------------------------------------------------------
(* create_inventory: the inventory *)

stat_file ==
    /\ pc = "stat"
    /\ records' = [records EXCEPT ![file].stamp = source[file].stamp]
    /\ pc' = "hash"
    /\ UNCHANGED <<file, object, marks, encoding, status, objects, order, marked, cache, world, stored>>

hash_file ==
    /\ pc = "hash"
    /\ records' = [records EXCEPT ![file].content = source[file].content]
    /\ IF file + 1 \in Files THEN pc' = "stat" /\ file' = file + 1 ELSE pc' = "group" /\ file' = 1
    /\ UNCHANGED <<object, marks, encoding, status, objects, order, marked, cache, world, stored>>

(* plan_packs: small files are packed in the order of their paths as long as a pack does not
   exceed the target; each larger file comes by itself.                                     *)
IgnoresTarget(group, f) == TRUE   \* mutant
Fits(group, f) == Size(Append(group, f)) <= Target

Packed(groups, f) ==
    IF groups # <<>> /\ Fits(Last(groups), f)
    THEN [groups EXCEPT ![Len(groups)] = Append(@, f)]
    ELSE Append(groups, <<f>>)

Small(f) == kinds[f].size <= MaxMember

Grouped[n \in 0..Len(kinds)] ==
    IF n = 0 THEN <<>> ELSE IF Small(n) THEN Packed(Grouped[n - 1], n) ELSE Grouped[n - 1]

Standalone[n \in 0..Len(kinds)] ==
    IF n = 0 THEN <<>> ELSE IF Small(n) THEN Standalone[n - 1] ELSE Append(Standalone[n - 1], <<n>>)

plan_packs == Grouped[Len(kinds)] \o Standalone[Len(kinds)]

-----------------------------------------------------------------------------
(* Removals: one that fails leaves the file there, and Courier goes on as if it were gone *)

MayFail == failures < MaxFailures /\ failures' = failures + 1

RemovePacks(gone) ==
    \E kept \in SUBSET gone :
        /\ packs' = [o \in Files |-> IF o \in gone \ kept THEN NoPack ELSE packs[o]]
        /\ unremoved' = (unremoved \ gone) \cup kept
        /\ IF kept = {} THEN UNCHANGED failures ELSE MayFail

RemoveTemp ==
    /\ temps' = [temps EXCEPT ![object] = NoTemp]
    /\ \/ UNCHANGED <<strays, failures>>
       \/ temps[object] # NoTemp /\ strays' = [strays EXCEPT ![object] = temps[object]] /\ MayFail

-----------------------------------------------------------------------------
(* stage_or_measure_pack, for the pack of `object`: of an empty allowance nothing is staged *)

Encode(members, limit) ==
    /\ encoding' = [staging |-> limit > 0, members |-> members, read |-> <<>>, limit |-> limit]
    /\ temps' = [temps EXCEPT ![object] = IF limit > 0 THEN Temp(0) ELSE NoTemp]
    /\ pc' = "check"

Monus(a, b) == IF a > b THEN a - b ELSE 0

(* prepare_transport_plan starts on the next group. *)
next_group ==
    /\ pc = "group" /\ object \in DOMAIN plan_packs
    /\ Encode(plan_packs[object], Monus(Budget, cachedBytes))
    /\ UNCHANGED <<file, object, marks, sqlite, packs, left, count, world, stored>>

(* The plan is saved, with the part plans: the objects get their random ids. *)
replace_transport_plan ==
    /\ pc = "group" /\ object \notin DOMAIN plan_packs
    /\ status' = "planned" /\ pc' = "idle" /\ object' = 1
    /\ order' \in {seq \in [DOMAIN objects -> DOMAIN objects] : IsInjective(seq)}
    /\ UNCHANGED <<file, marks, encoding, records, objects, marked, cache, world, stored>>

Member == encoding.members[Len(encoding.read) + 1]

(* The command, or the upload, ends with an error; an inventory that fails is over. *)
Fails ==
    /\ pc' = "idle" /\ encoding' = NoCall
    /\ status' = IF status = "inventorying" THEN "failed" ELSE status

SkipsCheck(f) == TRUE   \* mutant
verify_source_unchanged(f) == source[f].stamp = records[f].stamp

check_member ==
    /\ pc = "check"
    /\ IF verify_source_unchanged(Member)
       THEN pc' = "read" /\ UNCHANGED <<encoding, status, temps, left>>
       ELSE Fails /\ RemoveTemp
    /\ UNCHANGED <<file, object, marks, records, objects, order, marked, packs, unremoved, count, world, stored>>

Encoded  == PackSize(encoding.members, encoding.read)
Read     == Append(encoding.read, source[Member].content)
ReadSize == PackSize(encoding.members, Read)

WrittenExceeds == Encoded > encoding.limit   \* mutant
Exceeds == ReadSize > encoding.limit

(* A member is read and written behind the others; CappedWriter refuses to exceed the limit,
   and the pack is then measured from the start.  A staged file is there still, unless the
   transfer was cleared: what is written then is lost.  A file that got shorter since the
   check ends the call.                                                                    *)
read_member ==
    /\ pc = "read"
    /\ \/ /\ encoding.staging /\ Exceeds
          /\ encoding' = [encoding EXCEPT !.staging = FALSE, !.read = <<>>]
          /\ RemoveTemp
          /\ pc' = "check" /\ UNCHANGED status
       \/ /\ encoding.staging => ~Exceeds
          /\ encoding' = [encoding EXCEPT !.read = Read]
          /\ temps' = [temps EXCEPT ![object] = IF @ = NoTemp THEN @ ELSE Temp(ReadSize)]
          /\ pc' = IF Len(Read) = Len(encoding.members) THEN "encoded" ELSE "check"
          /\ UNCHANGED <<status, left>>
       \/ /\ source[Member].stamp # records[Member].stamp
          /\ Fails /\ RemoveTemp
    /\ UNCHANGED <<file, object, marks, records, objects, order, marked, packs, unremoved, count, world, stored>>

(* A large file is sent compressed if that is smaller and fits the cache. *)
AnySmaller(f, bytes) == bytes < kinds[f].size   \* mutant
UseCompressed(f, bytes) == bytes < kinds[f].size /\ bytes <= Budget

Object(pack, bytes) == [pack |-> pack, members |-> encoding.members, bytes |-> bytes]

(* The temporary file, synchronised, becomes the pack: the end of prepare_transport_plan's work
   on a group.  A pack of one large file that is not worth it is removed again, and its size is
   taken off a count it was not added to, whether it could be removed or not.                 *)
group_encoded ==
    /\ pc = "encoded" /\ status = "inventorying"
    /\ LET keep == Small(encoding.members[1]) \/ UseCompressed(encoding.members[1], Encoded) IN
       /\ objects' = Append(objects, Object(keep, IF keep THEN Encoded ELSE Size(encoding.members)))
       /\ \/ /\ packs' = [packs EXCEPT ![object] = IF keep /\ encoding.staging THEN encoding.read ELSE NoPack]
             /\ UNCHANGED <<unremoved, failures>>
          \/ /\ encoding.staging /\ ~keep /\ MayFail
             /\ packs' = [packs EXCEPT ![object] = encoding.read]
             /\ unremoved' = unremoved \cup {object}
       /\ cachedBytes' = CASE encoding.staging /\ keep  -> cachedBytes + Encoded
                           [] encoding.staging /\ ~keep -> Monus(cachedBytes, Encoded)
                           [] OTHER                     -> cachedBytes
       /\ forgotten' = forgotten + Monus(cachedBytes, cachedBytes')
    /\ temps' = [temps EXCEPT ![object] = NoTemp]
    /\ object' = object + 1 /\ encoding' = NoCall /\ pc' = "group"
    /\ UNCHANGED <<file, marks, records, status, order, marked, strays, world, stored>>

-----------------------------------------------------------------------------
(* run_upload *)

(* start_upload, of a transfer that is planned: from the start of the list. *)
start_upload ==
    /\ pc = "idle" /\ status = "planned"
    /\ pc' = "object" /\ file' = 1
    /\ UNCHANGED <<object, marks, encoding, sqlite, cache, world, stored>>

Candidate == order[file]
Skipped   == file <= Len(order) /\ ToSet(objects[Candidate].members) \subseteq marked

skip_object ==
    /\ pc = "object" /\ Skipped
    /\ file' = file + 1
    /\ UNCHANGED <<pc, object, marks, encoding, sqlite, cache, world, stored>>

KeepsOtherPacks(o) == {}   \* mutant
remove_cached_packs_except(o) == {p \in DOMAIN objects \ {o} : objects[p].pack /\ packs[p] # NoPack}

AnySize(o, contents) == TRUE   \* mutant
AsPlanned(o, contents) == PackSize(objects[o].members, contents) = objects[o].bytes

(* The next object: a file is read where it is, a pack from the cache, or it is staged anew. *)
next_object ==
    /\ pc = "object" /\ file <= Len(order) /\ ~Skipped
    /\ object' = Candidate
    /\ \/ /\ ~objects[Candidate].pack
          /\ pc' = "part" /\ UNCHANGED <<packs, encoding, temps, left>>
       \/ /\ objects[Candidate].pack /\ RemovePacks(remove_cached_packs_except(Candidate))
          /\ IF packs[Candidate] # NoPack
             THEN /\ pc' = IF AsPlanned(Candidate, packs[Candidate]) THEN "part" ELSE "idle"
                  /\ UNCHANGED <<encoding, temps, strays>>
             ELSE /\ pc' = "check"
                  /\ encoding' = [NoCall EXCEPT !.staging = TRUE, !.limit = Budget,
                                                !.members = objects[Candidate].members]
                  /\ temps' = [temps EXCEPT ![Candidate] = Temp(0)]
                  /\ strays' = [strays EXCEPT ![Candidate] = NoTemp]
    /\ UNCHANGED <<file, marks, sqlite, count, world, stored>>

(* The end of pack_upload_source: a pack that was only measured, or has another size than
   planned, cannot be uploaded and is removed; a .tmp file that was cleared away cannot become
   the pack.                                                                                 *)
pack_encoded ==
    /\ pc = "encoded" /\ status # "inventorying"
    /\ LET published == encoding.staging /\ temps[object] # NoTemp
           planned == AsPlanned(object, encoding.read) IN
       \/ /\ published
          /\ packs' = [packs EXCEPT ![object] = encoding.read]
          /\ \/ planned /\ pc' = "part" /\ UNCHANGED <<unremoved, failures>>
             \/ ~planned /\ pc' = "idle" /\ unremoved' = unremoved \cup {object} /\ MayFail
       \/ /\ ~published \/ ~planned
          /\ pc' = "idle" /\ UNCHANGED <<packs, unremoved, failures>>
    /\ temps' = [temps EXCEPT ![object] = NoTemp] /\ encoding' = NoCall
    /\ UNCHANGED <<file, object, marks, sqlite, strays, count, world, stored>>

(* Before a part is read, the file or the pack must be as it was; a pack that was cleared away
   cannot be opened, and for a transfer that is gone nothing is uploaded.                     *)
next_part ==
    /\ pc = "part"
    /\ LET f == objects[object].members[1]
           unchanged == IF objects[object].pack THEN packs[object] # NoPack ELSE verify_source_unchanged(f)
       IN  pc' = IF Len(stored[object]) = NParts /\ status = "planned" THEN "uploaded"
                 ELSE IF unchanged /\ status = "planned" THEN "send" ELSE "idle"
    /\ marks' = objects[object].members
    /\ UNCHANGED <<file, object, encoding, sqlite, cache, world, stored>>

(* What becomes of the parts of a transfer cleared meanwhile is left out. *)
send_part ==
    /\ pc = "send"
    /\ IF status = "planned"
       THEN /\ stored' = [stored EXCEPT ![object] = Append(@,
                   IF objects[object].pack THEN packs[object]
                   ELSE <<source[objects[object].members[1]].content>>)]
            /\ pc' = "part"
       ELSE pc' = "idle" /\ UNCHANGED stored
    /\ UNCHANGED <<file, object, marks, encoding, sqlite, cache, world>>

mark_file_uploaded ==
    /\ pc = "uploaded" /\ marks # <<>>
    /\ marked' = marked \cup {Head(marks)} /\ marks' = Tail(marks)
    /\ UNCHANGED <<pc, file, object, encoding, records, status, objects, order, cache, world, stored>>

(* The pack of an uploaded object is removed.  This is the removal that is not taken lightly:
   if it fails, or there is no pack because the transfer was cleared, the upload ends with an
   error.                                                                                    *)
object_uploaded ==
    /\ pc = "uploaded" /\ marks = <<>>
    /\ RemovePacks({object} \cap {o \in Files : objects[object].pack /\ packs[o] # NoPack})
    /\ IF objects[object].pack /\ (packs[object] = NoPack \/ packs'[object] # NoPack)
       THEN pc' = "idle" /\ file' = file
       ELSE pc' = "object" /\ file' = file + 1
    /\ UNCHANGED <<object, marks, encoding, sqlite, temps, strays, count, world, stored>>

finalize ==
    /\ pc = "object" /\ file > Len(order)
    /\ pc' = "idle"
    /\ status' = IF status = "planned" THEN "uploaded" ELSE status
    /\ UNCHANGED <<file, object, marks, encoding, records, objects, order, marked, cache, world, stored>>

-----------------------------------------------------------------------------
Uploading == pc # "idle" /\ status # "inventorying"

(* A file is changed.  The change can leave its size and modification time as they were, or
   come between the check of a file and the reading of it: no stamp tells.                  *)
BeingRead == CASE pc = "read" -> {Member}
               [] pc = "send" -> {objects[object].members[1]} \ (IF objects[object].pack THEN Files ELSE {})
               [] OTHER       -> {}

Edit(f) ==
    /\ edits < MaxEdits /\ edits' = edits + 1
    /\ status \in {"inventorying", "planned"}
    /\ \E content \in {1, 2} \ {source[f].content}, traced \in BOOLEAN :
          /\ source' = [source EXCEPT ![f] = [content |-> content,
                                              stamp |-> IF traced THEN edits + 1 ELSE @.stamp]]
          /\ hidden' = (hidden \/ ~traced \/ f \in BeingRead)
    /\ UNCHANGED <<kinds, clearedBusy, crashes, code, sqlite, cache, stored>>

(* Courier dies, and at its next start removes .tmp files that are old enough. *)
Crash ==
    /\ pc # "idle" /\ crashes < MaxCrashes /\ crashes' = crashes + 1
    /\ pc' = "idle" /\ encoding' = NoCall /\ marks' = <<>>
    /\ temps' \in {temps, [o \in Files |-> NoTemp]} /\ strays' \in {strays, [o \in Files |-> NoTemp]}
    /\ UNCHANGED <<file, object, sqlite, packs, unremoved, failures, count, kinds, source, hidden, clearedBusy,
                   edits, stored>>

(* clear_transfer: the packs of the rows and the directory with all that is in it, then the
   rows.  The interface offers it unless a dataset is being analysed.  If the directory cannot be
   removed the command ends with an error and the rows stay, which is left out.              *)
RemovesPacksOnly(files) == files   \* mutant
remove_transfer_pack_directory(files) == [o \in Files |-> NoTemp]

clear_transfer ==
    /\ status \notin {"cleared", "uploaded"} /\ ~(pc # "idle" /\ status = "inventorying")
    /\ status' = "cleared"
    /\ packs' = [o \in Files |-> NoPack] /\ unremoved' = {}
    /\ temps' = remove_transfer_pack_directory(temps) /\ strays' = remove_transfer_pack_directory(strays)
    /\ clearedBusy' = Uploading
    /\ UNCHANGED <<code, records, objects, order, marked, failures, count, kinds, source, hidden,
                   edits, crashes, stored>>

Inventory == stat_file \/ hash_file \/ next_group \/ group_encoded \/ replace_transport_plan
Encoding  == check_member \/ read_member
Upload    == \/ start_upload \/ skip_object \/ next_object \/ pack_encoded \/ next_part \/ send_part
             \/ mark_file_uploaded \/ object_uploaded \/ finalize
Courier   == Inventory \/ Encoding \/ Upload

Next == Courier \/ Crash \/ clear_transfer \/ \E f \in Files : Edit(f)

Spec == Init /\ [][Next]_vars

(* Courier runs on, and the user resumes an upload whenever it stops. *)
FairSpec == Spec /\ WF_vars(Courier)

-----------------------------------------------------------------------------
Contents == 0..2

TypeOK ==
    /\ kinds \in Sources
    /\ source \in [Files -> [content : Contents, stamp : 0..MaxEdits]]
    /\ records \in [Files -> [content : Contents, stamp : 0..MaxEdits]]
    /\ status \in {"inventorying", "planned", "uploaded", "failed", "cleared"}
    /\ pc \in {"stat", "hash", "group", "check", "read", "encoded", "idle", "object", "part", "send", "uploaded"}
    /\ \A o \in Files : /\ Len(stored[o]) <= NParts
                        /\ packs[o] \in Seq(Contents)
                        /\ {temps[o], strays[o]} \subseteq {NoTemp} \cup {Temp(n) : n \in 0..Budget}
                        /\ o \in unremoved => packs[o] # NoPack
    /\ marked \subseteq Files /\ Len(objects) <= Len(kinds)
    /\ pc \in {"check", "read"} => Len(encoding.read) < Len(encoding.members)

(* A pack of small files fits the cache, whatever they become before they are packed: the budget
   is ten times target_pack_size, and a pack exceeds that only by what it says of its members. *)
PacksFit ==
    \A ks \in Sources : \A n \in DOMAIN ks :
        \A ms \in [1..n -> {f \in DOMAIN ks : ks[f].size <= MaxMember}], cs \in [1..n -> Contents] :
            /\ \A i, j \in 1..n : i < j => ms[i] < ms[j]
            /\ n > 1 => Total([i \in 1..n |-> ks[ms[i]].size]) <= Target
            => Total([i \in 1..n |-> ks[ms[i]].packed + (IF cs[i] = 1 THEN 1 ELSE 0)]) <= Budget

(* The transport plan carries every file exactly once and in the order of the paths, no pack
   of several files is above the target, and whatever is to be packed again before its upload
   fits the cache.                                                                           *)
CarriesEveryFileOnce ==
    /\ \A f \in Files : Cardinality({o \in DOMAIN objects : f \in ToSet(objects[o].members)}) = 1
    /\ \A o \in DOMAIN objects : LET ms == objects[o].members IN
         /\ \A i, j \in DOMAIN ms : i < j => ms[i] < ms[j]
         /\ Len(ms) > 1 => Size(ms) <= Target

FitsTheCache == \A o \in DOMAIN objects : objects[o].pack => objects[o].bytes <= Budget

PlanIsSound == status \in {"planned", "uploaded"} => CarriesEveryFileOnce /\ FitsTheCache

PackBytes(o)  == IF packs[o] = NoPack THEN 0 ELSE PackSize(objects[o].members, packs[o])
TempBytes(o)  == IF temps[o] = NoTemp THEN 0 ELSE temps[o][1]
StrayBytes(o) == IF strays[o] = NoTemp THEN 0 ELSE strays[o][1]

\* The cache directory of a transfer, .tmp files included.
CacheBytes == Total([o \in Files |-> PackBytes(o) + TempBytes(o) + StrayBytes(o)])

\* What of it Courier holds for removed.
Unremoved == Total([o \in Files |-> (IF o \in unremoved THEN PackBytes(o) ELSE 0) + StrayBytes(o)])

(* The documented bound. *)
CacheWithinBudget == CacheBytes <= Budget

(* The same, but for the two ways the code exceeds it: the bytes of discarded packs that were taken
   off the count although they had never been added, and the files that are still there because
   their removal failed, which is only printed or not even that: the next pack is staged beside
   them with the whole budget.  Evictions, regenerations and crashes add nothing to that.         *)
CacheIsAccountedFor == CacheBytes <= Budget + forgotten + Unremoved

(* Without the second of them. *)
CacheWithinBudgetAndForgotten == CacheBytes <= Budget + forgotten

(* What is in storage is what was inventoried, of every part of every object, and from one
   encoding if it is a pack: however often a pack was evicted, regenerated after a crash or
   resumed with other members' edits in between.  Only an edit no stamp tells escapes.        *)
StoredAsInventoried ==
    ~hidden => \A o \in DOMAIN objects : \A p \in DOMAIN stored[o] :
        stored[o][p] = [i \in DOMAIN objects[o].members |-> records[objects[o].members[i]].content]

(* Even then the pack that is uploaded has the planned size, the one its part plan and the
   manifest at the Registry were made for.                                                   *)
PackHasPlannedSize ==
    \A o \in DOMAIN objects : \A p \in DOMAIN stored[o] :
        objects[o].pack => PackSize(objects[o].members, stored[o][p]) = objects[o].bytes

(* Clearing a transfer leaves nothing of it in the cache, whatever crashes and failed
   inventories left there, unless it was being uploaded: the upload can stage another pack. *)
ClearedLeavesNothing ==
    status = "cleared" /\ ~clearedBusy =>
        CacheBytes = 0 /\ \A o \in Files : temps[o] = NoTemp /\ strays[o] = NoTemp

(* The dialog of the interface: the cached packages are removed. *)
ClearedIsGone == status = "cleared" /\ pc = "idle" => \A o \in Files : packs[o] = NoPack

(* A transfer whose files nobody edits is uploaded, if it is resumed whenever it stops: every
   pack that is not in the cache any more can be made again within the budget.               *)
InventoryDied == status = "inventorying" /\ pc = "idle"

UploadedUnlessEdited == <>(status \in {"uploaded", "cleared"} \/ edits > 0 \/ InventoryDied)
=============================================================================
