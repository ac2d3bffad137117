--------------------------- MODULE DownloadProofs ---------------------------
(***************************************************************************)
(* Proofs about Download, for any datasets with any objects, any number of *)
(* chunks, and any number of stops, broken connections and crashes.        *)
(*                                                                         *)
(* A published dataset is exact because of what was true of each object    *)
(* long before: that it was found restored, or restored and verified, and  *)
(* that nothing else wrote into the directory since.                       *)
(***************************************************************************)
EXTENDS Download, SequenceTheorems, TLAPS

Chunk == 0..Chunks
Row == [files : [AllPaths -> Datasets \cup {None, Torn}], cache : BOOLEAN, started : SUBSET Slots,
        parts : [Slots -> Seq(Chunk)], objects : [Slots -> Seq(Chunk)]]
Task == [pc : {"idle", "object", "fetch", "stream", "restore", "remove", "publish"},
         o : Nat, n : Nat, at : Nat]
Publication == [files : [AllPaths -> Datasets \cup {None, Torn}], users : SUBSET Datasets]

Types ==
    /\ dirs \in [Dirs -> Row] /\ task \in [Datasets -> Task]
    /\ users \in [Dirs -> SUBSET Datasets] /\ published \in [Datasets -> Publication]
    /\ torn \in BOOLEAN

(* The beginning of the object. *)
Prefix(part) == Len(part) <= Chunks /\ \A i \in 1..Len(part) : part[i] = i

(* A partial directory: what its users restored, and what was fetched. *)
OwnedBy(row, us) == \A p \in AllPaths : row.files[p] # None => \E d \in us : p \in Paths(d)
InPlace(row) == \A s \in Slots : Prefix(row.parts[s]) /\ row.objects[s] \in {<<>>, Whole}
RowIsFine(row, us, lost) == OwnedBy(row, us) /\ (~lost => InPlace(row))

(* A retrieval t of dataset d in it: the objects before t.o are restored. *)
IsRestored(d, row, o) == \A j \in 1..Len(Layout[d][o]) : row.files[Layout[d][o][j]] = d

TaskIsFine(d, t, row, us) ==
    t.pc # "idle" =>
        /\ d \in us
        /\ t.o \in 1..(Len(Layout[d]) + 1)
        /\ \A o \in Objects(d) : o < t.o => IsRestored(d, row, o)
        /\ t.pc \in {"fetch", "stream", "restore", "remove"} => t.o \in Objects(d)
        /\ t.pc \in {"object", "fetch", "stream"} => t.n = 0
        /\ t.pc = "stream" => t.at = Len(row.parts[<<d, t.o>>]) + 1
        /\ t.pc = "restore" => /\ t.n < Len(Layout[d][t.o])
                               /\ \A j \in 1..t.n : row.files[Layout[d][t.o][j]] = d
        /\ t.pc = "remove" => IsRestored(d, row, t.o)
        /\ t.pc = "publish" => t.o = Len(Layout[d]) + 1

OthersIdle(d) == d \in Desktop => \A e \in Desktop \ {d} : At(e, "idle")
OneAtATime == \A d \in Datasets : ~At(d, "idle") => OthersIdle(d)

IInv ==
    /\ Types
    /\ \A k \in Dirs : RowIsFine(dirs[k], users[k], torn)
    /\ \A d \in Datasets : TaskIsFine(d, task[d], dirs[Dir(d)], users[Dir(d)])
    /\ OneAtATime
    /\ PublishedAloneIsExact

-----------------------------------------------------------------------------
(* Objects, files and directories *)

LEMMA ObjectsAreNumbered ==
  ASSUME NEW d \in Datasets
  PROVE  /\ Len(Layout[d]) \in Nat \ {0} /\ Objects(d) = 1..Len(Layout[d])
         /\ \A o \in Objects(d) : Layout[d][o] \in Seq(STRING) /\ Len(Layout[d][o]) \in Nat \ {0}
<1>1. Layout[d] \in Seq(Seq(STRING) \ {<<>>}) /\ Layout[d] # <<>>
  BY DownloadAssumption
<1>2. Objects(d) = 1..Len(Layout[d]) /\ Len(Layout[d]) \in Nat \ {0}
  BY <1>1, LenProperties, EmptySeq DEF Objects
<1>3. ASSUME NEW o \in Objects(d)
      PROVE  Layout[d][o] \in Seq(STRING) /\ Len(Layout[d][o]) \in Nat \ {0}
  <2>1. Layout[d][o] \in Seq(STRING) \ {<<>>}
    BY <1>1, <1>2, LenProperties
  <2> QED
    BY <2>1, LenProperties, EmptySeq
<1> QED
  BY <1>2, <1>3

(* A dataset's files are those of its objects. *)
LEMMA FilesAreOfObjects ==
  ASSUME NEW d \in Datasets
  PROVE  /\ Paths(d) \subseteq AllPaths
         /\ \A o \in Objects(d) : \A j \in 1..Len(Layout[d][o]) : Layout[d][o][j] \in Paths(d)
         /\ \A p \in Paths(d) : \E o \in Objects(d) :
                \E j \in 1..Len(Layout[d][o]) : p = Layout[d][o][j]
         /\ \A o \in Objects(d) : <<d, o>> \in Slots
<1>1. \A o \in Objects(d) : DOMAIN Layout[d][o] = 1..Len(Layout[d][o])
  BY ObjectsAreNumbered, LenProperties
<1>2. \A o \in Objects(d) : ToSet(Layout[d][o]) = {Layout[d][o][j] : j \in 1..Len(Layout[d][o])}
  BY <1>1 DEF ToSet
<1>3. Paths(d) = UNION {ToSet(Layout[d][o]) : o \in Objects(d)}
  BY DEF Paths
<1>4. Paths(d) \subseteq AllPaths
  BY DEF AllPaths
<1>5. \A o \in Objects(d) : <<d, o>> \in Slots
  BY DEF Slots
<1> QED
  BY <1>2, <1>3, <1>4, <1>5

LEMMA RestoredIsByPlace ==
  ASSUME NEW d \in Datasets, NEW o \in Objects(d)
  PROVE  Restored(d, o) <=> IsRestored(d, Mine(d), o)
<1>1. DOMAIN Layout[d][o] = 1..Len(Layout[d][o])
  BY ObjectsAreNumbered, LenProperties
<1> QED
  BY <1>1 DEF Restored, Matches, IsRestored, ToSet

(* Only datasets of Courier Desktop share a directory. *)
LEMMA DirectoriesAreApart ==
  /\ \A d \in Datasets : Dir(d) \in Dirs
  /\ \A d, e \in Datasets : d # e /\ Dir(d) = Dir(e) => d \in Desktop /\ e \in Desktop
  /\ \A d \in Datasets : d \in Cli <=> d \notin Desktop
BY DownloadAssumption DEF Dir, Dirs, Datasets

-----------------------------------------------------------------------------
(* What is fetched *)

LEMMA WholeIsAllChunks ==
  /\ Chunks \in Nat \ {0} /\ Whole \in Seq(Chunk) /\ Len(Whole) = Chunks
  /\ \A i \in 1..Chunks : Whole[i] = i
<1>1. Chunks \in Nat \ {0}
  BY DownloadAssumption
<1> QED
  BY <1>1 DEF Whole, Chunk

LEMMA PrefixOfWhole ==
  ASSUME NEW part \in Seq(Chunk), Prefix(part)
  PROVE  /\ part = SubSeq(Whole, 1, Len(part))
         /\ Len(part) = Chunks => part = Whole
<1>1. Len(part) \in Nat /\ Len(part) <= Chunks /\ part = [i \in 1..Len(part) |-> part[i]]
  BY LenProperties DEF Prefix
<1>2. \A i \in 1..Len(part) : part[i] = i
  BY DEF Prefix
<1>3. SubSeq(Whole, 1, Len(part)) = [i \in 1..Len(part) |-> Whole[i]]
  BY <1>1, WholeIsAllChunks
<1>4. \A i \in 1..Len(part) : Whole[i] = i
  BY <1>1, WholeIsAllChunks
<1>5. part = SubSeq(Whole, 1, Len(part))
  BY <1>1, <1>2, <1>3, <1>4
<1>6. ASSUME Len(part) = Chunks PROVE part = Whole
  BY <1>1, <1>2, <1>6 DEF Whole
<1> QED
  BY <1>5, <1>6

LEMMA NextChunk ==
  ASSUME NEW part \in Seq(Chunk), Prefix(part), NEW at \in Chunk, at = Len(part) + 1
  PROVE  Append(part, at) \in Seq(Chunk) /\ Prefix(Append(part, at))
         /\ Len(Append(part, at)) = at
<1>1. Append(part, at) \in Seq(Chunk) /\ Len(Append(part, at)) = Len(part) + 1
  BY AppendProperties
<1>2. /\ \A i \in 1..Len(part) : Append(part, at)[i] = part[i]
      /\ Append(part, at)[Len(part) + 1] = at
  BY AppendProperties
<1>3. Len(part) \in Nat /\ \A i \in 1..Len(part) : part[i] = i
  BY LenProperties DEF Prefix
<1>4. \A i \in 1..(Len(part) + 1) : i \in 1..Len(part) \/ i = Len(part) + 1
  BY <1>3
<1>5. at <= Chunks
  BY DownloadAssumption DEF Chunk
<1> QED
  BY <1>1, <1>2, <1>3, <1>4, <1>5 DEF Prefix

LEMMA NothingIsAPrefix == <<>> \in Seq(Chunk) /\ Prefix(<<>>) /\ Len(<<>>) = 0
BY WholeIsAllChunks, EmptySeq DEF Prefix

LEMMA EmptyDirectory ==
  /\ Absent \in Row /\ InPlace(Absent) /\ \A us : OwnedBy(Absent, us)
<1>1. Absent \in Row
  BY NothingIsAPrefix DEF Absent, Row
<1> QED
  BY <1>1, NothingIsAPrefix DEF Absent, InPlace, OwnedBy

-----------------------------------------------------------------------------
(* A step of one retrieval *)

(* It changes its own place, its directory and who used it, so what has to be shown is what
   it makes of these; in a shared directory no other retrieval is under way.               *)
LEMMA OneRetrieval ==
  ASSUME IInv, NEW d \in Datasets, OthersIdle(d),
         NEW t \in Task, NEW row \in Row, NEW us \in SUBSET Datasets, NEW q \in Publication,
         task' = [task EXCEPT ![d] = t], dirs' = [dirs EXCEPT ![Dir(d)] = row],
         users' = [users EXCEPT ![Dir(d)] = us], published' = [published EXCEPT ![d] = q],
         torn' = torn,
         RowIsFine(row, us, torn), TaskIsFine(d, t, row, us),
         q.users = {d} => q.files = Exact(d)
  PROVE  IInv'
<1>1. Types'
  BY DEF IInv, Types
<1>2. ASSUME NEW k \in Dirs PROVE RowIsFine(dirs'[k], users'[k], torn')
  BY DEF IInv, Types
<1>3. ASSUME NEW e \in Datasets PROVE TaskIsFine(e, task'[e], dirs'[Dir(e)], users'[Dir(e)])
  <2>1. CASE e = d
    BY <2>1, DirectoriesAreApart DEF IInv, Types
  <2>2. CASE e # d /\ Dir(e) = Dir(d)
    <3>1. task'[e].pc = "idle"
      BY <2>2, DirectoriesAreApart DEF IInv, Types, OthersIdle, At
    <3> QED
      BY <3>1 DEF TaskIsFine
  <2>3. CASE e # d /\ Dir(e) # Dir(d)
    BY <2>3, DirectoriesAreApart DEF IInv, Types
  <2> QED
    BY <2>1, <2>2, <2>3
<1>4. OneAtATime'
  <2>1. ASSUME NEW e \in Datasets, ~At(e, "idle")', e \in Desktop, NEW f \in Desktop \ {e}
        PROVE  At(f, "idle")'
    <3>1. CASE e = d
      BY <2>1, <3>1 DEF IInv, Types, OthersIdle, At, Datasets
    <3>2. CASE e # d
      <4>1. ~At(e, "idle") /\ d \notin Desktop
        BY <2>1, <3>2 DEF IInv, Types, OthersIdle, At, Datasets
      <4>2. At(f, "idle")
        BY <2>1, <4>1 DEF IInv, OneAtATime, OthersIdle
      <4> QED
        BY <2>1, <4>1, <4>2 DEF IInv, Types, At, Datasets
    <3> QED
      BY <3>1, <3>2
  <2> QED
    BY <2>1 DEF OneAtATime, OthersIdle
<1>5. PublishedAloneIsExact'
  BY DEF IInv, Types, PublishedAloneIsExact, Exact
<1> QED
  BY <1>1, <1>2, <1>3, <1>4, <1>5 DEF IInv

LEMMA OneStepHere ==
  ASSUME IInv, NEW d \in Datasets, ~At(d, "idle"), NEW t \in Task, NEW row \in Row,
         task' = [task EXCEPT ![d] = t], dirs' = [dirs EXCEPT ![Dir(d)] = row],
         UNCHANGED <<users, published, torn>>,
         RowIsFine(row, users[Dir(d)], torn), TaskIsFine(d, t, row, users[Dir(d)])
  PROVE  IInv'
<1>1. OthersIdle(d)
  BY DEF IInv, OneAtATime
<1>2. users[Dir(d)] \in SUBSET Datasets /\ users' = [users EXCEPT ![Dir(d)] = users[Dir(d)]]
  BY DirectoriesAreApart DEF IInv, Types
<1>3. published[d] \in Publication /\ published' = [published EXCEPT ![d] = published[d]]
  BY DEF IInv, Types
<1>4. published[d].users = {d} => published[d].files = Exact(d)
  BY DEF IInv, PublishedAloneIsExact
<1> QED
  BY <1>1, <1>2, <1>3, <1>4, OneRetrieval

(* One that leaves the disk alone. *)
LEMMA OneStepInMemory ==
  ASSUME IInv, NEW d \in Datasets, ~At(d, "idle"), NEW t \in Task,
         task' = [task EXCEPT ![d] = t], UNCHANGED <<dirs, users, published, torn>>,
         TaskIsFine(d, t, Mine(d), users[Dir(d)])
  PROVE  IInv'
<1>1. Mine(d) \in Row /\ dirs' = [dirs EXCEPT ![Dir(d)] = Mine(d)]
  BY DirectoriesAreApart DEF IInv, Types, Mine
<1>2. RowIsFine(Mine(d), users[Dir(d)], torn)
  BY DirectoriesAreApart DEF IInv, Mine
<1> QED
  BY <1>1, <1>2, OneStepHere

LEMMA IdleIsFine ==
  Idle \in Task /\ \A d \in Datasets : \A row, us : TaskIsFine(d, Idle, row, us)
BY DEF Idle, Task, TaskIsFine

LEMMA FailureIsFine ==
  ASSUME IInv, NEW d \in Datasets, ~At(d, "idle"), Fails(d), UNCHANGED torn
  PROVE  IInv'
<1>1. CASE d \in Cli
  <2>1. RowIsFine(Absent, users[Dir(d)], torn)
    BY EmptyDirectory DEF RowIsFine
  <2> QED
    BY <1>1, <2>1, EmptyDirectory, IdleIsFine, OneStepHere DEF Fails, Disk
<1>2. CASE d \notin Cli
  BY <1>2, IdleIsFine, OneStepInMemory DEF Fails, disk
<1> QED
  BY <1>1, <1>2

(* What is known of a retrieval under way. *)
LEMMA UnderWay ==
  ASSUME IInv, NEW d \in Datasets, ~At(d, "idle")
  PROVE  /\ task[d] \in Task /\ Mine(d) \in Row /\ task[d].pc # "idle"
         /\ TaskIsFine(d, task[d], Mine(d), users[Dir(d)])
         /\ RowIsFine(Mine(d), users[Dir(d)], torn)
BY DirectoriesAreApart DEF IInv, Types, At, Mine

LEMMA TaskAtObject ==
  ASSUME NEW o \in Nat
  PROVE  AtObject(o) \in Task
BY DEF AtObject, Task

(* The next object, if this one is restored. *)
LEMMA NextObjectIsFine ==
  ASSUME IInv, NEW d \in Datasets, ~At(d, "idle"), task[d].o \in Objects(d),
         NEW row \in Row, row.files = Mine(d).files, IsRestored(d, Mine(d), task[d].o)
  PROVE  LET t == AtObject(task[d].o + 1) IN
         t \in Task /\ TaskIsFine(d, t, row, users[Dir(d)])
<1> DEFINE t == AtObject(task[d].o + 1)
<1>2. task[d].o \in 1..Len(Layout[d]) /\ Len(Layout[d]) \in Nat
  BY ObjectsAreNumbered
<1>1. t = [pc |-> "object", o |-> task[d].o + 1, n |-> 0, at |-> 0] /\ t \in Task
  BY <1>2, TaskAtObject DEF AtObject
<1>4. \A o \in Objects(d) : o < task[d].o => IsRestored(d, Mine(d), o)
  BY UnderWay DEF TaskIsFine
<1>5. \A o \in Objects(d) : o < task[d].o + 1 => IsRestored(d, row, o)
  <2> TAKE o \in Objects(d)
  <2> HAVE o < task[d].o + 1
  <2>1. o < task[d].o \/ o = task[d].o
    BY <1>2, ObjectsAreNumbered
  <2>2. IsRestored(d, Mine(d), o)
    BY <1>4, <2>1
  <2> QED
    BY <2>2 DEF IsRestored
<1>6. d \in users[Dir(d)]
  BY UnderWay DEF TaskIsFine
<1>7. t.o \in 1..(Len(Layout[d]) + 1)
  BY <1>1, <1>2
<1> QED
  BY <1>1, <1>5, <1>6, <1>7 DEF TaskIsFine

-----------------------------------------------------------------------------
(* Every step *)

LEMMA DownloadDatasetKeeps ==
  ASSUME IInv, NEW d \in Datasets, download_dataset(d) PROVE IInv'
<1> DEFINE t == AtObject(1)
           old == IF d \in Desktop THEN Mine(d) ELSE Absent
           row == [old EXCEPT !.cache = TRUE]
           us == users[Dir(d)] \cup {d}
<1>1. t = [pc |-> "object", o |-> 1, n |-> 0, at |-> 0] /\ t \in Task
  BY TaskAtObject DEF AtObject
<1>2. OthersIdle(d)
  BY DEF download_dataset, OthersIdle
<1>3. old \in Row /\ RowIsFine(old, users[Dir(d)], torn)
  BY EmptyDirectory, DirectoriesAreApart DEF IInv, Types, Mine, RowIsFine
<1>4. /\ row \in Row /\ row.files = old.files /\ row.parts = old.parts
      /\ row.objects = old.objects
  BY <1>3 DEF Row
<1>5. us \in SUBSET Datasets
  BY DirectoriesAreApart DEF IInv, Types
<1>6. RowIsFine(row, us, torn)
  BY <1>3, <1>4 DEF RowIsFine, OwnedBy, InPlace
<1>7. TaskIsFine(d, t, row, us)
  BY <1>1, ObjectsAreNumbered DEF TaskIsFine
<1>8. published' = [published EXCEPT ![d] = published[d]] /\ published[d] \in Publication
  BY DEF IInv, Types, download_dataset
<1>9. published[d].users = {d} => published[d].files = Exact(d)
  BY DEF IInv, PublishedAloneIsExact
<1>10. /\ task' = [task EXCEPT ![d] = t] /\ dirs' = [dirs EXCEPT ![Dir(d)] = row]
       /\ users' = [users EXCEPT ![Dir(d)] = us] /\ torn' = torn
  BY DEF download_dataset, Mine
<1> HIDE DEF t, row, us
<1> QED
  BY <1>1, <1>2, <1>4, <1>5, <1>6, <1>7, <1>8, <1>9, <1>10, OneRetrieval

LEMMA NextObjectKeeps ==
  ASSUME IInv, NEW d \in Datasets, next_object(d) PROVE IInv'
<1>1. /\ At(d, "object") /\ ~At(d, "idle") /\ task[d].o \in Objects(d) /\ torn' = torn
  BY DEF next_object, At
<1>2. CASE Fails(d)
  BY <1>1, <1>2, FailureIsFine
<1>3. CASE Restored(d, task[d].o) /\ NextObject(d) /\ UNCHANGED disk
  <2>1. IsRestored(d, Mine(d), task[d].o)
    BY <1>1, <1>3, RestoredIsByPlace
  <2> QED
    BY <1>1, <1>3, <2>1, UnderWay, NextObjectIsFine, OneStepInMemory DEF NextObject, disk
<1>4. CASE Goto(d, "fetch") /\ UNCHANGED disk
  <2> DEFINE t == [task[d] EXCEPT !.pc = "fetch"]
  <2>1. t \in Task /\ t.pc = "fetch" /\ t.o = task[d].o /\ t.n = task[d].n
    BY <1>1, UnderWay DEF Task
  <2>2. task' = [task EXCEPT ![d] = t]
    BY <1>4 DEF Goto
  <2> HIDE DEF t
  <2>3. TaskIsFine(d, t, Mine(d), users[Dir(d)])
    BY <1>1, <2>1, UnderWay DEF TaskIsFine, At
  <2> QED
    BY <1>1, <1>4, <2>1, <2>2, <2>3, OneStepInMemory DEF disk
<1> QED
  BY <1>2, <1>3, <1>4 DEF next_object

(* What is written to a .part file changes nothing else, and keeps a directory fine if it is
   a beginning of the object.                                                               *)
LEMMA PartWritten ==
  ASSUME NEW row \in Row, NEW s \in Slots, NEW part \in Seq(Chunk), NEW us, NEW lost,
         RowIsFine(row, us, lost), ~lost => Prefix(part)
  PROVE  LET w == [row EXCEPT !.parts[s] = part] IN
         w \in Row /\ w.files = row.files /\ w.parts[s] = part /\ RowIsFine(w, us, lost)
<1> DEFINE w == [row EXCEPT !.parts[s] = part]
<1>1. /\ w \in Row /\ w.files = row.files /\ w.objects = row.objects
      /\ w.parts = [row.parts EXCEPT ![s] = part]
  BY DEF Row
<1>2. row.parts \in [Slots -> Seq(Chunk)]
  BY DEF Row
<1> HIDE DEF w
<1>3. OwnedBy(w, us)
  BY <1>1 DEF RowIsFine, OwnedBy
<1>4. ASSUME ~lost PROVE InPlace(w)
  <2>1. InPlace(row) /\ Prefix(part)
    BY <1>4 DEF RowIsFine
  <2>2. \A x \in Slots : w.parts[x] = row.parts[x] \/ w.parts[x] = part
    BY <1>1, <1>2
  <2> QED
    BY <1>1, <2>1, <2>2 DEF InPlace
<1>5. w.parts[s] = part
  BY <1>1, <1>2
<1>6. w \in Row /\ w.files = row.files /\ w.parts[s] = part /\ RowIsFine(w, us, lost)
  BY <1>1, <1>3, <1>4, <1>5 DEF RowIsFine
<1> QED
  BY <1>6 DEF w

(* A .part file of the full size becomes the object. *)
LEMMA CompletionIsFine ==
  ASSUME IInv, NEW d \in Datasets, ~At(d, "idle"), task[d].o \in Objects(d),
         Len(Part(d)) = Chunks, Complete(d), Goto(d, "restore"), UNCHANGED torn,
         task[d].n = 0
  PROVE  IInv'
<1> DEFINE s == Slot(d)
           row == [Mine(d) EXCEPT !.objects[s] = Part(d), !.parts[s] = <<>>, !.started = @ \ {s}]
           t == [task[d] EXCEPT !.pc = "restore"]
<1>1. s \in Slots
  BY FilesAreOfObjects DEF Slot
<1>2. Mine(d) \in Row /\ RowIsFine(Mine(d), users[Dir(d)], torn)
  BY UnderWay
<1>3. Part(d) \in Seq(Chunk)
  BY <1>1, <1>2 DEF Part, Row
<1>4. /\ row \in Row /\ row.files = Mine(d).files
      /\ row.parts = [Mine(d).parts EXCEPT ![s] = <<>>]
      /\ row.objects = [Mine(d).objects EXCEPT ![s] = Part(d)]
  <2> HIDE DEF s
  <2> DEFINE m == Mine(d)
             p == Part(d)
             one == [m EXCEPT !.objects[s] = p]
             two == [one EXCEPT !.parts[s] = <<>>]
             three == [two EXCEPT !.started = @ \ {s}]
  <2>1. row = three
    OBVIOUS
  <2> HIDE DEF m, p
  <2>2. m \in Row /\ p \in Seq(Chunk)
    BY <1>2, <1>3 DEF m, p
  <2>3. /\ one \in Row /\ one.files = m.files /\ one.parts = m.parts
        /\ one.objects = [m.objects EXCEPT ![s] = p]
    BY <1>1, <2>2 DEF Row
  <2> HIDE DEF one
  <2>4. /\ two \in Row /\ two.files = one.files /\ two.objects = one.objects
        /\ two.parts = [one.parts EXCEPT ![s] = <<>>]
    BY <1>1, <2>3, NothingIsAPrefix DEF Row
  <2> HIDE DEF two
  <2>5. /\ three \in Row /\ three.files = two.files /\ three.objects = two.objects
        /\ three.parts = two.parts
    BY <2>4 DEF Row
  <2> QED
    BY <2>1, <2>3, <2>4, <2>5 DEF m, p
<1> HIDE DEF row
<1>5. row \in Row /\ row.files = Mine(d).files
  BY <1>4
<1>6. OwnedBy(row, users[Dir(d)])
  BY <1>2, <1>5 DEF RowIsFine, OwnedBy
<1>7. ASSUME ~torn PROVE InPlace(row)
  <2>1. Prefix(Part(d)) /\ InPlace(Mine(d))
    BY <1>1, <1>2, <1>7 DEF RowIsFine, InPlace, Part, Slot
  <2>2. Part(d) = Whole
    BY <1>3, <2>1, PrefixOfWhole
  <2>3. /\ Mine(d).parts \in [Slots -> Seq(Chunk)] /\ Mine(d).objects \in [Slots -> Seq(Chunk)]
        /\ row.parts = [Mine(d).parts EXCEPT ![s] = <<>>]
        /\ row.objects = [Mine(d).objects EXCEPT ![s] = Part(d)]
    BY <1>2, <1>4 DEF Row
  <2> HIDE DEF s
  <2>4. ASSUME NEW x \in Slots
        PROVE  /\ row.parts[x] = Mine(d).parts[x] \/ row.parts[x] = <<>>
               /\ row.objects[x] = Mine(d).objects[x] \/ row.objects[x] = Whole
    BY <2>2, <2>3
  <2> QED
    BY <2>1, <2>4, NothingIsAPrefix DEF InPlace
<1>8. RowIsFine(row, users[Dir(d)], torn)
  BY <1>6, <1>7 DEF RowIsFine
<1>9. t \in Task /\ t.pc = "restore" /\ t.o = task[d].o /\ t.n = 0
  BY UnderWay DEF Task
<1>10. TaskIsFine(d, t, row, users[Dir(d)])
  <2>1. /\ TaskIsFine(d, task[d], Mine(d), users[Dir(d)]) /\ task[d].pc # "idle"
        /\ Len(Layout[d][task[d].o]) \in Nat \ {0}
    BY UnderWay, ObjectsAreNumbered
  <2>2. \A o : IsRestored(d, Mine(d), o) => IsRestored(d, row, o)
    BY <1>5 DEF IsRestored
  <2> HIDE DEF t
  <2> QED
    BY <1>9, <2>1, <2>2 DEF TaskIsFine
<1>11. task' = [task EXCEPT ![d] = t] /\ dirs' = [dirs EXCEPT ![Dir(d)] = row]
  BY DEF Goto, Complete, Disk, row
<1>12. UNCHANGED <<users, published, torn>>
  BY DEF Complete, Disk
<1> HIDE DEF t
<1> QED
  BY <1>5, <1>8, <1>9, <1>10, <1>11, <1>12, OneStepHere

LEMMA ResumeObjectKeeps ==
  ASSUME IInv, NEW d \in Datasets, resume_object(d) PROVE IInv'
<1>1. At(d, "fetch") /\ ~At(d, "idle") /\ torn' = torn
  BY DEF resume_object, At
<1>2. TaskIsFine(d, task[d], Mine(d), users[Dir(d)])
  BY <1>1, UnderWay
<1>3. task[d].o \in Objects(d) /\ task[d].n = 0
  BY <1>1, <1>2 DEF TaskIsFine, At
<1>4. CASE Goto(d, "restore") /\ UNCHANGED disk
  <2> DEFINE t == [task[d] EXCEPT !.pc = "restore"]
  <2>1. t \in Task /\ t.pc = "restore" /\ t.o = task[d].o /\ t.n = 0
    BY <1>1, <1>3, UnderWay DEF Task
  <2>2. task' = [task EXCEPT ![d] = t]
    BY <1>4 DEF Goto
  <2>3. Len(Layout[d][task[d].o]) \in Nat \ {0}
    BY <1>3, ObjectsAreNumbered
  <2> HIDE DEF t
  <2>4. TaskIsFine(d, t, Mine(d), users[Dir(d)])
    BY <1>1, <1>2, <2>1, <2>3 DEF TaskIsFine, At
  <2> QED
    BY <1>1, <1>4, <2>1, <2>2, <2>4, OneStepInMemory DEF disk
<1>5. CASE Len(Part(d)) = Chunks /\ Complete(d) /\ Goto(d, "restore")
  BY <1>1, <1>3, <1>5, CompletionIsFine
<1>6. CASE Fails(d)
  BY <1>1, <1>6, FailureIsFine
<1> QED
  BY <1>4, <1>5, <1>6 DEF resume_object

LEMMA RequestObjectKeeps ==
  ASSUME IInv, NEW d \in Datasets, request_object(d) PROVE IInv'
<1> DEFINE s == Slot(d)
<1>1. At(d, "fetch") /\ ~At(d, "idle") /\ torn' = torn
  BY DEF request_object, At
<1>2. /\ TaskIsFine(d, task[d], Mine(d), users[Dir(d)]) /\ Mine(d) \in Row
      /\ RowIsFine(Mine(d), users[Dir(d)], torn) /\ task[d] \in Task
  BY <1>1, UnderWay
<1>3. task[d].o \in Objects(d) /\ task[d].n = 0 /\ s \in Slots
  BY <1>1, <1>2, FilesAreOfObjects DEF TaskIsFine, At, Slot
<1>4. Part(d) \in Seq(Chunk)
  BY <1>2, <1>3 DEF Part, Row
<1>5. ASSUME NEW row \in Row, row.files = Mine(d).files, RowIsFine(row, users[Dir(d)], torn),
             NEW n \in Nat, n = Len(row.parts[s]) + 1,
             task' = [task EXCEPT ![d].pc = "stream", ![d].at = n], Disk(d, row)
      PROVE  IInv'
  <2> DEFINE t == [task[d] EXCEPT !.pc = "stream", !.at = n]
  <2>1. /\ t \in Task /\ t.pc = "stream" /\ t.o = task[d].o /\ t.n = 0
        /\ t.at = Len(row.parts[<<d, t.o>>]) + 1
    BY <1>2, <1>3, <1>5 DEF Task, Slot
  <2>2. task' = [task EXCEPT ![d] = t]
    BY <1>5 DEF IInv, Types
  <2>3. \A o : IsRestored(d, Mine(d), o) => IsRestored(d, row, o)
    BY <1>5 DEF IsRestored
  <2> HIDE DEF t
  <2>4. TaskIsFine(d, t, row, users[Dir(d)])
    BY <1>1, <1>2, <1>3, <2>1, <2>3 DEF TaskIsFine, At
  <2> QED
    BY <1>1, <1>5, <2>1, <2>2, <2>4, OneStepHere DEF Disk
<1>6. CASE /\ task' = [task EXCEPT ![d].pc = "stream", ![d].at = Len(Part(d)) + 1]
           /\ Disk(d, [Mine(d) EXCEPT !.started = @ \cup {s}])
  <2> DEFINE row == [Mine(d) EXCEPT !.started = @ \cup {s}]
  <2>1. /\ row \in Row /\ row.files = Mine(d).files /\ row.parts = Mine(d).parts
        /\ row.objects = Mine(d).objects
    BY <1>2, <1>3 DEF Row
  <2>2. Disk(d, row)
    BY <1>6
  <2> HIDE DEF row
  <2>3. RowIsFine(row, users[Dir(d)], torn)
    BY <1>2, <2>1 DEF RowIsFine, OwnedBy, InPlace
  <2>4. Len(Part(d)) + 1 \in Nat /\ Part(d) = row.parts[s]
    BY <1>4, <2>1, LenProperties DEF Part
  <2> QED
    BY <1>5, <1>6, <2>1, <2>2, <2>3, <2>4
<1>7. CASE /\ task' = [task EXCEPT ![d].pc = "stream", ![d].at = 1]
           /\ Disk(d, [Mine(d) EXCEPT !.parts[s] = RestartedPart(d)])
  <2> DEFINE row == [Mine(d) EXCEPT !.parts[s] = <<>>]
  <2>1. /\ row \in Row /\ row.files = Mine(d).files /\ row.parts[s] = <<>>
        /\ RowIsFine(row, users[Dir(d)], torn)
    BY <1>2, <1>3, NothingIsAPrefix, PartWritten
  <2>2. Disk(d, row)
    BY <1>7 DEF RestartedPart
  <2> HIDE DEF row
  <2>3. 1 = Len(row.parts[s]) + 1
    BY <2>1, NothingIsAPrefix
  <2> QED
    BY <1>5, <1>7, <2>1, <2>2, <2>3
<1>8. CASE Fails(d)
  BY <1>1, <1>8, FailureIsFine
<1> QED
  BY <1>6, <1>7, <1>8 DEF request_object

LEMMA ReceiveChunkKeeps ==
  ASSUME IInv, NEW d \in Datasets, receive_chunk(d) PROVE IInv'
<1> DEFINE s == Slot(d)
<1>1. At(d, "stream") /\ ~At(d, "idle") /\ torn' = torn /\ task[d].at <= Chunks
  BY DEF receive_chunk, At
<1>2. /\ TaskIsFine(d, task[d], Mine(d), users[Dir(d)]) /\ Mine(d) \in Row
      /\ RowIsFine(Mine(d), users[Dir(d)], torn) /\ task[d] \in Task
  BY <1>1, UnderWay
<1>3. /\ task[d].o \in Objects(d) /\ task[d].n = 0 /\ s \in Slots
      /\ task[d].at = Len(Part(d)) + 1
  BY <1>1, <1>2, FilesAreOfObjects DEF TaskIsFine, At, Slot, Part
<1>4. Part(d) \in Seq(Chunk) /\ Part(d) = Mine(d).parts[s]
  BY <1>2, <1>3 DEF Part, Row
<1>5. CASE /\ Disk(d, [Mine(d) EXCEPT !.parts[s] = Append(@, task[d].at)])
           /\ task' = [task EXCEPT ![d].at = @ + 1]
  <2> DEFINE part == Append(Part(d), task[d].at)
             row  == [Mine(d) EXCEPT !.parts[s] = part]
             t    == [task[d] EXCEPT !.at = @ + 1]
  <2>1. task[d].at \in Chunk
    BY <1>1, <1>2, DownloadAssumption DEF Chunk, Task
  <2>2. part \in Seq(Chunk) /\ Len(part) = task[d].at
    BY <1>3, <1>4, <2>1, AppendProperties
  <2>3. ~torn => Prefix(part)
    BY <1>2, <1>3, <1>4, <2>1, NextChunk DEF RowIsFine, InPlace
  <2>4. Disk(d, row)
    BY <1>4, <1>5
  <2> HIDE DEF part
  <2>5. /\ row \in Row /\ row.files = Mine(d).files /\ row.parts[s] = part
        /\ RowIsFine(row, users[Dir(d)], torn)
    BY <1>2, <1>3, <2>2, <2>3, PartWritten
  <2> HIDE DEF row
  <2>6. /\ t \in Task /\ t.pc = "stream" /\ t.o = task[d].o /\ t.n = 0
        /\ t.at = Len(row.parts[<<d, t.o>>]) + 1
    BY <1>1, <1>2, <1>3, <2>2, <2>5 DEF Task, Slot, At
  <2>7. task' = [task EXCEPT ![d] = t]
    BY <1>5
  <2>8. \A o : IsRestored(d, Mine(d), o) => IsRestored(d, row, o)
    BY <2>5 DEF IsRestored
  <2> HIDE DEF t
  <2>9. TaskIsFine(d, t, row, users[Dir(d)])
    BY <1>1, <1>2, <1>3, <2>6, <2>8 DEF TaskIsFine, At
  <2> QED
    BY <1>1, <2>4, <2>5, <2>6, <2>7, <2>9, OneStepHere DEF Disk
<1>6. CASE Fails(d)
  BY <1>1, <1>6, FailureIsFine
<1> QED
  BY <1>5, <1>6 DEF receive_chunk

LEMMA ObjectReceivedKeeps ==
  ASSUME IInv, NEW d \in Datasets, object_received(d) PROVE IInv'
<1>1. At(d, "stream") /\ ~At(d, "idle") /\ torn' = torn
  BY DEF object_received, At
<1>2. task[d].o \in Objects(d) /\ task[d].n = 0
  BY <1>1, UnderWay DEF TaskIsFine, At
<1> QED
  BY <1>1, <1>2, CompletionIsFine, FailureIsFine DEF object_received

LEMMA RestoreFileKeeps ==
  ASSUME IInv, NEW d \in Datasets, restore_file(d) PROVE IInv'
<1> DEFINE p == Path(d)
           len == Len(Layout[d][task[d].o])
<1>1. At(d, "restore") /\ ~At(d, "idle") /\ torn' = torn
  BY DEF restore_file, At
<1>2. /\ TaskIsFine(d, task[d], Mine(d), users[Dir(d)]) /\ Mine(d) \in Row
      /\ RowIsFine(Mine(d), users[Dir(d)], torn) /\ task[d] \in Task
  BY <1>1, UnderWay
<1>3. task[d].o \in Objects(d) /\ task[d].n < len /\ task[d].n \in Nat /\ len \in Nat
  BY <1>1, <1>2, ObjectsAreNumbered DEF TaskIsFine, At, Task
<1>4. p \in Paths(d) /\ p \in AllPaths /\ p = Layout[d][task[d].o][task[d].n + 1]
  BY <1>3, FilesAreOfObjects DEF Path
<1>5. ASSUME NEW c \in Datasets \cup {Torn}
      PROVE  LET row == [Mine(d) EXCEPT !.files[p] = c] IN
             /\ row \in Row /\ RowIsFine(row, users[Dir(d)], torn)
             /\ row.files = [Mine(d).files EXCEPT ![p] = c]
  <2> DEFINE row == [Mine(d) EXCEPT !.files[p] = c]
  <2> HIDE DEF p
  <2>1. /\ row \in Row /\ row.files = [Mine(d).files EXCEPT ![p] = c]
        /\ row.parts = Mine(d).parts /\ row.objects = Mine(d).objects
    BY <1>2, <1>4 DEF Row
  <2>2. Mine(d).files \in [AllPaths -> Datasets \cup {None, Torn}] /\ d \in users[Dir(d)]
    BY <1>1, <1>2 DEF Row, TaskIsFine, At
  <2> HIDE DEF row
  <2>3. OwnedBy(row, users[Dir(d)])
    BY <1>2, <1>4, <2>1, <2>2 DEF RowIsFine, OwnedBy
  <2>4. RowIsFine(row, users[Dir(d)], torn)
    BY <1>2, <2>1, <2>3 DEF RowIsFine, InPlace
  <2> QED
    BY <2>1, <2>4 DEF row
<1>6. CASE Verified(d)
  <2> DEFINE row == [Mine(d) EXCEPT !.files[p] = d]
             pc == IF task[d].n + 1 = len THEN "remove" ELSE "restore"
             t == [task[d] EXCEPT !.n = @ + 1, !.pc = pc]
  <2>1. /\ Disk(d, row)
        /\ task' = [task EXCEPT ![d].n = @ + 1, ![d].pc = pc]
    BY <1>6 DEF restore_file, Verified
  <2>2. /\ row \in Row /\ RowIsFine(row, users[Dir(d)], torn)
        /\ row.files = [Mine(d).files EXCEPT ![p] = d]
    BY <1>5
  <2> HIDE DEF row
  <2>3. /\ t \in Task /\ t.pc = pc /\ t.o = task[d].o /\ t.n = task[d].n + 1
    <3> DEFINE one == [task[d] EXCEPT !.n = @ + 1]
    <3>1. one \in Task /\ one.o = task[d].o /\ one.n = task[d].n + 1
      BY <1>2 DEF Task
    <3>2. pc \in {"remove", "restore"}
      OBVIOUS
    <3>3. t = [one EXCEPT !.pc = pc]
      OBVIOUS
    <3> HIDE DEF pc, one, t
    <3> QED
      BY <3>1, <3>2, <3>3 DEF Task
  <2>4. task' = [task EXCEPT ![d] = t]
    BY <2>1 DEF IInv, Types
  <2> HIDE DEF t
  <2>5. Mine(d).files \in [AllPaths -> Datasets \cup {None, Torn}]
    BY <1>2 DEF Row
  <2>6. \A x \in AllPaths : Mine(d).files[x] = d \/ x = p => row.files[x] = d
    BY <2>2, <2>5
  <2>7. \A o \in Objects(d) : \A j \in 1..Len(Layout[d][o]) : Layout[d][o][j] \in AllPaths
    BY FilesAreOfObjects
  <2>8. \A o \in Objects(d) : IsRestored(d, Mine(d), o) => IsRestored(d, row, o)
    BY <2>6, <2>7 DEF IsRestored
  <2>9. \A j \in 1..(task[d].n + 1) : row.files[Layout[d][task[d].o][j]] = d
    <3> TAKE j \in 1..(task[d].n + 1)
    <3>1. j \in 1..len /\ (j \in 1..task[d].n \/ j = task[d].n + 1)
      BY <1>3
    <3>2. \A i \in 1..task[d].n : Mine(d).files[Layout[d][task[d].o][i]] = d
      BY <1>1, <1>2 DEF TaskIsFine, At
    <3>3. Layout[d][task[d].o][j] \in AllPaths
      BY <1>3, <2>7, <3>1
    <3> QED
      BY <1>4, <2>6, <3>1, <3>2, <3>3
  <2>10. task[d].n + 1 = len => IsRestored(d, row, task[d].o)
    BY <2>9 DEF IsRestored
  <2>11. TaskIsFine(d, t, row, users[Dir(d)])
    <3>1. CASE task[d].n + 1 = len
      BY <1>1, <1>2, <1>3, <2>3, <2>8, <2>10, <3>1 DEF TaskIsFine, At
    <3>2. CASE task[d].n + 1 # len
      BY <1>1, <1>2, <1>3, <2>3, <2>8, <2>9, <3>2 DEF TaskIsFine, At
    <3> QED
      BY <3>1, <3>2
  <2>12. UNCHANGED <<users, published, torn>> /\ dirs' = [dirs EXCEPT ![Dir(d)] = row]
    BY <1>1, <2>1 DEF Disk
  <2> QED
    BY <1>1, <2>2, <2>3, <2>4, <2>11, <2>12, OneStepHere
<1>7. CASE ~Verified(d)
  <2> DEFINE row == IF d \in Cli THEN Absent ELSE [Mine(d) EXCEPT !.files[p] = Torn]
  <2>1. task' = [task EXCEPT ![d] = Idle] /\ Disk(d, row)
    BY <1>7 DEF restore_file
  <2>2. row \in Row /\ RowIsFine(row, users[Dir(d)], torn)
    BY <1>5, EmptyDirectory DEF RowIsFine
  <2> HIDE DEF row
  <2> QED
    BY <1>1, <2>1, <2>2, IdleIsFine, OneStepHere DEF Disk
<1> QED
  BY <1>6, <1>7

LEMMA RemoveObjectKeeps ==
  ASSUME IInv, NEW d \in Datasets, remove_object(d) PROVE IInv'
<1> DEFINE s == Slot(d)
           row == [Mine(d) EXCEPT !.objects[s] = <<>>]
<1>1. At(d, "remove") /\ ~At(d, "idle") /\ torn' = torn /\ Disk(d, row) /\ NextObject(d)
  BY DEF remove_object, At
<1>2. /\ TaskIsFine(d, task[d], Mine(d), users[Dir(d)]) /\ Mine(d) \in Row
      /\ RowIsFine(Mine(d), users[Dir(d)], torn) /\ task[d] \in Task
  BY <1>1, UnderWay
<1>3. task[d].o \in Objects(d) /\ s \in Slots /\ IsRestored(d, Mine(d), task[d].o)
  BY <1>1, <1>2, FilesAreOfObjects DEF TaskIsFine, At, Slot
<1> HIDE DEF s
<1>4. /\ row \in Row /\ row.files = Mine(d).files /\ row.parts = Mine(d).parts
      /\ row.objects = [Mine(d).objects EXCEPT ![s] = <<>>]
  BY <1>2, <1>3, NothingIsAPrefix DEF Row
<1>5. Mine(d).objects \in [Slots -> Seq(Chunk)]
  BY <1>2 DEF Row
<1> HIDE DEF row
<1>6. RowIsFine(row, users[Dir(d)], torn)
  BY <1>2, <1>4, <1>5 DEF RowIsFine, OwnedBy, InPlace
<1> QED
  BY <1>1, <1>3, <1>4, <1>6, NextObjectIsFine, OneStepHere DEF Disk, NextObject

LEMMA FinishDownloadKeeps ==
  ASSUME IInv, NEW d \in Datasets, finish_download(d) PROVE IInv'
<1> DEFINE row == [Mine(d) EXCEPT !.cache = FALSE]
           t == [task[d] EXCEPT !.pc = "publish"]
<1>1. At(d, "object") /\ ~At(d, "idle") /\ torn' = torn /\ task[d].o \notin Objects(d)
  BY DEF finish_download, At
<1>2. /\ TaskIsFine(d, task[d], Mine(d), users[Dir(d)]) /\ Mine(d) \in Row
      /\ RowIsFine(Mine(d), users[Dir(d)], torn) /\ task[d] \in Task
  BY <1>1, UnderWay
<1>3. CASE Disk(d, row) /\ Goto(d, "publish")
  <2>1. /\ row \in Row /\ row.files = Mine(d).files /\ row.parts = Mine(d).parts
        /\ row.objects = Mine(d).objects
    BY <1>2 DEF Row
  <2>2. Disk(d, row)
    BY <1>3
  <2> HIDE DEF row
  <2>3. RowIsFine(row, users[Dir(d)], torn)
    BY <1>2, <2>1 DEF RowIsFine, OwnedBy, InPlace
  <2>4. t \in Task /\ t.pc = "publish" /\ t.o = task[d].o
    BY <1>2 DEF Task
  <2>5. task' = [task EXCEPT ![d] = t]
    BY <1>3 DEF Goto
  <2> HIDE DEF t
  <2>6. task[d].o = Len(Layout[d]) + 1
    BY <1>1, <1>2, ObjectsAreNumbered DEF TaskIsFine, At
  <2>7. \A o : IsRestored(d, Mine(d), o) => IsRestored(d, row, o)
    BY <2>1 DEF IsRestored
  <2>8. TaskIsFine(d, t, row, users[Dir(d)])
    BY <1>1, <1>2, <2>4, <2>6, <2>7 DEF TaskIsFine, At
  <2> QED
    BY <1>1, <2>1, <2>2, <2>3, <2>4, <2>5, <2>8, OneStepHere DEF Disk
<1>4. CASE Fails(d)
  BY <1>1, <1>4, FailureIsFine
<1> QED
  BY <1>3, <1>4 DEF finish_download

(* The directory of a retrieval that ends has its files and no others, unless other datasets
   were restored there too.                                                                 *)
LEMMA RestoredAloneIsExact ==
  ASSUME IInv, NEW d \in Datasets, At(d, "publish"), users[Dir(d)] = {d}
  PROVE  Mine(d).files = Exact(d)
<1>1. /\ TaskIsFine(d, task[d], Mine(d), users[Dir(d)]) /\ Mine(d) \in Row
      /\ RowIsFine(Mine(d), users[Dir(d)], torn)
  BY UnderWay DEF At
<1>2. \A o \in Objects(d) : IsRestored(d, Mine(d), o)
  <2>1. task[d].o = Len(Layout[d]) + 1 /\ \A o \in Objects(d) : o < task[d].o
    BY <1>1, ObjectsAreNumbered DEF TaskIsFine, At
  <2> QED
    BY <1>1, <2>1 DEF TaskIsFine, At
<1>3. \A p \in Paths(d) : Mine(d).files[p] = d
  BY <1>2, FilesAreOfObjects DEF IsRestored
<1>4. \A p \in AllPaths \ Paths(d) : Mine(d).files[p] = None
  BY <1>1 DEF RowIsFine, OwnedBy
<1>5. Mine(d).files \in [AllPaths -> Datasets \cup {None, Torn}]
  BY <1>1 DEF Row
<1>6. Mine(d).files = [p \in AllPaths |-> Mine(d).files[p]]
  BY <1>5
<1> QED
  BY <1>3, <1>4, <1>6 DEF Exact

LEMMA PublishKeeps ==
  ASSUME IInv, NEW d \in Datasets, publish(d) PROVE IInv'
<1> DEFINE q == [files |-> Mine(d).files, users |-> users[Dir(d)]]
<1>1. At(d, "publish") /\ ~At(d, "idle") /\ torn' = torn
  BY DEF publish, At
<1>2. CASE Fails(d)
  BY <1>1, <1>2, FailureIsFine
<1>3. CASE ~Fails(d)
  <2>1. /\ published' = [published EXCEPT ![d] = q]
        /\ dirs' = [dirs EXCEPT ![Dir(d)] = Absent]
        /\ users' = [users EXCEPT ![Dir(d)] = {}]
        /\ task' = [task EXCEPT ![d] = Idle]
    BY <1>3 DEF publish
  <2>2. q \in Publication
    <3>1. Mine(d).files \in [AllPaths -> Datasets \cup {None, Torn}]
      BY <1>1, UnderWay DEF Row
    <3>2. users[Dir(d)] \in SUBSET Datasets
      BY DirectoriesAreApart DEF IInv, Types
    <3> QED
      BY <3>1, <3>2 DEF Publication
  <2>3. q.users = {d} => q.files = Exact(d)
    BY <1>1, RestoredAloneIsExact
  <2> HIDE DEF q
  <2>4. RowIsFine(Absent, {}, torn)
    BY EmptyDirectory DEF RowIsFine
  <2>5. OthersIdle(d)
    BY <1>1 DEF IInv, OneAtATime
  <2> QED
    BY <1>1, <2>1, <2>2, <2>3, <2>4, <2>5, EmptyDirectory, IdleIsFine, OneRetrieval
<1> QED
  BY <1>2, <1>3

LEMMA CrashKeeps == ASSUME IInv, Crash PROVE IInv'
<1> DEFINE left == [k \in Dirs |-> IF k \in Cli THEN Absent ELSE dirs[k]]
<1>1. left \in [Dirs -> Row] /\ \A k \in Dirs : RowIsFine(left[k], users[k], torn)
  BY EmptyDirectory DEF IInv, Types, RowIsFine
<1>2. /\ UNCHANGED <<users, published>> /\ task' = [d \in Datasets |-> Idle]
  BY DEF Crash
<1>3. task' \in [Datasets -> Task] /\ \A d \in Datasets : At(d, "idle")'
  BY <1>2, IdleIsFine DEF At, Idle
<1>4. ASSUME dirs' \in [Dirs -> Row], torn' \in BOOLEAN,
             \A k \in Dirs : RowIsFine(dirs'[k], users[k], torn')
      PROVE  IInv'
  <2>1. Types'
    BY <1>2, <1>3, <1>4 DEF IInv, Types
  <2>2. (\A d \in Datasets : TaskIsFine(d, task[d], dirs[Dir(d)], users[Dir(d)]))'
    BY <1>2, IdleIsFine
  <2>3. OneAtATime'
    BY <1>3 DEF OneAtATime
  <2>4. PublishedAloneIsExact'
    BY <1>2 DEF IInv, PublishedAloneIsExact, Exact
  <2> QED
    BY <1>2, <1>4, <2>1, <2>2, <2>3, <2>4 DEF IInv
<1> HIDE DEF left
<1>5. CASE dirs' = left /\ UNCHANGED torn
  BY <1>1, <1>4, <1>5 DEF IInv, Types
<1>6. ASSUME NEW d \in Desktop, At(d, "restore"), UNCHANGED torn,
             dirs' = [left EXCEPT ![Shared].files[Path(d)] = Torn]
      PROVE  IInv'
  <2> DEFINE p == Path(d)
             row == [left[Shared] EXCEPT !.files[p] = Torn]
  <2>1. d \in Datasets /\ Dir(d) = Shared /\ Shared \in Dirs
    BY <1>6, DirectoriesAreApart DEF Datasets, Dir
  <2>2. TaskIsFine(d, task[d], Mine(d), users[Shared]) /\ task[d] \in Task
    BY <1>6, <2>1, UnderWay DEF At
  <2>3. p \in Paths(d) /\ p \in AllPaths /\ d \in users[Shared]
    <3>1. task[d].o \in Objects(d) /\ d \in users[Shared]
      BY <1>6, <2>2 DEF TaskIsFine, At
    <3>2. task[d].n + 1 \in 1..Len(Layout[d][task[d].o])
      BY <1>6, <2>1, <2>2, <3>1, ObjectsAreNumbered DEF TaskIsFine, At, Task
    <3> QED
      BY <2>1, <3>1, <3>2, FilesAreOfObjects DEF Path
  <2> HIDE DEF p
  <2>4. left[Shared] \in Row
    BY <1>1, <2>1
  <2>5. /\ row \in Row /\ row.files = [left[Shared].files EXCEPT ![p] = Torn]
        /\ row.parts = left[Shared].parts /\ row.objects = left[Shared].objects
    BY <2>3, <2>4 DEF Row
  <2>6. left[Shared].files \in [AllPaths -> Datasets \cup {None, Torn}]
    BY <2>4 DEF Row
  <2>7. dirs' = [left EXCEPT ![Shared] = row]
    BY <1>6 DEF p
  <2> HIDE DEF row
  <2>8. RowIsFine(row, users[Shared], torn)
    BY <1>1, <2>1, <2>3, <2>5, <2>6 DEF RowIsFine, OwnedBy, InPlace
  <2>9. dirs' \in [Dirs -> Row] /\ \A k \in Dirs : RowIsFine(dirs'[k], users[k], torn)
    BY <1>1, <2>1, <2>5, <2>7, <2>8
  <2> QED
    BY <1>4, <1>6, <2>9 DEF IInv, Types
<1>7. ASSUME NEW k \in Dirs, NEW s \in Slots, left[k].parts[s] # <<>>, torn' = TRUE,
             dirs' = [left EXCEPT ![k].parts[s][Len(left[k].parts[s])] = Lost]
      PROVE  IInv'
  <2> DEFINE m == left[k]
             old == m.parts[s]
             part == [old EXCEPT ![Len(old)] = Lost]
             row == [m EXCEPT !.parts[s] = part]
  <2>1. m \in Row /\ old \in Seq(Chunk) /\ m.parts \in [Slots -> Seq(Chunk)]
    BY <1>1 DEF Row
  <2>2. part \in Seq(Chunk)
    <3>1. Lost \in Chunk
      BY DownloadAssumption DEF Lost, Chunk
    <3>2. old # <<>>
      BY <1>7
    <3> HIDE DEF old, m
    <3>3. Len(old) \in 1..Len(old)
      BY <2>1, <3>2, LenProperties, EmptySeq
    <3> QED
      BY <2>1, <3>1, <3>3, ExceptSeq
  <2>3. dirs' = [left EXCEPT ![k] = row]
    BY <1>7
  <2>4. row \in Row /\ RowIsFine(row, users[k], TRUE)
    <3>1. RowIsFine(m, users[k], TRUE)
      BY <1>1 DEF RowIsFine
    <3> HIDE DEF m, part
    <3> QED
      BY <2>1, <2>2, <3>1, PartWritten
  <2> HIDE DEF row
  <2>5. \A j \in Dirs : RowIsFine(left[j], users[j], TRUE)
    BY <1>1 DEF RowIsFine
  <2>6. dirs' \in [Dirs -> Row] /\ \A j \in Dirs : RowIsFine(dirs'[j], users[j], TRUE)
    BY <1>1, <2>3, <2>4, <2>5
  <2> QED
    BY <1>4, <1>7, <2>6
<1> QED
  BY <1>5, <1>6, <1>7 DEF Crash, left

-----------------------------------------------------------------------------
LEMMA InitIInv == Init => IInv
<1> SUFFICES ASSUME Init PROVE IInv
  OBVIOUS
<1>1. Types
  <2>1. Unpublished \in Publication
    BY EmptyDirectory DEF Unpublished, Publication, Row
  <2> QED
    BY <2>1, EmptyDirectory, IdleIsFine DEF Init, Types
<1>2. \A k \in Dirs : RowIsFine(dirs[k], users[k], torn)
  BY EmptyDirectory DEF Init, RowIsFine
<1>3. \A d \in Datasets : TaskIsFine(d, task[d], dirs[Dir(d)], users[Dir(d)])
  BY IdleIsFine DEF Init
<1>4. OneAtATime
  BY DEF Init, OneAtATime, At, Idle
<1>5. PublishedAloneIsExact
  BY DEF Init, PublishedAloneIsExact, Unpublished
<1> QED
  BY <1>1, <1>2, <1>3, <1>4, <1>5 DEF IInv

(* What the interface and the Registry do changes none of it. *)
LEMMA ElsewhereKeeps ==
  ASSUME IInv, UNCHANGED <<dirs, users, published, task, torn>> PROVE IInv'
BY DEF IInv, Types, OneAtATime, OthersIdle, At, PublishedAloneIsExact, Exact

LEMMA NextIInv == IInv /\ [Next]_vars => IInv'
<1> SUFFICES ASSUME IInv, [Next]_vars PROVE IInv'
  OBVIOUS
<1>1. ASSUME NEW d \in Datasets, Step(d) PROVE IInv'
  BY <1>1, DownloadDatasetKeeps, NextObjectKeeps, ResumeObjectKeeps, RequestObjectKeeps,
     ReceiveChunkKeeps, ObjectReceivedKeeps, RestoreFileKeeps, RemoveObjectKeeps,
     FinishDownloadKeeps, PublishKeeps DEF Step
<1>2. ASSUME NEW d \in Datasets, pause_download(d) PROVE IInv'
  BY <1>2, ElsewhereKeeps DEF pause_download, disk
<1>3. ASSUME NEW d \in Datasets, RegistryDeletes(d) PROVE IInv'
  BY <1>3, ElsewhereKeeps DEF RegistryDeletes, disk
<1>4. CASE UserMovesFolder
  BY <1>4, ElsewhereKeeps DEF UserMovesFolder
<1>5. CASE Crash
  BY <1>5, CrashKeeps
<1>6. CASE UNCHANGED vars
  BY <1>6, ElsewhereKeeps DEF vars, disk
<1> QED
  BY <1>1, <1>2, <1>3, <1>4, <1>5, <1>6 DEF Next

LEMMA Invariance == Spec => []IInv
BY InitIInv, NextIInv, PTL DEF Spec

(* Over any number of stops, broken connections and ignored ranges, a .part file is a
   beginning of its object and a fetched object is the object, unless bytes were lost with
   the machine (download_object_resumable).                                                *)
THEOREM FetchesStayInPlace == Spec => []FetchedInPlace
<1>1. ASSUME IInv, ~torn, NEW k \in Dirs, NEW s \in Slots
      PROVE  /\ dirs[k].parts[s] = SubSeq(Whole, 1, Len(dirs[k].parts[s]))
             /\ dirs[k].objects[s] \in {<<>>, Whole}
  <2>1. dirs[k] \in Row /\ dirs[k].parts[s] \in Seq(Chunk)
    BY <1>1 DEF IInv, Types, Row
  <2>2. Prefix(dirs[k].parts[s]) /\ dirs[k].objects[s] \in {<<>>, Whole}
    BY <1>1 DEF IInv, RowIsFine, InPlace
  <2> QED
    BY <2>1, <2>2, PrefixOfWhole
<1>2. IInv => FetchedInPlace
  BY <1>1 DEF FetchedInPlace
<1> QED
  BY <1>2, Invariance, PTL

(* A dataset that had its partial directory for itself is published with exactly its files,
   each of them verified, after any number of stops and crashes (download_dataset_inner, and
   the retrieve command).                                                                   *)
THEOREM PublicationIsExact == Spec => []PublishedAloneIsExact
<1>1. IInv => PublishedAloneIsExact
  BY DEF IInv
<1> QED
  BY <1>1, Invariance, PTL
=============================================================================
