------------------------- MODULE LocalStartupProofs -------------------------
(***************************************************************************)
(* Proofs about LocalStartup, for any number of deaths of Courier, damages *)
(* and failed operations.                                                  *)
(***************************************************************************)
EXTENDS LocalStartup, TLAPS

-----------------------------------------------------------------------------
(* The files of a directory *)

(* A rename takes a file out of one directory and puts it, with its content, into another. *)
LEMMA RenameKeepsDirectories ==
  ASSUME NEW dir, Directory(dir), NEW s \in Suffixes
  PROVE  /\ Directory(Without(dir, s))
         /\ \A c \in Content(s) : Directory(Put(dir, s, c))
<1>1. Directory(Without(dir, s))
  BY DEF Directory, Without
<1>2. ASSUME NEW c \in Content(s) PROVE Directory(Put(dir, s, c))
  BY <1>2 DEF Directory, Put
<1> QED
  BY <1>1, <1>2

(* Nor is any data lost by it. *)
LEMMA RenameKeepsData ==
  ASSUME NEW from, NEW to, NEW s \in DOMAIN from, s \notin DOMAIN to
  PROVE  DataIn(Without(from, s)) \cup DataIn(Put(to, s, from[s])) = DataIn(from) \cup DataIn(to)
<1> DEFINE new == Put(to, s, from[s])
<1>1. DataIn(Without(from, s)) \cup from[s].data = DataIn(from)
  BY DEF DataIn, Without
<1>2. DOMAIN new = DOMAIN to \cup {s} /\ new[s] = from[s] /\ \A x \in DOMAIN to : new[x] = to[x]
  BY DEF Put
<1> HIDE DEF new
<1>3. \A e : e \in DataIn(new) <=> e \in DataIn(to) \/ e \in from[s].data
  BY <1>2 DEF DataIn
<1>4. DataIn(new) = DataIn(to) \cup from[s].data
  BY <1>3
<1> QED
  BY <1>1, <1>4 DEF new

(* A main file without a journal. *)
LEMMA AloneIsDirectory ==
  ASSUME NEW d \in Database
  PROVE  /\ Directory(Alone(d)) /\ DOMAIN Alone(d) = {""} /\ Alone(d)[""] = d
         /\ DataIn(Alone(d)) = d.data
<1>1. DOMAIN Alone(d) = {""} /\ Alone(d)[""] = d
  BY DEF Alone
<1>2. Directory(Alone(d))
  BY <1>1 DEF Directory, Content, Suffixes
<1>3. DataIn(Alone(d)) = d.data
  BY <1>1 DEF DataIn
<1> QED
  BY <1>1, <1>2, <1>3

LEMMA NoFilesIsDirectory == Directory(NoFiles) /\ DOMAIN NoFiles = {} /\ DataIn(NoFiles) = {}
  BY DEF Directory, NoFiles, DataIn

LEMMA DataInDirectory ==
  ASSUME NEW dir, Directory(dir)
  PROVE  DataIn(dir) \subseteq Data
<1>1. \A s \in DOMAIN dir : dir[s].data \subseteq Data
  BY DEF Directory, Content, Database
<1> QED
  BY <1>1 DEF DataIn

-----------------------------------------------------------------------------
(* SQLite *)

(* Closing a connection loses no data and leaves the database as it is. *)
LEMMA CloseKeeps ==
  ASSUME Directory(files), Exists, Close
  PROVE  /\ Directory(files)' /\ Exists' /\ DataIn(files)' = DataIn(files)
         /\ db'.version = db.version /\ db'.damaged = db.damaged /\ db'.id = db.id
         /\ files' = files \/ DOMAIN files' = {""}
<1>1. db \in Database
  BY DEF Directory, Exists, db, Content
<1> DEFINE d == [db EXCEPT !.data = DataIn(files)]
<1>2. /\ d \in Database /\ d.data = DataIn(files)
      /\ d.version = db.version /\ d.damaged = db.damaged /\ d.id = db.id
  BY <1>1, DataInDirectory DEF Database
<1>3. CASE files' = Alone(d)
  <2> HIDE DEF d
  <2> QED
    BY <1>2, <1>3, AloneIsDirectory DEF Exists, db
<1>4. CASE UNCHANGED files
  BY <1>4 DEF Exists, db
<1> QED
  BY <1>3, <1>4 DEF Close

(* A database with its journal. *)
LEMMA JournaledIsDirectory ==
  ASSUME NEW d \in Database, NEW tail \in SUBSET Data
  PROVE  LET dir == Journaled(d, tail) IN
         /\ Directory(dir) /\ DOMAIN dir = Suffixes /\ dir[""] = d
         /\ dir["-wal"].data = tail /\ dir["-shm"].data = {}
         /\ DataIn(dir) = d.data \cup tail
<1> DEFINE dir == Journaled(d, tail)
<1>1. DOMAIN dir = Suffixes /\ dir[""] = d
  BY DEF Journaled, Suffixes
<1>2. dir["-wal"] = [data |-> tail] /\ dir["-shm"] = [data |-> {}]
  BY DEF Journaled, Suffixes
<1>3. dir["-wal"].data = tail /\ dir["-shm"].data = {}
  BY DEF Journaled, Suffixes
<1> HIDE DEF dir
<1>4. dir["-wal"] \in [data : SUBSET Data] /\ dir["-shm"] \in [data : SUBSET Data]
  BY <1>2
<1>5. Directory(dir)
  BY <1>1, <1>4 DEF Directory, Content, Suffixes
<1>6. DataIn(dir) = d.data \cup tail
  BY <1>1, <1>3 DEF DataIn, Suffixes
<1> QED
  BY <1>1, <1>3, <1>5, <1>6 DEF dir

(* A commit leaves the database it writes and its own journal. *)
LEMMA CommitWrites ==
  ASSUME NEW d \in Database, Commit(d), written \subseteq Data
  PROVE  /\ Directory(files)' /\ Exists' /\ db' = d /\ DOMAIN files' = Suffixes
         /\ files'["-wal"].data = {<<d.id, "tail">>} /\ files'["-shm"].data = {}
         /\ written' = written \cup {<<d.id, "tail">>} /\ written' \subseteq Data
         /\ DataIn(files)' = d.data \cup {<<d.id, "tail">>}
<1>1. {<<d.id, "tail">>} \in SUBSET Data
  BY DEF Database, Data
<1> DEFINE dir == Journaled(d, {<<d.id, "tail">>})
<1>2. files' = dir /\ written' = written \cup {<<d.id, "tail">>}
  BY DEF Commit
<1>3. /\ Directory(dir) /\ DOMAIN dir = Suffixes /\ dir[""] = d
      /\ dir["-wal"].data = {<<d.id, "tail">>} /\ dir["-shm"].data = {}
      /\ DataIn(dir) = d.data \cup {<<d.id, "tail">>}
  BY <1>1, JournaledIsDirectory
<1> HIDE DEF dir
<1> QED
  BY <1>1, <1>2, <1>3 DEF Exists, db, Suffixes

LEMMA NewestIsNat == Newest \in Nat
  BY DEF Newest, Statements

(* A statement of a migration moves the schema on and touches nothing else. *)
LEMMA RanIsDatabase ==
  ASSUME Directory(files), Exists, db.version < Newest, NEW k \in Nat
  PROVE  Ran(k) \in Database /\ Ran(k).id = db.id /\ Ran(k).data = db.data
<1>1. db \in Database
  BY DEF Directory, Exists, db, Content
<1>2. CASE k = Statements[db.version + 1]
  <2>1. db.version + 1 \in 0..Newest
    BY <1>1, NewestIsNat DEF Database
  <2> QED
    BY <1>1, <1>2, <2>1 DEF Ran, Database
<1>3. CASE k # Statements[db.version + 1]
  BY <1>1, <1>3 DEF Ran, Database
<1> QED
  BY <1>2, <1>3

-----------------------------------------------------------------------------
(* Type correctness *)

(* The steps that change no file. *)
LEMMA QuietTypeOK ==
  ASSUME TypeOK
  PROVE  setup \/ archive_corrupt_database \/ command => TypeOK'
<1>1. setup => TypeOK'
  BY DEF TypeOK, setup, history
<1>2. archive_corrupt_database => TypeOK'
  BY StartupAssumption DEF TypeOK, archive_corrupt_database, Failed, Trouble, history
<1>3. command => TypeOK'
  BY DEF TypeOK, command, history
<1> QED
  BY <1>1, <1>2, <1>3

(* The renames, and leaving the archive. *)
LEMMA RenameTypeOK ==
  ASSUME TypeOK, Staged
  PROVE  /\ move_file \/ put_file_back \/ archived => TypeOK'
         /\ (Stop /\ trouble' \in Nat) => TypeOK'
<1>1. ASSUME move_file PROVE TypeOK'
  <2>1. next \in 1..3
    BY <1>1 DEF move_file, TypeOK, Staged
  <2>2. Directory(files') /\ Directory(archive')
    BY <1>1, <2>1, RenameKeepsDirectories DEF move_file, TypeOK, Directory
  <2>3. /\ next' \in 0..4 /\ trouble' \in Nat /\ pc' \in {"move", "putback"}
        /\ UNCHANGED <<kept, history, startup, at>>
    BY <1>1, <2>1 DEF move_file, TypeOK, Trouble
  <2> QED
    BY <2>2, <2>3 DEF TypeOK, history
<1>2. ASSUME put_file_back PROVE TypeOK'
  <2>1. Directory(files') /\ Directory(archive')
    BY <1>2, RenameKeepsDirectories DEF put_file_back, TypeOK, Directory
  <2>2. /\ next' \in 0..4 /\ trouble' \in Nat
        /\ UNCHANGED <<kept, history, pc, startup, at>>
    BY <1>2 DEF put_file_back, TypeOK, Trouble
  <2> QED
    BY <2>1, <2>2 DEF TypeOK, history
<1>3. LeaveArchive => Directory(archive)' /\ kept' \subseteq Data
  BY NoFilesIsDirectory, DataInDirectory DEF LeaveArchive, TypeOK
<1>4. archived => TypeOK'
  BY <1>3 DEF archived, TypeOK, Failed, history
<1>5. (Stop /\ trouble' \in Nat) => TypeOK'
  BY <1>3 DEF Stop, TypeOK, history
<1> QED
  BY <1>1, <1>2, <1>4, <1>5

(* The checks, which open a connection and close it. *)
LEMMA CheckTypeOK ==
  ASSUME TypeOK, Staged
  PROVE  ensure_database_integrity \/ verify \/ command_done => TypeOK'
<1>1. ASSUME Exists, Close PROVE Directory(files)'
  BY <1>1, CloseKeeps DEF TypeOK
<1>2. ensure_database_integrity => TypeOK'
  BY <1>1 DEF ensure_database_integrity, TypeOK, Failed, Trouble, history
<1>3. verify => TypeOK'
  BY <1>1 DEF verify, TypeOK, Staged, Failed, Trouble, history
<1>4. command_done => TypeOK'
  BY <1>1 DEF command_done, TypeOK, Staged, history
<1> QED
  BY <1>2, <1>3, <1>4

(* Opening the store and migrating it. *)
LEMMA OpenTypeOK ==
  ASSUME TypeOK, Staged
  PROVE  open \/ migrate_statement \/ migrate_fails \/ migrated \/ Damage => TypeOK'
<1>1. ASSUME open PROVE TypeOK'
  <2>1. CASE Exists
    BY <1>1, <2>1 DEF open, TypeOK, history
  <2>2. CASE ~Exists
    <3> DEFINE fresh == [id |-> created + 1, data |-> {<<created + 1, "base">>},
                         damaged |-> FALSE, version |-> 0, part |-> 0]
    <3>1. fresh \in Database /\ fresh.data \subseteq Data
      BY NewestIsNat DEF TypeOK, Database, Data
    <3>2. files' = Alone(fresh) /\ created' = created + 1 /\ written' = written \cup fresh.data
      BY <1>1, <2>2 DEF open
    <3> HIDE DEF fresh
    <3>3. Directory(files)'
      BY <3>1, <3>2, AloneIsDirectory
    <3> QED
      BY <1>1, <3>1, <3>2, <3>3 DEF open, TypeOK
  <2> QED
    BY <2>1, <2>2
<1>2. ASSUME migrate_statement PROVE TypeOK'
  <2>1. Directory(files)' /\ written' \subseteq Data
    <3>1. at + 1 \in Nat /\ Exists /\ db.version < Newest /\ Commit(Ran(at + 1))
      BY <1>2 DEF migrate_statement, TypeOK, Staged
    <3>2. Ran(at + 1) \in Database
      BY <3>1, RanIsDatabase DEF TypeOK
    <3> QED
      BY <3>1, <3>2, CommitWrites DEF TypeOK
  <2> QED
    BY <1>2, <2>1 DEF migrate_statement, TypeOK
<1>3. ASSUME migrate_fails PROVE TypeOK'
  <2>1. Directory(files)'
    BY <1>3, CloseKeeps DEF migrate_fails, OpenFailed, TypeOK, Staged
  <2> QED
    BY <1>3, <2>1 DEF migrate_fails, OpenFailed, TypeOK, Trouble, history
<1>4. ASSUME migrated PROVE TypeOK'
  <2>1. Exists /\ db \in Database
    BY <1>4 DEF migrated, TypeOK, Staged, Directory, Exists, db, Content
  <2>2. Directory(files)' /\ written' \subseteq Data
    BY <1>4, <2>1, CloseKeeps, CommitWrites DEF migrated, TypeOK
  <2> QED
    BY <1>4, <2>2 DEF migrated, TypeOK
<1>5. ASSUME Damage PROVE TypeOK'
  <2>1. db \in Database
    BY <1>5 DEF Damage, TypeOK, Directory, Exists, db, Content
  <2>2. [db EXCEPT !.damaged = TRUE] \in Content("")
    BY <2>1 DEF Database, Content
  <2>3. Directory(files)'
    BY <1>5, <2>2, RenameKeepsDirectories DEF Damage, TypeOK, Suffixes
  <2>4. Trouble /\ UNCHANGED <<archive, kept, history, process>>
    BY <1>5, Zenon DEF Damage
  <2> QED
    BY <2>3, <2>4 DEF TypeOK, Trouble, history, process
<1> QED
  BY <1>1, <1>2, <1>3, <1>4, <1>5

(* Every step keeps the types. *)
LEMMA NextTypeOK == TypeOK /\ Staged /\ [Next]_vars => TypeOK'
<1> SUFFICES ASSUME TypeOK, Staged, [Next]_vars PROVE TypeOK'
  OBVIOUS
<1>1. CASE UNCHANGED vars
  BY <1>1 DEF vars, TypeOK, history, process
<1>2. CASE Crash \/ Quit
  <2>1. Stop /\ trouble' \in Nat
    BY <1>2 DEF Crash, Quit, Trouble, TypeOK
  <2> QED
    BY <2>1, RenameTypeOK
<1>3. CASE Step
  BY <1>3, QuietTypeOK, RenameTypeOK, CheckTypeOK, OpenTypeOK DEF Step
<1>4. CASE command \/ Damage
  BY <1>4, QuietTypeOK, OpenTypeOK
<1> QED
  BY <1>1, <1>2, <1>3, <1>4 DEF Next

-----------------------------------------------------------------------------
(* How far the startup has come *)

LEMMA NextStaged == TypeOK /\ Placed /\ Staged /\ [Next]_vars => Staged'
<1> SUFFICES ASSUME TypeOK, Placed, Staged, [Next]_vars PROVE Staged'
  OBVIOUS
<1>1. CASE UNCHANGED vars \/ setup \/ archive_corrupt_database \/ command \/ put_file_back
  <2>1. CASE UNCHANGED vars
    BY <2>1 DEF vars, Staged, process, Exists, db
  <2>2. CASE setup
    BY <2>2 DEF setup, Staged
  <2>3. CASE archive_corrupt_database
    <3>1. \A s \in DOMAIN files : \E i \in 1..3 : Order[i] = s
      <4>1. Order[1] = "" /\ Order[2] = "-wal" /\ Order[3] = "-shm" /\ 1..3 = {1, 2, 3}
        BY DEF Order
      <4>2. \A s \in DOMAIN files : s \in {"", "-wal", "-shm"}
        BY DEF TypeOK, Directory, Suffixes
      <4> QED
        BY <4>1, <4>2
    <3> QED
      BY <2>3, <3>1 DEF archive_corrupt_database, Staged, Failed
  <2>4. CASE command
    BY <2>4 DEF command, TypeOK, Staged, Exists, db
  <2>5. CASE put_file_back
    BY <2>5 DEF put_file_back, Staged
  <2> QED
    BY <1>1, <2>1, <2>2, <2>3, <2>4, <2>5
<1>2. CASE ensure_database_integrity
  BY <1>2, CloseKeeps DEF ensure_database_integrity, TypeOK, Staged, NeedsArchive, Failed, Exists
<1>3. CASE move_file
  <2>1. /\ pc = "move" /\ next \in 1..3 /\ UNCHANGED startup /\ startup = "pending"
        /\ \A s \in DOMAIN files : \E i \in next..3 : Order[i] = s
    BY <1>3 DEF move_file, Staged
  <2>2. CASE pc' = "putback"
    BY <2>1, <2>2 DEF Staged
  <2>3. CASE pc' # "putback"
    <3>1. pc' = "move" /\ next' = next + 1 /\ Order[next] \notin DOMAIN files'
          /\ DOMAIN files' \subseteq DOMAIN files
      BY <1>3, <2>3 DEF move_file, Without
    <3>2. \A s \in DOMAIN files' : \E i \in next'..3 : Order[i] = s
      BY <2>1, <3>1
    <3> QED
      BY <2>1, <3>1, <3>2 DEF Staged
  <2> QED
    BY <2>2, <2>3
<1>4. CASE archived
  <2>1. next = 4 /\ pc = "move" => DOMAIN files = {}
    <3>1. next = 4 => next..3 = {}
      OBVIOUS
    <3> QED
      BY <3>1 DEF Staged
  <2> QED
    BY <1>4, <2>1 DEF archived, Failed, Staged, Exists
<1>5. CASE open
  <2>1. Exists'
    <3>1. CASE Exists
      BY <1>5, <3>1 DEF open, Exists
    <3>2. CASE ~Exists
      BY <1>5, <3>2 DEF open, Exists, Alone
    <3> QED
      BY <3>1, <3>2
  <2> QED
    BY <1>5, <2>1 DEF open, Staged
<1>6. CASE migrate_statement
  <2>1. /\ at + 1 \in Nat /\ Exists /\ db.version < Newest /\ Commit(Ran(at + 1))
        /\ pc = "migrate" /\ UNCHANGED <<pc, startup>>
    BY <1>6 DEF migrate_statement, TypeOK, Staged
  <2>2. Exists'
    BY <2>1, RanIsDatabase, CommitWrites DEF TypeOK
  <2> QED
    BY <2>1, <2>2 DEF Staged
<1>7. CASE migrate_fails
  BY <1>7, CloseKeeps DEF migrate_fails, OpenFailed, TypeOK, Staged
<1>8. CASE migrated
  <2>1. Exists /\ db \in Database
    BY <1>8 DEF migrated, TypeOK, Staged, Directory, Exists, db, Content
  <2>2. Exists' /\ db'.version = db.version
    BY <1>8, <2>1, CloseKeeps, CommitWrites DEF migrated, TypeOK
  <2> QED
    BY <1>8, <2>2 DEF migrated, Staged
<1>9. CASE verify \/ command_done
  BY <1>9, CloseKeeps DEF verify, command_done, TypeOK, Staged, Failed
<1>10. CASE Crash \/ Quit
  BY <1>10 DEF Crash, Quit, Stop, Staged
<1>11. CASE Damage
  <2>1. Exists /\ db \in Database /\ UNCHANGED process
    BY <1>11, Zenon DEF Damage, TypeOK, Directory, Exists, db, Content
  <2>2. files' = Put(files, "", [db EXCEPT !.damaged = TRUE])
    BY <1>11, Zenon DEF Damage
  <2>3. [db EXCEPT !.damaged = TRUE].version = db.version
    BY <2>1 DEF Database
  <2>4. DOMAIN files' = DOMAIN files /\ Exists' /\ db'.version = db.version
    BY <2>1, <2>2, <2>3 DEF Put, Exists, db
  <2> QED
    BY <2>1, <2>4 DEF Staged, process
<1> QED
  BY <1>1, <1>2, <1>3, <1>4, <1>5, <1>6, <1>7, <1>8, <1>9, <1>10, <1>11 DEF Next, Step

-----------------------------------------------------------------------------
(* Where the files are *)

(* A rename keeps the files of two directories together. *)
LEMMA RenameKeepsTogether ==
  ASSUME NEW from, NEW to, Together(from, to), NEW s \in DOMAIN from
  PROVE  Together(Without(from, s), Put(to, s, from[s])) /\ Together(Put(to, s, from[s]), Without(from, s))
<1> DEFINE f == Without(from, s)
           t == Put(to, s, from[s])
<1>1. DOMAIN f = DOMAIN from \ {s} /\ \A x \in DOMAIN f : f[x] = from[x]
  BY DEF Without
<1>2. DOMAIN t = DOMAIN to \cup {s} /\ t[s] = from[s] /\ \A x \in DOMAIN to \ {s} : t[x] = to[x]
  BY DEF Put
<1>3. s \notin DOMAIN to /\ DOMAIN from \cap DOMAIN to = {}
  BY DEF Together
<1> HIDE DEF f, t
<1>4. OwnJournal(f, f) /\ OwnJournal(f, t) /\ OwnJournal(t, f) /\ OwnJournal(t, t)
  BY <1>1, <1>2, <1>3 DEF Together, OwnJournal
<1>5. /\ DOMAIN f \cap DOMAIN t = {}
      /\ "-shm" \in DOMAIN f => f["-shm"].data = {}
      /\ "-shm" \in DOMAIN t => t["-shm"].data = {}
  BY <1>1, <1>2, <1>3 DEF Together
<1>6. Together(f, t) /\ Together(t, f)
  BY <1>4, <1>5 DEF Together
<1> QED
  BY <1>6 DEF f, t

(* A directory whose journal is its own is together with an empty one. *)
LEMMA TogetherWithNothing ==
  ASSUME NEW d, OwnJournal(d, d), "-shm" \in DOMAIN d => d["-shm"].data = {}
  PROVE  Together(d, NoFiles)
BY NoFilesIsDirectory DEF Together, OwnJournal

(* What closing a connection leaves is a database without a journal, or what was there. *)
LEMMA ClosePlaced ==
  ASSUME TypeOK, Placed, Exists, Close, archive = NoFiles, archive' = NoFiles
  PROVE  Placed'
<1>1. CASE UNCHANGED files
  BY <1>1 DEF Placed, Together
<1>2. CASE DOMAIN files' = {""}
  BY <1>2, TogetherWithNothing DEF Placed, OwnJournal
<1> QED
  BY <1>1, <1>2, CloseKeeps DEF TypeOK

(* A commit leaves the journal of the database it writes. *)
LEMMA CommitPlaced ==
  ASSUME TypeOK, archive = NoFiles, archive' = NoFiles, NEW d \in Database, Commit(d)
  PROVE  Placed'
<1>1. /\ db' = d /\ DOMAIN files' = Suffixes
      /\ files'["-wal"].data = {<<d.id, "tail">>} /\ files'["-shm"].data = {}
  BY CommitWrites DEF TypeOK
<1> QED
  BY <1>1, TogetherWithNothing DEF Placed, OwnJournal, db

LEMMA NextPlaced == TypeOK /\ Placed /\ Staged /\ [Next]_vars => Placed'
<1> SUFFICES ASSUME TypeOK, Placed, Staged, [Next]_vars PROVE Placed'
  OBVIOUS
<1>1. CASE UNCHANGED vars \/ setup \/ archive_corrupt_database \/ command
  <2>1. /\ UNCHANGED <<files, archive>>
        /\ archive = NoFiles \/ UNCHANGED pc
    BY <1>1 DEF vars, process, setup, archive_corrupt_database, command, Placed
  <2> QED
    BY <2>1 DEF Placed
<1>2. CASE ensure_database_integrity \/ verify \/ command_done \/ migrate_fails
  <2>1. archive = NoFiles /\ archive' = NoFiles
    BY <1>2 DEF ensure_database_integrity, verify, command_done, migrate_fails, Placed
  <2>2. UNCHANGED files \/ (Exists /\ Close)
    BY <1>2 DEF ensure_database_integrity, verify, command_done, migrate_fails, OpenFailed, Staged
  <2> QED
    BY <2>1, <2>2, ClosePlaced DEF Placed
<1>3. CASE move_file
  <2>1. pc' \in {"move", "putback"}
    BY <1>3 DEF move_file
  <2>2. CASE UNCHANGED <<files, archive>>
    BY <2>1, <2>2 DEF Placed
  <2>3. ASSUME NEW s \in DOMAIN files, files' = Without(files, s), archive' = Put(archive, s, files[s])
        PROVE  Placed'
    BY <2>1, <2>3, RenameKeepsTogether DEF Placed
  <2> QED
    BY <1>3, <2>2, <2>3 DEF move_file
<1>4. CASE put_file_back
  <2>1. pc' = "putback"
    BY <1>4 DEF put_file_back
  <2>2. CASE UNCHANGED <<files, archive>>
    BY <2>1, <2>2 DEF Placed
  <2>3. ASSUME NEW s \in DOMAIN archive, files' = Put(files, s, archive[s]), archive' = Without(archive, s)
        PROVE  Placed'
    <3>1. Together(archive, files)
      BY DEF Placed, Together
    <3> QED
      BY <2>1, <2>3, <3>1, RenameKeepsTogether DEF Placed
  <2> QED
    BY <1>4, <2>2, <2>3 DEF put_file_back
<1>5. CASE archived \/ Crash \/ Quit
  <2>1. archive' = NoFiles /\ UNCHANGED files
    BY <1>5 DEF archived, Crash, Quit, Stop, LeaveArchive
  <2> QED
    BY <2>1, TogetherWithNothing DEF Placed, Together
<1>6. CASE open
  <2>1. archive = NoFiles /\ archive' = NoFiles
    BY <1>6 DEF open, Placed
  <2>2. CASE Exists
    BY <1>6, <2>1, <2>2 DEF open, Placed
  <2>3. CASE ~Exists
    <3>1. DOMAIN files' = {""}
      BY <1>6, <2>3 DEF open, Alone
    <3> QED
      BY <2>1, <3>1, TogetherWithNothing DEF Placed, OwnJournal
  <2> QED
    BY <2>2, <2>3
<1>7. CASE migrate_statement
  <2>1. /\ Exists /\ db.version < Newest /\ Commit(Ran(at + 1))
        /\ archive = NoFiles /\ archive' = NoFiles
    BY <1>7 DEF migrate_statement, Staged, Placed
  <2>2. at + 1 \in Nat
    BY DEF TypeOK
  <2>3. Ran(at + 1) \in Database
    BY <2>1, <2>2, RanIsDatabase DEF TypeOK
  <2> QED
    BY <2>1, <2>3, CommitPlaced
<1>8. CASE migrated
  <2>1. /\ Exists /\ db \in Database /\ archive = NoFiles /\ archive' = NoFiles
        /\ Close \/ Commit(db)
    BY <1>8 DEF migrated, TypeOK, Staged, Placed, Directory, Exists, db, Content
  <2> QED
    BY <2>1, ClosePlaced, CommitPlaced
<1>9. CASE Damage
  <2>1. Exists /\ db \in Database /\ UNCHANGED <<archive, process>>
    BY <1>9, Zenon DEF Damage, TypeOK, Directory, Exists, db, Content
  <2>2. files' = Put(files, "", [db EXCEPT !.damaged = TRUE])
    BY <1>9, Zenon DEF Damage
  <2>3. [db EXCEPT !.damaged = TRUE].id = db.id
    BY <2>1 DEF Database
  <2>4. /\ DOMAIN files' = DOMAIN files /\ files'[""].id = files[""].id
        /\ \A s \in DOMAIN files : s # "" => files'[s] = files[s]
    BY <2>1, <2>2, <2>3 DEF Put, Exists, db
  <2> QED
    BY <2>1, <2>4 DEF Placed, Together, OwnJournal, Exists, process
<1> QED
  BY <1>1, <1>2, <1>3, <1>4, <1>5, <1>6, <1>7, <1>8, <1>9 DEF Next, Step

-----------------------------------------------------------------------------
(* The theorems *)

LEMMA InitIInv == Init => IInv
<1> SUFFICES ASSUME Init PROVE IInv
  OBVIOUS
<1>1. TypeOK
  BY NoFilesIsDirectory DEF Init, TypeOK
<1>2. Placed
  BY TogetherWithNothing, NoFilesIsDirectory DEF Init, Placed, OwnJournal
<1>3. Staged
  BY DEF Init, Staged
<1> QED
  BY <1>1, <1>2, <1>3 DEF IInv

LEMMA NextIInv == IInv /\ [Next]_vars => IInv'
  BY NextTypeOK, NextStaged, NextPlaced DEF IInv

(* For any number of failures: files and variables keep their types, every file is in one       *)
(* place with the journal that is its own, and the startup is as far as its files are.          *)
THEOREM StartupInvariant == Spec => []IInv
  BY InitIInv, NextIInv, PTL DEF Spec

(* A startup that reports success always leaves a sound database with the newest schema.        *)
THEOREM SuccessIsSound == Spec => StartsOnSoundStore
<1> DEFINE Sound == startup' = "ok" /\ startup # "ok" =>
                      Exists' /\ ~db'.damaged /\ db'.version = Newest
<1>1. ASSUME IInv, [Next]_vars PROVE Sound
  <2> SUFFICES ASSUME startup' = "ok", startup # "ok" PROVE Sound
    OBVIOUS
  <2>1. CASE verify
    <3>1. ~db.damaged
      BY <2>1 DEF verify, SecondCheckOk, Failed
    <3>2. Exists /\ Close /\ db.version = Newest /\ Directory(files)
      BY <1>1, <2>1 DEF verify, IInv, TypeOK, Staged
    <3>3. Exists' /\ db'.version = db.version /\ db'.damaged = db.damaged
      BY <3>2, CloseKeeps
    <3> QED
      BY <3>1, <3>2, <3>3
  <2>2. CASE UNCHANGED startup
    BY <2>2
  <2>3. verify \/ UNCHANGED startup
    <3>1. Step => verify \/ UNCHANGED startup
      BY DEF Step, setup, ensure_database_integrity, archive_corrupt_database, Failed, move_file,
             put_file_back, archived, open, migrate_statement, migrate_fails, OpenFailed, migrated,
             command_done
    <3>2. command \/ Crash \/ Quit \/ Damage => UNCHANGED startup
      BY DEF command, Crash, Quit, Stop, Damage, process
    <3>3. UNCHANGED vars => UNCHANGED startup
      BY DEF vars, process
    <3> QED
      BY <1>1, <3>1, <3>2, <3>3 DEF Next
  <2> QED
    BY <2>1, <2>2, <2>3
<1>2. IInv /\ [Next]_vars => [Sound]_vars
  BY <1>1
<1> QED
  BY StartupInvariant, <1>2, PTL DEF Spec, StartsOnSoundStore

(* No death of Courier and no failed rename loses what was committed, unless Courier went on    *)
(* after its startup failed.                                                                    *)
THEOREM StartupIsLossless == Spec => StartupLosesNothing
<1> DEFINE Lossless == startup # "error" /\ Preserved => Preserved'
<1>1. ASSUME IInv, [Next]_vars PROVE Lossless
  <2> SUFFICES ASSUME startup # "error", Preserved PROVE Preserved'
    OBVIOUS
  <2>1. CASE UNCHANGED vars \/ setup \/ archive_corrupt_database \/ command
    <3>1. UNCHANGED <<files, archive, kept, written>>
      BY <2>1 DEF vars, history, setup, archive_corrupt_database, command
    <3> QED
      BY <3>1 DEF Preserved
  <2>2. CASE ensure_database_integrity \/ verify \/ command_done \/ migrate_fails
    <3>1. UNCHANGED files \/ (Exists /\ Close)
      BY <1>1, <2>2 DEF ensure_database_integrity, verify, command_done, migrate_fails, OpenFailed,
                        IInv, Staged
    <3>2. DataIn(files)' = DataIn(files)
      BY <1>1, <3>1, CloseKeeps DEF IInv, TypeOK
    <3>3. UNCHANGED <<archive, kept, written>>
      BY <2>2 DEF ensure_database_integrity, verify, command_done, migrate_fails, history
    <3> QED
      BY <3>2, <3>3 DEF Preserved
  <2>3. CASE move_file \/ put_file_back
    <3>1. UNCHANGED <<kept, written>> /\ DOMAIN files \cap DOMAIN archive = {}
      BY <1>1, <2>3 DEF move_file, put_file_back, history, IInv, Placed, Together
    <3>2. CASE UNCHANGED <<files, archive>>
      BY <3>1, <3>2 DEF Preserved
    <3>3. ASSUME NEW s \in DOMAIN files, files' = Without(files, s), archive' = Put(archive, s, files[s])
          PROVE  Preserved'
      <4>1. DataIn(files') \cup DataIn(archive') = DataIn(files) \cup DataIn(archive)
        BY <3>1, <3>3, RenameKeepsData
      <4> QED
        BY <3>1, <4>1 DEF Preserved
    <3>4. ASSUME NEW s \in DOMAIN archive, files' = Put(files, s, archive[s]), archive' = Without(archive, s)
          PROVE  Preserved'
      <4>1. DataIn(files') \cup DataIn(archive') = DataIn(files) \cup DataIn(archive)
        BY <3>1, <3>4, RenameKeepsData
      <4> QED
        BY <3>1, <4>1 DEF Preserved
    <3> QED
      BY <2>3, <3>2, <3>3, <3>4 DEF move_file, put_file_back
  <2>4. CASE archived \/ Crash \/ Quit
    <3>1. UNCHANGED <<files, written>> /\ archive' = NoFiles /\ kept' = kept \cup DataIn(archive)
      BY <2>4 DEF archived, Crash, Quit, Stop, LeaveArchive, history
    <3> QED
      BY <3>1, NoFilesIsDirectory DEF Preserved
  <2>5. CASE open
    <3>1. CASE Exists
      BY <2>5, <3>1 DEF open, Preserved, history
    <3>2. CASE ~Exists
      <4> DEFINE fresh == [id |-> created + 1, data |-> {<<created + 1, "base">>},
                           damaged |-> FALSE, version |-> 0, part |-> 0]
      <4>1. fresh \in Database
        BY <1>1, NewestIsNat DEF IInv, TypeOK, Database, Data
      <4>2. /\ files' = Alone(fresh) /\ written' = written \cup fresh.data
            /\ UNCHANGED <<archive, kept>>
        BY <2>5, <3>2 DEF open
      <4> HIDE DEF fresh
      <4>3. DOMAIN files = {}
        BY <1>1, <2>5, <3>2 DEF open, IInv, Staged
      <4>4. DataIn(files) = {}
        BY <4>3 DEF DataIn
      <4>5. DataIn(files') = fresh.data
        BY <4>1, <4>2, AloneIsDirectory
      <4> QED
        BY <4>2, <4>4, <4>5 DEF Preserved
    <3> QED
      BY <3>1, <3>2
  <2>6. ASSUME NEW d \in Database, Commit(d), Exists, d.data = db.data, d.id = db.id,
               UNCHANGED <<archive, kept>>
        PROVE  Preserved'
    <3>1. \A s \in DOMAIN files : files[s].data \subseteq d.data \cup {<<d.id, "tail">>}
      <4>1. DOMAIN files \subseteq {"", "-wal", "-shm"}
        BY <1>1 DEF IInv, TypeOK, Directory, Suffixes
      <4>2. files[""].data = d.data
        BY <2>6 DEF db
      <4>3. "-wal" \in DOMAIN files => files["-wal"].data \subseteq {<<d.id, "tail">>}
        BY <1>1, <2>6 DEF IInv, Placed, Together, OwnJournal, Exists, db
      <4>4. "-shm" \in DOMAIN files => files["-shm"].data = {}
        BY <1>1 DEF IInv, Placed, Together
      <4> QED
        BY <4>1, <4>2, <4>3, <4>4
    <3>2. DataIn(files) \subseteq DataIn(files)' /\ written' = written \cup {<<d.id, "tail">>}
          /\ <<d.id, "tail">> \in DataIn(files)'
      <4>1. DataIn(files) \subseteq d.data \cup {<<d.id, "tail">>}
        BY <3>1 DEF DataIn
      <4> QED
        BY <1>1, <2>6, <4>1, CommitWrites DEF IInv, TypeOK
    <3> QED
      BY <2>6, <3>2 DEF Preserved
  <2>7. CASE migrate_statement
    <3>1. /\ Exists /\ db.version < Newest /\ Commit(Ran(at + 1)) /\ UNCHANGED <<archive, kept>>
          /\ Directory(files) /\ at + 1 \in Nat
      BY <1>1, <2>7 DEF migrate_statement, IInv, TypeOK, Staged
    <3>2. Ran(at + 1) \in Database /\ Ran(at + 1).id = db.id /\ Ran(at + 1).data = db.data
      BY <3>1, RanIsDatabase
    <3> QED
      BY <2>6, <3>1, <3>2
  <2>8. CASE migrated
    <3>1. Exists /\ db \in Database /\ UNCHANGED <<archive, kept>>
      BY <1>1, <2>8 DEF migrated, IInv, TypeOK, Staged, Directory, Exists, db, Content
    <3>2. CASE Commit(db)
      BY <2>6, <3>1, <3>2
    <3>3. CASE Close /\ UNCHANGED written
      BY <1>1, <3>1, <3>3, CloseKeeps DEF IInv, TypeOK, Preserved
    <3> QED
      BY <2>8, <3>2, <3>3 DEF migrated
  <2>9. CASE Damage
    <3>1. Exists /\ db \in Database /\ UNCHANGED <<archive, kept, history>>
      BY <1>1, <2>9, Zenon DEF Damage, IInv, TypeOK, Directory, Exists, db, Content
    <3>2. files' = Put(files, "", [db EXCEPT !.damaged = TRUE])
      BY <2>9, Zenon DEF Damage
    <3>3. [db EXCEPT !.damaged = TRUE].data = db.data
      BY <3>1 DEF Database
    <3>4. /\ DOMAIN files' = DOMAIN files /\ files'[""].data = files[""].data
          /\ \A s \in DOMAIN files : s # "" => files'[s] = files[s]
      BY <3>1, <3>2, <3>3 DEF Put, Exists, db
    <3>5. DataIn(files)' = DataIn(files)
      BY <3>1, <3>4 DEF DataIn, Exists
    <3> QED
      BY <3>1, <3>5 DEF Preserved, history
  <2> QED
    BY <1>1, <2>1, <2>2, <2>3, <2>4, <2>5, <2>7, <2>8, <2>9 DEF Next, Step
<1>2. IInv /\ [Next]_vars => [Lossless]_vars
  BY <1>1
<1> QED
  BY StartupInvariant, <1>2, PTL DEF Spec, StartupLosesNothing
=============================================================================
