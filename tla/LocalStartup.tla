---------------------------- MODULE LocalStartup ----------------------------
(***************************************************************************)
(* The desktop's local database at startup: it is checked, a damaged one   *)
(* is put aside file by file, the store is opened and its schema migrated  *)
(* statement by statement, and it is checked again.  A startup that fails  *)
(* is only recorded: the commands and the event loop open the store all    *)
(* the same.                                                               *)
(*                                                                         *)
(* Courier dies between any two steps, and between any two statements that *)
(* are not in one transaction; the disk damages the database; a file       *)
(* operation, a check or a statement fails.                                *)
(*                                                                         *)
(* Of a file only the data in it matters: <<d, "base">> is what the main   *)
(* file of the d-th database created holds, <<d, "tail">> what was         *)
(* committed to its journal (-wal) since.                                  *)
(***************************************************************************)
EXTENDS Naturals, Sequences

CONSTANTS
    MaxTrouble     \* bound: deaths of Courier, damages and failed operations, together

ASSUME StartupAssumption == MaxTrouble \in Nat

VARIABLES
    files,     \* the database's files: what is at each suffix that exists
    archive,   \* the recovery archive being filled, likewise
    kept,      \* the data in the archives of earlier recoveries
    created,   \* databases created so far
    written,   \* all data ever committed
    pc,        \* where Courier is
    startup,   \* how initialize_local_state ended: "pending", "ok" or "error"
    next,      \* the place in Order of the suffix to be moved, or put back, next
    at,        \* migrate: the statements of the current migration this connection ran
    trouble    \* what went wrong so far

history == <<created, written>>
process == <<pc, startup, next, at>>
vars    == <<files, archive, kept, history, process, trouble>>

Trouble == trouble < MaxTrouble /\ trouble' = trouble + 1

Order == <<"", "-wal", "-shm">>
Suffixes == {"", "-wal", "-shm"}
NoFiles == [s \in {} |-> {}]
Exists == "" \in DOMAIN files
db == files[""]
DataIn(dir) == UNION {dir[s].data : s \in DOMAIN dir}
Put(dir, s, content) == [x \in DOMAIN dir \cup {s} |-> IF x = s THEN content ELSE dir[x]]
Without(dir, s) == [x \in DOMAIN dir \ {s} |-> dir[x]]
Alone(d) == [s \in {""} |-> d]   \* a main file without journal

-----------------------------------------------------------------------------
(* The schema *)

(* The commits of each migration, its version row the last; migration 12 is one transaction. *)
Statements == <<5, 3, 3, 5, 2, 2, 4, 2, 5, 9, 2, 1>>
Newest == Len(Statements)

(* Whether a migration of which k statements ran may run from its beginning: its statements  *)
(* are conditional, or its fourth has renamed the table that its first creates.              *)
RunsAgain(m, k) == k = 0 \/ m \in {1, 8} \/ (m = 4 /\ k = 4)

CutShort == Exists /\ ~db.damaged /\ db.version < Newest /\ ~RunsAgain(db.version + 1, db.part)

-----------------------------------------------------------------------------
(* SQLite *)

Journaled(d, tail) ==
    [s \in Suffixes |-> IF s = "" THEN d ELSE [data |-> IF s = "-wal" THEN tail ELSE {}]]

Commit(d) ==
    LET tail == {<<d.id, "tail">>} IN
    files' = Journaled(d, tail) /\ written' = written \cup tail

(* The last connection closes: the journal goes into the main file, unless that is damaged. *)
Close ==
    \/ files' = Alone([db EXCEPT !.data = DataIn(files)])
    \/ db.damaged /\ UNCHANGED files

Damage ==
    /\ Exists /\ ~db.damaged /\ Trouble
    /\ files' = Put(files, "", [db EXCEPT !.damaged = TRUE])
    /\ UNCHANGED <<archive, kept, history, process>>

-----------------------------------------------------------------------------
(* initialize_local_state *)

Init ==
    /\ files = NoFiles /\ archive = NoFiles /\ kept = {} /\ created = 0 /\ written = {}
    /\ pc = "off" /\ startup = "pending" /\ next = 1 /\ at = 0 /\ trouble = 0

setup ==
    /\ pc = "off" /\ pc' = "check" /\ startup' = "pending"
    /\ UNCHANGED <<files, archive, kept, history, next, at, trouble>>

Failed == startup' = "error" /\ pc' = "running"   \* recorded, and Courier runs on

OrphansAside == Exists /\ db.damaged                \* mutant
DamageUnseen == ~Exists /\ DOMAIN files # {}        \* mutant
NeedsArchive == IF Exists THEN db.damaged ELSE DOMAIN files # {}

ensure_database_integrity ==
    /\ pc = "check"
    /\ \/ /\ IF Exists THEN Close ELSE UNCHANGED files
          /\ pc' = (IF NeedsArchive THEN "archive" ELSE "open")
          /\ UNCHANGED <<startup, trouble>>
       \/ Exists /\ Trouble /\ Failed /\ UNCHANGED files
    /\ UNCHANGED <<archive, kept, history, next, at>>

archive_corrupt_database ==
    /\ pc = "archive"
    /\ \/ pc' = "move" /\ next' = 1 /\ UNCHANGED <<startup, trouble>>
       \/ Trouble /\ Failed /\ UNCHANGED next   \* its directory cannot be created
    /\ UNCHANGED <<files, archive, kept, history, at>>

move_file ==
    /\ pc = "move" /\ next <= 3
    /\ LET s == Order[next] IN
       \/ /\ s \in DOMAIN files
          /\ files' = Without(files, s) /\ archive' = Put(archive, s, files[s])
          /\ next' = next + 1 /\ UNCHANGED <<pc, trouble>>
       \/ /\ s \in DOMAIN files /\ Trouble
          /\ pc' = "putback" /\ next' = next - 1
          /\ UNCHANGED <<files, archive>>
       \/ /\ s \notin DOMAIN files
          /\ next' = next + 1 /\ UNCHANGED <<files, archive, pc, trouble>>
    /\ UNCHANGED <<kept, history, startup, at>>

(* What was moved goes back in reverse order; that it failed is not looked at. *)
put_file_back ==
    /\ pc = "putback" /\ next >= 1 /\ next' = next - 1
    /\ LET s == Order[next] IN
       \/ /\ s \in DOMAIN archive /\ UNCHANGED trouble
          /\ files' = Put(files, s, archive[s]) /\ archive' = Without(archive, s)
       \/ s \in DOMAIN archive /\ Trouble /\ UNCHANGED <<files, archive>>
       \/ s \notin DOMAIN archive /\ UNCHANGED <<files, archive, trouble>>
    /\ UNCHANGED <<kept, history, pc, startup, at>>

LeaveArchive == archive' = NoFiles /\ kept' = kept \cup DataIn(archive)

archived ==
    /\ \/ pc = "move" /\ next = 4 /\ pc' = "open" /\ UNCHANGED startup
       \/ pc = "putback" /\ next = 0 /\ Failed
    /\ LeaveArchive
    /\ UNCHANGED <<files, history, next, at, trouble>>

(* TransferStore::open; SQLite removes a journal that it finds beside an empty main file. *)
open ==
    /\ pc = "open" /\ pc' = "migrate" /\ at' = 0
    /\ IF Exists THEN UNCHANGED <<files, history>>
       ELSE LET fresh == [id |-> created + 1, data |-> {<<created + 1, "base">>},
                          damaged |-> FALSE, version |-> 0, part |-> 0] IN
            /\ created' = created + 1 /\ written' = written \cup fresh.data
            /\ files' = Alone(fresh)
    /\ UNCHANGED <<archive, kept, startup, next, trouble>>

Ran(k) ==
    IF k = Statements[db.version + 1] THEN [db EXCEPT !.version = @ + 1, !.part = 0]
    ELSE [db EXCEPT !.part = k]

migrate_statement ==
    /\ pc = "migrate" /\ db.version < Newest
    /\ at > 0 \/ RunsAgain(db.version + 1, db.part)
    /\ Commit(Ran(at + 1))
    /\ at' = (IF at + 1 = Statements[db.version + 1] THEN 0 ELSE at + 1)
    /\ UNCHANGED <<archive, kept, created, pc, startup, next, trouble>>

OpenFailed ==
    /\ pc' = "running" /\ startup' = (IF startup = "pending" THEN "error" ELSE startup)
    /\ Close

(* A statement of an earlier run is in the way, the database is damaged, or the statement fails. *)
migrate_fails ==
    /\ pc = "migrate" /\ OpenFailed
    /\ \/ db.version < Newest /\ at = 0 /\ ~RunsAgain(db.version + 1, db.part) /\ UNCHANGED trouble
       \/ db.damaged /\ UNCHANGED trouble
       \/ Trouble
    /\ UNCHANGED <<archive, kept, history, next, at>>

migrated ==
    /\ pc = "migrate" /\ db.version = Newest
    /\ IF startup = "pending" THEN pc' = "verify" /\ Close /\ UNCHANGED written
       ELSE pc' = "use" /\ Commit(db)
    /\ UNCHANGED <<archive, kept, created, startup, next, at, trouble>>

SecondCheckOff == Exists   \* mutant
SecondCheckOk == ~db.damaged

verify ==
    /\ pc = "verify" /\ Close
    /\ \/ SecondCheckOk /\ startup' = "ok" /\ pc' = "running" /\ UNCHANGED trouble
       \/ ~SecondCheckOk /\ Failed /\ UNCHANGED trouble
       \/ Trouble /\ Failed
    /\ UNCHANGED <<archive, kept, history, next, at>>

-----------------------------------------------------------------------------
(* Commands and the event loop, each with a connection of its own, one after another *)

command ==
    /\ pc = "running" /\ pc' = "open"
    /\ UNCHANGED <<files, archive, kept, history, startup, next, at, trouble>>

command_done ==
    /\ pc = "use" /\ pc' = "running" /\ Close
    /\ UNCHANGED <<archive, kept, history, startup, next, at, trouble>>

(* Courier dies; the files stay as they are. *)
Stop ==
    /\ pc # "off" /\ pc' = "off" /\ LeaveArchive
    /\ UNCHANGED <<files, history, startup, next, at>>

Crash == Trouble /\ Stop

(* After a failed startup the user starts Courier anew. *)
Quit == startup = "error" /\ UNCHANGED trouble /\ Stop

Step ==
    \/ setup \/ ensure_database_integrity \/ archive_corrupt_database \/ move_file
    \/ put_file_back \/ archived \/ open \/ migrate_statement \/ migrate_fails \/ migrated
    \/ verify \/ command_done

Next == Step \/ command \/ Crash \/ Quit \/ Damage

Spec == Init /\ [][Next]_vars /\ WF_vars(Step) /\ WF_vars(Quit)

-----------------------------------------------------------------------------
(* Properties *)

Preserved == written \subseteq DataIn(files) \cup DataIn(archive) \cup kept

(* What was committed stays among the database's files or in an archive, whatever happens      *)
(* while a damaged database is put aside: a step that loses some is of a Courier that goes on  *)
(* after its startup failed.  (A command then opens an empty database beside a journal that    *)
(* was left, and SQLite removes the journal.)                                                  *)
StartupLosesNothing == [][startup # "error" /\ Preserved => Preserved']_vars

(* Without the exception: what "preserves the database and WAL/SHM sidecars" says.             *)
CommittedIsPreserved == Preserved

(* A startup that reports success leaves the newest schema in a database that is sound: damage *)
(* between the first check and the end of the migrations is found by the second check.         *)
StartsOnSoundStore ==
    [][startup' = "ok" /\ startup # "ok" => Exists' /\ ~db'.damaged /\ db'.version = Newest]_vars

(* Courier comes up again after any death, damage or failure, if the user restarts it, unless  *)
(* its schema was cut in a migration that cannot run again.                                    *)
ComesUpUnlessCutShort == []<>(startup = "ok" \/ CutShort)

(* Every schema Courier leaves behind can be opened by its next start, as the test             *)
(* migrations_are_safe_when_database_is_reopened has it.                                       *)
ReopensAfterEveryStop == pc = "off" => ~CutShort

Data == Nat \X {"base", "tail"}
Database == [id : Nat, data : SUBSET Data, damaged : BOOLEAN, version : 0..Newest, part : Nat]
Content(s) == IF s = "" THEN Database ELSE [data : SUBSET Data]
Directory(dir) == DOMAIN dir \subseteq Suffixes /\ \A s \in DOMAIN dir : dir[s] \in Content(s)

TypeOK ==
    /\ Directory(files) /\ Directory(archive) /\ kept \subseteq Data /\ written \subseteq Data
    /\ created \in Nat /\ next \in 0..4 /\ at \in Nat /\ trouble \in Nat
    /\ pc \in {"off", "check", "archive", "move", "putback", "open", "migrate", "verify", "use",
               "running"}
    /\ startup \in {"pending", "ok", "error"}

(* What the startup keeps to at every step; the theorems of LocalStartupProofs rest on it. *)
OwnJournal(d, w) ==
    "" \in DOMAIN d /\ "-wal" \in DOMAIN w => w["-wal"].data \subseteq {<<d[""].id, "tail">>}
Together(d, e) ==   \* no file is in both, and a journal is of the database it is found with
    /\ DOMAIN d \cap DOMAIN e = {}
    /\ OwnJournal(d, d) /\ OwnJournal(d, e) /\ OwnJournal(e, d) /\ OwnJournal(e, e)
    /\ "-shm" \in DOMAIN d => d["-shm"].data = {}
    /\ "-shm" \in DOMAIN e => e["-shm"].data = {}
Placed ==   \* where the files are
    Together(files, archive) /\ (archive = NoFiles \/ pc \in {"move", "putback"})

Staged ==   \* how far the startup has come
    /\ pc \in {"check", "archive", "move", "putback", "verify"} => startup = "pending"
    /\ pc \in {"running", "use"} => startup # "pending"
    /\ pc \in {"migrate", "verify", "use"} => Exists
    /\ pc = "verify" => db.version = Newest
    /\ pc = "move" => /\ next \in 1..4
                      /\ \A s \in DOMAIN files : \E i \in next..3 : Order[i] = s
    /\ pc = "open" /\ startup # "error" /\ ~Exists => DOMAIN files = {}
    /\ startup = "ok" /\ pc # "off" => Exists

IInv == TypeOK /\ Placed /\ Staged
=============================================================================
