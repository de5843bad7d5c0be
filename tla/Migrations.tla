------------------------------- MODULE Migrations -------------------------------
(***************************************************************************)
(* What a swoopsd process does to the database file when it opens it       *)
(* (store.go New and migrate), while other processes have it open: the     *)
(* server, and the create-user and reset-password commands.                *)
(*                                                                         *)
(* A migration is a file of statements, each of which commits on its own;  *)
(* that it was applied is recorded by one more.  Modelled are the two that *)
(* can be cut short and are not repeatable: 006, which rebuilds the table  *)
(* of the sessions, and 007, which adds three columns to the hosts.  Of    *)
(* the others 001, 003 and 004 create what is not there, and 002, 005 and  *)
(* 008 to 011 add one column, as each statement of 007 does.  A database   *)
(* at the outset has all the earlier ones.                                 *)
(***************************************************************************)
EXTENDS Naturals, Sequences

CONSTANTS
  Openers,  \* processes that open the store
  Rows      \* sessions that may be created

VARIABLES
  db,      \* the database file
  opener,  \* per process: where it is, the migrations its binary has, file and line
  \* history
  stored,  \* sessions whose creation was acknowledged
  torn,    \* has a process died, or the database refused it, while it applied a migration?
  mixed    \* has a process executed a migration while another had the store open?

mvars == <<db, opener, stored, torn, mixed>>

Files == << <<"type", "create", "copy", "drop", "rename">>,
            <<"available", "latest", "url">> >>
\* The sessions table (shape "none": there is none), the table sessions_new (made or
\* not), the columns hosts has of 007, the sessions that have tasks, and the log.
Database == [shape: {"none", "old", "typed", "new"}, sessions: SUBSET Rows,
             made: BOOLEAN, copy: SUBSET Rows, hosts: SUBSET {"available", "latest", "url"},
             tasks: SUBSET Rows, applied: SUBSET (1 .. Len(Files))]
Opener   == [at: {"closed", "check", "exec", "record", "skip", "open", "failed"},
             known: 0 .. Len(Files), file: 1 .. Len(Files) + 1, line: 1 .. 6]
Closed   == [at |-> "closed", known |-> 0, file |-> 1, line |-> 1]

Init ==
  /\ db = [shape |-> "old", sessions |-> {}, made |-> FALSE, copy |-> {}, hosts |-> {},
           tasks |-> {}, applied |-> {}]
  /\ opener = [p \in Openers |-> Closed]
  /\ stored = {} /\ torn = FALSE /\ mixed = FALSE

-----------------------------------------------------------------------------
(* Statements.                                                               *)

Statement(p) == Files[opener[p].file][opener[p].line]

\* "duplicate column" or "UNIQUE constraint failed".
Duplicate(s) ==
  \/ s = "type" /\ db.shape \in {"typed", "new"}
  \/ s = "copy" /\ db.sessions \intersect db.copy # {}
  \/ s \in db.hosts

\* Any other error: a table is missing, or there already.
Fails(s) ==
  \/ s \in {"type", "copy", "drop"} /\ db.shape = "none"
  \/ s = "create" /\ db.made
  \/ s \in {"copy", "rename"} /\ ~db.made
  \/ s = "rename" /\ db.shape # "none"

\* Mutant: the old table goes before its rows have been copied.
AfterDropFirst(s) ==
  CASE s = "type"   -> [db EXCEPT !.shape = "typed"]
    [] s = "create" -> [db EXCEPT !.made = TRUE]
    [] s = "copy"   -> [db EXCEPT !.sessions = {}, !.tasks = {}]
    [] s = "drop"   -> [db EXCEPT !.shape = "none", !.copy = @ \union db.sessions,
                                  !.sessions = {}, !.tasks = {}]
    [] s = "rename" -> [db EXCEPT !.shape = "new", !.sessions = db.copy,
                                  !.made = FALSE, !.copy = {}]
    [] OTHER        -> [db EXCEPT !.hosts = @ \union {s}]

\* Mutant: the tasks of dropped sessions stay.
AfterWithoutCascade(s) ==
  CASE s = "type"   -> [db EXCEPT !.shape = "typed"]
    [] s = "create" -> [db EXCEPT !.made = TRUE]
    [] s = "copy"   -> [db EXCEPT !.copy = db.sessions]
    [] s = "drop"   -> [db EXCEPT !.shape = "none", !.sessions = {}]
    [] s = "rename" -> [db EXCEPT !.shape = "new", !.sessions = db.copy,
                                  !.made = FALSE, !.copy = {}]
    [] OTHER        -> [db EXCEPT !.hosts = @ \union {s}]

\* Foreign keys are enforced: dropping the sessions deletes their rows first, and with
\* them the tasks, reviews and messages that refer to them.
After(s) ==
  CASE s = "type"   -> [db EXCEPT !.shape = "typed"]
    [] s = "create" -> [db EXCEPT !.made = TRUE]
    [] s = "copy"   -> [db EXCEPT !.copy = @ \union db.sessions]
    [] s = "drop"   -> [db EXCEPT !.shape = "none", !.sessions = {}, !.tasks = {}]
    [] s = "rename" -> [db EXCEPT !.shape = "new", !.sessions = db.copy,
                                  !.made = FALSE, !.copy = {}]
    [] OTHER        -> [db EXCEPT !.hosts = @ \union {s}]

-----------------------------------------------------------------------------
(* Opening the store.                                                        *)

Go(p, at)    == opener' = [opener EXCEPT ![p].at = at]
NextFile(p)  == opener' = [opener EXCEPT ![p].at = "check", ![p].file = @ + 1, ![p].line = 1]
Migrating(p) == opener[p].at \in {"exec", "record", "skip"}

Open(p, known) ==
  /\ opener[p].at = "closed"
  /\ opener' = [opener EXCEPT ![p] = [Closed EXCEPT !.at = "check", !.known = known]]
  /\ UNCHANGED <<db, stored, torn, mixed>>

\* Mutant: the first migration found applied ends the search.
CheckAppliedOnce(p) ==
  /\ opener[p].at = "check"
  /\ IF opener[p].file > opener[p].known \/ opener[p].file \in db.applied
       THEN Go(p, "open") ELSE Go(p, "exec")
  /\ UNCHANGED <<db, stored, torn, mixed>>

CheckApplied(p) ==
  /\ opener[p].at = "check"
  /\ \/ opener[p].file > opener[p].known /\ Go(p, "open")
     \/ /\ opener[p].file <= opener[p].known
        /\ IF opener[p].file \in db.applied THEN NextFile(p) ELSE Go(p, "exec")
  /\ UNCHANGED <<db, stored, torn, mixed>>

\* Mutant: a duplicate is an error like any other.
ExecuteStrictly(p) ==
  /\ opener[p].at = "exec"
  /\ IF Duplicate(Statement(p)) \/ Fails(Statement(p))
       THEN Go(p, "failed") /\ UNCHANGED db
       ELSE /\ db' = After(Statement(p))
            /\ IF opener[p].line = Len(Files[opener[p].file]) THEN Go(p, "record")
               ELSE opener' = [opener EXCEPT ![p].line = @ + 1]
  /\ mixed' = (mixed \/ \E q \in Openers \ {p} : opener[q].at \notin {"closed", "failed"})
  /\ UNCHANGED <<stored, torn>>

\* The first error ends the file.
Execute(p) ==
  /\ opener[p].at = "exec"
  /\ IF Duplicate(Statement(p)) \/ Fails(Statement(p))
       THEN Go(p, IF Duplicate(Statement(p)) THEN "skip" ELSE "failed") /\ UNCHANGED db
       ELSE /\ db' = After(Statement(p))
            /\ IF opener[p].line = Len(Files[opener[p].file]) THEN Go(p, "record")
               ELSE opener' = [opener EXCEPT ![p].line = @ + 1]
  /\ mixed' = (mixed \/ \E q \in Openers \ {p} : opener[q].at \notin {"closed", "failed"})
  /\ UNCHANGED <<stored, torn>>

\* The log's entries are unique.
Record(p) ==
  /\ opener[p].at = "record"
  /\ IF opener[p].file \in db.applied
       THEN Go(p, "failed") /\ UNCHANGED db
       ELSE NextFile(p) /\ db' = [db EXCEPT !.applied = @ \union {opener[p].file}]
  /\ UNCHANGED <<stored, torn, mixed>>

\* A migration of which a part was there is taken for applied.
RecordPartial(p) ==
  /\ opener[p].at = "skip"
  /\ NextFile(p) /\ db' = [db EXCEPT !.applied = @ \union {opener[p].file}]
  /\ UNCHANGED <<stored, torn, mixed>>

Migrate(p) == CheckApplied(p) \/ Execute(p) \/ Record(p) \/ RecordPartial(p)

\* The database refuses the statement: it is busy, or the disk is full.  What the earlier
\* ones did has been committed.
Refused(p) ==
  /\ opener[p].at \in {"check", "exec", "record"}
  /\ Go(p, "failed")
  /\ torn' = (torn \/ Migrating(p))
  /\ UNCHANGED <<db, stored, mixed>>

\* It refuses the statement of RecordPartial, whose error is ignored.
RecordLost(p) ==
  /\ opener[p].at = "skip"
  /\ NextFile(p)
  /\ UNCHANGED <<db, stored, torn, mixed>>

\* The process ends, whatever it was doing.
Close(p) ==
  /\ opener[p].at # "closed"
  /\ opener' = [opener EXCEPT ![p] = Closed]
  /\ torn' = (torn \/ Migrating(p))
  /\ UNCHANGED <<db, stored, mixed>>

CreateSession(p, r) ==
  /\ opener[p].at = "open" /\ db.shape # "none" /\ r \notin stored
  /\ db' = [db EXCEPT !.sessions = @ \union {r}]
  /\ stored' = stored \union {r}
  /\ UNCHANGED <<opener, torn, mixed>>

CreateTask(p, r) ==
  /\ opener[p].at = "open" /\ db.shape # "none" /\ r \in db.sessions \ db.tasks
  /\ db' = [db EXCEPT !.tasks = @ \union {r}]
  /\ UNCHANGED <<opener, stored, torn, mixed>>
=============================================================================
