-------------------------- MODULE ServerProcess_proofs --------------------------
(***************************************************************************)
(* Proofs about ServerProcess, for any sessions and any number of renewals *)
(* and mishaps: what a migration that is cut short, or meets another       *)
(* process, can do to the store, and whether a renewal can be missed.      *)
(*                                                                         *)
(* Nobody holds a lock on the store while it migrates.  What saves the     *)
(* rows is that whoever opens the store later has a binary that is no      *)
(* older (Newest): he starts on the very migration that is under way, and  *)
(* cannot get past it without executing a statement, which is recorded in  *)
(* mixed (Sole).                                                           *)
(***************************************************************************)
EXTENDS ServerProcess, TLAPS

All == {"available", "latest", "url"}

\* A process is on a migration its binary has, or past all of them.
Placed ==
  \A p \in Processes :
    /\ At(p) = "check" => opener[p].line = 1
    /\ At(p) \in {"exec", "record", "skip"} => opener[p].file <= opener[p].known
    /\ At(p) = "exec" => opener[p].line <= (IF opener[p].file = 1 THEN 5 ELSE 3)
    /\ At(p) = "open" => opener[p].file > opener[p].known

\* No process has a newer binary than the executable, or what will replace it.
Newest ==
  /\ exe # Torn => \A p \in Processes : opener[p].known <= exe
  /\ updater # 0 => exe = Torn /\ \A p \in Processes : opener[p].known <= updater

\* In the middle of a migration, and past its first statement in any way.
Middle(p) == At(p) = "exec" /\ opener[p].line > 1
Begun(p)  == Middle(p) \/ At(p) \in {"record", "skip"}

\* The first statement of a migration leaves a trace, at which it is not repeated.
Trace(k) == IF k = 1 THEN db.shape # "old" ELSE "available" \in db.hosts
Traced ==
  /\ \A k \in 1 .. 2 : k \in db.applied => Trace(k)
  /\ \A p \in Processes : Begun(p) => Trace(opener[p].file)

\* As long as no two processes have mixed, the others are outside or have come no further
\* than to the start of the migration that one is in the middle of.
Sole ==
  ~mixed => \A p \in Processes : Middle(p) =>
    /\ opener[p].file \notin db.applied
    /\ \A q \in Processes \ {p} :
         \/ At(q) \in {"closed", "failed"}
         \/ /\ opener[q].file <= opener[p].file /\ opener[p].file <= opener[q].known
            /\ \/ At(q) = "check"
               \/ At(q) = "exec" /\ opener[q].line = 1

\* Whoever is about to drop the sessions has copied them.
Copied ==
  ~mixed => \A p \in Processes :
    At(p) = "exec" /\ opener[p].file = 1 /\ opener[p].line = 4 => db.sessions \subseteq db.copy

DroppedEmpty == db.shape = "none" => db.sessions = {}

\* Unless a migration was cut short or two processes mixed, the store is as the line says that somebody has
\* come to in a migration, and otherwise as it was before or as it is after it.
Rebuild(line) ==
  /\ line \in 2 .. 4 => db.shape = "typed"
  /\ line = 5        => db.shape = "none"
  /\ line >= 3       => db.made
  /\ line = 2        => ~db.made
  /\ line \in 2 .. 3 => db.copy = {}
Extend(line) ==
  /\ line = 2 => db.hosts = {"available"}
  /\ line = 3 => db.hosts = {"available", "latest"}
Nobody(k) == \A p \in Processes : Middle(p) => opener[p].file # k
Orderly ==
  ~mixed /\ ~torn =>
    /\ \A p \in Processes : Middle(p) /\ opener[p].file = 1 => Rebuild(opener[p].line)
    /\ \A p \in Processes : Middle(p) /\ opener[p].file = 2 => Extend(opener[p].line)
    /\ Nobody(1) => db.shape \in {"old", "new"} /\ ~db.made /\ db.copy = {}
    /\ Nobody(2) => db.hosts \in {{}, All}
    /\ \A p \in Processes : At(p) \in {"record", "skip"} =>
         /\ opener[p].file = 1 => db.shape = "new"
         /\ opener[p].file = 2 => db.hosts = All
    /\ 1 \in db.applied => db.shape = "new"
    /\ 2 \in db.applied => db.hosts = All
    /\ \A p \in Processes : At(p) \notin {"closed", "failed"} =>
         /\ opener[p].file > 1 => db.shape = "new"
         /\ opener[p].file > 2 => db.hosts = All

\* Nothing the rotator has is newer than the files.  The times it has just looked up are
\* no newer than what it reads after that, and those it noted no newer than what it shows.
Watched ==
  /\ rotator.pair.cert <= cert /\ rotator.pair.key <= key
  /\ rotator.noted.cert <= cert /\ rotator.noted.key <= key /\ rotator.read <= cert
  /\ rotator.at = "rereading" => rotator.noted.cert <= rotator.read
  /\ rotator.at \in {"watching", "noticed", "rereading"} /\ ~overlooked =>
       rotator.last.cert <= rotator.pair.cert /\ rotator.last.key <= rotator.pair.key

IInv == /\ TypeOK /\ Placed /\ Newest /\ Traced /\ Sole /\ Copied /\ DroppedEmpty
        /\ RowsKept /\ Orderly /\ Watched
-----------------------------------------------------------------------------
LEMMA FilesAre ==
  /\ Len(Store!Files) = 2 /\ Len(Store!Files[1]) = 5 /\ Len(Store!Files[2]) = 3
  /\ Store!Files[1][1] = "type" /\ Store!Files[1][2] = "create" /\ Store!Files[1][3] = "copy"
  /\ Store!Files[1][4] = "drop" /\ Store!Files[1][5] = "rename"
  /\ Store!Files[2][1] = "available" /\ Store!Files[2][2] = "latest"
  /\ Store!Files[2][3] = "url"
  BY DEF Store!Files

LEMMA OpenerSet ==
  Store!Opener = [at: {"closed", "check", "exec", "record", "skip", "open", "failed"},
                  known: 0 .. 2, file: 1 .. 3, line: 1 .. 6]
  BY FilesAre DEF Store!Opener

(* What becomes of a process stays one. *)
LEMMA OpenerMoves ==
  ASSUME NEW o \in Store!Opener
  PROVE  /\ \A at \in {"closed", "check", "exec", "record", "skip", "open", "failed"} :
              [o EXCEPT !.at = at] \in Store!Opener
         /\ \A k \in 0 .. 2 : [o EXCEPT !.known = k] \in Store!Opener
         /\ o.line <= 5 => [o EXCEPT !.line = @ + 1] \in Store!Opener
         /\ o.file <= 2 => [o EXCEPT !.at = "check", !.file = @ + 1, !.line = 1] \in Store!Opener
<1>1. o.known \in 0 .. 2 /\ o.file \in 1 .. 3 /\ o.line \in 1 .. 6
  BY OpenerSet
<1>2. \A q \in Store!Opener :
        /\ \A at \in {"closed", "check", "exec", "record", "skip", "open", "failed"} :
             [q EXCEPT !.at = at] \in Store!Opener
        /\ [q EXCEPT !.line = 1] \in Store!Opener
  BY OpenerSet
<1>3. \A k \in 0 .. 2 : [o EXCEPT !.known = k] \in Store!Opener
  BY OpenerSet
<1>4. ASSUME o.line <= 5 PROVE [o EXCEPT !.line = @ + 1] \in Store!Opener
  BY <1>1, <1>4, OpenerSet
<1>5. ASSUME o.file <= 2
      PROVE  [o EXCEPT !.at = "check", !.file = @ + 1, !.line = 1] \in Store!Opener
  <2>1. [o EXCEPT !.file = @ + 1] \in Store!Opener
    BY <1>1, <1>5, OpenerSet
  <2>2. [o EXCEPT !.at = "check", !.file = @ + 1, !.line = 1]
          = [[[o EXCEPT !.file = @ + 1] EXCEPT !.at = "check"] EXCEPT !.line = 1]
    BY OpenerSet
  <2>3. [[o EXCEPT !.file = @ + 1] EXCEPT !.at = "check"] \in Store!Opener
    BY <1>2, <2>1
  <2> QED BY <1>2, <2>2, <2>3
<1> QED BY <1>2, <1>3, <1>4, <1>5

LEMMA NextFileMoves ==
  ASSUME opener \in [Processes -> Store!Opener], NEW p \in Processes, Store!NextFile(p),
         opener[p].file <= 2
  PROVE  /\ opener' \in [Processes -> Store!Opener]
         /\ opener'[p].at = "check" /\ opener'[p].known = opener[p].known
         /\ opener'[p].file = opener[p].file + 1 /\ opener'[p].line = 1
         /\ \A q \in Processes \ {p} : opener'[q] = opener[q]
<1>1. /\ opener'[p] = [opener[p] EXCEPT !.at = "check", !.file = @ + 1, !.line = 1]
      /\ \A q \in Processes \ {p} : opener'[q] = opener[q]
  BY DEF Store!NextFile
<1>2. opener'[p] \in Store!Opener
  BY <1>1, OpenerMoves
<1>3. opener' \in [Processes -> Store!Opener]
  BY <1>2 DEF Store!NextFile
<1> QED BY <1>1, <1>3, OpenerSet

LEMMA OpenerIs ==
  ASSUME TypeOK, NEW p \in Processes
  PROVE  /\ opener[p] \in Store!Opener
         /\ opener[p].known \in 0 .. 2 /\ opener[p].file \in 1 .. 3 /\ opener[p].line \in 1 .. 6
  BY FilesAre DEF TypeOK, Store!Opener

(* The server's steps are steps of the store, or replace the executable, or leave *)
(* both alone. *)
LEMMA Steps ==
  ASSUME [Next]_vars
  PROVE  \/ /\ UNCHANGED xvars
            /\ \E p \in Processes :
                 \/ exe # Torn /\ Store!Open(p, exe)
                 \/ Store!CheckApplied(p) \/ Store!Execute(p) \/ Store!Record(p)
                 \/ Store!RecordPartial(p) \/ Store!Close(p)
                 \/ Store!Refused(p) \/ Store!RecordLost(p)
                 \/ \E r \in Rows : Store!CreateSession(p, r) \/ Store!CreateTask(p, r)
         \/ /\ UNCHANGED svars
            /\ \/ UNCHANGED xvars
               \/ \E n \in Binaries : UpdateByRename(n) \/ UpdateByCopy(n)
               \/ FinishCopy
               \/ updater' = 0 /\ UNCHANGED exe
<1> USE DEF xvars, Processes
<1>1. CASE StartServer \/ StartCommand
  BY <1>1 DEF StartServer, StartCommand
<1>2. CASE LoadCertificate \/ Serve \/ Monitor \/ Renew
  BY <1>2 DEF LoadCertificate, Serve, Monitor, Renew
<1>3. CASE ServeFails \/ Fatal \/ Shutdown \/ EndCommand \/ KillServer
  BY <1>3 DEF ServeFails, Fatal, Shutdown, EndCommand, KillServer
<1>4. CASE Request
  BY <1>4 DEF Request
<1>5. ASSUME NEW p \in Processes, Migrate(p) PROVE Store!Migrate(p) /\ UNCHANGED xvars
  BY <1>5 DEF Migrate
<1>6. CASE KillCommand
  BY <1>6 DEF KillCommand
<1>7. CASE UNCHANGED vars
  BY <1>7 DEF vars
<1>8. CASE FinishCopy \/ \E n \in Binaries : UpdateByRename(n) \/ UpdateByCopy(n)
  BY <1>8 DEF FinishCopy, UpdateByRename, UpdateByCopy
<1>9. ASSUME NEW p \in Processes, StatementRefused(p)
      PROVE  (Store!Refused(p) \/ Store!RecordLost(p)) /\ UNCHANGED xvars
  BY <1>9 DEF StatementRefused
<1> QED BY <1>1, <1>2, <1>3, <1>4, <1>5, <1>6, <1>7, <1>8, <1>9 DEF Next, Store!Migrate

Go(p, at) == opener' = [opener EXCEPT ![p].at = at]
Advance(p) == opener' = [opener EXCEPT ![p].line = @ + 1]

(* What the statements of the two migrations do, one by one. *)
LEMMA Executing ==
  ASSUME TypeOK, Placed, NEW p \in Processes, Store!Execute(p)
  PROVE  /\ At(p) = "exec" /\ UNCHANGED <<stored, torn>>
         /\ ~mixed' => ~mixed /\ \A q \in Processes \ {p} : At(q) \in {"closed", "failed"}
         /\ mixed \in BOOLEAN => mixed' \in BOOLEAN
         /\ \/ Go(p, "skip") /\ db' = db /\ Store!Duplicate(Store!Statement(p))
            \/ Go(p, "failed") /\ db' = db /\ Store!Fails(Store!Statement(p))
            \/ /\ opener[p].file = 1
               /\ \/ /\ opener[p].line = 1 /\ db.shape = "old" /\ Advance(p)
                     /\ db' = [db EXCEPT !.shape = "typed"]
                  \/ /\ opener[p].line = 2 /\ ~db.made /\ Advance(p)
                     /\ db' = [db EXCEPT !.made = TRUE]
                  \/ /\ opener[p].line = 3 /\ db.made /\ Advance(p)
                     /\ db' = [db EXCEPT !.copy = @ \union db.sessions]
                  \/ /\ opener[p].line = 4 /\ db.shape # "none" /\ Advance(p)
                     /\ db' = [db EXCEPT !.shape = "none", !.sessions = {}, !.tasks = {}]
                  \/ /\ opener[p].line = 5 /\ db.shape = "none" /\ db.made /\ Go(p, "record")
                     /\ db' = [db EXCEPT !.shape = "new", !.sessions = db.copy,
                                         !.made = FALSE, !.copy = {}]
            \/ /\ opener[p].file = 2
               /\ \/ /\ opener[p].line = 1 /\ "available" \notin db.hosts /\ Advance(p)
                     /\ db' = [db EXCEPT !.hosts = @ \union {"available"}]
                  \/ /\ opener[p].line = 2 /\ "latest" \notin db.hosts /\ Advance(p)
                     /\ db' = [db EXCEPT !.hosts = @ \union {"latest"}]
                  \/ /\ opener[p].line = 3 /\ "url" \notin db.hosts /\ Go(p, "record")
                     /\ db' = [db EXCEPT !.hosts = @ \union {"url"}]
<1> USE FilesAre, OpenerIs DEF At, Go, Advance, Store!Go, Store!Execute
<1>1. /\ At(p) = "exec" /\ UNCHANGED <<stored, torn>>
      /\ ~mixed' => ~mixed /\ \A q \in Processes \ {p} : At(q) \in {"closed", "failed"}
      /\ mixed \in BOOLEAN => mixed' \in BOOLEAN
  OBVIOUS
<1>2. CASE Store!Duplicate(Store!Statement(p))
  BY <1>1, <1>2
<1>3. CASE ~Store!Duplicate(Store!Statement(p)) /\ Store!Fails(Store!Statement(p))
  BY <1>1, <1>3
<1>4. CASE ~Store!Duplicate(Store!Statement(p)) /\ ~Store!Fails(Store!Statement(p))
  <2>1. /\ db' = Store!After(Store!Statement(p))
        /\ IF opener[p].line = Len(Store!Files[opener[p].file]) THEN Go(p, "record")
                                                               ELSE Advance(p)
    BY <1>4
  <2>2. /\ opener[p].file \in 1 .. 2
        /\ opener[p].line \in 1 .. (IF opener[p].file = 1 THEN 5 ELSE 3)
    BY <1>1 DEF Placed
  <2>3. db.shape \in {"none", "old", "typed", "new"}
    BY DEF TypeOK, Store!Database
  <2>4. CASE opener[p].file = 1
    <3>1. CASE opener[p].line = 1
      BY <1>1, <1>4, <2>1, <2>3, <2>4, <3>1
      DEF Store!Statement, Store!After, Store!Duplicate, Store!Fails
    <3>2. CASE opener[p].line = 2
      BY <1>1, <1>4, <2>1, <2>4, <3>2
      DEF Store!Statement, Store!After, Store!Duplicate, Store!Fails
    <3>3. CASE opener[p].line = 3
      BY <1>1, <1>4, <2>1, <2>4, <3>3
      DEF Store!Statement, Store!After, Store!Duplicate, Store!Fails
    <3>4. CASE opener[p].line = 4
      BY <1>1, <1>4, <2>1, <2>4, <3>4
      DEF Store!Statement, Store!After, Store!Duplicate, Store!Fails
    <3>5. CASE opener[p].line = 5
      BY <1>1, <1>4, <2>1, <2>4, <3>5
      DEF Store!Statement, Store!After, Store!Duplicate, Store!Fails
    <3> QED BY <2>2, <2>4, <3>1, <3>2, <3>3, <3>4, <3>5
  <2>5. CASE opener[p].file = 2
    <3>1. CASE opener[p].line = 1
      <4>1. Store!Statement(p) = "available"
        BY <2>5, <3>1 DEF Store!Statement
      <4>2. Store!After("available") = [db EXCEPT !.hosts = @ \union {"available"}]
        BY DEF Store!After
      <4> QED BY <1>1, <1>4, <2>1, <2>5, <3>1, <4>1, <4>2 DEF Store!Duplicate
    <3>2. CASE opener[p].line = 2
      <4>1. Store!Statement(p) = "latest"
        BY <2>5, <3>2 DEF Store!Statement
      <4>2. Store!After("latest") = [db EXCEPT !.hosts = @ \union {"latest"}]
        BY DEF Store!After
      <4> QED BY <1>1, <1>4, <2>1, <2>5, <3>2, <4>1, <4>2 DEF Store!Duplicate
    <3>3. CASE opener[p].line = 3
      <4>1. Store!Statement(p) = "url"
        BY <2>5, <3>3 DEF Store!Statement
      <4>2. Store!After("url") = [db EXCEPT !.hosts = @ \union {"url"}]
        BY DEF Store!After
      <4> QED BY <1>1, <1>4, <2>1, <2>5, <3>3, <4>1, <4>2 DEF Store!Duplicate
    <3> QED BY <2>2, <2>5, <3>1, <3>2, <3>3
  <2> QED BY <2>2, <2>4, <2>5
<1> QED BY <1>2, <1>3, <1>4
-----------------------------------------------------------------------------
(* Types. *)

StoreTyped ==
  /\ db \in Store!Database /\ opener \in [Processes -> Store!Opener]
  /\ stored \subseteq Rows /\ torn \in BOOLEAN /\ mixed \in BOOLEAN
  /\ db.tasks \subseteq db.sessions /\ db.sessions \union db.copy \subseteq stored

CertTyped ==
  /\ cert \in Rotator!Generations /\ key \in {cert, cert - 1} \ {0}
  /\ rotator \in Rotator!Rotator /\ serving \in BOOLEAN /\ overlooked \in BOOLEAN

ExeTyped ==
  /\ exe \in Binaries \union {Torn} /\ updater \in Binaries
  /\ kills \in 0 .. MaxKills

LEMMA Parts == TypeOK <=> StoreTyped /\ CertTyped /\ ExeTyped
  BY DEF TypeOK, StoreTyped, CertTyped, ExeTyped
LEMMA PartsNext == TypeOK' <=> StoreTyped' /\ CertTyped' /\ ExeTyped'
  BY DEF TypeOK, StoreTyped, CertTyped, ExeTyped

\* What a statement makes of the database.
Changed(new) ==
  \/ new = [db EXCEPT !.shape = "typed"]
  \/ new = [db EXCEPT !.made = TRUE]
  \/ new = [db EXCEPT !.copy = @ \union db.sessions]
  \/ new = [db EXCEPT !.shape = "none", !.sessions = {}, !.tasks = {}]
  \/ /\ db.shape = "none"
     /\ new = [db EXCEPT !.shape = "new", !.sessions = db.copy, !.made = FALSE, !.copy = {}]
  \/ \E c \in All : new = [db EXCEPT !.hosts = @ \union {c}]

LEMMA DatabaseMoves ==
  ASSUME NEW d \in Store!Database
  PROVE  /\ \A x \in {"none", "old", "typed", "new"} : [d EXCEPT !.shape = x] \in Store!Database
         /\ \A R \in SUBSET Rows : /\ [d EXCEPT !.sessions = R] \in Store!Database
                                  /\ [d EXCEPT !.copy = R] \in Store!Database
                                  /\ [d EXCEPT !.tasks = R] \in Store!Database
         /\ \A b \in BOOLEAN : [d EXCEPT !.made = b] \in Store!Database
  BY DEF Store!Database

LEMMA Changes ==
  ASSUME StoreTyped, DroppedEmpty, NEW new, Changed(new)
  PROVE  /\ new \in Store!Database
         /\ new.tasks \subseteq new.sessions /\ new.sessions \union new.copy \subseteq stored
<1>1. /\ db \in Store!Database /\ db.sessions \in SUBSET Rows /\ db.copy \in SUBSET Rows
      /\ db.hosts \in SUBSET All /\ stored \subseteq Rows
      /\ db.tasks \subseteq db.sessions /\ db.sessions \union db.copy \subseteq stored
  BY DEF StoreTyped, Store!Database, All
<1>2. CASE new = [db EXCEPT !.shape = "typed"] \/ new = [db EXCEPT !.made = TRUE]
  BY <1>1, <1>2 DEF Store!Database
<1>3. CASE new = [db EXCEPT !.copy = @ \union db.sessions]
  BY <1>1, <1>3 DEF Store!Database
<1>4. CASE new = [db EXCEPT !.shape = "none", !.sessions = {}, !.tasks = {}]
  <2>1. new = [[[db EXCEPT !.shape = "none"] EXCEPT !.sessions = {}] EXCEPT !.tasks = {}]
    BY <1>1, <1>4 DEF Store!Database
  <2>2. new.tasks = {} /\ new.sessions = {} /\ new.copy = db.copy
    BY <1>1, <1>4 DEF Store!Database
  <2>3. [[db EXCEPT !.shape = "none"] EXCEPT !.sessions = {}] \in Store!Database
    BY <1>1, DatabaseMoves
  <2>4. new \in Store!Database
    BY <2>1, <2>3, DatabaseMoves
  <2> QED BY <1>1, <2>2, <2>4
<1>5. CASE /\ db.shape = "none"
           /\ new = [db EXCEPT !.shape = "new", !.sessions = db.copy, !.made = FALSE, !.copy = {}]
  <2> DEFINE d1 == [db EXCEPT !.shape = "new"]
             d2 == [d1 EXCEPT !.sessions = db.copy]
             d3 == [d2 EXCEPT !.made = FALSE]
  <2>1. new = [d3 EXCEPT !.copy = {}]
    BY <1>1, <1>5 DEF Store!Database
  <2>2. new.tasks = db.tasks /\ new.sessions = db.copy /\ new.copy = {}
    BY <1>1, <1>5 DEF Store!Database
  <2>3. db.tasks = {}
    BY <1>1, <1>5 DEF DroppedEmpty
  <2>4. new \in Store!Database
    <3>1. d1 \in Store!Database
      BY <1>1, DatabaseMoves
    <3> HIDE DEF d1
    <3>2. d2 \in Store!Database
      BY <1>1, <3>1, DatabaseMoves
    <3> HIDE DEF d2
    <3>3. d3 \in Store!Database
      BY <3>2, DatabaseMoves
    <3> HIDE DEF d3
    <3> QED BY <2>1, <3>3, DatabaseMoves
  <2> QED BY <1>1, <2>2, <2>3, <2>4
<1>6. CASE \E c \in All : new = [db EXCEPT !.hosts = @ \union {c}]
  BY <1>1, <1>6 DEF Store!Database, All
<1> QED BY <1>2, <1>3, <1>4, <1>5, <1>6 DEF Changed

LEMMA StoreTypeStep == TypeOK /\ Placed /\ DroppedEmpty /\ [Next]_vars => StoreTyped'
<1> SUFFICES ASSUME TypeOK, Placed, DroppedEmpty, [Next]_vars PROVE StoreTyped'
  OBVIOUS
<1>1. StoreTyped
  BY Parts
<1>2. \A p \in Processes : opener[p] \in Store!Opener
  BY OpenerIs
<1>3. ASSUME NEW p \in Processes, exe # Torn, Store!Open(p, exe) PROVE StoreTyped'
  <2>1. exe \in 0 .. 2
    BY <1>3 DEF TypeOK, Binaries
  <2>2. [Store!Closed EXCEPT !.at = "check", !.known = exe] \in Store!Opener
    <3>1. Store!Closed \in Store!Opener
      BY OpenerSet DEF Store!Closed
    <3>2. [Store!Closed EXCEPT !.at = "check"] \in Store!Opener
      BY <3>1, OpenerMoves
    <3>3. [Store!Closed EXCEPT !.at = "check", !.known = exe]
            = [[Store!Closed EXCEPT !.at = "check"] EXCEPT !.known = exe]
      BY <3>1, OpenerSet
    <3> QED BY <2>1, <3>2, <3>3, OpenerMoves
  <2> QED BY <1>1, <1>3, <2>2 DEF StoreTyped, Store!Open
<1>4. ASSUME NEW p \in Processes, Store!CheckApplied(p) PROVE StoreTyped'
  <2>1. opener[p].file \in db.applied => opener[p].file <= 2
    BY <1>1, FilesAre DEF StoreTyped, Store!Database
  <2>2. CASE Store!NextFile(p) /\ opener[p].file \in db.applied
    BY <1>1, <1>4, <2>1, <2>2, NextFileMoves DEF StoreTyped, Store!CheckApplied
  <2>3. CASE Store!Go(p, "open") \/ Store!Go(p, "exec")
    BY <1>1, <1>2, <1>4, <2>3, OpenerMoves DEF StoreTyped, Store!CheckApplied, Store!Go
  <2> QED BY <1>4, <2>2, <2>3 DEF Store!CheckApplied
<1>5. ASSUME NEW p \in Processes, Store!Execute(p) PROVE StoreTyped'
  <2>2. opener[p].line <= 5
    BY <1>5, OpenerIs DEF Store!Execute, Placed, At
  <2>3. Go(p, "skip") \/ Go(p, "failed") \/ Go(p, "record") \/ Advance(p)
    BY <1>5, Executing
  <2>4. opener' \in [Processes -> Store!Opener]
    BY <1>1, <1>2, <2>2, <2>3, OpenerMoves DEF StoreTyped, Go, Advance
  <2>5. UNCHANGED <<stored, torn>> /\ mixed' \in BOOLEAN
    BY <1>1, <1>5, Executing DEF StoreTyped
  <2>6. /\ db' \in Store!Database
        /\ db'.tasks \subseteq db'.sessions /\ db'.sessions \union db'.copy \subseteq stored
    <3>1. db' = db \/ Changed(db')
      BY <1>5, Executing DEF Changed, All
    <3> QED BY <1>1, <3>1, Changes DEF StoreTyped
  <2> QED BY <1>1, <2>4, <2>5, <2>6 DEF StoreTyped
<1>6. ASSUME NEW p \in Processes, Store!Record(p) \/ Store!RecordPartial(p) PROVE StoreTyped'
  <2>1. opener[p].file \in 1 .. 2
    BY <1>6, OpenerIs DEF Store!Record, Store!RecordPartial, Placed, At
  <2>2. db' \in Store!Database /\ UNCHANGED <<stored, torn, mixed>>
        /\ db'.tasks = db.tasks /\ db'.sessions = db.sessions /\ db'.copy = db.copy
    BY <1>1, <1>6, <2>1, FilesAre
    DEF StoreTyped, Store!Database, Store!Record, Store!RecordPartial
  <2>3. opener' \in [Processes -> Store!Opener]
    <3>1. CASE Store!NextFile(p)
      BY <1>1, <2>1, <3>1, NextFileMoves DEF StoreTyped
    <3>2. CASE Store!Go(p, "failed")
      BY <1>1, <1>2, <3>2, OpenerMoves DEF StoreTyped, Store!Go
    <3> QED BY <1>6, <3>1, <3>2 DEF Store!Record, Store!RecordPartial
  <2> QED BY <1>1, <2>2, <2>3 DEF StoreTyped
<1>7. ASSUME NEW p \in Processes, Store!Close(p) PROVE StoreTyped'
  <2>1. Store!Closed \in Store!Opener
    BY OpenerSet DEF Store!Closed
  <2>2. torn' \in BOOLEAN
    BY <1>1, <1>7 DEF StoreTyped, Store!Close, Store!Migrating
  <2> QED BY <1>1, <1>7, <2>1, <2>2 DEF StoreTyped, Store!Close
<1>8. ASSUME NEW p \in Processes, NEW r \in Rows,
             Store!CreateSession(p, r) \/ Store!CreateTask(p, r)
      PROVE  StoreTyped'
  BY <1>1, <1>8 DEF StoreTyped, Store!Database, Store!CreateSession, Store!CreateTask
<1>9. ASSUME NEW p \in Processes, Store!Refused(p) PROVE StoreTyped'
  <2>1. opener' \in [Processes -> Store!Opener]
    BY <1>1, <1>2, <1>9, OpenerMoves DEF StoreTyped, Store!Refused, Store!Go
  <2>2. torn' \in BOOLEAN
    BY <1>1, <1>9 DEF StoreTyped, Store!Refused, Store!Migrating
  <2> QED BY <1>1, <1>9, <2>1, <2>2 DEF StoreTyped, Store!Refused
<1>10. ASSUME NEW p \in Processes, Store!RecordLost(p) PROVE StoreTyped'
  <2>1. opener[p].file <= 2
    BY <1>10, OpenerIs DEF Store!RecordLost, Placed, At
  <2>2. opener' \in [Processes -> Store!Opener]
    BY <1>1, <1>10, <2>1, NextFileMoves DEF StoreTyped, Store!RecordLost
  <2> QED BY <1>1, <1>10, <2>2 DEF StoreTyped, Store!RecordLost
<1>11. CASE UNCHANGED svars
  BY <1>1, <1>11 DEF StoreTyped, svars
<1> QED BY <1>3, <1>4, <1>5, <1>6, <1>7, <1>8, <1>9, <1>10, <1>11, Steps

(* A rotator stays one when a field of it is set. *)
LEMMA RotatorMoves ==
  ASSUME NEW r \in Rotator!Rotator
  PROVE  /\ \A at \in {"off", "reading", "loaded", "failed", "watching", "noticed", "rereading"} :
              [r EXCEPT !.at = at] \in Rotator!Rotator
         /\ \A g \in Rotator!Generations \union {0} : [r EXCEPT !.read = g] \in Rotator!Rotator
         /\ \A x \in Rotator!Pair \union {Rotator!Nothing} :
              /\ [r EXCEPT !.pair = x] \in Rotator!Rotator
              /\ [r EXCEPT !.noted = x] \in Rotator!Rotator
              /\ [r EXCEPT !.last = x] \in Rotator!Rotator
  BY DEF Rotator!Rotator

LEMMA PairsAre ==
  ASSUME CertTyped
  PROVE  /\ cert \in Rotator!Generations /\ key \in Rotator!Generations
         /\ Rotator!OnDisk \in Rotator!Pair
         /\ \A x \in Rotator!Generations :
              [cert |-> x, key |-> key] \in Rotator!Pair
         /\ Rotator!Off \in Rotator!Rotator
         /\ [Rotator!Off EXCEPT !.at = "failed"] \in Rotator!Rotator
<1>1. cert \in Rotator!Generations /\ key \in Rotator!Generations
  BY ProcessAssumption DEF CertTyped, Rotator!Generations
<1>2. Rotator!Off \in Rotator!Rotator
  BY DEF Rotator!Off, Rotator!Rotator
<1>3. [Rotator!Off EXCEPT !.at = "failed"] \in Rotator!Rotator
  BY <1>2, RotatorMoves
<1> QED BY <1>1, <1>2, <1>3 DEF Rotator!OnDisk, Rotator!Pair

LEMMA CertStep == CertTyped /\ [Next]_vars => CertTyped'
<1> SUFFICES ASSUME CertTyped, [Next]_vars PROVE CertTyped'
  OBVIOUS
<1>0. /\ cert \in Rotator!Generations /\ key \in Rotator!Generations
      /\ rotator \in Rotator!Rotator /\ serving \in BOOLEAN /\ overlooked \in BOOLEAN
  BY PairsAre DEF CertTyped
<1>1. CASE Rotator!RenewCert \/ Rotator!RenewKey
  <2>1. /\ cert' \in Rotator!Generations /\ key' \in {cert', cert' - 1} \ {0}
    BY <1>1, <1>0, ProcessAssumption
    DEF Rotator!RenewCert, Rotator!RenewKey, Rotator!Generations
  <2> QED BY <1>1, <1>0, <2>1 DEF CertTyped, Rotator!RenewCert, Rotator!RenewKey
<1>2. CASE Rotator!Start
  <2>1. rotator' = [[rotator EXCEPT !.at = "reading"] EXCEPT !.read = cert]
    BY <1>2, <1>0 DEF Rotator!Start, Rotator!Rotator
  <2>2. [rotator EXCEPT !.at = "reading"] \in Rotator!Rotator
    BY <1>0, RotatorMoves
  <2>3. rotator' \in Rotator!Rotator
    BY <1>0, <2>1, <2>2, RotatorMoves
  <2> QED BY <1>2, <2>1, <2>3 DEF CertTyped, Rotator!Start
<1>3. CASE Rotator!Load
  <2>1. CASE Rotator!Accepts
    <3> DEFINE new == [cert |-> rotator.read, key |-> key]
               r1  == [rotator EXCEPT !.at = "loaded"]
               r2  == [r1 EXCEPT !.pair = new]
    <3>1.
          /\ rotator' = [r2 EXCEPT !.read = 0]
      BY <1>3, <1>0, <2>1 DEF Rotator!Load, Rotator!Loaded, Rotator!Rotator
    <3>2. new \in Rotator!Pair
      BY <1>0, <2>1, PairsAre DEF Rotator!Accepts
    <3> HIDE DEF new
    <3>3. r1 \in Rotator!Rotator
      BY <1>0, RotatorMoves
    <3> HIDE DEF r1
    <3>4. r2 \in Rotator!Rotator
      BY <3>2, <3>3, RotatorMoves
    <3> HIDE DEF r2
    <3>5. rotator' \in Rotator!Rotator
      BY <3>1, <3>4, RotatorMoves
    <3> QED BY <1>3, <3>1, <3>2, <3>5 DEF CertTyped, Rotator!Load
  <2>2. CASE ~Rotator!Accepts
    <3>1. rotator' = [Rotator!Off EXCEPT !.at = "failed"]
      BY <1>3, <2>2 DEF Rotator!Load
    <3> QED BY <1>3, <3>1, PairsAre DEF CertTyped, Rotator!Load
  <2> QED BY <2>1, <2>2
<1>4. CASE Rotator!Watch
  <2>1. rotator' = [[rotator EXCEPT !.at = "watching"] EXCEPT !.last = Rotator!OnDisk]
    BY <1>4, <1>0 DEF Rotator!Watch, Rotator!Rotator
  <2>2. [rotator EXCEPT !.at = "watching"] \in Rotator!Rotator
    BY <1>0, RotatorMoves
  <2>3. rotator' \in Rotator!Rotator
    BY <2>1, <2>2, PairsAre, RotatorMoves
  <2> QED BY <1>4, <2>1, <2>3 DEF CertTyped, Rotator!Watch
<1>5. CASE Rotator!Tick
  <2>1. rotator' = [[rotator EXCEPT !.at = "noticed"] EXCEPT !.noted = Rotator!OnDisk]
    BY <1>5, <1>0 DEF Rotator!Tick, Rotator!Rotator
  <2>2. [rotator EXCEPT !.at = "noticed"] \in Rotator!Rotator
    BY <1>0, RotatorMoves
  <2>3. rotator' \in Rotator!Rotator
    BY <2>1, <2>2, PairsAre, RotatorMoves
  <2> QED BY <1>5, <2>1, <2>3 DEF CertTyped, Rotator!Tick
<1>6. CASE Rotator!Read
  <2>1. rotator' = [[rotator EXCEPT !.at = "rereading"] EXCEPT !.read = cert]
    BY <1>6, <1>0 DEF Rotator!Read, Rotator!Rotator
  <2>2. [rotator EXCEPT !.at = "rereading"] \in Rotator!Rotator
    BY <1>0, RotatorMoves
  <2>3. rotator' \in Rotator!Rotator
    BY <1>0, <2>1, <2>2, RotatorMoves
  <2> QED BY <1>6, <2>1, <2>3 DEF CertTyped, Rotator!Read
<1>7. CASE Rotator!Reload
  <2> DEFINE r1 == [rotator EXCEPT !.at = "watching"]
             r2 == [r1 EXCEPT !.read = 0]
             r3 == [r2 EXCEPT !.noted = Rotator!Nothing]
             new  == IF Rotator!Accepts THEN Rotator!Loaded ELSE rotator.pair
             last == IF Rotator!Accepts THEN rotator.noted ELSE rotator.last
             r4 == [r3 EXCEPT !.pair = new]
  <2>1. rotator' = [r4 EXCEPT !.last = last]
    BY <1>7, <1>0 DEF Rotator!Reload, Rotator!Rotator
  <2>2. /\ new \in Rotator!Pair \union {Rotator!Nothing}
        /\ last \in Rotator!Pair \union {Rotator!Nothing}
    <3>1. CASE Rotator!Accepts
      BY <1>0, <3>1, PairsAre DEF Rotator!Accepts, Rotator!Loaded, Rotator!Rotator
    <3>2. CASE ~Rotator!Accepts
      BY <1>0, <3>2 DEF Rotator!Rotator
    <3> QED BY <3>1, <3>2
  <2> HIDE DEF new, last
  <2>3. r1 \in Rotator!Rotator
    BY <1>0, RotatorMoves
  <2> HIDE DEF r1
  <2>4. r2 \in Rotator!Rotator
    BY <2>3, RotatorMoves
  <2> HIDE DEF r2
  <2>5. r3 \in Rotator!Rotator
    BY <2>4, RotatorMoves
  <2> HIDE DEF r3
  <2>6. r4 \in Rotator!Rotator
    BY <2>2, <2>5, RotatorMoves
  <2> HIDE DEF r4
  <2>7. rotator' \in Rotator!Rotator
    BY <2>1, <2>2, <2>6, RotatorMoves
  <2>8. overlooked' \in BOOLEAN
    BY <1>7, <1>0 DEF Rotator!Reload
  <2> QED BY <1>7, <2>1, <2>2, <2>7, <2>8 DEF CertTyped, Rotator!Reload
<1>8. CASE Rotator!Stop
  BY <1>8, PairsAre DEF CertTyped, Rotator!Stop, Rotator!Off, Rotator!Nothing
<1>9. CASE Rotator!Serve
  BY <1>9 DEF CertTyped, Rotator!Serve
<1>10. CASE UNCHANGED cvars
  BY <1>10 DEF cvars, CertTyped
<1>11. ASSUME NEW p \in Processes, Migrate(p) \/ StatementRefused(p) PROVE UNCHANGED cvars
  BY <1>11 DEF Migrate, StatementRefused
<1>12. CASE StartServer \/ Request \/ StartCommand \/ EndCommand \/ FinishCopy \/ KillCommand
            \/ \E n \in Binaries : UpdateByRename(n) \/ UpdateByCopy(n)
  BY <1>10, <1>12 DEF StartServer, Request, StartCommand, EndCommand, FinishCopy, KillCommand,
                      UpdateByRename, UpdateByCopy
<1> QED
  BY <1>1, <1>2, <1>3, <1>4, <1>5, <1>6, <1>7, <1>8, <1>9, <1>10, <1>11, <1>12
  DEF Next, LoadCertificate, Serve, ServeFails, Fatal, Shutdown, Monitor, Renew, KillServer,
      Rotator!Monitor, Rotator!Renew, vars

(* What is read comes after the times that were looked up before it, and the files *)
(* only get newer (monitor). *)
LEMMA WatchedStep == CertTyped /\ Watched /\ [Next]_vars => Watched'
<1> SUFFICES ASSUME CertTyped, Watched, [Next]_vars PROVE Watched'
  OBVIOUS
<1>0. /\ cert \in Nat /\ key \in Nat /\ key <= cert /\ rotator.read \in Nat
      /\ rotator.pair.cert \in Nat /\ rotator.pair.key \in Nat
      /\ rotator.noted.cert \in Nat /\ rotator.noted.key \in Nat
      /\ rotator.last.cert \in Nat /\ rotator.last.key \in Nat
  BY ProcessAssumption
  DEF CertTyped, Rotator!Rotator, Rotator!Pair, Rotator!Nothing, Rotator!Generations
<1>a. rotator \in Rotator!Rotator
  BY DEF CertTyped
<1>b. Rotator!OnDisk.cert = cert /\ Rotator!OnDisk.key = key
  BY DEF Rotator!OnDisk
<1>1. CASE Rotator!RenewCert \/ Rotator!RenewKey
  <2>1. cert <= cert' /\ key <= key' /\ cert' \in Nat /\ key' \in Nat
        /\ UNCHANGED <<rotator, overlooked>>
    BY <1>0, <1>1 DEF Rotator!RenewCert, Rotator!RenewKey
  <2> QED BY <1>0, <2>1 DEF Watched
<1>2. CASE Rotator!Start
  <2>1. /\ rotator'.pair = rotator.pair /\ rotator'.noted = rotator.noted
        /\ rotator'.read = cert /\ rotator'.at = "reading"
    BY <1>2, <1>a DEF Rotator!Start, Rotator!Rotator
  <2> QED BY <1>0, <1>2, <2>1 DEF Watched, Rotator!Start
<1>3. CASE Rotator!Load
  <2>1. CASE Rotator!Accepts
    <3>1. /\ rotator'.pair.cert = rotator.read /\ rotator'.pair.key = key
          /\ rotator'.noted = rotator.noted /\ rotator'.read = 0 /\ rotator'.at = "loaded"
      BY <1>3, <1>a, <2>1 DEF Rotator!Load, Rotator!Loaded, Rotator!Rotator
    <3> QED BY <1>0, <1>3, <3>1 DEF Watched, Rotator!Load
  <2>2. CASE ~Rotator!Accepts
    <3>1. /\ rotator'.pair = Rotator!Nothing /\ rotator'.noted = Rotator!Nothing
          /\ rotator'.read = 0 /\ rotator'.at = "failed"
      BY <1>3, <2>2 DEF Rotator!Load, Rotator!Off
    <3> QED BY <1>0, <1>3, <3>1 DEF Watched, Rotator!Load, Rotator!Nothing
  <2> QED BY <2>1, <2>2
<1>4. CASE Rotator!Watch
  <2>1. /\ rotator'.pair = rotator.pair /\ rotator'.noted = rotator.noted
        /\ rotator'.read = rotator.read /\ rotator'.at = "watching"
        /\ rotator'.last = Rotator!OnDisk
    BY <1>4, <1>a DEF Rotator!Watch, Rotator!Rotator
  <2>2. ~overlooked' => rotator.pair = Rotator!OnDisk
    BY <1>4 DEF Rotator!Watch
  <2> QED BY <1>0, <1>4, <1>b, <2>1, <2>2 DEF Watched, Rotator!Watch
<1>5. CASE Rotator!Tick
  <2>1. /\ rotator'.pair = rotator.pair /\ rotator'.noted = Rotator!OnDisk
        /\ rotator'.read = rotator.read /\ rotator'.at = "noticed"
        /\ rotator'.last = rotator.last /\ rotator.at = "watching"
    BY <1>5, <1>a DEF Rotator!Tick, Rotator!Rotator
  <2> QED BY <1>0, <1>5, <1>b, <2>1 DEF Watched, Rotator!Tick
<1>6. CASE Rotator!Read
  <2>1. /\ rotator'.pair = rotator.pair /\ rotator'.noted = rotator.noted
        /\ rotator'.read = cert /\ rotator'.at = "rereading"
        /\ rotator'.last = rotator.last /\ rotator.at = "noticed"
    BY <1>6, <1>a DEF Rotator!Read, Rotator!Rotator
  <2> QED BY <1>0, <1>6, <2>1 DEF Watched, Rotator!Read
<1>7. CASE Rotator!Reload
  <2>1. /\ rotator'.noted = Rotator!Nothing /\ rotator'.read = 0 /\ rotator'.at = "watching"
        /\ rotator.at = "rereading"
        /\ Rotator!Accepts => /\ rotator'.pair = [cert |-> rotator.read, key |-> key]
                              /\ rotator'.last = rotator.noted
        /\ ~Rotator!Accepts => /\ rotator'.pair = rotator.pair /\ rotator'.last = rotator.last
        /\ UNCHANGED <<cert, key>>
    BY <1>7, <1>a DEF Rotator!Reload, Rotator!Loaded, Rotator!Rotator
  <2>2. CASE Rotator!Accepts
    BY <1>0, <2>1, <2>2 DEF Watched, Rotator!Nothing
  <2>3. CASE ~Rotator!Accepts
    <3>1. ~overlooked' => ~overlooked
      BY <1>7, <2>3 DEF Rotator!Reload
    <3> QED BY <1>0, <2>1, <2>3, <3>1 DEF Watched, Rotator!Nothing
  <2> QED BY <2>2, <2>3
<1>8. CASE Rotator!Stop
  BY <1>0, <1>8 DEF Watched, Rotator!Stop, Rotator!Off, Rotator!Nothing
<1>9. CASE UNCHANGED <<cert, key, rotator, overlooked>>
  BY <1>9 DEF Watched
<1>10. ASSUME NEW p \in Processes, Migrate(p) \/ StatementRefused(p)
       PROVE  UNCHANGED <<cert, key, rotator, overlooked>>
  BY <1>10 DEF Migrate, StatementRefused, cvars
<1>11. CASE \/ StartServer \/ Request \/ StartCommand \/ EndCommand \/ FinishCopy \/ KillCommand
            \/ Rotator!Serve \/ UNCHANGED vars
            \/ \E n \in Binaries : UpdateByRename(n) \/ UpdateByCopy(n)
  BY <1>9, <1>11 DEF StartServer, Request, StartCommand, EndCommand, FinishCopy, KillCommand,
                     UpdateByRename, UpdateByCopy, Rotator!Serve, cvars, vars
<1> QED
  BY <1>1, <1>2, <1>3, <1>4, <1>5, <1>6, <1>7, <1>8, <1>9, <1>10, <1>11
  DEF Next, LoadCertificate, Serve, ServeFails, Fatal, Shutdown, Monitor, Renew, KillServer,
      Rotator!Monitor, Rotator!Renew

LEMMA ExeStep == ExeTyped /\ [Next]_vars => ExeTyped'
<1> SUFFICES ASSUME ExeTyped, [Next]_vars PROVE ExeTyped'
  OBVIOUS
<1> USE ProcessAssumption DEF ExeTyped, xvars, Binaries
<1>1. CASE KillServer \/ KillCommand
  BY <1>1 DEF KillServer, KillCommand
<1>2. CASE FinishCopy \/ \E n \in Binaries : UpdateByRename(n) \/ UpdateByCopy(n)
  BY <1>2 DEF FinishCopy, UpdateByRename, UpdateByCopy
<1>3. CASE UNCHANGED <<xvars, kills>>
  BY <1>3
<1>4. ASSUME NEW p \in Processes, Migrate(p) PROVE UNCHANGED <<xvars, kills>>
  BY <1>4 DEF Migrate
<1>6. ASSUME NEW p \in Processes, StatementRefused(p) PROVE ExeTyped'
  BY <1>6 DEF StatementRefused
<1>5. CASE \/ StartServer \/ LoadCertificate \/ Serve \/ ServeFails \/ Fatal \/ Shutdown
           \/ Monitor \/ Request \/ Renew \/ StartCommand \/ EndCommand \/ UNCHANGED vars
  BY <1>3, <1>5 DEF StartServer, LoadCertificate, Serve, ServeFails, Fatal, Shutdown, Monitor,
                    Request, Renew, StartCommand, EndCommand, vars
<1> QED BY <1>1, <1>2, <1>3, <1>4, <1>5, <1>6 DEF Next
-----------------------------------------------------------------------------
(* What a step of the store makes of the process that takes it.              *)

Becomes(p, at, file, line) ==
  /\ opener'[p].at = at /\ opener'[p].known = opener[p].known
  /\ opener'[p].file = file /\ opener'[p].line = line

Passive == UNCHANGED <<db, stored, torn, mixed>>

Opened(p) ==
  /\ At(p) = "closed" /\ exe # Torn /\ Passive
  /\ opener'[p].at = "check" /\ opener'[p].known = exe
  /\ opener'[p].file = 1 /\ opener'[p].line = 1
Checked(p) ==
  /\ At(p) = "check" /\ Passive
  /\ \/ /\ opener[p].file \in db.applied /\ opener[p].file <= 2
        /\ opener[p].file <= opener[p].known
        /\ Becomes(p, "check", opener[p].file + 1, 1)
     \/ /\ opener[p].file > opener[p].known
        /\ Becomes(p, "open", opener[p].file, opener[p].line)
     \/ /\ opener[p].file \notin db.applied /\ opener[p].file <= opener[p].known
        /\ Becomes(p, "exec", opener[p].file, opener[p].line)
Noted(p) ==
  /\ At(p) \in {"record", "skip"} /\ UNCHANGED <<stored, torn, mixed>>
  /\ Becomes(p, "check", opener[p].file + 1, 1)
  /\ db' = [db EXCEPT !.applied = @ \union {opener[p].file}]
GaveUp(p) ==
  /\ At(p) = "record" /\ Passive /\ Becomes(p, "failed", opener[p].file, opener[p].line)
Ended(p) ==
  /\ At(p) # "closed" /\ UNCHANGED <<db, stored, mixed>>
  /\ torn' = (torn \/ At(p) \in {"exec", "record", "skip"})
  /\ opener'[p].at = "closed" /\ opener'[p].known = 0
  /\ opener'[p].file = 1 /\ opener'[p].line = 1
Stopped(p) ==
  /\ At(p) \in {"check", "exec", "record"} /\ UNCHANGED <<db, stored, mixed>>
  /\ torn' = (torn \/ At(p) \in {"exec", "record", "skip"})
  /\ Becomes(p, "failed", opener[p].file, opener[p].line)
Passed(p) ==
  /\ At(p) = "skip" /\ Passive /\ Becomes(p, "check", opener[p].file + 1, 1)
Created(p) ==
  /\ At(p) = "open" /\ db.shape # "none" /\ UNCHANGED <<opener, torn, mixed>>
  /\ \E r \in Rows :
       \/ db' = [db EXCEPT !.sessions = @ \union {r}] /\ stored' = stored \union {r}
       \/ db' = [db EXCEPT !.tasks = @ \union {r}] /\ UNCHANGED stored

LEMMA GoMoves ==
  ASSUME TypeOK, NEW p \in Processes
  PROVE  /\ \A at \in {"closed", "check", "exec", "record", "skip", "open", "failed"} :
              Go(p, at) => /\ Becomes(p, at, opener[p].file, opener[p].line)
                           /\ \A q \in Processes \ {p} : opener'[q] = opener[q]
         /\ Advance(p) => /\ Becomes(p, At(p), opener[p].file, opener[p].line + 1)
                          /\ \A q \in Processes \ {p} : opener'[q] = opener[q]
  BY OpenerSet DEF TypeOK, Go, Advance, Becomes, At

LEMMA Moves ==
  ASSUME TypeOK, Placed, [Next]_vars
  PROVE  \/ UNCHANGED svars
         \/ /\ UNCHANGED xvars
            /\ \E p \in Processes :
                 /\ \A q \in Processes \ {p} : opener'[q] = opener[q]
                 /\ \/ Opened(p) \/ Checked(p) \/ Store!Execute(p) \/ Noted(p) \/ GaveUp(p)
                    \/ Ended(p) \/ Stopped(p) \/ Passed(p) \/ Created(p)
<1>1. opener \in [Processes -> Store!Opener] /\ db \in Store!Database
  BY DEF TypeOK
<1>2. ASSUME NEW p \in Processes, exe # Torn, Store!Open(p, exe)
      PROVE  Opened(p) /\ \A q \in Processes \ {p} : opener'[q] = opener[q]
  <2>1. opener'[p] = [Store!Closed EXCEPT !.at = "check", !.known = exe]
        /\ \A q \in Processes \ {p} : opener'[q] = opener[q]
    BY <1>1, <1>2 DEF Store!Open
  <2>2. /\ opener'[p].at = "check" /\ opener'[p].known = exe
        /\ opener'[p].file = 1 /\ opener'[p].line = 1
    BY <2>1 DEF Store!Closed
  <2> QED BY <1>2, <2>1, <2>2 DEF Opened, Passive, At, Store!Open
<1>3. ASSUME NEW p \in Processes, Store!CheckApplied(p)
      PROVE  Checked(p) /\ \A q \in Processes \ {p} : opener'[q] = opener[q]
  <2>1. opener[p].file \in db.applied => opener[p].file <= 2
    BY <1>1, FilesAre DEF Store!Database
  <2>2. opener[p].file \in 1 .. 3 /\ opener[p].known \in 0 .. 2
    BY OpenerIs
  <2>3. CASE opener[p].file > opener[p].known
    <3>1. Go(p, "open") /\ At(p) = "check" /\ Passive
      BY <1>3, <2>2, <2>3 DEF Store!CheckApplied, Store!Go, Go, Passive, At
    <3> QED BY <2>3, <3>1, GoMoves DEF Checked
  <2>4. CASE ~(opener[p].file > opener[p].known) /\ opener[p].file \in db.applied
    BY <1>1, <1>3, <2>1, <2>2, <2>4, NextFileMoves
    DEF Store!CheckApplied, Checked, Passive, At, Becomes
  <2>5. CASE ~(opener[p].file > opener[p].known) /\ opener[p].file \notin db.applied
    <3>1. Go(p, "exec") /\ At(p) = "check" /\ Passive
      BY <1>3, <2>5 DEF Store!CheckApplied, Store!Go, Go, Passive, At
    <3> QED BY <2>2, <2>5, <3>1, GoMoves DEF Checked
  <2> QED BY <2>3, <2>4, <2>5
<1>4. ASSUME NEW p \in Processes, Store!Execute(p)
      PROVE  \A q \in Processes \ {p} : opener'[q] = opener[q]
  <2>1. Go(p, "skip") \/ Go(p, "failed") \/ Go(p, "record") \/ Advance(p)
    BY <1>4, Executing
  <2> QED BY <2>1, GoMoves
<1>5. ASSUME NEW p \in Processes, Store!Record(p) \/ Store!RecordPartial(p)
      PROVE  (Noted(p) \/ GaveUp(p)) /\ \A q \in Processes \ {p} : opener'[q] = opener[q]
  <2>1. opener[p].file \in 1 .. 2
    BY <1>5, OpenerIs DEF Store!Record, Store!RecordPartial, Placed, At
  <2>2. CASE Store!NextFile(p) /\ db' = [db EXCEPT !.applied = @ \union {opener[p].file}]
    BY <1>1, <1>5, <2>1, <2>2, NextFileMoves
    DEF Store!Record, Store!RecordPartial, Noted, Becomes, At
  <2>3. CASE Store!Go(p, "failed") /\ UNCHANGED db /\ Store!Record(p)
    BY <2>3, GoMoves DEF Store!Record, Store!Go, Go, GaveUp, Passive, At
  <2> QED BY <1>5, <2>2, <2>3 DEF Store!Record, Store!RecordPartial
<1>6. ASSUME NEW p \in Processes, Store!Close(p)
      PROVE  Ended(p) /\ \A q \in Processes \ {p} : opener'[q] = opener[q]
  BY <1>1, <1>6 DEF Store!Close, Store!Closed, Store!Migrating, Ended, At
<1>7. ASSUME NEW p \in Processes, NEW r \in Rows,
             Store!CreateSession(p, r) \/ Store!CreateTask(p, r)
      PROVE  Created(p) /\ \A q \in Processes \ {p} : opener'[q] = opener[q]
  <2>1. CASE Store!CreateSession(p, r)
    BY <2>1 DEF Store!CreateSession, Created, At
  <2>2. CASE Store!CreateTask(p, r)
    BY <2>2 DEF Store!CreateTask, Created, At
  <2> QED BY <1>7, <2>1, <2>2
<1>8. ASSUME NEW p \in Processes, Store!Refused(p)
      PROVE  Stopped(p) /\ \A q \in Processes \ {p} : opener'[q] = opener[q]
  <2>1. Go(p, "failed")
    BY <1>8 DEF Store!Refused, Store!Go, Go
  <2> QED BY <1>8, <2>1, GoMoves DEF Store!Refused, Store!Migrating, Stopped, At
<1>9. ASSUME NEW p \in Processes, Store!RecordLost(p)
      PROVE  Passed(p) /\ \A q \in Processes \ {p} : opener'[q] = opener[q]
  <2>1. opener[p].file <= 2
    BY <1>9, OpenerIs DEF Store!RecordLost, Placed, At
  <2> QED BY <1>1, <1>9, <2>1, NextFileMoves DEF Store!RecordLost, Passed, Passive, Becomes, At
<1> QED BY <1>2, <1>3, <1>4, <1>5, <1>6, <1>7, <1>8, <1>9, Steps
-----------------------------------------------------------------------------
(* Where the processes are.                                                  *)

LEMMA MoreFacts ==
  ASSUME TypeOK, NEW p \in Processes
  PROVE  /\ opener[p].known \in 0 .. 2 /\ opener[p].file \in 1 .. 3 /\ opener[p].line \in 1 .. 6
         /\ At(p) \in {"closed", "check", "exec", "record", "skip", "open", "failed"}
         /\ db.shape \in {"none", "old", "typed", "new"} /\ db.made \in BOOLEAN
         /\ db.hosts \in SUBSET All /\ db.applied \in SUBSET (1 .. 2)
  BY OpenerSet, FilesAre DEF TypeOK, Store!Database, All, At

(* What executing a statement makes of the process. *)
LEMMA ExecuteMoves ==
  ASSUME TypeOK, Placed, NEW p \in Processes, Store!Execute(p)
  PROVE  /\ opener'[p].known = opener[p].known /\ opener'[p].file = opener[p].file
         /\ At(p)' \in {"exec", "record", "skip", "failed"}
         /\ At(p)' = "exec" => /\ opener'[p].line = opener[p].line + 1
                               /\ opener[p].line < (IF opener[p].file = 1 THEN 5 ELSE 3)
         /\ db'.applied = db.applied
<1>1. TypeOK /\ db \in Store!Database
  BY DEF TypeOK
<1>2. CASE Go(p, "skip") \/ Go(p, "failed") \/ Go(p, "record")
  <2>1. db'.applied = db.applied
    BY <1>1, Executing DEF Store!Database
  <2> QED BY <1>2, <2>1, GoMoves DEF Becomes, At
<1>3. CASE Advance(p) /\ ~(Go(p, "skip") \/ Go(p, "failed") \/ Go(p, "record"))
  <2>1. db'.applied = db.applied
    BY <1>1, Executing DEF Store!Database
  <2>2. opener[p].line < (IF opener[p].file = 1 THEN 5 ELSE 3)
    BY <1>3, Executing
  <2> QED BY <1>3, <2>1, <2>2, Executing, GoMoves DEF Becomes, At
<1> QED BY <1>2, <1>3, Executing

LEMMA PlacedStep == TypeOK /\ Placed /\ [Next]_vars => Placed'
<1> SUFFICES ASSUME TypeOK, Placed, [Next]_vars PROVE Placed'
  OBVIOUS
<1>1. CASE UNCHANGED svars
  BY <1>1 DEF Placed, At, svars
<1>2. ASSUME NEW p \in Processes, \A q \in Processes \ {p} : opener'[q] = opener[q],
             \/ Opened(p) \/ Checked(p) \/ Store!Execute(p) \/ Noted(p) \/ GaveUp(p)
             \/ Ended(p) \/ Stopped(p) \/ Passed(p) \/ Created(p)
      PROVE  Placed'
  <2> DEFINE Good(q) ==
        /\ At(q) = "check" => opener[q].line = 1
        /\ At(q) \in {"exec", "record", "skip"} => opener[q].file <= opener[q].known
        /\ At(q) = "exec" => opener[q].line <= (IF opener[q].file = 1 THEN 5 ELSE 3)
        /\ At(q) = "open" => opener[q].file > opener[q].known
  <2>1. \A q \in Processes : Good(q)
    BY DEF Placed
  <2>3. ASSUME NEW q \in Processes \ {p} PROVE Good(q)'
    BY <1>2, <2>1, <2>3 DEF At
  <2>4. Good(p)'
    <3> USE <2>1, MoreFacts
    <3>1. CASE Opened(p)
      BY <3>1 DEF Opened, At
    <3>2. CASE Checked(p)
      BY <3>2 DEF Checked, Becomes, At
    <3>3. CASE Store!Execute(p)
      BY <3>3, ExecuteMoves DEF At, Store!Execute
    <3>4. CASE Noted(p)
      BY <3>4 DEF Noted, Becomes, At
    <3>5. CASE GaveUp(p)
      BY <3>5 DEF GaveUp, Becomes, At
    <3>6. CASE Ended(p)
      BY <3>6 DEF Ended, At
    <3>7. CASE Created(p)
      BY <3>7 DEF Created, At
    <3>8. CASE Stopped(p) \/ Passed(p)
      BY <3>8 DEF Stopped, Passed, Becomes, At
    <3> QED BY <1>2, <3>1, <3>2, <3>3, <3>4, <3>5, <3>6, <3>7, <3>8
  <2> HIDE DEF Good
  <2>5. \A q \in Processes : Good(q)'
    BY <2>3, <2>4
  <2> QED BY <2>5 DEF Placed, Good
<1> QED BY <1>1, <1>2, Moves

LEMMA NewestStep == TypeOK /\ Placed /\ Newest /\ [Next]_vars => Newest'
<1> SUFFICES ASSUME TypeOK, Placed, Newest, [Next]_vars PROVE Newest'
  OBVIOUS
<1>0. exe \in 0 .. 2 \union {Torn} /\ updater \in 0 .. 2 /\ Torn \notin 0 .. 2
  BY ProcessAssumption DEF TypeOK, Binaries
<1>1. CASE UNCHANGED svars
  <2>1. ASSUME NEW n \in Binaries, UpdateByRename(n) \/ UpdateByCopy(n) PROVE Newest'
    BY <1>0, <1>1, <2>1, MoreFacts DEF Newest, UpdateByRename, UpdateByCopy, Binaries, svars
  <2>2. CASE FinishCopy
    BY <1>0, <1>1, <2>2 DEF Newest, FinishCopy, svars
  <2>3. CASE UNCHANGED xvars \/ (updater' = 0 /\ UNCHANGED exe)
    BY <1>0, <1>1, <2>3 DEF Newest, svars, xvars
  <2>4. \/ UNCHANGED xvars \/ FinishCopy
        \/ updater' = 0 /\ UNCHANGED exe
        \/ \E n \in Binaries : UpdateByRename(n) \/ UpdateByCopy(n)
    BY Steps
  <2> QED BY <2>1, <2>2, <2>3, <2>4
<1>2. ASSUME NEW p \in Processes, \A q \in Processes \ {p} : opener'[q] = opener[q],
             UNCHANGED xvars,
             \/ Opened(p) \/ Checked(p) \/ Store!Execute(p) \/ Noted(p) \/ GaveUp(p)
             \/ Ended(p) \/ Stopped(p) \/ Passed(p) \/ Created(p)
      PROVE  Newest'
  <2>1. \/ opener'[p].known = opener[p].known \/ opener'[p].known = 0
        \/ exe # Torn /\ opener'[p].known = exe
    BY <1>2, ExecuteMoves
    DEF Opened, Checked, Noted, GaveUp, Ended, Stopped, Passed, Created, Becomes
  <2> QED BY <1>0, <1>2, <2>1, MoreFacts DEF Newest, xvars
<1> QED BY <1>1, <1>2, Moves
-----------------------------------------------------------------------------
(* Executing a statement, in terms of the tables.                            *)

Tables(shape, sessions, made, copy, hosts) ==
  /\ db'.shape = shape /\ db'.sessions = sessions /\ db'.made = made
  /\ db'.copy = copy /\ db'.hosts = hosts /\ db'.applied = db.applied

Repeated(p) ==
  IF opener[p].file = 1
  THEN \/ opener[p].line = 1 /\ db.shape \in {"typed", "new"}
       \/ opener[p].line = 3 /\ db.sessions \intersect db.copy # {}
  ELSE \/ opener[p].line = 1 /\ "available" \in db.hosts
       \/ opener[p].line = 2 /\ "latest" \in db.hosts
       \/ opener[p].line = 3 /\ "url" \in db.hosts

Broken(p) ==
  /\ opener[p].file = 1
  /\ \/ opener[p].line \in {1, 3, 4} /\ db.shape = "none"
     \/ opener[p].line = 2 /\ db.made
     \/ opener[p].line \in {3, 5} /\ ~db.made
     \/ opener[p].line = 5 /\ db.shape # "none"

Forward(p) == Becomes(p, "exec", opener[p].file, opener[p].line + 1)
Done(p)    == Becomes(p, "record", opener[p].file, opener[p].line)

RanFirst(p) ==
  /\ opener[p].file = 1
  /\ \/ /\ opener[p].line = 1 /\ db.shape = "old" /\ Forward(p)
        /\ Tables("typed", db.sessions, db.made, db.copy, db.hosts)
     \/ /\ opener[p].line = 2 /\ ~db.made /\ Forward(p)
        /\ Tables(db.shape, db.sessions, TRUE, db.copy, db.hosts)
     \/ /\ opener[p].line = 3 /\ db.made /\ Forward(p)
        /\ Tables(db.shape, db.sessions, db.made, db.copy \union db.sessions, db.hosts)
     \/ /\ opener[p].line = 4 /\ db.shape # "none" /\ Forward(p)
        /\ Tables("none", {}, db.made, db.copy, db.hosts)
     \/ /\ opener[p].line = 5 /\ db.shape = "none" /\ db.made /\ Done(p)
        /\ Tables("new", db.copy, FALSE, {}, db.hosts)
RanSecond(p) ==
  /\ opener[p].file = 2
  /\ \E c \in All : /\ c \notin db.hosts
                    /\ Tables(db.shape, db.sessions, db.made, db.copy, db.hosts \union {c})
                    /\ \/ opener[p].line = 1 /\ c = "available" /\ Forward(p)
                       \/ opener[p].line = 2 /\ c = "latest" /\ Forward(p)
                       \/ opener[p].line = 3 /\ c = "url" /\ Done(p)
Ran(p) ==
  /\ At(p) = "exec" /\ UNCHANGED <<stored, torn>>
  /\ mixed \/ (\E q \in Processes \ {p} : At(q) \notin {"closed", "failed"}) => mixed'
  /\ \/ /\ Becomes(p, "skip", opener[p].file, opener[p].line) /\ db' = db /\ Repeated(p)
     \/ /\ Becomes(p, "failed", opener[p].file, opener[p].line) /\ db' = db /\ Broken(p)
     \/ RanFirst(p) \/ RanSecond(p)

LEMMA StatementIs ==
  ASSUME TypeOK, Placed, NEW p \in Processes, At(p) = "exec"
  PROVE  /\ opener[p].file \in {1, 2}
         /\ opener[p].line \in 1 .. (IF opener[p].file = 1 THEN 5 ELSE 3)
         /\ Store!Duplicate(Store!Statement(p)) => Repeated(p)
         /\ Store!Fails(Store!Statement(p)) => Broken(p)
<1>1. /\ opener[p].file \in {1, 2}
      /\ opener[p].line \in 1 .. (IF opener[p].file = 1 THEN 5 ELSE 3)
  BY MoreFacts DEF Placed
<1>2. db.hosts \in SUBSET {"available", "latest", "url"}
  BY MoreFacts DEF All
<1>3. CASE opener[p].file = 1
  <2>1. /\ opener[p].line = 1 => Store!Statement(p) = "type"
        /\ opener[p].line = 2 => Store!Statement(p) = "create"
        /\ opener[p].line = 3 => Store!Statement(p) = "copy"
        /\ opener[p].line = 4 => Store!Statement(p) = "drop"
        /\ opener[p].line = 5 => Store!Statement(p) = "rename"
        /\ opener[p].line \in {1, 2, 3, 4, 5}
    BY <1>1, <1>3, FilesAre DEF Store!Statement
  <2>2. Store!Duplicate(Store!Statement(p)) => Repeated(p)
    BY <1>2, <1>3, <2>1 DEF Store!Duplicate, Repeated
  <2>3. Store!Fails(Store!Statement(p)) => Broken(p)
    BY <1>3, <2>1 DEF Store!Fails, Broken
  <2> QED BY <1>1, <2>2, <2>3
<1>4. CASE opener[p].file = 2
  <2>1. /\ opener[p].line = 1 => Store!Statement(p) = "available"
        /\ opener[p].line = 2 => Store!Statement(p) = "latest"
        /\ opener[p].line = 3 => Store!Statement(p) = "url"
        /\ opener[p].line \in {1, 2, 3}
    BY <1>1, <1>4, FilesAre DEF Store!Statement
  <2>2. Store!Duplicate(Store!Statement(p)) => Repeated(p)
    BY <1>4, <2>1 DEF Store!Duplicate, Repeated
  <2>3. ~Store!Fails(Store!Statement(p))
    BY <2>1 DEF Store!Fails
  <2> QED BY <1>1, <2>2, <2>3
<1> QED BY <1>1, <1>3, <1>4

LEMMA Runs ==
  ASSUME TypeOK, Placed, NEW p \in Processes, Store!Execute(p)
  PROVE  Ran(p)
<1>1. At(p) = "exec" /\ UNCHANGED <<stored, torn>> /\ db \in Store!Database
  BY Executing DEF TypeOK
<1>2. mixed \/ (\E q \in Processes \ {p} : At(q) \notin {"closed", "failed"}) => mixed'
  BY Executing
<1>3. CASE Go(p, "skip") /\ db' = db /\ Store!Duplicate(Store!Statement(p))
  BY <1>1, <1>2, <1>3, GoMoves, StatementIs DEF Ran
<1>4. CASE Go(p, "failed") /\ db' = db /\ Store!Fails(Store!Statement(p))
  BY <1>1, <1>2, <1>4, GoMoves, StatementIs DEF Ran
<1>5. /\ Advance(p) => Forward(p)
      /\ Go(p, "record") => Done(p)
  BY <1>1, GoMoves DEF Forward, Done
<1>6. ASSUME NEW shape, db' = [db EXCEPT !.shape = shape]
      PROVE  Tables(shape, db.sessions, db.made, db.copy, db.hosts)
  BY <1>1, <1>6 DEF Tables, Store!Database
<1>7. ASSUME NEW hosts, db' = [db EXCEPT !.hosts = hosts]
      PROVE  Tables(db.shape, db.sessions, db.made, db.copy, hosts)
  BY <1>1, <1>7 DEF Tables, Store!Database
<1>8. ASSUME db' = [db EXCEPT !.made = TRUE]
      PROVE  Tables(db.shape, db.sessions, TRUE, db.copy, db.hosts)
  BY <1>1, <1>8 DEF Tables, Store!Database
<1>9. ASSUME db' = [db EXCEPT !.copy = @ \union db.sessions]
      PROVE  Tables(db.shape, db.sessions, db.made, db.copy \union db.sessions, db.hosts)
  BY <1>1, <1>9 DEF Tables, Store!Database
<1>10. ASSUME db' = [db EXCEPT !.shape = "none", !.sessions = {}, !.tasks = {}]
       PROVE  Tables("none", {}, db.made, db.copy, db.hosts)
  BY <1>1, <1>10 DEF Tables, Store!Database
<1>11. ASSUME db' = [db EXCEPT !.shape = "new", !.sessions = db.copy, !.made = FALSE, !.copy = {}]
       PROVE  Tables("new", db.copy, FALSE, {}, db.hosts)
  BY <1>1, <1>11 DEF Tables, Store!Database
<1>12. CASE /\ opener[p].file = 1 /\ opener[p].line = 1 /\ db.shape = "old" /\ Advance(p)
            /\ db' = [db EXCEPT !.shape = "typed"]
  <2>1. RanFirst(p)
    BY <1>5, <1>6, <1>12 DEF RanFirst
  <2> QED BY <1>1, <1>2, <2>1 DEF Ran
<1>13. CASE /\ opener[p].file = 1 /\ opener[p].line = 2 /\ ~db.made /\ Advance(p)
            /\ db' = [db EXCEPT !.made = TRUE]
  <2>1. RanFirst(p)
    BY <1>5, <1>8, <1>13 DEF RanFirst
  <2> QED BY <1>1, <1>2, <2>1 DEF Ran
<1>14. CASE /\ opener[p].file = 1 /\ opener[p].line = 3 /\ db.made /\ Advance(p)
            /\ db' = [db EXCEPT !.copy = @ \union db.sessions]
  <2>1. RanFirst(p)
    BY <1>5, <1>9, <1>14 DEF RanFirst
  <2> QED BY <1>1, <1>2, <2>1 DEF Ran
<1>15. CASE /\ opener[p].file = 1 /\ opener[p].line = 4 /\ db.shape # "none" /\ Advance(p)
            /\ db' = [db EXCEPT !.shape = "none", !.sessions = {}, !.tasks = {}]
  <2>1. RanFirst(p)
    BY <1>5, <1>10, <1>15 DEF RanFirst
  <2> QED BY <1>1, <1>2, <2>1 DEF Ran
<1>16. CASE /\ opener[p].file = 1 /\ opener[p].line = 5 /\ db.shape = "none" /\ db.made /\ Go(p, "record")
            /\ db' = [db EXCEPT !.shape = "new", !.sessions = db.copy, !.made = FALSE, !.copy = {}]
  <2>1. RanFirst(p)
    BY <1>5, <1>11, <1>16 DEF RanFirst
  <2> QED BY <1>1, <1>2, <2>1 DEF Ran
<1>17. CASE /\ opener[p].file = 2 /\ opener[p].line = 1 /\ "available" \notin db.hosts /\ Advance(p)
            /\ db' = [db EXCEPT !.hosts = @ \union {"available"}]
  <2>1. RanSecond(p)
    <3>1. Tables(db.shape, db.sessions, db.made, db.copy, db.hosts \union {"available"})
      BY <1>7, <1>17
    <3> QED BY <1>5, <1>17, <3>1 DEF RanSecond, All
  <2> QED BY <1>1, <1>2, <2>1 DEF Ran
<1>18. CASE /\ opener[p].file = 2 /\ opener[p].line = 2 /\ "latest" \notin db.hosts /\ Advance(p)
            /\ db' = [db EXCEPT !.hosts = @ \union {"latest"}]
  <2>1. RanSecond(p)
    <3>1. Tables(db.shape, db.sessions, db.made, db.copy, db.hosts \union {"latest"})
      BY <1>7, <1>18
    <3> QED BY <1>5, <1>18, <3>1 DEF RanSecond, All
  <2> QED BY <1>1, <1>2, <2>1 DEF Ran
<1>19. CASE /\ opener[p].file = 2 /\ opener[p].line = 3 /\ "url" \notin db.hosts /\ Go(p, "record")
            /\ db' = [db EXCEPT !.hosts = @ \union {"url"}]
  <2>1. RanSecond(p)
    <3>1. Tables(db.shape, db.sessions, db.made, db.copy, db.hosts \union {"url"})
      BY <1>7, <1>19
    <3> QED BY <1>5, <1>19, <3>1 DEF RanSecond, All
  <2> QED BY <1>1, <1>2, <2>1 DEF Ran
<1> QED
  BY <1>3, <1>4, <1>12, <1>13, <1>14, <1>15, <1>16, <1>17, <1>18, <1>19, Executing
LEMMA OtherTables ==
  ASSUME TypeOK, NEW p \in Processes
  PROVE  /\ Noted(p) => /\ db'.shape = db.shape /\ db'.sessions = db.sessions
                        /\ db'.made = db.made /\ db'.copy = db.copy /\ db'.hosts = db.hosts
                        /\ db'.applied = db.applied \union {opener[p].file}
         /\ Created(p) => /\ db'.shape = db.shape /\ db'.made = db.made /\ db'.copy = db.copy
                          /\ db'.hosts = db.hosts /\ db'.applied = db.applied
                          /\ db.sessions \subseteq db'.sessions
                          /\ stored' \subseteq stored \union db'.sessions
<1>1. db \in Store!Database
  BY DEF TypeOK
<1>2. ASSUME Noted(p)
      PROVE  /\ db'.shape = db.shape /\ db'.sessions = db.sessions
             /\ db'.made = db.made /\ db'.copy = db.copy /\ db'.hosts = db.hosts
             /\ db'.applied = db.applied \union {opener[p].file}
  BY <1>1, <1>2 DEF Noted, Store!Database
<1>3. ASSUME NEW r \in Rows, db' = [db EXCEPT !.sessions = @ \union {r}], stored' = stored \union {r}
      PROVE  /\ db'.shape = db.shape /\ db'.made = db.made /\ db'.copy = db.copy
             /\ db'.hosts = db.hosts /\ db'.applied = db.applied
             /\ db.sessions \subseteq db'.sessions
             /\ stored' \subseteq stored \union db'.sessions
  BY <1>1, <1>3 DEF Store!Database
<1>4. ASSUME NEW r \in Rows, db' = [db EXCEPT !.tasks = @ \union {r}], UNCHANGED stored
      PROVE  /\ db'.shape = db.shape /\ db'.made = db.made /\ db'.copy = db.copy
             /\ db'.hosts = db.hosts /\ db'.applied = db.applied
             /\ db.sessions \subseteq db'.sessions
             /\ stored' \subseteq stored \union db'.sessions
  BY <1>1, <1>4 DEF Store!Database
<1> QED BY <1>2, <1>3, <1>4 DEF Created

(* The steps of the store, as the invariants see them. *)
Moved(p) == \/ Opened(p) \/ Checked(p) \/ Ran(p) \/ Noted(p) \/ GaveUp(p) \/ Ended(p)
            \/ Stopped(p) \/ Passed(p) \/ Created(p)
Alone(p) == \A q \in Processes \ {p} : opener'[q] = opener[q]

LEMMA StoreSteps ==
  ASSUME TypeOK, Placed, [Next]_vars
  PROVE  UNCHANGED svars \/ \E p \in Processes : Alone(p) /\ Moved(p)
  BY Moves, Runs DEF Moved, Alone

LEMMA TracedStep == TypeOK /\ Placed /\ Traced /\ [Next]_vars => Traced'
<1> SUFFICES ASSUME TypeOK, Placed, Traced, [Next]_vars PROVE Traced'
  OBVIOUS
<1>1. CASE UNCHANGED svars
  BY <1>1 DEF Traced, Trace, Begun, Middle, At, svars
<1>2. ASSUME NEW p \in Processes, Alone(p), Moved(p) PROVE Traced'
  <2> USE MoreFacts
  <2>1. \A k \in 1 .. 2 : Trace(k) => Trace(k)'
    <3>1. CASE Ran(p)
      BY <3>1 DEF Ran, RanFirst, RanSecond, Tables, Trace
    <3>2. CASE ~Ran(p)
      BY <1>2, <3>2, OtherTables
      DEF Moved, Opened, Checked, GaveUp, Ended, Stopped, Passed, Passive, Trace
    <3> QED BY <3>1, <3>2
  <2>2. Begun(p)' => Trace(opener[p].file)' /\ opener'[p].file = opener[p].file
    <3>1. CASE Ran(p) /\ At(p)' = "skip"
      <4>1. Repeated(p) /\ db' = db /\ opener'[p].file = opener[p].file
        BY <3>1 DEF Ran, RanFirst, RanSecond, Becomes, Forward, Done, At
      <4>2. CASE opener[p].line = 1
        BY <3>1, <4>1, <4>2 DEF Repeated, Trace
      <4>3. CASE opener[p].line > 1
        BY <3>1, <4>1, <4>3, <2>1 DEF Traced, Begun, Middle, Ran, Trace
      <4> QED BY <4>1, <4>2, <4>3
    <3>2. CASE RanFirst(p) /\ At(p) = "exec"
      <4>1. opener'[p].file = 1 /\ opener[p].file = 1
        BY <3>2 DEF RanFirst, Forward, Done, Becomes
      <4>2. CASE opener[p].line = 1
        BY <3>2, <4>1, <4>2 DEF RanFirst, Tables, Trace
      <4>3. CASE opener[p].line > 1
        BY <2>1, <3>2, <4>1, <4>3 DEF Traced, Begun, Middle
      <4> QED BY <4>1, <4>2, <4>3
    <3>3. CASE RanSecond(p) /\ opener[p].line = 1
      BY <3>3 DEF RanSecond, Tables, Trace, Forward, Done, Becomes
    <3>4. CASE RanSecond(p) /\ opener[p].line # 1 /\ At(p) = "exec"
      <4>1. Middle(p) /\ opener[p].file = 2 /\ Trace(2)
        BY <3>4 DEF Traced, Begun, Middle, RanSecond
      <4> QED BY <2>1, <3>4, <4>1 DEF RanSecond, Forward, Done, Becomes
    <3>5. CASE Ran(p) /\ At(p)' = "failed"
      BY <3>5 DEF Begun, Middle
    <3>6. CASE Opened(p) \/ Checked(p) \/ Noted(p) \/ GaveUp(p) \/ Ended(p) \/ Stopped(p) \/ Passed(p)
      BY <3>6 DEF Opened, Checked, Noted, GaveUp, Ended, Stopped, Passed, Becomes, Begun, Middle,
                  At, Placed
    <3>7. CASE Created(p)
      BY <2>1, <3>7 DEF Created, Begun, Middle, At, Traced
    <3> QED BY <1>2, <3>1, <3>2, <3>3, <3>4, <3>5, <3>6, <3>7 DEF Moved, Ran, Becomes, At
  <2>3. ASSUME NEW q \in Processes, Begun(q)' PROVE Trace(opener[q].file)'
    <3>1. CASE q # p
      <4>1. opener'[q] = opener[q] /\ Begun(q)
        BY <1>2, <2>3, <3>1 DEF Alone, Begun, Middle, At
      <4>2. Trace(opener[q].file)
        BY <4>1 DEF Traced
      <4>3. opener[q].file \in 1 .. 2
        BY <4>1 DEF Begun, Middle, Placed
      <4> QED BY <2>1, <4>1, <4>2, <4>3
    <3> QED BY <2>2, <2>3, <3>1
  <2>4. ASSUME NEW k \in 1 .. 2, k \in db'.applied PROVE Trace(k)'
    <3>1. k \in db.applied \/ (Noted(p) /\ k = opener[p].file)
      BY <1>2, <2>4, OtherTables
      DEF Moved, Opened, Checked, Ran, RanFirst, RanSecond, Tables, GaveUp, Ended, Stopped, Passed,
          Passive
    <3>2. Noted(p) => Begun(p)
      BY DEF Noted, Begun
    <3> QED BY <2>1, <3>1, <3>2 DEF Traced
  <2> QED BY <2>3, <2>4 DEF Traced
<1> QED BY <1>1, <1>2, StoreSteps
-----------------------------------------------------------------------------
(* Who is alone.                                                             *)

\* q does not disturb the migration that p is in the middle of.
Away(p, q) ==
  \/ At(q) \in {"closed", "failed"}
  \/ /\ opener[q].file <= opener[p].file /\ opener[p].file <= opener[q].known
     /\ \/ At(q) = "check"
        \/ At(q) = "exec" /\ opener[q].line = 1

(* Nobody stops having mixed; who executes without it has the store for himself. *)
LEMMA MixedStays ==
  ASSUME TypeOK, NEW p \in Processes, Moved(p), ~mixed'
  PROVE  /\ ~mixed
         /\ Ran(p) => \A q \in Processes \ {p} : At(q) \in {"closed", "failed"}
<1>1. CASE Ran(p)
  BY <1>1 DEF Ran
<1>2. CASE ~Ran(p)
  BY <1>2 DEF Moved, Opened, Checked, Noted, GaveUp, Ended, Stopped, Passed, Created, Passive
<1> QED BY <1>1, <1>2

LEMMA MiddleComesFrom ==
  ASSUME TypeOK, Placed, NEW p \in Processes, Moved(p), Middle(p)'
  PROVE  /\ opener'[p].file = opener[p].file /\ opener[p].file \in 1 .. 2
         /\ opener[p].file <= opener[p].known /\ opener'[p].known = opener[p].known
         /\ At(p) = "exec" /\ Ran(p) /\ (RanFirst(p) \/ RanSecond(p)) /\ Forward(p)
<1>1. CASE Ran(p)
  <2>1. RanFirst(p) \/ RanSecond(p)
    BY <1>1 DEF Ran, Becomes, Middle, At
  <2>2. Forward(p)
    BY <2>1 DEF RanFirst, RanSecond, Done, Becomes, Middle, At
  <2>3. At(p) = "exec" /\ opener[p].file <= opener[p].known /\ opener[p].file \in 1 .. 2
    BY <1>1, MoreFacts DEF Ran, Placed
  <2> QED BY <1>1, <2>1, <2>2, <2>3 DEF Forward, Becomes
<1>2. CASE \/ Opened(p) \/ Checked(p) \/ Noted(p) \/ GaveUp(p) \/ Ended(p) \/ Stopped(p)
            \/ Passed(p) \/ Created(p)
  BY <1>2, MoreFacts
  DEF Opened, Checked, Noted, GaveUp, Ended, Stopped, Passed, Created, Becomes, Middle, At, Placed
<1> QED BY <1>1, <1>2 DEF Moved

LEMMA SoleStep ==
  TypeOK /\ Placed /\ Newest /\ Traced /\ Sole /\ [Next]_vars => Sole'
<1> SUFFICES ASSUME TypeOK, Placed, Newest, Traced, Sole, [Next]_vars PROVE Sole'
  OBVIOUS
<1>1. CASE UNCHANGED svars
  BY <1>1 DEF Sole, Middle, At, svars
<1>2. ASSUME NEW p \in Processes, Alone(p), Moved(p), ~mixed', NEW m \in Processes, Middle(m)'
      PROVE  /\ opener'[m].file \notin db'.applied
             /\ \A q \in Processes \ {m} : Away(m, q)'
  <2>1. ~mixed /\ (Ran(p) => \A q \in Processes \ {p} : At(q) \in {"closed", "failed"})
    BY <1>2, MixedStays
  <2>2. CASE m = p
    <3>1. /\ opener'[p].file = opener[p].file /\ opener[p].file \in 1 .. 2
          /\ At(p) = "exec" /\ Ran(p) /\ (RanFirst(p) \/ RanSecond(p))
      BY <1>2, <2>2, MiddleComesFrom
    <3>2. db'.applied = db.applied
      BY <3>1 DEF RanFirst, RanSecond, Tables
    <3>3. opener[p].file \notin db.applied
      <4>1. CASE opener[p].line = 1
        <5>1. ~Trace(opener[p].file)
          <6>1. CASE RanFirst(p)
            <7>1. opener[p].file = 1 /\ db.shape = "old"
              BY <4>1, <6>1 DEF RanFirst
            <7> QED BY <7>1 DEF Trace
          <6>2. CASE RanSecond(p)
            <7>1. opener[p].file = 2 /\ "available" \notin db.hosts
              BY <4>1, <6>2 DEF RanSecond
            <7> QED BY <7>1 DEF Trace
          <6> QED BY <3>1, <6>1, <6>2
        <5> QED BY <3>1, <5>1 DEF Traced
      <4>2. CASE opener[p].line # 1
        BY <2>1, <3>1, <4>2, MoreFacts DEF Sole, Middle
      <4> QED BY <4>1, <4>2
    <3>4. \A q \in Processes \ {p} : At(q)' \in {"closed", "failed"}
      BY <1>2, <2>1, <3>1 DEF Alone, At
    <3> QED BY <2>2, <3>1, <3>2, <3>3, <3>4 DEF Away
  <2>3. CASE m # p
    <3>1. opener'[m] = opener[m] /\ Middle(m)
      BY <1>2, <2>3 DEF Alone, Middle, At
    <3>2. opener[m].file \notin db.applied /\ \A q \in Processes \ {m} : Away(m, q)
      BY <2>1, <3>1 DEF Sole, Away
    <3>3. opener[m].file \in 1 .. 2 /\ opener[m].file <= opener[m].known
      BY <3>1, MoreFacts DEF Placed, Middle
    <3>4. ~Ran(p)
      BY <2>1, <2>3, <3>1 DEF Middle
    <3>5. At(p) \notin {"record", "skip", "open"}
      BY <2>3, <3>2 DEF Away
    <3>6. Opened(p) \/ Checked(p) \/ Ended(p) \/ Stopped(p)
      BY <1>2, <3>4, <3>5 DEF Moved, Noted, GaveUp, Passed, Created
    <3>7. db' = db
      BY <3>6 DEF Opened, Checked, Ended, Stopped, Passive
    <3>8. Away(m, p)'
      <4>1. CASE Opened(p)
        <5>1. opener[m].known <= exe
          BY <4>1 DEF Opened, Newest
        <5> QED BY <3>1, <3>3, <4>1, <5>1, MoreFacts DEF Opened, Away, At, TypeOK, Binaries
      <4>2. CASE Checked(p)
        BY <2>3, <3>1, <3>2, <3>3, <4>2, MoreFacts DEF Checked, Becomes, Away, At, Placed
      <4>3. CASE Ended(p)
        BY <4>3 DEF Ended, Away, At
      <4>4. CASE Stopped(p)
        BY <4>4 DEF Stopped, Becomes, Away, At
      <4> QED BY <3>6, <4>1, <4>2, <4>3, <4>4
    <3>9. \A q \in Processes \ {m, p} : Away(m, q)'
      BY <1>2, <3>1, <3>2 DEF Alone, Away, At
    <3> QED BY <3>1, <3>2, <3>7, <3>8, <3>9
  <2> QED BY <2>2, <2>3
<1>3. ASSUME NEW p \in Processes, Alone(p), Moved(p) PROVE Sole'
  BY <1>2, <1>3 DEF Sole, Away
<1> QED BY <1>1, <1>3, StoreSteps
-----------------------------------------------------------------------------
(* What becomes of the rows.                                                 *)

LEMMA CopiedStep == TypeOK /\ Placed /\ Sole /\ Copied /\ [Next]_vars => Copied'
<1> SUFFICES ASSUME TypeOK, Placed, Sole, Copied, [Next]_vars PROVE Copied'
  OBVIOUS
<1>1. CASE UNCHANGED svars
  BY <1>1 DEF Copied, At, svars
<1>2. ASSUME NEW p \in Processes, Alone(p), Moved(p), ~mixed', NEW m \in Processes,
             At(m)' = "exec", opener'[m].file = 1, opener'[m].line = 4
      PROVE  db'.sessions \subseteq db'.copy
  <2>1. ~mixed /\ (Ran(p) => \A q \in Processes \ {p} : At(q) \in {"closed", "failed"})
    BY <1>2, MixedStays
  <2>2. Middle(m)'
    BY <1>2 DEF Middle
  <2>3. CASE m = p
    <3>1. /\ opener'[p].line = opener[p].line + 1 /\ opener[p].file = 1
          /\ RanFirst(p) \/ RanSecond(p)
      BY <1>2, <2>2, <2>3, MiddleComesFrom DEF Forward, Becomes
    <3>2. opener[p].line = 3
      BY <1>2, <2>3, <3>1, MoreFacts
    <3>3. db'.copy = db.copy \union db.sessions /\ db'.sessions = db.sessions
      BY <3>1, <3>2 DEF RanFirst, RanSecond, Tables
    <3> QED BY <3>3
  <2>4. CASE m # p
    <3>1. opener'[m] = opener[m] /\ Middle(m) /\ db.sessions \subseteq db.copy
      BY <1>2, <2>1, <2>2, <2>4 DEF Alone, Middle, At, Copied
    <3>2. ~Ran(p) /\ At(p) # "open"
      BY <2>1, <2>4, <3>1 DEF Sole, Middle
    <3> QED
      BY <1>2, <3>1, <3>2, OtherTables
      DEF Moved, Opened, Checked, GaveUp, Ended, Stopped, Passed, Created, Passive
  <2> QED BY <2>3, <2>4
<1>3. ASSUME NEW p \in Processes, Alone(p), Moved(p) PROVE Copied'
  BY <1>2, <1>3 DEF Copied
<1> QED BY <1>1, <1>3, StoreSteps

LEMMA DroppedStep == TypeOK /\ Placed /\ DroppedEmpty /\ [Next]_vars => DroppedEmpty'
<1> SUFFICES ASSUME TypeOK, Placed, DroppedEmpty, [Next]_vars PROVE DroppedEmpty'
  OBVIOUS
<1>1. CASE UNCHANGED svars
  BY <1>1 DEF DroppedEmpty, svars
<1>2. ASSUME NEW p \in Processes, Alone(p), Moved(p) PROVE DroppedEmpty'
  <2>1. CASE Ran(p)
    BY <2>1 DEF Ran, RanFirst, RanSecond, Tables, DroppedEmpty
  <2>2. CASE Created(p)
    BY <2>2, OtherTables DEF Created, DroppedEmpty
  <2>3. CASE ~Ran(p) /\ ~Created(p)
    BY <1>2, <2>3, OtherTables
    DEF Moved, Opened, Checked, GaveUp, Ended, Stopped, Passed, Passive, DroppedEmpty
  <2> QED BY <2>1, <2>2, <2>3
<1> QED BY <1>1, <1>2, StoreSteps

(* Dropped only when they were copied, renamed only when there is no other table. *)
LEMMA RowsStep ==
  TypeOK /\ Placed /\ Copied /\ DroppedEmpty /\ RowsKept /\ [Next]_vars => RowsKept'
<1> SUFFICES ASSUME TypeOK, Placed, Copied, DroppedEmpty, RowsKept, [Next]_vars, ~mixed'
             PROVE  stored' \subseteq db'.sessions \union db'.copy
  BY DEF RowsKept
<1>1. CASE UNCHANGED svars
  BY <1>1 DEF RowsKept, svars
<1>2. ASSUME NEW p \in Processes, Alone(p), Moved(p)
      PROVE  stored' \subseteq db'.sessions \union db'.copy
  <2>1. ~mixed /\ stored \subseteq db.sessions \union db.copy
    BY <1>2, MixedStays DEF RowsKept
  <2>2. CASE RanFirst(p) /\ Ran(p)
    BY <2>1, <2>2 DEF Ran, RanFirst, Tables, Copied, DroppedEmpty
  <2>3. CASE Ran(p) /\ ~RanFirst(p)
    BY <2>1, <2>3 DEF Ran, RanSecond, Tables
  <2>4. CASE Created(p)
    BY <2>1, <2>4, OtherTables
  <2>5. CASE ~Ran(p) /\ ~Created(p)
    BY <1>2, <2>1, <2>5, OtherTables
    DEF Moved, Opened, Checked, Noted, GaveUp, Ended, Stopped, Passed, Passive
  <2> QED BY <2>2, <2>3, <2>4, <2>5
<1> QED BY <1>1, <1>2, StoreSteps
-----------------------------------------------------------------------------
(* What one process makes of the store when no other does.                   *)

(* The statements of a migration that nobody else disturbs are executed in order. *)
LEMMA Undisturbed ==
  ASSUME TypeOK, Placed, Traced, Sole, Orderly, NEW p \in Processes, Alone(p), Ran(p),
         ~mixed', ~torn'
  PROVE  Orderly'
<1>1. ~mixed /\ ~torn /\ At(p) = "exec"
  BY MixedStays DEF Ran, Moved
<1>2. ASSUME NEW q \in Processes \ {p}
      PROVE  /\ opener'[q] = opener[q] /\ ~Middle(q) /\ ~Middle(q)'
             /\ At(q)' \notin {"record", "skip"}
  BY <1>2, MixedStays DEF Ran, Moved, Alone, Middle, At
<1>3. /\ opener'[p].file = opener[p].file /\ opener[p].file \in {1, 2}
      /\ opener[p].line \in 1 .. (IF opener[p].file = 1 THEN 5 ELSE 3)
  BY <1>1, StatementIs DEF Ran, RanFirst, RanSecond, Forward, Done, Becomes
<1>4. /\ opener[p].line > 1 <=> Middle(p)
      /\ opener[p].line = 1 => Nobody(1) /\ Nobody(2)
      /\ opener[p].file = 1 => Nobody(2) /\ Nobody(2)'
      /\ opener[p].file = 2 => Nobody(1) /\ Nobody(1)'
  BY <1>1, <1>2, <1>3 DEF Nobody, Middle
<1>5. /\ ~Nobody(1)' => Middle(p)' /\ opener[p].file = 1
      /\ ~Nobody(2)' => Middle(p)' /\ opener[p].file = 2
      /\ Middle(p)' /\ opener[p].file = 1 => ~Nobody(1)'
      /\ Middle(p)' /\ opener[p].file = 2 => ~Nobody(2)'
  BY <1>2, <1>3 DEF Nobody
<1>6. /\ opener[p].line > 1 /\ opener[p].file = 1 => Rebuild(opener[p].line)
      /\ opener[p].line > 1 /\ opener[p].file = 2 => Extend(opener[p].line)
      /\ Nobody(1) => db.shape \in {"old", "new"} /\ ~db.made /\ db.copy = {}
      /\ Nobody(2) => db.hosts \in {{}, All}
      /\ 1 \in db.applied => db.shape = "new"
      /\ 2 \in db.applied => db.hosts = All
  BY <1>1, <1>4 DEF Orderly
<1>7. ~Broken(p)
  <2>1. CASE opener[p].line = 1
    BY <1>4, <1>6, <2>1 DEF Broken
  <2>2. CASE opener[p].line > 1 /\ opener[p].file = 1
    BY <1>3, <1>6, <2>2 DEF Broken, Rebuild
  <2> QED BY <1>3, <2>1, <2>2 DEF Broken
<1>8. opener[p].line > 1 => opener[p].file \notin db.applied
  BY <1>1, <1>4 DEF Sole
<1>9. DEFINE First  == db.shape \in {"old", "new"} /\ ~db.made /\ db.copy = {}
             Second == db.hosts \in {{}, All}
<1>10. SUFFICES
         /\ Middle(p)' /\ opener[p].file = 1 => Rebuild(opener[p].line)'
         /\ Middle(p)' /\ opener[p].file = 2 => Extend(opener[p].line)'
         /\ Nobody(1)' => First'
         /\ Nobody(2)' => Second'
         /\ At(p)' \in {"record", "skip"} /\ opener[p].file = 1 => db'.shape = "new"
         /\ At(p)' \in {"record", "skip"} /\ opener[p].file = 2 => db'.hosts = All
         /\ 1 \in db'.applied => db'.shape = "new"
         /\ 2 \in db'.applied => db'.hosts = All
  <2>1. opener[p].file > 1 => db'.shape = "new"
    <3>1. At(p) \notin {"closed", "failed"}
      BY <1>1
    <3>2. opener[p].file > 1 => db.shape = "new"
      BY <1>1, <3>1 DEF Orderly
    <3>3. opener[p].file > 1 => ~RanFirst(p)
      <4>1. RanFirst(p) => opener[p].file = 1
        BY DEF RanFirst
      <4> QED BY <4>1
    <3> QED BY <3>2, <3>3 DEF Ran, RanSecond, Tables
  <2>2. \A q \in Processes \ {p} : At(q)' \in {"closed", "failed"}
    BY MixedStays DEF Ran, Moved, Alone, At
  <2> QED BY <1>2, <1>3, <2>1, <2>2 DEF Orderly
<1>11. CASE /\ Becomes(p, "skip", opener[p].file, opener[p].line) /\ db' = db /\ Repeated(p)
  <2>1. opener[p].line = 1
    <3>1. CASE opener[p].file = 1
      BY <1>3, <1>6, <1>11, <3>1 DEF Repeated, Rebuild
    <3>2. CASE opener[p].file = 2
      BY <1>3, <1>6, <1>11, <3>2 DEF Repeated, Extend
    <3> QED BY <1>3, <3>1, <3>2
  <2>2. ~Middle(p)' /\ First /\ Second
    BY <1>4, <1>6, <1>11, <2>1 DEF Becomes, Middle, At
  <2>3. /\ opener[p].file = 1 => db.shape = "new"
        /\ opener[p].file = 2 => db.hosts = All
    BY <1>11, <2>1, <2>2 DEF Repeated
  <2> QED BY <1>6, <1>11, <2>2, <2>3
<1>12. CASE RanFirst(p)
  <2> opener[p].file = 1 /\ db'.hosts = db.hosts /\ db'.applied = db.applied
    BY <1>12 DEF RanFirst, Tables
  <2>1. Second'
    BY <1>4, <1>6
  <2>2. CASE opener[p].line = 1
    <3>1. Forward(p) /\ Tables("typed", db.sessions, db.made, db.copy, db.hosts) /\ db.shape = "old"
      BY <1>12, <2>2 DEF RanFirst
    <3>2. 1 \notin db.applied
      BY <1>6, <3>1
    <3>3. Middle(p)' /\ At(p)' = "exec" /\ opener'[p].line = 2
      BY <2>2, <3>1 DEF Forward, Becomes, Middle, At
    <3>4. Rebuild(2)'
      BY <1>4, <1>6, <2>2, <3>1 DEF Rebuild, Tables
    <3> QED BY <1>5, <1>6, <2>1, <3>2, <3>3, <3>4
  <2>3. CASE opener[p].line \in {2, 3, 4}
    <3>1. Forward(p)
      <4>1. CASE opener[p].line = 2
        BY <1>12, <4>1 DEF RanFirst
      <4>2. CASE opener[p].line = 3
        BY <1>12, <4>2 DEF RanFirst
      <4>3. CASE opener[p].line = 4
        BY <1>12, <4>3 DEF RanFirst
      <4> QED BY <2>3, <4>1, <4>2, <4>3
    <3>0. 1 \notin db.applied /\ Rebuild(opener[p].line)
      BY <1>6, <1>8, <2>3
    <3>2. Middle(p)' /\ At(p)' = "exec" /\ opener'[p].line = opener[p].line + 1
      BY <2>3, <3>1 DEF Forward, Becomes, Middle, At
    <3>3. Rebuild(opener[p].line)'
      <4>1. CASE opener[p].line = 2
        BY <1>12, <3>0, <3>2, <4>1 DEF RanFirst, Rebuild, Tables
      <4>2. CASE opener[p].line = 3
        BY <1>12, <3>0, <3>2, <4>2 DEF RanFirst, Rebuild, Tables
      <4>3. CASE opener[p].line = 4
        BY <1>12, <3>0, <3>2, <4>3 DEF RanFirst, Rebuild, Tables
      <4> QED BY <2>3, <4>1, <4>2, <4>3
    <3> QED BY <1>5, <1>6, <2>1, <3>0, <3>2, <3>3
  <2>4. CASE opener[p].line = 5
    <3>1. Done(p) /\ db'.shape = "new" /\ ~db'.made /\ db'.copy = {}
      BY <1>12, <2>4 DEF RanFirst, Tables
    <3>2. ~Middle(p)'
      BY <3>1 DEF Done, Becomes, Middle, At
    <3> QED BY <1>6, <2>1, <3>1, <3>2
  <2> QED BY <1>3, <2>2, <2>3, <2>4
<1>13. CASE RanSecond(p)
  <2> /\ opener[p].file = 2 /\ db'.shape = db.shape /\ db'.made = db.made /\ db'.copy = db.copy
      /\ db'.applied = db.applied
    BY <1>13 DEF RanSecond, Tables
  <2>1. First'
    BY <1>4, <1>6
  <2>2. CASE opener[p].line = 1
    <3>1. Forward(p) /\ db'.hosts = db.hosts \union {"available"} /\ "available" \notin db.hosts
      BY <1>13, <2>2 DEF RanSecond, Tables
    <3>2. db.hosts = {} /\ 2 \notin db.applied
      BY <1>4, <1>6, <2>2, <3>1 DEF All
    <3>3. Middle(p)' /\ At(p)' = "exec" /\ opener'[p].line = 2
      BY <2>2, <3>1 DEF Forward, Becomes, Middle, At
    <3>4. Extend(2)'
      BY <3>1, <3>2 DEF Extend
    <3> QED BY <1>5, <1>6, <2>1, <3>2, <3>3, <3>4
  <2>3. CASE opener[p].line = 2
    <3>1. Forward(p) /\ db'.hosts = db.hosts \union {"latest"} /\ 2 \notin db.applied
      BY <1>8, <1>13, <2>3 DEF RanSecond, Tables
    <3>2. Middle(p)' /\ At(p)' = "exec" /\ opener'[p].line = 3
      BY <2>3, <3>1 DEF Forward, Becomes, Middle, At
    <3>3. Extend(3)'
      BY <1>6, <2>3, <3>1 DEF Extend
    <3> QED BY <1>5, <1>6, <2>1, <3>1, <3>2, <3>3
  <2>4. CASE opener[p].line = 3
    <3>1. Done(p) /\ db'.hosts = db.hosts \union {"url"}
      BY <1>13, <2>4 DEF RanSecond, Tables
    <3>2. ~Middle(p)'
      BY <3>1 DEF Done, Becomes, Middle, At
    <3>3. db'.hosts = All
      BY <1>6, <2>4, <3>1 DEF Extend, All
    <3> QED BY <1>6, <2>1, <3>2, <3>3
  <2> QED BY <1>3, <2>2, <2>3, <2>4
<1> QED BY <1>7, <1>11, <1>12, <1>13 DEF Ran

LEMMA OrderlyStep ==
  TypeOK /\ Placed /\ Traced /\ Sole /\ Orderly /\ [Next]_vars => Orderly'
<1> SUFFICES ASSUME TypeOK, Placed, Traced, Sole, Orderly, [Next]_vars, ~mixed', ~torn'
             PROVE  Orderly'
  BY DEF Orderly
<1>1. CASE UNCHANGED svars
  BY <1>1 DEF Orderly, Nobody, Rebuild, Extend, Middle, At, svars
<1>2. ASSUME NEW p \in Processes, Alone(p), Moved(p), ~Ran(p) PROVE Orderly'
  <2>1. ~mixed /\ ~torn
    <3>1. CASE Ended(p) \/ Stopped(p)
      BY <1>2, <3>1, MixedStays DEF Ended, Stopped
    <3>2. CASE ~Ended(p) /\ ~Stopped(p)
      BY <1>2, <3>2, MixedStays DEF Moved, Opened, Checked, Noted, GaveUp, Passed, Created, Passive
    <3> QED BY <3>1, <3>2
  <2>2. /\ db'.shape = db.shape /\ db'.made = db.made /\ db'.copy = db.copy
        /\ db'.hosts = db.hosts
    BY <1>2, OtherTables DEF Moved, Opened, Checked, GaveUp, Ended, Stopped, Passed, Passive
  <2>3. ~Middle(p) /\ ~Middle(p)' /\ At(p)' \notin {"record", "skip"}
    <3>1. CASE Opened(p) \/ Checked(p) \/ Noted(p) \/ GaveUp(p) \/ Passed(p) \/ Created(p)
      BY <3>1, MoreFacts
      DEF Opened, Checked, Noted, GaveUp, Passed, Created, Becomes, Middle, At, Placed
    <3>2. CASE Ended(p) \/ Stopped(p)
      BY <3>2, <1>2 DEF Ended, Stopped, Becomes, Middle, At
    <3> QED BY <1>2, <3>1, <3>2 DEF Moved
  <2>4. \A q \in Processes : Middle(q)' <=> Middle(q) /\ opener'[q] = opener[q]
    BY <1>2, <2>3 DEF Alone, Middle, At
  <2>5. Nobody(1)' => Nobody(1)
    BY <1>2, <2>3, <2>4 DEF Nobody, Alone
  <2>6. Nobody(2)' => Nobody(2)
    BY <1>2, <2>3, <2>4 DEF Nobody, Alone
  <2>7. \A k \in 1 .. 2 : k \in db'.applied => k \in db.applied \/ (Noted(p) /\ k = opener[p].file)
    BY <1>2, OtherTables DEF Moved, Opened, Checked, GaveUp, Ended, Stopped, Passed, Passive
  <2>8. /\ 1 \in db'.applied => db.shape = "new"
        /\ 2 \in db'.applied => db.hosts = All
    BY <2>1, <2>7 DEF Orderly, Noted
  <2>9. ASSUME NEW q \in Processes
        PROVE  /\ Middle(q)' /\ opener'[q].file = 1 => Rebuild(opener[q].line)'
               /\ Middle(q)' /\ opener'[q].file = 2 => Extend(opener[q].line)'
               /\ At(q)' \in {"record", "skip"} => /\ opener'[q].file = 1 => db'.shape = "new"
                                                   /\ opener'[q].file = 2 => db'.hosts = All
    <3>1. CASE q = p
      BY <2>3, <3>1
    <3>2. CASE q # p
      <4>1. opener'[q] = opener[q]
        BY <1>2, <3>2 DEF Alone
      <4>2. /\ Middle(q) /\ opener[q].file = 1 => Rebuild(opener[q].line)
            /\ Middle(q) /\ opener[q].file = 2 => Extend(opener[q].line)
            /\ At(q) \in {"record", "skip"} => /\ opener[q].file = 1 => db.shape = "new"
                                               /\ opener[q].file = 2 => db.hosts = All
        BY <2>1 DEF Orderly
      <4> QED BY <2>2, <2>4, <4>1, <4>2 DEF Rebuild, Extend, At
    <3> QED BY <3>1, <3>2
  <2>11. ASSUME NEW q \in Processes, At(q)' \notin {"closed", "failed"}
         PROVE  /\ opener'[q].file > 1 => db.shape = "new"
                /\ opener'[q].file > 2 => db.hosts = All
    <3>1. CASE q # p
      BY <1>2, <2>1, <2>11, <3>1 DEF Alone, Orderly, At
    <3>2. CASE q = p
      <4>1. CASE Noted(p) \/ Passed(p)
        <5>1. opener'[p].file = opener[p].file + 1 /\ At(p) \in {"record", "skip"}
          BY <4>1 DEF Noted, Passed, Becomes
        <5> QED BY <2>1, <3>2, <5>1, MoreFacts DEF Orderly
      <4>2. CASE Checked(p)
        BY <2>1, <3>2, <4>2, MoreFacts DEF Checked, Becomes, Orderly
      <4>3. CASE Opened(p) \/ GaveUp(p) \/ Ended(p) \/ Stopped(p)
        BY <2>11, <3>2, <4>3 DEF Opened, GaveUp, Ended, Stopped, Becomes, At
      <4>4. CASE Created(p)
        BY <2>1, <3>2, <4>4 DEF Created, Orderly
      <4> QED BY <1>2, <4>1, <4>2, <4>3, <4>4 DEF Moved
    <3> QED BY <3>1, <3>2
  <2>10. /\ Nobody(1) => db.shape \in {"old", "new"} /\ ~db.made /\ db.copy = {}
         /\ Nobody(2) => db.hosts \in {{}, All}
    BY <2>1 DEF Orderly
  <2> QED BY <2>2, <2>5, <2>6, <2>8, <2>9, <2>10, <2>11 DEF Orderly
<1> QED BY <1>1, <1>2, Undisturbed, StoreSteps
-----------------------------------------------------------------------------
LEMMA InitIInv == Init => IInv
<1> SUFFICES ASSUME Init PROVE IInv
  OBVIOUS
<1>1. /\ \A p \in Processes : /\ At(p) = "closed" /\ opener[p].known = 0 /\ opener[p].file = 1
                             /\ opener[p].line = 1
      /\ opener \in [Processes -> Store!Opener]
  BY OpenerSet DEF Init, Store!Init, Store!Closed, At
<1>2. /\ db.shape = "old" /\ db.sessions = {} /\ ~db.made /\ db.copy = {} /\ db.hosts = {}
      /\ db.tasks = {} /\ db.applied = {} /\ db \in Store!Database
      /\ stored = {} /\ torn = FALSE /\ mixed = FALSE
  BY DEF Init, Store!Init, Store!Database
<1>3. StoreTyped
  BY <1>1, <1>2 DEF StoreTyped
<1>4. CertTyped /\ Watched
  <2>1. Rotator!Off \in Rotator!Rotator
    BY DEF Rotator!Off, Rotator!Rotator
  <2>2. cert = 1 /\ key = 1 /\ cert \in Rotator!Generations /\ key \in {cert, cert - 1} \ {0}
    BY ProcessAssumption DEF Init, Rotator!Init, Rotator!Generations
  <2>3. /\ rotator.at = "off" /\ rotator.read = 0
        /\ rotator.pair = Rotator!Nothing /\ rotator.noted = Rotator!Nothing
    BY DEF Init, Rotator!Init, Rotator!Off
  <2>4. Watched
    BY <2>2, <2>3 DEF Watched, Rotator!Nothing
  <2> QED BY <2>1, <2>2, <2>4 DEF Init, Rotator!Init, CertTyped
<1>5. ExeTyped
  BY ProcessAssumption DEF Init, ExeTyped, Binaries
<1>6. Placed /\ Newest
  BY <1>1, <1>5, ProcessAssumption DEF Init, Placed, Newest, ExeTyped, Binaries
<1>7. Traced /\ Sole /\ Copied
  BY <1>1, <1>2 DEF Traced, Sole, Copied, Begun, Middle
<1>8. DroppedEmpty /\ RowsKept
  BY <1>2 DEF DroppedEmpty, RowsKept
<1>9. Orderly
  BY <1>1, <1>2 DEF Orderly, Middle
<1> QED BY <1>3, <1>4, <1>5, <1>6, <1>7, <1>8, <1>9, Parts DEF IInv

LEMMA NextIInv == IInv /\ [Next]_vars => IInv'
<1> SUFFICES ASSUME IInv, [Next]_vars PROVE IInv'
  OBVIOUS
<1>1. TypeOK /\ CertTyped /\ ExeTyped
  BY Parts DEF IInv
<1>2. TypeOK' /\ Watched'
  <2>1. StoreTyped'
    BY StoreTypeStep DEF IInv
  <2>2. CertTyped' /\ Watched'
    BY <1>1, CertStep, WatchedStep DEF IInv
  <2>3. ExeTyped'
    BY <1>1, ExeStep
  <2> QED BY <2>1, <2>2, <2>3, PartsNext
<1>3. Placed' /\ Newest' /\ Traced'
  BY PlacedStep, NewestStep, TracedStep DEF IInv
<1>4. Sole' /\ Copied' /\ DroppedEmpty' /\ RowsKept'
  BY SoleStep, CopiedStep, DroppedStep, RowsStep DEF IInv
<1>5. Orderly'
  BY OrderlyStep DEF IInv
<1> QED BY <1>2, <1>3, <1>4, <1>5 DEF IInv

LEMMA Invariance == Spec => []IInv
  BY InitIInv, NextIInv, PTL DEF Spec

(* All values stay what they are declared to be; a task keeps its session, and what is *)
(* in a table of sessions was created (store.go, 006_add_session_type.sql). *)
THEOREM TypeCorrect == Spec => []TypeOK
<1>1. IInv => TypeOK
  BY DEF IInv
<1> QED BY <1>1, Invariance, PTL

(* A process that has opened the store finds the tables and columns its binary needs, *)
(* unless a migration was cut short or two processes mixed (migrate). *)
THEOREM Migrated == Spec => []OpenIsMigrated
<1>1. IInv => OpenIsMigrated
  <2> SUFFICES ASSUME IInv, NEW p \in Processes, At(p) = "open", ~torn, ~mixed
               PROVE  /\ opener[p].known >= 1 => db.shape = "new"
                      /\ opener[p].known >= 2 => db.hosts = {"available", "latest", "url"}
    BY DEF OpenIsMigrated
  <2>1. /\ opener[p].file > opener[p].known
        /\ opener[p].known \in 0 .. 2 /\ opener[p].file \in 1 .. 3
    BY MoreFacts DEF IInv, Placed
  <2>2. /\ opener[p].known >= 1 => opener[p].file > 1
        /\ opener[p].known >= 2 => opener[p].file > 2
    BY <2>1
  <2> QED BY <2>2 DEF IInv, Orderly, All
<1> QED BY <1>1, Invariance, PTL

(* Wherever the rebuild of the table is cut short, every session that was acknowledged is *)
(* in one of its two tables, unless two processes had the store open while one executed *)
(* a migration (006_add_session_type.sql). *)
THEOREM SessionsKept == Spec => []RowsKept
<1>1. IInv => RowsKept
  BY DEF IInv
<1> QED BY <1>1, Invariance, PTL

(* However renewals fall between the looks at the times, the reads of the two files and *)
(* the notes, the monitor does not come to rest while it shows anything but the files on *)
(* disk, unless the first look at the times overlooked a renewal (monitor). *)
THEOREM RenewalsNoticed == Spec => []NothingMissed
<1>1. IInv => NothingMissed
  <2> SUFFICES ASSUME IInv, rotator.at = "watching", rotator.last = Rotator!OnDisk, ~overlooked
               PROVE  rotator.pair = Rotator!OnDisk
    BY DEF NothingMissed
  <2>1. /\ rotator.last.cert <= rotator.pair.cert /\ rotator.last.key <= rotator.pair.key
        /\ rotator.pair.cert <= cert /\ rotator.pair.key <= key
        /\ CertTyped
    BY Parts DEF IInv, Watched
  <2>2. rotator.last.cert = cert /\ rotator.last.key = key
    BY DEF Rotator!OnDisk
  <2>3. /\ rotator.pair \in Rotator!Pair \union {Rotator!Nothing}
        /\ cert \in Nat /\ key \in Nat
    BY <2>1, PairsAre, ProcessAssumption DEF CertTyped, Rotator!Rotator, Rotator!Generations
  <2>4. rotator.pair = [cert |-> rotator.pair.cert, key |-> rotator.pair.key]
        /\ rotator.pair.cert \in Nat /\ rotator.pair.key \in Nat
    BY <2>3, ProcessAssumption DEF Rotator!Pair, Rotator!Nothing, Rotator!Generations
  <2> QED BY <2>1, <2>2, <2>3, <2>4 DEF Rotator!OnDisk
<1> QED BY <1>1, Invariance, PTL
=============================================================================
