----------------------------- MODULE ServerProcess -----------------------------
(***************************************************************************)
(* The life of the swoopsd process (cmd/swoopsd/main.go): it opens and      *)
(* migrates the store, loads its certificate, serves, and is stopped or     *)
(* dies; the supervisor starts it again.  Beside it run the commands of the *)
(* same binary: create-user and reset-password, which open the store as     *)
(* well, and --update, which replaces the binary.                           *)
(***************************************************************************)
EXTENDS Naturals, Sequences

CONSTANTS
  Rows,         \* sessions that may be created
  MaxRenewals,  \* how often the certificate is renewed
  MaxKills,     \* how often a process dies or the database refuses a statement
  WritesBusy,   \* can an executable that runs be written?  Linux refuses it
  Torn          \* an executable that is only partly written

Processes == {"server", "command"}
\* A binary is named for the number of migrations it has of those modelled.
Binaries  == 0 .. 2
ASSUME ProcessAssumption ==
  MaxRenewals \in Nat /\ MaxKills \in Nat /\ WritesBusy \in BOOLEAN /\ Torn \notin Nat

VARIABLES
  db, opener, stored, torn, mixed,          \* see Migrations
  cert, key, rotator, serving, overlooked,  \* see CertRotator
  exe,      \* the executable
  updater,  \* swoopsd --update: idle, or writing a binary it could not rename
  kills     \* how many processes have died and statements were refused

Store   == INSTANCE Migrations WITH Openers <- Processes
Rotator == INSTANCE CertRotator

svars == <<db, opener, stored, torn, mixed>>
cvars == <<cert, key, rotator, serving, overlooked>>
xvars == <<exe, updater>>
vars  == <<svars, cvars, xvars, kills>>

Init ==
  /\ Store!Init /\ Rotator!Init
  /\ exe \in Binaries /\ updater = 0 /\ kills = 0

-----------------------------------------------------------------------------
(* The server.                                                               *)

At(p)      == opener[p].at
Failed     == At("server") = "failed" \/ rotator.at = "failed"
Serving    == At("server") = "open" /\ serving

StartServer ==
  /\ exe # Torn
  /\ Store!Open("server", exe)
  /\ UNCHANGED <<cvars, xvars, kills>>

\* The certificate is loaded after the store has been opened.
LoadCertificate ==
  /\ At("server") = "open"
  /\ Rotator!Start \/ Rotator!Load
  /\ UNCHANGED <<svars, xvars, kills>>

Serve == Rotator!Serve /\ UNCHANGED <<svars, xvars, kills>>

\* ListenAndServeTLS finds files that do not match.
ServeFails ==
  /\ rotator.at \in {"loaded", "watching", "noticed", "rereading"} /\ ~serving
  /\ cert # key
  /\ Store!Close("server") /\ Rotator!Stop
  /\ UNCHANGED <<xvars, kills>>

Fatal ==
  /\ Failed
  /\ Store!Close("server") /\ Rotator!Stop
  /\ UNCHANGED <<xvars, kills>>

\* A restart of the service by its operator.
Shutdown ==
  /\ Serving
  /\ Store!Close("server") /\ Rotator!Stop
  /\ UNCHANGED <<xvars, kills>>

Monitor == Rotator!Monitor /\ UNCHANGED <<svars, xvars, kills>>
Request ==
  /\ Serving
  /\ \E r \in Rows : Store!CreateSession("server", r) \/ Store!CreateTask("server", r)
  /\ UNCHANGED <<cvars, xvars, kills>>

-----------------------------------------------------------------------------
(* The commands.                                                             *)

StartCommand ==
  /\ exe # Torn
  /\ Store!Open("command", exe)
  /\ UNCHANGED <<cvars, xvars, kills>>

EndCommand ==
  /\ At("command") \in {"open", "failed"}
  /\ Store!Close("command")
  /\ UNCHANGED <<cvars, xvars, kills>>

\* --update runs the very executable that it replaces.
UpdateByRename(n) ==
  /\ exe # Torn /\ updater = 0 /\ n > exe
  /\ exe' = n
  /\ UNCHANGED <<svars, cvars, updater, kills>>

\* Across file systems it is truncated and written, where that is allowed.
UpdateByCopy(n) ==
  /\ exe # Torn /\ updater = 0 /\ n > exe
  /\ WritesBusy
  /\ exe' = Torn /\ updater' = n
  /\ UNCHANGED <<svars, cvars, kills>>

FinishCopy ==
  /\ updater # 0
  /\ exe' = updater /\ updater' = 0
  /\ UNCHANGED <<svars, cvars, kills>>

Migrate(p) == Store!Migrate(p) /\ UNCHANGED <<cvars, xvars, kills>>
Renew      == Rotator!Renew /\ UNCHANGED <<svars, xvars, kills>>

-----------------------------------------------------------------------------
(* Mishaps.                                                                  *)

StatementRefused(p) ==
  /\ kills < MaxKills /\ kills' = kills + 1
  /\ Store!Refused(p) \/ Store!RecordLost(p)
  /\ UNCHANGED <<cvars, xvars>>

KillServer ==
  /\ kills < MaxKills /\ kills' = kills + 1
  /\ Store!Close("server") /\ Rotator!Stop
  /\ UNCHANGED xvars

KillCommand ==
  /\ kills < MaxKills /\ kills' = kills + 1
  /\ \/ Store!Close("command") /\ UNCHANGED xvars
     \/ updater # 0 /\ updater' = 0 /\ UNCHANGED <<svars, exe>>
  /\ UNCHANGED cvars

Next ==
  \/ StartServer \/ LoadCertificate \/ Serve \/ ServeFails \/ Fatal \/ Shutdown
  \/ Monitor \/ Request \/ Renew \/ StartCommand \/ EndCommand
  \/ \E p \in Processes : Migrate(p) \/ StatementRefused(p)
  \/ \E n \in Binaries : UpdateByRename(n) \/ UpdateByCopy(n)
  \/ FinishCopy \/ KillServer \/ KillCommand

Spec == Init /\ [][Next]_vars
\* The supervisor restarts the server, a process proceeds, and a renewal that has
\* replaced the certificate goes on to the key.
FairSpec ==
  /\ Spec
  /\ WF_vars(StartServer) /\ WF_vars(LoadCertificate) /\ WF_vars(Serve) /\ WF_vars(ServeFails)
  /\ WF_vars(Fatal) /\ WF_vars(Monitor) /\ WF_vars(FinishCopy)
  /\ \A p \in Processes : WF_vars(Migrate(p))
  /\ WF_vars(Rotator!RenewKey /\ UNCHANGED <<svars, xvars, kills>>)

-----------------------------------------------------------------------------
TypeOK ==
  /\ db \in Store!Database /\ opener \in [Processes -> Store!Opener]
  /\ stored \subseteq Rows /\ {torn, mixed, overlooked} \subseteq BOOLEAN
  /\ db.tasks \subseteq db.sessions /\ db.sessions \union db.copy \subseteq stored
  /\ cert \in Rotator!Generations /\ key \in {cert, cert - 1} \ {0}
  /\ rotator \in Rotator!Rotator /\ serving \in BOOLEAN
  /\ exe \in Binaries \union {Torn} /\ updater \in Binaries /\ kills \in 0 .. MaxKills

\* A process that has the store open finds all the tables and columns its binary needs,
\* unless a migration was cut short or shared the store with another process (migrate).
OpenIsMigrated ==
  \A p \in Processes : At(p) = "open" /\ ~torn /\ ~mixed =>
    /\ opener[p].known >= 1 => db.shape = "new"
    /\ opener[p].known >= 2 => db.hosts = {"available", "latest", "url"}

\* No session is lost: wherever a migration is cut short, its row is in one of the two
\* tables, unless another process had the store open (006_add_session_type.sql).
RowsKept == stored \subseteq db.sessions \union db.copy \/ mixed

\* A server that is down comes to serve, unless a death has left a table missing, the
\* executable partly written, or the update was interrupted (main, migrate).
StartsUp ==
  At("server") = "closed" ~> Serving \/ (torn /\ db.shape = "none") \/ exe = Torn

\* No renewal is taken for loaded: while the monitor has noted the times of the files as
\* they are, and so does nothing, what it shows was read from just these files, unless the
\* renewal fell between the first load and the start of the monitor (monitor).
NothingMissed ==
  rotator.at = "watching" /\ rotator.last = Rotator!OnDisk
    => rotator.pair = Rotator!OnDisk \/ overlooked

\* A renewed certificate comes to be shown to the clients that name the server they want,
\* unless the renewal fell between the first load and the start of the monitor (monitor).
RenewalShown ==
  rotator.at = "watching" /\ cert = key
    ~> rotator.pair = Rotator!OnDisk \/ overlooked \/ rotator.at = "off" \/ cert # key
=============================================================================
