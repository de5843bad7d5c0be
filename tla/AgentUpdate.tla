------------------------------ MODULE AgentUpdate ------------------------------
(***************************************************************************)
(* How the agent of one host replaces its own binary (agent main.go,       *)
(* pkg/version, the host handlers that order it) under the supervisor that *)
(* the set-up script or the service commands (agent service.go) installed. *)
(*                                                                         *)
(* Versions are numbered in the order of their release.  The agent knows   *)
(* only their texts, which it compares as strings.  A commanded update or  *)
(* check is a goroutine of its own, and each of its file operations and    *)
(* answers from GitHub is an action.                                       *)
(***************************************************************************)
EXTENDS Naturals, Sequences, FiniteSets

CONSTANTS
  Text,  \* what the versions are called: per version its characters as numbers, the dot 0
  Slots, \* commands under way at a time, one in each
  Depth  \* bound: how often ".backup" is added to the name of the executable

Versions == 1 .. Len(Text)
\* Strings compare at the first character that differs; a prefix is less.
Less(s, t) == \E i \in 1 .. Len(t) :
                /\ \A k \in 1 .. i - 1 : k <= Len(s) /\ s[k] = t[k]
                /\ i > Len(s) \/ s[i] < t[i]
\* Two texts whose numbers have the same numbers of digits: 1.9.2 and 1.8.3, not 1.9.2 and 1.10.
SameShape(s, t) == Len(s) = Len(t) /\ \A i \in 1 .. Len(s) : s[i] = 0 <=> t[i] = 0

\* Versions are semantic ones (compareVersions assumes it), so texts of the same shape compare
\* as their numbers do, which only grow.
ASSUME UpdateAssumption ==
  /\ Text \in Seq(Seq(Nat)) /\ Text # << >> /\ Depth \in Nat \ {0}
  /\ \A v, w \in Versions : v < w /\ SameShape(Text[v], Text[w]) => Less(Text[v], Text[w])

\* What an agent knows of updates; latest = 0: it has not checked yet.
Info     == [latest: Versions \union {0}, available: BOOLEAN]
Unknown  == [latest |-> 0, available |-> FALSE]
\* A command: where it is, from the server's queue on, the version it deals with and,
\* once it has made its backup, the executable it replaces.
Job      == [kind: {"update", "check"}, target: Versions \union {0}, path: 0 .. Depth,
             at: {"idle", "queued", "asked", "answered", "download", "backup", "install",
                  "restore", "remove", "restart"}]
Idle     == [kind |-> "check", target |-> 0, path |-> 0, at |-> "idle"]
\* Binary and backup are swapped by two renames: a job between them.
Swapping == {"install", "restore"}

VARIABLES
  release,  \* the latest release
  files,    \* the version in the executable and in the files named as it is with
            \* ".backup" once, twice, ...; 0 if there is no such file
  process,  \* the version that runs, 0 if none does
  self,     \* what os.Executable says
  follows,  \* does it follow the file (Linux), or keep the name it was started as (macOS)?
  info,     \* agentRuntime.updateInfo
  mail,     \* updateInfoChan: what the checker has sent, Unknown if nothing
  checker,  \* the goroutine that checks at the start and daily, as a job
  job,      \* the commands
  offered,  \* hosts.update_available in the control plane
  unit,     \* who wrote the unit of the supervisor: "script", "command", or "none"
  allowed,  \* may the agent restart its service?
  \* history
  best,     \* the newest version that has been installed
  mishaps   \* what went wrong on the way

updateVars == <<release, files, process, self, follows, info, mail, checker, job, offered, unit,
          allowed, best, mishaps>>
disk == <<files, self, best>>
agent == <<process, info, mail, checker>>
site == <<release, offered, unit, allowed, follows>>

-----------------------------------------------------------------------------
compareVersions(current, latest) == Less(Text[current], Text[latest])

\* Of a released agent: one that was built without a version is never told of updates.
CheckForUpdates(latest) ==
  [latest |-> latest, available |-> compareVersions(process, latest)]

Is(j, kind, at) == process # 0 /\ job[j].kind = kind /\ job[j].at = at
Go(j, at)       == job' = [job EXCEPT ![j].at = at]
Done(j)         == job' = [job EXCEPT ![j] = Idle]
Blame(s)        == mishaps' = mishaps \union s
binary          == files[0]
Learn(i)        == /\ info' = i
                   /\ Blame(IF i.latest < info.latest THEN {"stale"} ELSE {})

\* Where the executable of the process is, and whether a file of that name is it still.
Nobody   == [path |-> 0, linked |-> FALSE]
Moved(a, b) == IF ~self.linked THEN self
               ELSE CASE self.path = a -> [self EXCEPT !.path = b]
                      [] self.path = b -> [self EXCEPT !.linked = FALSE]
                      [] OTHER         -> self
\* A rename and a removal, which fail if there is no such file.
Rename(a, b) ==
  /\ files[a] # 0
  /\ files' = [files EXCEPT ![b] = files[a], ![a] = 0]
  /\ self'  = Moved(a, b)

UpdateInit ==
  /\ release \in Versions
  /\ \E v \in 1 .. release : files = [k \in 0 .. Depth |-> IF k = 0 THEN v ELSE 0]
  /\ self = Nobody /\ follows \in BOOLEAN
  /\ process = 0 /\ info = Unknown /\ mail = Unknown /\ checker = Idle
  /\ job = [j \in Slots |-> Idle]
  /\ offered = FALSE /\ unit = "script" /\ allowed \in BOOLEAN
  /\ best = binary /\ mishaps = {}

Publish ==
  /\ release < Len(Text)
  /\ release' = release + 1
  /\ UNCHANGED <<disk, agent, job, offered, unit, allowed, follows, mishaps>>

-----------------------------------------------------------------------------
(* The process.                                                              *)

\* It has to be given its token: the unit the script writes does that, the one
\* service-install writes does not.
Start ==
  /\ process = 0 /\ binary # 0 /\ unit = "script"
  /\ process' = binary /\ self' = [Nobody EXCEPT !.linked = follows]
  /\ checker' = [Idle EXCEPT !.at = "asked"]
  /\ UNCHANGED <<files, best, info, mail, job, site, mishaps>>

\* Mutant: what the goroutines were doing survives them.
DieWorking ==
  /\ process' = 0 /\ self' = Nobody
  /\ info' = Unknown /\ mail' = Unknown /\ checker' = Idle
  /\ job' = job
  /\ Blame(IF \E j \in Slots : job[j].at \in Swapping THEN {"cut"} ELSE {})

\* Commands still in the server's queue wait for the next process.
Die ==
  /\ process' = 0 /\ self' = Nobody
  /\ info' = Unknown /\ mail' = Unknown /\ checker' = Idle
  /\ job' = [j \in Slots |-> IF job[j].at = "queued" THEN job[j] ELSE Idle]
  /\ Blame(IF \E j \in Slots : job[j].at \in Swapping THEN {"cut"} ELSE {})

Kill == process # 0 /\ Die /\ UNCHANGED <<files, best, site>>

ServiceInstall ==
  /\ unit' = "command"
  /\ UNCHANGED <<release, disk, agent, job, offered, allowed, follows, mishaps>>

\* Disabling the unit stops the process.
ServiceUninstall ==
  /\ Die
  /\ unit' = "none"
  /\ UNCHANGED <<release, files, best, offered, allowed, follows>>

\* A heartbeat only ever turns the offer on.
Heartbeat ==
  /\ info.available
  /\ offered' = TRUE
  /\ UNCHANGED <<release, disk, agent, job, unit, allowed, follows, mishaps>>

-----------------------------------------------------------------------------
(* Checking, in the background.                                              *)

TimeToCheck ==
  /\ process # 0 /\ checker = Idle
  /\ checker' = [Idle EXCEPT !.at = "asked"]
  /\ UNCHANGED <<disk, process, info, mail, job, site, mishaps>>

CheckAnswered ==
  /\ checker.at = "asked"
  /\ checker' \in {[checker EXCEPT !.at = "answered", !.target = release], Idle}
  /\ UNCHANGED <<disk, process, info, mail, job, site, mishaps>>

\* A full channel keeps what it has.
SendInfo ==
  /\ checker.at = "answered"
  /\ mail' = IF mail = Unknown THEN CheckForUpdates(checker.target) ELSE mail
  /\ checker' = Idle
  /\ UNCHANGED <<disk, process, info, job, site, mishaps>>

ReceiveInfo ==
  /\ mail # Unknown
  /\ Learn(mail)
  /\ mail' = Unknown
  /\ UNCHANGED <<disk, process, checker, job, site>>

-----------------------------------------------------------------------------
(* Checking, on command.                                                     *)

OrderCheck(j) ==
  /\ job[j].at = "idle"
  /\ job' = [job EXCEPT ![j].at = "queued"]
  /\ UNCHANGED <<disk, agent, site, mishaps>>

StartCheck(j) ==
  /\ Is(j, "check", "queued")
  /\ Go(j, "asked")
  /\ UNCHANGED <<disk, agent, site, mishaps>>

FetchLatest(j) ==
  /\ Is(j, "check", "asked")
  /\ \/ job' = [job EXCEPT ![j].at = "answered", ![j].target = release]
     \/ Done(j)
  /\ UNCHANGED <<disk, agent, site, mishaps>>

SetUpdateInfo(j) ==
  /\ Is(j, "check", "answered")
  /\ Learn(CheckForUpdates(job[j].target))
  /\ Done(j)
  /\ UNCHANGED <<disk, process, mail, checker, site>>

-----------------------------------------------------------------------------
(* Updating.                                                                 *)

OrderUpdate(j) ==
  /\ offered /\ job[j].at = "idle"
  /\ job' = [job EXCEPT ![j] = [Idle EXCEPT !.kind = "update", !.at = "queued"]]
  /\ UNCHANGED <<disk, agent, site, mishaps>>

Updating(j) == job[j].kind = "update" /\ job[j].at \notin {"idle", "queued"}

\* Mutant: the server's offer is enough.
StartUpdateUnchecked(j) ==
  /\ Is(j, "update", "queued")
  /\ IF info.latest = 0
       THEN Done(j) /\ UNCHANGED mishaps
       ELSE /\ job' = [job EXCEPT ![j].at = "download", ![j].target = info.latest]
            /\ Blame(IF \E k \in Slots : Updating(k) THEN {"overlap"} ELSE {})
  /\ UNCHANGED <<disk, agent, site>>

StartUpdate(j) ==
  /\ Is(j, "update", "queued")
  /\ IF ~info.available
       THEN Done(j) /\ UNCHANGED mishaps
       ELSE /\ job' = [job EXCEPT ![j].at = "download", ![j].target = info.latest]
            /\ Blame(IF \E k \in Slots : Updating(k) THEN {"overlap"} ELSE {})
  /\ UNCHANGED <<disk, agent, site>>

Download(j) ==
  /\ Is(j, "update", "download")
  /\ Go(j, "backup") \/ Done(j)
  /\ UNCHANGED <<disk, agent, site, mishaps>>

\* The name of the executable is asked for and the file moved.
Crossing(j) == \E k \in Slots \ {j} : job[k].at \in Swapping \union {"remove"}

\* Mutant: the binary is deleted instead of moved.
BackupByDeleting(j) ==
  LET p == self.path IN
  /\ Is(j, "update", "backup")
  /\ \/ /\ p < Depth /\ files[p] # 0
        /\ files' = [files EXCEPT ![p] = 0] /\ self' = [self EXCEPT !.linked = FALSE]
        /\ job' = [job EXCEPT ![j].at = "install", ![j].path = p]
        /\ Blame(IF Crossing(j) THEN {"crossing"} ELSE {})
     \/ Done(j) /\ UNCHANGED <<files, self, mishaps>>
  /\ UNCHANGED <<best, agent, site>>

\* The rename may fail, and does when the file is gone.
Backup(j) ==
  LET p == self.path IN
  /\ Is(j, "update", "backup")
  /\ \/ /\ p < Depth /\ Rename(p, p + 1)
        /\ job' = [job EXCEPT ![j].at = "install", ![j].path = p]
        /\ Blame(IF Crossing(j) THEN {"crossing"} ELSE {})
     \/ Done(j) /\ UNCHANGED <<files, self, mishaps>>
  /\ UNCHANGED <<best, agent, site>>

\* What was downloaded is moved to p.
Replace(p, v) ==
  /\ files' = [files EXCEPT ![p] = v]
  /\ self'  = IF self.path = p THEN [self EXCEPT !.linked = FALSE] ELSE self
  /\ best'  = IF p = 0 /\ best < v THEN v ELSE best

\* The rename fails if the temporary directory is on another file system.
Install(j) ==
  /\ Is(j, "update", "install")
  /\ \/ Replace(job[j].path, job[j].target) /\ Go(j, "remove")
     \/ Go(j, "restore") /\ UNCHANGED disk
  /\ UNCHANGED <<agent, site, mishaps>>

\* The backup is moved back, or "backup restore also failed".
Restore(j) ==
  LET p == job[j].path IN
  /\ Is(j, "update", "restore")
  /\ \/ Rename(p + 1, p) /\ UNCHANGED mishaps
     \/ Blame({"unrestored"}) /\ UNCHANGED <<files, self>>
  /\ Done(j)
  /\ UNCHANGED <<best, agent, site>>

\* Mutant: the backup is moved back.
PutBackBackup(j) ==
  LET p == job[j].path IN
  /\ Is(j, "update", "remove")
  /\ IF files[p + 1] # 0 THEN Rename(p + 1, p) ELSE UNCHANGED <<files, self>>
  /\ Go(j, "restart")
  /\ UNCHANGED <<best, agent, site, mishaps>>

\* The file goes, not its name: a process that runs from it goes on, and looks for it there.
RemoveBackup(j) ==
  LET p == job[j].path + 1 IN
  /\ Is(j, "update", "remove")
  /\ files' = [files EXCEPT ![p] = 0]
  /\ self'  = IF self.path = p THEN [self EXCEPT !.linked = FALSE] ELSE self
  /\ Go(j, "restart")
  /\ UNCHANGED <<best, agent, site, mishaps>>

\* Mutant: the new binary waits for somebody to restart the service.
LeaveRunning(j) ==
  /\ Is(j, "update", "restart")
  /\ Done(j) /\ UNCHANGED <<disk, agent, site, mishaps>>

\* The service manager stops the process, with everything it was doing.
RestartAgentService(j) ==
  /\ Is(j, "update", "restart")
  /\ IF allowed /\ unit # "none" THEN Die ELSE Done(j) /\ UNCHANGED <<self, agent, mishaps>>
  /\ UNCHANGED <<files, best, site>>

-----------------------------------------------------------------------------
Check(j)  == StartCheck(j) \/ FetchLatest(j) \/ SetUpdateInfo(j)
Update(j) == StartUpdate(j) \/ Download(j) \/ Backup(j) \/ Install(j) \/ Restore(j)
               \/ RemoveBackup(j) \/ RestartAgentService(j)
Checker   == CheckAnswered \/ SendInfo
UpdateNext ==
  \/ Publish \/ Start \/ Kill \/ ServiceInstall \/ ServiceUninstall \/ Heartbeat
  \/ TimeToCheck \/ Checker \/ ReceiveInfo
  \/ \E j \in Slots : OrderCheck(j) \/ Check(j) \/ OrderUpdate(j) \/ Update(j)

UpdateSpec == UpdateInit /\ [][UpdateNext]_updateVars
\* The supervisor starts what should run, and goroutines proceed: every call of theirs
\* has a timeout.
UpdateFairSpec == UpdateSpec /\ WF_updateVars(Start) /\ \A j \in Slots : WF_updateVars(Update(j))

-----------------------------------------------------------------------------
UpdateTypeOK ==
  /\ release \in Versions /\ process \in 0 .. release /\ files \in [0 .. Depth -> 0 .. release]
  /\ self \in [path: 0 .. Depth, linked: BOOLEAN] /\ follows \in BOOLEAN
  /\ self.linked => process # 0 /\ files[self.path] = process
  /\ {info, mail} \subseteq Info /\ {checker} \union {job[j] : j \in Slots} \subseteq Job
  /\ {offered, allowed} \subseteq BOOLEAN /\ unit \in {"script", "command", "none"}
  /\ best \in 1 .. release /\ mishaps \subseteq {"cut", "unrestored", "crossing", "overlap", "stale"}
  /\ process = 0 => /\ <<info, mail, checker>> = <<Unknown, Unknown, Idle>>
                    /\ \A j \in Slots : job[j].at \in {"idle", "queued"}

\* The executable is missing only while an update is between its two renames, unless a
\* process died there, the rename back failed, or the backup was taken while another update
\* had one.  Whenever it is missing the backup is there to go on with, unless two updates
\* crossed; after a rename back that failed, an agent that follows its file updates the
\* backup instead, which may then have a backup of its own (handleUpdateAgent).
BinaryKept ==
  binary = 0 =>
    /\ \/ \E j \in Slots : job[j].at \in Swapping
       \/ {"cut", "unrestored", "crossing"} \intersect mishaps # {}
    /\ \/ files[1] # 0
       \/ "unrestored" \in mishaps /\ \E k \in 2 .. Depth : files[k] # 0
       \/ "crossing" \in mishaps

\* The supervisor never starts a version older than one installed before, unless updates
\* overlapped or a check's answer was overtaken by that of a later one (setUpdateInfo).
NoDowngrade ==
  [][process = 0 /\ process' # 0 => process' >= best
                                    \/ {"overlap", "stale"} \intersect mishaps # {}]_updateVars

\* Versions compared as strings lead upwards only: an update under way, asked for because
\* of an offer the server never withdraws, is to a version newer than the one that runs
\* (handleUpdateAgent's own check), and a newer release goes unnoticed only if one of its
\* numbers has more or fewer digits (compareVersions).
OnlyUpwards ==
  /\ \A j \in Slots : Updating(j) => job[j].target > process
  /\ info.latest > process /\ process # 0 /\ SameShape(Text[process], Text[info.latest])
       => info.available

\* Once the update has been installed and may restart the service, the new version comes
\* to run, unless the executable may be missing (a process died between the renames of an
\* update, the rename back failed, two updates crossed) or the unit was replaced
\* (handleUpdateAgent, restartAgentService).
UpdateTakesEffect ==
  allowed /\ (\E j \in Slots : Is(j, "update", "restart"))
    ~> \/ process = binary \/ unit # "script"
       \/ {"cut", "unrestored", "crossing"} \intersect mishaps # {}
=============================================================================
