------------------------ MODULE SessionLifecycle_proofs ------------------------
(***************************************************************************)
(* Proofs about SessionLifecycle, for any sets of stop and delete requests *)
(* and any number of crashes.                                              *)
(*                                                                         *)
(* The heart is that "pending" is a status nobody writes back once a       *)
(* command has been queued (PendingIsFresh): whoever queues one has        *)
(* written another status first.  So no result of a command ever finds a   *)
(* pending row, and none writes "running".                                 *)
(***************************************************************************)
EXTENDS SessionLifecycle, SequenceTheorems, TLAPS

Pending == row # NoRow /\ row.status = "pending"

\* Before creation there is nothing; a pending row has seen no command.
PendingIsFresh ==
  /\ launch = "none" => row = NoRow /\ \A r \in Requests : request[r] = "idle"
  /\ launch = "none" \/ Pending =>
       /\ commands = <<>>
       /\ \A r \in Requests : request[r] \notin {"order", "ordered", "kill", "killed"}
  /\ Pending => launch \in {"read", "starting", "dead"}

\* Who holds a copy, holds a row; results that write are failures.
CopiesHeld ==
  /\ launch \in {"queue", "ssh", "keys", "running", "fail"} => launchCopy # NoRow
  /\ \A r \in Requests :
       request[r] \in {"stopping", "order", "ordered", "kill", "killed"} => copy[r] # NoRow
  /\ \A i \in DOMAIN commands :
       /\ commands[i].result # "running"
       /\ commands[i].result = "failed" => commands[i].sess # NoRow

Launched ==
  /\ launch = "running" => launched
  /\ row # NoRow /\ row.status = "running" => launched

\* A quiet request has ended the session's activity with its first write.
QuietStops ==
  \A r \in quiet :
    /\ LaunchOver
    /\ request[r] \notin {"idle", "stopping", "dead"} => ~Active(row)

IInv == TypeOK /\ PendingIsFresh /\ CopiesHeld /\ Launched /\ QuietStops
-----------------------------------------------------------------------------
LEMMA InitIInv == Init => IInv
<1> SUFFICES ASSUME Init PROVE IInv
  OBVIOUS
<1>1. commands = <<>> /\ commands \in Seq(Command)
  BY EmptySeq DEF Init
<1>2. TypeOK
  BY <1>1, LifecycleAssumption DEF Init, TypeOK, LaunchStages, RequestStages
<1>3. PendingIsFresh /\ Launched /\ QuietStops
  BY DEF Init, PendingIsFresh, Pending, Launched, QuietStops, LaunchOver
<1>4. CopiesHeld
  BY <1>1 DEF Init, CopiesHeld
<1>. QED BY <1>2, <1>3, <1>4 DEF IInv

(* What UPDATE ... WHERE id = ? leaves, whatever copy the row came from. *)
LEMMA Updated ==
  ASSUME row \in Row \union {NoRow}, NEW sess \in Row, NEW st \in Status,
         UpdateSession([sess EXCEPT !.status = st])
  PROVE  /\ row' \in Row \union {NoRow}
         /\ row' = NoRow <=> row = NoRow
         /\ row' # NoRow => row'.status = st
<1> DEFINE new == [sess EXCEPT !.status = st]
<1>1. new \in Row /\ new.status = st
  BY DEF Row
<1>2. new # NoRow
  BY <1>1, NoRowAssumption
<1>3. row' = IF row = NoRow THEN NoRow ELSE new
  BY DEF UpdateSession
<1> HIDE DEF new
<1>. QED BY <1>1, <1>2, <1>3

LEMMA Queued ==
  ASSUME NEW is \in {"launch", "stop"}, commands \in Seq(Command), QueueCommand(is)
  PROVE  /\ commands' \in Seq(Command)
         /\ Len(commands') = Len(commands) + 1
         /\ \A i \in DOMAIN commands' :
              IF i \in DOMAIN commands THEN commands'[i] = commands[i]
              ELSE commands'[i].result = "waiting"
<1> DEFINE c == [is |-> is, result |-> "waiting", sess |-> NoRow]
<1>1. c \in Command
  BY DEF Command
<1>2. commands' = Append(commands, c)
  BY DEF QueueCommand
<1> HIDE DEF c
<1>3. /\ commands' \in Seq(Command)
      /\ Len(commands') = Len(commands) + 1
      /\ \A i \in 1..Len(commands) : commands'[i] = commands[i]
      /\ commands'[Len(commands) + 1] = c
  BY <1>1, <1>2, AppendProperties
<1>4. c.result = "waiting"
  BY DEF c
<1>. QED BY <1>3, <1>4, LenProperties

(* The entry of a command that a handler reads or writes changes, no other. *)
LEMMA Rewritten ==
  ASSUME commands \in Seq(Command), NEW i \in DOMAIN commands, NEW v \in Command,
         commands' = [commands EXCEPT ![i] = v]
  PROVE  /\ commands' \in Seq(Command)
         /\ DOMAIN commands' = DOMAIN commands
         /\ commands'[i] = v
         /\ \A j \in DOMAIN commands : j # i => commands'[j] = commands[j]
  BY ExceptSeq, LenProperties

LEMMA Nonempty ==
  ASSUME commands \in Seq(Command), NEW i \in DOMAIN commands
  PROVE  commands # <<>>
<1> SUFFICES ASSUME commands = <<>> PROVE FALSE
  OBVIOUS
<1>1. Len(commands) = 0
  BY EmptySeq
<1>2. DOMAIN commands = 1..0
  BY <1>1, LenProperties
<1>. QED BY <1>2

LEMMA ResultReadEffect ==
  ASSUME TypeOK, PendingIsFresh, NEW i \in DOMAIN commands, ResultRead(i)
  PROVE  /\ commands' \in Seq(Command)
         /\ DOMAIN commands' = DOMAIN commands
         /\ commands'[i].result # "running"
         /\ commands'[i].result = "failed" => commands'[i].sess # NoRow
         /\ \A j \in DOMAIN commands : j # i => commands'[j] = commands[j]
<1> DEFINE new(ok) ==
      IF row = NoRow \/ (ok /\ row.status # "pending")
      THEN [commands[i] EXCEPT !.result = "dropped"]
      ELSE [commands[i] EXCEPT !.result = IF ok THEN "running" ELSE "failed", !.sess = row]
<1>1. PICK ok \in BOOLEAN : commands' = [commands EXCEPT ![i] = new(ok)]
  BY DEF ResultRead
<1>2. commands[i] \in Command
  BY ElementOfSeq, LenProperties DEF TypeOK
<1>3. commands # <<>>
  BY Nonempty DEF TypeOK
<1>4. row # NoRow => row.status # "pending"
  BY <1>3 DEF PendingIsFresh, Pending
<1>5. /\ new(ok) \in Command
      /\ new(ok).result # "running"
      /\ new(ok).result = "failed" => new(ok).sess # NoRow
  BY <1>2, <1>4 DEF Command, TypeOK
<1> HIDE DEF new
<1>. QED BY <1>1, <1>5, Rewritten DEF TypeOK

LEMMA ResultWriteEffect ==
  ASSUME TypeOK, CopiesHeld, NEW i \in DOMAIN commands, ResultWrite(i)
  PROVE  /\ commands' \in Seq(Command)
         /\ DOMAIN commands' = DOMAIN commands
         /\ commands'[i].result \in {"shown", "dropped"}
         /\ \A j \in DOMAIN commands : j # i => commands'[j] = commands[j]
         /\ row' \in Row \union {NoRow}
         /\ row' = NoRow <=> row = NoRow
         /\ row' # NoRow => row'.status = "failed"
<1> DEFINE new == [commands[i] EXCEPT !.result = IF @ = "failed" THEN "shown" ELSE "dropped",
                                      !.sess = NoRow]
<1>1. commands' = [commands EXCEPT ![i] = new]
  BY DEF ResultWrite
<1>2. commands[i] \in Command
  BY ElementOfSeq, LenProperties DEF TypeOK
<1>3. new \in Command /\ new.result \in {"shown", "dropped"}
  BY <1>2 DEF Command
<1>4. commands[i].result = "failed" /\ commands[i].sess \in Row
  BY <1>2 DEF ResultWrite, CopiesHeld, Command
<1>5. UpdateSession([commands[i].sess EXCEPT !.status = "failed"])
  BY <1>4 DEF ResultWrite
<1>6. /\ row' \in Row \union {NoRow}
      /\ row' = NoRow <=> row = NoRow
      /\ row' # NoRow => row'.status = "failed"
  BY <1>4, <1>5, Updated DEF TypeOK, Status
<1> HIDE DEF new
<1>. QED BY <1>1, <1>3, <1>6, Rewritten DEF TypeOK

LEMMA CrashEffect ==
  ASSUME TypeOK, Crash
  PROVE  /\ commands' \in Seq(Command)
         /\ DOMAIN commands' = DOMAIN commands
         /\ commands = <<>> => commands' = <<>>
         /\ \A j \in DOMAIN commands :
              commands'[j].result # commands[j].result => commands'[j].result = "dropped"
         /\ \A j \in DOMAIN commands : commands'[j].result # "failed"
<1>1. PICK lost \in SUBSET {i \in DOMAIN commands : commands[i].result = "waiting"} :
        commands' = [i \in DOMAIN commands |->
          IF i \in lost \/ commands[i].result \in {"running", "failed"}
          THEN [commands[i] EXCEPT !.result = "dropped", !.sess = NoRow] ELSE commands[i]]
  BY DEF Crash
<1>2. Len(commands) \in Nat /\ DOMAIN commands = 1..Len(commands)
  BY LenProperties DEF TypeOK
<1>3. \A i \in DOMAIN commands :
        /\ commands'[i] \in Command
        /\ commands'[i].result \in {commands[i].result, "dropped"} \ {"failed"}
  <2> SUFFICES ASSUME NEW i \in DOMAIN commands
               PROVE  /\ commands'[i] \in Command
                      /\ commands'[i].result \in {commands[i].result, "dropped"} \ {"failed"}
    OBVIOUS
  <2>1. commands[i] \in Command
    BY <1>2, ElementOfSeq DEF TypeOK
  <2>. QED BY <1>1, <2>1 DEF Command
<1>4. commands' \in [1..Len(commands) -> Command]
  BY <1>1, <1>2, <1>3
<1>5. commands' \in Seq(Command)
  BY <1>2, <1>4, SeqDef
<1>6. ASSUME commands = <<>> PROVE commands' = <<>>
  BY <1>2, <1>4, <1>5, <1>6, EmptySeq, LenProperties
<1>. QED BY <1>1, <1>3, <1>5, <1>6

(* The invariant is inductive: one step per action, one below it per part. *)
LEMMA StepIInv == IInv /\ [Next]_vars => IInv'
<1> SUFFICES ASSUME IInv, [Next]_vars PROVE IInv'
  OBVIOUS
<1> USE LifecycleAssumption, NoRowAssumption DEF IInv, goroutines, outside
<1>1. ASSUME Create PROVE IInv'
  <2>1. TypeOK'
    BY <1>1 DEF Create, TypeOK, LaunchStages, RequestStages, Row, Status
  <2>2. PendingIsFresh'
    BY <1>1 DEF Create, TypeOK, PendingIsFresh, Pending
  <2>3. CopiesHeld'
    BY <1>1 DEF Create, TypeOK, PendingIsFresh, Pending, CopiesHeld
  <2>4. Launched'
    BY <1>1 DEF Create, PendingIsFresh, CopiesHeld, Launched
  <2>5. QuietStops'
    BY <1>1 DEF Create, TypeOK, PendingIsFresh, CopiesHeld, QuietStops, LaunchOver, Active
  <2>. QED BY <2>1, <2>2, <2>3, <2>4, <2>5 DEF IInv
<1>2. ASSUME LaunchRead PROVE IInv'
  <2>1. TypeOK'
    BY <1>2 DEF LaunchRead, TypeOK, LaunchStages, RequestStages, Row, Status
  <2>2. PendingIsFresh'
    BY <1>2 DEF LaunchRead, TypeOK, PendingIsFresh, Pending
  <2>3. CopiesHeld'
    BY <1>2 DEF LaunchRead, TypeOK, PendingIsFresh, Pending, CopiesHeld
  <2>4. Launched'
    BY <1>2 DEF LaunchRead, PendingIsFresh, CopiesHeld, Launched
  <2>5. QuietStops'
    BY <1>2 DEF LaunchRead, TypeOK, PendingIsFresh, CopiesHeld, QuietStops, LaunchOver, Active
  <2>. QED BY <2>1, <2>2, <2>3, <2>4, <2>5 DEF IInv
<1>3. ASSUME LaunchStarting PROVE IInv'
  <2>1. TypeOK'
    BY <1>3 DEF LaunchStarting, UpdateSession, TypeOK, LaunchStages, RequestStages, Row, Status
  <2>2. PendingIsFresh'
    BY <1>3 DEF LaunchStarting, UpdateSession, TypeOK, PendingIsFresh, Pending
  <2>3. CopiesHeld'
    <3>0. [status |-> "starting", named |-> TRUE] # NoRow
      <4>1. [status |-> "starting", named |-> TRUE] \in Row
        BY DEF Row, Status
      <4>. QED BY <4>1
    <3>1. row # NoRow => row' # NoRow
      BY <1>3, <3>0 DEF LaunchStarting, UpdateSession
    <3>. QED BY <1>3, <3>1 DEF LaunchStarting, CopiesHeld
  <2>4. Launched'
    BY <1>3 DEF LaunchStarting, UpdateSession, PendingIsFresh, CopiesHeld, Launched
  <2>5. QuietStops'
    BY <1>3 DEF LaunchStarting, UpdateSession, TypeOK, PendingIsFresh, CopiesHeld, QuietStops, LaunchOver, Active
  <2>. QED BY <2>1, <2>2, <2>3, <2>4, <2>5 DEF IInv
<1>4. ASSUME LaunchQueue PROVE IInv'
  <2>1. /\ commands' \in Seq(Command)
        /\ \A i \in DOMAIN commands' :
             IF i \in DOMAIN commands THEN commands'[i] = commands[i]
             ELSE commands'[i].result = "waiting"
    BY <1>4, Queued DEF LaunchQueue, TypeOK
  <2>2. TypeOK'
    BY <1>4, <2>1 DEF LaunchQueue, TypeOK, LaunchStages, RequestStages, Row, Status
  <2>3. PendingIsFresh'
    BY <1>4, <2>1 DEF LaunchQueue, TypeOK, PendingIsFresh, Pending
  <2>4. CopiesHeld'
    BY <1>4, <2>1 DEF LaunchQueue, TypeOK, PendingIsFresh, Pending, CopiesHeld
  <2>5. Launched'
    BY <1>4, <2>1 DEF LaunchQueue, PendingIsFresh, CopiesHeld, Launched
  <2>6. QuietStops'
    BY <1>4, <2>1 DEF LaunchQueue, TypeOK, PendingIsFresh, CopiesHeld, QuietStops, LaunchOver, Active
  <2>. QED BY <2>2, <2>3, <2>4, <2>5, <2>6 DEF IInv
<1>5. ASSUME LaunchSSH PROVE IInv'
  <2>1. TypeOK'
    BY <1>5 DEF LaunchSSH, TypeOK, LaunchStages, RequestStages, Row, Status
  <2>2. PendingIsFresh'
    BY <1>5 DEF LaunchSSH, TypeOK, PendingIsFresh, Pending
  <2>3. CopiesHeld'
    BY <1>5 DEF LaunchSSH, TypeOK, PendingIsFresh, Pending, CopiesHeld
  <2>4. Launched'
    BY <1>5 DEF LaunchSSH, PendingIsFresh, CopiesHeld, Launched
  <2>5. QuietStops'
    BY <1>5 DEF LaunchSSH, TypeOK, PendingIsFresh, CopiesHeld, QuietStops, LaunchOver, Active
  <2>. QED BY <2>1, <2>2, <2>3, <2>4, <2>5 DEF IInv
<1>6. ASSUME LaunchKeys PROVE IInv'
  <2>1. TypeOK'
    BY <1>6 DEF LaunchKeys, TypeOK, LaunchStages, RequestStages, Row, Status
  <2>2. PendingIsFresh'
    BY <1>6 DEF LaunchKeys, TypeOK, PendingIsFresh, Pending
  <2>3. CopiesHeld'
    BY <1>6 DEF LaunchKeys, TypeOK, PendingIsFresh, Pending, CopiesHeld
  <2>4. Launched'
    BY <1>6 DEF LaunchKeys, PendingIsFresh, CopiesHeld, Launched
  <2>5. QuietStops'
    BY <1>6 DEF LaunchKeys, TypeOK, PendingIsFresh, CopiesHeld, QuietStops, LaunchOver, Active
  <2>. QED BY <2>1, <2>2, <2>3, <2>4, <2>5 DEF IInv
<1>7. ASSUME LaunchEnd PROVE IInv'
  <2>0. /\ row' \in Row \union {NoRow}
        /\ row' = NoRow <=> row = NoRow
        /\ row' # NoRow => row'.status = IF launch = "running" THEN "running" ELSE "failed"
    BY <1>7, Updated DEF LaunchEnd, CopiesHeld, TypeOK, Status
  <2>1. TypeOK'
    BY <1>7, <2>0 DEF LaunchEnd, TypeOK, LaunchStages
  <2>2. PendingIsFresh'
    BY <1>7, <2>0 DEF LaunchEnd, TypeOK, PendingIsFresh, Pending
  <2>3. CopiesHeld'
    BY <1>7 DEF LaunchEnd, UpdateSession, TypeOK, PendingIsFresh, Pending, CopiesHeld
  <2>4. Launched'
    BY <1>7 DEF LaunchEnd, UpdateSession, PendingIsFresh, CopiesHeld, Launched
  <2>5. QuietStops'
    BY <1>7 DEF LaunchEnd, UpdateSession, TypeOK, PendingIsFresh, CopiesHeld, QuietStops, LaunchOver, Active
  <2>. QED BY <2>1, <2>2, <2>3, <2>4, <2>5 DEF IInv
<1>8. ASSUME NEW r \in Requests, RequestRead(r) PROVE IInv'
  <2>1. TypeOK'
    BY <1>8 DEF RequestRead, Active, TypeOK, RequestStages
  <2>2. PendingIsFresh'
    BY <1>8 DEF RequestRead, Active, LaunchOver, TypeOK, PendingIsFresh, Pending
  <2>3. CopiesHeld'
    BY <1>8 DEF RequestRead, Active, LaunchOver, TypeOK, PendingIsFresh, Pending, CopiesHeld
  <2>4. Launched'
    BY <1>8 DEF RequestRead, Active, LaunchOver, PendingIsFresh, CopiesHeld, Launched
  <2>5. QuietStops'
    BY <1>8 DEF RequestRead, Active, LaunchOver, TypeOK, PendingIsFresh, CopiesHeld, QuietStops
  <2>. QED BY <2>1, <2>2, <2>3, <2>4, <2>5 DEF IInv
<1>9. ASSUME NEW r \in Requests, RequestStopping(r) PROVE IInv'
  <2>a. copy[r] \in Row
    BY <1>9 DEF RequestStopping, CopiesHeld, TypeOK
  <2>b. copy'[r] = [copy[r] EXCEPT !.status = "stopping"]
    BY <1>9 DEF RequestStopping, TypeOK
  <2>0. /\ row' \in Row \union {NoRow}
        /\ row' = NoRow <=> row = NoRow
        /\ row' # NoRow => row'.status = "stopping"
    BY <1>9, <2>a, <2>b, Updated DEF RequestStopping, TypeOK, Status
  <2>c. copy'[r] \in Row
    BY <2>a, <2>b DEF Row, Status
  <2>d. copy' = [copy EXCEPT ![r] = copy'[r]]
    BY <1>9, <2>b DEF RequestStopping, TypeOK
  <2>e. \A q \in Requests \ {r} : copy'[q] = copy[q] /\ request'[q] = request[q]
    BY <1>9 DEF RequestStopping, TypeOK
  <2>1. TypeOK'
    BY <1>9, <2>0, <2>c, <2>d DEF RequestStopping, TypeOK, RequestStages
  <2>2. PendingIsFresh'
    BY <1>9, <2>0 DEF RequestStopping, TypeOK, PendingIsFresh, Pending
  <2>3. CopiesHeld'
    BY <1>9, <2>c, <2>e DEF RequestStopping, CopiesHeld, TypeOK
  <2>4. Launched'
    BY <1>9, <2>0 DEF RequestStopping, Launched
  <2>5. QuietStops'
    BY <1>9, <2>0, <2>e DEF RequestStopping, TypeOK, QuietStops, LaunchOver, Active
  <2>. QED BY <2>1, <2>2, <2>3, <2>4, <2>5 DEF IInv
<1>10. ASSUME NEW r \in Requests, RequestOrder(r) PROVE IInv'
  <2>1. /\ commands' \in Seq(Command)
        /\ \A i \in DOMAIN commands' :
             IF i \in DOMAIN commands THEN commands'[i] = commands[i]
             ELSE commands'[i].result = "waiting"
    BY <1>10, Queued DEF RequestOrder, TypeOK
  <2>2. TypeOK'
    BY <1>10, <2>1 DEF RequestOrder, TypeOK, RequestStages
  <2>3. PendingIsFresh'
    BY <1>10, <2>1 DEF RequestOrder, TypeOK, PendingIsFresh, Pending
  <2>4. CopiesHeld'
    BY <1>10, <2>1 DEF RequestOrder, TypeOK, PendingIsFresh, Pending, CopiesHeld
  <2>5. Launched'
    BY <1>10, <2>1 DEF RequestOrder, PendingIsFresh, CopiesHeld, Launched
  <2>6. QuietStops'
    BY <1>10, <2>1 DEF RequestOrder, TypeOK, PendingIsFresh, CopiesHeld, QuietStops, LaunchOver, Active
  <2>. QED BY <2>2, <2>3, <2>4, <2>5, <2>6 DEF IInv
<1>11. ASSUME NEW r \in Requests, RequestKill(r) PROVE IInv'
  <2>0. tmux' \in BOOLEAN
    <3>1. CASE copy[r].named
      BY <1>11, <3>1, Zenon DEF RequestKill, TypeOK
    <3>2. CASE ~copy[r].named
      BY <1>11, <3>2, Zenon DEF RequestKill, TypeOK
    <3>. QED BY <3>1, <3>2
  <2>1. TypeOK'
    BY <1>11, <2>0 DEF RequestKill, TypeOK, RequestStages
  <2>2. PendingIsFresh'
    BY <1>11 DEF RequestKill, TypeOK, PendingIsFresh, Pending
  <2>3. CopiesHeld'
    BY <1>11 DEF RequestKill, TypeOK, PendingIsFresh, Pending, CopiesHeld
  <2>4. Launched'
    BY <1>11 DEF RequestKill, PendingIsFresh, CopiesHeld, Launched
  <2>5. QuietStops'
    BY <1>11 DEF RequestKill, TypeOK, PendingIsFresh, CopiesHeld, QuietStops, LaunchOver, Active
  <2>. QED BY <2>1, <2>2, <2>3, <2>4, <2>5 DEF IInv
<1>12. ASSUME NEW r \in Requests, RequestStopped(r) PROVE IInv'
  <2>0. /\ row' \in Row \union {NoRow}
        /\ row' = NoRow <=> row = NoRow
        /\ row' # NoRow => row'.status = "stopped"
    BY <1>12, Updated DEF RequestStopped, CopiesHeld, TypeOK, Status
  <2>1. TypeOK'
    BY <1>12, <2>0 DEF RequestStopped, AfterStop, TypeOK, RequestStages
  <2>2. PendingIsFresh'
    BY <1>12, <2>0 DEF RequestStopped, AfterStop, TypeOK, PendingIsFresh, Pending
  <2>3. CopiesHeld'
    BY <1>12 DEF RequestStopped, UpdateSession, AfterStop, TypeOK, PendingIsFresh, Pending, CopiesHeld
  <2>4. Launched'
    BY <1>12 DEF RequestStopped, UpdateSession, AfterStop, PendingIsFresh, CopiesHeld, Launched
  <2>5. QuietStops'
    BY <1>12, <2>0 DEF RequestStopped, AfterStop, TypeOK, QuietStops, LaunchOver, Active
  <2>. QED BY <2>1, <2>2, <2>3, <2>4, <2>5 DEF IInv
<1>13. ASSUME NEW r \in Requests, RequestDelete(r) PROVE IInv'
  <2>1. TypeOK'
    BY <1>13 DEF RequestDelete, TypeOK, LaunchStages, RequestStages, Row, Status
  <2>2. PendingIsFresh'
    BY <1>13 DEF RequestDelete, TypeOK, PendingIsFresh, Pending
  <2>3. CopiesHeld'
    BY <1>13 DEF RequestDelete, TypeOK, PendingIsFresh, Pending, CopiesHeld
  <2>4. Launched'
    BY <1>13 DEF RequestDelete, PendingIsFresh, CopiesHeld, Launched
  <2>5. QuietStops'
    BY <1>13 DEF RequestDelete, TypeOK, PendingIsFresh, CopiesHeld, QuietStops, LaunchOver, Active
  <2>. QED BY <2>1, <2>2, <2>3, <2>4, <2>5 DEF IInv
<1>14. ASSUME NEW i \in DOMAIN commands, ResultRead(i) PROVE IInv'
  <2>1. TypeOK'
    BY <1>14, ResultReadEffect DEF ResultRead, TypeOK
  <2>2. PendingIsFresh'
    BY <1>14, Nonempty DEF ResultRead, TypeOK, PendingIsFresh, Pending
  <2>3. CopiesHeld'
    BY <1>14, ResultReadEffect DEF ResultRead, CopiesHeld
  <2>4. Launched'
    BY <1>14 DEF ResultRead, PendingIsFresh, CopiesHeld, Launched
  <2>5. QuietStops'
    BY <1>14 DEF ResultRead, TypeOK, PendingIsFresh, CopiesHeld, QuietStops, LaunchOver, Active
  <2>. QED BY <2>1, <2>2, <2>3, <2>4, <2>5 DEF IInv
<1>15. ASSUME NEW i \in DOMAIN commands, ResultWrite(i) PROVE IInv'
  <2>1. TypeOK'
    BY <1>15, ResultWriteEffect DEF ResultWrite, TypeOK
  <2>2. PendingIsFresh'
    BY <1>15, ResultWriteEffect, Nonempty DEF ResultWrite, TypeOK, PendingIsFresh, Pending
  <2>3. CopiesHeld'
    BY <1>15, ResultWriteEffect DEF ResultWrite, CopiesHeld
  <2>4. Launched'
    BY <1>15, ResultWriteEffect DEF ResultWrite, Launched
  <2>5. QuietStops'
    BY <1>15, ResultWriteEffect DEF ResultWrite, QuietStops, LaunchOver, Active
  <2>. QED BY <2>1, <2>2, <2>3, <2>4, <2>5 DEF IInv
<1>16. ASSUME Reap PROVE IInv'
  <2>1. TypeOK'
    BY <1>16 DEF Reap, FindStuckColumns, SessionColumns, TypeOK, LaunchStages, RequestStages, Row, Status
  <2>2. PendingIsFresh'
    BY <1>16 DEF Reap, FindStuckColumns, SessionColumns, TypeOK, PendingIsFresh, Pending
  <2>3. CopiesHeld'
    BY <1>16 DEF Reap, FindStuckColumns, SessionColumns, TypeOK, PendingIsFresh, Pending, CopiesHeld
  <2>4. Launched'
    BY <1>16 DEF Reap, FindStuckColumns, SessionColumns, PendingIsFresh, CopiesHeld, Launched
  <2>5. QuietStops'
    BY <1>16 DEF Reap, FindStuckColumns, SessionColumns, TypeOK, PendingIsFresh, CopiesHeld, QuietStops, LaunchOver, Active
  <2>. QED BY <2>1, <2>2, <2>3, <2>4, <2>5 DEF IInv
<1>17. ASSUME Crash PROVE IInv'
  <2>1. TypeOK'
    <3>1. request' \in [Requests -> RequestStages] /\ launch' \in LaunchStages
      BY <1>17 DEF Crash, TypeOK, RequestStages, LaunchStages
    <3>2. crashes' \in Nat
      <4>1. crashes \in Nat /\ crashes' = crashes + 1
        BY <1>17 DEF Crash, TypeOK
      <4>. QED BY <4>1
    <3>3. copy' = [q \in Requests |-> NoRow]
      BY <1>17 DEF Crash
    <3>4. copy' \in [Requests -> Row \union {NoRow}]
      BY <3>3
    <3>. QED BY <1>17, <3>1, <3>2, <3>4, CrashEffect DEF Crash, TypeOK
  <2>2. PendingIsFresh'
    BY <1>17, CrashEffect DEF Crash, TypeOK, PendingIsFresh, Pending
  <2>3. CopiesHeld'
    BY <1>17, CrashEffect DEF Crash, TypeOK, CopiesHeld
  <2>4. Launched'
    BY <1>17 DEF Crash, PendingIsFresh, CopiesHeld, Launched
  <2>5. QuietStops'
    BY <1>17 DEF Crash, TypeOK, PendingIsFresh, CopiesHeld, QuietStops, LaunchOver, Active
  <2>. QED BY <2>1, <2>2, <2>3, <2>4, <2>5 DEF IInv
<1>18. CASE UNCHANGED vars
  BY <1>18 DEF vars, TypeOK, PendingIsFresh, Pending, CopiesHeld, Launched, QuietStops,
     LaunchOver, Active
<1>. QED BY <1>1, <1>2, <1>3, <1>4, <1>5, <1>6, <1>7, <1>8, <1>9, <1>10, <1>11, <1>12, <1>13, <1>14, <1>15, <1>16, <1>17, <1>18 DEF Next, Launch, Stop, Result
LEMMA Invariant == Spec => []IInv
  BY InitIInv, StepIInv, PTL DEF Spec

(* Every variable keeps its type, whatever the interleaving. *)
THEOREM TypeCorrect == Spec => []TypeOK
  BY Invariant, PTL DEF IInv

(***************************************************************************)
(* A session is shown as running only if its launch was handed over: no    *)
(* stop's result and no restart of swoopsd can make it so.                 *)
(***************************************************************************)
THEOREM ShownRunningWasLaunched == Spec => []RunningWasLaunched
<1>1. IInv => RunningWasLaunched
  BY DEF IInv, Launched, RunningWasLaunched
<1>. QED BY <1>1, Invariant, PTL

(***************************************************************************)
(* A stop answered with success on a session whose launch was over leaves  *)
(* it inactive, for any number of other requests, results and crashes.     *)
(***************************************************************************)
THEOREM StopSettles == Spec => []StopSticks
<1>1. IInv => StopSticks
  BY DEF IInv, QuietStops, StopSticks
<1>. QED BY <1>1, Invariant, PTL

(* Of all writers of stale copies only the launch goroutine revives a session. *)
THEOREM RevivalByLaunch == Spec => OnlyLaunchRevives
<1> DEFINE Revival == launch # "none" /\ ~Active(row) /\ Active(row')
                        => /\ row # NoRow
                           /\ launch \in {"starting", "running"}
                           /\ launch' # launch
<1>1. IInv /\ [Next]_vars => [Revival]_vars
  <2> SUFFICES ASSUME IInv, Next PROVE Revival
    OBVIOUS
  <2> USE DEF IInv, goroutines, outside
  <2>1. CASE Create
    BY <2>1 DEF Create
  <2>2. CASE Launch
    <3>1. ASSUME LaunchStarting PROVE Revival
      BY <3>1 DEF LaunchStarting, UpdateSession, Active
    <3>2. ASSUME LaunchEnd PROVE Revival
      <4>1. launch \in {"running", "fail"} /\ launch' = "done" /\ launchCopy \in Row
        BY <3>2 DEF LaunchEnd, CopiesHeld, TypeOK
      <4>2. /\ row' = NoRow <=> row = NoRow
            /\ row' # NoRow => row'.status = IF launch = "running" THEN "running" ELSE "failed"
        BY <3>2, <4>1, Updated DEF LaunchEnd, TypeOK, Status
      <4>. QED BY <4>1, <4>2 DEF Active
    <3>3. ASSUME LaunchRead \/ LaunchQueue \/ LaunchSSH \/ LaunchKeys PROVE Revival
      BY <3>3 DEF LaunchRead, LaunchQueue, LaunchSSH, LaunchKeys, Active
    <3>. QED BY <2>2, <3>1, <3>2, <3>3 DEF Launch
  <2>3. ASSUME NEW r \in Requests, RequestRead(r) \/ Stop(r) PROVE Revival
    <3>1. CASE RequestStopping(r)
      <4>1. copy[r] \in Row /\ copy'[r] = [copy[r] EXCEPT !.status = "stopping"]
        BY <3>1 DEF RequestStopping, CopiesHeld, TypeOK
      <4>2. row' # NoRow => row'.status = "stopping"
        BY <3>1, <4>1, Updated DEF RequestStopping, TypeOK, Status
      <4>. QED BY <4>2 DEF Active
    <3>2. CASE RequestStopped(r)
      <4>1. copy[r] \in Row
        BY <3>2 DEF RequestStopped, CopiesHeld, TypeOK
      <4>2. row' # NoRow => row'.status = "stopped"
        BY <3>2, <4>1, Updated DEF RequestStopped, TypeOK, Status
      <4>. QED BY <4>2 DEF Active
    <3>3. CASE RequestDelete(r)
      BY <3>3 DEF RequestDelete, Active
    <3>4. CASE RequestRead(r) \/ RequestOrder(r) \/ RequestKill(r)
      BY <3>4 DEF RequestRead, RequestOrder, RequestKill, Active
    <3>. QED BY <2>3, <3>1, <3>2, <3>3, <3>4 DEF Stop
  <2>4. ASSUME NEW i \in DOMAIN commands, ResultRead(i) PROVE Revival
    BY <2>4 DEF ResultRead, Active
  <2>5. ASSUME NEW i \in DOMAIN commands, ResultWrite(i) PROVE Revival
    BY <2>5, ResultWriteEffect DEF Active
  <2>6. CASE Reap \/ Crash
    BY <2>6 DEF Reap, Crash, Active, FindStuckColumns, SessionColumns
  <2>. QED BY <2>1, <2>2, <2>3, <2>4, <2>5, <2>6 DEF Next, Result
<1>2. [][Revival]_vars => OnlyLaunchRevives
  BY DEF OnlyLaunchRevives
<1>. QED BY <1>1, <1>2, Invariant, PTL DEF Spec
================================================================================
