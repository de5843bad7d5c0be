------------------------- MODULE SessionOutput_proofs -------------------------
(***************************************************************************)
(* Proofs about SessionOutput, for any clients, posts, row writers,        *)
(* channel capacity, number of screens and restarts.                       *)
(*                                                                         *)
(* Who is registered where follows from where its handler is (Registered), *)
(* which bounds the closes of its channel (Closing).  The last element of  *)
(* a channel, or what is shown when it is drained, is the current output   *)
(* (Current).  On the SSH path only the streamer and whole-row writers     *)
(* change the row (Paths).                                                 *)
(*                                                                         *)
(* The end of it are proofs about the hook that receives the output in the *)
(* browser, ReconnectingWebSocket, for any number of sockets.              *)
(***************************************************************************)
EXTENDS SessionOutput, ReconnectingWebSocket, SequenceTheorems, TLAPS

Registered ==
  \A c \in Clients :
    /\ c \in subs       => client[c] \in {"reading", "leaving"} /\ source[c] = "agent"
    /\ c \in streamSubs => client[c] \in {"reading", "leaving"} /\ source[c] = "streamer"

Closing ==
  \A c \in Clients :
    /\ closes[c] <= 1
    /\ client[c] \in {"idle", "read", "chosen"} \/ c \in subs \union streamSubs => closes[c] = 0

\* Output c has ended up with, or will when it has drained its channel.
Latest(c) == IF chan[c] = <<>> THEN shown[c] ELSE chan[c][Len(chan[c])]

Current ==
  \A c \in Clients \ missed : client[c] = "reading" =>
    /\ c \in subs /\ buffer # 0 => Latest(c) = buffer
    /\ c \in streamSubs /\ lastOutput # 0 /\ capture \notin {"changed", "broadcast"}
         => Latest(c) = lastOutput

Paths ==
  /\ path # "agent"        => \A p \in Posts : post[p] = "idle"
  /\ path = "none"         => launch = "none"
  /\ launch = "recorded"   => path = "ssh"
  /\ launch # "done"       => streamer = "none"
  /\ streamer # "none"     => path = "ssh"
  /\ streamer = "none"     => lastOutput = 0 /\ ~listed /\ capture = "ended"
  /\ capture \in {"changed", "broadcast"} => captured = lastOutput

IInv == TypeOK /\ Registered /\ Closing /\ Current /\ Paths /\ StreamedIsStored

\* Empty output is an output.
LEMMA ZeroIsOutput == 0 \in Outputs
  BY OutputAssumption DEF Outputs

\* Receiving one output leaves the last one of a sequence.
LEMMA LastOfTail ==
  ASSUME NEW S, NEW s \in Seq(S), s # <<>>
  PROVE  s[Len(s)] = IF Tail(s) = <<>> THEN Head(s) ELSE Tail(s)[Len(Tail(s))]
  <1>1. Len(s) \in Nat \ {0} /\ Tail(s) \in Seq(S) /\ Len(Tail(s)) = Len(s) - 1
    BY EmptySeq, HeadTailProperties
  <1>2. CASE Tail(s) = <<>>
    <2>1. Len(Tail(s)) = 0
      BY <1>2, EmptySeq
    <2>2. \A n \in Nat \ {0} : n - 1 = 0 => n = 1
      OBVIOUS
    <2>3. Len(s) = 1
      BY <1>1, <2>1, <2>2, Zenon
    <2>4. QED BY <1>2, <2>3
  <1>3. CASE Tail(s) # <<>>
    <2>1. Len(s) - 1 \in 1 .. Len(Tail(s))
      BY <1>1, <1>3, EmptySeq
    <2>2. QED BY <1>1, <1>3, <2>1, HeadTailProperties
  <1>4. QED BY <1>2, <1>3

\* A receiver that has missed nothing ends up with what was sent.
LEMMA SendAllLatest ==
  ASSUME TypeOK, NEW receivers \in SUBSET Clients, NEW output \in Outputs,
         SendAll(receivers, output), shown' = shown
  PROVE  /\ chan' \in [Clients -> Seq(Outputs)] /\ missed' \subseteq Clients
         /\ \A c \in Clients \ missed' :
              /\ c \in receivers    => Latest(c)' = output
              /\ c \notin receivers => c \notin missed /\ Latest(c)' = Latest(c)
  <1>1. chan' \in [Clients -> Seq(Outputs)] /\ missed' \subseteq Clients
    BY DEF SendAll, TypeOK
  <1>2. ASSUME NEW c \in Clients \ missed', c \in receivers PROVE Latest(c)' = output
    <2>1. chan[c] \in Seq(Outputs) /\ chan'[c] = Append(chan[c], output)
      BY <1>2 DEF SendAll, TypeOK
    <2>2. chan'[c] # <<>> /\ chan'[c][Len(chan'[c])] = output
      BY <2>1
    <2>3. QED BY <2>2 DEF Latest
  <1>3. ASSUME NEW c \in Clients \ missed', c \notin receivers
        PROVE  c \notin missed /\ Latest(c)' = Latest(c)
    BY <1>3 DEF SendAll, Latest
  <1>4. QED BY <1>1, <1>2, <1>3

\* Those whose channels are closed are in no list any more.
LEMMA CloseAllClosing ==
  ASSUME TypeOK, Registered, Closing, client' = client, NEW receivers, CloseAll(receivers),
         receivers \subseteq subs \union streamSubs,
         subs' \union streamSubs' \subseteq (subs \union streamSubs) \ receivers
  PROVE  Closing'
  <1> SUFFICES ASSUME NEW c \in Clients
               PROVE  /\ closes'[c] <= 1
                      /\ client[c] \in {"idle", "read", "chosen"} \/ c \in subs' \union streamSubs'
                           => closes'[c] = 0
    BY DEF Closing
  <1>1. closes[c] \in Nat
    BY DEF TypeOK
  <1>2. CASE c \in receivers
    BY <1>1, <1>2 DEF CloseAll, Closing, Registered
  <1>3. CASE c \notin receivers
    BY <1>1, <1>3 DEF CloseAll, Closing
  <1>4. QED BY <1>2, <1>3

\* A second stop of the streamer closes nothing.
LEMMA StopStreamerClosing ==
  ASSUME TypeOK, Registered, Closing, client' = client, StopStreamer, UNCHANGED subs
  PROVE  Closing'
  <1>1. CASE streamer = "stopped"
    <2>1. CloseAll({}) /\ streamSubs' = streamSubs
      BY <1>1 DEF StopStreamer
    <2>2. QED BY <2>1, CloseAllClosing
  <1>2. CASE streamer # "stopped"
    <2>1. CloseAll(streamSubs) /\ streamSubs' = {}
      BY <1>2 DEF StopStreamer
    <2>2. streamSubs \intersect subs = {}
      BY DEF Registered, TypeOK
    <2>3. QED BY <2>1, <2>2, CloseAllClosing
  <1>3. QED BY <1>1, <1>2

\* The state before the launch.
LEMMA InitIInv == Init => IInv
  <1> SUFFICES ASSUME Init PROVE IInv
    OBVIOUS
  <1>1. TypeOK
    <2>1. {screen, stored, buffer, lastOutput, captured} \subseteq Outputs
      BY ZeroIsOutput DEF Init
    <2>2. chan \in [Clients -> Seq(Outputs)]
      BY DEF Init
    <2>3. held \in [Writers -> Outputs] /\ content \in [Posts -> Outputs]
            /\ shown \in [Clients -> Outputs]
      BY ZeroIsOutput DEF Init
    <2>4. QED BY <2>1, <2>2, <2>3 DEF Init, TypeOK
  <1>2. Registered /\ Closing /\ Current
    BY DEF Init, Registered, Closing, Current
  <1>3. Paths /\ StreamedIsStored
    BY DEF Init, Paths, StreamedIsStored
  <1>4. QED BY <1>1, <1>2, <1>3 DEF IInv


\* Every action preserves the invariant.
LEMMA NextIInv == IInv /\ [Next]_vars => IInv'
<1> SUFFICES ASSUME IInv, [Next]_vars PROVE IInv'
  OBVIOUS
<1> USE ZeroIsOutput DEF IInv
<1>1. CASE Launch
  <2>1. TypeOK'
    BY <1>1 DEF Launch, TypeOK, row, service, posts, stream, looper, handler, channel
  <2>2. Paths'
    BY <1>1 DEF Launch, TypeOK, Paths, row, service, posts, stream, looper, handler,
       channel
  <2>3. Registered' /\ Closing' /\ Current' /\ StreamedIsStored'
    BY <1>1 DEF Launch, TypeOK, Registered, Closing, Current, Latest, Paths,
       StreamedIsStored, row, service, posts, stream, looper, handler, channel
  <2>4. QED BY <2>1, <2>2, <2>3
<1>2. CASE PaneChanges
  <2>1. TypeOK'
    BY <1>2, OutputAssumption DEF PaneChanges, TypeOK, Outputs, row, service, posts, stream,
       looper, handler, channel
  <2>2. Registered' /\ Closing' /\ Current' /\ Paths' /\ StreamedIsStored'
    BY <1>2 DEF PaneChanges, TypeOK, Registered, Closing, Current, Latest, Paths,
       StreamedIsStored, row, service, posts, stream, looper, handler, channel
  <2>3. QED BY <2>1, <2>2
<1>3. ASSUME NEW p \in Posts, PostSent(p) PROVE IInv'
  <2>1. TypeOK'
    BY <1>3 DEF PostSent, TypeOK, outside, row, service, stream, looper, handler,
       channel
  <2>2. Paths'
    BY <1>3 DEF PostSent, TypeOK, Paths, outside, row, service, stream, looper, handler,
       channel
  <2>3. Registered' /\ Closing' /\ Current' /\ StreamedIsStored'
    BY <1>3 DEF PostSent, TypeOK, Registered, Closing, Current, Latest, Paths,
       StreamedIsStored, outside, row, service, stream, looper, handler, channel
  <2>4. QED BY <2>1, <2>2, <2>3
<1>4. ASSUME NEW p \in Posts, PostStore(p) PROVE IInv'
  <2>1. TypeOK'
    BY <1>4 DEF PostStore, TypeOK, outside, service, stream, looper, handler, channel
  <2>2. Paths'
    BY <1>4 DEF PostStore, TypeOK, Paths, outside, service, stream, looper, handler,
       channel
  <2>3. StreamedIsStored'
    BY <1>4 DEF PostStore, TypeOK, Paths, StreamedIsStored, outside, service, stream,
       looper, handler, channel
  <2>4. Registered' /\ Closing' /\ Current'
    BY <1>4 DEF PostStore, TypeOK, Registered, Closing, Current, Latest, outside,
       service, stream, looper, handler, channel
  <2>5. QED BY <2>1, <2>2, <2>3, <2>4
<1>5. ASSUME NEW p \in Posts, PostPublish(p) PROVE IInv'
  <2>1. TypeOK'
    <3>1. content[p] \in Outputs /\ subs \subseteq Clients
      BY DEF TypeOK
    <3>2. chan' \in [Clients -> Seq(Outputs)] /\ missed' \subseteq Clients
      BY <1>5, <3>1, SendAllLatest DEF PostPublish, handler
    <3>3. QED BY <1>5, <3>1, <3>2 DEF PostPublish, TypeOK, outside, row, stream, looper, handler
  <2>2. Current'
    <3>1. content[p] \in Outputs /\ subs \subseteq Clients
      BY DEF TypeOK
    <3>2. \A c \in Clients \ missed' :
            /\ c \in subs    => Latest(c)' = content[p]
            /\ c \notin subs => c \notin missed /\ Latest(c)' = Latest(c)
      BY <1>5, <3>1, SendAllLatest DEF PostPublish, handler
    <3>3. QED BY <1>5, <3>2 DEF PostPublish, Registered, Current, stream, looper, handler
  <2>3. Paths'
    BY <1>5 DEF PostPublish, SendAll, TypeOK, Paths, outside, row, stream, looper,
       handler
  <2>4. Registered' /\ Closing' /\ StreamedIsStored'
    BY <1>5 DEF PostPublish, SendAll, TypeOK, Registered, Closing, Paths,
       StreamedIsStored, outside, row, stream, looper, handler
  <2>5. QED BY <2>1, <2>2, <2>3, <2>4
<1>6. CASE StartStreamer
  <2>1. TypeOK'
    BY <1>6 DEF StartStreamer, TypeOK, row, service, posts, handler, channel
  <2>2. Current'
    BY <1>6 DEF StartStreamer, Current, Latest, Paths, service, handler, channel
  <2>3. Paths'
    BY <1>6 DEF StartStreamer, TypeOK, Paths, row, service, posts, handler, channel
  <2>4. StreamedIsStored'
    BY <1>6 DEF StartStreamer, TypeOK, Paths, StreamedIsStored, row, service, posts,
       handler, channel
  <2>5. Registered' /\ Closing'
    BY <1>6 DEF StartStreamer, TypeOK, Registered, Closing, row, service, posts,
       handler, channel
  <2>6. QED BY <2>1, <2>2, <2>3, <2>4, <2>5
<1>7. CASE Capture
  <2>1. TypeOK'
    BY <1>7 DEF Capture, TypeOK, outside, row, service, posts, stream, handler, channel
  <2>2. Current'
    BY <1>7 DEF Capture, TypeOK, Registered, Current, Latest, outside, row, service,
       posts, stream, handler, channel
  <2>3. Paths'
    BY <1>7 DEF Capture, TypeOK, Paths, outside, row, service, posts, stream, handler,
       channel
  <2>4. StreamedIsStored'
    BY <1>7 DEF Capture, TypeOK, Paths, StreamedIsStored, outside, row, service, posts,
       stream, handler, channel
  <2>5. Registered' /\ Closing'
    BY <1>7 DEF Capture, TypeOK, Registered, Closing, outside, row, service, posts,
       stream, handler, channel
  <2>6. QED BY <2>1, <2>2, <2>3, <2>4, <2>5
<1>8. CASE Compare
  <2>1. TypeOK'
    BY <1>8 DEF Compare, TypeOK, outside, row, service, posts, handler, channel
  <2>2. Current'
    BY <1>8 DEF Compare, TypeOK, Registered, Current, Latest, outside, row, service,
       posts, handler, channel
  <2>3. Paths'
    BY <1>8 DEF Compare, TypeOK, Paths, outside, row, service, posts, handler, channel
  <2>4. StreamedIsStored'
    BY <1>8 DEF Compare, TypeOK, Paths, StreamedIsStored, outside, row, service, posts,
       handler, channel
  <2>5. Registered' /\ Closing'
    BY <1>8 DEF Compare, TypeOK, Registered, Closing, outside, row, service, posts,
       handler, channel
  <2>6. QED BY <2>1, <2>2, <2>3, <2>4, <2>5
<1>9. CASE Persist
  <2>1. TypeOK'
    BY <1>9 DEF Persist, TypeOK, outside, service, posts, stream, handler, channel
  <2>2. Current'
    BY <1>9 DEF Persist, TypeOK, Registered, Current, Latest, outside, service, posts,
       stream, handler, channel
  <2>3. Paths'
    BY <1>9 DEF Persist, TypeOK, Paths, outside, service, posts, stream, handler,
       channel
  <2>4. StreamedIsStored'
    BY <1>9 DEF Persist, TypeOK, Paths, StreamedIsStored, outside, service, posts,
       stream, handler, channel
  <2>5. Registered' /\ Closing'
    BY <1>9 DEF Persist, TypeOK, Registered, Closing, outside, service, posts, stream,
       handler, channel
  <2>6. QED BY <2>1, <2>2, <2>3, <2>4, <2>5
<1>10. CASE Broadcast
  <2>1. TypeOK'
    <3>1. captured \in Outputs /\ streamSubs \subseteq Clients
      BY DEF TypeOK
    <3>2. chan' \in [Clients -> Seq(Outputs)] /\ missed' \subseteq Clients
      BY <1>10, <3>1, SendAllLatest DEF Broadcast, handler
    <3>3. QED
      BY <1>10, <3>1, <3>2 DEF Broadcast, TypeOK, outside, row, service, posts, stream, handler
  <2>2. Current'
    <3>1. captured \in Outputs /\ streamSubs \subseteq Clients
      BY DEF TypeOK
    <3>2. \A c \in Clients \ missed' :
            /\ c \in streamSubs    => Latest(c)' = captured
            /\ c \notin streamSubs => c \notin missed /\ Latest(c)' = Latest(c)
      BY <1>10, <3>1, SendAllLatest DEF Broadcast, handler
    <3>3. QED BY <1>10, <3>2 DEF Broadcast, Registered, Current, Paths, service, stream, handler
  <2>3. Paths'
    BY <1>10 DEF Broadcast, SendAll, TypeOK, Paths, outside, row, service, posts,
       stream, handler
  <2>4. StreamedIsStored'
    BY <1>10 DEF Broadcast, SendAll, TypeOK, Paths, StreamedIsStored, outside, row,
       service, posts, stream, handler
  <2>5. Registered' /\ Closing'
    BY <1>10 DEF Broadcast, SendAll, TypeOK, Registered, Closing, outside, row, service,
       posts, stream, handler
  <2>6. QED BY <2>1, <2>2, <2>3, <2>4, <2>5
<1>11. CASE LoopEnds
  <2>1. TypeOK'
    BY <1>11 DEF LoopEnds, TypeOK, outside, row, service, posts, stream, handler,
       channel
  <2>2. Current'
    BY <1>11 DEF LoopEnds, TypeOK, Registered, Current, Latest, outside, row, service,
       posts, stream, handler, channel
  <2>3. Paths'
    BY <1>11 DEF LoopEnds, TypeOK, Paths, outside, row, service, posts, stream, handler,
       channel
  <2>4. StreamedIsStored'
    BY <1>11 DEF LoopEnds, TypeOK, Paths, StreamedIsStored, outside, row, service,
       posts, stream, handler, channel
  <2>5. Registered' /\ Closing'
    BY <1>11 DEF LoopEnds, TypeOK, Registered, Closing, outside, row, service, posts,
       stream, handler, channel
  <2>6. QED BY <2>1, <2>2, <2>3, <2>4, <2>5
<1>12. CASE CloseManager
  <2>1. TypeOK'
    BY <1>12 DEF CloseManager, StopStreamer, CloseAll, TypeOK, outside, row, service,
       posts, looper, handler
  <2>2. Registered'
    BY <1>12 DEF CloseManager, StopStreamer, CloseAll, TypeOK, Registered, outside, row,
       service, posts, looper, handler
  <2>3. Closing'
    <3>1. client' = client /\ StopStreamer /\ UNCHANGED subs
      BY <1>12 DEF CloseManager, service, handler
    <3>2. QED BY <3>1, StopStreamerClosing
  <2>4. Current'
    BY <1>12 DEF CloseManager, StopStreamer, CloseAll, TypeOK, Registered, Current,
       Latest, outside, row, service, posts, looper, handler
  <2>5. Paths'
    BY <1>12 DEF CloseManager, StopStreamer, CloseAll, TypeOK, Paths, outside, row,
       service, posts, looper, handler
  <2>6. StreamedIsStored'
    BY <1>12 DEF CloseManager, StopStreamer, CloseAll, TypeOK, Paths, StreamedIsStored,
       outside, row, service, posts, looper, handler
  <2>7. QED BY <2>1, <2>2, <2>3, <2>4, <2>5, <2>6
<1>13. CASE RecordRunning
  <2>1. TypeOK'
    BY <1>13 DEF RecordRunning, TypeOK, service, posts, stream, looper, handler, channel
  <2>2. Paths'
    BY <1>13 DEF RecordRunning, TypeOK, Paths, service, posts, stream, looper, handler,
       channel
  <2>3. StreamedIsStored'
    BY <1>13 DEF RecordRunning, TypeOK, Paths, StreamedIsStored, service, posts, stream,
       looper, handler, channel
  <2>4. Registered' /\ Closing' /\ Current'
    BY <1>13 DEF RecordRunning, TypeOK, Registered, Closing, Current, Latest, service,
       posts, stream, looper, handler, channel
  <2>5. QED BY <2>1, <2>2, <2>3, <2>4
<1>14. ASSUME NEW w \in Writers, WriterReads(w) PROVE IInv'
  <2>1. TypeOK'
    BY <1>14 DEF WriterReads, TypeOK, outside, service, posts, stream, looper, handler,
       channel
  <2>2. StreamedIsStored'
    BY <1>14 DEF WriterReads, TypeOK, Paths, StreamedIsStored, outside, service, posts,
       stream, looper, handler, channel
  <2>3. Registered' /\ Closing' /\ Current' /\ Paths'
    BY <1>14 DEF WriterReads, TypeOK, Registered, Closing, Current, Latest, Paths,
       outside, service, posts, stream, looper, handler, channel
  <2>4. QED BY <2>1, <2>2, <2>3
<1>15. ASSUME NEW w \in Writers, ResultWrites(w) PROVE IInv'
  <2>1. TypeOK'
    BY <1>15 DEF ResultWrites, TypeOK, outside, service, posts, stream, looper, handler,
       channel
  <2>2. StreamedIsStored'
    BY <1>15 DEF ResultWrites, TypeOK, Paths, StreamedIsStored, outside, service, posts,
       stream, looper, handler, channel
  <2>3. Registered' /\ Closing' /\ Current' /\ Paths'
    BY <1>15 DEF ResultWrites, TypeOK, Registered, Closing, Current, Latest, Paths,
       outside, service, posts, stream, looper, handler, channel
  <2>4. QED BY <2>1, <2>2, <2>3
<1>16. ASSUME NEW w \in Writers, StopHalts(w) PROVE IInv'
  <2>1. TypeOK'
    <3>1. CASE listed
      <4>1. closes' \in [Clients -> Nat] /\ streamSubs' \subseteq Clients /\ streamer' = "stopped"
        <5>1. closes' \in [Clients -> Nat]
          BY <1>16, <3>1 DEF StopHalts, StopStreamer, CloseAll, TypeOK
        <5>2. QED BY <1>16, <3>1, <5>1 DEF StopHalts, StopStreamer, TypeOK
      <4>2. QED BY <1>16, <4>1 DEF StopHalts, TypeOK, outside, service, posts, looper, handler
    <3>2. CASE ~listed
      BY <1>16, <3>2 DEF StopHalts, TypeOK, outside, service, posts, looper, handler
    <3>3. QED BY <3>1, <3>2
  <2>2. Registered'
    BY <1>16 DEF StopHalts, StopStreamer, CloseAll, TypeOK, Registered, outside,
       service, posts, looper, handler
  <2>3. Closing'
    <3>1. CASE listed
      <4>1. client' = client /\ StopStreamer /\ UNCHANGED subs
        BY <1>16, <3>1 DEF StopHalts, service, handler
      <4>2. QED BY <4>1, StopStreamerClosing
    <3>2. CASE ~listed
      BY <1>16, <3>2 DEF StopHalts, Closing, service, handler
    <3>3. QED BY <3>1, <3>2
  <2>4. Current'
    BY <1>16 DEF StopHalts, StopStreamer, CloseAll, TypeOK, Registered, Current, Latest,
       outside, service, posts, looper, handler
  <2>5. Paths'
    BY <1>16 DEF StopHalts, StopStreamer, CloseAll, TypeOK, Paths, outside, service,
       posts, looper, handler
  <2>6. StreamedIsStored'
    BY <1>16 DEF StopHalts, StopStreamer, CloseAll, TypeOK, Paths, StreamedIsStored,
       outside, service, posts, looper, handler
  <2>7. QED BY <2>1, <2>2, <2>3, <2>4, <2>5, <2>6
<1>17. ASSUME NEW w \in Writers, StopWrites(w) PROVE IInv'
  <2>1. TypeOK'
    BY <1>17 DEF StopWrites, TypeOK, outside, service, posts, stream, looper, handler,
       channel
  <2>2. StreamedIsStored'
    BY <1>17 DEF StopWrites, TypeOK, Paths, StreamedIsStored, outside, service, posts,
       stream, looper, handler, channel
  <2>3. Registered' /\ Closing' /\ Current' /\ Paths'
    BY <1>17 DEF StopWrites, TypeOK, Registered, Closing, Current, Latest, Paths,
       outside, service, posts, stream, looper, handler, channel
  <2>4. QED BY <2>1, <2>2, <2>3
<1>18. ASSUME NEW c \in Clients, ClientReads(c) PROVE IInv'
  <2>1. TypeOK'
    BY <1>18 DEF ClientReads, TypeOK, outside, row, service, posts, stream, looper,
       channel
  <2>2. Registered'
    BY <1>18 DEF ClientReads, TypeOK, Registered, outside, row, service, posts, stream,
       looper, channel
  <2>3. Closing'
    BY <1>18 DEF ClientReads, TypeOK, Registered, Closing, outside, row, service, posts,
       stream, looper, channel
  <2>4. Current'
    BY <1>18 DEF ClientReads, TypeOK, Registered, Current, Latest, outside, row,
       service, posts, stream, looper, channel
  <2>5. Paths' /\ StreamedIsStored'
    BY <1>18 DEF ClientReads, TypeOK, Paths, StreamedIsStored, outside, row, service,
       posts, stream, looper, channel
  <2>6. QED BY <2>1, <2>2, <2>3, <2>4, <2>5
<1>19. ASSUME NEW c \in Clients, ClientChooses(c) PROVE IInv'
  <2>1. TypeOK'
    BY <1>19 DEF ClientChooses, TypeOK, outside, row, service, posts, stream, looper,
       channel
  <2>2. Registered'
    BY <1>19 DEF ClientChooses, TypeOK, Registered, outside, row, service, posts,
       stream, looper, channel
  <2>3. Closing'
    BY <1>19 DEF ClientChooses, TypeOK, Registered, Closing, outside, row, service,
       posts, stream, looper, channel
  <2>4. Current'
    BY <1>19 DEF ClientChooses, TypeOK, Registered, Current, Latest, outside, row,
       service, posts, stream, looper, channel
  <2>5. Paths' /\ StreamedIsStored'
    BY <1>19 DEF ClientChooses, TypeOK, Paths, StreamedIsStored, outside, row, service,
       posts, stream, looper, channel
  <2>6. QED BY <2>1, <2>2, <2>3, <2>4, <2>5
<1>20. ASSUME NEW c \in Clients, SubscribeAgent(c) PROVE IInv'
  <2>1. TypeOK'
    BY <1>20 DEF SubscribeAgent, OpenChannel, TypeOK, outside, row, posts, stream,
       looper
  <2>2. Registered'
    BY <1>20 DEF SubscribeAgent, OpenChannel, TypeOK, Registered, outside, row, posts,
       stream, looper
  <2>3. Closing'
    BY <1>20 DEF SubscribeAgent, OpenChannel, TypeOK, Registered, Closing, outside, row,
       posts, stream, looper
  <2>4. Current'
    BY <1>20 DEF SubscribeAgent, OpenChannel, TypeOK, Registered, Current, Latest,
       outside, row, posts, stream, looper
  <2>5. Paths' /\ StreamedIsStored'
    BY <1>20 DEF SubscribeAgent, OpenChannel, TypeOK, Paths, StreamedIsStored, outside,
       row, posts, stream, looper
  <2>6. QED BY <2>1, <2>2, <2>3, <2>4, <2>5
<1>21. ASSUME NEW c \in Clients, SubscribeStreamer(c) PROVE IInv'
  <2>1. TypeOK'
    BY <1>21 DEF SubscribeStreamer, OpenChannel, TypeOK, outside, row, service, posts,
       looper
  <2>2. Registered'
    BY <1>21 DEF SubscribeStreamer, OpenChannel, TypeOK, Registered, outside, row,
       service, posts, looper
  <2>3. Closing'
    BY <1>21 DEF SubscribeStreamer, OpenChannel, TypeOK, Registered, Closing, outside,
       row, service, posts, looper
  <2>4. Current'
    BY <1>21 DEF SubscribeStreamer, OpenChannel, TypeOK, Registered, Current, Latest,
       outside, row, service, posts, looper
  <2>5. Paths' /\ StreamedIsStored'
    BY <1>21 DEF SubscribeStreamer, OpenChannel, TypeOK, Paths, StreamedIsStored,
       outside, row, service, posts, looper
  <2>6. QED BY <2>1, <2>2, <2>3, <2>4, <2>5
<1>22. ASSUME NEW c \in Clients, ClientReceives(c) PROVE IInv'
  <2>1. TypeOK'
    BY <1>22 DEF ClientReceives, TypeOK, outside, row, service, posts, stream, looper
  <2>2. Current'
    <3>1. \A d \in Clients : Latest(d)' = Latest(d)
      <4> SUFFICES ASSUME NEW d \in Clients PROVE Latest(d)' = Latest(d)
        OBVIOUS
      <4>1. CASE d = c
        <5>1. chan[c] \in Seq(Outputs) /\ chan[c] # <<>> /\ chan'[c] = Tail(chan[c])
                /\ shown'[c] = Head(chan[c])
          BY <1>22 DEF ClientReceives, TypeOK
        <5>2. QED BY <4>1, <5>1, LastOfTail DEF Latest
      <4>2. CASE d # c
        BY <1>22, <4>2 DEF ClientReceives, TypeOK, Latest
      <4>3. QED BY <4>1, <4>2
    <3>2. QED BY <1>22, <3>1 DEF ClientReceives, Current, service, stream, looper
  <2>3. Registered' /\ Closing' /\ Paths' /\ StreamedIsStored'
    BY <1>22 DEF ClientReceives, TypeOK, Registered, Closing, Paths, StreamedIsStored,
       outside, row, service, posts, stream, looper
  <2>4. QED BY <2>1, <2>2, <2>3
<1>23. ASSUME NEW c \in Clients, ClientEnds(c) PROVE IInv'
  <2>1. TypeOK'
    BY <1>23 DEF ClientEnds, TypeOK, outside, row, service, posts, stream, looper,
       channel
  <2>2. Registered'
    BY <1>23 DEF ClientEnds, TypeOK, Registered, outside, row, service, posts, stream,
       looper, channel
  <2>3. Closing'
    BY <1>23 DEF ClientEnds, TypeOK, Registered, Closing, outside, row, service, posts,
       stream, looper, channel
  <2>4. Current'
    BY <1>23 DEF ClientEnds, TypeOK, Registered, Current, Latest, outside, row, service,
       posts, stream, looper, channel
  <2>5. Paths' /\ StreamedIsStored'
    BY <1>23 DEF ClientEnds, TypeOK, Paths, StreamedIsStored, outside, row, service,
       posts, stream, looper, channel
  <2>6. QED BY <2>1, <2>2, <2>3, <2>4, <2>5
<1>24. ASSUME NEW c \in Clients, ClientGone(c) PROVE IInv'
  <2>1. TypeOK'
    BY <1>24 DEF ClientGone, TypeOK, outside, row, service, posts, stream, looper,
       channel
  <2>2. Registered'
    BY <1>24 DEF ClientGone, TypeOK, Registered, outside, row, service, posts, stream,
       looper, channel
  <2>3. Closing'
    BY <1>24 DEF ClientGone, TypeOK, Registered, Closing, outside, row, service, posts,
       stream, looper, channel
  <2>4. Current'
    BY <1>24 DEF ClientGone, TypeOK, Registered, Current, Latest, outside, row, service,
       posts, stream, looper, channel
  <2>5. Paths' /\ StreamedIsStored'
    BY <1>24 DEF ClientGone, TypeOK, Paths, StreamedIsStored, outside, row, service,
       posts, stream, looper, channel
  <2>6. QED BY <2>1, <2>2, <2>3, <2>4, <2>5
<1>25. ASSUME NEW c \in Clients, Unsubscribe(c) PROVE IInv'
  <2>1. TypeOK'
    BY <1>25 DEF Unsubscribe, CloseAll, TypeOK, outside, row, posts, looper
  <2>2. Registered'
    BY <1>25 DEF Unsubscribe, CloseAll, TypeOK, Registered, outside, row, posts, looper
  <2>3. Closing'
    BY <1>25 DEF Unsubscribe, CloseAll, TypeOK, Registered, Closing, outside, row,
       posts, looper
  <2>4. Current'
    BY <1>25 DEF Unsubscribe, CloseAll, TypeOK, Registered, Current, Latest, outside,
       row, posts, looper
  <2>5. Paths' /\ StreamedIsStored'
    BY <1>25 DEF Unsubscribe, CloseAll, TypeOK, Paths, StreamedIsStored, outside, row,
       posts, looper
  <2>6. QED BY <2>1, <2>2, <2>3, <2>4, <2>5
<1>26. CASE CloseService
  <2>1. TypeOK'
    BY <1>26 DEF CloseService, CloseAll, TypeOK, outside, row, posts, stream, looper,
       handler
  <2>2. Registered'
    BY <1>26 DEF CloseService, CloseAll, TypeOK, Registered, outside, row, posts,
       stream, looper, handler
  <2>3. Closing'
    <3>1. client' = client /\ CloseAll(subs) /\ subs' = {} /\ UNCHANGED streamSubs
      BY <1>26 DEF CloseService, stream, handler
    <3>2. streamSubs \intersect subs = {}
      BY DEF Registered, TypeOK
    <3>3. QED BY <3>1, <3>2, CloseAllClosing
  <2>4. Current'
    BY <1>26 DEF CloseService, CloseAll, TypeOK, Registered, Current, Latest, outside,
       row, posts, stream, looper, handler
  <2>5. Paths' /\ StreamedIsStored'
    BY <1>26 DEF CloseService, CloseAll, TypeOK, Paths, StreamedIsStored, outside, row,
       posts, stream, looper, handler
  <2>6. QED BY <2>1, <2>2, <2>3, <2>4, <2>5
<1>27. CASE Crash
  <2>1. TypeOK'
    <3>1. crashes' \in Nat /\ launch' \in {"none", "pending", "recorded", "done"}
            /\ {screen', stored', buffer', lastOutput', captured'} \subseteq Outputs
      BY <1>27 DEF Crash, TypeOK
    <3>2. /\ writer' \in [Writers -> {"idle", "read", "halted", "stopping", "done"}]
          /\ post'   \in [Posts -> {"idle", "sent", "stored"}]
          /\ client' \in [Clients -> {"idle", "read", "chosen", "reading", "leaving", "done"}]
      BY <1>27 DEF Crash
    <3>3. QED BY <1>27, <3>1, <3>2 DEF Crash, TypeOK, channel
  <2>2. Registered'
    BY <1>27 DEF Crash, TypeOK, Registered, channel
  <2>3. Closing'
    BY <1>27 DEF Crash, TypeOK, Registered, Closing, channel
  <2>4. Current'
    BY <1>27 DEF Crash, TypeOK, Registered, Current, Latest, channel
  <2>5. Paths'
    BY <1>27 DEF Crash, TypeOK, Paths, channel
  <2>6. StreamedIsStored'
    BY <1>27 DEF Crash, TypeOK, Paths, StreamedIsStored, channel
  <2>7. QED BY <2>1, <2>2, <2>3, <2>4, <2>5, <2>6
<1>28. CASE UNCHANGED vars
  BY <1>28 DEF vars, outside, row, service, posts, stream, looper, handler, channel, TypeOK,
     Registered, Closing, Current, Latest, Paths, StreamedIsStored
<1>29. QED
  BY <1>1, <1>2, <1>3, <1>4, <1>5, <1>6, <1>7, <1>8, <1>9, <1>10, <1>11, <1>12, <1>13,
     <1>14, <1>15, <1>16, <1>17, <1>18, <1>19, <1>20, <1>21, <1>22, <1>23, <1>24, <1>25,
     <1>26, <1>27, <1>28 DEF Next, Post, Streaming, Forwarding

\* The invariant holds in every reachable state.
LEMMA Inductive == Spec => []IInv
  <1>1. QED BY InitIInv, NextIInv, PTL DEF Spec

(* The lists of subscribers, their channels and the row keep their types. *)
THEOREM TypeCorrect == Spec => []TypeOK
  <1>1. IInv => TypeOK
    BY DEF IInv
  <1>2. QED BY <1>1, Inductive, PTL

(* However stops, shutdowns and leaving browsers overlap, no channel is closed
   twice, and none is closed that a publisher can still find. *)
THEOREM NoPanic == Spec => []ChannelsClosedOnce
  <1>1. IInv => ChannelsClosedOnce
    BY DEF IInv, Closing, ChannelsClosedOnce
  <1>2. QED BY <1>1, Inductive, PTL

(* A handler that has ended is in neither list of subscribers. *)
THEOREM NoLeak == Spec => []LeaversForgotten
  <1>1. IInv => LeaversForgotten
    BY DEF IInv, TypeOK, Registered, LeaversForgotten
  <1>2. QED BY <1>1, Inductive, PTL

(* A client that has drained its channel and missed nothing shows what was
   published last. *)
THEOREM CaughtUp == Spec => []DrainedIsCurrent
  <1>1. IInv => DrainedIsCurrent
    BY DEF IInv, Current, Latest, DrainedIsCurrent
  <1>2. QED BY <1>1, Inductive, PTL

(* The row keeps up with the streamer until a stop or a late result writes it
   back. *)
THEOREM StreamKept == Spec => []StreamedIsStored
  <1>1. IInv => StreamedIsStored
    BY DEF IInv
  <1>2. QED BY <1>1, Inductive, PTL
-----------------------------------------------------------------------------
(* The browser's end of the socket is ReconnectingWebSocket, for any number of sockets. *)
(* The callbacks look at two refs only; RefsTell relates what these say to whether the *)
(* component is mounted and enabled. *)

RefsTell ==
  /\ mounted = "no"   => ~timer /\ strayTimers = 0 /\ \A s \in Sockets : socket[s] = "unused"
  /\ mounted = "yes"  => ~unmounted /\ shouldReconnect = enabled
  /\ mounted = "gone" => unmounted /\ wsRef = NoSocket

\* The socket in the ref has been used, so that the next attempt is not with it.
RefUsed == wsRef # NoSocket => socket[wsRef] # "unused"

HookInv == HookTypeOK /\ RefsTell /\ RefNotClosed /\ RefUsed

\* The state before the component is mounted.
LEMMA HookInvInit == HookInit => HookInv
  <1> SUFFICES ASSUME HookInit PROVE HookInv
    OBVIOUS
  <1>1. HookTypeOK
    BY DEF HookInit, HookTypeOK
  <1>2. RefsTell
    BY DEF HookInit, RefsTell
  <1>3. RefNotClosed /\ RefUsed
    BY DEF HookInit, RefNotClosed, RefUsed
  <1>4. QED BY <1>1, <1>2, <1>3 DEF HookInv

\* Rendering runs cleanup and effect, whatever happened before.
LEMMA HookRunEffect ==
  ASSUME HookInv, NEW on \in BOOLEAN, RunEffect(on),
         mounted' = "yes"
  PROVE  HookInv'
  <1>1. HookTypeOK'
    <2>1. RefClosed \in [Sockets -> {"unused", "connecting", "open", "closing", "closed"}]
      BY DEF HookInv, HookTypeOK, RefClosed
    <2>2. CASE on
      <3>1. OpenSocket(RefClosed, NoSocket, FALSE, strayTimers)
        BY <2>2 DEF RunEffect
      <3>2. PICK s \in Unused :
              /\ \E to \in {"connecting", "closed"} : socket' = [RefClosed EXCEPT ![s] = to]
              /\ wsRef' \in {s, NoSocket} /\ state' \in {"connecting", "closed"}
              /\ retryCount' \in {retryCount, retryCount + 1} /\ timer' \in BOOLEAN
              /\ strayTimers' = strayTimers
        BY <3>1 DEF OpenSocket, RetryLater
      <3>3. retryCount' \in Nat /\ strayTimers' \in Nat
        BY <3>2 DEF HookInv, HookTypeOK
      <3>4. QED BY <2>1, <3>2, <3>3 DEF HookInv, HookTypeOK, RunEffect, Unused
    <2>3. CASE ~on
      BY <2>1, <2>3 DEF HookInv, HookTypeOK, RunEffect
    <2>4. QED BY <2>2, <2>3
  <1>2. RefsTell'
    BY DEF RunEffect, RefsTell
  <1>3. RefNotClosed' /\ RefUsed'
    <2>1. CASE on
      <3>1. OpenSocket(RefClosed, NoSocket, FALSE, strayTimers)
        BY <2>1 DEF RunEffect
      <3>2. PICK s \in Unused : /\ wsRef' = s /\ socket' = [RefClosed EXCEPT ![s] = "connecting"]
                                \/ wsRef' = NoSocket
        BY <3>1 DEF OpenSocket
      <3>3. QED BY <3>2 DEF RefNotClosed, RefUsed, Unused, RefClosed
    <2>2. CASE ~on
      BY <2>2 DEF RunEffect, RefNotClosed, RefUsed
    <2>3. QED BY <2>1, <2>2
  <1>4. QED BY <1>1, <1>2, <1>3 DEF HookInv

\* A timer's callback opens a socket only while the effect's refs allow it.
LEMMA HookRetry ==
  ASSUME HookInv, NEW pending \in BOOLEAN, NEW strays \in Nat, Retry(pending, strays),
         mounted = "yes" \/ mounted = "gone",
         UNCHANGED <<mounted, enabled, rendered, shouldReconnect, unmounted>>
  PROVE  HookInv'
  <1>1. CASE ~unmounted /\ shouldReconnect /\ (wsRef = NoSocket \/ ~Live(wsRef))
    <2>1. OpenSocket(socket, wsRef, pending, strays)
      BY <1>1 DEF Retry
    <2>2. PICK s \in Unused :
            /\ \/ socket' = [socket EXCEPT ![s] = "connecting"] /\ wsRef' = s
               \/ socket' = [socket EXCEPT ![s] = "closed"] /\ wsRef' = wsRef
            /\ state' \in {"connecting", "closed"} /\ timer' \in BOOLEAN
            /\ retryCount' \in {retryCount, retryCount + 1}
            /\ strayTimers' \in {strays, strays + 1}
      BY <2>1 DEF OpenSocket, RetryLater
    <2>3. HookTypeOK'
      <3>1. retryCount' \in Nat /\ strayTimers' \in Nat
        BY <2>2 DEF HookInv, HookTypeOK
      <3>2. QED BY <2>2, <3>1 DEF HookInv, HookTypeOK, Unused
    <2>4. RefsTell'
      BY <1>1, <2>2 DEF HookInv, HookTypeOK, RefsTell
    <2>5. RefNotClosed' /\ RefUsed'
      BY <2>2 DEF HookInv, HookTypeOK, RefNotClosed, RefUsed, Unused
    <2>6. QED BY <2>3, <2>4, <2>5 DEF HookInv
  <1>2. CASE ~(~unmounted /\ shouldReconnect /\ (wsRef = NoSocket \/ ~Live(wsRef)))
    <2>1. timer' = pending /\ strayTimers' = strays /\ UNCHANGED <<socket, wsRef, state, retryCount>>
      BY <1>2 DEF Retry
    <2>2. QED BY <2>1 DEF HookInv, HookTypeOK, RefsTell, RefNotClosed, RefUsed
  <1>3. QED BY <1>1, <1>2

\* Every action preserves the invariant.
LEMMA HookInvNext ==
  ASSUME HookInv, [HookNext]_hookVars
  PROVE  HookInv'
<1>1. ASSUME NEW on \in BOOLEAN, Mount(on) \/ PageRenders(on) PROVE HookInv'
  <2>1. RunEffect(on) /\ mounted' = "yes"
    BY <1>1 DEF Mount, PageRenders
  <2>2. QED BY <2>1, HookRunEffect
<1>2. CASE StateRenders
  <2>1. RunEffect(enabled) /\ mounted' = "yes" /\ enabled \in BOOLEAN
    BY <1>2 DEF StateRenders, HookInv, HookTypeOK
  <2>2. QED BY <2>1, HookRunEffect
<1>3. CASE Unmount
  <2>1. HookTypeOK'
    BY <1>3 DEF Unmount, HookInv, HookTypeOK, RefClosed
  <2>2. RefsTell' /\ RefNotClosed' /\ RefUsed'
    BY <1>3 DEF Unmount, RefsTell, RefNotClosed, RefUsed
  <2>3. QED BY <2>1, <2>2 DEF HookInv
<1>4. ASSUME NEW s \in Sockets, Opens(s) PROVE HookInv'
  <2>1. HookTypeOK'
    BY <1>4 DEF Opens, HookInv, HookTypeOK, refs, timers
  <2>2. RefsTell'
    BY <1>4 DEF Opens, HookInv, HookTypeOK, RefsTell, refs, timers
  <2>3. RefNotClosed' /\ RefUsed'
    BY <1>4 DEF Opens, HookInv, HookTypeOK, RefNotClosed, RefUsed, refs
  <2>4. QED BY <2>1, <2>2, <2>3 DEF HookInv
<1>5. ASSUME NEW s \in Sockets, Closes(s) PROVE HookInv'
  <2>1. mounted \in {"yes", "gone"}
    BY <1>5 DEF Closes, HookInv, HookTypeOK, RefsTell
  <2>2. HookTypeOK'
    <3>1. /\ retryCount' \in {retryCount, retryCount + 1} /\ timer' \in BOOLEAN
          /\ strayTimers' \in {strayTimers, strayTimers + 1}
      BY <1>5 DEF Closes, RetryLater, HookInv, HookTypeOK
    <3>2. retryCount' \in Nat /\ strayTimers' \in Nat
      BY <3>1 DEF HookInv, HookTypeOK
    <3>3. QED BY <1>5, <3>1, <3>2 DEF Closes, HookInv, HookTypeOK
  <2>3. RefsTell'
    BY <1>5, <2>1 DEF Closes, HookInv, RefsTell
  <2>4. RefNotClosed' /\ RefUsed'
    BY <1>5, <2>1 DEF Closes, HookInv, HookTypeOK, RefsTell, RefNotClosed, RefUsed
  <2>5. QED BY <2>2, <2>3, <2>4 DEF HookInv
<1>6. CASE TimerFires
  <2>1. mounted \in {"yes", "gone"}
    BY <1>6 DEF TimerFires, HookInv, HookTypeOK, RefsTell
  <2>2. strayTimers \in Nat
    BY DEF HookInv, HookTypeOK
  <2>3. QED BY <1>6, <2>1, <2>2, HookRetry DEF TimerFires
<1>7. CASE StrayTimerFires
  <2>1. mounted \in {"yes", "gone"}
    BY <1>7 DEF StrayTimerFires, HookInv, HookTypeOK, RefsTell
  <2>2. timer \in BOOLEAN /\ strayTimers - 1 \in Nat
    BY <1>7 DEF StrayTimerFires, HookInv, HookTypeOK
  <2>3. QED BY <1>7, <2>1, <2>2, HookRetry DEF StrayTimerFires
<1>8. CASE UNCHANGED hookVars
  BY <1>8 DEF hookVars, refs, timers, HookInv, HookTypeOK, RefsTell, RefNotClosed,
     RefUsed
<1>9. QED
  BY <1>1, <1>2, <1>3, <1>4, <1>5, <1>6, <1>7, <1>8 DEF HookNext

\* The invariant holds in every reachable state.
LEMMA HookInductive == HookSpec => []HookInv
  <1>1. HookInv /\ [HookNext]_hookVars => HookInv'
    BY HookInvNext
  <1>2. QED BY <1>1, HookInvInit, PTL DEF HookSpec

(* The refs, timers and sockets of the hook keep their types. *)
THEOREM HookTyped == HookSpec => []HookTypeOK
  <1>1. HookInv => HookTypeOK
    BY DEF HookInv
  <1>2. QED BY <1>1, HookInductive, PTL

(* wsRef never holds a closed socket, whatever sockets of earlier renders call
   back (useReconnectingWebSocket.ts, onclose). *)
THEOREM RefStaysUsable == HookSpec => []RefNotClosed
  <1>1. HookInv => RefNotClosed
    BY DEF HookInv
  <1>2. QED BY <1>1, HookInductive, PTL

(* No timer and no socket left over from an earlier render opens a connection
   after the component was unmounted or disabled. *)
THEOREM NoUnwantedConnection == HookSpec => OpensOnlyWhenWanted
<1>1. ASSUME HookInv, [HookNext]_hookVars
      PROVE  [(\E s \in Sockets : socket[s] = "unused" /\ socket'[s] # "unused")
                => mounted' = "yes" /\ enabled']_hookVars
  <2> SUFFICES ASSUME NEW s \in Sockets, socket[s] = "unused", socket'[s] # "unused"
               PROVE  mounted' = "yes" /\ enabled'
    OBVIOUS
  <2> socket \in [Sockets -> {"unused", "connecting", "open", "closing", "closed"}]
    BY <1>1 DEF HookInv, HookTypeOK
  <2>1. ASSUME NEW on \in BOOLEAN, RunEffect(on), mounted' = "yes"
        PROVE  mounted' = "yes" /\ enabled'
    <3>1. CASE on
      BY <2>1, <3>1 DEF RunEffect
    <3>2. CASE ~on
      BY <2>1, <3>2 DEF RunEffect, RefClosed, Live
    <3>3. QED BY <3>1, <3>2
  <2>2. CASE \E on \in BOOLEAN : Mount(on) \/ PageRenders(on)
    BY <2>1, <2>2 DEF Mount, PageRenders
  <2>3. CASE StateRenders
    BY <1>1, <2>1, <2>3 DEF StateRenders, HookInv, HookTypeOK
  <2>4. CASE Unmount
    BY <2>4 DEF Unmount, RefClosed, Live
  <2>5. CASE \E t \in Sockets : Opens(t) \/ Closes(t)
    BY <2>5 DEF Opens, Closes
  <2>6. ASSUME NEW pending, NEW strays, Retry(pending, strays), mounted # "no",
               mounted' = mounted, enabled' = enabled
        PROVE  mounted' = "yes" /\ enabled'
    <3>1. ~unmounted /\ shouldReconnect
      BY <2>6 DEF Retry
    <3>2. mounted = "yes"
      BY <1>1, <2>6, <3>1 DEF HookInv, HookTypeOK, RefsTell
    <3>3. QED BY <1>1, <2>6, <3>1, <3>2 DEF HookInv, RefsTell
  <2>9. CASE TimerFires
    <3>1. timer /\ Retry(FALSE, strayTimers) /\ mounted' = mounted /\ enabled' = enabled
      BY <2>9 DEF TimerFires
    <3>2. mounted = "no" => ~timer
      BY <1>1, Zenon DEF HookInv, RefsTell
    <3>3. mounted # "no"
      BY <3>1, <3>2, Zenon
    <3>4. QED BY <2>6, <3>1, <3>3
  <2>10. CASE StrayTimerFires
    <3>1. Retry(timer, strayTimers - 1) /\ mounted' = mounted /\ enabled' = enabled
      BY <2>10 DEF StrayTimerFires
    <3>2. mounted # "no"
      BY <1>1, <2>10 DEF StrayTimerFires, HookInv, RefsTell
    <3>3. QED BY <2>6, <3>1, <3>2
  <2>7. CASE UNCHANGED hookVars
    BY <2>7 DEF hookVars
  <2>8. QED BY <1>1, <2>2, <2>3, <2>4, <2>5, <2>7, <2>9, <2>10 DEF HookNext
<1>2. QED BY <1>1, HookInductive, PTL DEF HookSpec, OpensOnlyWhenWanted
=============================================================================
