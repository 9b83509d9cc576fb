---------------------------- MODULE EventStream ----------------------------
(***************************************************************************)
(* The event stream of one session: streamSessionEvents of packages/api/   *)
(* http over replaySessionEvents of packages/api/sdk, the session it       *)
(* follows while it is live, closed, resumed or lost with the process, and *)
(* one web client that reconnects with Last-Event-ID.                      *)
(*                                                                         *)
(* An event is its place in the log (seq), the process that appended it    *)
(* (epoch) and whether it was published on session/event: a constructor    *)
(* seed, its end marker and the closers of a repair never are.  A frame    *)
(* with seq -1 is the snapshot that opens a stream.                        *)
(***************************************************************************)
EXTENDS Integers, Sequences, FiniteSets, SequencesExt

CONSTANTS
  Conns,         \* connections the client may open, in this order
  MaxEvents,     \* bound on the log
  MaxCrashes,    \* bound on deaths of the process
  MaxCloses,     \* bound on closing the session
  MaxFaults      \* bound on replays that fail for another reason

ASSUME StreamAssumption ==
  /\ Conns \subseteq Nat /\ IsFiniteSet(Conns)
  /\ {MaxEvents, MaxCrashes, MaxCloses, MaxFaults} \subseteq Nat

VARIABLES
  log,        \* the events of the session, in memory or stored
  durable,    \* how many of them are stored
  live,       \* whether the session is in the store of live sessions
  open,       \* whether a crash left the last turn open
  epoch,      \* deaths of the process
  conn,       \* Conns -> one request for the stream and its handler
  client,     \* openEventStream, and the events it handed on
  used        \* closes and faults so far

vars == <<log, durable, live, open, epoch, conn, client, used>>

Event(n, published) == [seq |-> n, epoch |-> epoch, published |-> published]
Snapshot == [seq |-> -1, epoch |-> epoch, published |-> FALSE]
Extended(events, published) == Append(events, Event(Len(events), published))

\* What persistence.load hands over: a turn a crash left open is closed first
Repaired == IF open THEN Extended(log, FALSE) ELSE log

NoConn == [at |-> "unused", after |-> -1, sub |-> FALSE, buffered |-> <<>>,
           replay |-> <<>>, cut |-> FALSE, wire |-> <<>>]

Init ==
  /\ log = <<>> /\ durable = 0 /\ live = TRUE /\ open = FALSE /\ epoch = 0
  /\ conn = [c \in Conns |-> NoConn]
  /\ client = [at |-> "waiting", conn |-> 0, last |-> -1, got |-> <<>>]
  /\ used = [closes |-> 0, faults |-> 0]

-----------------------------------------------------------------------------
(* The session *)

\* Mutation: an event published while a replay is awaited is dropped.
DropWhileReplaying(k, event) == IF k.at = "open" THEN [k EXCEPT !.wire = Append(@, event)] ELSE k

\* The subscription handler: buffer until the replay is done, then write.  What
\* is written to a connection that broke goes nowhere.
Notify(k, event) ==
  CASE ~k.sub -> k
    [] k.sub /\ k.at = "open" /\ ~k.cut -> [k EXCEPT !.wire = Append(@, event)]
    [] k.sub /\ k.at # "open" -> [k EXCEPT !.buffered = Append(@, event)]
    [] OTHER -> k

Publish ==
  /\ live /\ Len(log) < MaxEvents
  /\ log' = Extended(log, TRUE)
  /\ conn' = [c \in Conns |-> Notify(conn[c], Last(log'))]
  /\ UNCHANGED <<durable, live, open, epoch, client, used>>

\* Write-behind stored what the session holds
Flush ==
  /\ live /\ durable < Len(log)
  /\ durable' = Len(log)
  /\ UNCHANGED <<log, live, open, epoch, conn, client, used>>

\* closeSession flushes before the session leaves the store
CloseSession ==
  /\ live /\ used.closes < MaxCloses
  /\ durable' = Len(log)
  /\ live' = FALSE
  /\ used' = [used EXCEPT !.closes = @ + 1]
  /\ UNCHANGED <<log, open, epoch, conn, client>>

\* resumeSession: the loaded events seed a new live session, whose constructor
\* marks the end of the seed before anyone can observe it
ResumeSession ==
  /\ ~live /\ log # <<>> /\ Len(log) < MaxEvents
  /\ log' = Extended(Repaired, FALSE)
  /\ durable' = Len(Repaired)
  /\ live' = TRUE /\ open' = FALSE
  /\ UNCHANGED <<epoch, conn, client, used>>

\* The process dies: what was not stored is gone, and so is every connection
Crash ==
  /\ epoch < MaxCrashes
  /\ epoch' = epoch + 1
  /\ log' = SubSeq(log, 1, durable)
  /\ live' = FALSE
  /\ open' \in {b \in BOOLEAN : b => durable > 0}
  /\ conn' = [c \in Conns |-> IF conn[c].at = "unused" THEN NoConn
                              ELSE [NoConn EXCEPT !.at = "ended", !.cut = TRUE]]
  /\ client' = IF client.at = "closed" THEN client ELSE [client EXCEPT !.at = "waiting"]
  /\ UNCHANGED <<durable, used>>

-----------------------------------------------------------------------------
(* streamSessionEvents and replaySessionEvents *)

Beyond(events, after) == SelectSeq(events, LAMBDA e : e.seq > after)

Current == client.conn
Connected == client.at = "reading"

\* The request is routed: subscribe, then ask for the replay, which a live
\* session answers from its log at once
Handle(c) ==
  /\ conn[c].at = "requested"
  /\ conn' = [conn EXCEPT ![c] = [@ EXCEPT
       !.sub = TRUE,
       !.at = IF live THEN "replayed" ELSE "loading",
       !.replay = IF live THEN Beyond(log, conn[c].after) ELSE <<>>]]
  /\ UNCHANGED <<log, durable, live, open, epoch, client, used>>

\* persistence.load of a session that was not live when it was asked for.  It
\* repairs the stored log; a session that became live answers from memory.
LoadStored(c) ==
  /\ conn[c].at = "loading" /\ log # <<>>
  /\ log' = Repaired
  /\ durable' = IF live THEN durable ELSE Len(Repaired)
  /\ open' = FALSE
  /\ conn' = [conn EXCEPT ![c].at = "replayed", ![c].replay = Beyond(Repaired, conn[c].after)]
  /\ UNCHANGED <<live, epoch, client, used>>

\* The load rejects: nothing is stored, a turn of a live session is open, or the
\* storage is busy.  The request is answered with an error; its subscription stays.
ReplayFails(c) ==
  /\ conn[c].at = "loading"
  /\ \/ log = <<>> /\ UNCHANGED used
     \/ log # <<>> /\ used.faults < MaxFaults /\ used' = [used EXCEPT !.faults = @ + 1]
  /\ conn' = [conn EXCEPT ![c].at = "refused"]
  /\ client' = IF Current = c /\ Connected THEN [client EXCEPT !.at = "waiting"] ELSE client
  /\ UNCHANGED <<log, durable, live, open, epoch>>

\* Mutation: buffered events are written whether or not the replay had them.
AlwaysFresh(k, event) == TRUE

\* Whether a buffered event is neither replayed nor known to the client
Fresh(k, event) == event.seq > k.after /\ event \notin Range(k.replay)

\* The replay is there: snapshot, replay, what was buffered.  Only now is the
\* close listener registered: a connection cut before keeps its subscription.
Reply(c) ==
  LET k == conn[c]
      frames == <<Snapshot>> \o k.replay \o SelectSeq(k.buffered, LAMBDA e : Fresh(k, e)) IN
  /\ k.at = "replayed"
  /\ conn' = [conn EXCEPT ![c] = [k EXCEPT !.at = "open", !.buffered = <<>>, !.replay = <<>>,
                                           !.wire = IF k.cut THEN <<>> ELSE frames]]
  /\ UNCHANGED <<log, durable, live, open, epoch, client, used>>

\* The connection breaks; frames under way are lost
Cut(c) ==
  LET k == conn[c] IN
  /\ Current = c /\ Connected
  /\ conn' = [conn EXCEPT ![c].cut = TRUE, ![c].wire = <<>>,
                          ![c].sub = @ /\ k.at # "open"]
  /\ client' = [client EXCEPT !.at = "waiting"]
  /\ UNCHANGED <<log, durable, live, open, epoch, used>>

-----------------------------------------------------------------------------
(* The client *)

\* One turn of the loop of openEventStream, after its delay
Connect ==
  /\ client.at = "waiting" /\ client.conn + 1 \in Conns
  /\ client' = [client EXCEPT !.at = "reading", !.conn = @ + 1]
  /\ conn' = [conn EXCEPT ![client.conn + 1] =
                [NoConn EXCEPT !.at = "requested", !.after = client.last]]
  /\ UNCHANGED <<log, durable, live, open, epoch, used>>

Remember(last, frame) == IF frame.seq >= 0 THEN frame.seq ELSE last

Deliver ==
  LET frame == Head(conn[Current].wire) IN
  /\ client.at = "reading" /\ conn[Current].wire # <<>>
  /\ conn' = [conn EXCEPT ![Current].wire = Tail(@)]
  /\ client' = [client EXCEPT
       !.last = Remember(@, frame),
       !.got = IF frame.seq = -1 THEN @ ELSE Append(@, frame)]
  /\ UNCHANGED <<log, durable, live, open, epoch, used>>

Next ==
  \/ Publish \/ Flush \/ CloseSession \/ ResumeSession \/ Crash
  \/ \E c \in Conns : Handle(c) \/ LoadStored(c) \/ ReplayFails(c) \/ Reply(c) \/ Cut(c)
  \/ Connect \/ Deliver

\* Request handlers run to their end, the network delivers and the client
\* reconnects.  Nobody owes an event, a flush, a close or a resume.
Fairness ==
  /\ \A c \in Conns : /\ WF_vars(Handle(c))
                      /\ WF_vars(LoadStored(c) \/ ReplayFails(c))
                      /\ WF_vars(Reply(c))
  /\ WF_vars(Connect) /\ WF_vars(Deliver)

Spec == Init /\ [][Next]_vars /\ Fairness
-----------------------------------------------------------------------------
(* Properties *)

\* A client that is ahead of a crash has events the log no longer has.
Forked == \E n \in 1..Len(client.got) : client.got[n] \notin Range(log)

Published == {e \in Range(log) : e.published}

\* What a client received over all its connections is in the order of the log,
\* nothing twice, and misses nothing that was published up to its last event.
DeliveredExactlyOnce ==
  ~Forked =>
    /\ \A m, n \in 1..Len(client.got) : m < n => client.got[m].seq < client.got[n].seq
    /\ \A e \in Published : e.seq <= client.last => e \in Range(client.got)

\* A client that may reconnect catches up with everything published.
CatchesUp ==
  []<>(\/ Forked
       \/ client.at = "waiting" /\ client.conn + 1 \notin Conns
       \/ Published \subseteq Range(client.got))

=============================================================================
