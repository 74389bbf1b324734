---------------------------- MODULE SessionReplay ----------------------------
(***************************************************************************)
(* SessionRegistry composed with what surrounds it: a host that appends to *)
(* an event log and restarts as a new incarnation, surfaces that discover  *)
(* the host first and call reconnect some time later, and replay responses *)
(* that arrive late, repeatedly, in any order or never.  The host and the  *)
(* wire are external to the repository; they are modelled from the         *)
(* arguments that reconnect and apply_replay take.                         *)
(***************************************************************************)
EXTENDS SessionRegistry, Sequences

CONSTANTS
    Sid,            \* the session under observation
    Incarnations,   \* the host_instance_ids, in the order the host has them
    MaxLog,         \* bound: events per incarnation
    Batch           \* the replay_limit the surfaces ask for

ASSUME ReplayAssumption ==
    /\ Sid \in SessionIds /\ ValidId(Sid)
    /\ Incarnations \in Seq(Hosts \cap ValidIds) /\ Len(Incarnations) > 0
    /\ MaxLog \in Nat /\ Batch \in 1 .. MaxReplayEvents

VARIABLES
    live,    \* index of the incarnation that runs now
    log,     \* incarnation -> number of events it has logged
    found,   \* surface -> the host and cursor it discovered, not yet used
    asked,   \* replay requests sent to a host
    wire,    \* replay responses sent by a host; delivery does not remove one
    taken    \* events taken since the session was last bound to a host

replayVars == <<sessions, saved, reply, live, log, found, asked, wire, taken>>

LiveHost == Incarnations[live]
Record == sessions[Sid]
Nothing == [host |-> None, after |-> 0]

HostAppend ==
    /\ log[LiveHost] < MaxLog
    /\ log' = [log EXCEPT ![LiveHost] = @ + 1]
    /\ UNCHANGED <<vars, live, found, asked, wire, taken>>

HostRestart ==
    /\ live < Len(Incarnations)
    /\ live' = live + 1
    /\ UNCHANGED <<vars, log, found, asked, wire, taken>>

\* A surface reads the running host's id and the cursor the registry shows.
Discover(c) ==
    /\ found[c] = Nothing
    /\ found' = [found EXCEPT ![c] = [host |-> LiveHost, after |-> Record.cursor]]
    /\ UNCHANGED <<vars, live, log, asked, wire, taken>>

\* Later it calls reconnect with what it read, and asks for what it is told to.
ReconnectFrom(c) ==
    /\ found[c] # Nothing
    /\ Reconnect(Sid, found[c].host, found[c].after, Batch)
    /\ found' = [found EXCEPT ![c] = Nothing]
    /\ asked' = IF reply'.result \in {"Replay", "Resync"}
                THEN asked \cup {[host |-> found[c].host, from |-> Record.cursor']}
                ELSE asked
    /\ taken' = IF reply'.result = "Resync" THEN <<>> ELSE taken
    /\ UNCHANGED <<live, log, wire>>

\* The running host answers a request with some of the events that follow it.
Answer(q) ==
    /\ q.host = LiveHost
    /\ \A m \in wire : <<m.host, m.from>> # <<q.host, q.from>>
    /\ \E to \in q.from + 1 .. q.from + Batch :
         /\ to <= log[q.host]
         /\ wire' = wire \cup
              {[host |-> q.host, from |-> q.from, to |-> to,
                seq |-> Cardinality({m \in wire : m.host = q.host}) + 1]}
    /\ UNCHANGED <<vars, live, log, found, asked, taken>>

Deliver(m) ==
    /\ ApplyReplay(Sid, m.host, m.seq, m.from, m.to)
    /\ taken' = IF Record.responseSequence' # Record.responseSequence
                THEN taken \o [i \in 1 .. (m.to - m.from) |-> m.from + i]
                ELSE taken
    /\ UNCHANGED <<live, log, found, asked, wire>>

\* The delivery of a response that continues the session's cursor.
DeliverNext ==
    \E m \in wire :
      /\ m.host = Record.host /\ m.from = Record.cursor
      /\ m.seq > Record.responseSequence
      /\ Deliver(m)

ReplayInit ==
    /\ sessions = [s \in {Sid} |-> NewRecord(Incarnations[1], 0)]
    /\ saved = sessions
    /\ reply = [session |-> Sid, op |-> "create", result |-> "Ok"]
    /\ live = 1
    /\ log = [h \in Hosts |-> 0]
    /\ found = [c \in Clients |-> Nothing]
    /\ asked = {} /\ wire = {}
    /\ taken = <<>>

ReplayNext ==
    \/ HostAppend
    \/ HostRestart
    \/ \E c \in Clients : Discover(c) \/ ReconnectFrom(c)
    \/ \E q \in asked : Answer(q)
    \/ \E m \in wire : Deliver(m)

ReplaySpec == ReplayInit /\ [][ReplayNext]_replayVars

(* Surfaces keep reconnecting, the running host answers, and of the responses
   on the wire the one that continues the cursor is not withheld forever.
   Appends and restarts are under no obligation. *)
ReplayFairness ==
    /\ \A c \in Clients : WF_replayVars(Discover(c)) /\ WF_replayVars(ReconnectFrom(c))
    /\ WF_replayVars(\E q \in asked : Answer(q))
    /\ WF_replayVars(DeliverNext)

FairReplaySpec == ReplaySpec /\ ReplayFairness

------------------------------------------------------------------------------
(* Between two resyncs the session has taken exactly the first `cursor` events
   of the incarnation it is bound to, in order, none twice and none skipped,
   and never more than that incarnation logged, however responses of this and
   of earlier incarnations are delayed, repeated and reordered. *)
TakenIsPrefix ==
    /\ taken = [i \in 1 .. Record.cursor |-> i]
    /\ Record.cursor <= log[Record.host]

(* A session is never stuck behind its host: once the host stops restarting
   and appending, the session is bound to it and has taken all its events,
   also after stale discoveries and responses degraded it. *)
CatchesUp == <>[](Record.host = LiveHost /\ Record.cursor = log[LiveHost])
==============================================================================
