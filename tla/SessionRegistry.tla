--------------------------- MODULE SessionRegistry ---------------------------
(***************************************************************************)
(* The Code-side index of external Agent/Loop/Runtime sessions             *)
(* (simplicio-runtime-client/src/session_registry.rs).  Every public       *)
(* operation that takes &mut self is one action; its early returns are its *)
(* disjuncts, in the order the code tests them.  The display metadata and  *)
(* the session kind never change after create and no operation branches on *)
(* them, so a record keeps only the lifecycle, client and cursor fields.   *)
(***************************************************************************)
EXTENDS Integers, FiniteSets

CONSTANTS
    SessionIds,             \* session ids callers may name
    Clients,                \* client ids callers may name
    Hosts,                  \* host_instance_ids callers may name
    ValidIds,               \* the ids validate_id accepts
    MaxSessions,            \* MAX_SESSIONS
    MaxClientsPerSession,   \* MAX_CLIENTS_PER_SESSION
    MaxReplayEvents,        \* MAX_REPLAY_EVENTS
    Times,                  \* values of now_ms
    Cursors,                \* cursors a caller or a response may carry
    Sequences,              \* response sequences a response may carry
    Limits,                 \* replay limits a caller may ask for
    ReportedStatuses,       \* statuses the external authority reports
    Persistent              \* whether a persistence adapter is attached

SessionStatus == {"Active", "Detached", "Paused", "Cancelling", "Cancelled",
                  "Closed", "WaitingApproval", "Blocked", "Failed", "Done",
                  "Degraded"}
TerminalStatuses == {"Cancelled", "Closed", "Failed", "Done"}
\* The statuses whose notification_kind() is Some; a kind is named after it.
NotificationKinds == {"WaitingApproval", "Blocked", "Failed", "Done", "Degraded"}
DegradedReasons == {"StaleCursor", "FutureCursor", "ReplayTooLarge",
                    "HostInstanceMismatch", "DelayedResponse"}
None == "None"

ASSUME RegistryAssumption ==
    /\ IsFiniteSet(SessionIds) /\ IsFiniteSet(Clients)
    /\ MaxSessions \in Nat \ {0}
    /\ MaxClientsPerSession \in Nat \ {0}
    /\ MaxReplayEvents \in Nat \ {0}
    /\ Times \subseteq Nat /\ Cursors \subseteq Nat
    /\ Sequences \subseteq Nat /\ Limits \subseteq Nat
    /\ ReportedStatuses \subseteq SessionStatus
    /\ Persistent \in BOOLEAN

SessionRecord ==
    [status : SessionStatus, blocked : BOOLEAN, lastActivity : Nat,
     host : Hosts \cap ValidIds, cursor : Nat, responseSequence : Nat,
     clients : SUBSET (Clients \cap ValidIds),
     emitted : SUBSET NotificationKinds,
     resync : BOOLEAN, degraded : DegradedReasons \cup {None}]

VARIABLES
    sessions,   \* SessionRegistry.sessions: session id -> record
    saved,      \* the last RegistrySnapshot the persistence adapter kept
    reply       \* the operation that ran last and what it returned

vars == <<sessions, saved, reply>>

Known == DOMAIN sessions
\* fn validate_id.
ValidId(x) == x \in ValidIds
Later(r, now) == IF now > r.lastActivity THEN now ELSE r.lastActivity

Reply(s, op, result) == reply' = [session |-> s, op |-> op, result |-> result]
Put(s, r) == sessions' = [sessions EXCEPT ![s] = r]
Refuse(s, op, error) ==
    /\ Reply(s, op, error)
    /\ UNCHANGED <<sessions, saved>>
Accept(s, op, r) ==
    /\ Put(s, r)
    /\ Reply(s, op, "Ok")
    /\ UNCHANGED saved

\* fn degrade: the record, if there is one, becomes Degraded whatever it was.
Degrade(s, op, reason) ==
    /\ Put(s, [sessions[s] EXCEPT !.status = "Degraded", !.degraded = reason])
    /\ Reply(s, op, reason)
    /\ UNCHANGED saved

\* fn record_mut / get on an id that is not in the map.
Unknown(s, op) ==
    /\ s \notin Known
    /\ Refuse(s, op, "UnknownSession")

------------------------------------------------------------------------------
NewRecord(h, now) ==
    [status |-> "Detached", blocked |-> FALSE, lastActivity |-> now,
     host |-> h, cursor |-> 0, responseSequence |-> 0, clients |-> {},
     emitted |-> {}, resync |-> FALSE, degraded |-> None]

Create(s, h, now) ==
    \/ /\ Cardinality(Known) >= MaxSessions
       /\ Refuse(s, "create", "CapacityExceeded")
    \/ /\ Cardinality(Known) < MaxSessions
       /\ \/ /\ ~(ValidId(s) /\ ValidId(h))
             /\ Refuse(s, "create", "InvalidPayload")
          \/ /\ ValidId(s) /\ ValidId(h)
             /\ s \in Known
             /\ Refuse(s, "create", "DuplicateSession")
          \/ /\ ValidId(s) /\ ValidId(h)
             /\ s \notin Known
             /\ sessions' = [t \in Known \cup {s} |->
                               IF t = s THEN NewRecord(h, now) ELSE sessions[t]]
             /\ Reply(s, "create", "Ok")
             /\ UNCHANGED saved

\* Fault: the capacity test is off by one.
FullAboveMax(r, c) ==
    c \notin r.clients /\ Cardinality(r.clients) > MaxClientsPerSession
\* The capacity test of attach; an attached client may always attach again.
Full(r, c) ==
    c \notin r.clients /\ Cardinality(r.clients) >= MaxClientsPerSession

Attach(s, c, now) ==
    \/ /\ ~ValidId(c)
       /\ Refuse(s, "attach", "InvalidPayload")
    \/ /\ ValidId(c)
       /\ Unknown(s, "attach")
    \/ /\ ValidId(c) /\ s \in Known
       /\ LET r == sessions[s]
              closing == r.status \in TerminalStatuses \cup {"Cancelling"}
          IN \/ /\ closing
                /\ Refuse(s, "attach", "InvalidTransition")
             \/ /\ ~closing /\ Full(r, c)
                /\ Refuse(s, "attach", "CapacityExceeded")
             \/ /\ ~closing /\ ~Full(r, c)
                /\ Accept(s, "attach",
                     [r EXCEPT !.clients = @ \cup {c}, !.status = "Active",
                               !.lastActivity = Later(r, now)])

Detach(s, c, now) ==
    \/ Unknown(s, "detach")
    \/ /\ s \in Known
       /\ LET r == sessions[s]
              left == r.clients \ {c}
          IN Accept(s, "detach",
               [r EXCEPT !.clients = left,
                         !.status = IF left = {} /\ @ = "Active"
                                    THEN "Detached" ELSE @,
                         !.lastActivity = Later(r, now)])

\* fn transition, and the Ok(()) that cancel and close return before it.
Transition(s, op, now, allowed, noop, target) ==
    \/ Unknown(s, op)
    \/ /\ s \in Known
       /\ LET r == sessions[s]
          IN \/ /\ r.status \in noop \cup {target}
                /\ Refuse(s, op, "Ok")
             \/ /\ r.status \notin allowed \cup noop \cup {target}
                /\ Refuse(s, op, "InvalidTransition")
             \/ /\ r.status \in allowed
                /\ Accept(s, op,
                     [r EXCEPT !.status = target,
                               !.lastActivity = Later(r, now),
                               !.clients = IF target = "Closed" THEN {} ELSE @])

Pause(s, now) == Transition(s, "pause", now, {"Active", "Detached"}, {}, "Paused")

Cancel(s, now) ==
    Transition(s, "cancel", now,
               {"Active", "Detached", "Paused", "WaitingApproval", "Blocked", "Degraded"},
               {"Cancelled"}, "Cancelling")

Close(s, now) ==
    Transition(s, "close", now, {"Cancelled", "Failed", "Done"}, {}, "Closed")

Resume(s, now) ==
    \/ Unknown(s, "resume")
    \/ /\ s \in Known
       /\ sessions[s].status # "Paused"
       /\ Refuse(s, "resume", "InvalidTransition")
    \/ /\ s \in Known
       /\ sessions[s].status = "Paused"
       /\ LET r == sessions[s]
          IN Accept(s, "resume",
               [r EXCEPT !.status = IF r.clients = {} THEN "Detached" ELSE "Active",
                         !.lastActivity = Later(r, now)])

\* Fault: the kind is announced but not remembered.
EmittedForgotten(r, status) == r.emitted
\* emitted_notifications after the insert of the status's kind, if it has one.
EmittedAfter(r, status) == r.emitted \cup ({status} \cap NotificationKinds)

ApplyStatus(s, status, blocked, now) ==
    \/ Unknown(s, "apply_status")
    \/ /\ s \in Known
       /\ LET r == sessions[s]
              final == \/ r.status = "Closed"
                       \/ r.status \in TerminalStatuses /\ status # r.status
              fresh == status \in NotificationKinds \ r.emitted
          IN \/ /\ final
                /\ Refuse(s, "apply_status", "InvalidTransition")
             \/ /\ ~final
                /\ Put(s, [r EXCEPT
                     !.status = status,
                     !.blocked = blocked \/ status = "Blocked",
                     !.lastActivity = Later(r, now),
                     !.degraded = None,
                     !.emitted = EmittedAfter(r, status)])
                /\ Reply(s, "apply_status", IF fresh THEN "Notification" ELSE "Ok")
                /\ UNCHANGED saved

------------------------------------------------------------------------------
\* Fault: the cursor of the previous incarnation survives the restart.
ReboundKeepingCursor(r, h) ==
    [r EXCEPT !.host = h, !.responseSequence = 0, !.resync = TRUE, !.degraded = None]
\* Fault: the response sequence of the previous incarnation survives it.
ReboundKeepingSequence(r, h) ==
    [r EXCEPT !.host = h, !.cursor = 0, !.resync = TRUE, !.degraded = None]
\* The record bound to a discovered incarnation that differs from its own.
Rebound(r, h) ==
    [r EXCEPT !.host = h, !.cursor = 0, !.responseSequence = 0,
              !.resync = TRUE, !.degraded = None]

Reconnect(s, discovered, after, limit) ==
    \/ /\ ~ValidId(discovered)
       /\ Refuse(s, "reconnect", "InvalidPayload")
    \/ /\ ValidId(discovered)
       /\ limit \notin 1 .. MaxReplayEvents
       /\ \/ /\ s \in Known
             /\ Degrade(s, "reconnect", "ReplayTooLarge")
          \/ /\ s \notin Known
             /\ Refuse(s, "reconnect", "ReplayTooLarge")
    \/ /\ ValidId(discovered)
       /\ limit \in 1 .. MaxReplayEvents
       /\ \/ Unknown(s, "reconnect")
          \/ /\ s \in Known
             /\ LET r == sessions[s]
                IN \/ /\ r.host # discovered
                      /\ Put(s, Rebound(r, discovered))
                      /\ Reply(s, "reconnect", "Resync")
                      /\ UNCHANGED saved
                   \/ /\ r.host = discovered /\ after < r.cursor
                      /\ Degrade(s, "reconnect", "StaleCursor")
                   \/ /\ r.host = discovered /\ after > r.cursor
                      /\ Degrade(s, "reconnect", "FutureCursor")
                   \/ /\ r.host = discovered /\ after = r.cursor
                      /\ Refuse(s, "reconnect", "Replay")

\* Fault: any other sequence passes for a newer one.
OtherSequence(r, seq) == seq # r.responseSequence
\* The response is numbered after every response applied so far.
NewerSequence(r, seq) == seq > r.responseSequence

\* Fault: the pending resync is not cleared by the replay that completes it.
ReplayedStillResyncing(r, seq, to) ==
    [r EXCEPT !.cursor = to, !.responseSequence = seq, !.degraded = None]
\* The record after an accepted response.
Replayed(r, seq, to) ==
    [r EXCEPT !.cursor = to, !.responseSequence = seq, !.resync = FALSE,
              !.degraded = None]

\* A response numbered like the applied one with another end, or before it.
DelayedReplay(r, seq, to) ==
    \/ seq = r.responseSequence /\ to # r.cursor
    \/ seq < r.responseSequence

ApplyReplay(s, h, seq, from, to) ==
    \/ Unknown(s, "apply_replay")
    \/ /\ s \in Known
       /\ LET r == sessions[s]
              repeated == seq = r.responseSequence /\ to = r.cursor
          IN \/ /\ r.host # h
                /\ Degrade(s, "apply_replay", "HostInstanceMismatch")
             \/ /\ r.host = h /\ repeated
                /\ Refuse(s, "apply_replay", "Ok")
             \/ /\ r.host = h /\ DelayedReplay(r, seq, to)
                /\ Degrade(s, "apply_replay", "DelayedResponse")
             \/ /\ r.host = h /\ NewerSequence(r, seq)
                /\ \/ /\ from < r.cursor
                      /\ Degrade(s, "apply_replay", "StaleCursor")
                   \/ /\ from > r.cursor
                      /\ Degrade(s, "apply_replay", "FutureCursor")
                   \/ /\ from = r.cursor /\ to < from
                      /\ Refuse(s, "apply_replay", "StaleCursor")
                   \/ /\ from = r.cursor /\ to - from > MaxReplayEvents
                      /\ Degrade(s, "apply_replay", "ReplayTooLarge")
                   \/ /\ from = r.cursor /\ to - from \in 0 .. MaxReplayEvents
                      /\ Accept(s, "apply_replay", Replayed(r, seq, to))

------------------------------------------------------------------------------
\* SessionRecord::validate and the checks of restore on a whole snapshot.
RestoreAccepts(snap) ==
    /\ Cardinality(DOMAIN snap) <= MaxSessions
    /\ \A s \in DOMAIN snap :
         /\ \A id \in {s, snap[s].host} \cup snap[s].clients : ValidId(id)
         /\ Cardinality(snap[s].clients) <= MaxClientsPerSession

Snapshot ==
    /\ Persistent
    /\ saved' = sessions
    /\ UNCHANGED <<sessions, reply>>

\* Fault: the cursors are not part of what is read back.
RestoreWithoutCursors ==
    /\ Persistent
    /\ RestoreAccepts(saved)
    /\ sessions' = [s \in DOMAIN saved |-> [saved[s] EXCEPT !.cursor = 0]]
    /\ reply' = [session |-> None, op |-> "restore", result |-> "Ok"]
    /\ UNCHANGED saved
\* The process restarts and reads back the last snapshot; on a snapshot that
\* restore refuses there is no registry to continue with.
Restore ==
    /\ Persistent
    /\ RestoreAccepts(saved)
    /\ sessions' = saved
    /\ reply' = [session |-> None, op |-> "restore", result |-> "Ok"]
    /\ UNCHANGED saved

Init ==
    /\ sessions = [s \in {} |-> NewRecord(None, 0)]
    /\ saved = sessions
    /\ reply = [session |-> None, op |-> "new", result |-> "Ok"]

Lifecycle(s) ==
    \E now \in Times :
      \/ \E h \in Hosts : Create(s, h, now)
      \/ \E c \in Clients : Attach(s, c, now) \/ Detach(s, c, now)
      \/ Pause(s, now) \/ Resume(s, now) \/ Cancel(s, now) \/ Close(s, now)
      \/ \E status \in ReportedStatuses, blocked \in BOOLEAN :
            ApplyStatus(s, status, blocked, now)

Replay(s) ==
    \/ \E h \in Hosts, after \in Cursors, limit \in Limits :
          Reconnect(s, h, after, limit)
    \/ \E h \in Hosts, seq \in Sequences, from, to \in Cursors :
          ApplyReplay(s, h, seq, from, to)

Next ==
    \/ \E s \in SessionIds : Lifecycle(s) \/ Replay(s)
    \/ Snapshot
    \/ Restore

Spec == Init /\ [][Next]_vars

------------------------------------------------------------------------------
Results == {"Ok", "Notification", "Resync", "Replay",
            "InvalidPayload", "UnknownSession", "DuplicateSession",
            "CapacityExceeded", "InvalidTransition"} \cup DegradedReasons
Operations == {"new", "create", "attach", "detach", "pause", "resume", "cancel",
               "close", "apply_status", "reconnect", "apply_replay", "restore"}

\* A registry content: some of the nameable ids, each with a well-formed record.
IsRegistry(m) ==
    /\ DOMAIN m \subseteq SessionIds
    /\ m \in [DOMAIN m -> SessionRecord]

(* The registry and the kept snapshot hold only well-formed records with
   validated host and client ids, and every operation returns one of its
   declared results. *)
TypeOK ==
    /\ IsRegistry(sessions)
    /\ IsRegistry(saved)
    /\ reply \in [session : SessionIds \cup {None}, op : Operations, result : Results]

(* restore() never rejects a snapshot that this registry produced: no sequence
   of create and attach calls, before or after earlier restores, exceeds the
   capacity or admits an id that SessionRecord::validate would refuse. *)
SnapshotRestorable == RestoreAccepts(saved)

\* The replay position of one record agrees with how it was reached.
PositionConsistent(r) ==
    /\ r.responseSequence = 0 => r.cursor = 0
    /\ r.resync => r.cursor = 0 /\ r.responseSequence = 0

(* A cursor past zero was set by a numbered response, and while a host_restart
   resync is pending nothing of the new incarnation has been applied, in the
   live registry and in the kept snapshot, whatever responses of earlier
   incarnations arrive between reconnect and apply_replay. *)
ReplayPositionSound ==
    /\ \A s \in Known : PositionConsistent(sessions[s])
    /\ \A s \in DOMAIN saved : PositionConsistent(saved[s])

AnnouncedStatuses == {"WaitingApproval", "Blocked", "Failed", "Done"}

Announced(r) ==
    /\ r.status \in AnnouncedStatuses => r.status \in r.emitted
    /\ r.status = "Blocked" => r.blocked

(* No session needs attention silently: one that is WaitingApproval, Blocked,
   Failed or Done has had its notification emitted, and the deduplication set
   says so even after attach, degrade, replay and restore ran in between. *)
AttentionAnnounced ==
    /\ \A s \in Known : Announced(sessions[s])
    /\ \A s \in DOMAIN saved : Announced(saved[s])

Restoring == reply'.op = "restore"

(* While the registry runs, a response moves the cursor only forward, by at
   most MAX_REPLAY_EVENTS, and only under a response sequence greater than any
   applied for this incarnation; every rejected call leaves host, cursor and
   sequence alone ("degrade ... while preserving the last cursor"). *)
ResponsesApplyInOrder ==
    [][~Restoring => \A s \in Known :
         LET r == sessions[s]
             q == sessions'[s]
         IN /\ q.host = r.host =>
                 \/ q.cursor = r.cursor /\ q.responseSequence = r.responseSequence
                 \/ /\ q.responseSequence > r.responseSequence
                    /\ q.cursor - r.cursor \in 0 .. MaxReplayEvents
                    /\ reply'.op = "apply_replay" /\ reply'.result = "Ok"
            /\ q.host # r.host => q.cursor = 0 /\ q.resync]_vars

\* The part of the record that the replay protocol is about.
Position(m) == [s \in DOMAIN m |-> [host |-> m[s].host, cursor |-> m[s].cursor]]

Stream == INSTANCE ReplayStream WITH
            MaxBatch <- MaxReplayEvents,
            Ids <- SessionIds,
            position <- Position(sessions),
            checkpoint <- Position(saved)

(* Whatever the callers and the hosts do, each session consumes its host's
   event log as the abstract stream does: contiguous bounded batches, a reset
   to zero on a new incarnation, a return to the checkpoint on restore. *)
ImplementsStream == Stream!Spec
==============================================================================
