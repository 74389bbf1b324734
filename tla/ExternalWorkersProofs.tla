------------------------ MODULE ExternalWorkersProofs ------------------------
(***************************************************************************)
(* Proofs about the views that a surface keeps of work elsewhere.          *)
(*                                                                         *)
(* ExternalWorkers, for any tasks, events, answers of the Hub and          *)
(* interleavings of its log with the polls: the inductive invariant says   *)
(* that every event between the cursor and the end of the answer is still  *)
(* to be applied or shown by the view, so that the cursor may move once    *)
(* the answer is used up, and that what is shown was logged.  The cycle    *)
(* check of a plan is compared with what it is for, an order of execution. *)
(*                                                                         *)
(* WorkspaceViews, for any log, pages and bound of the history: of a page  *)
(* kept for later it is enough to know that its events were logged.        *)
(***************************************************************************)
EXTENDS ExternalWorkers, WorkspaceViews, FiniteSetTheorems, SequenceTheorems,
        WellFoundedInduction, TLAPS

\* The view shows events of the log, of their own tasks, that passed the checks.
StatusesLogged ==
    \A t \in Tasks : statuses[t] # None =>
        \E p \in 1..Len(log) : log[p] = statuses[t] /\ log[p].task = t /\ log[p].valid

\* The events still to be applied in the poll under way.
ToDo == {poll.todo[n] : n \in DOMAIN poll.todo}

\* What lies between the cursor and the end of the answer is to do or is shown.
PollCovers ==
    poll # None =>
        \A p \in next + 1..poll.upto : p \in ToDo \/ (p <= poll.previous /\ ShownSince(p))

ViewInv == StatusesLogged /\ PollCovers /\ ViewNotBehindCursor /\ LeasesExclusive
CallInv == DeliveriesWereDone /\ MutationsNotRepeated
IInv == WorkersTypeOK /\ ViewInv /\ CallInv

\* Events have the fields of their type.
LEMMA EventFields ==
    ASSUME NEW e \in WorkerEvents
    PROVE  /\ e # None /\ e.task \in Tasks /\ e.state \in WorkerState
           /\ e.attempt \in Nat /\ e.fence \in Nat /\ e.valid \in BOOLEAN
  BY WorkersAssumption

(* At first there is no view, no log and no call. *)
LEMMA InitIInv == WorkersInit => IInv
  <1> SUFFICES ASSUME WorkersInit PROVE IInv
    OBVIOUS
  <1>1. WorkersTypeOK
    <2>1. log \in Seq(WorkerEvents) /\ next \in 0..Len(log)
      BY DEF WorkersInit
    <2>2. statuses \in [Tasks -> WorkerEvents \cup {None}]
      BY DEF WorkersInit, Blank
    <2>3. attached \in BOOLEAN
      BY DEF WorkersInit
    <2>4. poll = None /\ channel \in {"up", "down"} /\ plan = None
      BY DEF WorkersInit
    <2>5. calls \in Nat /\ handled \in Seq(HubRequest)
      BY DEF WorkersInit
    <2> QED
      BY <2>1, <2>2, <2>3, <2>4, <2>5 DEF WorkersTypeOK
  <1>2. ViewInv
    BY DEF WorkersInit, ViewInv, StatusesLogged, PollCovers, ViewNotBehindCursor,
           LeasesExclusive, Blank
  <1>3. CallInv
    BY DEF WorkersInit, CallInv, DeliveriesWereDone, MutationsNotRepeated
  <1> QED
    BY <1>1, <1>2, <1>3 DEF IInv

\* What is shown of the log stays shown when the log grows.
LEMMA LogGrows ==
    ASSUME WorkersTypeOK, NEW e \in WorkerEvents, log' = Append(log, e)
    PROVE  /\ Len(log') = Len(log) + 1 /\ log' \in Seq(WorkerEvents)
           /\ \A p \in 1..Len(log) : log'[p] = log[p]
  BY DEF WorkersTypeOK

(* The Hub keeps the inductive invariant: it only adds to the log. *)
LEMMA HubLogsKeepsIInv ==
    ASSUME IInv, NEW e \in WorkerEvents, HubLogs(e) PROVE IInv'
  <1> USE DEF IInv
  <1>1. /\ log' = Append(log, e)
        /\ attached' = attached /\ next' = next /\ statuses' = statuses /\ poll' = poll
        /\ channel' = channel /\ plan' = plan /\ calls' = calls /\ handled' = handled
    BY DEF HubLogs, viewVars
  <1>2. /\ Len(log') = Len(log) + 1 /\ log' \in Seq(WorkerEvents) /\ Len(log) \in Nat
        /\ \A p \in 1..Len(log) : log'[p] = log[p]
    BY <1>1, LogGrows DEF WorkersTypeOK
  <1>3. WorkersTypeOK'
    <2>1. next \in 0..Len(log) /\ next' \in 0..Len(log')
      BY <1>1, <1>2 DEF WorkersTypeOK
    <2>2. poll # None => poll' \in [upto : next'..Len(log'), todo : Seq(1..Len(log')),
                                    previous : next'..Len(log')]
      <3> SUFFICES ASSUME poll # None
                   PROVE  poll \in [upto : next..Len(log) + 1, todo : Seq(1..Len(log) + 1),
                                    previous : next..Len(log) + 1]
        BY <1>1, <1>2
      <3>1. poll \in [upto : next..Len(log), todo : Seq(1..Len(log)), previous : next..Len(log)]
        BY DEF WorkersTypeOK
      <3>2. poll.todo \in Seq(1..Len(log) + 1)
        BY <1>2, <3>1
      <3> QED
        BY <1>2, <2>1, <3>1, <3>2
    <2> QED
      BY <1>1, <1>2, <2>1, <2>2 DEF WorkersTypeOK
  <1>4. \A p \in 1..Len(log) : ShownSince(p) => ShownSince(p)'
    BY <1>1, <1>2 DEF ShownSince
  <1>5. ViewInv'
    <2>1. StatusesLogged'
      BY <1>1, <1>2 DEF ViewInv, StatusesLogged
    <2>2. PollCovers'
      BY <1>1, <1>2, <1>4 DEF ViewInv, PollCovers, ToDo, WorkersTypeOK
    <2>3. ViewNotBehindCursor'
      BY <1>1, <1>2, <1>4 DEF ViewInv, ViewNotBehindCursor, WorkersTypeOK
    <2>4. LeasesExclusive'
      BY <1>1 DEF ViewInv, LeasesExclusive
    <2> QED
      BY <2>1, <2>2, <2>3, <2>4 DEF ViewInv
  <1>6. CallInv'
    BY <1>1, <1>2 DEF CallInv, DeliveriesWereDone, MutationsNotRepeated
  <1> QED
    BY <1>3, <1>5, <1>6

(* A view that starts over has nothing to be behind of. *)
LEMMA FreshKeepsIInv ==
    ASSUME IInv, attach \/ Restart PROVE IInv'
  <1> USE DEF IInv
  <1>1. /\ attached' \in BOOLEAN /\ next' = 0 /\ statuses' = Blank /\ poll' = None
        /\ log' = log /\ channel' = channel /\ plan' = plan /\ calls' = calls
        /\ handled' = handled
    BY DEF attach, Restart, Fresh
  <1>2. WorkersTypeOK'
    <2>1. next' \in 0..Len(log')
      BY <1>1 DEF WorkersTypeOK
    <2>2. statuses' \in [Tasks -> WorkerEvents \cup {None}]
      BY <1>1 DEF Blank
    <2> QED
      BY <1>1, <2>1, <2>2 DEF WorkersTypeOK
  <1>3. ViewInv'
    BY <1>1 DEF ViewInv, StatusesLogged, PollCovers, ViewNotBehindCursor, LeasesExclusive,
                Blank, WorkersTypeOK
  <1>4. CallInv'
    BY <1>1 DEF CallInv, DeliveriesWereDone, MutationsNotRepeated
  <1> QED
    BY <1>2, <1>3, <1>4

\* A request that is not repeated reaches the Hub at most once.
LEMMA CallOnce ==
    ASSUME WorkersTypeOK, NEW request \in HubRequest, NEW answered \in BOOLEAN,
           Call(request, answered), MutationsNotRepeated
    PROVE  /\ handled' \in Seq(HubRequest) /\ calls' \in Nat /\ MutationsNotRepeated'
           /\ channel' \in {"up", "down"}
           /\ \A n \in DOMAIN handled' :
                \/ n \in DOMAIN handled /\ handled'[n] = handled[n]
                \/ handled'[n] = request
  <1>1. PICK times \in 0..2 : /\ rpc(MutatingReplaySafe, times, answered)
                               /\ handled' = handled \o [n \in 1..times |-> request]
    BY DEF Call
  <1>2. times \in {0, 1}
    BY <1>1 DEF rpc, MutatingReplaySafe, Reaches
  <1>3. channel' \in {"up", "down"}
    BY <1>1 DEF rpc
  <1> DEFINE sends == [n \in 1..times |-> request]
  <1>4. sends \in Seq(HubRequest) /\ Len(sends) = times /\ \A n \in 1..times : sends[n] = request
    BY <1>2
  <1>5. handled' = handled \o sends
    BY <1>1
  <1> HIDE DEF sends
  <1>6. /\ handled' \in Seq(HubRequest) /\ Len(handled') = Len(handled) + times
        /\ \A n \in DOMAIN handled' :
                \/ n \in DOMAIN handled /\ handled'[n] = handled[n]
                \/ handled'[n] = request
    BY <1>2, <1>4, <1>5 DEF WorkersTypeOK
  <1>7. calls' = calls + 1 /\ calls' \in Nat
    BY DEF Call, WorkersTypeOK
  <1> QED
    BY <1>2, <1>3, <1>6, <1>7 DEF MutationsNotRepeated, WorkersTypeOK

\* A step that keeps the log and the view keeps the invariant of the view.
LEMMA SameView ==
    ASSUME ViewInv, log' = log, UNCHANGED viewVars PROVE ViewInv'
  BY DEF ViewInv, viewVars, StatusesLogged, PollCovers, ToDo, ViewNotBehindCursor,
         ShownSince, LeasesExclusive

(* delegate, cancel and deliver keep the inductive invariant: the Hub gets a call
   at most once, and a delivery only of what the log says was done. *)
LEMMA DelegateKeepsIInv ==
    ASSUME IInv, NEW dependencies \in [Tasks -> SUBSET Tasks],
           NEW answered \in BOOLEAN, NEW complete \in BOOLEAN,
           delegate(dependencies, answered, complete)
    PROVE  IInv'
  <1> USE DEF IInv
  <1> DEFINE request == [method |-> "delegate"]
  <1>1. request \in HubRequest /\ request.method = "delegate"
    BY DEF HubRequest
  <1>2. Call(request, answered) /\ log' = log /\ plan' \in {dependencies, plan}
    BY DEF delegate
  <1> HIDE DEF request
  <1>3. /\ handled' \in Seq(HubRequest) /\ calls' \in Nat /\ MutationsNotRepeated'
        /\ channel' \in {"up", "down"}
        /\ \A n \in DOMAIN handled' :
                \/ n \in DOMAIN handled /\ handled'[n] = handled[n]
                \/ handled'[n] = request
    BY <1>1, <1>2, CallOnce DEF CallInv
  <1>4. CallInv'
    BY <1>1, <1>2, <1>3 DEF CallInv, DeliveriesWereDone
  <1>5. plan' \in [Tasks -> SUBSET Tasks] \cup {None}
    BY <1>2 DEF WorkersTypeOK
  <1>6. CASE UNCHANGED viewVars
    <2>1. WorkersTypeOK'
      BY <1>2, <1>3, <1>5, <1>6 DEF WorkersTypeOK, viewVars
    <2> QED
      BY <1>2, <1>4, <1>6, <2>1, SameView
  <1>7. CASE Fresh
    <2>1. /\ attached' \in BOOLEAN /\ next' = 0 /\ statuses' = Blank /\ poll' = None
      BY <1>7 DEF Fresh
    <2>2. next' \in 0..Len(log') /\ log' \in Seq(WorkerEvents)
      BY <1>2, <2>1 DEF WorkersTypeOK
    <2>3. statuses' \in [Tasks -> WorkerEvents \cup {None}]
      BY <2>1 DEF Blank
    <2>4. WorkersTypeOK'
      BY <1>3, <1>5, <2>1, <2>2, <2>3 DEF WorkersTypeOK
    <2>5. ViewInv'
      BY <2>1 DEF ViewInv, StatusesLogged, PollCovers, ViewNotBehindCursor,
                  LeasesExclusive, Blank
    <2> QED
      BY <1>4, <2>4, <2>5
  <1> QED
    BY <1>6, <1>7 DEF delegate

(* cancel sends one request and leaves the view alone. *)
LEMMA CancelKeepsIInv ==
    ASSUME IInv, NEW answered \in BOOLEAN, cancel(answered) PROVE IInv'
  <1> USE DEF IInv
  <1> DEFINE request == [method |-> "cancel"]
  <1>1. request \in HubRequest /\ request.method = "cancel"
    BY DEF HubRequest
  <1>2. Call(request, answered) /\ log' = log /\ plan' = plan /\ UNCHANGED viewVars
    BY DEF cancel
  <1> HIDE DEF request
  <1>3. /\ handled' \in Seq(HubRequest) /\ calls' \in Nat /\ MutationsNotRepeated'
        /\ channel' \in {"up", "down"}
        /\ \A n \in DOMAIN handled' :
                \/ n \in DOMAIN handled /\ handled'[n] = handled[n]
                \/ handled'[n] = request
    BY <1>1, <1>2, CallOnce DEF CallInv
  <1>4. CallInv'
    BY <1>1, <1>2, <1>3 DEF CallInv, DeliveriesWereDone
  <1>5. WorkersTypeOK'
    BY <1>2, <1>3 DEF WorkersTypeOK, viewVars
  <1> QED
    BY <1>2, <1>4, <1>5, SameView

(* deliver sends the attempt and the fence of a status that the log has as done. *)
LEMMA DeliverKeepsIInv ==
    ASSUME IInv, NEW t \in Tasks, NEW answered \in BOOLEAN, deliver(t, answered) PROVE IInv'
  <1> USE DEF IInv
  <1> DEFINE request == [method |-> "deliver", task |-> t, attempt |-> statuses[t].attempt,
                         fence |-> statuses[t].fence]
  <1>1. statuses[t] # None /\ statuses[t].state = "Done" /\ statuses[t] \in WorkerEvents
    BY DEF deliver, MayDeliver, WorkersTypeOK
  <1>2. /\ request \in HubRequest /\ request.task = t
        /\ request.attempt = statuses[t].attempt /\ request.fence = statuses[t].fence
    <2>1. statuses[t].attempt \in Nat /\ statuses[t].fence \in Nat
      BY <1>1, EventFields
    <2> QED
      BY <2>1 DEF HubRequest
  <1>3. Call(request, answered) /\ log' = log /\ plan' = plan /\ UNCHANGED viewVars
    BY DEF deliver
  <1> HIDE DEF request
  <1>4. /\ handled' \in Seq(HubRequest) /\ calls' \in Nat /\ MutationsNotRepeated'
        /\ channel' \in {"up", "down"}
        /\ \A n \in DOMAIN handled' :
                \/ n \in DOMAIN handled /\ handled'[n] = handled[n]
                \/ handled'[n] = request
    BY <1>2, <1>3, CallOnce DEF CallInv
  <1>5. PICK p \in 1..Len(log) : log[p] = statuses[t] /\ log[p].task = t /\ log[p].valid
    BY <1>1 DEF ViewInv, StatusesLogged
  <1>6. DeliveriesWereDone'
    BY <1>1, <1>2, <1>3, <1>4, <1>5 DEF CallInv, DeliveriesWereDone
  <1>7. WorkersTypeOK'
    BY <1>3, <1>4 DEF WorkersTypeOK, viewVars
  <1> QED
    BY <1>3, <1>4, <1>6, <1>7, SameView DEF CallInv

------------------------------------------------------------------------------
(* An answer holds every event after the cursor up to its end. *)
LEMMA BeginPollKeepsIInv ==
    ASSUME IInv, NEW upto \in 0..Len(log), NEW positions \in Answers(upto),
           BeginPoll(upto, positions)
    PROVE  IInv'
  <1> USE DEF IInv
  <1> DEFINE new == [upto |-> upto, todo |-> positions, previous |-> next]
  <1>1. /\ log' = log /\ attached' = attached /\ statuses' = statuses /\ plan' = plan
        /\ calls' = calls /\ handled' = handled /\ next' = next /\ poll' = new
        /\ upto >= next
    BY DEF BeginPoll
  <1>2. channel' \in {"up", "down"}
    BY DEF BeginPoll, rpc
  <1>3. positions \in Seq(1..Len(log))
    <2>1. PICK k \in 0..MaxEvents : positions \in [1..k -> 1..Len(log)]
      BY DEF Answers
    <2> QED
      BY <2>1, WorkersAssumption
  <1>4. next + 1..upto \subseteq {positions[n] : n \in DOMAIN positions}
    BY DEF Answers
  <1>5. /\ new.upto = upto /\ new.todo = positions
        /\ new \in [upto : next..Len(log), todo : Seq(1..Len(log)), previous : next..Len(log)]
    <2>1. upto \in next..Len(log) /\ next \in next..Len(log)
      BY <1>1 DEF WorkersTypeOK
    <2> QED
      BY <1>3, <2>1
  <1> HIDE DEF new
  <1>6. WorkersTypeOK'
    BY <1>1, <1>2, <1>5 DEF WorkersTypeOK
  <1>7. PollCovers'
    BY <1>1, <1>4, <1>5 DEF PollCovers, ToDo
  <1>8. (StatusesLogged /\ ViewNotBehindCursor /\ LeasesExclusive)'
    BY <1>1 DEF ViewInv, StatusesLogged, ViewNotBehindCursor, ShownSince, LeasesExclusive
  <1>9. CallInv'
    BY <1>1 DEF CallInv, DeliveriesWereDone, MutationsNotRepeated
  <1> QED
    BY <1>6, <1>7, <1>8, <1>9 DEF ViewInv

(* The event that is applied is newer than all the answer had before it, so what
   was shown is shown still or replaced by this one. *)
LEMMA ApplyEventKeepsIInv == ASSUME IInv, ApplyEvent PROVE IInv'
  <1> USE DEF IInv
  <1> DEFINE h == Head(poll.todo)
             e == log[h]
             new == [poll EXCEPT !.todo = Tail(poll.todo), !.previous = h]
  <1>1. /\ poll # None /\ poll.todo # <<>>
        /\ poll \in [upto : next..Len(log), todo : Seq(1..Len(log)), previous : next..Len(log)]
        /\ next \in 0..Len(log) /\ Len(log) \in Nat
    BY DEF ApplyEvent, WorkersTypeOK
  <1>2. /\ poll.upto \in next..Len(log) /\ poll.previous \in next..Len(log)
        /\ poll.todo \in Seq(1..Len(log)) /\ h \in 1..Len(log)
        /\ Tail(poll.todo) \in Seq(1..Len(log))
    BY <1>1
  <1>3. h > next /\ h <= poll.upto /\ h > poll.previous /\ Applicable(e)
    BY DEF ApplyEvent, InSequence
  <1>4. e \in WorkerEvents /\ e # None /\ e.task \in Tasks /\ e.valid /\ ~Collides(e)
    <2>1. e \in WorkerEvents
      BY <1>2 DEF WorkersTypeOK
    <2> QED
      BY <1>3, <2>1, EventFields DEF Applicable
  <1>5. /\ statuses' = [statuses EXCEPT ![e.task] = e] /\ poll' = new
        /\ log' = log /\ attached' = attached /\ next' = next /\ channel' = channel
        /\ plan' = plan /\ calls' = calls /\ handled' = handled
    BY DEF ApplyEvent
  <1>6. /\ new.upto = poll.upto /\ new.todo = Tail(poll.todo) /\ new.previous = h
        /\ new \in [upto : next..Len(log), todo : Seq(1..Len(log)), previous : next..Len(log)]
    <2>1. h \in next..Len(log)
      BY <1>1, <1>2, <1>3
    <2> HIDE DEF h
    <2> QED
      BY <1>1, <1>2, <2>1
  <1>7. /\ statuses'[e.task] = e
        /\ \A t \in Tasks \ {e.task} : statuses'[t] = statuses[t]
        /\ statuses' \in [Tasks -> WorkerEvents \cup {None}]
    BY <1>4, <1>5 DEF WorkersTypeOK
  <1>8. ToDo \subseteq {h} \cup {new.todo[n] : n \in DOMAIN new.todo}
    <2> SUFFICES ASSUME NEW n \in DOMAIN poll.todo
                 PROVE  \/ poll.todo[n] = h
                        \/ \E m \in DOMAIN Tail(poll.todo) : Tail(poll.todo)[m] = poll.todo[n]
      BY <1>6 DEF ToDo
    <2>1. n = 1 \/ (n - 1 \in DOMAIN Tail(poll.todo) /\ Tail(poll.todo)[n - 1] = poll.todo[n])
      BY <1>1, <1>2
    <2> QED
      BY <1>1, <1>2, <2>1
  <1> HIDE DEF new
  <1>9. WorkersTypeOK'
    BY <1>5, <1>6, <1>7 DEF WorkersTypeOK
  <1>10. \A p \in 1..h : ShownSince(p) => ShownSince(p)'
    <2> SUFFICES ASSUME NEW p \in 1..h, ShownSince(p) PROVE ShownSince(p)'
      OBVIOUS
    <2>1. p \in 1..Len(log) /\ h \in p..Len(log) /\ log[p].task \in Tasks
      BY <1>1, <1>2, EventFields DEF WorkersTypeOK
    <2>2. CASE log[p].task = e.task
      BY <1>5, <1>7, <2>1, <2>2 DEF ShownSince
    <2>3. CASE log[p].task # e.task
      BY <1>5, <1>7, <2>1, <2>3 DEF ShownSince
    <2> QED
      BY <2>2, <2>3
  <1>11. \A p : p = h => ShownSince(p)'
    <2> SUFFICES ASSUME NEW p, p = h PROVE ShownSince(p)'
      OBVIOUS
    <2>1. log'[p] = e /\ p \in p..Len(log')
      BY <1>1, <1>2, <1>5
    <2> QED
      BY <1>7, <2>1 DEF ShownSince
  <1>12. PollCovers'
    <2> SUFFICES ASSUME NEW p \in next + 1..poll.upto
                 PROVE  \/ p \in {new.todo[n] : n \in DOMAIN new.todo}
                        \/ p <= h /\ ShownSince(p)'
      BY <1>5, <1>6 DEF PollCovers, ToDo
    <2>1. p \in ToDo \/ (p <= poll.previous /\ ShownSince(p))
      BY <1>1 DEF ViewInv, PollCovers
    <2>2. p = h => p <= h /\ ShownSince(p)'
      BY <1>2, <1>11
    <2>3. p <= poll.previous => p \in 1..h
      BY <1>1, <1>2, <1>3
    <2> HIDE DEF h
    <2> QED
      BY <1>2, <1>8, <1>10, <2>1, <2>2, <2>3
  <1>13. ViewNotBehindCursor'
    <2>1. \A p \in 1..next : p \in 1..h
      BY <1>1, <1>2, <1>3
    <2> QED
      BY <1>5, <1>10, <2>1 DEF ViewInv, ViewNotBehindCursor
  <1>14. StatusesLogged'
    BY <1>2, <1>4, <1>5, <1>7 DEF ViewInv, StatusesLogged
  <1>15. LeasesExclusive'
    BY <1>4, <1>7 DEF ViewInv, LeasesExclusive, Collides
  <1>16. CallInv'
    BY <1>5 DEF CallInv, DeliveriesWereDone, MutationsNotRepeated
  <1> QED
    BY <1>9, <1>12, <1>13, <1>14, <1>15, <1>16 DEF ViewInv

(* A refused event leaves the cursor where it was; an answer that is used up has
   shown all the events the cursor then passes. *)
LEMMA PollEndsKeepsIInv == ASSUME IInv, RefuseEvent \/ EndPoll PROVE IInv'
  <1> USE DEF IInv
  <1>1. /\ poll # None /\ poll' = None
        /\ log' = log /\ attached' = attached /\ statuses' = statuses
        /\ channel' = channel /\ plan' = plan /\ calls' = calls /\ handled' = handled
    BY DEF RefuseEvent, EndPoll, AnsweredCursor, RefusedCursor
  <1>2. poll \in [upto : next..Len(log), todo : Seq(1..Len(log)), previous : next..Len(log)]
    BY <1>1 DEF WorkersTypeOK
  <1>3. next' \in 0..Len(log)
    BY <1>2 DEF RefuseEvent, EndPoll, AnsweredCursor, RefusedCursor, WorkersTypeOK
  <1>4. WorkersTypeOK'
    BY <1>1, <1>3 DEF WorkersTypeOK
  <1>5. (StatusesLogged /\ PollCovers /\ LeasesExclusive)'
    BY <1>1 DEF ViewInv, StatusesLogged, PollCovers, LeasesExclusive
  <1>6. \A p \in 1..next' : ShownSince(p)
    <2>1. CASE next' = next
      BY <2>1 DEF ViewInv, ViewNotBehindCursor
    <2>2. CASE EndPoll
      <3>1. ToDo = {} /\ next' = poll.upto
        BY <2>2 DEF EndPoll, AnsweredCursor, ToDo
      <3>2. \A p \in next + 1..poll.upto : ShownSince(p)
        BY <1>1, <3>1 DEF ViewInv, PollCovers
      <3>3. \A p \in 1..next' : p \in 1..next \/ p \in next + 1..poll.upto
        BY <1>2, <3>1 DEF WorkersTypeOK
      <3> QED
        BY <3>2, <3>3 DEF ViewInv, ViewNotBehindCursor
    <2> QED
      BY <2>1, <2>2 DEF RefuseEvent, RefusedCursor
  <1>7. ViewNotBehindCursor'
    BY <1>1, <1>6 DEF ViewNotBehindCursor, ShownSince
  <1>8. CallInv'
    BY <1>1 DEF CallInv, DeliveriesWereDone, MutationsNotRepeated
  <1> QED
    BY <1>4, <1>5, <1>7, <1>8 DEF ViewInv

(* A poll that fails changes at most the connection. *)
LEMMA PollFailsKeepsIInv == ASSUME IInv, PollFails PROVE IInv'
  <1>1. channel' \in {"up", "down"}
    BY DEF PollFails, rpc
  <1>2. /\ log' = log /\ UNCHANGED viewVars /\ plan' = plan /\ calls' = calls
        /\ handled' = handled
    BY DEF PollFails
  <1>3. WorkersTypeOK'
    BY <1>1, <1>2 DEF IInv, WorkersTypeOK, viewVars
  <1>4. CallInv'
    BY <1>2 DEF IInv, CallInv, DeliveriesWereDone, MutationsNotRepeated
  <1> QED
    BY <1>2, <1>3, <1>4, SameView DEF IInv

(* Every step keeps the inductive invariant. *)
LEMMA NextKeepsIInv == IInv /\ [WorkersNext]_workersVars => IInv'
  <1> SUFFICES ASSUME IInv, [WorkersNext]_workersVars PROVE IInv'
    OBVIOUS
  <1>1. CASE UNCHANGED workersVars
    <2>1. WorkersTypeOK'
      BY <1>1 DEF IInv, WorkersTypeOK, workersVars, viewVars
    <2>2. CallInv'
      BY <1>1 DEF IInv, CallInv, DeliveriesWereDone, MutationsNotRepeated, workersVars
    <2> QED
      BY <1>1, <2>1, <2>2, SameView DEF IInv, workersVars
  <1> QED
    BY <1>1, HubLogsKeepsIInv, FreshKeepsIInv, DelegateKeepsIInv, CancelKeepsIInv,
       DeliverKeepsIInv, BeginPollKeepsIInv, PollFailsKeepsIInv, ApplyEventKeepsIInv,
       PollEndsKeepsIInv DEF WorkersNext

(* The inductive invariant holds in every reachable state. *)
LEMMA IInvAlways == WorkersSpec => []IInv
  BY InitIInv, NextKeepsIInv, PTL DEF WorkersSpec

------------------------------------------------------------------------------
(* Type correctness of the run, the log and the calls. *)
THEOREM WorkersTypeCorrect == WorkersSpec => []WorkersTypeOK
  <1>1. IInv => WorkersTypeOK
    BY DEF IInv
  <1> QED
    BY <1>1, IInvAlways, PTL

(* The cursor of poll never passes an event that the view does not show, or shows
   replaced: half-applied, repeated and reordered answers lose nothing. *)
THEOREM CursorLosesNothing == WorkersSpec => []ViewNotBehindCursor
  <1>1. IInv => ViewNotBehindCursor
    BY DEF IInv, ViewInv
  <1> QED
    BY <1>1, IInvAlways, PTL

(* apply_event never shows two live workers in one worktree. *)
THEOREM WorktreesExclusive == WorkersSpec => []LeasesExclusive
  <1>1. IInv => LeasesExclusive
    BY DEF IInv, ViewInv
  <1> QED
    BY <1>1, IInvAlways, PTL

(* deliver asks only for what the Hub's log says was done. *)
THEOREM DeliveriesDone == WorkersSpec => []DeliveriesWereDone
  <1>1. IInv => DeliveriesWereDone
    BY DEF IInv, CallInv
  <1> QED
    BY <1>1, IInvAlways, PTL

(* rpc never repeats a delegation, a cancellation or a delivery. *)
THEOREM CallsNotRepeated == WorkersSpec => []MutationsNotRepeated
  <1>1. IInv => MutationsNotRepeated
    BY DEF IInv, CallInv
  <1> QED
    BY <1>1, IInvAlways, PTL

\* A status that stays, or is forgotten, moves on.
LEMMA StayingMovesOn ==
    ASSUME WorkersTypeOK, NEW t \in Tasks, statuses'[t] = statuses[t] \/ statuses'[t] = None
    PROVE  MovesOn(statuses[t], statuses'[t])
  <1> SUFFICES ASSUME statuses[t] # None, statuses'[t] = statuses[t]
               PROVE  MovesOn(statuses[t], statuses'[t])
    BY DEF MovesOn
  <1>1. statuses[t].attempt \in Nat /\ statuses[t].fence \in Nat
    BY EventFields DEF WorkersTypeOK
  <1> QED
    BY <1>1 DEF MovesOn, LostFence, SameFence

(* poll never takes a task back: apply_event refuses what has lost its fence and
   what would leave a final state of the same attempt. *)
THEOREM TasksMoveOn == WorkersSpec => NoComeback
  <1>1. ASSUME IInv, [WorkersNext]_workersVars, NEW t \in Tasks
        PROVE  MovesOn(statuses[t], statuses'[t])
    <2>1. CASE ApplyEvent
      <3> DEFINE e == log[Head(poll.todo)]
      <3>1. statuses' = [statuses EXCEPT ![e.task] = e] /\ Applicable(e)
        BY <2>1 DEF ApplyEvent
      <3> HIDE DEF e
      <3>2. CASE t = e.task /\ statuses[t] # None
        <4>1. statuses'[t] = e /\ Follows(e, statuses[t])
          BY <1>1, <3>1, <3>2 DEF Applicable, IInv, WorkersTypeOK
        <4> QED
          BY <4>1 DEF MovesOn, Follows, valid_transition
      <3>3. CASE t # e.task
        BY <1>1, <3>1, <3>3, StayingMovesOn DEF IInv, WorkersTypeOK
      <3>4. CASE statuses[t] = None
        BY <3>4 DEF MovesOn
      <3> QED
        BY <3>2, <3>3, <3>4
    <2>2. CASE UNCHANGED statuses
      BY <1>1, <2>2, StayingMovesOn DEF IInv
    <2>3. CASE statuses' = Blank
      BY <1>1, <2>3, StayingMovesOn DEF IInv, Blank
    <2> QED
      BY <1>1, <2>1, <2>2, <2>3 DEF WorkersNext, workersVars, viewVars, HubLogs, attach,
         Restart, Fresh, delegate, cancel, deliver, BeginPoll, PollFails, RefuseEvent, EndPoll
  <1>2. IInv /\ [WorkersNext]_workersVars
            => [\A t \in Tasks : MovesOn(statuses[t], statuses'[t])]_workersVars
    BY <1>1
  <1> QED
    BY <1>2, IInvAlways, PTL DEF WorkersSpec, NoComeback
------------------------------------------------------------------------------
(* The tasks of a plan that detect_cycle lets pass can be ordered *)

\* A set of naturals that is not empty has a least element.
LEMMA LeastOf ==
    ASSUME NEW S, S \subseteq Nat, S # {}
    PROVE  \E x \in S : \A y \in S : x <= y
  <1> DEFINE R == {ss \in Nat \X Nat : ss[1] < ss[2]}
  <1>1. IsWellFoundedOn(R, Nat)
    BY NatLessThanWellFounded DEF OpToRel
  <1> HIDE DEF R
  <1>2. PICK x \in S : \A y \in S : ~(<<y, x>> \in R)
    BY <1>1, WFMin
  <1>3. ASSUME NEW y \in S
        PROVE  x <= y
    <2>1. x \in Nat /\ y \in Nat /\ <<y, x>> \notin R
      BY <1>2
    <2>2. ~(y < x)
      BY <2>1 DEF R
    <2> QED BY <2>1, <2>2
  <1> QED BY <1>3

\* The recursive visit is well defined: its equation has a solution, the largest
\* function that is closed under it.
LEMMA VisitIs ==
    ASSUME NEW D \in [Tasks -> SUBSET Tasks]
    PROVE  \E v : /\ NoCycle(D) <=> v[{}] = Tasks
                  /\ v[{}] \subseteq Tasks
                  /\ \A V \in SUBSET Tasks, t \in Tasks :
                        t \in v[V] <=> t \notin V /\ \A d \in D[t] : d \in v[V \cup {t}]
  <1> DEFINE Step(f, V) == {t \in Tasks \ V : \A d \in D[t] : d \in f[V \cup {t}]}
             Closed == {X \in [SUBSET Tasks -> SUBSET Tasks] :
                          \A V \in SUBSET Tasks : X[V] \subseteq Step(X, V)}
             g == [V \in SUBSET Tasks |-> {t \in Tasks : \E X \in Closed : t \in X[V]}]
             F(f) == [V \in SUBSET Tasks |-> Step(f, V)]
             v == CHOOSE f : f = F(f)
  <1>1. g \in [SUBSET Tasks -> SUBSET Tasks]
    OBVIOUS
  <1>2. \A V \in SUBSET Tasks, t \in Tasks : V \cup {t} \in SUBSET Tasks
    OBVIOUS
  <1>3. \A X \in Closed, V \in SUBSET Tasks : X[V] \subseteq g[V]
    <2> SUFFICES ASSUME NEW X \in Closed, NEW V \in SUBSET Tasks, NEW t \in X[V]
                 PROVE  t \in g[V]
      OBVIOUS
    <2>1. t \in Tasks
      OBVIOUS
    <2> HIDE DEF Closed
    <2> QED BY <2>1
  <1>4. ASSUME NEW V \in SUBSET Tasks
        PROVE  g[V] \subseteq Step(g, V)
    <2> SUFFICES ASSUME NEW t \in g[V] PROVE t \in Step(g, V)
      OBVIOUS
    <2>1. PICK X \in Closed : t \in X[V]
      <3> HIDE DEF Closed
      <3> QED OBVIOUS
    <2>2. t \in Step(X, V)
      BY <2>1
    <2> HIDE DEF g, Closed
    <2>3. \A d \in D[t] : d \in g[V \cup {t}]
      BY <1>2, <1>3, <2>2
    <2> QED BY <2>2, <2>3
  <1>5. ASSUME NEW V \in SUBSET Tasks
        PROVE  Step(g, V) \subseteq g[V]
    <2> DEFINE h == [W \in SUBSET Tasks |-> Step(g, W)]
    <2>1. h \in [SUBSET Tasks -> SUBSET Tasks]
      OBVIOUS
    <2>2. \A W \in SUBSET Tasks : h[W] = Step(g, W)
      OBVIOUS
    <2>3. ASSUME NEW W \in SUBSET Tasks
          PROVE  h[W] \subseteq Step(h, W)
      <3> HIDE DEF g, h
      <3> SUFFICES ASSUME NEW t \in Step(g, W) PROVE t \in Step(h, W)
        BY <2>2
      <3>1. t \in Tasks \ W /\ \A d \in D[t] : d \in g[W \cup {t}]
        OBVIOUS
      <3>2. g[W \cup {t}] \subseteq h[W \cup {t}]
        <4>1. W \cup {t} \in SUBSET Tasks
          BY <1>2, <3>1
        <4> HIDE DEF Step
        <4> QED BY <1>4, <2>2, <4>1
      <3> QED BY <3>1, <3>2
    <2>4. h \in Closed
      <3> HIDE DEF g, h
      <3> QED BY <2>1, <2>3
    <2> HIDE DEF h, Closed
    <2>5. h[V] \subseteq g[V]
      BY <1>3, <2>4
    <2> QED BY <2>2, <2>5
  <1>6. g = F(g)
    <2>1. \A V \in SUBSET Tasks : g[V] = Step(g, V)
      BY <1>4, <1>5
    <2> HIDE DEF Step
    <2>2. DOMAIN g = SUBSET Tasks /\ g = [V \in SUBSET Tasks |-> g[V]]
      OBVIOUS
    <2> HIDE DEF g
    <2> QED BY <2>1, <2>2
  <1>7. v = F(v)
    <2> HIDE DEF F
    <2> QED BY <1>6
  <1>8. NoCycle(D) <=> v[{}] = Tasks
    BY DEF NoCycle
  <1> HIDE DEF v
  <1>9. \A V \in SUBSET Tasks : v[V] = Step(v, V)
    BY <1>7
  <1>10. ASSUME NEW V \in SUBSET Tasks, NEW t \in Tasks
         PROVE  t \in v[V] <=> t \notin V /\ \A d \in D[t] : d \in v[V \cup {t}]
    BY <1>9
  <1>11. v[{}] \subseteq Tasks
    BY <1>9
  <1> QED BY <1>8, <1>10, <1>11

\* Among any tasks of the plan there is one that depends on none of them: otherwise the
\* visit goes on among them and what it is visiting grows without end.
LEMMA FirstTask ==
    ASSUME NEW D \in [Tasks -> SUBSET Tasks], NoCycle(D),
           NEW S \in SUBSET Tasks, S # {}
    PROVE  \E m \in S : D[m] \cap S = {}
  <1> SUFFICES ASSUME \A m \in S : D[m] \cap S # {} PROVE FALSE
    OBVIOUS
  <1>1. PICK v : /\ NoCycle(D) <=> v[{}] = Tasks
                 /\ v[{}] \subseteq Tasks
                 /\ \A V \in SUBSET Tasks, t \in Tasks :
                       t \in v[V] <=> t \notin V /\ \A d \in D[t] : d \in v[V \cup {t}]
    BY VisitIs
  <1> DEFINE Visits == {V \in SUBSET Tasks : \E t \in S : t \in v[V]}
             Left == {Cardinality(Tasks \ V) : V \in Visits}
  <1>2. IsFiniteSet(Tasks)
    BY WorkersAssumption
  <1>3. \A V \in SUBSET Tasks : IsFiniteSet(Tasks \ V) /\ Cardinality(Tasks \ V) \in Nat
    BY <1>2, FS_Subset, FS_CardinalityType
  <1>4. Left \subseteq Nat
    BY <1>3
  <1>5. {} \in Visits
    BY <1>1
  <1>6. Left # {}
    BY <1>5
  <1>7. PICK k \in Left : \A y \in Left : k <= y
    <2> HIDE DEF Left
    <2> QED BY <1>4, <1>6, LeastOf
  <1>8. PICK V \in Visits : k = Cardinality(Tasks \ V)
    OBVIOUS
  <1>9. PICK t \in S : t \in v[V]
    OBVIOUS
  <1>10. V \in SUBSET Tasks /\ t \in Tasks /\ t \notin V /\ \A d \in D[t] : d \in v[V \cup {t}]
    BY <1>1, <1>9
  <1>11. PICK d \in S : d \in D[t]
    OBVIOUS
  <1>12. V \cup {t} \in Visits
    BY <1>10, <1>11
  <1>13. Cardinality(Tasks \ (V \cup {t})) \in Left
    BY <1>12
  <1> HIDE DEF Visits, Left
  <1>14. Cardinality((Tasks \ V) \ {t}) = Cardinality(Tasks \ V) - 1
    BY <1>3, <1>10, FS_RemoveElement
  <1>15. (Tasks \ V) \ {t} = Tasks \ (V \cup {t})
    OBVIOUS
  <1>16. k <= k - 1
    BY <1>7, <1>8, <1>13, <1>14, <1>15
  <1>17. k \in Nat
    BY <1>4
  <1> QED BY <1>16, <1>17

\* The tasks S have an order in which each comes after those it depends on.
Ordered(D, S, rank) == \A t \in S : \A d \in D[t] : d \in S => rank[d] < rank[t]

\* Any tasks of the plan can be ranked: the first one, and the others after it.
LEMMA TasksRanked ==
    ASSUME NEW D \in [Tasks -> SUBSET Tasks], NoCycle(D)
    PROVE  \A S \in SUBSET Tasks : \E rank \in [S -> 1..Cardinality(S)] : Ordered(D, S, rank)
  <1> DEFINE Bad == {S \in SUBSET Tasks :
                       ~ \E rank \in [S -> 1..Cardinality(S)] : Ordered(D, S, rank)}
             Sizes == {Cardinality(S) : S \in Bad}
  <1> SUFFICES ASSUME Bad # {} PROVE FALSE
    OBVIOUS
  <1>1. \A S \in SUBSET Tasks : IsFiniteSet(S) /\ Cardinality(S) \in Nat
    BY WorkersAssumption, FS_Subset, FS_CardinalityType
  <1>2. Sizes \subseteq Nat /\ Sizes # {}
    BY <1>1
  <1>3. PICK k \in Sizes : \A y \in Sizes : k <= y
    <2> HIDE DEF Sizes
    <2> QED BY <1>2, LeastOf
  <1>4. PICK S \in Bad : k = Cardinality(S)
    OBVIOUS
  <1>5. S \in SUBSET Tasks /\ k \in Nat
    BY <1>1, <1>4
  <1>6. ~ \E rank \in [S -> 1..k] : Ordered(D, S, rank)
    BY <1>4
  <1>7. S # {}
    <2> SUFFICES ASSUME S = {} PROVE FALSE
      OBVIOUS
    <2> DEFINE r == [t \in {} |-> 1]
    <2>1. r \in [S -> 1..k]
      OBVIOUS
    <2>2. Ordered(D, S, r)
      BY DEF Ordered
    <2> QED BY <1>6, <2>1, <2>2
  <1>8. PICK m \in S : D[m] \cap S = {}
    BY <1>5, <1>7, FirstTask
  <1> DEFINE T == S \ {m}
  <1>9. Cardinality(T) = k - 1 /\ T \in SUBSET Tasks
    BY <1>1, <1>4, <1>5, FS_RemoveElement
  <1>10. T \notin Bad
    <2>1. T \in Bad => Cardinality(T) \in Sizes
      OBVIOUS
    <2> HIDE DEF Bad, Sizes, T
    <2>2. ~(k <= k - 1)
      BY <1>5
    <2> QED BY <1>3, <1>9, <2>1, <2>2
  <1>11. PICK r \in [T -> 1..k - 1] : Ordered(D, T, r)
    BY <1>9, <1>10
  <1> HIDE DEF Bad, Sizes
  <1> DEFINE s == [t \in S |-> IF t = m THEN 1 ELSE r[t] + 1]
  <1>12. \A t \in T : r[t] \in 1..k - 1
    OBVIOUS
  <1>13. k >= 1
    <2>1. Cardinality(T) \in Nat
      BY <1>1, <1>9
    <2> QED BY <1>5, <1>9, <2>1
  <1>14. s \in [S -> 1..k]
    <2>1. ASSUME NEW t \in S
          PROVE  (IF t = m THEN 1 ELSE r[t] + 1) \in 1..k
      <3>1. CASE t = m
        BY <1>5, <1>13, <3>1
      <3>2. CASE t # m
        <4>1. r[t] \in 1..k - 1
          BY <1>12, <3>2
        <4> QED BY <1>5, <3>2, <4>1
      <3> QED BY <3>1, <3>2
    <2> QED BY <2>1
  <1>15. ASSUME NEW t \in S, NEW d \in D[t], d \in S
         PROVE  s[d] < s[t]
    <2>1. t # m
      BY <1>8, <1>15
    <2>2. t \in T /\ s[t] = r[t] + 1 /\ r[t] \in 1..k - 1
      BY <1>12, <2>1
    <2>3. CASE d = m
      <3>1. s[d] = 1
        BY <1>15, <2>3
      <3> HIDE DEF s
      <3> QED BY <1>5, <2>2, <3>1
    <2>4. CASE d # m
      <3>1. d \in T /\ s[d] = r[d] + 1 /\ r[d] \in 1..k - 1
        BY <1>12, <1>15, <2>4
      <3>2. r[d] < r[t]
        BY <1>11, <2>2, <3>1 DEF Ordered
      <3> HIDE DEF s
      <3> QED BY <1>5, <2>2, <3>1, <3>2
    <2> QED BY <2>3, <2>4
  <1> HIDE DEF s
  <1>16. Ordered(D, S, s)
    BY <1>15 DEF Ordered
  <1> QED BY <1>6, <1>14, <1>16

\* What detect_cycle accepts can be scheduled.
LEMMA NoCycleSchedulable ==
    ASSUME NEW D \in [Tasks -> SUBSET Tasks], NoCycle(D)
    PROVE  Schedulable(D)
  <1>1. PICK rank \in [Tasks -> 1..Cardinality(Tasks)] : Ordered(D, Tasks, rank)
    BY TasksRanked
  <1>2. \A t \in Tasks : \A d \in D[t] : d \in Tasks
    OBVIOUS
  <1> QED BY <1>1, <1>2 DEF Ordered, Schedulable

\* What can be scheduled, detect_cycle accepts: a task of lowest rank among those that are
\* refused while only later ones are being visited would depend on a lower one.
LEMMA SchedulableNoCycle ==
    ASSUME NEW D \in [Tasks -> SUBSET Tasks], Schedulable(D)
    PROVE  NoCycle(D)
  <1>1. PICK v : /\ NoCycle(D) <=> v[{}] = Tasks
                 /\ v[{}] \subseteq Tasks
                 /\ \A V \in SUBSET Tasks, t \in Tasks :
                       t \in v[V] <=> t \notin V /\ \A d \in D[t] : d \in v[V \cup {t}]
    BY VisitIs
  <1>2. PICK rank \in [Tasks -> 1..Cardinality(Tasks)] :
            \A t \in Tasks : \A d \in D[t] : rank[d] < rank[t]
    BY DEF Schedulable
  <1>3. \A t \in Tasks : rank[t] \in Nat
    <2>1. Cardinality(Tasks) \in Nat
      BY WorkersAssumption, FS_CardinalityType
    <2> QED BY <2>1
  <1> SUFFICES ASSUME NEW u \in Tasks, u \notin v[{}] PROVE FALSE
    BY <1>1
  <1> DEFINE Later(V, t) == \A w \in V : rank[t] < rank[w]
             Refused == {t \in Tasks : \E V \in SUBSET Tasks : t \notin v[V] /\ Later(V, t)}
             Ranks == {rank[t] : t \in Refused}
  <1>4. Ranks \subseteq Nat /\ Ranks # {}
    BY <1>3
  <1>5. PICK k \in Ranks : \A y \in Ranks : k <= y
    <2> HIDE DEF Ranks
    <2> QED BY <1>4, LeastOf
  <1>6. PICK t \in Refused : k = rank[t]
    OBVIOUS
  <1>7. PICK V \in SUBSET Tasks : t \notin v[V] /\ Later(V, t)
    BY <1>6
  <1>8. t \in Tasks /\ ~(rank[t] < rank[t])
    BY <1>3, <1>6
  <1>9. t \notin V
    BY <1>7, <1>8
  <1>10. PICK d \in D[t] : d \notin v[V \cup {t}]
    BY <1>1, <1>7, <1>8, <1>9
  <1>11. d \in Tasks /\ rank[d] < rank[t] /\ V \cup {t} \in SUBSET Tasks
    BY <1>2, <1>8
  <1>12. \A w \in V : rank[w] \in Nat /\ rank[t] < rank[w]
    BY <1>3, <1>7
  <1>13. Later(V \cup {t}, d)
    BY <1>3, <1>8, <1>11, <1>12
  <1>14. d \in Refused
    <2> HIDE DEF Later
    <2> QED BY <1>10, <1>11, <1>13
  <1>15. rank[d] \in Ranks
    BY <1>14
  <1> HIDE DEF Ranks, Refused, Later
  <1>16. rank[t] <= rank[d]
    BY <1>5, <1>6, <1>15
  <1> QED BY <1>3, <1>8, <1>11, <1>16

(* The depth-first search of detect_cycle is exact, for any finite workflow: a plan is
   refused for a cycle if and only if its tasks have no order of execution. *)
THEOREM CycleCheckExact ==
    \A D \in [Tasks -> SUBSET Tasks] : NoCycle(D) <=> Schedulable(D)
  BY NoCycleSchedulable, SchedulableNoCycle

(* No plan reaches the Hub that has no order of execution: of any finite workflow, what
   the depth-first search of detect_cycle lets pass can be ranked so that each task
   comes after its dependencies, and only delegate sets the plan. *)
THEOREM PlansSchedulable == WorkersSpec => []PlanIsSchedulable
  <1>1. WorkersInit => PlanIsSchedulable
    BY DEF WorkersInit, PlanIsSchedulable
  <1>2. PlanIsSchedulable /\ [WorkersNext]_workersVars => PlanIsSchedulable'
    <2> SUFFICES ASSUME PlanIsSchedulable, [WorkersNext]_workersVars PROVE PlanIsSchedulable'
      OBVIOUS
    <2>1. ASSUME NEW D \in [Tasks -> SUBSET Tasks], NEW answered \in BOOLEAN,
                 NEW complete \in BOOLEAN, delegate(D, answered, complete)
          PROVE  PlanIsSchedulable'
      <3>1. NoCycle(D) /\ plan' \in {D, plan}
        BY <2>1 DEF delegate, validate
      <3>2. CASE plan' = D
        BY <3>1, <3>2, NoCycleSchedulable DEF PlanIsSchedulable
      <3>3. CASE plan' = plan
        BY <3>3 DEF PlanIsSchedulable
      <3> QED BY <3>1, <3>2, <3>3
    <2>2. CASE plan' = plan
      BY <2>2 DEF PlanIsSchedulable
    <2>3. \/ plan' = plan
          \/ \E D \in [Tasks -> SUBSET Tasks], answered, complete \in BOOLEAN :
                delegate(D, answered, complete)
      BY DEF WorkersNext, workersVars, HubLogs, attach, Restart, cancel, deliver, BeginPoll,
             PollFails, ApplyEvent, RefuseEvent, EndPoll
    <2> QED BY <2>1, <2>2, <2>3
  <1> QED BY <1>1, <1>2, PTL DEF WorkersSpec

------------------------------------------------------------------------------
(* The history of the workspace view *)

\* What does not descend from one number to the next does not descend at all.
LEMMA Ascending ==
    ASSUME NEW N \in Nat, NEW f \in [1..N -> Int],
           \A n \in 1..N - 1 : f[n] <= f[n + 1]
    PROVE  \A m, n \in 1..N : m <= n => f[m] <= f[n]
  <1> SUFFICES ASSUME NEW m \in 1..N, NEW l \in 1..N, m <= l, ~(f[m] <= f[l])
               PROVE  FALSE
    OBVIOUS
  <1> DEFINE B == {n \in 1..N : m <= n /\ ~(f[m] <= f[n])}
  <1>1. B \subseteq Nat /\ l \in B
    OBVIOUS
  <1> HIDE DEF B
  <1>2. PICK n \in B : \A k \in B : n <= k
    BY <1>1, LeastOf
  <1>3. n \in 1..N /\ m <= n /\ ~(f[m] <= f[n])
    BY <1>2 DEF B
  <1>4. n # m
    BY <1>3
  <1>5. n - 1 \in 1..N /\ n - 1 \in 1..N - 1 /\ m <= n - 1 /\ ~(n <= n - 1)
    BY <1>3, <1>4
  <1>6. n - 1 \notin B
    BY <1>2, <1>5
  <1>7. f[m] <= f[n - 1]
    BY <1>5, <1>6 DEF B
  <1>8. f[n - 1] <= f[(n - 1) + 1] /\ (n - 1) + 1 = n
    BY <1>3, <1>5
  <1>9. f[m] \in Int /\ f[n - 1] \in Int /\ f[n] \in Int
    BY <1>3, <1>5
  <1> QED BY <1>3, <1>7, <1>8, <1>9

\* Events of the page at hand are events of the host's log; this is all that is known
\* of it, since apply_page does not rely on the checks made when it was received.
PageLogged == \A n \in DOMAIN page.events : page.events[n] \in 1..Len(generations)

ViewsIInv == HistorySound /\ PageLogged

\* The types of the state, apart.
LEMMA ViewsTypes ==
    ASSUME ViewsTypeOK, PageLogged
    PROVE  /\ Len(generations) \in Nat
           /\ \A n \in 1..Len(generations) : generations[n] \in 0..MaxGeneration
           /\ generations \in [1..Len(generations) -> 0..MaxGeneration]
           /\ view.cursor \in 0..Len(generations)
           /\ view.generation \in 0..MaxGeneration
           /\ view.observations \in Seq(1..Len(generations))
           /\ Len(view.observations) \in Nat /\ Len(view.observations) <= MaxHistory
           /\ view.history_truncated \in BOOLEAN
           /\ page.events \in Seq(1..Len(generations))
           /\ Len(page.events) \in Nat
           /\ page.next_cursor \in Nat
           /\ page.truncated \in BOOLEAN
  <1>1. PICK k \in 0..MaxPage : page.events \in [1..k -> Numbers]
    BY DEF ViewsTypeOK, Pages
  <1>2. page.next_cursor \in Nat /\ page.truncated \in BOOLEAN
    BY ViewsAssumption DEF ViewsTypeOK, Pages
  <1>3. k \in Nat /\ DOMAIN page.events = 1..k /\ page.events \in Seq(Numbers) /\ Len(page.events) = k
    BY <1>1, ViewsAssumption
  <1>4. page.events \in Seq(1..Len(generations))
    BY <1>3 DEF PageLogged
  <1>5. generations \in Seq(0..MaxGeneration)
    BY DEF ViewsTypeOK
  <1>6. /\ view.cursor \in 0..Len(generations)
        /\ view.generation \in 0..MaxGeneration
        /\ view.observations \in Seq(1..Len(generations))
        /\ view.history_truncated \in BOOLEAN
        /\ Len(view.observations) <= MaxHistory
    BY DEF ViewsTypeOK
  <1>7. /\ Len(generations) \in Nat
        /\ generations \in [1..Len(generations) -> 0..MaxGeneration]
    BY <1>5, LenProperties
  <1>8. \A n \in 1..Len(generations) : generations[n] \in 0..MaxGeneration
    BY <1>7
  <1>9. Len(view.observations) \in Nat
    BY <1>6
  <1> QED BY <1>2, <1>3, <1>4, <1>6, <1>7, <1>8, <1>9

\* Of a log of L events with generations g: a history h, in order up to the event c of
\* generation v, and the events e that follow it, each after and of no older generation
\* than the one before; all is h and then e, and a and b are their lengths.
EventsFollow(L, G, g, a, b, h, e, all, c, v) ==
    /\ L \in Nat /\ G \in Nat /\ g \in [1..L -> 0..G]
    /\ a \in Nat /\ b \in Nat /\ c \in 0..L /\ v \in 0..G
    /\ h \in [1..a -> 1..L] /\ e \in [1..b -> 1..L] /\ all \in [1..a + b -> 1..L]
    /\ \A n \in 1..a + b : all[n] = IF n <= a THEN h[n] ELSE e[n - a]
    /\ \A m, n \in 1..a : m < n => h[m] < h[n] /\ g[h[m]] <= g[h[n]]
    /\ a > 0 => h[a] = c /\ g[h[a]] = v
    /\ \A n \in 1..b : /\ e[n] > (IF n = 1 THEN c ELSE e[n - 1])
                      /\ g[e[n]] >= (IF n = 1 THEN v ELSE g[e[n - 1]])

\* The sequence with length k is in order and ends with the event c of generation v.
InOrderTo(g, k, all, c, v) ==
    /\ \A m, n \in 1..k : m < n => all[m] < all[n] /\ g[all[m]] <= g[all[n]]
    /\ k # 0 => all[k] = c /\ g[all[k]] = v

\* Then the numbers grow from each event to every later one and the generations do
\* not go back.
LEMMA AppendedInOrder ==
    ASSUME NEW L, NEW G, NEW g, NEW a, NEW b, NEW h, NEW e, NEW all, NEW c, NEW v,
           EventsFollow(L, G, g, a, b, h, e, all, c, v)
    PROVE  InOrderTo(g, a + b, all, IF b = 0 THEN c ELSE e[b], IF b = 0 THEN v ELSE g[e[b]])
  <1>0. L \in Nat /\ G \in Nat /\ a \in Nat /\ b \in Nat /\ c \in 0..L /\ v \in 0..G
    BY DEF EventsFollow
  <1>1. /\ \A n \in 1..L : g[n] \in 0..G
        /\ 0..L \subseteq Int /\ 0..G \subseteq Int /\ 1..L \subseteq Int
    BY DEF EventsFollow
  <1>2. /\ \A n \in 1..a : h[n] \in 1..L
        /\ \A n \in 1..b : e[n] \in 1..L
    BY DEF EventsFollow
  <1>3. \A n \in 1..a + b : all[n] = IF n <= a THEN h[n] ELSE e[n - a]
    BY DEF EventsFollow
  <1>4. \A n \in 1..b : /\ e[n] > (IF n = 1 THEN c ELSE e[n - 1])
                        /\ g[e[n]] >= (IF n = 1 THEN v ELSE g[e[n - 1]])
    BY DEF EventsFollow
  <1>5. all \in [1..a + b -> 1..L]
    BY DEF EventsFollow
  <1>6. /\ \A m, n \in 1..a : m < n => h[m] < h[n] /\ g[h[m]] <= g[h[n]]
        /\ a > 0 => h[a] = c /\ g[h[a]] = v
    BY DEF EventsFollow
  <1>8. \A n \in 1..a + b : all[n] \in 1..L /\ g[all[n]] \in 0..G
    BY <1>1, <1>5
  <1> USE <1>0
  <1>9. ASSUME NEW n \in 1..(a + b) - 1
        PROVE  all[n] < all[n + 1] /\ g[all[n]] <= g[all[n + 1]]
    <2>1. CASE n < a
      <3>1. /\ n \in 1..a + b /\ n + 1 \in 1..a + b /\ n <= a /\ n + 1 <= a
            /\ n \in 1..a /\ n + 1 \in 1..a /\ n < n + 1
        BY <2>1
      <3>2. all[n] = h[n] /\ all[n + 1] = h[n + 1]
        BY <1>3, <3>1
      <3> QED BY <1>6, <3>1, <3>2
    <2>2. CASE n = a
      <3>1. n \in 1..a + b /\ n + 1 \in 1..a + b /\ n <= a /\ ~(n + 1 <= a) /\ (n + 1) - a = 1
        BY <1>1, <2>2
      <3>2. all[n] = h[a] /\ all[n + 1] = e[1] /\ 1 \in 1..b /\ a > 0
        BY <1>1, <1>3, <2>2, <3>1
      <3>3. e[1] > c /\ g[e[1]] >= v
        BY <1>4, <3>2
      <3>4. /\ c \in Int /\ v \in Int /\ e[1] \in Int
            /\ g[e[1]] \in Int
        BY <1>1, <1>2, <3>2
      <3> QED BY <1>6, <3>2, <3>3, <3>4
    <2>3. CASE n > a
      <3>1. /\ n \in 1..a + b /\ n + 1 \in 1..a + b /\ ~(n <= a) /\ ~(n + 1 <= a)
            /\ (n + 1) - a \in 1..b /\ (n + 1) - a # 1 /\ ((n + 1) - a) - 1 = n - a
            /\ n - a \in 1..b
        BY <1>1, <2>3
      <3>2. all[n] = e[n - a] /\ all[n + 1] = e[(n + 1) - a]
        BY <1>3, <3>1
      <3>3. /\ e[(n + 1) - a] > e[n - a]
            /\ g[e[(n + 1) - a]] >= g[e[n - a]]
        BY <1>4, <3>1
      <3>4. /\ e[n - a] \in Int /\ e[(n + 1) - a] \in Int
            /\ g[e[n - a]] \in Int /\ g[e[(n + 1) - a]] \in Int
        BY <1>1, <1>2, <3>1
      <3> QED BY <3>2, <3>3, <3>4
    <2> QED BY <1>1, <2>1, <2>2, <2>3
  <1>10. ASSUME NEW m \in 1..a + b, NEW n \in 1..a + b, m < n
         PROVE  all[m] < all[n] /\ g[all[m]] <= g[all[n]]
    <2> DEFINE f == [i \in 1..a + b |-> all[i] - i]
               w == [i \in 1..a + b |-> g[all[i]]]
    <2>1. /\ a + b \in Nat
          /\ \A i \in 1..a + b : all[i] - i \in Int /\ g[all[i]] \in Int
      <3>1. ASSUME NEW i \in 1..a + b
            PROVE  all[i] - i \in Int /\ g[all[i]] \in Int
        <4>1. all[i] \in 1..L /\ g[all[i]] \in 0..G
          BY <1>8
        <4> QED BY <4>1
      <3> QED BY <3>1
    <2>12. f \in [1..a + b -> Int] /\ w \in [1..a + b -> Int]
      BY <2>1
    <2>2. ASSUME NEW i \in 1..(a + b) - 1
          PROVE  f[i] <= f[i + 1] /\ w[i] <= w[i + 1]
      <3>1. i \in 1..a + b /\ i + 1 \in 1..a + b
        BY <1>1
      <3>2. all[i] \in Int /\ all[i + 1] \in Int /\ all[i] < all[i + 1]
        BY <1>1, <1>8, <1>9, <3>1
      <3>3. f[i] = all[i] - i /\ f[i + 1] = all[i + 1] - (i + 1)
        BY <3>1
      <3>4. w[i] = g[all[i]] /\ w[i + 1] = g[all[i + 1]]
        BY <3>1
      <3> HIDE DEF f, w
      <3>5. f[i] <= f[i + 1]
        BY <3>2, <3>3
      <3> QED BY <1>9, <3>4, <3>5
    <2>3. f[m] = all[m] - m /\ f[n] = all[n] - n
      OBVIOUS
    <2>4. w[m] = g[all[m]] /\ w[n] = g[all[n]]
      OBVIOUS
    <2>5. m <= n
      BY <1>1, <1>10
    <2> HIDE DEF f, w
    <2>13. \A i, k \in 1..a + b : i <= k => f[i] <= f[k]
      BY <2>1, <2>12, <2>2, Ascending, Zenon
    <2>14. \A i, k \in 1..a + b : i <= k => w[i] <= w[k]
      BY <2>1, <2>12, <2>2, Ascending, Zenon
    <2>6. f[m] <= f[n]
      BY <2>5, <2>13
    <2>7. w[m] <= w[n]
      BY <2>5, <2>14
    <2>8. all[m] \in Int /\ all[n] \in Int /\ m \in Int /\ n \in Int
      <3>1. all[m] \in 1..L /\ all[n] \in 1..L
        BY <1>8
      <3> QED BY <3>1
    <2> QED BY <1>10, <2>3, <2>4, <2>6, <2>7, <2>8
  <1>12. ASSUME a + b # 0
         PROVE  /\ all[a + b] = IF b = 0 THEN c ELSE e[b]
                /\ g[all[a + b]] =
                     IF b = 0 THEN v ELSE g[e[b]]
    <2>1. a + b \in 1..a + b
      BY <1>1, <1>12
    <2>2. CASE b = 0
      <3>1. a + b = a /\ a + b <= a /\ a > 0
        BY <1>1, <1>12, <2>2
      <3> QED BY <1>3, <1>6, <2>1, <2>2, <3>1
    <2>3. CASE b # 0
      <3>1. ~(a + b <= a) /\ (a + b) - a = b
        BY <1>1, <2>3
      <3>2. all[a + b] = e[b]
        BY <1>3, <2>1, <3>1
      <3> QED BY <2>3, <3>2
    <2> QED BY <2>2, <2>3
  <1> QED BY <1>10, <1>12 DEF InOrderTo

\* What the page appends to the history, before the bound is applied.
LEMMA AllInOrder ==
    ASSUME HistorySound, PageLogged,
           PageFollows(page, view.cursor), GenerationsFollow(page),
           NEW STATE all, all = view.observations \o page.events
    PROVE  /\ all \in Seq(1..Len(generations))
           /\ Len(all) = Len(view.observations) + Len(page.events)
           /\ InOrderTo(generations, Len(all), all, page.next_cursor,
                        IF page.events = <<>> THEN view.generation
                        ELSE generations[page.events[Len(page.events)]])
           /\ page.next_cursor \in 0..Len(generations)
  <1> DEFINE h == view.observations
             e == page.events
             L == Len(generations)
             a == Len(h)
             b == Len(e)
  <1>1. /\ L \in Nat /\ h \in Seq(1..L) /\ e \in Seq(1..L) /\ a \in Nat /\ b \in Nat
        /\ view.cursor \in 0..L /\ view.generation \in 0..MaxGeneration
        /\ generations \in [1..L -> 0..MaxGeneration]
        /\ MaxGeneration \in Nat
    BY ViewsTypes, ViewsAssumption DEF HistorySound
  <1>2. h \in [1..a -> 1..L] /\ e \in [1..b -> 1..L] /\ DOMAIN h = 1..a /\ DOMAIN e = 1..b
    BY <1>1
  <1>3. /\ all \in Seq(1..L) /\ Len(all) = a + b
        /\ \A n \in 1..a + b : all[n] = IF n <= a THEN h[n] ELSE e[n - a]
    <2>1. all = h \o e
      OBVIOUS
    <2> HIDE DEF h, e, L
    <2> QED BY <1>1, <2>1, ConcatProperties
  <1>4. all \in [1..a + b -> 1..L]
    <2>1. all \in [1..Len(all) -> 1..L]
      BY <1>3, LenProperties
    <2> QED BY <1>3, <2>1
  <1>5. \A n \in 1..b :
            /\ e[n] > (IF n = 1 THEN view.cursor ELSE e[n - 1])
            /\ generations[e[n]] >= (IF n = 1 THEN view.generation ELSE generations[e[n - 1]])
    BY <1>2 DEF PageFollows, Previous, GenerationsFollow
  <1>6. page.next_cursor = IF b = 0 THEN view.cursor ELSE e[b]
    <2>1. b + 1 = 1 <=> b = 0
      BY <1>1
    <2>2. (b + 1) - 1 = b
      BY <1>1
    <2> QED BY <2>1, <2>2 DEF PageFollows, Previous
  <1>7. /\ \A m, n \in 1..a : m < n => h[m] < h[n] /\ generations[h[m]] <= generations[h[n]]
        /\ a > 0 => h[a] = view.cursor /\ generations[h[a]] = view.generation
    <2>1. /\ \A m, n \in DOMAIN h : m < n => h[m] < h[n] /\ generations[h[m]] <= generations[h[n]]
          /\ h # <<>> => h[Len(h)] = view.cursor /\ generations[h[Len(h)]] = view.generation
      BY DEF HistorySound, HistoryInOrder
    <2>2. a > 0 => h # <<>>
      BY <1>1
    <2> HIDE DEF h
    <2> QED BY <1>2, <2>1, <2>2
  <1>8. e = <<>> <=> b = 0
    BY <1>1
  <1> HIDE DEF h, e, L, a, b
  <1>9. InOrderTo(generations, a + b, all, IF b = 0 THEN view.cursor ELSE e[b],
                  IF b = 0 THEN view.generation ELSE generations[e[b]])
    <2>1. EventsFollow(L, MaxGeneration, generations, a, b, h, e, all, view.cursor, view.generation)
      BY <1>1, <1>2, <1>3, <1>4, <1>5, <1>7 DEF EventsFollow
    <2> QED BY <2>1, AppendedInOrder, Zenon
  <1>10. page.next_cursor \in 0..L
    BY <1>1, <1>2, <1>6
  <1> QED BY <1>3, <1>6, <1>8, <1>9, <1>10 DEF h, e, L, a, b

\* The bound keeps the newest events of a history in order.
LEMMA RetainedInOrder ==
    ASSUME NEW S, NEW g, NEW all \in Seq(S), NEW c, NEW v,
           InOrderTo(g, Len(all), all, c, v)
    PROVE  /\ Retained(all) \in Seq(S)
           /\ Len(Retained(all)) \in Nat /\ Len(Retained(all)) <= MaxHistory
           /\ InOrderTo(g, Len(Retained(all)), Retained(all), c, v)
  <1>1. Len(all) \in Nat /\ MaxHistory \in Nat /\ \A i \in 1..Len(all) : all[i] \in S
    BY ViewsAssumption
  <1>2. CASE ~(Excess(all) > 0)
    BY <1>1, <1>2 DEF Retained, Excess
  <1>3. CASE Excess(all) > 0
    <2> DEFINE x == Len(all) - MaxHistory
               R == SubSeq(all, x + 1, Len(all))
    <2>1. Retained(all) = R /\ x \in Nat /\ x > 0 /\ x + MaxHistory = Len(all)
      BY <1>1, <1>3 DEF Retained, Excess
    <2>2. /\ R \in Seq(S)
          /\ Len(R) = IF x + 1 <= Len(all) THEN Len(all) - (x + 1) + 1 ELSE 0
          /\ \A i \in 1..Len(all) - (x + 1) + 1 : R[i] = all[x + 1 + i - 1]
      <3>1. \A i \in x + 1..Len(all) : all[i] \in S
        BY <1>1, <2>1
      <3> QED BY <1>1, <2>1, <3>1, SubSeqProperties
    <2> HIDE DEF x, R
    <2>3. Len(R) = MaxHistory
      BY <1>1, <2>1, <2>2
    <2>4. ASSUME NEW i \in 1..MaxHistory
          PROVE  R[i] = all[x + i] /\ x + i \in 1..Len(all)
      <3>1. i \in 1..Len(all) - (x + 1) + 1 /\ x + 1 + i - 1 = x + i
        BY <1>1, <2>1
      <3> QED BY <1>1, <2>1, <2>2, <3>1
    <2>5. InOrderTo(g, MaxHistory, R, c, v)
      <3>1. ASSUME NEW m \in 1..MaxHistory, NEW n \in 1..MaxHistory, m < n
            PROVE  R[m] < R[n] /\ g[R[m]] <= g[R[n]]
        <4>1. x + m < x + n
          BY <1>1, <2>1, <3>1
        <4> QED BY <2>4, <4>1 DEF InOrderTo
      <3>2. ASSUME MaxHistory # 0
            PROVE  R[MaxHistory] = c /\ g[R[MaxHistory]] = v
        <4>1. MaxHistory \in 1..MaxHistory /\ Len(all) # 0
          BY <1>1, <2>1, <3>2
        <4>2. R[MaxHistory] = all[Len(all)]
          BY <2>1, <2>4, <4>1
        <4> QED BY <4>1, <4>2 DEF InOrderTo
      <3> QED BY <3>1, <3>2 DEF InOrderTo
    <2> QED BY <1>1, <2>1, <2>2, <2>3, <2>5
  <1> QED BY <1>2, <1>3

\* Numbers that continue a cursor one by one.
LEMMA Contiguous ==
    ASSUME NEW a \in Nat, NEW b \in Nat, NEW e \in [1..b -> Nat],
           \A n \in 1..b : e[n] = (IF n = 1 THEN a ELSE e[n - 1]) + 1
    PROVE  \A n \in 1..b : e[n] = a + n
  <1> SUFFICES ASSUME NEW l \in 1..b, e[l] # a + l
               PROVE  FALSE
    OBVIOUS
  <1> DEFINE B == {n \in 1..b : e[n] # a + n}
  <1>1. B \subseteq Nat /\ l \in B
    OBVIOUS
  <1> HIDE DEF B
  <1>2. PICK n \in B : \A k \in B : n <= k
    BY <1>1, LeastOf
  <1>3. n \in 1..b /\ e[n] # a + n
    BY <1>2 DEF B
  <1>4. n # 1
    BY <1>3
  <1>5. n - 1 \in 1..b /\ ~(n <= n - 1)
    BY <1>3, <1>4
  <1>6. e[n - 1] = a + (n - 1)
    BY <1>2, <1>5 DEF B
  <1> QED BY <1>3, <1>4, <1>6

\* A history that is whole and is extended by a page that leaves no gap stays whole.
LEMMA StaysWhole ==
    ASSUME HistorySound, PageLogged,
           ~view.history_truncated, ~page.truncated, PageFollows(page, view.cursor),
           NEW STATE all, all = view.observations \o page.events
    PROVE  Len(all) = page.next_cursor /\ \A n \in 1..Len(all) : all[n] = n
  <1> DEFINE h == view.observations
             e == page.events
             L == Len(generations)
             a == Len(h)
             b == Len(e)
  <1>1. /\ L \in Nat /\ h \in Seq(1..L) /\ e \in Seq(1..L) /\ a \in Nat /\ b \in Nat
        /\ view.cursor \in 0..L
    BY ViewsTypes DEF HistorySound
  <1>2. DOMAIN h = 1..a /\ DOMAIN e = 1..b /\ e \in [1..b -> 1..L] /\ 1..L \subseteq Nat
    BY <1>1
  <1>3. /\ Len(all) = a + b
        /\ \A n \in 1..a + b : all[n] = IF n <= a THEN h[n] ELSE e[n - a]
    <2>1. all = h \o e
      OBVIOUS
    <2> HIDE DEF h, e, L
    <2> QED BY <1>1, <2>1, ConcatProperties
  <1>4. a = view.cursor /\ \A n \in 1..a : h[n] = n
    BY <1>2 DEF HistorySound, UnmarkedHistoryIsWhole
  <1>5. \A n \in 1..b : e[n] = (IF n = 1 THEN a ELSE e[n - 1]) + 1
    BY <1>2, <1>4 DEF PageFollows, Previous
  <1>6. page.next_cursor = IF b = 0 THEN a ELSE e[b]
    <2>1. b + 1 = 1 <=> b = 0
      BY <1>1
    <2>2. (b + 1) - 1 = b
      BY <1>1
    <2> QED BY <1>4, <2>1, <2>2 DEF PageFollows, Previous
  <1> HIDE DEF h, e, L, a, b
  <1>7. e \in [1..b -> Nat]
    BY <1>2
  <1>8. \A n \in 1..b : e[n] = a + n
    BY <1>1, <1>5, <1>7, Contiguous, Zenon
  <1>9. page.next_cursor = a + b
    <2>1. CASE b = 0
      BY <1>1, <1>6, <2>1
    <2>2. CASE b # 0
      <3>1. b \in 1..b
        BY <1>1, <2>2
      <3> QED BY <1>6, <1>8, <2>2, <3>1
    <2> QED BY <2>1, <2>2
  <1>10. ASSUME NEW n \in 1..a + b
         PROVE  all[n] = n
    <2>1. CASE n <= a
      <3>1. n \in 1..a
        BY <1>1, <2>1
      <3> QED BY <1>3, <1>4, <2>1, <3>1
    <2>2. CASE ~(n <= a)
      <3>1. n - a \in 1..b /\ a + (n - a) = n
        BY <1>1, <2>2
      <3>2. e[n - a] = a + (n - a)
        BY <1>8, <3>1
      <3> QED BY <1>3, <2>2, <3>1, <3>2
    <2> QED BY <2>1, <2>2
  <1> QED BY <1>3, <1>9, <1>10

LEMMA EmptyPageIs ==
    ASSUME NEW after \in 0..MaxObserved
    PROVE  EmptyPage(after) \in Pages /\ DOMAIN EmptyPage(after).events = {}
  <1>1. <<>> \in [1..0 -> Numbers] /\ 0 \in 0..MaxPage /\ DOMAIN <<>> = {}
    BY ViewsAssumption
  <1>2. <<>> \in UNION {[1..k -> Numbers] : k \in 0..MaxPage}
    BY <1>1
  <1> QED BY <1>1, <1>2 DEF EmptyPage, Pages

\* The view and its soundness depend on the log only where the view refers to it.
LEMMA ObservedLogGrows ==
    ASSUME NEW x \in 0..MaxGeneration, ViewsIInv, HostObserves(x)
    PROVE  ViewsIInv'
  <1> DEFINE L == Len(generations)
  <1>1. /\ L \in Nat /\ generations \in Seq(0..MaxGeneration)
        /\ forgotten \in 0..L /\ page \in Pages
        /\ view \in [cursor : 0..L, generation : 0..MaxGeneration,
                     observations : Seq(1..L), history_truncated : BOOLEAN]
        /\ Len(view.observations) <= MaxHistory
    BY DEF ViewsIInv, HistorySound, ViewsTypeOK
  <1>2. /\ generations' \in Seq(0..MaxGeneration) /\ Len(generations') = L + 1
        /\ \A n \in 1..L : generations'[n] = generations[n]
    BY <1>1 DEF HostObserves
  <1>3. forgotten' = forgotten /\ page' = page /\ view' = view
    BY DEF HostObserves
  <1>4. view.observations \in Seq(1..L) /\ \A n \in DOMAIN view.observations : view.observations[n] \in 1..L
    BY <1>1
  <1> HIDE DEF L
  <1>5. 0..L \subseteq 0..L + 1 /\ 1..L \subseteq 1..L + 1
    BY <1>1
  <1>6. view.observations \in Seq(1..L + 1)
    BY <1>4, <1>5, SeqMonotonic
  <1>7. view \in [cursor : 0..L + 1, generation : 0..MaxGeneration,
                  observations : Seq(1..L + 1), history_truncated : BOOLEAN]
    BY <1>1, <1>5, <1>6
  <1>8. ViewsTypeOK'
    BY <1>1, <1>2, <1>3, <1>5, <1>7 DEF ViewsTypeOK
  <1>9. UnmarkedHistoryIsWhole'
    BY <1>3 DEF ViewsIInv, HistorySound, UnmarkedHistoryIsWhole
  <1>10. HistoryInOrder'
    <2>1. view.observations # <<>> => Len(view.observations) \in DOMAIN view.observations
      BY <1>4
    <2> QED BY <1>2, <1>3, <1>4, <2>1 DEF ViewsIInv, HistorySound, HistoryInOrder
  <1>11. PageLogged'
    BY <1>2, <1>3, <1>5 DEF ViewsIInv, PageLogged, L
  <1> QED BY <1>8, <1>9, <1>10, <1>11 DEF ViewsIInv, HistorySound

\* The page is received, or replaced by an empty one: the view is not concerned.
LEMMA PageReplaced ==
    ASSUME ViewsIInv, page' \in Pages, UNCHANGED <<generations, view>>,
           forgotten' \in 0..Len(generations),
           \A n \in DOMAIN page'.events : page'.events[n] \in 1..Len(generations)
    PROVE  ViewsIInv'
  BY DEF ViewsIInv, HistorySound, ViewsTypeOK, UnmarkedHistoryIsWhole, HistoryInOrder, PageLogged

LEMMA PageApplied ==
    ASSUME ViewsIInv, apply_page
    PROVE  ViewsIInv'
  <1> DEFINE all == view.observations \o page.events
             generation == IF page.events = <<>> THEN view.generation
                           ELSE generations[page.events[Len(page.events)]]
             L == Len(generations)
             R == Retained(all)
             marked == view.history_truncated \/ Truncates(page, Excess(all))
  <1>1. HistorySound /\ PageLogged /\ PageFollows(page, view.cursor) /\ GenerationsFollow(page)
    BY DEF ViewsIInv, apply_page
  <1>2. /\ view' = [cursor |-> page.next_cursor, generation |-> generation,
                    observations |-> R, history_truncated |-> marked]
        /\ generations' = generations /\ forgotten' = forgotten /\ page' = page
    BY DEF apply_page
  <1>3. /\ all \in Seq(1..L) /\ Len(all) \in Nat
        /\ InOrderTo(generations, Len(all), all, page.next_cursor, generation)
        /\ page.next_cursor \in 0..L
    <2>1. /\ all \in Seq(1..L)
          /\ InOrderTo(generations, Len(all), all, page.next_cursor, generation)
          /\ page.next_cursor \in 0..L
      BY <1>1, AllInOrder
    <2> HIDE DEF all, L
    <2> QED BY <2>1
  <1>4. ~marked => /\ ~view.history_truncated /\ ~page.truncated
                   /\ Len(all) = page.next_cursor /\ \A n \in 1..Len(all) : all[n] = n
    BY <1>1, StaysWhole DEF Truncates
  <1>5. generation \in 0..MaxGeneration
    <2>1. page.events # <<>> => page.events[Len(page.events)] \in 1..L
      BY <1>1, ViewsTypes DEF HistorySound
    <2> QED BY <1>1, <2>1, ViewsTypes DEF HistorySound
  <1>6. marked \in BOOLEAN
    BY <1>1, ViewsTypes DEF HistorySound, Truncates
  <1>7. ~marked => R = all
    BY DEF Truncates, Retained
  <1> HIDE DEF all, generation, L, marked
  <1>8. /\ R \in Seq(1..L) /\ Len(R) \in Nat /\ Len(R) <= MaxHistory
        /\ InOrderTo(generations, Len(R), R, page.next_cursor, generation)
    BY <1>3, RetainedInOrder
  <1> HIDE DEF R
  <1>9. ViewsTypeOK'
    BY <1>1, <1>2, <1>3, <1>5, <1>6, <1>8 DEF HistorySound, ViewsTypeOK, L
  <1>10. DOMAIN R = 1..Len(R) /\ (R # <<>> => Len(R) # 0)
    BY <1>8
  <1>11. UnmarkedHistoryIsWhole'
    BY <1>2, <1>4, <1>7, <1>10 DEF UnmarkedHistoryIsWhole
  <1>12. HistoryInOrder'
    BY <1>2, <1>8, <1>10 DEF HistoryInOrder, InOrderTo
  <1>13. PageLogged'
    BY <1>1, <1>2 DEF PageLogged
  <1> QED BY <1>9, <1>11, <1>12, <1>13 DEF ViewsIInv, HistorySound

LEMMA ViewsInitIInv == ViewsInit => ViewsIInv
  <1> SUFFICES ASSUME ViewsInit PROVE ViewsIInv
    OBVIOUS
  <1>1. page \in Pages /\ DOMAIN page.events = {}
    BY EmptyPageIs, ViewsAssumption DEF ViewsInit
  <1>2. generations \in Seq(0..MaxGeneration) /\ Len(generations) = 0 /\ forgotten \in 0..0
    BY DEF ViewsInit
  <1>3. view.observations = <<>> /\ view.cursor = 0 /\ view.generation = 0
    BY DEF ViewsInit
  <1>4. <<>> \in Seq(1..0) /\ Len(<<>>) = 0 /\ DOMAIN <<>> = {}
    OBVIOUS
  <1>5. view \in [cursor : 0..0, generation : 0..MaxGeneration,
                  observations : Seq(1..0), history_truncated : BOOLEAN]
    BY <1>4, ViewsAssumption DEF ViewsInit
  <1>6. ViewsTypeOK
    BY <1>1, <1>2, <1>3, <1>4, <1>5, ViewsAssumption DEF ViewsTypeOK
  <1>7. UnmarkedHistoryIsWhole /\ HistoryInOrder /\ PageLogged
    BY <1>1, <1>3, <1>4 DEF UnmarkedHistoryIsWhole, HistoryInOrder, PageLogged
  <1> QED BY <1>6, <1>7 DEF ViewsIInv, HistorySound

LEMMA ViewsNextIInv == ViewsIInv /\ [ViewsNext]_viewsVars => ViewsIInv'
  <1> SUFFICES ASSUME ViewsIInv, [ViewsNext]_viewsVars PROVE ViewsIInv'
    OBVIOUS
  <1>1. /\ forgotten \in 0..Len(generations) /\ Len(generations) \in Nat /\ page \in Pages
        /\ \A n \in DOMAIN page.events : page.events[n] \in 1..Len(generations)
    BY ViewsTypes DEF ViewsIInv, HistorySound, ViewsTypeOK, PageLogged
  <1>2. ASSUME NEW x \in 0..MaxGeneration, HostObserves(x)
        PROVE  ViewsIInv'
    BY <1>2, ObservedLogGrows
  <1>3. CASE HostForgets
    <2>1. forgotten' \in 0..Len(generations)
      BY <1>1, <1>3 DEF HostForgets
    <2> QED BY <1>1, <1>3, <2>1, PageReplaced DEF HostForgets
  <1>4. ASSUME NEW after \in 0..MaxObserved, NEW p \in Pages, observe_workspace(after, p)
        PROVE  ViewsIInv'
    <2>1. forgotten + 1..Len(generations) \subseteq 1..Len(generations)
      BY <1>1
    <2>2. \A n \in DOMAIN page'.events : page'.events[n] \in 1..Len(generations)
      BY <1>4, <2>1 DEF observe_workspace
    <2> QED BY <1>1, <1>4, <2>2, PageReplaced DEF observe_workspace
  <1>5. ASSUME NEW after \in 0..MaxObserved, ObserveWithoutConsent(after)
        PROVE  ViewsIInv'
    BY <1>1, <1>5, EmptyPageIs, PageReplaced DEF ObserveWithoutConsent
  <1>6. CASE apply_page
    BY <1>6, PageApplied
  <1>7. CASE UNCHANGED viewsVars
    BY <1>1, <1>7, PageReplaced DEF viewsVars
  <1> QED BY <1>2, <1>3, <1>4, <1>5, <1>6, <1>7 DEF ViewsNext

(* What a surface shows of a workspace is sound for any log, page size and history
   bound: within its bound, whole as long as it is not marked as truncated, in the
   order of the stream always, whatever pages the host answers with and in whatever
   order, how late and how often the surface applies them. *)
THEOREM WorkspaceHistorySound == ViewsSpec => []HistorySound
  <1>1. ViewsIInv => HistorySound
    BY DEF ViewsIInv
  <1> QED BY <1>1, ViewsInitIInv, ViewsNextIInv, PTL DEF ViewsSpec
==============================================================================
