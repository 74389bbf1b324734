---------------------------- MODULE MCClientViews ----------------------------
(* What a surface keeps of remote work: the coordinator of its AgentHost, the
   operator inbox, the runs of external workers, and the workspace observations.
   They share no state, so a behaviour of this instance is one of a single view. *)
EXTENDS AgentHostCoordinator, OperationalInbox, ExternalWorkers, WorkspaceViews

Event(t, attempt, fence, shows, lease) ==
    [task |-> t, attempt |-> attempt, fence |-> fence, state |-> shows,
     lease |-> lease, valid |-> TRUE]

\* One worktree, two tasks, events of a first attempt, of its second fence and of
\* a second attempt; one that apply_event refuses by itself.
MCEvents ==
    {Event("t1", 1, 1, "Working", "w"), Event("t1", 1, 1, "Failed", "w"),
     Event("t1", 1, 2, "Working", None), Event("t1", 2, 1, "Done", "w"),
     Event("t2", 1, 1, "Blocked", "w"), Event("t2", 1, 1, "Done", "w"),
     [Event("t2", 1, 2, "Done", None) EXCEPT !.valid = FALSE]}

VARIABLE shown      \* the view this behaviour is about

MCInit ==
    /\ Init /\ InboxInit /\ WorkersInit /\ ViewsInit
    /\ shown \in {"host", "inbox", "workers", "workspace"}
    /\ shown # "host" => host.cancel     \* one of the host's two initial states will do

MCNext ==
    \/ shown = "host" /\ Next /\ UNCHANGED <<inboxVars, workersVars, viewsVars, shown>>
    \/ shown = "inbox" /\ InboxNext /\ UNCHANGED <<vars, workersVars, viewsVars, shown>>
    \/ shown = "workers" /\ WorkersNext /\ UNCHANGED <<vars, inboxVars, viewsVars, shown>>
    \/ shown = "workspace" /\ ViewsNext /\ UNCHANGED <<vars, inboxVars, workersVars, shown>>

MCSpec ==
    /\ MCInit
    /\ [][MCNext]_<<vars, inboxVars, workersVars, viewsVars, shown>>
    /\ Fairness
    /\ ViewsFairness
==============================================================================
