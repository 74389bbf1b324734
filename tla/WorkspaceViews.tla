---------------------------- MODULE WorkspaceViews ----------------------------
(***************************************************************************)
(* The workspace observations and advisories that a surface shows          *)
(* (simplicio-agent-client, WorkspaceObservationState and                  *)
(* WorkspaceAdvisoryState, which apply pages in the same way).  The surface*)
(* asks for the page after a cursor of its choice, keeps it as long as it  *)
(* likes and applies it late, again, or never.  The AgentHost is external: *)
(* it numbers the events of a workspace from 1, may forget the oldest, and *)
(* may answer with any page; the client refuses the ones it can tell are   *)
(* wrong.  A refused or failed call changes nothing.  Of an event the model*)
(* keeps its sequence number and, in the host's log, its generation; a     *)
(* malformed text, schema or workspace is one more refused page.           *)
(***************************************************************************)
EXTENDS Integers, Sequences

CONSTANTS
    MaxObserved,        \* bound: events the host logs
    MaxGeneration,      \* bound: their generations
    MaxPage,            \* MAX_OBSERVATIONS_PER_PAGE, or the request's max_events
    MaxHistory          \* MAX_WORKSPACE_OBSERVATION_HISTORY

ASSUME ViewsAssumption ==
    /\ MaxObserved \in Nat /\ MaxGeneration \in Nat
    /\ MaxPage \in Nat /\ MaxHistory \in Nat

VARIABLES
    generations,    \* the host's log, external: generation of each event
    forgotten,      \* number of the oldest events the host no longer holds
    page,           \* the last page that observe_workspace returned
    view            \* WorkspaceObservationState

viewsVars == <<generations, forgotten, page, view>>

Numbers == 1..MaxObserved
Pages == [events : UNION {[1..k -> Numbers] : k \in 0..MaxPage},
          next_cursor : 0..MaxObserved, truncated : BOOLEAN]
EmptyPage(after) == [events |-> <<>>, next_cursor |-> after, truncated |-> FALSE]

ViewsInit ==
    /\ generations = <<>> /\ forgotten = 0
    /\ page = EmptyPage(0)
    /\ view = [cursor |-> 0, generation |-> 0, observations |-> <<>>,
               history_truncated |-> FALSE]

HostObserves(generation) ==
    /\ Len(generations) < MaxObserved
    /\ generations' = Append(generations, generation)
    /\ UNCHANGED <<forgotten, page, view>>

HostForgets ==
    /\ forgotten < Len(generations)
    /\ forgotten' = forgotten + 1
    /\ UNCHANGED <<generations, page, view>>

------------------------------------------------------------------------------

\* The number before the n-th event of a page that follows a cursor.
Previous(p, cursor, n) == IF n = 1 THEN cursor ELSE p.events[n - 1]

\* Fault: a gap is accepted anywhere, as long as the numbers grow.
GrowingFrom(p, cursor) ==
    /\ \A n \in DOMAIN p.events : p.events[n] > Previous(p, cursor, n)
    /\ p.next_cursor = Previous(p, cursor, Len(p.events) + 1)
\* Contiguous numbers; only the first may leave a gap, on a truncated page.
PageFollows(p, cursor) ==
    /\ \A n \in DOMAIN p.events :
        /\ p.events[n] > Previous(p, cursor, n)
        /\ p.events[n] # Previous(p, cursor, n) + 1 => n = 1 /\ p.truncated
    /\ p.next_cursor = Previous(p, cursor, Len(p.events) + 1)

\* parse_workspace_observation_page, of a page with events of the host's log.
parse_page(p, after) ==
    /\ PageFollows(p, after)
    /\ \A n \in DOMAIN p.events : generations[p.events[n]] > 0

\* observe_workspace: the cursor is the caller's; without consent nothing is asked.
observe_workspace(after, p) ==
    /\ \A n \in DOMAIN p.events : p.events[n] \in forgotten + 1..Len(generations)
    /\ parse_page(p, after)
    /\ page' = p
    /\ UNCHANGED <<generations, forgotten, view>>

ObserveWithoutConsent(after) ==
    /\ page' = EmptyPage(after)
    /\ UNCHANGED <<generations, forgotten, view>>

\* Fault: an event must be of a newer generation than the one before it.
NewerGenerations(p) ==
    \A n \in DOMAIN p.events :
        generations[p.events[n]] >
            IF n = 1 THEN view.generation ELSE generations[p.events[n - 1]]
GenerationsFollow(p) ==
    \A n \in DOMAIN p.events :
        /\ generations[p.events[n]] > 0
        /\ generations[p.events[n]] >=
            IF n = 1 THEN view.generation ELSE generations[p.events[n - 1]]

\* Fault: only a page that says so marks the history as truncated.
MarkTruncatedPage(p, excess) == p.truncated
Truncates(p, excess) == p.truncated \/ excess > 0

Excess(all) == Len(all) - MaxHistory

\* What the view retains: the newest events, within its bound.
Retained(all) == IF Excess(all) > 0 THEN SubSeq(all, Excess(all) + 1, Len(all)) ELSE all

\* apply_page with consent, of the page at hand; it may be applied again later.
apply_page ==
    /\ PageFollows(page, view.cursor)
    /\ GenerationsFollow(page)
    /\ LET all == view.observations \o page.events
       IN view' = [cursor |-> page.next_cursor,
                   generation |-> IF page.events = <<>> THEN view.generation
                                  ELSE generations[page.events[Len(page.events)]],
                   observations |-> Retained(all),
                   history_truncated |-> \/ view.history_truncated
                                         \/ Truncates(page, Excess(all))]
    /\ UNCHANGED <<generations, forgotten, page>>

ViewsNext ==
    \/ \E g \in 0..MaxGeneration : HostObserves(g)
    \/ HostForgets
    \/ \E after \in 0..MaxObserved :
        \/ \E p \in Pages : observe_workspace(after, p)
        \/ ObserveWithoutConsent(after)
    \/ apply_page

ViewsSpec == ViewsInit /\ [][ViewsNext]_viewsVars

\* An answer with what the host holds after the cursor, as much as fits on a page.
HonestAnswer ==
    /\ Len(generations) > view.cursor
    /\ LET lost == forgotten > view.cursor
       IN \E p \in Pages :
            /\ p.events # <<>>
            /\ p.events[1] = (IF lost THEN forgotten ELSE view.cursor) + 1
            /\ p.truncated = lost
            /\ observe_workspace(view.cursor, p)

\* The surface asks again and again from its cursor and applies what it gets; the
\* host answers it properly sometimes.
ViewsFairness ==
    /\ SF_viewsVars(HonestAnswer)
    /\ SF_viewsVars(apply_page /\ view'.cursor > view.cursor)

------------------------------------------------------------------------------
(* Properties *)

\* The view, the page and the host's log keep their shape; the history its bound.
ViewsTypeOK ==
    /\ generations \in Seq(0..MaxGeneration)
    /\ forgotten \in 0..Len(generations)
    /\ page \in Pages
    /\ view \in [cursor : 0..Len(generations), generation : 0..MaxGeneration,
                 observations : Seq(1..Len(generations)), history_truncated : BOOLEAN]
    /\ Len(view.observations) <= MaxHistory

\* A history that is not marked as truncated is the whole stream up to the cursor,
\* each event once and in order, whatever pages were kept, repeated, applied out of
\* order or asked for with another cursor.
UnmarkedHistoryIsWhole ==
    ~view.history_truncated =>
        /\ Len(view.observations) = view.cursor
        /\ \A n \in DOMAIN view.observations : view.observations[n] = n

\* A history that is marked is still in the order of the stream, without repeats,
\* and ends at the cursor; generations never go back in it, and the view's is the
\* last one.
HistoryInOrder ==
    LET h == view.observations
    IN /\ \A m, n \in DOMAIN h :
            m < n => h[m] < h[n] /\ generations[h[m]] <= generations[h[n]]
       /\ h # <<>> => /\ h[Len(h)] = view.cursor
                      /\ generations[h[Len(h)]] = view.generation

\* What the surface shows is sound: well-formed and within its bound, whole as long
\* as it is not marked as truncated, and in the order of the stream always.
HistorySound == ViewsTypeOK /\ UnmarkedHistoryIsWhole /\ HistoryInOrder

\* Generations of the host's log never go back.
HostInOrder ==
    \A m, n \in DOMAIN generations :
        m <= n => 0 < generations[m] /\ generations[m] <= generations[n]

\* A surface that keeps asking reaches the end of the stream of a host that forgets,
\* unless all that is left was forgotten before it came to it.
ViewCatchesUp ==
    []HostInOrder => []<>(view.cursor = Len(generations) \/ forgotten = Len(generations))
==============================================================================
