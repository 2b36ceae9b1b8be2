---------------------------- MODULE MetricsAgent ----------------------------
(***************************************************************************)
(* The metrics agent of ci-operator (pkg/metrics/metrics.go).  Goroutines  *)
(* of steps, and some that nobody waits for, call Record; the goroutine    *)
(* that cmd/ci-operator starts executes Run and hands every event to the   *)
(* plugins; the main goroutine calls Stop when it is about to exit.  They  *)
(* share the channel `events` and the mutex that guards it, which Record   *)
(* keeps while it waits for room in the channel.                           *)
(*                                                                         *)
(* flush also needs the mutex of the nodes plugin.  Of that plugin, which  *)
(* is NodeWatch, only what the agent can meet is here: AddNodeForWorkload  *)
(* may wait for room in its channel with that mutex in its hands.          *)
(*                                                                         *)
(* An event is <<p, i>>, the i-th one of goroutine p.  The context is      *)
(* context.TODO(), so its Done never fires.                                *)
(***************************************************************************)
EXTENDS Naturals, Sequences, FiniteSets

CONSTANTS
    Producer,    \* goroutines that record events
    Count,       \* producer -> how many events it records
    Late,        \* producer -> how many of them, the last ones, come after
                 \* the last thing the main goroutine waits for
    Capacity     \* of the channel

ASSUME MetricsAssumption ==
    /\ Count \in [Producer -> Nat]
    /\ Late \in [Producer -> Nat]
    /\ Capacity \in Nat \ {0}

VARIABLES
    mu,        \* the producers that hold the mutex: none or one
    events,    \* the content of the channel
    closed,    \* the channel was closed
    agent,     \* Run: "created", "loop", "select", "recording" or "ended"
    inHand,    \* Run: the event being given to the plugins, as a sequence
    stored,    \* what the plugins hold
    wg,        \* the counter of the WaitGroup
    next,      \* producer -> the number of its next event
    adding,    \* AddNodeForWorkload waits with the mutex of the nodes plugin
    caller,    \* of Stop: "running", "stopping" (in wg.Wait), "flushing" or "flushed"
    missed,    \* history: wg.Wait returned before Run was counted
    output,    \* the artifact
    crashed,   \* the producers whose send panicked
    accepted   \* history: the events whose Record returned

metricsVars == <<mu, events, closed, agent, inHand, stored, wg, next, adding, caller,
                 missed, output, crashed, accepted>>

stopper == <<caller, missed, output>>

channel == <<mu, events, closed, next, crashed, accepted>>

Event == Producer \X Nat

-----------------------------------------------------------------------------
MetricsInit ==
    /\ mu = {} /\ events = <<>> /\ closed = FALSE
    /\ agent = "created" /\ inHand = <<>> /\ stored = <<>> /\ wg = 0
    /\ next = [p \in Producer |-> 1]
    /\ adding = FALSE
    /\ caller = "running" /\ missed = FALSE /\ output = <<>>
    /\ crashed = {} /\ accepted = <<>>

\* A panic in any goroutine ends the process.
Alive == crashed = {}

\* The goroutine starts to execute Run: only now is it counted.
AgentBegins ==
    /\ Alive /\ agent = "created"
    /\ wg' = wg + 1
    /\ agent' = "loop"
    /\ UNCHANGED <<channel, inHand, stored, adding, stopper>>

\* ma.mu.Lock(); ch := ma.events; ma.mu.Unlock()
AgentLoads ==
    /\ Alive /\ agent = "loop"
    /\ mu = {}
    /\ agent' = "select"
    /\ UNCHANGED <<channel, inHand, stored, wg, adding, stopper>>

\* case ev, ok := <-ch, with an event: one that was sent before the close is
\* still received.
AgentReceives ==
    /\ Alive /\ agent = "select"
    /\ events # <<>>
    /\ inHand' = <<Head(events)>> /\ events' = Tail(events)
    /\ agent' = "recording"
    /\ UNCHANGED <<mu, closed, stored, wg, next, adding, stopper, crashed, accepted>>

\* case ev, ok := <-ch, with ok false; the deferred wg.Done().
AgentEnds ==
    /\ Alive /\ agent = "select"
    /\ closed /\ events = <<>>
    /\ agent' = "ended" /\ wg' = wg - 1
    /\ UNCHANGED <<channel, inHand, stored, adding, stopper>>

\* The Record methods of all the plugins.
AgentRecords ==
    /\ Alive /\ agent = "recording"
    /\ stored' = stored \o inHand /\ inHand' = <<>>
    /\ agent' = "loop"
    /\ UNCHANGED <<channel, wg, adding, stopper>>

-----------------------------------------------------------------------------
\* Record: ma.mu.Lock()
RecordLocks(p) ==
    /\ Alive /\ mu = {}
    /\ next[p] <= Count[p]
    /\ mu' = {p}
    /\ UNCHANGED <<events, closed, agent, inHand, stored, wg, next, adding, stopper,
                   crashed, accepted>>

\* Record: ma.events <- ev, and the deferred Unlock.
RecordSends(p) ==
    /\ Alive /\ p \in mu
    /\ ~closed /\ Len(events) < Capacity
    /\ events' = Append(events, <<p, next[p]>>)
    /\ accepted' = Append(accepted, <<p, next[p]>>)
    /\ next' = [next EXCEPT ![p] = @ + 1]
    /\ mu' = {}
    /\ UNCHANGED <<closed, agent, inHand, stored, wg, adding, stopper, crashed>>

\* Record: a send on the closed channel panics.
RecordPanics(p) ==
    /\ Alive /\ p \in mu
    /\ closed
    /\ crashed' = {p}
    /\ UNCHANGED <<mu, events, closed, agent, inHand, stored, wg, next, adding, stopper,
                   accepted>>

-----------------------------------------------------------------------------
\* What options.Run has waited for when its deferred function is called: every
\* step's message was received, so all that precedes it was recorded.
WaitedFor == \A p \in Producer : next[p] + Late[p] > Count[p]

\* Mutant: Stop does not close the channel.
StopDoesNotClose ==
    /\ Alive /\ caller = "running" /\ WaitedFor
    /\ mu = {}
    /\ caller' = "stopping"
    /\ UNCHANGED <<mu, events, closed, agent, inHand, stored, wg, next, adding, missed,
                   output, crashed, accepted>>

\* Stop: ma.mu.Lock(); close(ma.events); ma.mu.Unlock()
StopCloses ==
    /\ Alive /\ caller = "running" /\ WaitedFor
    /\ mu = {}
    /\ closed' = TRUE
    /\ caller' = "stopping"
    /\ UNCHANGED <<mu, events, agent, inHand, stored, wg, next, adding, missed, output,
                   crashed, accepted>>

\* Mutant: Stop does not wait for the agent.
StopWaitsNot ==
    /\ Alive /\ caller = "stopping"
    /\ caller' = "flushing" /\ missed' = (agent = "created")
    /\ UNCHANGED <<channel, agent, inHand, stored, wg, adding, output>>

\* Stop: ma.wg.Wait(), which does not wait for an agent that has not begun.
StopWaits ==
    /\ Alive /\ caller = "stopping"
    /\ wg = 0
    /\ caller' = "flushing" /\ missed' = (agent = "created")
    /\ UNCHANGED <<channel, agent, inHand, stored, wg, adding, output>>

\* Stop: ma.flush(), which asks every plugin for its events, the nodes plugin with
\* its mutex.
StopFlushes ==
    /\ Alive /\ caller = "flushing"
    /\ ~adding
    /\ output' = stored
    /\ caller' = "flushed"
    /\ UNCHANGED <<channel, agent, inHand, stored, wg, adding, missed>>

-----------------------------------------------------------------------------
\* AddNodeForWorkload, in a goroutine that nobody waits for, finds the channel of
\* the nodes plugin full; it goes on when there is room.
AddWaits ==
    /\ Alive /\ ~adding
    /\ adding' = TRUE
    /\ UNCHANGED <<channel, agent, inHand, stored, wg, stopper>>

AddSends ==
    /\ Alive /\ adding
    /\ adding' = FALSE
    /\ UNCHANGED <<channel, agent, inHand, stored, wg, stopper>>

Agent == AgentBegins \/ AgentLoads \/ AgentReceives \/ AgentEnds \/ AgentRecords

Record(p) == RecordLocks(p) \/ RecordSends(p) \/ RecordPanics(p)

StopAgent == StopCloses \/ StopWaits \/ StopFlushes

MetricsNext == Agent \/ StopAgent \/ AddWaits \/ AddSends \/ \E p \in Producer : Record(p)

\* Go schedules every goroutine that can run, and a mutex that is free again
\* and again is not denied to any of those who wait for it for ever.  Nothing says
\* that there will be room for a node: Run of the nodes plugin may need the mutex.
MetricsFairness ==
    /\ SF_metricsVars(AgentLoads) /\ WF_metricsVars(Agent)
    /\ SF_metricsVars(StopCloses) /\ SF_metricsVars(StopFlushes) /\ WF_metricsVars(StopAgent)
    /\ \A p \in Producer : SF_metricsVars(RecordLocks(p)) /\ WF_metricsVars(Record(p))

MetricsSafetySpec == MetricsInit /\ [][MetricsNext]_metricsVars

MetricsSpec == MetricsSafetySpec /\ MetricsFairness

-----------------------------------------------------------------------------
(* Properties *)

\* Every variable has its type; the channel is never over its capacity.
MetricsTypeOK ==
    /\ mu \subseteq Producer
    /\ events \in Seq(Event) /\ Len(events) <= Capacity
    /\ closed \in BOOLEAN
    /\ agent \in {"created", "loop", "select", "recording", "ended"}
    /\ inHand \in Seq(Event) /\ stored \in Seq(Event)
    /\ wg \in {0, 1}
    /\ next \in [Producer -> Nat]
    /\ adding \in BOOLEAN /\ missed \in BOOLEAN
    /\ caller \in {"running", "stopping", "flushing", "flushed"}
    /\ output \in Seq(Event)
    /\ crashed \subseteq Producer
    /\ accepted \in Seq(Event)

\* Between Record, the channel, the agent and the plugins no event is lost,
\* repeated or overtaken by another one.
NothingLostOnTheWay == accepted = stored \o inHand \o events

\* When Stop has waited for an agent that had begun, what it writes has every
\* event whose Record returned: none is left in the channel or in hand.  (An
\* agent that has not begun is not counted in the WaitGroup: of a Stop that went
\* past it nothing is said.)
FlushIsComplete ==
    [][(caller' = "flushed" /\ caller # "flushed" /\ ~missed) => output' = accepted]_metricsVars

\* A send on the closed channel, which ends the process with a panic, can only
\* be that of an event nobody waited for; no other Record comes after Stop.
OnlyLateEventsPanic ==
    \A p \in crashed : next[p] + Late[p] > Count[p]

\* A Record waits for room with the mutex that the agent needs to make room.
Stalled == mu # {} /\ Len(events) = Capacity /\ agent = "loop"

\* ci-operator exits: Stop returns, unless a Record found the channel full when
\* the agent was about to take the mutex, or an event that nobody waited for
\* met the closed channel, or AddNodeForWorkload waits for ever with the mutex
\* that flush needs.  No other wait or panic keeps it from its end.
StopReturns ==
    \/ <>(caller = "flushed" \/ Stalled \/ (crashed # {} /\ OnlyLateEventsPanic))
    \/ <>[]adding

\* What the comment of Run says: it "listens for events on the events channel
\* until the channel is closed".
RunListens == <>[](events = <<>> \/ crashed # {})
=============================================================================
