------------------------------- MODULE Lease -------------------------------
(***************************************************************************)
(* Leases of external resources: the steps that wrap a test with leases    *)
(* (pkg/steps/lease.go), the client they share with the heartbeat          *)
(* (pkg/lease/client.go, on top of the Boskos client), and the release of  *)
(* everything when ci-operator ends (cmd/ci-operator/main.go).             *)
(*                                                                         *)
(* The client's lock is held during the calls to the server, so a          *)
(* Heartbeat, and a Release that fails, are one action.  A Release that    *)
(* succeeds is two: as soon as the server has the resource back, another   *)
(* step can get it, before the map of leases forgets the first one.        *)
(***************************************************************************)
EXTENDS LeaseClient, Naturals, Sequences, FiniteSets, SequencesExt

CONSTANTS
    LeaseStep,   \* steps of this process that use leases
    TypeOf,      \* resource -> its type, a number
    Needs,       \* step -> sequence of [type, count, profile]
    Retries      \* updates of a lease that may fail one after another

ASSUME LeaseAssumption ==
    /\ NoStep \notin LeaseStep
    /\ TypeOf \in [Resource -> Nat]
    /\ Retries \in Nat

VARIABLES
    failures,   \* resource -> updateFailures
    lock,       \* the step that is inside Release, or NoStep
    pc,         \* step -> "idle", "acquiring", "inserting", "running",
                \*         "releasing" or "done"
    need,       \* step -> index of the lease being acquired
    hand,       \* step -> the resource just granted: none or one
    ret,        \* step -> the result of Acquire so far
    resources,  \* step -> what releaseLeases has to release
    cancelled,  \* steps whose context is cancelled
    main,       \* "steps" or "over": ReleaseAll has returned
    reported,   \* history: resources with an error from Release or Heartbeat
    unread      \* history: resources granted in an answer that was never read

vars == <<server, storage, leases, failures, lock, pc, need, hand, ret, resources,
          cancelled, main, reported, unread>>

client == <<server, storage, leases, failures, lock>>

local == <<need, hand, ret, resources>>

\* The leases the client knows.
Known == {r \in Resource : leases[r] # NoStep}

\* Mutant: the leases are acquired in the order of the configuration.
NeedsUnsorted(s) == Needs[s]

\* acquireLeases sorts by resource type first.
Sorted(s) == SortSeq(Needs[s], LAMBDA x, y : x.type < y.type)

-----------------------------------------------------------------------------
Init ==
    /\ server = {} /\ storage = {}
    /\ leases = [r \in Resource |-> NoStep]
    /\ failures = [r \in Resource |-> 0]
    /\ lock = NoStep
    /\ pc = [s \in LeaseStep |-> "idle"]
    /\ need = [s \in LeaseStep |-> 1]
    /\ hand = [s \in LeaseStep |-> {}]
    /\ ret = [s \in LeaseStep |-> <<>>]
    /\ resources = [s \in LeaseStep |-> <<>>]
    /\ cancelled = {}
    /\ main = "steps" /\ reported = {} /\ unread = {}

\* The executor starts the step, or its context is cancelled from outside.
Start(s) ==
    /\ pc[s] = "idle"
    /\ pc' = [pc EXCEPT ![s] = "acquiring"]
    /\ UNCHANGED <<client, local, cancelled, main, reported, unread>>

Interrupt(s) ==
    /\ pc[s] \in {"acquiring", "inserting", "running"} /\ s \notin cancelled
    /\ cancelled' = cancelled \cup {s}
    /\ UNCHANGED <<client, pc, local, main, reported, unread>>

\* AcquireWaitWithPriority returns a resource: a grant that is on its way is
\* delivered even when the context has been cancelled.
Granted(s) ==
    /\ pc[s] = "acquiring"
    /\ \E r \in Resource \ server :
          /\ TypeOf[r] = Sorted(s)[need[s]].type
          /\ server' = server \cup {r}
          /\ storage' = storage \cup {r}
          /\ hand' = [hand EXCEPT ![s] = {r}]
          /\ reported' = reported \ {r}
    /\ pc' = [pc EXCEPT ![s] = "inserting"]
    /\ UNCHANGED <<leases, failures, lock, need, ret, resources, cancelled, main, unread>>

\* The server grants a resource and the answer is lost, or cannot be read: the
\* Boskos client sends the request again, or Acquire fails.  Nobody knows the name
\* of that resource.
GrantLost(s) ==
    /\ pc[s] = "acquiring"
    /\ \E r \in Resource \ server :
          /\ TypeOf[r] = Sorted(s)[need[s]].type
          /\ server' = server \cup {r}
          /\ unread' = unread \cup {r}
          /\ reported' = reported \ {r}
    /\ UNCHANGED <<storage, leases, failures, lock, pc, local, cancelled, main>>

\* The rest of acquireLeases once a call of Acquire has got all it asked for:
\* on with the next lease, or with the test, unless the cluster profile of the
\* lease cannot be set up.
Acquired(s, names) ==
    /\ resources' = [resources EXCEPT ![s] = @ \o names]
    /\ ret' = [ret EXCEPT ![s] = <<>>]
    /\ need' = [need EXCEPT ![s] = @ + 1]
    /\ \/ pc' = [pc EXCEPT ![s] = IF need[s] < Len(Sorted(s)) THEN "acquiring" ELSE "running"]
       \/ /\ Sorted(s)[need[s]].profile
          /\ pc' = [pc EXCEPT ![s] = "releasing"]

\* Mutant: the leases are put in the map when Acquire has all of them.
InsertAtEnd(s) ==
    /\ pc[s] = "inserting" /\ lock = NoStep
    /\ LET names == ret[s] \o SetToSeq(hand[s])
           all == Len(names) = Sorted(s)[need[s]].count
       IN  /\ leases' = [r \in Resource |-> IF all /\ r \in ToSet(names) THEN s ELSE leases[r]]
           /\ failures' = [r \in Resource |-> IF r \in hand[s] THEN 0 ELSE failures[r]]
           /\ \/ all /\ Acquired(s, names)
              \/ /\ ~all
                 /\ ret' = [ret EXCEPT ![s] = names]
                 /\ pc' = [pc EXCEPT ![s] = "acquiring"]
                 /\ UNCHANGED <<need, resources>>
    /\ hand' = [hand EXCEPT ![s] = {}]
    /\ UNCHANGED <<server, storage, lock, cancelled, main, reported, unread>>

\* Acquire: c.leases[r.Name] = &lease{cancel: cancel}, and the end of the call
\* or its next round.
Insert(s) ==
    /\ pc[s] = "inserting" /\ lock = NoStep
    /\ leases' = [r \in Resource |-> IF r \in hand[s] THEN s ELSE leases[r]]
    /\ failures' = [r \in Resource |-> IF r \in hand[s] THEN 0 ELSE failures[r]]
    /\ LET names == ret[s] \o SetToSeq(hand[s])
       IN  \/ Len(names) = Sorted(s)[need[s]].count /\ Acquired(s, names)
           \/ /\ Len(names) < Sorted(s)[need[s]].count
              /\ ret' = [ret EXCEPT ![s] = names]
              /\ pc' = [pc EXCEPT ![s] = "acquiring"]
              /\ UNCHANGED <<need, resources>>
    /\ hand' = [hand EXCEPT ![s] = {}]
    /\ UNCHANGED <<server, storage, lock, cancelled, main, reported, unread>>

\* Mutant: no timeout; an Acquire fails only when the context is cancelled.
AcquireFailsIfCancelled(s) ==
    /\ pc[s] = "acquiring" /\ s \in cancelled
    /\ ret' = [ret EXCEPT ![s] = <<>>]
    /\ pc' = [pc EXCEPT ![s] = "releasing"]
    /\ UNCHANGED <<client, need, hand, resources, cancelled, main, reported, unread>>

\* Acquire fails: a cancelled context, the timeout, an error of the server, or an
\* answer that was lost (after GrantLost).  What this call had already leased is
\* not returned to the step.
AcquireFails(s) ==
    /\ pc[s] = "acquiring"
    /\ ret' = [ret EXCEPT ![s] = <<>>]
    /\ pc' = [pc EXCEPT ![s] = "releasing"]
    /\ UNCHANGED <<client, need, hand, resources, cancelled, main, reported, unread>>

\* The wrapped step returns.
TestEnds(s) ==
    /\ pc[s] = "running"
    /\ pc' = [pc EXCEPT ![s] = "releasing"]
    /\ UNCHANGED <<client, local, cancelled, main, reported, unread>>

-----------------------------------------------------------------------------
\* Release as far as ReleaseOne: the server has the resource back.
ReleaseSucceeds(s) ==
    /\ pc[s] = "releasing" /\ lock = NoStep
    /\ resources[s] # <<>> /\ Head(resources[s]) \in storage
    /\ storage' = storage \ {Head(resources[s])}
    /\ server' = server \ {Head(resources[s])}
    /\ lock' = s
    /\ UNCHANGED <<leases, failures, pc, local, cancelled, main, reported, unread>>

\* Release: delete(c.leases, name), and the Unlock.
ReleaseReturns(s) ==
    /\ lock = s
    /\ leases' = [leases EXCEPT ![Head(resources[s])] = NoStep]
    /\ resources' = [resources EXCEPT ![s] = Tail(@)]
    /\ lock' = NoStep
    /\ UNCHANGED <<server, storage, failures, pc, need, hand, ret, cancelled, main, reported, unread>>

\* Mutant: a release that failed is tried again.
ReleaseFailsAndRetries(s) ==
    /\ pc[s] = "releasing" /\ lock = NoStep
    /\ resources[s] # <<>>
    /\ \/ UNCHANGED server
       \/ /\ Head(resources[s]) \in storage
          /\ server' = server \ {Head(resources[s])}
    /\ storage' = storage \ {Head(resources[s])}
    /\ reported' = reported \cup {Head(resources[s])}
    /\ UNCHANGED <<leases, failures, lock, pc, local, cancelled, main, unread>>

\* Release fails: the resource is not in the storage any more, or the request
\* fails, before or after the server has done what it asks for.  The Boskos
\* client has forgotten the resource either way, the map of leases has not.
ReleaseFails(s) ==
    /\ pc[s] = "releasing" /\ lock = NoStep
    /\ resources[s] # <<>>
    /\ \/ UNCHANGED server
       \/ /\ Head(resources[s]) \in storage
          /\ server' = server \ {Head(resources[s])}
    /\ storage' = storage \ {Head(resources[s])}
    /\ resources' = [resources EXCEPT ![s] = Tail(@)]
    /\ reported' = reported \cup {Head(resources[s])}
    /\ UNCHANGED <<leases, failures, lock, pc, need, hand, ret, cancelled, main, unread>>

\* releaseLeases has come to its end, and the step with it.
StepEnds(s) ==
    /\ pc[s] = "releasing" /\ resources[s] = <<>>
    /\ pc' = [pc EXCEPT ![s] = "done"]
    /\ UNCHANGED <<client, local, cancelled, main, reported, unread>>

\* Mutant: the heartbeat drops a lost lease without calling its cancel.
HeartbeatWithoutCancel(updated) ==
    LET lost == {r \in Known \ updated : failures[r] = Retries}
    IN  /\ main = "steps" /\ lock = NoStep
        /\ updated \subseteq Known \cap storage
        /\ failures' = [r \in Resource |->
                          IF r \in updated THEN 0
                          ELSE IF r \in Known \ lost THEN failures[r] + 1 ELSE failures[r]]
        /\ leases' = [r \in Resource |-> IF r \in lost THEN NoStep ELSE leases[r]]
        /\ reported' = reported \cup lost
        /\ UNCHANGED <<server, storage, lock, pc, local, cancelled, main, unread>>

\* Heartbeat updates all leases; what it fails to update too often is cancelled
\* and dropped.  UpdateOne fails for what is not in the storage.
Heartbeat(updated) ==
    LET lost == {r \in Known \ updated : failures[r] = Retries}
    IN  /\ main = "steps" /\ lock = NoStep
        /\ updated \subseteq Known \cap storage
        /\ failures' = [r \in Resource |->
                          IF r \in updated THEN 0
                          ELSE IF r \in Known \ lost THEN failures[r] + 1 ELSE failures[r]]
        /\ leases' = [r \in Resource |-> IF r \in lost THEN NoStep ELSE leases[r]]
        /\ cancelled' = cancelled \cup {leases[r] : r \in lost}
        /\ reported' = reported \cup lost
        /\ UNCHANGED <<server, storage, lock, pc, local, main, unread>>

\* The deferred function of options.Run, when the executor has returned: every
\* lease that is left is released, or fails to be (before or after the server
\* has done it).  The names it returns are only logged.
ReleaseAll(released, freed) ==
    /\ main = "steps" /\ lock = NoStep
    /\ \A s \in LeaseStep : pc[s] = "done"
    /\ released \subseteq freed /\ freed \subseteq Known \cap storage
    /\ server' = server \ freed
    /\ storage' = storage \ Known
    /\ leases' = [r \in Resource |-> IF r \in released THEN NoStep ELSE leases[r]]
    /\ reported' = reported \cup (Known \ released)
    /\ main' = "over"
    /\ UNCHANGED <<failures, lock, pc, local, cancelled, unread>>

StepAction(s) ==
    \/ Start(s) \/ Granted(s) \/ Insert(s) \/ AcquireFails(s) \/ TestEnds(s)
    \/ ReleaseSucceeds(s) \/ ReleaseReturns(s) \/ ReleaseFails(s) \/ StepEnds(s)

End ==
    \E freed \in SUBSET Known : \E released \in SUBSET freed : ReleaseAll(released, freed)

Next ==
    \/ \E s \in LeaseStep : StepAction(s) \/ Interrupt(s) \/ GrantLost(s)
    \/ \E updated \in SUBSET Known : Heartbeat(updated)
    \/ End

\* Steps and the main goroutine go on; a test is assumed to end, and a call of
\* Acquire ends at the latest when its timeout is over.
Spec ==
    /\ Init /\ [][Next]_vars
    /\ \A s \in LeaseStep : WF_vars(StepAction(s))
    /\ WF_vars(End)

-----------------------------------------------------------------------------
(* Properties *)

\* Every variable has its type; a lease is given up after Retries failures.
TypeOK ==
    /\ server \subseteq Resource /\ storage \subseteq Resource
    /\ leases \in [Resource -> LeaseStep \cup {NoStep}]
    /\ failures \in [Resource -> 0 .. Retries]
    /\ lock \in LeaseStep \cup {NoStep}
    /\ pc \in [LeaseStep -> {"idle", "acquiring", "inserting", "running", "releasing", "done"}]
    /\ need \in [LeaseStep -> Nat]
    /\ hand \in [LeaseStep -> SUBSET Resource]
    /\ ret \in [LeaseStep -> Seq(Resource)]
    /\ resources \in [LeaseStep -> Seq(Resource)]
    /\ cancelled \subseteq LeaseStep
    /\ main \in {"steps", "over"}
    /\ reported \subseteq Resource /\ unread \subseteq Resource

\* What a step believes to be its own.
Holds(s) == hand[s] \cup ToSet(ret[s]) \cup ToSet(resources[s])

\* As long as a test runs and its context is alive, each of its resources is
\* kept alive by the heartbeat, which would cancel this test and no other one,
\* whatever happened to earlier leases of the same resource.
LeaseOrCancelled ==
    \A s \in LeaseStep : pc[s] = "running" /\ s \notin cancelled =>
        \A r \in Holds(s) : leases[r] = s /\ r \in server \cap storage

\* No resource is in the hands of two steps, also when a release reached the
\* server but its answer was lost.
Exclusive ==
    \A s, t \in LeaseStep : \A r \in Holds(s) \cap Holds(t) : s = t \/ lock \in {s, t}

\* At the end nothing stays leased on the server without an error of Release,
\* ReleaseAll or Heartbeat that names it: leases that a failed Acquire did not
\* return to its step are released as well.  The only exceptions are grants whose
\* answer never reached the Boskos client: no one in this process knows of them.
NoSilentLeak == main = "over" => server \subseteq reported \cup unread

\* No circle of steps in which each waits for a resource that another one of
\* them holds, when no two of them want several resources of the same type:
\* acquireLeases sorts by type, whatever order the configuration has.  (A resource
\* of such a grant is held by no step: it is waited for up to the timeout.)
NoCircularWait ==
    \A group \in (SUBSET LeaseStep) \ {{}} :
        \E s \in group :
            \/ pc[s] # "acquiring"
            \/ \E r \in Resource : /\ TypeOf[r] = Sorted(s)[need[s]].type
                                   /\ \A t \in group : r \notin Holds(t)

\* The configurations without such a circle: a step names each type once, the
\* server has what a step asks for, and no two steps want several resources of one
\* type.
Orderly ==
    /\ IsFiniteSet(Resource)
    /\ \E r \in Resource : \A q \in Resource : TypeOf[q] <= TypeOf[r]
    /\ \A s \in LeaseStep :
          /\ Needs[s] \in Seq([type : Nat, count : Nat \ {0}, profile : BOOLEAN])
          /\ Needs[s] # <<>>
          /\ \A i, j \in DOMAIN Needs[s] : i # j => Needs[s][i].type # Needs[s][j].type
          /\ \A i \in DOMAIN Needs[s] :
                Cardinality({r \in Resource : TypeOf[r] = Needs[s][i].type}) >= Needs[s][i].count
    /\ \A s, t \in LeaseStep : s # t =>
          \A i \in DOMAIN Needs[s], j \in DOMAIN Needs[t] :
              Needs[s][i].type = Needs[t][j].type =>
                  Needs[s][i].count = 1 \/ Needs[t][j].count = 1

\* What a sort does, and the only fact about it that is used: it permutes the leases
\* so that their types ascend.
SortsByType ==
    \A s \in LeaseStep :
        \E p \in [DOMAIN Needs[s] -> DOMAIN Needs[s]] :
            /\ IsInjective(p)
            /\ Sorted(s) = [i \in DOMAIN Needs[s] |-> Needs[s][p[i]]]
            /\ \A i, j \in DOMAIN Needs[s] : i < j => Needs[s][p[i]].type <= Needs[s][p[j]].type

\* ci-operator comes to its end, although steps may wait for each other's
\* resources and releases may fail.
ProcessEnds == <>(main = "over")
=============================================================================
