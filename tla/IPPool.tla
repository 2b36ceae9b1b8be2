------------------------------- MODULE IPPool -------------------------------
(***************************************************************************)
(* Steps that lease chunks of IP addresses for a test                      *)
(* (pkg/steps/ip_pool.go).  While the test runs, a goroutine per step      *)
(* looks for a count of unused addresses in the shared secret, releases    *)
(* that many leases and offers the rest on an unbuffered channel; when the *)
(* test ends the step takes the offer if it is there, else releases all.   *)
(* Nothing stops the goroutine when the step ends.                         *)
(*                                                                         *)
(* The client is that of module Lease, with every call that holds its lock *)
(* as one action, and without the heartbeat.                               *)
(***************************************************************************)
EXTENDS LeaseClient, Integers, Sequences, SequencesExt

CONSTANTS
    PoolStep,    \* the steps of this process that use the pool
    Count        \* how many chunks of the pool, which is Resource, a step asks for

ASSUME PoolAssumption == NoStep \notin PoolStep /\ Count \in Nat \ {0}

VARIABLES
    stage,       \* step -> "acquiring", "running", "releasing", "done"
    names,       \* step -> what AcquireIfAvailableImmediately has leased
    kept,        \* step -> ipPoolLease.resources
    checker,     \* step -> "none", "checking", "releasing", "offering", "gone"
    unused,      \* step -> the count its checker has read
    next,        \* step -> index of the next lease its checker releases
    returned,    \* history: step -> what it or its checker called Release for
    crashed      \* a goroutine has panicked

poolVars == <<server, storage, leases, stage, names, kept, checker, unused, next,
             returned, crashed>>

poolClient == <<server, storage, leases>>

check == <<checker, unused, next>>

PoolInit ==
    /\ server = {} /\ storage = {}
    /\ leases = [r \in Resource |-> NoStep]
    /\ stage = [s \in PoolStep |-> "acquiring"]
    /\ names = [s \in PoolStep |-> <<>>]
    /\ kept = [s \in PoolStep |-> <<>>]
    /\ checker = [s \in PoolStep |-> "none"]
    /\ unused = [s \in PoolStep |-> 0]
    /\ next = [s \in PoolStep |-> 1]
    /\ returned = [s \in PoolStep |-> {}]
    /\ crashed = FALSE

-----------------------------------------------------------------------------
\* A round of AcquireIfAvailableImmediately; with the last one the checker is
\* started and the test runs.
AcquireOne(s, r) ==
    /\ stage[s] = "acquiring" /\ r \notin server
    /\ server' = server \cup {r} /\ storage' = storage \cup {r}
    /\ leases' = [leases EXCEPT ![r] = s]
    /\ names' = [names EXCEPT ![s] = Append(@, r)]
    /\ \/ /\ Len(names[s]) + 1 < Count
          /\ UNCHANGED <<stage, kept, checker>>
       \/ /\ Len(names[s]) + 1 = Count
          /\ kept' = [kept EXCEPT ![s] = names'[s]]
          /\ checker' = [checker EXCEPT ![s] = "checking"]
          /\ stage' = [stage EXCEPT ![s] = "running"]
    /\ UNCHANGED <<unused, next, returned, crashed>>

\* The pool is empty: the test runs without addresses.  Leases of this call
\* are not returned, and nobody but ReleaseAll will end them.
NotAvailable(s) ==
    /\ stage[s] = "acquiring" /\ server = Resource
    /\ stage' = [stage EXCEPT ![s] = "running"]
    /\ UNCHANGED <<poolClient, names, kept, check, returned, crashed>>

\* Any other error ends the step.  (A chunk that was granted by an answer that was
\* lost, GrantLost in Lease, is in nobody's hands and left out here.)
PoolFails(s) ==
    /\ stage[s] = "acquiring"
    /\ stage' = [stage EXCEPT ![s] = "done"]
    /\ UNCHANGED <<poolClient, names, kept, check, returned, crashed>>

\* client.Release(r): an error when the Boskos client does not have it, or a
\* request that fails, with or without an effect.
Release(s, r) ==
    /\ storage' = storage \ {r}
    /\ returned' = [returned EXCEPT ![s] = @ \cup {r}]
    /\ \/ /\ r \in storage
          /\ server' = server \ {r}
          /\ leases' = [leases EXCEPT ![r] = NoStep]
       \/ /\ server' \in {server, server \ (storage \cap {r})}
          /\ UNCHANGED leases

-----------------------------------------------------------------------------
\* Mutant: one too many of the leases is left out of the offer.
PoolTestEndsOffByOne(s) ==
    /\ stage[s] = "running"
    /\ \/ /\ checker[s] = "offering"
          /\ kept' = [kept EXCEPT ![s] = SubSeq(names[s], unused[s] + 2, Len(names[s]))]
          /\ checker' = [checker EXCEPT ![s] = "gone"]
       \/ /\ checker[s] # "offering"
          /\ UNCHANGED <<kept, checker>>
    /\ stage' = [stage EXCEPT ![s] = "releasing"]
    /\ UNCHANGED <<poolClient, names, unused, next, returned, crashed>>

\* The wrapped step returns, and the select of lines 131-136: the offer of the
\* checker if it is waiting with one, the default otherwise.
PoolTestEnds(s) ==
    /\ stage[s] = "running"
    /\ \/ /\ checker[s] = "offering"
          /\ kept' = [kept EXCEPT ![s] = SubSeq(names[s], unused[s] + 1, Len(names[s]))]
          /\ checker' = [checker EXCEPT ![s] = "gone"]
       \/ /\ checker[s] # "offering"
          /\ UNCHANGED <<kept, checker>>
    /\ stage' = [stage EXCEPT ![s] = "releasing"]
    /\ UNCHANGED <<poolClient, names, unused, next, returned, crashed>>

\* releaseLeases
StepReleases(s) ==
    /\ stage[s] = "releasing" /\ kept[s] # <<>>
    /\ Release(s, Head(kept[s]))
    /\ kept' = [kept EXCEPT ![s] = Tail(@)]
    /\ UNCHANGED <<stage, names, check, crashed>>

PoolStepEnds(s) ==
    /\ stage[s] = "releasing" /\ kept[s] = <<>>
    /\ stage' = [stage EXCEPT ![s] = "done"]
    /\ UNCHANGED <<poolClient, names, kept, check, returned, crashed>>

-----------------------------------------------------------------------------
\* The context is cancelled or fifteen minutes are over.
CheckerStops(s) ==
    /\ checker[s] = "checking"
    /\ checker' = [checker EXCEPT ![s] = "gone"]
    /\ UNCHANGED <<poolClient, stage, names, kept, unused, next, returned, crashed>>

\* The secret has a count (zero when it is not a number); one that is too large
\* ends the checker.
CheckerFinds(s, count) ==
    /\ checker[s] = "checking"
    /\ \/ /\ count > Len(names[s])
          /\ checker' = [checker EXCEPT ![s] = "gone"]
          /\ UNCHANGED unused
       \/ /\ count <= Len(names[s])
          /\ unused' = [unused EXCEPT ![s] = count]
          /\ checker' = [checker EXCEPT ![s] = "releasing"]
    /\ UNCHANGED <<poolClient, stage, names, kept, next, returned, crashed>>

CheckerReleases(s) ==
    /\ checker[s] = "releasing" /\ next[s] <= unused[s]
    /\ Release(s, names[s][next[s]])
    /\ next' = [next EXCEPT ![s] = @ + 1]
    /\ UNCHANGED <<stage, names, kept, checker, unused, crashed>>

\* remainingResources <- resources[count:], which panics for a negative count.
CheckerOffers(s) ==
    /\ checker[s] = "releasing" /\ next[s] > unused[s]
    /\ \/ /\ unused[s] >= 0
          /\ checker' = [checker EXCEPT ![s] = "offering"]
          /\ UNCHANGED crashed
       \/ /\ unused[s] < 0
          /\ crashed' = TRUE
          /\ UNCHANGED checker
    /\ UNCHANGED <<poolClient, stage, names, kept, unused, next, returned>>

PoolStepAction(s) ==
    \/ \E r \in Resource : AcquireOne(s, r)
    \/ NotAvailable(s) \/ PoolFails(s) \/ PoolTestEnds(s) \/ StepReleases(s) \/ PoolStepEnds(s)

Checker(s) ==
    \/ CheckerStops(s) \/ CheckerReleases(s) \/ CheckerOffers(s)
    \/ \E count \in -1 .. Count + 1 : CheckerFinds(s, count)

PoolNext == ~crashed /\ \E s \in PoolStep : PoolStepAction(s) \/ Checker(s)

PoolSpec ==
    /\ PoolInit /\ [][PoolNext]_poolVars
    /\ \A s \in PoolStep : WF_poolVars(~crashed /\ PoolStepAction(s))

-----------------------------------------------------------------------------
(* Properties *)

\* Every variable has its type; a checker releases no more than was leased.
PoolTypeOK ==
    /\ server \subseteq Resource /\ storage \subseteq Resource
    /\ leases \in [Resource -> PoolStep \cup {NoStep}]
    /\ \A s \in PoolStep :
          /\ stage[s] \in {"acquiring", "running", "releasing", "done"}
          /\ names[s] \in Seq(Resource) /\ kept[s] \in Seq(Resource)
          /\ checker[s] \in {"none", "checking", "releasing", "offering", "gone"}
          /\ unused[s] <= Len(names[s])
          /\ next[s] \in 1 .. Len(names[s]) + 1
          /\ returned[s] \subseteq ToSet(names[s])
    /\ crashed \in BOOLEAN

\* Whenever the checker and the end of the test cross, a step that was given
\* leases does not end before Release was called for each of them by one or the
\* other, with success or not.  A negative count ends the process (crashed).
EveryLeaseIsReturned ==
    \A s \in PoolStep :
        stage[s] = "done" /\ Len(names[s]) = Count /\ checker[s] # "none" =>
            returned[s] = ToSet(names[s])

\* The end of a step does not wait for its checker, which may have stopped, or
\* have anything to offer only much later.
StepsEnd == <>(crashed \/ \A s \in PoolStep : stage[s] = "done")

\* What the comment of lease.cancel says of it: "to tie the lifetime of the
\* downstream user routines to those of the leases they require".  A test whose
\* context nobody has cancelled still has the leases its step has not returned.
LeaseTiedToTest ==
    \A s \in PoolStep : stage[s] = "running" =>
        \A r \in ToSet(kept[s]) \ returned[s] : leases[r] = s
=============================================================================
