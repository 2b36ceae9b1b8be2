----------------------------- MODULE LeaseProofs -----------------------------
(***************************************************************************)
(* Theorems about the leases, for every set of steps and resources, every  *)
(* configuration of leases and every number of retries, and about the IP   *)
(* pools that are leased with the same client, of any size.                *)
(***************************************************************************)
EXTENDS Lease, IPPool, SequenceTheorems, FiniteSetTheorems, WellFoundedInduction, TLAPS

\* What Acquire has returned, or will return, to the step.
Got(s) == ToSet(ret[s]) \cup ToSet(resources[s])

\* What a step inside Release has given back to the server already.
Returned(s) == IF lock = s THEN {Head(resources[s])} ELSE {}

\* Where a step can be with resources in its hands.
Shape ==
    /\ \A s \in LeaseStep :
          /\ pc[s] = "inserting" => \E r \in Resource : hand[s] = {r}
          /\ pc[s] # "inserting" => hand[s] = {}
          /\ pc[s] \notin {"acquiring", "inserting"} => ret[s] = <<>>
          /\ pc[s] = "done" => resources[s] = <<>>
          /\ lock = s => pc[s] = "releasing" /\ resources[s] # <<>>
          /\ main = "over" => pc[s] = "done"

\* No resource is twice in the hands of a step.
Distinct ==
    \A s \in LeaseStep :
        /\ IsInjective(ret[s]) /\ IsInjective(resources[s])
        /\ ToSet(ret[s]) \cap ToSet(resources[s]) = {}
        /\ hand[s] \cap Got(s) = {}

\* What a step holds is leased to this process on the server, and by one step,
\* except what a step inside Release has given back; only a grant on its way to the
\* map of leases can have that.
Owned ==
    /\ \A s \in LeaseStep : Holds(s) \ Returned(s) \subseteq server
    /\ \A s, t \in LeaseStep : s # t =>
          /\ (Holds(s) \ Returned(s)) \cap (Holds(t) \ Returned(t)) = {}
          /\ Returned(s) \cap Got(t) = {}

\* The test of the step is not over.
GoesOn(s) == pc[s] \in {"idle", "acquiring", "inserting", "running"}

\* The resources of a step that was not cancelled are known to the heartbeat, up to
\* the end of the test.
Beating ==
    \A s \in LeaseStep : GoesOn(s) /\ s \notin cancelled =>
        /\ \A r \in Got(s) : leases[r] = s
        /\ Holds(s) \subseteq storage

\* What the server has leased is known to the client, about to be, or reported, or
\* the answer that granted it was never read.
NothingForgotten ==
    /\ main = "steps" => \A r \in server : \/ r \in reported \cup unread \cup Known
                                           \/ \E s \in LeaseStep : r \in hand[s]
    /\ \A s \in LeaseStep : \A r \in Returned(s) \cap server :
          r \in unread \/ \E t \in LeaseStep : r \in hand[t]

-----------------------------------------------------------------------------
(* Sequences without duplicates *)

\* The sequence of a set of one element.
LEMMA OneInSequence == ASSUME NEW x PROVE SetToSeq({x}) = <<x>>
<1>1. Cardinality({x}) = 1
  BY FS_Singleton
<1> DEFINE f == [i \in 1 .. 1 |-> x]
<1>2. f \in [1 .. 1 -> {x}] /\ IsInjective(f)
  BY DEF IsInjective
<1>3. SetToSeq({x}) = CHOOSE g \in [1 .. 1 -> {x}] : IsInjective(g)
  BY <1>1 DEF SetToSeq
<1>4. SetToSeq({x}) \in [1 .. 1 -> {x}]
  <2> HIDE DEF f
  <2> QED  BY <1>2, <1>3, Zenon
<1>5. \A g \in [1 .. 1 -> {x}] : g = <<x>>
  OBVIOUS
<1> QED  BY <1>4, <1>5

\* Two sequences without common elements, one after the other.
LEMMA ConcatDistinct ==
    ASSUME NEW S, NEW a \in Seq(S), NEW b \in Seq(S)
    PROVE  /\ a \o b \in Seq(S) /\ ToSet(a \o b) = ToSet(a) \cup ToSet(b)
           /\ IsInjective(a) /\ IsInjective(b) /\ ToSet(a) \cap ToSet(b) = {} => IsInjective(a \o b)
<1> DEFINE c == a \o b
<1>1. /\ c \in Seq(S) /\ Len(c) = Len(a) + Len(b)
      /\ \A i \in 1 .. Len(a) + Len(b) : c[i] = IF i <= Len(a) THEN a[i] ELSE b[i - Len(a)]
  BY ConcatProperties
<1>2. Len(a) \in Nat /\ Len(b) \in Nat /\ DOMAIN a = 1 .. Len(a) /\ DOMAIN b = 1 .. Len(b)
  BY LenProperties
<1>3. DOMAIN c = 1 .. Len(a) + Len(b)
  BY <1>1, LenProperties
<1>4. ToSet(c) = ToSet(a) \cup ToSet(b)
  <2>1. Range(c) = Range(a) \cup Range(b)
    BY RangeConcatenation
  <2> QED  BY <2>1 DEF Range, ToSet
<1> HIDE DEF c
<1>5. ASSUME IsInjective(a), IsInjective(b), ToSet(a) \cap ToSet(b) = {} PROVE IsInjective(c)
  <2> SUFFICES ASSUME NEW i \in 1 .. Len(a) + Len(b), NEW j \in 1 .. Len(a) + Len(b), c[i] = c[j]
               PROVE  i = j
    BY <1>3 DEF IsInjective
  <2>1. CASE i <= Len(a) /\ j <= Len(a)
    BY <1>1, <1>2, <1>5, <2>1 DEF IsInjective
  <2>2. CASE i > Len(a) /\ j > Len(a)
    <3>1. i - Len(a) \in DOMAIN b /\ j - Len(a) \in DOMAIN b /\ b[i - Len(a)] = b[j - Len(a)]
      BY <1>1, <1>2, <2>2
    <3>2. i - Len(a) = j - Len(a)
      BY <1>5, <3>1 DEF IsInjective
    <3> QED  BY <1>2, <3>2
  <2>3. ASSUME NEW k \in 1 .. Len(a) + Len(b), NEW l \in 1 .. Len(a) + Len(b),
               k <= Len(a), l > Len(a), c[k] = c[l]
        PROVE  FALSE
    <3>1. k \in DOMAIN a /\ l - Len(a) \in DOMAIN b /\ a[k] = b[l - Len(a)]
      BY <1>1, <1>2, <2>3
    <3> QED  BY <1>5, <3>1 DEF ToSet
  <2> QED  BY <1>2, <2>1, <2>2, <2>3
<1> QED  BY <1>1, <1>4, <1>5 DEF c

\* A sequence without its head.
LEMMA TailDistinct ==
    ASSUME NEW S, NEW a \in Seq(S), a # <<>>, IsInjective(a)
    PROVE  /\ Head(a) \in S /\ Head(a) \in ToSet(a) /\ Tail(a) \in Seq(S)
           /\ ToSet(Tail(a)) = ToSet(a) \ {Head(a)} /\ IsInjective(Tail(a))
<1>1. /\ Head(a) = a[1] /\ Head(a) \in S /\ Tail(a) \in Seq(S) /\ Len(Tail(a)) = Len(a) - 1
      /\ Len(a) \in Nat \ {0} /\ \A i \in 1 .. Len(a) - 1 : Tail(a)[i] = a[i + 1]
  BY HeadTailProperties, LenProperties
<1>2. DOMAIN a = 1 .. Len(a) /\ DOMAIN Tail(a) = 1 .. Len(a) - 1
  BY <1>1, LenProperties
<1> DEFINE b == Tail(a)
           h == Head(a)
<1> HIDE DEF b, h
<1>3. /\ h = a[1] /\ Len(a) \in Nat \ {0} /\ DOMAIN a = 1 .. Len(a) /\ DOMAIN b = 1 .. Len(a) - 1
      /\ \A i \in 1 .. Len(a) - 1 : b[i] = a[i + 1]
  BY <1>1, <1>2 DEF b, h
<1>4. h \in ToSet(a)
  BY <1>3 DEF ToSet
<1>5. IsInjective(b)
  <2> SUFFICES ASSUME NEW i \in DOMAIN b, NEW j \in DOMAIN b, b[i] = b[j] PROVE i = j
    BY DEF IsInjective
  <2>1. i + 1 \in DOMAIN a /\ j + 1 \in DOMAIN a /\ a[i + 1] = a[j + 1]
    BY <1>3
  <2>2. i + 1 = j + 1
    BY <2>1 DEF IsInjective
  <2> QED  BY <1>3, <2>2
<1>6. ASSUME NEW x \in ToSet(b) PROVE x \in ToSet(a) /\ x # h
  <2>1. PICK i \in DOMAIN b : x = b[i]
    BY DEF ToSet
  <2>2. i + 1 \in DOMAIN a /\ x = a[i + 1] /\ i + 1 # 1 /\ 1 \in DOMAIN a
    BY <1>3, <2>1
  <2> QED  BY <1>3, <2>2 DEF ToSet, IsInjective
<1>7. ASSUME NEW x \in ToSet(a), x # h PROVE x \in ToSet(b)
  <2>1. PICK i \in DOMAIN a : x = a[i]
    BY DEF ToSet
  <2>2. i - 1 \in DOMAIN b /\ b[i - 1] = a[i]
    BY <1>3, <1>7, <2>1
  <2> QED  BY <2>1, <2>2 DEF ToSet
<1>8. ToSet(b) = ToSet(a) \ {h}
  BY <1>6, <1>7
<1> QED  BY <1>1, <1>4, <1>5, <1>8 DEF b, h

\* Elements of sequences of resources are resources.
LEMMA ToSetOfSeq == ASSUME NEW S, NEW a \in Seq(S) PROVE ToSet(a) \subseteq S
  BY RangeOfSeq DEF Range, ToSet

\* Nothing is in the empty sequence.
LEMMA ToSetOfEmpty == ToSet(<<>>) = {} /\ IsInjective(<<>>)
  BY DEF ToSet, IsInjective

\* One element is in a sequence of one.
LEMMA ToSetOfOne == ASSUME NEW S, NEW x \in S
                    PROVE  ToSet(<<x>>) = {x} /\ IsInjective(<<x>>) /\ <<x>> \in Seq(S)
  BY DEF ToSet, IsInjective

-----------------------------------------------------------------------------
(* What the actions do with the resources of a step *)

\* The types, and where a step can be with resources in its hands.
TypeInv == TypeOK /\ Shape

\* Insert moves the resource that was granted from the hand of the step to what
\* Acquire returns, or to what it has to release.
LEMMA InsertEffect ==
    ASSUME TypeInv, NEW s \in LeaseStep, Insert(s)
    PROVE  \E r \in Resource :
              /\ hand[s] = {r} /\ hand' = [hand EXCEPT ![s] = {}]
              /\ leases' = [leases EXCEPT ![r] = s] /\ failures' = [failures EXCEPT ![r] = 0]
              /\ \/ /\ resources' = [resources EXCEPT ![s] = @ \o (ret[s] \o <<r>>)]
                    /\ ret' = [ret EXCEPT ![s] = <<>>]
                    /\ need' = [need EXCEPT ![s] = @ + 1]
                    /\ \E to \in {"acquiring", "running", "releasing"} : pc' = [pc EXCEPT ![s] = to]
                 \/ /\ ret' = [ret EXCEPT ![s] = ret[s] \o <<r>>]
                    /\ pc' = [pc EXCEPT ![s] = "acquiring"]
                    /\ UNCHANGED <<need, resources>>
<1>1. PICK r \in Resource : hand[s] = {r}
  BY DEF Insert, TypeInv, Shape
<1>2. SetToSeq(hand[s]) = <<r>>
  BY <1>1, OneInSequence
<1>3. /\ leases' = [leases EXCEPT ![r] = s] /\ failures' = [failures EXCEPT ![r] = 0]
      /\ hand' = [hand EXCEPT ![s] = {}]
  BY <1>1 DEF Insert, TypeInv, TypeOK
<1> DEFINE gained == ret[s] \o <<r>>
<1>4. \/ Acquired(s, gained)
      \/ /\ ret' = [ret EXCEPT ![s] = gained]
         /\ pc' = [pc EXCEPT ![s] = "acquiring"]
         /\ UNCHANGED <<need, resources>>
  BY <1>2 DEF Insert
<1> HIDE DEF gained
<1>5. CASE Acquired(s, gained)
  <2>1. /\ resources' = [resources EXCEPT ![s] = @ \o gained]
        /\ ret' = [ret EXCEPT ![s] = <<>>]
        /\ need' = [need EXCEPT ![s] = @ + 1]
    BY <1>5 DEF Acquired
  <2>2. \E to \in {"acquiring", "running", "releasing"} : pc' = [pc EXCEPT ![s] = to]
    BY <1>5, Zenon DEF Acquired
  <2> QED  BY <1>1, <1>3, <2>1, <2>2 DEF gained
<1> QED  BY <1>1, <1>3, <1>4, <1>5 DEF gained

\* Every action keeps the types and the shape.
LEMMA TypeInvInductive == TypeInv /\ [Next]_vars => TypeInv'
<1> USE LeaseAssumption
<1> SUFFICES ASSUME TypeInv, [Next]_vars PROVE TypeInv'
  OBVIOUS
<1> USE DEF TypeInv
<1>1. ASSUME NEW s \in LeaseStep, Start(s) \/ Interrupt(s) \/ TestEnds(s) \/ StepEnds(s)
      PROVE  TypeInv'
  <2>1. CASE Start(s)
    BY <2>1 DEF Start, client, local, TypeOK, Shape
  <2>2. CASE Interrupt(s)
    BY <2>2 DEF Interrupt, client, local, TypeOK, Shape
  <2>3. CASE TestEnds(s)
    BY <2>3 DEF TestEnds, client, local, TypeOK, Shape
  <2>4. CASE StepEnds(s)
    BY <2>4 DEF StepEnds, client, local, TypeOK, Shape
  <2> QED  BY <1>1, <2>1, <2>2, <2>3, <2>4
<1>2. ASSUME NEW s \in LeaseStep, Granted(s) PROVE TypeInv'
  <2>1. PICK r \in Resource :
              /\ server' = server \cup {r} /\ storage' = storage \cup {r}
              /\ hand' = [hand EXCEPT ![s] = {r}] /\ reported' = reported \ {r}
    BY <1>2 DEF Granted
  <2>2. /\ pc[s] = "acquiring" /\ pc' = [pc EXCEPT ![s] = "inserting"]
        /\ UNCHANGED <<leases, failures, lock, need, ret, resources, cancelled, main, unread>>
    BY <1>2 DEF Granted
  <2>3. TypeOK'
    BY <2>1, <2>2 DEF TypeOK
  <2>4. Shape'
    BY <2>1, <2>2 DEF TypeOK, Shape
  <2> QED  BY <2>3, <2>4
<1>3. ASSUME NEW s \in LeaseStep, Insert(s) PROVE TypeInv'
  <2>1. PICK r \in Resource :
              /\ hand[s] = {r} /\ hand' = [hand EXCEPT ![s] = {}]
              /\ leases' = [leases EXCEPT ![r] = s] /\ failures' = [failures EXCEPT ![r] = 0]
              /\ \/ /\ resources' = [resources EXCEPT ![s] = @ \o (ret[s] \o <<r>>)]
                    /\ ret' = [ret EXCEPT ![s] = <<>>]
                    /\ need' = [need EXCEPT ![s] = @ + 1]
                    /\ \E to \in {"acquiring", "running", "releasing"} : pc' = [pc EXCEPT ![s] = to]
                 \/ /\ ret' = [ret EXCEPT ![s] = ret[s] \o <<r>>]
                    /\ pc' = [pc EXCEPT ![s] = "acquiring"]
                    /\ UNCHANGED <<need, resources>>
    BY <1>3, InsertEffect
  <2>2. ret[s] \o <<r>> \in Seq(Resource) /\ resources[s] \o (ret[s] \o <<r>>) \in Seq(Resource)
    <3> DEFINE gained == ret[s] \o <<r>>
    <3>1. ret[s] \in Seq(Resource) /\ resources[s] \in Seq(Resource) /\ <<r>> \in Seq(Resource)
      BY ToSetOfOne DEF TypeOK
    <3>2. gained \in Seq(Resource)
      BY <3>1, ConcatProperties
    <3> HIDE DEF gained
    <3>3. resources[s] \o gained \in Seq(Resource)
      BY <3>1, <3>2, ConcatProperties
    <3> QED  BY <3>2, <3>3 DEF gained
  <2>3. <<>> \in Seq(Resource)
    OBVIOUS
  <2>4. /\ pc[s] = "inserting" /\ lock = NoStep
        /\ UNCHANGED <<server, storage, lock, cancelled, main, reported, unread>>
    BY <1>3 DEF Insert
  <2>5. TypeOK'
    <3>1. /\ leases' \in [Resource -> LeaseStep \cup {NoStep}]
          /\ failures' \in [Resource -> 0 .. Retries]
          /\ hand' \in [LeaseStep -> SUBSET Resource]
      BY <2>1 DEF TypeOK
    <3>2. /\ ret' \in [LeaseStep -> Seq(Resource)] /\ resources' \in [LeaseStep -> Seq(Resource)]
      <4>1. /\ \/ ret' = [ret EXCEPT ![s] = <<>>]
               \/ ret' = [ret EXCEPT ![s] = ret[s] \o <<r>>]
            /\ \/ resources' = [resources EXCEPT ![s] = resources[s] \o (ret[s] \o <<r>>)]
               \/ resources' = resources
        BY <2>1, Zenon
      <4>2. ret \in [LeaseStep -> Seq(Resource)] /\ resources \in [LeaseStep -> Seq(Resource)]
        BY DEF TypeOK
      <4>3. ret' \in [LeaseStep -> Seq(Resource)]
        BY <2>2, <2>3, <4>1, <4>2
      <4>4. resources' \in [LeaseStep -> Seq(Resource)]
        BY <2>2, <4>1, <4>2
      <4> QED  BY <4>3, <4>4
    <3>3. need' \in [LeaseStep -> Nat]
      <4>1. need' = [need EXCEPT ![s] = need[s] + 1] \/ need' = need
        BY <2>1, Zenon
      <4>2. need \in [LeaseStep -> Nat] /\ need[s] + 1 \in Nat
        BY DEF TypeOK
      <4> QED  BY <4>1, <4>2, Zenon
    <3>4. pc' \in [LeaseStep -> {"idle", "acquiring", "inserting", "running", "releasing", "done"}]
      BY <2>1 DEF TypeOK
    <3> QED  BY <2>4, <3>1, <3>2, <3>3, <3>4 DEF TypeOK
  <2>6. Shape'
    <3> SUFFICES ASSUME NEW t \in LeaseStep
                 PROVE  /\ pc'[t] = "inserting" => \E x \in Resource : hand'[t] = {x}
                        /\ pc'[t] # "inserting" => hand'[t] = {}
                        /\ pc'[t] \notin {"acquiring", "inserting"} => ret'[t] = <<>>
                        /\ pc'[t] = "done" => resources'[t] = <<>>
                        /\ lock' = t => pc'[t] = "releasing" /\ resources'[t] # <<>>
                        /\ main' = "over" => pc'[t] = "done"
      BY DEF Shape
    <3>1. CASE t # s
      <4>1. pc'[t] = pc[t] /\ hand'[t] = hand[t] /\ ret'[t] = ret[t] /\ resources'[t] = resources[t]
        BY <2>1, <3>1 DEF TypeOK
      <4> QED  BY <2>4, <4>1 DEF Shape
    <3>2. CASE t = s
      <4>1. main # "over" /\ lock' # s
        BY <2>4 DEF Shape
      <4>2. hand'[s] = {} /\ pc'[s] \in {"acquiring", "running", "releasing"}
        BY <2>1 DEF TypeOK
      <4>3. pc'[s] # "acquiring" => ret'[s] = <<>>
        BY <2>1 DEF TypeOK
      <4> QED  BY <2>4, <3>2, <4>1, <4>2, <4>3
    <3> QED  BY <3>1, <3>2
  <2> QED  BY <2>5, <2>6
<1>4. ASSUME NEW s \in LeaseStep, AcquireFails(s) PROVE TypeInv'
  <2>1. TypeOK'
    BY <1>4 DEF AcquireFails, client, TypeOK
  <2>2. /\ pc'[s] = "releasing" /\ pc[s] = "acquiring" /\ ret'[s] = <<>>
        /\ \A t \in LeaseStep \ {s} : pc'[t] = pc[t] /\ ret'[t] = ret[t]
        /\ UNCHANGED <<hand, resources, lock, main>>
    BY <1>4 DEF AcquireFails, client, TypeOK
  <2>3. Shape'
    BY <2>2 DEF Shape
  <2> QED  BY <2>1, <2>3
<1>a. ASSUME NEW s \in LeaseStep, GrantLost(s) PROVE TypeInv'
  BY <1>a DEF GrantLost, local, TypeOK, Shape
<1>5. ASSUME NEW s \in LeaseStep, ReleaseSucceeds(s) PROVE TypeInv'
  BY <1>5 DEF ReleaseSucceeds, local, TypeOK, Shape
<1>6. ASSUME NEW s \in LeaseStep, ReleaseReturns(s) \/ ReleaseFails(s) PROVE TypeInv'
  <2>1. resources[s] # <<>> /\ pc[s] = "releasing" /\ (lock = s \/ lock = NoStep) /\ UNCHANGED pc
    BY <1>6 DEF ReleaseReturns, ReleaseFails, Shape
  <2>2. Head(resources[s]) \in Resource /\ Tail(resources[s]) \in Seq(Resource)
    BY <2>1, HeadTailProperties DEF TypeOK
  <2>3. resources' = [resources EXCEPT ![s] = Tail(@)] /\ UNCHANGED <<hand, ret, need, main, cancelled, failures, unread>>
    BY <1>6 DEF ReleaseReturns, ReleaseFails
  <2>4. /\ server' \subseteq Resource /\ storage' \subseteq Resource /\ reported' \subseteq Resource
        /\ leases' \in [Resource -> LeaseStep \cup {NoStep}] /\ lock' = NoStep
    BY <1>6, <2>2 DEF ReleaseReturns, ReleaseFails, TypeOK
  <2>5. TypeOK'
    BY <2>1, <2>2, <2>3, <2>4 DEF TypeOK
  <2>6. Shape'
    BY <2>1, <2>3, <2>4 DEF Shape, TypeOK
  <2> QED  BY <2>5, <2>6
<1>7. ASSUME NEW updated \in SUBSET Known, Heartbeat(updated) PROVE TypeInv'
  <2> DEFINE lost == {r \in Known \ updated : failures[r] = Retries}
  <2>1. failures' \in [Resource -> 0 .. Retries]
    BY <1>7 DEF Heartbeat, TypeOK, Known
  <2>2. cancelled' \subseteq LeaseStep
    BY <1>7 DEF Heartbeat, TypeOK, Known
  <2>3. leases' \in [Resource -> LeaseStep \cup {NoStep}]
    BY <1>7 DEF Heartbeat, TypeOK
  <2>4. reported' \subseteq Resource
    BY <1>7 DEF Heartbeat, TypeOK, Known
  <2>5. UNCHANGED <<server, storage, lock, pc, local, main, unread>>
    BY <1>7 DEF Heartbeat
  <2> QED  BY <2>1, <2>2, <2>3, <2>4, <2>5 DEF TypeOK, Shape, local
<1>8. CASE End
  BY <1>8 DEF End, ReleaseAll, TypeOK, Shape, Known, local
<1>9. CASE UNCHANGED vars
  BY <1>9 DEF vars, TypeOK, Shape
<1> QED
  BY <1>1, <1>2, <1>3, <1>4, <1>a, <1>5, <1>6, <1>7, <1>8, <1>9 DEF Next, StepAction

\* At first nothing is leased and no step has begun.
LEMMA TypeInvInitially == Init => TypeInv
<1> SUFFICES ASSUME Init PROVE TypeInv
  OBVIOUS
<1>1. /\ server \subseteq Resource /\ storage \subseteq Resource /\ cancelled \subseteq LeaseStep
      /\ main \in {"steps", "over"} /\ reported \subseteq Resource /\ unread \subseteq Resource
  BY DEF Init
<1>2. /\ leases \in [Resource -> LeaseStep \cup {NoStep}] /\ lock \in LeaseStep \cup {NoStep}
      /\ failures \in [Resource -> 0 .. Retries]
  BY LeaseAssumption DEF Init
<1>3. /\ pc \in [LeaseStep -> {"idle", "acquiring", "inserting", "running", "releasing", "done"}]
      /\ need \in [LeaseStep -> Nat] /\ hand \in [LeaseStep -> SUBSET Resource]
  BY DEF Init
<1>4. ret \in [LeaseStep -> Seq(Resource)] /\ resources \in [LeaseStep -> Seq(Resource)]
  <2>1. <<>> \in Seq(Resource)
    OBVIOUS
  <2> QED  BY <2>1 DEF Init
<1>5. Shape
  BY LeaseAssumption DEF Init, Shape
<1> QED  BY <1>1, <1>2, <1>3, <1>4, <1>5 DEF TypeInv, TypeOK

\* The types hold, and a step has resources only where it can release them.
THEOREM TypeCorrect == Spec => []TypeInv
<1> QED  BY TypeInvInitially, TypeInvInductive, PTL DEF Spec

\* What a step has got changes with Insert, with a Release of its own, and with an
\* Acquire that fails; it stays without duplicates.
LEMMA InsertGot ==
    ASSUME TypeInv, Distinct, NEW s \in LeaseStep, Insert(s)
    PROVE  \E r \in Resource :
              /\ hand[s] = {r} /\ hand' = [hand EXCEPT ![s] = {}]
              /\ leases' = [leases EXCEPT ![r] = s]
              /\ Got(s)' = Got(s) \cup {r}
              /\ \A t \in LeaseStep \ {s} : Got(t)' = Got(t) /\ pc'[t] = pc[t]
              /\ pc[s] = "inserting" /\ pc'[s] \in {"acquiring", "running", "releasing"}
              /\ Distinct'
<1>1. PICK r \in Resource :
              /\ hand[s] = {r} /\ hand' = [hand EXCEPT ![s] = {}]
              /\ leases' = [leases EXCEPT ![r] = s] /\ failures' = [failures EXCEPT ![r] = 0]
              /\ \/ /\ resources' = [resources EXCEPT ![s] = @ \o (ret[s] \o <<r>>)]
                    /\ ret' = [ret EXCEPT ![s] = <<>>]
                    /\ need' = [need EXCEPT ![s] = @ + 1]
                    /\ \E to \in {"acquiring", "running", "releasing"} : pc' = [pc EXCEPT ![s] = to]
                 \/ /\ ret' = [ret EXCEPT ![s] = ret[s] \o <<r>>]
                    /\ pc' = [pc EXCEPT ![s] = "acquiring"]
                    /\ UNCHANGED <<need, resources>>
  BY InsertEffect
<1> DEFINE gained == ret[s] \o <<r>>
           all == resources[s] \o gained
<1>2. /\ ret \in [LeaseStep -> Seq(Resource)] /\ resources \in [LeaseStep -> Seq(Resource)]
      /\ hand \in [LeaseStep -> SUBSET Resource]
      /\ pc \in [LeaseStep -> {"idle", "acquiring", "inserting", "running", "releasing", "done"}]
  BY DEF TypeInv, TypeOK
<1>3. /\ IsInjective(ret[s]) /\ IsInjective(resources[s])
      /\ ToSet(ret[s]) \cap ToSet(resources[s]) = {}
      /\ r \notin ToSet(ret[s]) \cup ToSet(resources[s])
  BY <1>1 DEF Distinct, Got
<1>4. ret[s] \in Seq(Resource) /\ resources[s] \in Seq(Resource)
  BY <1>2
<1>5. ToSet(<<r>>) = {r} /\ IsInjective(<<r>>) /\ <<r>> \in Seq(Resource)
  BY ToSetOfOne
<1>6. gained \in Seq(Resource) /\ ToSet(gained) = ToSet(ret[s]) \cup {r} /\ IsInjective(gained)
  <2>0. \A a, b \in Seq(Resource) : a \o b \in Seq(Resource) /\ ToSet(a \o b) = ToSet(a) \cup ToSet(b)
    BY ConcatDistinct
  <2>1. gained \in Seq(Resource) /\ ToSet(gained) = ToSet(ret[s]) \cup ToSet(<<r>>)
    BY <1>4, <1>5, <2>0
  <2>2. ToSet(ret[s]) \cap ToSet(<<r>>) = {}
    BY <1>3, <1>5
  <2>3. IsInjective(gained)
    BY <1>3, <1>4, <1>5, <2>2, ConcatDistinct
  <2> QED  BY <1>5, <2>1, <2>3
<1> HIDE DEF gained
<1>7. all \in Seq(Resource) /\ ToSet(all) = ToSet(resources[s]) \cup ToSet(gained) /\ IsInjective(all)
  <2>1. ToSet(resources[s]) \cap ToSet(gained) = {}
    BY <1>3, <1>6
  <2> QED  BY <1>3, <1>4, <1>6, <2>1, ConcatDistinct
<1> HIDE DEF all
<1>8. \/ resources' = [resources EXCEPT ![s] = all] /\ ret' = [ret EXCEPT ![s] = <<>>]
      \/ resources' = resources /\ ret' = [ret EXCEPT ![s] = gained]
  BY <1>1, Zenon DEF gained, all
<1>9. /\ Got(s)' = Got(s) \cup {r} /\ IsInjective(ret'[s]) /\ IsInjective(resources'[s])
      /\ ToSet(ret'[s]) \cap ToSet(resources'[s]) = {}
  <2>1. CASE resources' = [resources EXCEPT ![s] = all] /\ ret' = [ret EXCEPT ![s] = <<>>]
    <3>1. resources'[s] = all /\ ret'[s] = <<>>
      BY <1>2, <2>1
    <3> QED  BY <1>6, <1>7, <3>1, ToSetOfEmpty DEF Got
  <2>2. CASE resources' = resources /\ ret' = [ret EXCEPT ![s] = gained]
    <3>1. resources'[s] = resources[s] /\ ret'[s] = gained
      BY <1>2, <2>2
    <3> QED  BY <1>3, <1>6, <3>1 DEF Got
  <2> QED  BY <1>8, <2>1, <2>2
<1>10. \A t \in LeaseStep \ {s} : /\ ret'[t] = ret[t] /\ resources'[t] = resources[t]
                                  /\ pc'[t] = pc[t] /\ hand'[t] = hand[t]
  BY <1>1, <1>2, <1>8
<1>11. \A t \in LeaseStep \ {s} : Got(t)' = Got(t)
  BY <1>10 DEF Got
<1>12. hand'[s] = {} /\ pc[s] = "inserting" /\ pc'[s] \in {"acquiring", "running", "releasing"}
  BY <1>1, <1>2 DEF Insert
<1>13. Distinct'
  <2> SUFFICES ASSUME NEW t \in LeaseStep
               PROVE  /\ IsInjective(ret'[t]) /\ IsInjective(resources'[t])
                      /\ ToSet(ret'[t]) \cap ToSet(resources'[t]) = {}
                      /\ hand'[t] \cap Got(t)' = {}
    BY DEF Distinct
  <2>1. CASE t = s
    BY <1>9, <1>12, <2>1
  <2>2. CASE t # s
    BY <1>10, <1>11, <2>2 DEF Distinct
  <2> QED  BY <2>1, <2>2
<1> QED  BY <1>1, <1>9, <1>10, <1>11, <1>12, <1>13

\* A Release, one that fails too, takes the first resource from the step.
LEMMA ReleaseGot ==
    ASSUME TypeInv, Distinct, NEW s \in LeaseStep, ReleaseReturns(s) \/ ReleaseFails(s)
    PROVE  /\ Head(resources[s]) \in Resource \cap Got(s)
           /\ Got(s)' = Got(s) \ {Head(resources[s])}
           /\ \A t \in LeaseStep \ {s} : Got(t)' = Got(t)
           /\ hand' = hand /\ hand[s] = {} /\ pc' = pc /\ pc[s] = "releasing" /\ Distinct'
<1>1. resources[s] # <<>> /\ pc[s] = "releasing" /\ hand[s] = {} /\ ret[s] = <<>>
  BY DEF ReleaseReturns, ReleaseFails, TypeInv, Shape
<1>2. resources' = [resources EXCEPT ![s] = Tail(@)] /\ ret' = ret /\ hand' = hand /\ pc' = pc
  BY DEF ReleaseReturns, ReleaseFails
<1>3. resources \in [LeaseStep -> Seq(Resource)] /\ resources[s] \in Seq(Resource)
  BY DEF TypeInv, TypeOK
<1> DEFINE h == Head(resources[s])
<1>4. /\ h \in Resource /\ h \in ToSet(resources[s])
      /\ ToSet(Tail(resources[s])) = ToSet(resources[s]) \ {h} /\ IsInjective(Tail(resources[s]))
  BY <1>1, <1>3, TailDistinct DEF Distinct
<1>5. resources'[s] = Tail(resources[s]) /\ \A t \in LeaseStep \ {s} : resources'[t] = resources[t]
  BY <1>2, <1>3
<1>6. Got(s) = ToSet(resources[s]) /\ Got(s)' = ToSet(Tail(resources[s]))
  BY <1>1, <1>2, <1>5, ToSetOfEmpty DEF Got
<1>7. \A t \in LeaseStep \ {s} : Got(t)' = Got(t)
  BY <1>2, <1>5 DEF Got
<1>8. Distinct'
  <2> SUFFICES ASSUME NEW t \in LeaseStep
               PROVE  /\ IsInjective(ret'[t]) /\ IsInjective(resources'[t])
                      /\ ToSet(ret'[t]) \cap ToSet(resources'[t]) = {}
                      /\ hand'[t] \cap Got(t)' = {}
    BY DEF Distinct
  <2>1. CASE t = s
    BY <1>1, <1>2, <1>4, <1>5, <2>1, ToSetOfEmpty
  <2>2. CASE t # s
    BY <1>2, <1>5, <1>7, <2>2 DEF Distinct
  <2> QED  BY <2>1, <2>2
<1> QED  BY <1>1, <1>2, <1>4, <1>6, <1>7, <1>8

\* An Acquire that fails returns nothing of what it had leased.
LEMMA AcquireFailsGot ==
    ASSUME TypeInv, Distinct, NEW s \in LeaseStep, AcquireFails(s)
    PROVE  /\ Got(s)' \subseteq Got(s)
           /\ \A t \in LeaseStep \ {s} : Got(t)' = Got(t) /\ pc'[t] = pc[t]
           /\ hand' = hand /\ hand[s] = {} /\ pc[s] = "acquiring" /\ pc'[s] = "releasing" /\ Distinct'
<1>1. /\ ret' = [ret EXCEPT ![s] = <<>>] /\ resources' = resources /\ hand' = hand
      /\ pc' = [pc EXCEPT ![s] = "releasing"] /\ pc[s] = "acquiring"
  BY DEF AcquireFails
<1>2. /\ ret \in [LeaseStep -> Seq(Resource)] /\ hand[s] = {}
      /\ pc \in [LeaseStep -> {"idle", "acquiring", "inserting", "running", "releasing", "done"}]
  BY <1>1 DEF TypeInv, TypeOK, Shape
<1>3. ret'[s] = <<>> /\ \A t \in LeaseStep \ {s} : ret'[t] = ret[t]
  BY <1>1, <1>2
<1>4. Got(s)' = ToSet(resources[s]) /\ \A t \in LeaseStep \ {s} : Got(t)' = Got(t)
  BY <1>1, <1>3, ToSetOfEmpty DEF Got
<1>5. Distinct'
  <2> SUFFICES ASSUME NEW t \in LeaseStep
               PROVE  /\ IsInjective(ret'[t]) /\ IsInjective(resources'[t])
                      /\ ToSet(ret'[t]) \cap ToSet(resources'[t]) = {}
                      /\ hand'[t] \cap Got(t)' = {}
    BY DEF Distinct
  <2>1. CASE t = s
    BY <1>1, <1>2, <1>3, <2>1, ToSetOfEmpty DEF Distinct
  <2>2. CASE t # s
    BY <1>1, <1>3, <1>4, <2>2 DEF Distinct
  <2> QED  BY <2>1, <2>2
<1>6. pc'[s] = "releasing" /\ \A t \in LeaseStep \ {s} : pc'[t] = pc[t]
  BY <1>1, <1>2
<1> QED  BY <1>1, <1>2, <1>4, <1>5, <1>6 DEF Got

-----------------------------------------------------------------------------
(* Ownership *)

OwnerInv == TypeInv /\ Distinct /\ Owned

\* A resource that is not leased on the server is with no step, or with one that is
\* inside Release.
LEMMA FreeIsFree ==
    ASSUME OwnerInv, NEW r, r \notin server, NEW t \in LeaseStep, r \in Holds(t)
    PROVE  lock = t /\ r \in Returned(t)
  BY DEF OwnerInv, Owned, Returned

\* Every action keeps the resources of the steps apart and leased.
LEMMA OwnerInductive == OwnerInv /\ [Next]_vars => OwnerInv'
<1> USE LeaseAssumption
<1> SUFFICES ASSUME OwnerInv, [Next]_vars PROVE Distinct' /\ Owned'
  BY TypeInvInductive DEF OwnerInv
<1>0. TypeInv /\ Distinct /\ Owned
  BY DEF OwnerInv
<1>a. /\ \A t \in LeaseStep : Holds(t) = hand[t] \cup Got(t)
      /\ \A t \in LeaseStep : Holds(t)' = hand'[t] \cup Got(t)'
  BY DEF Holds, Got
<1>1. CASE UNCHANGED <<hand, ret, resources, lock>> /\ server \subseteq server'
  BY <1>0, <1>1 DEF Distinct, Owned, Holds, Got, Returned
<1>2. ASSUME NEW s \in LeaseStep, Start(s) \/ Interrupt(s) \/ TestEnds(s) \/ StepEnds(s) \/ GrantLost(s)
      PROVE  Distinct' /\ Owned'
  BY <1>1, <1>2 DEF Start, Interrupt, TestEnds, StepEnds, GrantLost, client, local
<1>3. ASSUME NEW s \in LeaseStep, Granted(s) PROVE Distinct' /\ Owned'
  <2>1. PICK r \in Resource \ server :
            server' = server \cup {r} /\ hand' = [hand EXCEPT ![s] = {r}]
    BY <1>3 DEF Granted
  <2>2. pc[s] = "acquiring" /\ UNCHANGED <<lock, ret, resources>> /\ hand[s] = {} /\ lock # s
    BY <1>0, <1>3 DEF Granted, TypeInv, Shape
  <2>3. /\ \A t \in LeaseStep : Got(t)' = Got(t) /\ Returned(t)' = Returned(t)
        /\ hand'[s] = {r} /\ \A t \in LeaseStep \ {s} : hand'[t] = hand[t]
        /\ Returned(s) = {}
    BY <1>0, <2>1, <2>2 DEF Got, Returned, TypeInv, TypeOK
  <2>4. \A t \in LeaseStep : r \in Holds(t) => r \in Returned(t) /\ t # s
    BY <2>1, <2>2, FreeIsFree
  <2>5. Distinct'
    BY <1>0, <1>a, <2>2, <2>3, <2>4 DEF Distinct
  <2>6. \A t \in LeaseStep : (Holds(t) \ Returned(t))' =
                                 (Holds(t) \ Returned(t)) \cup (IF t = s THEN {r} ELSE {})
    BY <1>a, <2>2, <2>3
  <2>7. Owned'
    BY <1>0, <1>a, <2>1, <2>3, <2>4, <2>6 DEF Owned
  <2> QED  BY <2>5, <2>7
<1>4. ASSUME NEW s \in LeaseStep, Insert(s) PROVE Distinct' /\ Owned'
  <2>1. PICK r \in Resource :
              /\ hand[s] = {r} /\ hand' = [hand EXCEPT ![s] = {}]
              /\ Got(s)' = Got(s) \cup {r}
              /\ \A t \in LeaseStep \ {s} : Got(t)' = Got(t)
              /\ Distinct'
    BY <1>0, <1>4, InsertGot
  <2>2. /\ lock = NoStep /\ lock' = NoStep /\ server' = server
        /\ hand'[s] = {} /\ \A t \in LeaseStep \ {s} : hand'[t] = hand[t]
    BY <1>0, <1>4, <2>1 DEF Insert, TypeInv, TypeOK
  <2>3. \A t \in LeaseStep : Holds(t)' = Holds(t) /\ Returned(t) = {} /\ Returned(t)' = {}
    BY <1>a, <2>1, <2>2 DEF Returned
  <2> QED  BY <1>0, <2>1, <2>2, <2>3 DEF Owned
<1>5. ASSUME NEW s \in LeaseStep, AcquireFails(s) PROVE Distinct' /\ Owned'
  <2>1. /\ Got(s)' \subseteq Got(s) /\ \A t \in LeaseStep \ {s} : Got(t)' = Got(t)
        /\ hand' = hand /\ pc[s] = "acquiring" /\ Distinct'
    BY <1>0, <1>5, AcquireFailsGot
  <2>2. lock' = lock /\ server' = server /\ resources' = resources
    BY <1>5 DEF AcquireFails, client
  <2>3. \A t \in LeaseStep : Holds(t)' \subseteq Holds(t) /\ Got(t)' \subseteq Got(t) /\ Returned(t)' = Returned(t)
    BY <1>a, <2>1, <2>2 DEF Returned
  <2>4. Owned'
    BY <1>0, <2>2, <2>3 DEF Owned
  <2> QED  BY <2>1, <2>4
<1>6. ASSUME NEW s \in LeaseStep, ReleaseSucceeds(s) PROVE Distinct' /\ Owned'
  <2> DEFINE h == Head(resources[s])
  <2>1. /\ UNCHANGED <<hand, ret, resources>> /\ lock = NoStep /\ lock' = s
        /\ server' = server \ {h} /\ resources[s] # <<>>
    BY <1>6 DEF ReleaseSucceeds, local
  <2>2. h \in Got(s)
    <3>1. resources[s] \in Seq(Resource) /\ IsInjective(resources[s])
      BY <1>0 DEF TypeInv, TypeOK, Distinct
    <3> QED  BY <2>1, <3>1, TailDistinct DEF Got
  <2>3. /\ \A t \in LeaseStep : Got(t)' = Got(t) /\ Holds(t)' = Holds(t) /\ Returned(t) = {}
        /\ Returned(s)' = {h} /\ \A t \in LeaseStep \ {s} : Returned(t)' = {}
    BY <2>1 DEF Got, Holds, Returned
  <2>4. Distinct'
    BY <1>0, <2>1, <2>3 DEF Distinct
  <2>5. \A t \in LeaseStep \ {s} : h \notin Holds(t)
    BY <1>0, <1>a, <2>2, <2>3 DEF Owned
  <2> HIDE DEF h
  <2>6. Owned'
    <3>1. \A t \in LeaseStep : (Holds(t) \ Returned(t))' = Holds(t) \ {h}
      BY <2>3, <2>5
    <3>2. \A t \in LeaseStep : (Holds(t) \ Returned(t))' \subseteq server'
      BY <1>0, <2>1, <2>3, <3>1 DEF Owned
    <3>3. \A t, u \in LeaseStep : t # u =>
              /\ (Holds(t) \ Returned(t))' \cap (Holds(u) \ Returned(u))' = {}
              /\ Returned(t)' \cap Got(u)' = {}
      BY <1>0, <1>a, <2>3, <2>5, <3>1 DEF Owned
    <3> QED  BY <3>2, <3>3 DEF Owned
  <2> QED  BY <2>4, <2>6
<1>7. ASSUME NEW s \in LeaseStep, ReleaseReturns(s) PROVE Distinct' /\ Owned'
  <2> DEFINE h == Head(resources[s])
  <2>1. /\ h \in Got(s) /\ Got(s)' = Got(s) \ {h} /\ \A t \in LeaseStep \ {s} : Got(t)' = Got(t)
        /\ hand' = hand /\ hand[s] = {} /\ Distinct'
    BY <1>0, <1>7, ReleaseGot
  <2>2. lock = s /\ lock' = NoStep /\ server' = server
    BY <1>7 DEF ReleaseReturns
  <2>3. /\ Returned(s) = {h} /\ \A t \in LeaseStep \ {s} : Returned(t) = {}
        /\ \A t \in LeaseStep : Returned(t)' = {}
    BY <2>2 DEF Returned
  <2> HIDE DEF h
  <2>4. \A t \in LeaseStep : (Holds(t) \ Returned(t))' = Holds(t) \ Returned(t)
    BY <1>a, <2>1, <2>3
  <2>5. Owned'
    BY <1>0, <2>2, <2>3, <2>4 DEF Owned
  <2> QED  BY <2>1, <2>5
<1>8. ASSUME NEW s \in LeaseStep, ReleaseFails(s) PROVE Distinct' /\ Owned'
  <2> DEFINE h == Head(resources[s])
  <2>1. /\ h \in Got(s) /\ Got(s)' = Got(s) \ {h} /\ \A t \in LeaseStep \ {s} : Got(t)' = Got(t)
        /\ hand' = hand /\ hand[s] = {} /\ Distinct'
    BY <1>0, <1>8, ReleaseGot
  <2>2. lock = NoStep /\ lock' = NoStep /\ (server' = server \/ server' = server \ {h})
    BY <1>8 DEF ReleaseFails
  <2>3. \A t \in LeaseStep : Returned(t) = {} /\ Returned(t)' = {}
    BY <2>2 DEF Returned
  <2> HIDE DEF h
  <2>4. Holds(s)' = Holds(s) \ {h} /\ \A t \in LeaseStep \ {s} : Holds(t)' = Holds(t)
    BY <1>a, <2>1
  <2>5. \A t \in LeaseStep \ {s} : h \notin Holds(t)
    BY <1>0, <1>a, <2>1, <2>3 DEF Owned
  <2>6. Owned'
    <3>1. \A t \in LeaseStep : Holds(t)' = Holds(t) \ {h}
      BY <2>4, <2>5
    <3> QED  BY <1>0, <2>2, <2>3, <3>1 DEF Owned
  <2> QED  BY <2>1, <2>6
<1>9. ASSUME NEW updated, Heartbeat(updated) PROVE Distinct' /\ Owned'
  BY <1>1, <1>9 DEF Heartbeat, local
<1>10. CASE End
  <2>1. UNCHANGED <<hand, ret, resources, lock>> /\ lock = NoStep /\ \A t \in LeaseStep : pc[t] = "done"
    BY <1>10 DEF End, ReleaseAll, local
  <2>2. \A t \in LeaseStep : hand[t] = {} /\ ret[t] = <<>> /\ resources[t] = <<>>
    BY <1>0, <2>1 DEF TypeInv, Shape
  <2>3. \A t \in LeaseStep : Holds(t)' = {} /\ Got(t)' = {} /\ Returned(t)' = {}
    BY <2>1, <2>2, ToSetOfEmpty DEF Holds, Got, Returned
  <2>4. Distinct'
    BY <1>0, <2>1 DEF Distinct, Got
  <2> QED  BY <2>3, <2>4 DEF Owned
<1>11. CASE UNCHANGED vars
  BY <1>1, <1>11 DEF vars
<1> QED
  BY <1>2, <1>3, <1>4, <1>5, <1>6, <1>7, <1>8, <1>9, <1>10, <1>11 DEF Next, StepAction

\* What a step holds is leased to it on the server, until the moment in which its
\* Release has given it back.
THEOREM OwnerKept == Spec => []OwnerInv
<1>1. Init => TypeInv
  BY TypeInvInitially
<1>2. Init => Distinct /\ Owned
  BY LeaseAssumption, ToSetOfEmpty DEF Init, Distinct, Owned, Holds, Got, Returned
<1> QED  BY <1>1, <1>2, OwnerInductive, PTL DEF Spec, OwnerInv

\* No resource is in the hands of two steps, also when a release reached the server
\* but its answer was lost.
THEOREM LeasesExclusive == Spec => []Exclusive
<1>1. OwnerInv => Exclusive
  BY DEF OwnerInv, Owned, Exclusive, Returned
<1> QED  BY <1>1, OwnerKept, PTL

-----------------------------------------------------------------------------
(* The heartbeat, and the end *)

\* Every action keeps the resources of a step that goes on known to the heartbeat.
LEMMA BeatingInductive == OwnerInv /\ Beating /\ [Next]_vars => Beating'
<1> USE LeaseAssumption
<1> SUFFICES ASSUME OwnerInv, Beating, [Next]_vars PROVE Beating'
  OBVIOUS
<1>0. TypeInv /\ Distinct /\ Owned /\ leases \in [Resource -> LeaseStep \cup {NoStep}]
  BY DEF OwnerInv, TypeInv, TypeOK
<1>a. /\ \A t \in LeaseStep : Holds(t) = hand[t] \cup Got(t)
      /\ \A t \in LeaseStep : Holds(t)' = hand'[t] \cup Got(t)'
  BY DEF Holds, Got
<1>b. \A t \in LeaseStep : Got(t) \subseteq Resource
  BY <1>0, ToSetOfSeq DEF Got, TypeInv, TypeOK
<1>c. SUFFICES ASSUME NEW t \in LeaseStep, GoesOn(t)', t \notin cancelled'
               PROVE  /\ \A r \in Got(t)' : leases'[r] = t
                      /\ Holds(t)' \subseteq storage'
  BY DEF Beating
<1>d. GoesOn(t) /\ t \notin cancelled =>
          (\A r \in Got(t) : leases[r] = t) /\ Holds(t) \subseteq storage
  BY DEF Beating
<1> DEFINE Goal == (\A r \in Got(t)' : leases'[r] = t) /\ Holds(t)' \subseteq storage'
<1> SUFFICES Goal
  OBVIOUS
<1>e. pc \in [LeaseStep -> {"idle", "acquiring", "inserting", "running", "releasing", "done"}]
  BY <1>0 DEF TypeInv, TypeOK
<1>1. CASE UNCHANGED <<hand, ret, resources, leases, storage>> /\ cancelled \subseteq cancelled' /\ GoesOn(t)
  <2>1. Holds(t)' = Holds(t) /\ Got(t)' = Got(t)
    BY <1>1 DEF Holds, Got
  <2> QED  BY <1>1, <1>c, <1>d, <2>1
<1>2. ASSUME NEW s \in LeaseStep, Start(s) \/ Interrupt(s) \/ TestEnds(s) \/ StepEnds(s) \/ GrantLost(s)
      PROVE  Goal
  <2>1. UNCHANGED <<hand, ret, resources, leases, storage>> /\ cancelled \subseteq cancelled'
    BY <1>2 DEF Start, Interrupt, TestEnds, StepEnds, GrantLost, client, local
  <2>2. GoesOn(t)
    BY <1>2, <1>c, <1>e DEF Start, Interrupt, TestEnds, StepEnds, GrantLost, GoesOn
  <2> QED  BY <1>1, <2>1, <2>2
<1>3. ASSUME NEW s \in LeaseStep, Granted(s) PROVE Goal
  <2>1. PICK r \in Resource \ server :
            storage' = storage \cup {r} /\ hand' = [hand EXCEPT ![s] = {r}]
    BY <1>3 DEF Granted
  <2>2. UNCHANGED <<ret, resources, leases, cancelled>> /\ GoesOn(t)
    BY <1>3, <1>c, <1>e DEF Granted, GoesOn
  <2>3. Got(t)' = Got(t) /\ (hand'[t] = hand[t] \/ hand'[t] = {r})
    BY <1>0, <2>1, <2>2 DEF Got, TypeInv, TypeOK
  <2> QED  BY <1>a, <1>c, <1>d, <2>1, <2>2, <2>3
<1>4. ASSUME NEW s \in LeaseStep, Insert(s) PROVE Goal
  <2>1. PICK r \in Resource :
              /\ hand[s] = {r} /\ hand' = [hand EXCEPT ![s] = {}]
              /\ leases' = [leases EXCEPT ![r] = s]
              /\ Got(s)' = Got(s) \cup {r}
              /\ \A u \in LeaseStep \ {s} : Got(u)' = Got(u) /\ pc'[u] = pc[u]
              /\ pc[s] = "inserting"
    BY <1>0, <1>4, InsertGot
  <2>2. UNCHANGED <<storage, cancelled>> /\ lock = NoStep
    BY <1>4 DEF Insert
  <2>3. GoesOn(t)
    BY <1>c, <2>1 DEF GoesOn
  <2>4. CASE t = s
    <3>1. hand'[s] = {}
      BY <1>0, <2>1 DEF TypeInv, TypeOK
    <3> QED  BY <1>0, <1>a, <1>b, <1>c, <1>d, <2>1, <2>2, <2>3, <2>4, <3>1
  <2>5. CASE t # s
    <3>1. hand'[t] = hand[t]
      BY <1>0, <2>1, <2>5 DEF TypeInv, TypeOK
    <3>2. Returned(s) = {} /\ Returned(t) = {}
      BY <2>2 DEF Returned
    <3>3. r \notin Got(t)
      BY <1>0, <1>a, <2>1, <2>5, <3>2 DEF Owned
    <3> QED  BY <1>0, <1>a, <1>b, <1>c, <1>d, <2>1, <2>2, <2>3, <2>5, <3>1, <3>3
  <2> QED  BY <2>4, <2>5
<1>5. ASSUME NEW s \in LeaseStep, AcquireFails(s) PROVE Goal
  <2>1. t # s
    BY <1>0, <1>5, <1>c, AcquireFailsGot DEF GoesOn
  <2>2. Got(t)' = Got(t) /\ pc'[t] = pc[t] /\ hand' = hand /\ UNCHANGED <<leases, storage, cancelled>>
    BY <1>0, <1>5, <2>1, AcquireFailsGot DEF AcquireFails, client
  <2> QED  BY <1>a, <1>c, <1>d, <2>2 DEF GoesOn
<1>6. ASSUME NEW s \in LeaseStep, ReleaseSucceeds(s) PROVE Goal
  <2> DEFINE h == Head(resources[s])
  <2>1. /\ UNCHANGED <<hand, ret, resources, leases, cancelled, pc>> /\ lock = NoStep
        /\ storage' = storage \ {h} /\ resources[s] # <<>> /\ pc[s] = "releasing"
    BY <1>6 DEF ReleaseSucceeds, local
  <2>2. t # s /\ GoesOn(t) /\ t \notin cancelled
    BY <1>c, <2>1 DEF GoesOn
  <2>3. h \in Got(s)
    <3>1. resources[s] \in Seq(Resource) /\ IsInjective(resources[s])
      BY <1>0 DEF TypeInv, TypeOK, Distinct
    <3> QED  BY <2>1, <3>1, TailDistinct DEF Got
  <2>4. Returned(s) = {} /\ Returned(t) = {}
    BY <2>1 DEF Returned
  <2>5. h \notin Holds(t)
    BY <1>0, <1>a, <2>2, <2>3, <2>4 DEF Owned
  <2>6. Holds(t)' = Holds(t) /\ Got(t)' = Got(t)
    BY <2>1 DEF Holds, Got
  <2> QED  BY <1>d, <2>1, <2>2, <2>5, <2>6
<1>7. ASSUME NEW s \in LeaseStep, ReleaseReturns(s) PROVE Goal
  <2> DEFINE h == Head(resources[s])
  <2>1. /\ h \in Resource /\ \A u \in LeaseStep \ {s} : Got(u)' = Got(u)
        /\ hand' = hand /\ pc' = pc /\ pc[s] = "releasing"
    BY <1>0, <1>7, ReleaseGot
  <2>2. lock = s /\ leases' = [leases EXCEPT ![h] = NoStep] /\ UNCHANGED <<storage, cancelled>>
    BY <1>7 DEF ReleaseReturns
  <2>3. t # s /\ GoesOn(t) /\ t \notin cancelled
    BY <1>c, <2>1, <2>2 DEF GoesOn
  <2>4. h \notin Got(t)
    BY <1>0, <2>2, <2>3 DEF Owned, Returned
  <2> HIDE DEF h
  <2> QED  BY <1>0, <1>a, <1>b, <1>d, <2>1, <2>2, <2>3, <2>4
<1>8. ASSUME NEW s \in LeaseStep, ReleaseFails(s) PROVE Goal
  <2> DEFINE h == Head(resources[s])
  <2>1. /\ h \in Got(s) /\ \A u \in LeaseStep \ {s} : Got(u)' = Got(u)
        /\ hand' = hand /\ pc' = pc /\ pc[s] = "releasing"
    BY <1>0, <1>8, ReleaseGot
  <2>2. lock = NoStep /\ storage' = storage \ {h} /\ UNCHANGED <<leases, cancelled>>
    BY <1>8 DEF ReleaseFails
  <2>3. t # s /\ GoesOn(t) /\ t \notin cancelled
    BY <1>c, <2>1, <2>2 DEF GoesOn
  <2>4. Returned(s) = {} /\ Returned(t) = {}
    BY <2>2 DEF Returned
  <2>5. h \notin Holds(t)
    BY <1>0, <1>a, <2>1, <2>3, <2>4 DEF Owned
  <2> HIDE DEF h
  <2> QED  BY <1>a, <1>d, <2>1, <2>2, <2>3, <2>5
<1>9. ASSUME NEW updated \in SUBSET Known, Heartbeat(updated) PROVE Goal
  <2> DEFINE lost == {r \in Known \ updated : failures[r] = Retries}
  <2>1. /\ leases' = [r \in Resource |-> IF r \in lost THEN NoStep ELSE leases[r]]
        /\ cancelled' = cancelled \cup {leases[r] : r \in lost}
        /\ UNCHANGED <<storage, pc, hand, ret, resources>>
    BY <1>9 DEF Heartbeat, local
  <2> HIDE DEF lost
  <2>2. Holds(t)' = Holds(t) /\ Got(t)' = Got(t) /\ GoesOn(t) /\ t \notin cancelled
    BY <1>c, <2>1 DEF Holds, Got, GoesOn
  <2>3. \A r \in Got(t) : leases[r] = t /\ r \in Resource
    BY <1>b, <1>d, <2>2
  <2>4. \A r \in Got(t) : r \notin lost
    BY <1>c, <2>1, <2>3
  <2> QED  BY <1>d, <2>1, <2>2, <2>3, <2>4
<1>10. CASE End
  BY <1>10, <1>c DEF End, ReleaseAll, GoesOn
<1>11. CASE UNCHANGED vars
  BY <1>1, <1>11, <1>c DEF vars, GoesOn
<1> HIDE DEF Goal
<1> QED
  BY <1>2, <1>3, <1>4, <1>5, <1>6, <1>7, <1>8, <1>9, <1>10, <1>11 DEF Next, StepAction

\* While a test runs and its context is alive, the heartbeat keeps each of its
\* resources and would cancel this test and no other one.
THEOREM LeasedOrCancelled == Spec => []LeaseOrCancelled
<1>1. Init => Beating
  BY ToSetOfEmpty DEF Init, Beating, Holds, Got
<1>2. OwnerInv /\ Beating => LeaseOrCancelled
  <2> SUFFICES ASSUME OwnerInv, Beating, NEW s \in LeaseStep, pc[s] = "running", s \notin cancelled,
                      NEW r \in Holds(s)
               PROVE  leases[r] = s /\ r \in server \cap storage
    BY DEF LeaseOrCancelled
  <2>1. hand[s] = {} /\ lock # s
    BY DEF OwnerInv, TypeInv, Shape
  <2>2. Holds(s) = Got(s) /\ Returned(s) = {}
    BY <2>1 DEF Holds, Got, Returned
  <2> QED  BY <2>2 DEF Beating, GoesOn, OwnerInv, Owned
<1> QED  BY <1>1, <1>2, OwnerKept, BeatingInductive, PTL DEF Spec

\* Every action keeps what the server has leased known, reported or unread.
LEMMA ForgetsNothing == OwnerInv /\ NothingForgotten /\ [Next]_vars => NothingForgotten'
<1> USE LeaseAssumption
<1> SUFFICES ASSUME OwnerInv, NothingForgotten, [Next]_vars PROVE NothingForgotten'
  OBVIOUS
<1>0. /\ TypeInv /\ Distinct /\ Owned /\ leases \in [Resource -> LeaseStep \cup {NoStep}]
      /\ hand \in [LeaseStep -> SUBSET Resource] /\ server \subseteq Resource /\ main \in {"steps", "over"}
  BY DEF OwnerInv, TypeInv, TypeOK
<1>1. CASE UNCHANGED <<hand, resources, leases, lock, server, main, reported, unread>>
  BY <1>1 DEF NothingForgotten, Known, Returned
<1>2. ASSUME NEW s \in LeaseStep,
             Start(s) \/ Interrupt(s) \/ TestEnds(s) \/ StepEnds(s) \/ AcquireFails(s)
      PROVE  NothingForgotten'
  BY <1>1, <1>2 DEF Start, Interrupt, TestEnds, StepEnds, AcquireFails, client, local
<1>3. ASSUME NEW s \in LeaseStep, Granted(s) PROVE NothingForgotten'
  <2>1. PICK r \in Resource \ server :
            /\ server' = server \cup {r} /\ hand' = [hand EXCEPT ![s] = {r}]
            /\ reported' = reported \ {r}
    BY <1>3 DEF Granted
  <2>2. UNCHANGED <<leases, lock, main, resources, unread>> /\ hand[s] = {}
    BY <1>0, <1>3 DEF Granted, TypeInv, Shape
  <2>3. hand'[s] = {r} /\ \A t \in LeaseStep \ {s} : hand'[t] = hand[t]
    BY <1>0, <2>1
  <2>4. \A x : (\E t \in LeaseStep : x \in hand[t]) => \E t \in LeaseStep : x \in hand'[t]
    BY <2>2, <2>3
  <2> QED  BY <2>1, <2>2, <2>3, <2>4 DEF NothingForgotten, Known, Returned
<1>a. ASSUME NEW s \in LeaseStep, GrantLost(s) PROVE NothingForgotten'
  <2>1. PICK r \in Resource \ server :
            server' = server \cup {r} /\ unread' = unread \cup {r} /\ reported' = reported \ {r}
    BY <1>a DEF GrantLost
  <2>2. UNCHANGED <<leases, lock, main, resources, hand>>
    BY <1>a DEF GrantLost, local
  <2> QED  BY <2>1, <2>2 DEF NothingForgotten, Known, Returned
<1>4. ASSUME NEW s \in LeaseStep, Insert(s) PROVE NothingForgotten'
  <2>1. PICK r \in Resource :
              /\ hand[s] = {r} /\ hand' = [hand EXCEPT ![s] = {}]
              /\ leases' = [leases EXCEPT ![r] = s]
    BY <1>0, <1>4, InsertGot
  <2>2. lock = NoStep /\ UNCHANGED <<lock, server, main, reported, unread>>
    BY <1>4 DEF Insert
  <2>3. \A t \in LeaseStep : Returned(t)' = {}
    BY <2>2 DEF Returned
  <2>4. Known' = Known \cup {r}
    BY <1>0, <2>1 DEF Known
  <2>5. \A x : (\E t \in LeaseStep : x \in hand[t]) => x = r \/ \E t \in LeaseStep : x \in hand'[t]
    BY <1>0, <2>1
  <2> QED  BY <2>2, <2>3, <2>4, <2>5 DEF NothingForgotten
<1>5. ASSUME NEW s \in LeaseStep, ReleaseSucceeds(s) PROVE NothingForgotten'
  <2>1. /\ UNCHANGED <<hand, resources, leases, main, reported, unread>> /\ lock = NoStep /\ lock' = s
        /\ server' = server \ {Head(resources[s])}
    BY <1>5 DEF ReleaseSucceeds, local
  <2>2. \A t \in LeaseStep : Returned(t)' \cap server' = {}
    BY <2>1 DEF Returned
  <2> QED  BY <2>1, <2>2 DEF NothingForgotten, Known
<1>6. ASSUME NEW s \in LeaseStep, ReleaseReturns(s) PROVE NothingForgotten'
  <2> DEFINE h == Head(resources[s])
  <2>1. h \in Resource /\ hand' = hand
    BY <1>0, <1>6, ReleaseGot
  <2>2. /\ lock = s /\ lock' = NoStep /\ leases' = [leases EXCEPT ![h] = NoStep]
        /\ UNCHANGED <<server, main, reported, unread>>
    BY <1>6 DEF ReleaseReturns
  <2>3. Returned(s) = {h} /\ \A t \in LeaseStep : Returned(t)' = {}
    BY <2>2 DEF Returned
  <2>4. h \in server => h \in unread \/ \E t \in LeaseStep : h \in hand[t]
    BY <2>3 DEF NothingForgotten
  <2> HIDE DEF h
  <2>5. Known' = Known \ {h}
    BY <1>0, <2>1, <2>2 DEF Known
  <2> QED  BY <2>1, <2>2, <2>3, <2>4, <2>5 DEF NothingForgotten
<1>7. ASSUME NEW s \in LeaseStep, ReleaseFails(s) PROVE NothingForgotten'
  <2>1. /\ lock = NoStep /\ UNCHANGED <<hand, leases, lock, main, unread>>
        /\ server' \subseteq server /\ reported \subseteq reported'
    BY <1>7 DEF ReleaseFails
  <2>2. \A t \in LeaseStep : Returned(t)' = {}
    BY <2>1 DEF Returned
  <2> QED  BY <2>1, <2>2 DEF NothingForgotten, Known
<1>8. ASSUME NEW updated \in SUBSET Known, Heartbeat(updated) PROVE NothingForgotten'
  <2> DEFINE lost == {r \in Known \ updated : failures[r] = Retries}
  <2>1. /\ leases' = [r \in Resource |-> IF r \in lost THEN NoStep ELSE leases[r]]
        /\ reported' = reported \cup lost
        /\ UNCHANGED <<server, lock, hand, resources, main, unread>>
    BY <1>8 DEF Heartbeat, local
  <2> HIDE DEF lost
  <2>2. Known \subseteq Known' \cup lost
    BY <2>1 DEF Known
  <2>3. \A t \in LeaseStep : Returned(t)' = Returned(t)
    BY <2>1 DEF Returned
  <2> QED  BY <2>1, <2>2, <2>3 DEF NothingForgotten
<1>9. CASE End
  <2>1. lock = NoStep /\ lock' = NoStep /\ main' = "over"
    BY <1>9 DEF End, ReleaseAll
  <2>2. \A t \in LeaseStep : Returned(t)' = {}
    BY <2>1 DEF Returned
  <2> QED  BY <2>1, <2>2 DEF NothingForgotten
<1>10. CASE UNCHANGED vars
  BY <1>1, <1>10 DEF vars
<1> QED
  BY <1>2, <1>3, <1>a, <1>4, <1>5, <1>6, <1>7, <1>8, <1>9, <1>10 DEF Next, StepAction

\* Every action keeps the end without a leak.
LEMMA EndInductive ==
    OwnerInv /\ NothingForgotten /\ NoSilentLeak /\ [Next]_vars => NoSilentLeak'
<1> USE LeaseAssumption
<1> SUFFICES ASSUME OwnerInv, NothingForgotten, NoSilentLeak, [Next]_vars, main' = "over"
             PROVE  server' \subseteq reported' \cup unread'
  BY DEF NoSilentLeak
<1>0. Shape
  BY DEF OwnerInv, TypeInv
<1>1. CASE main = "over"
  <2>1. \A s \in LeaseStep : pc[s] = "done" /\ lock # s
    BY <1>0, <1>1 DEF Shape
  <2>2. ASSUME NEW s \in LeaseStep, StepAction(s) \/ Interrupt(s) \/ GrantLost(s) PROVE FALSE
    BY <2>1, <2>2 DEF StepAction, Start, Granted, Insert, AcquireFails, TestEnds, ReleaseSucceeds,
                      ReleaseReturns, ReleaseFails, StepEnds, Interrupt, GrantLost
  <2>3. ~End /\ \A updated : ~Heartbeat(updated)
    BY <1>1 DEF End, ReleaseAll, Heartbeat
  <2>4. UNCHANGED vars
    BY <2>2, <2>3 DEF Next
  <2> QED  BY <1>1, <2>4 DEF vars, NoSilentLeak
<1>2. CASE main # "over"
  <2>1. End
    <3>1. ASSUME NEW s \in LeaseStep, StepAction(s) \/ Interrupt(s) \/ GrantLost(s)
          PROVE  main' = main
      BY <3>1 DEF StepAction, Start, Granted, Insert, AcquireFails, TestEnds, ReleaseSucceeds,
                  ReleaseReturns, ReleaseFails, StepEnds, Interrupt, GrantLost
    <3>2. \A updated : Heartbeat(updated) => main' = main
      BY DEF Heartbeat
    <3> QED  BY <1>2, <3>1, <3>2 DEF Next, vars
  <2>2. PICK freed \in SUBSET Known : \E released \in SUBSET freed : ReleaseAll(released, freed)
    BY <2>1 DEF End
  <2>3. PICK released \in SUBSET freed : ReleaseAll(released, freed)
    BY <2>2
  <2>4. /\ main = "steps" /\ server' = server \ freed /\ reported' = reported \cup (Known \ released)
        /\ unread' = unread /\ \A s \in LeaseStep : pc[s] = "done"
    BY <2>3 DEF ReleaseAll
  <2>5. \A s \in LeaseStep : hand[s] = {}
    BY <1>0, <2>4 DEF Shape
  <2>6. server \subseteq reported \cup unread \cup Known
    BY <2>4, <2>5 DEF NothingForgotten
  <2> QED  BY <2>3, <2>4, <2>6
<1> QED  BY <1>1, <1>2

\* At the end nothing stays leased on the server without an error that names it,
\* except grants whose answer was lost on the way to the Boskos client.
THEOREM NoLeakIsSilent == Spec => []NoSilentLeak
<1>1. Init => NothingForgotten /\ NoSilentLeak
  BY DEF Init, NothingForgotten, NoSilentLeak
<1> QED  BY <1>1, OwnerKept, ForgetsNothing, EndInductive, PTL DEF Spec

-----------------------------------------------------------------------------
(* No circular waiting *)

\* The same configurations after sorting: the types strictly ascend.
Arranged ==
    /\ IsFiniteSet(Resource)
    /\ \E r \in Resource : \A q \in Resource : TypeOf[q] <= TypeOf[r]
    /\ \A s \in LeaseStep :
          /\ Sorted(s) \in Seq([type : Nat, count : Nat \ {0}, profile : BOOLEAN])
          /\ Sorted(s) # <<>>
          /\ \A i, j \in DOMAIN Sorted(s) : i < j => Sorted(s)[i].type < Sorted(s)[j].type
          /\ \A i \in DOMAIN Sorted(s) :
                Cardinality({r \in Resource : TypeOf[r] = Sorted(s)[i].type}) >= Sorted(s)[i].count
    /\ \A s, t \in LeaseStep : s # t =>
          \A i \in DOMAIN Sorted(s), j \in DOMAIN Sorted(t) :
              Sorted(s)[i].type = Sorted(t)[j].type =>
                  Sorted(s)[i].count = 1 \/ Sorted(t)[j].count = 1

\* Sorting arranges an orderly configuration.
LEMMA Arrangement == Orderly /\ SortsByType => Arranged
<1> SUFFICES ASSUME Orderly, SortsByType PROVE Arranged
  OBVIOUS
<1> DEFINE L == [type : Nat, count : Nat \ {0}, profile : BOOLEAN]
<1>1. ASSUME NEW s \in LeaseStep
      PROVE  /\ Sorted(s) \in Seq(L) /\ Sorted(s) # <<>>
             /\ \A i, j \in DOMAIN Sorted(s) : i < j => Sorted(s)[i].type < Sorted(s)[j].type
             /\ \A i \in DOMAIN Sorted(s) : \E k \in DOMAIN Needs[s] : Sorted(s)[i] = Needs[s][k]
  <2>1. /\ Needs[s] \in Seq(L) /\ Needs[s] # <<>>
        /\ \A i, j \in DOMAIN Needs[s] : i # j => Needs[s][i].type # Needs[s][j].type
    BY DEF Orderly
  <2>2. PICK p \in [DOMAIN Needs[s] -> DOMAIN Needs[s]] :
            /\ IsInjective(p)
            /\ Sorted(s) = [i \in DOMAIN Needs[s] |-> Needs[s][p[i]]]
            /\ \A i, j \in DOMAIN Needs[s] : i < j => Needs[s][p[i]].type <= Needs[s][p[j]].type
    BY DEF SortsByType
  <2>3. DOMAIN Needs[s] = 1 .. Len(Needs[s]) /\ Len(Needs[s]) \in Nat \ {0}
    BY <2>1, LenProperties, EmptySeq
  <2>4. \A i \in DOMAIN Needs[s] : Needs[s][i] \in L
    BY <2>1, <2>3, ElementOfSeq
  <2> HIDE DEF L
  <2>5. /\ DOMAIN Sorted(s) = 1 .. Len(Needs[s])
        /\ \A i \in DOMAIN Needs[s] : Sorted(s)[i] = Needs[s][p[i]] /\ p[i] \in DOMAIN Needs[s]
    BY <2>2, <2>3
  <2>6. Sorted(s) \in [1 .. Len(Needs[s]) -> L]
    BY <2>2, <2>3, <2>4
  <2>7. Sorted(s) \in Seq(L)
    BY <2>3, <2>6
  <2>8. Sorted(s) # <<>>
    BY <2>3, <2>5
  <2>9. ASSUME NEW i \in DOMAIN Sorted(s), NEW j \in DOMAIN Sorted(s), i < j
        PROVE  Sorted(s)[i].type < Sorted(s)[j].type
    <3>1. p[i] # p[j]
      BY <2>2, <2>3, <2>5, <2>9 DEF IsInjective
    <3>2. /\ Needs[s][p[i]].type # Needs[s][p[j]].type
          /\ Needs[s][p[i]].type <= Needs[s][p[j]].type
      BY <2>1, <2>2, <2>3, <2>5, <2>9, <3>1
    <3>3. Needs[s][p[i]] \in L /\ Needs[s][p[j]] \in L
      BY <2>3, <2>4, <2>5
    <3>4. Needs[s][p[i]].type \in Nat /\ Needs[s][p[j]].type \in Nat
      BY <3>3 DEF L
    <3>5. Needs[s][p[i]].type < Needs[s][p[j]].type
      BY <3>2, <3>4
    <3>6. Sorted(s)[i] = Needs[s][p[i]] /\ Sorted(s)[j] = Needs[s][p[j]]
      BY <2>3, <2>5
    <3> QED  BY <3>5, <3>6, Zenon
  <2> QED  BY <2>3, <2>5, <2>7, <2>8, <2>9
<1>2. ASSUME NEW s \in LeaseStep, NEW i \in DOMAIN Sorted(s)
      PROVE  Cardinality({r \in Resource : TypeOf[r] = Sorted(s)[i].type}) >= Sorted(s)[i].count
  <2>1. PICK k \in DOMAIN Needs[s] : Sorted(s)[i] = Needs[s][k]
    BY <1>1, <1>2
  <2>2. Cardinality({r \in Resource : TypeOf[r] = Needs[s][k].type}) >= Needs[s][k].count
    BY <1>2, <2>1 DEF Orderly
  <2> QED  BY <2>1, <2>2
<1>3. ASSUME NEW s \in LeaseStep, NEW t \in LeaseStep, s # t,
             NEW i \in DOMAIN Sorted(s), NEW j \in DOMAIN Sorted(t),
             Sorted(s)[i].type = Sorted(t)[j].type
      PROVE  Sorted(s)[i].count = 1 \/ Sorted(t)[j].count = 1
  <2>1. PICK k \in DOMAIN Needs[s] : Sorted(s)[i] = Needs[s][k]
    BY <1>1, <1>3
  <2>2. PICK l \in DOMAIN Needs[t] : Sorted(t)[j] = Needs[t][l]
    BY <1>1, <1>3
  <2>3. Needs[s][k].type = Needs[t][l].type => Needs[s][k].count = 1 \/ Needs[t][l].count = 1
    BY <1>3, <2>1, <2>2, Zenon DEF Orderly
  <2> QED  BY <1>3, <2>1, <2>2, <2>3
<1>4. IsFiniteSet(Resource) /\ \E r \in Resource : \A q \in Resource : TypeOf[q] <= TypeOf[r]
  BY DEF Orderly
<1> QED  BY <1>1, <1>2, <1>3, <1>4 DEF Arranged

\* A step that is not yet running its test.
Prepares(s) == pc[s] \in {"idle", "acquiring", "inserting"}

\* The lease that a step is acquiring.
Want(s) == Sorted(s)[need[s]]

\* The resources of a type.
OfType(n) == {r \in Resource : TypeOf[r] = n}

\* While a step acquires its leases, all it has are resources of the type it is
\* acquiring, fewer than it wants of it, and of smaller types.
InOrder ==
    \A s \in LeaseStep : Prepares(s) =>
        /\ need[s] \in DOMAIN Sorted(s)
        /\ Len(ret[s]) < Want(s).count
        /\ \A r \in hand[s] \cup ToSet(ret[s]) : TypeOf[r] = Want(s).type
        /\ \A r \in ToSet(resources[s]) : TypeOf[r] < Want(s).type

\* Of numbers below a bound one is the largest.
LEMMA Largest ==
    ASSUME NEW S \in SUBSET Nat, S # {}, NEW max \in Nat, \A x \in S : x <= max
    PROVE  \E x \in S : \A y \in S : y <= x
<1> DEFINE R == OpToRel(<, Nat)
           T == {n \in Nat : max - n \in S}
<1>1. T \subseteq Nat /\ T # {}
  <2>1. PICK x \in S : x \in Nat /\ x <= max
    OBVIOUS
  <2>2. max - x \in Nat /\ max - (max - x) = x
    BY <2>1
  <2>3. max - x \in T
    BY <2>2
  <2> QED  BY <2>3
<1>2. PICK m \in T : \A n \in T : ~(<<n, m>> \in R)
  BY <1>1, NatLessThanWellFounded, WFMin
<1>3. \A n \in T : ~(n < m)
  BY <1>2 DEF OpToRel
<1>4. ASSUME NEW y \in S PROVE y <= max - m
  <2>1. y \in Nat /\ y <= max /\ max - y \in Nat /\ max - (max - y) = y
    OBVIOUS
  <2>2. max - y \in T
    BY <2>1
  <2>3. ~(max - y < m)
    BY <1>3, <2>2
  <2> QED  BY <2>1, <2>3
<1> QED  BY <1>4

\* What is in a sequence is not more than its length.
LEMMA FewInSequence ==
    ASSUME NEW S, NEW a \in Seq(S)
    PROVE  IsFiniteSet(ToSet(a)) /\ Cardinality(ToSet(a)) <= Len(a)
<1>1. DOMAIN a = 1 .. Len(a) /\ Len(a) \in Nat
  BY LenProperties
<1>2. a \in Surjection(1 .. Len(a), ToSet(a))
  BY <1>1 DEF Surjection, ToSet
<1>3. IsFiniteSet(1 .. Len(a)) /\ Cardinality(1 .. Len(a)) = Len(a)
  BY <1>1, FS_Interval
<1> QED  BY <1>2, <1>3, FS_Surjection

\* A lease that is complete is followed by the next one, if there is one.
LEMMA InsertNext ==
    ASSUME TypeInv, NEW s \in LeaseStep, Insert(s), NEW r \in Resource, hand[s] = {r}
    PROVE  LET gained == ret[s] \o <<r>> IN
           \/ /\ resources' = [resources EXCEPT ![s] = @ \o gained]
              /\ ret' = [ret EXCEPT ![s] = <<>>]
              /\ need' = [need EXCEPT ![s] = @ + 1]
              /\ pc'[s] = "acquiring" => need[s] < Len(Sorted(s))
              /\ pc'[s] \in {"acquiring", "running", "releasing"}
           \/ /\ ret' = [ret EXCEPT ![s] = gained]
              /\ Len(gained) < Want(s).count
              /\ UNCHANGED <<need, resources>>
<1> DEFINE gained == ret[s] \o <<r>>
<1>1. SetToSeq(hand[s]) = <<r>>
  BY OneInSequence
<1>2. \/ Acquired(s, gained)
      \/ /\ ret' = [ret EXCEPT ![s] = gained]
         /\ Len(gained) < Want(s).count
         /\ UNCHANGED <<need, resources>>
  BY <1>1 DEF Insert, Want
<1> HIDE DEF gained
<1>3. ASSUME Acquired(s, gained)
      PROVE  /\ resources' = [resources EXCEPT ![s] = @ \o gained]
             /\ ret' = [ret EXCEPT ![s] = <<>>]
             /\ need' = [need EXCEPT ![s] = @ + 1]
             /\ pc'[s] = "acquiring" => need[s] < Len(Sorted(s))
             /\ pc'[s] \in {"acquiring", "running", "releasing"}
  <2>1. /\ resources' = [resources EXCEPT ![s] = @ \o gained]
        /\ ret' = [ret EXCEPT ![s] = <<>>]
        /\ need' = [need EXCEPT ![s] = @ + 1]
    BY <1>3 DEF Acquired
  <2>2. \/ pc' = [pc EXCEPT ![s] = "acquiring"] /\ need[s] < Len(Sorted(s))
        \/ pc' = [pc EXCEPT ![s] = "running"]
        \/ pc' = [pc EXCEPT ![s] = "releasing"]
    BY <1>3, Zenon DEF Acquired
  <2>3. pc \in [LeaseStep -> {"idle", "acquiring", "inserting", "running", "releasing", "done"}]
    BY DEF TypeInv, TypeOK
  <2>4. \/ pc'[s] = "acquiring" /\ need[s] < Len(Sorted(s))
        \/ pc'[s] = "running"
        \/ pc'[s] = "releasing"
    BY <2>2, <2>3
  <2> QED  BY <2>1, <2>4
<1> QED  BY <1>2, <1>3 DEF gained

\* Leases are acquired in the order of their types.
LEMMA InOrderInductive == Arranged /\ TypeInv /\ InOrder /\ [Next]_vars => InOrder'
<1> USE LeaseAssumption
<1> SUFFICES ASSUME Arranged, TypeInv, InOrder, [Next]_vars PROVE InOrder'
  OBVIOUS
<1>0. /\ ret \in [LeaseStep -> Seq(Resource)] /\ resources \in [LeaseStep -> Seq(Resource)]
      /\ hand \in [LeaseStep -> SUBSET Resource] /\ need \in [LeaseStep -> Nat]
      /\ pc \in [LeaseStep -> {"idle", "acquiring", "inserting", "running", "releasing", "done"}]
  BY DEF TypeInv, TypeOK
<1>1. ASSUME NEW t \in LeaseStep, Prepares(t)' => Prepares(t),
             need'[t] = need[t], ret'[t] = ret[t], hand'[t] = hand[t], resources'[t] = resources[t]
      PROVE  Prepares(t)' =>
                /\ need'[t] \in DOMAIN Sorted(t)
                /\ Len(ret'[t]) < Want(t)'.count
                /\ \A r \in hand'[t] \cup ToSet(ret'[t]) : TypeOf[r] = Want(t)'.type
                /\ \A r \in ToSet(resources'[t]) : TypeOf[r] < Want(t)'.type
  <2>1. Want(t)' = Want(t)
    BY <1>1 DEF Want
  <2> QED  BY <1>1, <2>1 DEF InOrder
<1>2. CASE /\ UNCHANGED <<need, ret, hand, resources>>
           /\ \A t \in LeaseStep : Prepares(t)' => Prepares(t)
  BY <1>1, <1>2 DEF InOrder
<1>3. ASSUME NEW s \in LeaseStep,
             Start(s) \/ Interrupt(s) \/ TestEnds(s) \/ StepEnds(s) \/ ReleaseSucceeds(s)
               \/ GrantLost(s)
      PROVE  InOrder'
  <2>1. UNCHANGED <<need, ret, hand, resources>>
    BY <1>3 DEF Start, Interrupt, TestEnds, StepEnds, ReleaseSucceeds, GrantLost, local
  <2>2. \A t \in LeaseStep : Prepares(t)' => Prepares(t)
    BY <1>0, <1>3 DEF Start, Interrupt, TestEnds, StepEnds, ReleaseSucceeds, GrantLost, Prepares
  <2> QED  BY <1>2, <2>1, <2>2
<1>4. ASSUME NEW s \in LeaseStep, Granted(s) PROVE InOrder'
  <2>1. PICK r \in Resource : TypeOf[r] = Want(s).type /\ hand' = [hand EXCEPT ![s] = {r}]
    BY <1>4 DEF Granted, Want
  <2>2. UNCHANGED <<need, ret, resources>> /\ pc[s] = "acquiring" /\ pc' = [pc EXCEPT ![s] = "inserting"]
    BY <1>4 DEF Granted
  <2>3. ASSUME NEW t \in LeaseStep, Prepares(t)'
        PROVE  /\ need'[t] \in DOMAIN Sorted(t)
               /\ Len(ret'[t]) < Want(t)'.count
               /\ \A q \in hand'[t] \cup ToSet(ret'[t]) : TypeOf[q] = Want(t)'.type
               /\ \A q \in ToSet(resources'[t]) : TypeOf[q] < Want(t)'.type
    <3>1. CASE t # s
      <4>1. hand'[t] = hand[t] /\ (Prepares(t)' => Prepares(t))
        BY <1>0, <2>1, <2>2, <3>1 DEF Prepares
      <4> QED  BY <1>1, <2>2, <2>3, <4>1
    <3>2. CASE t = s
      <4>1. Prepares(s) /\ Want(s)' = Want(s) /\ hand'[s] = {r}
        BY <1>0, <2>1, <2>2 DEF Prepares, Want
      <4> QED  BY <2>1, <2>2, <3>2, <4>1 DEF InOrder
    <3> QED  BY <3>1, <3>2
  <2> QED  BY <2>3 DEF InOrder
<1>5. ASSUME NEW s \in LeaseStep, Insert(s) PROVE InOrder'
  <2>1. PICK r \in Resource : hand[s] = {r}
    BY <1>5 DEF Insert, TypeInv, Shape
  <2> DEFINE gained == ret[s] \o <<r>>
  <2>2. \/ /\ resources' = [resources EXCEPT ![s] = resources[s] \o gained]
           /\ ret' = [ret EXCEPT ![s] = <<>>]
           /\ need' = [need EXCEPT ![s] = need[s] + 1]
           /\ pc'[s] = "acquiring" => need[s] < Len(Sorted(s))
           /\ pc'[s] \in {"acquiring", "running", "releasing"}
        \/ /\ ret' = [ret EXCEPT ![s] = gained]
           /\ Len(gained) < Want(s).count
           /\ UNCHANGED <<need, resources>>
    BY <1>5, <2>1, InsertNext
  <2>3. hand' = [hand EXCEPT ![s] = {}] /\ Prepares(s)
    BY <1>5 DEF Insert, Prepares
  <2>4. \A t \in LeaseStep \ {s} : pc'[t] = pc[t]
    <3>1. \E to : pc' = [pc EXCEPT ![s] = to]
      BY <1>5, Zenon DEF Insert, Acquired
    <3> QED  BY <1>0, <3>1
  <2>5. gained \in Seq(Resource) /\ ToSet(gained) = ToSet(ret[s]) \cup {r}
    <3>1. ret[s] \in Seq(Resource) /\ <<r>> \in Seq(Resource) /\ ToSet(<<r>>) = {r}
      BY <1>0, ToSetOfOne
    <3>2. gained \in Seq(Resource) /\ ToSet(gained) = ToSet(ret[s]) \cup ToSet(<<r>>)
      BY <3>1, ConcatDistinct
    <3> QED  BY <3>1, <3>2
  <2>6. \A q \in ToSet(gained) : TypeOf[q] = Want(s).type
    BY <2>1, <2>3, <2>5 DEF InOrder
  <2> HIDE DEF gained
  <2>7. ASSUME NEW t \in LeaseStep, Prepares(t)'
        PROVE  /\ need'[t] \in DOMAIN Sorted(t)
               /\ Len(ret'[t]) < Want(t)'.count
               /\ \A q \in hand'[t] \cup ToSet(ret'[t]) : TypeOf[q] = Want(t)'.type
               /\ \A q \in ToSet(resources'[t]) : TypeOf[q] < Want(t)'.type
    <3>1. CASE t # s
      <4>1. /\ need'[t] = need[t] /\ ret'[t] = ret[t] /\ resources'[t] = resources[t]
            /\ hand'[t] = hand[t]
        BY <1>0, <2>2, <2>3, <3>1
      <4>2. Prepares(t)' => Prepares(t)
        BY <2>4, <3>1 DEF Prepares
      <4> QED  BY <1>1, <2>7, <4>1, <4>2
    <3>2. CASE t = s /\ ret' = [ret EXCEPT ![s] = gained] /\ Len(gained) < Want(s).count
               /\ UNCHANGED <<need, resources>>
      <4>1. ret'[s] = gained /\ hand'[s] = {} /\ Want(s)' = Want(s) /\ resources'[s] = resources[s]
        BY <1>0, <2>3, <3>2 DEF Want
      <4> QED  BY <2>3, <2>6, <3>2, <4>1 DEF InOrder
    <3>3. CASE /\ t = s
               /\ resources' = [resources EXCEPT ![s] = resources[s] \o gained]
               /\ ret' = [ret EXCEPT ![s] = <<>>]
               /\ need' = [need EXCEPT ![s] = need[s] + 1]
               /\ pc'[s] = "acquiring" => need[s] < Len(Sorted(s))
               /\ pc'[s] \in {"acquiring", "running", "releasing"}
      <4>1. /\ ret'[s] = <<>> /\ hand'[s] = {} /\ need'[s] = need[s] + 1
            /\ resources'[s] = resources[s] \o gained
        BY <1>0, <2>3, <3>3
      <4>2. need[s] < Len(Sorted(s))
        BY <2>7, <3>3 DEF Prepares
      <4>3. Sorted(s) \in Seq([type : Nat, count : Nat \ {0}, profile : BOOLEAN])
        BY DEF Arranged
      <4>4. Len(Sorted(s)) \in Nat /\ DOMAIN Sorted(s) = 1 .. Len(Sorted(s))
        BY <4>3, LenProperties
      <4>5. need[s] \in DOMAIN Sorted(s) /\ need[s] + 1 \in DOMAIN Sorted(s) /\ need[s] < need[s] + 1
        BY <2>3, <4>2, <4>4 DEF InOrder
      <4>6. Want(s)' = Sorted(s)[need[s] + 1]
        BY <4>1 DEF Want
      <4>7. /\ Want(s)'.count \in Nat \ {0} /\ Want(s)'.type \in Nat /\ Want(s).type \in Nat
            /\ Want(s).type < Want(s)'.type
        <5>1. Sorted(s)[need[s]].type < Sorted(s)[need[s] + 1].type
          BY <4>5 DEF Arranged
        <5>2. /\ Sorted(s)[need[s]] \in [type : Nat, count : Nat \ {0}, profile : BOOLEAN]
              /\ Sorted(s)[need[s] + 1] \in [type : Nat, count : Nat \ {0}, profile : BOOLEAN]
          BY <4>3, <4>4, <4>5, ElementOfSeq
        <5> QED  BY <4>6, <5>1, <5>2 DEF Want
      <4>8. ToSet(resources'[s]) = ToSet(resources[s]) \cup ToSet(gained)
        <5>1. resources[s] \in Seq(Resource)
          BY <1>0
        <5> QED  BY <2>5, <4>1, <5>1, ConcatDistinct
      <4>9. ToSet(resources[s]) \subseteq Resource
        BY <1>0, ToSetOfSeq
      <4>10. ASSUME NEW q \in ToSet(resources'[s]) PROVE TypeOf[q] < Want(s)'.type
        <5>1. TypeOf[q] <= Want(s).type
          <6>1. CASE q \in ToSet(gained)
            BY <2>6, <4>7, <6>1
          <6>2. CASE q \in ToSet(resources[s])
            <7>1. TypeOf[q] < Want(s).type /\ TypeOf[q] \in Nat
              BY <2>3, <4>9, <6>2 DEF InOrder
            <7> QED  BY <4>7, <7>1
          <6> QED  BY <4>8, <4>10, <6>1, <6>2
        <5>2. TypeOf[q] \in Nat
          <6>1. ToSet(gained) \subseteq Resource
            BY <2>5, ToSetOfSeq
          <6> QED  BY <4>8, <4>9, <4>10, <6>1
        <5> QED  BY <4>7, <5>1, <5>2
      <4>11. Len(ret'[s]) = 0
        BY <4>1
      <4> QED  BY <3>3, <4>1, <4>5, <4>7, <4>10, <4>11, ToSetOfEmpty
    <3> QED  BY <2>2, <3>1, <3>2, <3>3
  <2> QED  BY <2>7 DEF InOrder
<1>6. ASSUME NEW s \in LeaseStep, AcquireFails(s) \/ ReleaseReturns(s) \/ ReleaseFails(s) PROVE InOrder'
  <2>1. /\ ~Prepares(s)'
        /\ \A t \in LeaseStep \ {s} :
              /\ Prepares(t)' => Prepares(t)
              /\ need'[t] = need[t] /\ ret'[t] = ret[t] /\ hand'[t] = hand[t]
              /\ resources'[t] = resources[t]
    <3>1. CASE AcquireFails(s)
      BY <1>0, <3>1 DEF AcquireFails, Prepares
    <3>2. CASE ReleaseReturns(s) \/ ReleaseFails(s)
      <4>1. pc[s] = "releasing" /\ pc' = pc
        BY <3>2 DEF ReleaseReturns, ReleaseFails, TypeInv, Shape
      <4>2. UNCHANGED <<need, ret, hand>> /\ resources' = [resources EXCEPT ![s] = Tail(@)]
        BY <3>2 DEF ReleaseReturns, ReleaseFails
      <4> QED  BY <1>0, <4>1, <4>2 DEF Prepares
    <3> QED  BY <1>6, <3>1, <3>2
  <2> QED  BY <1>1, <2>1 DEF InOrder
<1>7. ASSUME NEW updated \in SUBSET Known, Heartbeat(updated) PROVE InOrder'
  BY <1>2, <1>7 DEF Heartbeat, local, Prepares
<1>8. CASE End
  BY <1>2, <1>8 DEF End, ReleaseAll, local, Prepares
<1>9. CASE UNCHANGED vars
  BY <1>2, <1>9 DEF vars, Prepares
<1> QED
  BY <1>3, <1>4, <1>5, <1>6, <1>7, <1>8, <1>9 DEF Next, StepAction

\* Of steps that all wait, one that wants the largest type finds a resource of it that
\* none of them holds.
LEMMA NoneWaitsForAll == Arranged /\ TypeInv /\ InOrder => NoCircularWait
<1> USE LeaseAssumption
<1> SUFFICES ASSUME Arranged, TypeInv, InOrder, NEW group \in (SUBSET LeaseStep) \ {{}}
             PROVE  \E s \in group :
                        \/ pc[s] # "acquiring"
                        \/ \E r \in Resource : /\ TypeOf[r] = Sorted(s)[need[s]].type
                                               /\ \A t \in group : r \notin Holds(t)
  BY Zenon DEF NoCircularWait
<1>g. group \subseteq LeaseStep /\ group # {}
  OBVIOUS
<1> SUFFICES ASSUME \A s \in group : pc[s] = "acquiring"
             PROVE  \E s \in group : \E r \in Resource :
                        TypeOf[r] = Sorted(s)[need[s]].type /\ \A t \in group : r \notin Holds(t)
  BY Zenon
<1>0. ASSUME NEW s \in group
      PROVE  /\ Want(s).type \in Nat /\ Want(s).count \in Nat \ {0} /\ need[s] \in DOMAIN Sorted(s)
             /\ hand[s] = {} /\ ret[s] \in Seq(Resource) /\ Len(ret[s]) < Want(s).count
             /\ Cardinality(OfType(Want(s).type)) >= Want(s).count
             /\ \A r \in ToSet(ret[s]) : TypeOf[r] = Want(s).type
             /\ \A r \in ToSet(resources[s]) : TypeOf[r] < Want(s).type
  <2>0. s \in LeaseStep
    BY <1>g
  <2>1. Prepares(s) /\ hand[s] = {} /\ ret[s] \in Seq(Resource)
    BY <2>0 DEF Prepares, TypeInv, Shape, TypeOK
  <2>2. /\ need[s] \in DOMAIN Sorted(s) /\ Len(ret[s]) < Want(s).count
        /\ \A r \in ToSet(ret[s]) : TypeOf[r] = Want(s).type
        /\ \A r \in ToSet(resources[s]) : TypeOf[r] < Want(s).type
    BY <2>1 DEF InOrder
  <2>3. Sorted(s) \in Seq([type : Nat, count : Nat \ {0}, profile : BOOLEAN])
    BY DEF Arranged
  <2>4. Want(s) \in [type : Nat, count : Nat \ {0}, profile : BOOLEAN]
    <3>1. need[s] \in 1 .. Len(Sorted(s))
      BY <2>2, <2>3, LenProperties
    <3> QED  BY <2>3, <3>1, ElementOfSeq DEF Want
  <2>5. Cardinality(OfType(Want(s).type)) >= Want(s).count
    BY <2>2 DEF Arranged, Want, OfType
  <2> QED  BY <2>1, <2>2, <2>4, <2>5
<1>1. PICK big \in Resource : \A q \in Resource : TypeOf[q] <= TypeOf[big]
  BY DEF Arranged
<1>2. ASSUME NEW n PROVE IsFiniteSet(OfType(n)) /\ Cardinality(OfType(n)) \in Nat
  <2>1. OfType(n) \in SUBSET Resource /\ IsFiniteSet(Resource)
    BY DEF Arranged, OfType
  <2> QED  BY <2>1, FS_Subset, FS_CardinalityType
<1>3. ASSUME NEW s \in group PROVE OfType(Want(s).type) # {} /\ Want(s).type <= TypeOf[big]
  <2> DEFINE k == Cardinality(OfType(Want(s).type))
  <2>1. k >= Want(s).count /\ k \in Nat /\ Want(s).count \in Nat \ {0}
    BY <1>0, <1>2
  <2>2. k # 0
    <3> HIDE DEF k
    <3> QED  BY <2>1
  <2>3. OfType(Want(s).type) # {}
    BY <2>2, FS_EmptySet
  <2> QED  BY <1>1, <2>3 DEF OfType
<1>4. PICK s \in group : \A t \in group : Want(t).type <= Want(s).type
  <2> DEFINE W == {n \in Nat : \E t \in group : n = Want(t).type}
  <2>1. W \in SUBSET Nat /\ W # {} /\ TypeOf[big] \in Nat /\ \A n \in W : n <= TypeOf[big]
    BY <1>0, <1>3
  <2>2. PICK n \in W : \A m \in W : m <= n
    BY <2>1, Largest
  <2>3. PICK t \in group : n = Want(t).type
    BY <2>2
  <2>4. \A u \in group : Want(u).type \in W
    BY <1>0
  <2> QED  BY <2>2, <2>3, <2>4
<1> DEFINE n == Want(s).type
\* Who holds a resource of this type is acquiring several of it.
<1>5. ASSUME NEW t \in group, NEW r \in Holds(t), TypeOf[r] = n
      PROVE  r \in ToSet(ret[t]) /\ Want(t).type = n /\ Want(t).count # 1
  <2>1. r \in ToSet(ret[t]) \/ r \in ToSet(resources[t])
    BY <1>0 DEF Holds
  <2>2. Want(t).type <= n /\ Want(t).type \in Nat /\ n \in Nat
    BY <1>0, <1>4
  <2>3. r \in ToSet(ret[t]) /\ Want(t).type = n
    <3>1. ASSUME r \in ToSet(resources[t]) PROVE FALSE
      <4>1. TypeOf[r] < Want(t).type
        BY <1>0, <3>1
      <4> QED  BY <1>5, <2>2, <4>1
    <3>2. r \in ToSet(ret[t])
      BY <2>1, <3>1
    <3> QED  BY <1>0, <1>5, <3>2
  <2>4. Len(ret[t]) # 0
    <3>1. ret[t] # <<>>
      BY <2>3, ToSetOfEmpty
    <3> QED  BY <1>0, <3>1, EmptySeq
  <2>5. Len(ret[t]) \in Nat /\ Len(ret[t]) < Want(t).count
    BY <1>0, LenProperties
  <2> QED  BY <2>3, <2>4, <2>5
<1>6. CASE \A t \in group : \A r \in Holds(t) : TypeOf[r] # n
  <2>1. PICK r \in Resource : TypeOf[r] = n
    BY <1>3 DEF OfType
  <2> QED  BY <1>6, <2>1 DEF Want
<1>7. CASE \E t \in group : \E r \in Holds(t) : TypeOf[r] = n
  <2>1. PICK t \in group : \E r \in Holds(t) : TypeOf[r] = n
    BY <1>7
  <2>2. Want(t).type = n /\ Want(t).count # 1
    BY <1>5, <2>1
  <2>3. ASSUME NEW u \in group, u # t, NEW r \in Holds(u), TypeOf[r] = n PROVE FALSE
    <3>1. Want(u).type = n /\ Want(u).count # 1
      BY <1>5, <2>3
    <3>2. need[t] \in DOMAIN Sorted(t) /\ need[u] \in DOMAIN Sorted(u)
      BY <1>0
    <3>3. Sorted(t)[need[t]].type = Sorted(u)[need[u]].type
      BY <2>2, <3>1 DEF Want
    <3>4. Want(t).count = 1 \/ Want(u).count = 1
      <4>1. \A i \in DOMAIN Sorted(t), j \in DOMAIN Sorted(u) :
                Sorted(t)[i].type = Sorted(u)[j].type =>
                    Sorted(t)[i].count = 1 \/ Sorted(u)[j].count = 1
        BY <1>g, <2>3, Zenon DEF Arranged
      <4>2. Sorted(t)[need[t]].count = 1 \/ Sorted(u)[need[u]].count = 1
        BY <3>2, <3>3, <4>1, Zenon
      <4> QED  BY <4>2 DEF Want
    <3> QED  BY <2>2, <3>1, <3>4
  <2>4. PICK r \in OfType(n) : r \notin ToSet(ret[t])
    <3>1. IsFiniteSet(ToSet(ret[t])) /\ Cardinality(ToSet(ret[t])) <= Len(ret[t])
      BY <1>0, FewInSequence
    <3>2. Len(ret[t]) \in Nat /\ Cardinality(ToSet(ret[t])) \in Nat
      BY <1>0, <3>1, LenProperties, FS_CardinalityType
    <3> DEFINE k == Cardinality(OfType(n))
               h == Cardinality(ToSet(ret[t]))
    <3>3. k >= Want(t).count /\ Want(t).count \in Nat /\ Len(ret[t]) < Want(t).count /\ k \in Nat
      BY <1>0, <1>2, <2>2
    <3>4. OfType(n) \subseteq ToSet(ret[t]) => k <= h
      BY <3>1, FS_Subset
    <3>5. h <= Len(ret[t]) /\ h \in Nat
      BY <3>1, <3>2
    <3> HIDE DEF k, h
    <3>6. ~(k <= h)
      BY <3>2, <3>3, <3>5
    <3> QED  BY <3>4, <3>6
  <2>5. r \in Resource /\ TypeOf[r] = n
    BY <2>4 DEF OfType
  <2>6. \A u \in group : r \notin Holds(u)
    BY <1>5, <2>3, <2>4, <2>5
  <2> QED  BY <2>5, <2>6 DEF Want
<1> QED  BY <1>6, <1>7

\* Steps never wait for each other's resources in a circle, whatever order the
\* configuration names them in: acquireLeases sorts by type, and what a step holds while
\* it waits is of smaller types, or too little of the type it waits for.
THEOREM NoCircle == Orderly /\ SortsByType => (Spec => []NoCircularWait)
<1>1. ASSUME Arranged PROVE Init => InOrder
  <2> SUFFICES ASSUME Init, NEW s \in LeaseStep
               PROVE  /\ need[s] \in DOMAIN Sorted(s)
                      /\ Len(ret[s]) < Want(s).count
                      /\ \A r \in hand[s] \cup ToSet(ret[s]) : TypeOf[r] = Want(s).type
                      /\ \A r \in ToSet(resources[s]) : TypeOf[r] < Want(s).type
    BY DEF InOrder
  <2>1. need[s] = 1 /\ ret[s] = <<>> /\ resources[s] = <<>> /\ hand[s] = {}
    BY DEF Init
  <2>2. /\ Sorted(s) \in Seq([type : Nat, count : Nat \ {0}, profile : BOOLEAN])
        /\ Sorted(s) # <<>>
    BY <1>1 DEF Arranged
  <2>3. 1 \in DOMAIN Sorted(s) /\ Sorted(s)[1] \in [type : Nat, count : Nat \ {0}, profile : BOOLEAN]
    <3>1. Len(Sorted(s)) \in Nat /\ Len(Sorted(s)) # 0 /\ DOMAIN Sorted(s) = 1 .. Len(Sorted(s))
      BY <2>2, LenProperties, EmptySeq
    <3>2. 1 \in 1 .. Len(Sorted(s))
      BY <3>1
    <3> QED  BY <2>2, <3>1, <3>2, ElementOfSeq
  <2>4. Want(s).count \in Nat \ {0}
    BY <2>1, <2>3 DEF Want
  <2> QED  BY <2>1, <2>3, <2>4, ToSetOfEmpty
<1>2. Arranged <=> Arranged'
  BY DEF Arranged
<1> QED  BY <1>1, <1>2, Arrangement, TypeCorrect, InOrderInductive, NoneWaitsForAll, PTL DEF Spec

-----------------------------------------------------------------------------
(* The steps that lease chunks of IP addresses with the same client *)

\* The types of the pool's variables.
PoolTypes ==
    /\ server \subseteq Resource /\ storage \subseteq Resource
    /\ leases \in [Resource -> PoolStep \cup {NoStep}]
    /\ stage \in [PoolStep -> {"acquiring", "running", "releasing", "done"}]
    /\ names \in [PoolStep -> Seq(Resource)] /\ kept \in [PoolStep -> Seq(Resource)]
    /\ checker \in [PoolStep -> {"none", "checking", "releasing", "offering", "gone"}]
    /\ unused \in [PoolStep -> Int] /\ next \in [PoolStep -> Nat \ {0}]
    /\ returned \in [PoolStep -> SUBSET Resource]
    /\ crashed \in BOOLEAN

\* What a step and its checker have between them: the checker has returned the
\* leases before its index, and what the step will still return are all its leases,
\* or those from the count of an offer that it took.
Between(s) ==
    /\ stage[s] = "acquiring" => checker[s] = "none"
    /\ checker[s] = "none" => next[s] = 1 /\ unused[s] = 0 /\ kept[s] = <<>>
    /\ unused[s] <= Len(names[s]) /\ next[s] <= Len(names[s]) + 1
    /\ \A i \in 1 .. next[s] - 1 : names[s][i] \in returned[s]
    /\ checker[s] = "offering" => unused[s] >= 0 /\ next[s] > unused[s]
    /\ returned[s] \cup ToSet(kept[s]) \subseteq ToSet(names[s])
    /\ checker[s] # "none" =>
          /\ stage[s] = "running" => kept[s] = names[s]
          /\ stage[s] \in {"releasing", "done"} =>
                ToSet(names[s]) \subseteq returned[s] \cup ToSet(kept[s])
          /\ stage[s] = "done" => kept[s] = <<>>

\* The inductive invariant.
PoolInv == PoolTypes /\ \A s \in PoolStep : Between(s)

\* The first member and the others.
LEMMA Taken ==
    ASSUME NEW S, NEW a \in Seq(S), a # <<>>
    PROVE  /\ Head(a) \in S /\ Tail(a) \in Seq(S)
           /\ ToSet(a) = {Head(a)} \cup ToSet(Tail(a))
  <1>1. /\ Head(a) = a[1] /\ Head(a) \in S /\ Tail(a) \in Seq(S) /\ Len(Tail(a)) = Len(a) - 1
        /\ Len(a) \in Nat \ {0} /\ \A i \in 1 .. Len(a) - 1 : Tail(a)[i] = a[i + 1]
    BY HeadTailProperties, LenProperties
  <1>2. DOMAIN a = 1 .. Len(a) /\ DOMAIN Tail(a) = 1 .. Len(a) - 1
    BY <1>1, LenProperties
  <1>3. ASSUME NEW x \in ToSet(a) PROVE x \in {Head(a)} \cup ToSet(Tail(a))
    <2>1. PICK i \in 1 .. Len(a) : x = a[i]
      BY <1>2 DEF ToSet
    <2>2. CASE i = 1
      BY <2>1, <2>2, <1>1
    <2>3. CASE i # 1
      <3>1. i - 1 \in 1 .. Len(a) - 1 /\ Tail(a)[i - 1] = a[i]
        BY <1>1, <2>3
      <3>2. QED BY <1>2, <2>1, <3>1 DEF ToSet
    <2>4. QED BY <2>2, <2>3
  <1>4. ASSUME NEW x \in ToSet(Tail(a)) PROVE x \in ToSet(a)
    <2>1. PICK i \in 1 .. Len(a) - 1 : x = Tail(a)[i]
      BY <1>2 DEF ToSet
    <2>2. i + 1 \in 1 .. Len(a) /\ x = a[i + 1]
      BY <1>1, <2>1
    <2>3. QED BY <1>2, <2>2 DEF ToSet
  <1>5. Head(a) \in ToSet(a)
    BY <1>1, <1>2 DEF ToSet
  <1>6. QED BY <1>1, <1>3, <1>4, <1>5

\* A sequence that is extended keeps its members.
LEMMA Extended ==
    ASSUME NEW S, NEW a \in Seq(S), NEW x \in S
    PROVE  /\ Append(a, x) \in Seq(S) /\ Len(Append(a, x)) = Len(a) + 1 /\ Len(a) \in Nat
           /\ ToSet(a) \subseteq ToSet(Append(a, x))
  <1>1. /\ Append(a, x) \in Seq(S) /\ Len(Append(a, x)) = Len(a) + 1 /\ Len(a) \in Nat
        /\ DOMAIN a = 1 .. Len(a) /\ DOMAIN Append(a, x) = 1 .. Len(a) + 1
        /\ \A i \in 1 .. Len(a) : Append(a, x)[i] = a[i]
    BY AppendProperties, LenProperties
  <1>2. \A i \in 1 .. Len(a) : i \in 1 .. Len(a) + 1
    BY <1>1
  <1>3. QED BY <1>1, <1>2 DEF ToSet

\* The remainder from a count on, with what is before it, is the whole sequence.
LEMMA Remainder ==
    ASSUME NEW S, NEW a \in Seq(S), NEW k \in Nat, k <= Len(a)
    PROVE  /\ SubSeq(a, k + 1, Len(a)) \in Seq(S)
           /\ ToSet(SubSeq(a, k + 1, Len(a))) \subseteq ToSet(a)
           /\ \A i \in 1 .. Len(a) : i <= k \/ a[i] \in ToSet(SubSeq(a, k + 1, Len(a)))
  <1> DEFINE b == SubSeq(a, k + 1, Len(a))
  <1>1. Len(a) \in Nat /\ DOMAIN a = 1 .. Len(a) /\ \A i \in 1 .. Len(a) : a[i] \in S
    BY LenProperties
  <1>2. b \in Seq(S) /\ Len(b) = Len(a) - k /\ \A i \in 1 .. Len(a) - k : b[i] = a[k + i]
    <2>1. \A i \in k + 1 .. Len(a) : i \in 1 .. Len(a)
      BY <1>1
    <2>2. /\ b \in Seq(S) /\ Len(b) = IF k + 1 <= Len(a) THEN Len(a) - (k + 1) + 1 ELSE 0
          /\ \A i \in 1 .. Len(a) - (k + 1) + 1 : b[i] = a[(k + 1) + i - 1]
      BY <1>1, <2>1, SubSeqProperties
    <2> HIDE DEF b
    <2>3. Len(b) = Len(a) - k
      <3>a. \A m, n \in Nat : n <= m => n = m \/ (n + 1 <= m /\ m - (n + 1) + 1 = m - n)
        OBVIOUS
      <3>1. CASE k = Len(a)
        <4>1. ~(k + 1 <= Len(a)) /\ Len(a) - k = 0
          BY <3>1
        <4>2. QED BY <2>2, <4>1
      <3>2. CASE k # Len(a)
        <4>1. k + 1 <= Len(a) /\ Len(a) - (k + 1) + 1 = Len(a) - k
          BY <1>1, <3>a, <3>2
        <4>2. QED BY <2>2, <4>1
      <3>3. QED BY <3>1, <3>2
    <2>4. \A i \in 1 .. Len(a) - k : i \in 1 .. Len(a) - (k + 1) + 1 /\ (k + 1) + i - 1 = k + i
      BY <1>1
    <2>5. QED BY <2>2, <2>3, <2>4
  <1> HIDE DEF b
  <1>3. DOMAIN b = 1 .. Len(a) - k
    BY <1>2, LenProperties
  <1>4. ToSet(b) \subseteq ToSet(a)
    <2>1. \A i \in 1 .. Len(a) - k : k + i \in 1 .. Len(a)
      BY <1>1
    <2>2. QED BY <1>1, <1>2, <1>3, <2>1 DEF ToSet
  <1>5. ASSUME NEW i \in 1 .. Len(a), ~(i <= k) PROVE a[i] \in ToSet(b)
    <2>1. i - k \in 1 .. Len(a) - k /\ k + (i - k) = i
      BY <1>1, <1>5
    <2>2. b[i - k] = a[i]
      BY <1>2, <2>1
    <2>3. QED BY <1>3, <2>1, <2>2 DEF ToSet
  <1>6. QED BY <1>2, <1>4, <1>5 DEF b

\* The empty sequence has no members.
LEMMA NoMembers == ToSet(<<>>) = {}
  BY DEF ToSet

\* What belongs to the other steps.
Others(s) ==
    \A t \in PoolStep \ {s} :
        /\ stage'[t] = stage[t] /\ names'[t] = names[t] /\ kept'[t] = kept[t]
        /\ checker'[t] = checker[t] /\ unused'[t] = unused[t] /\ next'[t] = next[t]
        /\ returned'[t] = returned[t]

\* A step of one of them leaves the others what they had.
LEMMA OthersKept ==
    ASSUME PoolInv, PoolTypes', NEW s \in PoolStep, Others(s), Between(s)' PROVE PoolInv'
  <1>1. ASSUME NEW t \in PoolStep \ {s} PROVE Between(t)'
    BY <1>1 DEF PoolInv, Between, Others
  <1>2. QED BY <1>1 DEF PoolInv

\* Release of a lease that the step or its checker holds.
LEMMA Releases ==
    ASSUME PoolInv, NEW s \in PoolStep, NEW r \in Resource, Release(s, r)
    PROVE  /\ server' \subseteq Resource /\ storage' \subseteq Resource
           /\ leases' \in [Resource -> PoolStep \cup {NoStep}]
           /\ returned' \in [PoolStep -> SUBSET Resource] /\ returned'[s] = returned[s] \cup {r}
           /\ \A t \in PoolStep \ {s} : returned'[t] = returned[t]
  <1>1. returned \in [PoolStep -> SUBSET Resource] /\ returned' = [returned EXCEPT ![s] = @ \cup {r}]
    BY DEF PoolInv, PoolTypes, Release
  <1>2. returned' \in [PoolStep -> SUBSET Resource] /\ returned'[s] = returned[s] \cup {r}
        /\ \A t \in PoolStep \ {s} : returned'[t] = returned[t]
    BY <1>1
  <1>3. server' \subseteq Resource /\ storage' \subseteq Resource
    BY DEF PoolInv, PoolTypes, Release
  <1>4. leases' \in [Resource -> PoolStep \cup {NoStep}]
    BY DEF PoolInv, PoolTypes, Release
  <1>5. QED BY <1>2, <1>3, <1>4

\* However the checker and the end of the test cross, nothing falls between them.
LEMMA PoolInductive == PoolInv /\ [PoolNext]_poolVars => PoolInv'
  <1> SUFFICES ASSUME PoolInv, [PoolNext]_poolVars PROVE PoolInv'
    OBVIOUS
  <1>t. PoolTypes
    BY DEF PoolInv
  <1>b. ASSUME NEW s \in PoolStep
        PROVE  /\ Between(s) /\ names[s] \in Seq(Resource) /\ kept[s] \in Seq(Resource)
               /\ Len(names[s]) \in Nat /\ DOMAIN names[s] = 1 .. Len(names[s])
               /\ unused[s] \in Int /\ next[s] \in Nat \ {0} /\ returned[s] \subseteq Resource
    BY LenProperties DEF PoolInv, PoolTypes
  <1>1. ASSUME NEW s \in PoolStep, NEW r \in Resource, AcquireOne(s, r) PROVE PoolInv'
    <2>1. /\ stage[s] = "acquiring" /\ names' = [names EXCEPT ![s] = Append(@, r)]
          /\ server' = server \cup {r} /\ storage' = storage \cup {r}
          /\ leases' = [leases EXCEPT ![r] = s]
          /\ UNCHANGED <<unused, next, returned, crashed>>
      BY <1>1 DEF AcquireOne
    <2>2. \/ UNCHANGED <<stage, kept, checker>>
          \/ /\ kept' = [kept EXCEPT ![s] = names'[s]]
             /\ checker' = [checker EXCEPT ![s] = "checking"]
             /\ stage' = [stage EXCEPT ![s] = "running"]
      BY <1>1 DEF AcquireOne
    <2>3. /\ Append(names[s], r) \in Seq(Resource) /\ Len(Append(names[s], r)) = Len(names[s]) + 1
          /\ ToSet(names[s]) \subseteq ToSet(Append(names[s], r))
      BY <1>b, Extended
    <2>4. names' \in [PoolStep -> Seq(Resource)] /\ names'[s] = Append(names[s], r)
      BY <1>t, <2>1, <2>3 DEF PoolTypes
    <2>5. PoolTypes'
      BY <1>t, <2>1, <2>2, <2>4 DEF PoolTypes
    <2>6. Others(s)
      BY <1>t, <2>1, <2>2 DEF PoolTypes, Others
    <2>7. checker[s] = "none" /\ next[s] = 1 /\ unused[s] = 0 /\ kept[s] = <<>>
      BY <1>b, <2>1 DEF Between
    <2>8. ToSet(kept'[s]) \subseteq ToSet(names'[s])
      BY <1>t, <2>2, <2>4, <2>7, NoMembers DEF PoolTypes
    <2>9. Between(s)'
      <3>1. CASE UNCHANGED <<stage, kept, checker>>
        BY <1>b, <2>1, <2>3, <2>4, <2>7, <2>8, <3>1 DEF Between
      <3>2. CASE /\ kept' = [kept EXCEPT ![s] = names'[s]]
                 /\ checker' = [checker EXCEPT ![s] = "checking"]
                 /\ stage' = [stage EXCEPT ![s] = "running"]
        <4>1. kept'[s] = names'[s] /\ checker'[s] = "checking" /\ stage'[s] = "running"
          BY <1>t, <3>2 DEF PoolTypes
        <4>2. QED BY <1>b, <2>1, <2>3, <2>4, <2>7, <2>8, <4>1 DEF Between
      <3>3. QED BY <2>2, <3>1, <3>2
    <2>10. QED BY <2>5, <2>6, <2>9, OthersKept
  <1>2. ASSUME NEW s \in PoolStep, NotAvailable(s) \/ PoolFails(s) PROVE PoolInv'
    <2>1. /\ stage[s] = "acquiring"
          /\ stage' = [stage EXCEPT ![s] = "running"] \/ stage' = [stage EXCEPT ![s] = "done"]
          /\ UNCHANGED <<server, storage, leases, names, kept, checker, unused, next, returned, crashed>>
      BY <1>2 DEF NotAvailable, PoolFails, poolClient, check
    <2>2. stage' \in [PoolStep -> {"acquiring", "running", "releasing", "done"}]
          /\ stage'[s] \in {"running", "done"} /\ \A t \in PoolStep \ {s} : stage'[t] = stage[t]
      BY <1>t, <2>1 DEF PoolTypes
    <2>3. PoolTypes'
      BY <1>t, <2>1, <2>2 DEF PoolTypes
    <2>4. Others(s)
      BY <2>1, <2>2 DEF Others
    <2>5. Between(s)'
      BY <1>b, <2>1, <2>2 DEF Between
    <2>6. QED BY <2>3, <2>4, <2>5, OthersKept
  <1>3. ASSUME NEW s \in PoolStep, PoolTestEnds(s) PROVE PoolInv'
    <2>1. /\ stage[s] = "running" /\ stage' = [stage EXCEPT ![s] = "releasing"]
          /\ UNCHANGED <<server, storage, leases, names, unused, next, returned, crashed>>
      BY <1>3 DEF PoolTestEnds, poolClient
    <2>2. stage' \in [PoolStep -> {"acquiring", "running", "releasing", "done"}]
          /\ stage'[s] = "releasing" /\ \A t \in PoolStep \ {s} : stage'[t] = stage[t]
      BY <1>t, <2>1 DEF PoolTypes
    <2>3. CASE /\ checker[s] = "offering"
               /\ kept' = [kept EXCEPT ![s] = SubSeq(names[s], unused[s] + 1, Len(names[s]))]
               /\ checker' = [checker EXCEPT ![s] = "gone"]
      <3> DEFINE rest == SubSeq(names[s], unused[s] + 1, Len(names[s]))
      <3>1. unused[s] \in Nat /\ unused[s] <= Len(names[s]) /\ next[s] > unused[s]
        BY <1>b, <2>3 DEF Between
      <3>2. /\ rest \in Seq(Resource) /\ ToSet(rest) \subseteq ToSet(names[s])
            /\ \A i \in 1 .. Len(names[s]) : i <= unused[s] \/ names[s][i] \in ToSet(rest)
        BY <1>b, <3>1, Remainder
      <3> HIDE DEF rest
      <3>3. kept' \in [PoolStep -> Seq(Resource)] /\ kept'[s] = rest
            /\ checker' \in [PoolStep -> {"none", "checking", "releasing", "offering", "gone"}]
            /\ checker'[s] = "gone"
            /\ \A t \in PoolStep \ {s} : kept'[t] = kept[t] /\ checker'[t] = checker[t]
        BY <1>t, <2>3, <3>2 DEF PoolTypes, rest
      <3>4. ToSet(names[s]) \subseteq returned[s] \cup ToSet(rest)
        <4>1. ASSUME NEW i \in 1 .. Len(names[s]) PROVE names[s][i] \in returned[s] \cup ToSet(rest)
          <5>1. i <= unused[s] => i \in 1 .. next[s] - 1
            BY <1>b, <3>1
          <5>2. QED BY <1>b, <3>2, <5>1 DEF Between
        <4>2. QED BY <1>b, <4>1 DEF ToSet
      <3>5. PoolTypes'
        BY <1>t, <2>1, <2>2, <3>3 DEF PoolTypes
      <3>6. Others(s)
        BY <2>1, <2>2, <3>3 DEF Others
      <3>7. Between(s)'
        BY <1>b, <2>1, <2>2, <3>2, <3>3, <3>4 DEF Between
      <3>8. QED BY <3>5, <3>6, <3>7, OthersKept
    <2>4. CASE checker[s] # "offering" /\ UNCHANGED <<kept, checker>>
      <3>1. PoolTypes'
        BY <1>t, <2>1, <2>2, <2>4 DEF PoolTypes
      <3>2. Others(s)
        BY <2>1, <2>2, <2>4 DEF Others
      <3>3. Between(s)'
        BY <1>b, <2>1, <2>2, <2>4 DEF Between
      <3>4. QED BY <3>1, <3>2, <3>3, OthersKept
    <2>5. QED BY <1>3, <2>3, <2>4 DEF PoolTestEnds
  <1>4. ASSUME NEW s \in PoolStep, StepReleases(s) PROVE PoolInv'
    <2>1. /\ stage[s] = "releasing" /\ kept[s] # <<>> /\ Release(s, Head(kept[s]))
          /\ kept' = [kept EXCEPT ![s] = Tail(@)]
          /\ UNCHANGED <<stage, names, checker, unused, next, crashed>>
      BY <1>4 DEF StepReleases, check
    <2>2. /\ Head(kept[s]) \in Resource /\ Tail(kept[s]) \in Seq(Resource)
          /\ ToSet(kept[s]) = {Head(kept[s])} \cup ToSet(Tail(kept[s]))
      BY <1>b, <2>1, Taken
    <2>3. /\ server' \subseteq Resource /\ storage' \subseteq Resource
          /\ leases' \in [Resource -> PoolStep \cup {NoStep}]
          /\ returned' \in [PoolStep -> SUBSET Resource]
          /\ returned'[s] = returned[s] \cup {Head(kept[s])}
          /\ \A t \in PoolStep \ {s} : returned'[t] = returned[t]
      BY <2>1, <2>2, Releases
    <2>4. /\ kept' \in [PoolStep -> Seq(Resource)] /\ kept'[s] = Tail(kept[s])
          /\ \A t \in PoolStep \ {s} : kept'[t] = kept[t]
      BY <1>t, <2>1, <2>2 DEF PoolTypes
    <2>5. PoolTypes'
      BY <1>t, <2>1, <2>3, <2>4 DEF PoolTypes
    <2>6. Others(s)
      BY <2>1, <2>3, <2>4 DEF Others
    <2>7. checker[s] # "none"
      BY <1>b, <2>1 DEF Between
    <2>8. Between(s)'
      BY <1>b, <2>1, <2>2, <2>3, <2>4, <2>7 DEF Between
    <2>9. QED BY <2>5, <2>6, <2>8, OthersKept
  <1>5. ASSUME NEW s \in PoolStep, PoolStepEnds(s) PROVE PoolInv'
    <2>1. /\ stage[s] = "releasing" /\ kept[s] = <<>> /\ stage' = [stage EXCEPT ![s] = "done"]
          /\ UNCHANGED <<server, storage, leases, names, kept, checker, unused, next, returned, crashed>>
      BY <1>5 DEF PoolStepEnds, poolClient, check
    <2>2. stage' \in [PoolStep -> {"acquiring", "running", "releasing", "done"}]
          /\ stage'[s] = "done" /\ \A t \in PoolStep \ {s} : stage'[t] = stage[t]
      BY <1>t, <2>1 DEF PoolTypes
    <2>3. PoolTypes'
      BY <1>t, <2>1, <2>2 DEF PoolTypes
    <2>4. Others(s)
      BY <2>1, <2>2 DEF Others
    <2>5. Between(s)'
      BY <1>b, <2>1, <2>2 DEF Between
    <2>6. QED BY <2>3, <2>4, <2>5, OthersKept
  <1>6. ASSUME NEW s \in PoolStep, NEW count \in -1 .. Count + 1,
               CheckerStops(s) \/ CheckerFinds(s, count) PROVE PoolInv'
    <2>1. /\ checker[s] = "checking" /\ UNCHANGED <<server, storage, leases, stage, names, kept, next, returned, crashed>>
          /\ \/ checker' = [checker EXCEPT ![s] = "gone"] /\ UNCHANGED unused
             \/ /\ count <= Len(names[s]) /\ unused' = [unused EXCEPT ![s] = count]
                /\ checker' = [checker EXCEPT ![s] = "releasing"]
      BY <1>6 DEF CheckerStops, CheckerFinds, poolClient
    <2>2. count \in Int
      BY PoolAssumption
    <2>3. /\ checker' \in [PoolStep -> {"none", "checking", "releasing", "offering", "gone"}]
          /\ unused' \in [PoolStep -> Int] /\ checker'[s] \in {"gone", "releasing"}
          /\ unused'[s] = unused[s] \/ (unused'[s] = count /\ count <= Len(names[s]))
          /\ \A t \in PoolStep \ {s} : checker'[t] = checker[t] /\ unused'[t] = unused[t]
      <3>1. CASE checker' = [checker EXCEPT ![s] = "gone"] /\ UNCHANGED unused
        BY <1>t, <3>1 DEF PoolTypes
      <3>2. CASE /\ count <= Len(names[s]) /\ unused' = [unused EXCEPT ![s] = count]
                 /\ checker' = [checker EXCEPT ![s] = "releasing"]
        <4>1. unused' \in [PoolStep -> Int] /\ unused'[s] = count
              /\ \A t \in PoolStep \ {s} : unused'[t] = unused[t]
          BY <1>t, <2>2, <3>2 DEF PoolTypes
        <4>2. checker' \in [PoolStep -> {"none", "checking", "releasing", "offering", "gone"}]
              /\ checker'[s] = "releasing" /\ \A t \in PoolStep \ {s} : checker'[t] = checker[t]
          BY <1>t, <3>2 DEF PoolTypes
        <4>3. QED BY <3>2, <4>1, <4>2
      <3>3. QED BY <2>1, <3>1, <3>2
    <2>4. PoolTypes'
      BY <1>t, <2>1, <2>3 DEF PoolTypes
    <2>5. Others(s)
      BY <2>1, <2>3 DEF Others
    <2>6. Between(s)'
      BY <1>b, <2>1, <2>3 DEF Between
    <2>7. QED BY <2>4, <2>5, <2>6, OthersKept
  <1>7. ASSUME NEW s \in PoolStep, CheckerReleases(s) PROVE PoolInv'
    <2>1. /\ checker[s] = "releasing" /\ next[s] <= unused[s] /\ Release(s, names[s][next[s]])
          /\ next' = [next EXCEPT ![s] = @ + 1]
          /\ UNCHANGED <<stage, names, kept, checker, unused, crashed>>
      BY <1>7 DEF CheckerReleases
    <2>2. next[s] \in 1 .. Len(names[s])
      BY <1>b, <2>1 DEF Between
    <2>3. names[s][next[s]] \in Resource /\ names[s][next[s]] \in ToSet(names[s])
      BY <1>b, <2>2 DEF ToSet
    <2>4. /\ server' \subseteq Resource /\ storage' \subseteq Resource
          /\ leases' \in [Resource -> PoolStep \cup {NoStep}]
          /\ returned' \in [PoolStep -> SUBSET Resource]
          /\ returned'[s] = returned[s] \cup {names[s][next[s]]}
          /\ \A t \in PoolStep \ {s} : returned'[t] = returned[t]
      BY <2>1, <2>3, Releases
    <2>5. /\ next' \in [PoolStep -> Nat \ {0}] /\ next'[s] = next[s] + 1
          /\ \A t \in PoolStep \ {s} : next'[t] = next[t]
      BY <1>t, <2>1 DEF PoolTypes
    <2>6. PoolTypes'
      BY <1>t, <2>1, <2>4, <2>5 DEF PoolTypes
    <2>7. Others(s)
      BY <2>1, <2>4, <2>5 DEF Others
    <2>8. \A i \in 1 .. next'[s] - 1 : names[s][i] \in returned'[s]
      <3>1. \A i \in 1 .. next'[s] - 1 : i \in 1 .. next[s] - 1 \/ i = next[s]
        BY <1>b, <2>5
      <3>2. QED BY <1>b, <2>4, <3>1 DEF Between
    <2>9. next'[s] <= Len(names[s]) + 1
      BY <1>b, <2>2, <2>5
    <2>10. Between(s)'
      BY <1>b, <2>1, <2>3, <2>4, <2>8, <2>9 DEF Between
    <2>11. QED BY <2>6, <2>7, <2>10, OthersKept
  <1>8. ASSUME NEW s \in PoolStep, CheckerOffers(s) PROVE PoolInv'
    <2>1. /\ checker[s] = "releasing" /\ next[s] > unused[s]
          /\ UNCHANGED <<server, storage, leases, stage, names, kept, unused, next, returned>>
      BY <1>8 DEF CheckerOffers, poolClient
    <2>2. CASE unused[s] >= 0 /\ checker' = [checker EXCEPT ![s] = "offering"] /\ UNCHANGED crashed
      <3>1. checker' \in [PoolStep -> {"none", "checking", "releasing", "offering", "gone"}]
            /\ checker'[s] = "offering" /\ \A t \in PoolStep \ {s} : checker'[t] = checker[t]
        BY <1>t, <2>2 DEF PoolTypes
      <3>2. PoolTypes'
        BY <1>t, <2>1, <2>2, <3>1 DEF PoolTypes
      <3>3. Others(s)
        BY <2>1, <3>1 DEF Others
      <3>4. Between(s)'
        BY <1>b, <2>1, <2>2, <3>1 DEF Between
      <3>5. QED BY <3>2, <3>3, <3>4, OthersKept
    <2>3. CASE crashed' = TRUE /\ UNCHANGED checker
      <3>1. PoolTypes'
        BY <1>t, <2>1, <2>3 DEF PoolTypes
      <3>2. \A t \in PoolStep : Between(t)'
        BY <2>1, <2>3 DEF PoolInv, Between
      <3>3. QED BY <3>1, <3>2 DEF PoolInv
    <2>4. QED BY <1>8, <2>2, <2>3 DEF CheckerOffers
  <1>9. CASE UNCHANGED poolVars
    BY <1>9 DEF poolVars, PoolInv, PoolTypes, Between
  <1>10. 0 \in -1 .. Count + 1
    BY PoolAssumption
  <1>11. QED
    BY <1>1, <1>2, <1>3, <1>4, <1>5, <1>6, <1>7, <1>8, <1>9, <1>10 DEF PoolNext, PoolStepAction, Checker

\* Nothing is leased.
LEMMA PoolInitially == PoolInit => PoolInv
  <1> SUFFICES ASSUME PoolInit PROVE PoolInv
    OBVIOUS
  <1>1. PoolTypes
    <2>1. <<>> \in Seq(Resource)
      OBVIOUS
    <2>2. names \in [PoolStep -> Seq(Resource)] /\ kept \in [PoolStep -> Seq(Resource)]
      BY <2>1 DEF PoolInit
    <2>3. unused \in [PoolStep -> Int] /\ next \in [PoolStep -> Nat \ {0}]
      BY DEF PoolInit
    <2>4. QED BY <2>2, <2>3 DEF PoolInit, PoolTypes
  <1>2. ASSUME NEW s \in PoolStep PROVE Between(s)
    <2>1. /\ stage[s] = "acquiring" /\ checker[s] = "none" /\ next[s] = 1 /\ unused[s] = 0
          /\ names[s] = <<>> /\ kept[s] = <<>> /\ returned[s] = {}
      BY DEF PoolInit
    <2>2. Len(<<>>) = 0
      OBVIOUS
    <2>3. QED BY <2>1, <2>2, NoMembers DEF Between
  <1>3. QED BY <1>1, <1>2 DEF PoolInv

\* At the end nothing is kept, so that everything was returned.
LEMMA PoolInvGivesReturned == PoolInv => EveryLeaseIsReturned
  <1> SUFFICES ASSUME PoolInv, NEW s \in PoolStep, stage[s] = "done", checker[s] # "none"
               PROVE  returned[s] = ToSet(names[s])
    BY DEF EveryLeaseIsReturned
  <1>1. ToSet(names[s]) \subseteq returned[s] \cup ToSet(kept[s]) /\ kept[s] = <<>>
        /\ returned[s] \subseteq ToSet(names[s])
    BY DEF PoolInv, Between
  <1>2. QED BY <1>1, NoMembers

\* A step that was given its leases does not end before each of them was released,
\* by itself or by its checker, for every pool, every count and every schedule.
THEOREM LeasesReturned == PoolSpec => []EveryLeaseIsReturned
  <1>1. PoolInit => PoolInv
    BY PoolInitially
  <1>2. PoolInv /\ [PoolNext]_poolVars => PoolInv'
    BY PoolInductive
  <1>3. QED BY <1>1, <1>2, PoolInvGivesReturned, PTL DEF PoolSpec
=============================================================================
