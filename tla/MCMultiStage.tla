---------------------------- MODULE MCMultiStage ----------------------------
(***************************************************************************)
(* Instances of MultiStage: at most two steps per phase, of which some are *)
(* optional or best-effort, with or without an observer.                   *)
(***************************************************************************)
EXTENDS MultiStage

CONSTANTS pre1, pre2, test1, post1, post2, watcher

Pods == {pre1, pre2, test1, post1, post2, watcher}

Test(pre, test, post, observers, optional, bestEffort) ==
    [pre |-> pre, test |-> test, post |-> post,
     observers |-> observers, optional |-> optional, bestEffort |-> bestEffort]

\* Without an observer: two steps before the test, of which the first may fail, or
\* two after it, of which one is optional.  With one: a step in each of the phases
\* before the tear-down, or one after it.
SomeTests ==
    {Test(<<pre1, pre2>>, <<test1>>, <<post1>>, {}, {post1}, {pre1}),
     Test(<<pre1>>, <<test1>>, <<post1, post2>>, {}, {post1}, {}),
     Test(<<pre1>>, <<test1>>, <<>>, {watcher}, {}, {}),
     Test(<<>>, <<>>, <<post1>>, {watcher}, {}, {})}

\* A test whose only step before the tear-down is quick.
Observed == {Test(<<pre1>>, <<>>, <<post1>>, {watcher}, {}, {})}
=============================================================================
