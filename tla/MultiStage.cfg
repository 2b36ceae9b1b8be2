CONSTANTS
    pre1 = pre1
    pre2 = pre2
    test1 = test1
    post1 = post1
    post2 = post2
    watcher = watcher
    Pod <- Pods
    Tests <- SomeTests
SPECIFICATION Spec
INVARIANTS PostAlwaysRuns OneAtATime NothingLeftAtWork
PROPERTY TestReturns
