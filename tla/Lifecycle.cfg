\* main with every choice of configured tasks; the state space is finite as it is.
SPECIFICATION FairSpec
INVARIANTS TypeOK NoOrphanTask SubTaskInSession JoinsAtLastAwait
PROPERTY ExitsUnlessSwallowed
CHECK_DEADLOCK FALSE
