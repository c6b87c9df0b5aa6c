----------------------------- MODULE MCSpiffsVfs -----------------------------
EXTENDS SpiffsVfs, TLC

MCFlags == {{"creat"}, {"trunc"}, {"append"}}
MCSeeks == {<<"set", 1>>, <<"end", 0>>}
MCSymmetry == Permutations(Names) \cup Permutations(Values)

\* No call looks at what the call before it returned.
MCView == <<dir, objs, fds, cache>>
=============================================================================
