-------------------------- MODULE MCGenericProto ---------------------------
EXTENDS GenericProto

CONSTANTS p1, p2

Instance(ps, n, m, i) == [peers |-> ps, max_events |-> n, max_out |-> m, max_index |-> i]

\* One peer with several commands, or several events of its handler, or several
\* incoming connections under way; and two peers at the same time.
Setups_all == {Instance({p1}, 3, 1, 2), Instance({p1}, 1, 2, 2), Instance({p1}, 1, 1, 3), Instance({p1, p2}, 1, 0, 2)}
Setups_live == {Instance({p1}, 2, 1, 2)}
=============================================================================
