----------------------------- MODULE MCRegistry -----------------------------
EXTENDS Registry, TLC

CONSTANTS a1, a2, r1

AProvider == [name |-> "n1", url |-> "u1", key |-> "k1", enabled |-> TRUE]
AModel == [provider |-> 1, public |-> <<"n1", "i1">>, price |-> 1, enabled |-> TRUE]

ProviderEdits == {[url |-> "u2"], [key |-> "k2"], [name |-> "n2"], [enabled |-> FALSE]}
\* The first one puts an imported model online.
ModelEdits == {[price |-> 1, enabled |-> TRUE], [enabled |-> FALSE], [provider |-> 2]}
SwitchEdits == {[enabled |-> TRUE], [enabled |-> FALSE]}

NewChannels == {[AProvider EXCEPT !.url = "u2"], [AProvider EXCEPT !.name = "n2"]}
NewPublicModels == {[AModel EXCEPT !.public = <<"n1", "i2">>],
                    [AModel EXCEPT !.public = <<"n2", "i1">>, !.provider = 2],
                    [AModel EXCEPT !.price = None]}

\* A bound: the more edits there have been, the fewer of the request, the
\* syncer and the monitor are under way at the same time.
FewAtOnce == edits + Cardinality({c \in Callers : job[c] # Waiting}) <= 3

Symmetry == Permutations({a1, a2})
=============================================================================
