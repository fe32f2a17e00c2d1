------------------------------ MODULE MCBroker ------------------------------
EXTENDS Broker, TLC

CONSTANTS t1, f1

\* f1 names one topic, any other filter is a wildcard over all of them.
MCAccepts == [f \in Filter |-> IF f = f1 THEN {t1} ELSE Topic]
MCLength == [t \in Topic |-> 1]
Symmetry == Permutations(Client) \cup Permutations(Message)

\* Sound where no filter names one topic.
TopicSymmetry == Symmetry \cup Permutations(Topic)
=============================================================================
