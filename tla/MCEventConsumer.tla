-------------------------- MODULE MCEventConsumer ---------------------------
\* Instances of EventConsumer for TLC.
EXTENDS EventConsumer, TLC

\* Handlers, and the events that are well-formed, are interchangeable.
MCSymmetry == Permutations(Handlers) \union Permutations(Events \ Malformed)
=============================================================================
