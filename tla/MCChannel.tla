------------------------------ MODULE MCChannel ------------------------------
(* Instances of PhoenixChannel for TLC. *)
EXTENDS PhoenixChannel, TLC

\* All channels are on one topic, or each has its own.
OneTopic == [c \in Channel |-> "lobby"]
OwnTopic == [c \in Channel |-> c]

BothHooks == {Status}
AnyHooks == SUBSET Status
Yes == {TRUE}
No == {FALSE}
Either == BOOLEAN

Symmetry == Permutations(Thread) \cup Permutations(PushId)
ChannelSymmetry == Symmetry \cup Permutations(Channel)

=============================================================================
