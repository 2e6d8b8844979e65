--------------------------- MODULE PushLifecycle ---------------------------
(***************************************************************************)
(* What a channel promises to the caller of                                *)
(*   channel.push(..).receive(status, hook).start(..)                      *)
(* without refs, tables, threads or connections: the hooks of a push run   *)
(* for at most one message, that message is a reply of the server to this  *)
(* very push, and a push that was given up is never answered later.        *)
(***************************************************************************)
CONSTANT PushId

VARIABLES
  stage,    \* where each push is in its life
  replies   \* the pushes for which a reply of the server is on its way

vars == <<stage, replies>>

Stage == {"unborn", "pending", "answered", "lost"}

TypeOK == stage \in [PushId -> Stage] /\ replies \subseteq PushId

Init == stage = [p \in PushId |-> "unborn"] /\ replies = {}

\* The caller starts to wait for a reply, or is told that it cannot.
Issue(p) ==
  /\ stage[p] = "unborn"
  /\ stage' = [stage EXCEPT ![p] = "pending"]
  /\ UNCHANGED replies

Refuse(p) ==
  /\ stage[p] = "unborn"
  /\ stage' = [stage EXCEPT ![p] = "lost"]
  /\ UNCHANGED replies

\* The server replies, perhaps again, perhaps to a push that was given up.
ServerReplies(p) ==
  /\ stage[p] # "unborn"
  /\ replies' = replies \cup {p}
  /\ UNCHANGED stage

\* The hooks run.  The reply may have been the last one on its way.
Answer(p) ==
  /\ stage[p] = "pending" /\ p \in replies
  /\ stage' = [stage EXCEPT ![p] = "answered"]
  /\ replies' \subseteq replies

\* Pushes are given up (offId, removeChannel, an exception), replies are lost.
GiveUp(S) ==
  /\ \A p \in S : stage[p] = "pending"
  /\ stage' = [p \in PushId |-> IF p \in S THEN "lost" ELSE stage[p]]
  /\ replies' \subseteq replies

Next ==
  \/ \E p \in PushId : Issue(p) \/ Refuse(p) \/ ServerReplies(p) \/ Answer(p)
  \/ \E S \in SUBSET PushId : GiveUp(S)

Spec == Init /\ [][Next]_vars

=============================================================================
