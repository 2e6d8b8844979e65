-------------------------------- MODULE Link --------------------------------
(***************************************************************************)
(* What the channels rely on: there is one connection, it goes up and down,*)
(* and m_state is OPENED only while it is up or its end has not been       *)
(* handled yet.                                                            *)
(***************************************************************************)
VARIABLES
  link,      \* "down", "open", or "closing": up, but nothing can be sent
  published  \* m_state is OPENED

vars == <<link, published>>

Init == link = "down" /\ published = FALSE

Open == link = "down" /\ link' = "open" /\ UNCHANGED published

Lose == link = "open" /\ link' = "closing" /\ UNCHANGED published

Publish == link # "down" /\ published' = TRUE /\ UNCHANGED link

Down == link # "down" /\ link' = "down" /\ published' = FALSE

Next == Open \/ Lose \/ Publish \/ Down

Spec == Init /\ [][Next]_vars

=============================================================================
