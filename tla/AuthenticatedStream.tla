------------------------- MODULE AuthenticatedStream -------------------------
(***************************************************************************)
(* What the link layer promises the packets it carries: messages arrive in *)
(* the order in which they were sent, each once, until the stream breaks;  *)
(* and it breaks only if someone disturbed it.                             *)
(***************************************************************************)
EXTENDS Naturals

VARIABLES sent, received, disturbed, broken

vars == <<sent, received, disturbed, broken>>

Init ==
  /\ sent = 0
  /\ received = 0
  /\ disturbed = FALSE
  /\ broken = FALSE

Send ==
  /\ sent' = sent + 1
  /\ UNCHANGED <<received, disturbed, broken>>

Deliver ==
  /\ ~broken
  /\ received < sent
  /\ received' = received + 1
  /\ UNCHANGED <<sent, disturbed, broken>>

Disturb ==
  /\ disturbed' = TRUE
  /\ UNCHANGED <<sent, received, broken>>

Break ==
  /\ disturbed
  /\ broken' = TRUE
  /\ UNCHANGED <<sent, received, disturbed>>

Next == Send \/ Deliver \/ Disturb \/ Break

Spec == Init /\ [][Next]_vars
=============================================================================
