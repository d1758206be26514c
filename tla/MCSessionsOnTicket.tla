------------------------- MODULE MCSessionsOnTicket -------------------------
(* A start and two retakes, on the same ticket or on two.                  *)
EXTENDS SessionsOnTicket

CONSTANTS start, retake1, retake2, t1, t2

MCCalls == {start, retake1, retake2}
MCRetakes == {retake1, retake2}
MCTickets == {t1, t2}

Symmetry == Permutations(MCRetakes) \cup Permutations(MCTickets)
=============================================================================
