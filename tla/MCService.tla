------------------------------ MODULE MCService ------------------------------
(* Service for TLC: the unit and one process started by hand; config.toml is first *)
(* usable, then cannot be loaded, then is usable with another listen_port.         *)
EXTENDS Service

CONSTANTS unit, hand, eth

Listen(version) == IF version < 2 THEN 9600 ELSE 9601

\* There is a default route at first; it may move away.
InitOnline == Init /\ ext # None
FairSpecOnline == InitOnline /\ [][Next]_vars /\ Fairness

=============================================================================
