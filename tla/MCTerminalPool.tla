--------------------------- MODULE MCTerminalPool ---------------------------
(* TerminalPool with few terminals and few configurations.                 *)
EXTENDS TerminalPool, TLC

Conf(e, min, max, t) ==
  [enabled |-> e, minPoolSize |-> min, maxPoolSize |-> max, timeout |-> t]

(* The pool is switched on and off, its sizes stay.                        *)
SwitchConfigs == {Conf(e, 2, 3, t) : e \in BOOLEAN, t \in BOOLEAN}

TerminalSymmetry == Permutations(Terminals)
=============================================================================
