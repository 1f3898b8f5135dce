--------------------------- MODULE MCBasePrograms ---------------------------
(* TLC instance of BasePrograms: speeds up to two, so that turning and       *)
(* driving combine.                                                          *)
EXTENDS BasePrograms

(* Neither program sets joint parameters.                                    *)
NoReverse == [w \in Wheels |-> FALSE]
=============================================================================
