------------------------------ MODULE MCWorker ------------------------------
(* Instances of Worker for TLC.                                            *)
EXTENDS Worker

CONSTANTS big, small

BigFirst   == [p \in {big, small} |-> IF p = big THEN 1 ELSE 2]
OnlyBig    == {big}
NobodyWaits == [p \in {big, small} |-> 0]
SmallWaits  == [p \in {big, small} |-> IF p = small THEN 1 ELSE 0]
OneSeat     == {[p \in {big, small} |-> 1]}
SeatsMove   == {[p \in {big, small} |-> IF p = big THEN 2 ELSE 0], [p \in {big, small} |-> 1]}
OnOff       == {[p \in {big, small} |-> 1], [p \in {big, small} |-> IF p = big THEN 1 ELSE 0]}
InStep      == {0}
Behind      == {0, -1}
=============================================================================
