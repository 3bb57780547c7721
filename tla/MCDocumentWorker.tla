-------------------------- MODULE MCDocumentWorker --------------------------
(* DocumentWorker for TLC: the two extractors of _load's race.             *)
EXTENDS DocumentWorker

CONSTANTS e1, e2

TwoExtractors == {e1, e2}
=============================================================================
