------------------------------ MODULE ItemLog ------------------------------
(***************************************************************************)
(* What a store of session items promises (the trait Session in            *)
(* agents-core/src/memory/session.rs): one list that only grows at its     *)
(* end, from which items are taken and which can be emptied.               *)
(***************************************************************************)
EXTENDS Naturals, SequencesExt

CONSTANT LogItems
VARIABLE log

Grow == IsPrefix(log, log') /\ log' \in Seq(LogItems)
Take == \E i \in 1..Len(log) : log' = RemoveAt(log, i)
Empty == log' = <<>>

LogInit == log = <<>>
LogSpec == LogInit /\ [][Grow \/ Take \/ Empty]_log
=============================================================================
