--------------------------- MODULE MCWindowPipeline ---------------------------
(***************************************************************************)
(* Small instances of run_windows: which records each window returns, and  *)
(* their times.                                                            *)
(***************************************************************************)
EXTENDS WindowPipeline

\* Windows 1 and 2 share the record "ab", published on the instant they meet
\* in; window 3 has a record of its own.
SharedKeys == {"a", "ab", "c"}
SharedKeysOf == <<{"a", "ab"}, {"ab"}, {"c"}>>
SharedTimeOf == [k \in SharedKeys |-> CASE k = "a" -> 1 [] k = "ab" -> 2 [] k = "c" -> 3]

\* More windows than workers, the third one always empty.
LongKeys == {"a", "ab", "d"}
LongKeysOf == <<{"a", "ab"}, {"ab"}, {}, {"d"}, {"d"}>>
LongTimeOf == [k \in LongKeys |-> CASE k = "a" -> 1 [] k = "ab" -> 2 [] k = "d" -> 3]
=============================================================================
