----------------------------- MODULE Debouncer -----------------------------
(***************************************************************************)
(* The Debouncer of lib.js.  timer says that its timer is set, skipped     *)
(* that numCallsSkipped is not 0.                                          *)
(***************************************************************************)

Debouncers == [timer : BOOLEAN, skipped : BOOLEAN]

Idle == [timer |-> FALSE, skipped |-> FALSE]

\* Mutant: a call that comes while the timer is set is forgotten.
SkippedForgotten(d) == d

\* run while the timer is set: the function is not called.
Skipped(d) == [d EXCEPT !.skipped = TRUE]

\* run otherwise: the timer is set after the function was called, and so is not
\* when the function throws.
Ran(threw) == [timer |-> ~threw, skipped |-> FALSE]
=============================================================================
