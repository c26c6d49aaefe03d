------------------------------ MODULE CopySet ------------------------------
(***************************************************************************)
(* What a coherence protocol promises about one memory location, with no   *)
(* directory, counters or costs: which processors hold the last written    *)
(* value, and whether memory holds it.  A store may leave copies with other *)
(* processors only if Updates is TRUE (a write-update protocol); with      *)
(* Updates FALSE it is the single-writer, multiple-reader rule.  The value *)
(* is never lost: when the last copy goes, memory is current.              *)
(***************************************************************************)
CONSTANTS Procs, Updates

VARIABLES
  copies,     \* the processors that hold the last written value
  memory      \* "current" or "stale"

copyVars == <<copies, memory>>

Init == copies = {} /\ memory = "current"

Load(p) ==
  /\ copies' = copies \cup {p}
  /\ memory' = IF p \in copies THEN memory ELSE "current"

Store(p) ==
  \E S \in SUBSET Procs :
    /\ p \in S
    /\ Updates \/ S = {p}
    /\ copies' = S
    /\ memory' = "stale"

Drop(S) ==
  /\ copies' = copies \ S
  /\ memory' \in {memory, "current"}
  /\ copies' = {} => memory' = "current"

Next ==
  \/ \E p \in Procs : Load(p) \/ Store(p)
  \/ \E S \in SUBSET Procs : Drop(S)

Spec == Init /\ [][Next]_copyVars

-----------------------------------------------------------------------------
\* The last written value exists somewhere: while memory is stale, some
\* processor holds it, and exactly one does under the invalidation rule.
NeverLost ==
  memory = "stale" =>
    /\ copies # {}
    /\ ~Updates => \E p \in Procs : copies = {p}

=============================================================================
