--------------------------- MODULE EmptinessCheck ---------------------------
(***************************************************************************)
(* What every decision backend of the translator promises: one verdict     *)
(* about the question "is some nonempty word accepted?".  renderVerdict in *)
(* Translator.scala prints the three outcomes as PROVED, NOT PROVED and    *)
(* UNKNOWN; the empty word plays no part in the answer, because the        *)
(* languages are subsets of Sigma^+.                                       *)
(*                                                                         *)
(* The backends (NativeCheck, ConflictSearch) are checked to implement     *)
(* this specification.                                                     *)
(***************************************************************************)

VARIABLES
    accepted,   \* is some nonempty word accepted?  Fixed by the input.
    verdict     \* "pending" until the backend answers

checkVars == <<accepted, verdict>>

CheckInit ==
    /\ accepted \in BOOLEAN
    /\ verdict = "pending"

Answer ==
    /\ verdict = "pending"
    /\ verdict' \in {"UNKNOWN", IF accepted THEN "NOT PROVED" ELSE "PROVED"}
    /\ UNCHANGED accepted

CheckSpec == CheckInit /\ [][Answer]_checkVars /\ WF_checkVars(Answer)

=============================================================================
