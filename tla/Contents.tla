------------------------------ MODULE Contents ------------------------------
(***************************************************************************)
(* What COILibData promises about the contents of one data set on the      *)
(* device: LoadData and ReplaceData give it new data, which are there      *)
(* whole once they return normally, and stay; until then, and after an     *)
(* exception, nothing is said of them.  What is exported is what the       *)
(* device holds.  A failure that nobody looked at may leave new data       *)
(* incomplete, or a file unknown.  There are no queue, no segments and no  *)
(* host memory here.                                                       *)
(***************************************************************************)
VARIABLES
  state,         \* "none" (no data set), "changing" or "whole"
  exported       \* what was exported last: "nothing", the "current" data, "other",
                 \* or "unknown"

Init == state = "none" /\ exported = "nothing"

\* New data make what was exported before old.
Change ==
  /\ state' = "changing"
  /\ exported' = IF exported = "current" THEN "other" ELSE exported

Complete == state = "changing" /\ state' = "whole" /\ UNCHANGED exported

Lose == state' = "none" /\ UNCHANGED exported

Export ==
  /\ \/ state = "whole" /\ exported' = "current"
     \/ state = "changing" /\ exported' \in {"current", "other"}
     \/ state # "none" /\ exported' = "unknown"
  /\ UNCHANGED state

Next == Change \/ Complete \/ Lose \/ Export

Spec == Init /\ [][Next]_<<state, exported>>
=============================================================================
