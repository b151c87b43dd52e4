------------------------------ MODULE MCScreens ------------------------------
(* Small instances of every view.  Two values stand for rows, messages     *)
(* with HTML, rulesets, domains and panels, and are interchangeable.       *)
EXTENDS Screens, TLC

\* The two values, and a message with text.
CONSTANTS v1, v2, v3

ViewSymmetry == Permutations({v1, v2})
=============================================================================
