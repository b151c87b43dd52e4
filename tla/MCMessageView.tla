---------------------------- MODULE MCMessageView ----------------------------
EXTENDS MessageView, TLC

CONSTANTS m1, m2, m3

\* Two messages with an HTML body are interchangeable.
HtmlSymmetry == Permutations({m1, m2})
=============================================================================
