------------------------------ MODULE MCBridge -------------------------------
(* A feed for the run of Bridge.                                            *)
EXTENDS Bridge, TLC

CONSTANTS g1, g2, c1, c2

\* The second item is corrected under its guid to the text of the first.
CorrectedGuids    == <<g1, g2, g2>>
CorrectedContents == <<c1, c2, c1>>
=============================================================================
