----------------------------- MODULE MCRssPoller -----------------------------
(* Feeds for the runs of RssPoller.                                         *)
EXTENDS RssPoller, TLC

CONSTANTS g1, g2, g3, g4, g5, c1, c2, c3

\* Every item has its own guid; the third repeats the second and the fourth has
\* an empty title.
FeedGuids    == <<g1, g2, g3, g4, g5>>
FeedContents == <<c1, c2, c2, NoTitle, c3>>
=============================================================================
