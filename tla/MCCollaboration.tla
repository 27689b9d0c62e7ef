--------------------------- MODULE MCCollaboration ---------------------------
\* Instances of Collaboration for TLC.
EXTENDS Collaboration

MCBoth == {TRUE, FALSE}
MCNever == {FALSE}
=============================================================================
