---------------------------- MODULE MCRcvLossList ----------------------------
EXTENDS RcvLossList

\* The last call has no effect on later ones; a step's property still sees it.
ListView == <<rcvFirst, rcvFlight, rcvList>>
=============================================================================
