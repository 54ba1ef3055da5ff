------------------------------- MODULE LossSet -------------------------------
(***************************************************************************)
(* What a loss list promises: it is a set of sequence numbers out of the   *)
(* current window, and the smallest one can be read and taken.  Both       *)
(* CSndLossList and CRcvLossList implement it with an array of ranges.     *)
(***************************************************************************)
EXTENDS LossWindow

VARIABLES first,   \* m_iSndLastDataAck, m_iRcvLastAck
          flight,  \* how many numbers the window has
          lost,    \* the numbers in the list
          call     \* the last call: its name, arguments and answer

lossVars == <<first, flight, lost, call>>

LossInit == first \in SeqNos /\ flight = 0 /\ lost = {} /\ call = <<"create">>

\* The window grows by n numbers that are not lost.
Grow(n) ==
    /\ call' = <<"grow", n>>
    /\ flight' = flight + n
    /\ UNCHANGED <<first, lost>>

\* A stretch is reported lost.  At the receiver it is the gap before the
\* packet that came in, so the window grows by the gap and that packet.
Report(i, j) ==
    /\ call' = <<"insert", Number(first, i), Number(first, j)>>
    /\ lost' = lost \cup Span(first, i, j)
    /\ flight' \in {flight, flight + (j - i) + 2}
    /\ UNCHANGED first

\* A stretch is no longer to be waited for; a drop request of the peer may
\* end the window with it, and one of its own also skips the next number.
Forget(i, j) ==
    /\ call' = <<"remove", Number(first, i), Number(first, j)>>
    /\ lost' = lost \ Span(first, i, j)
    /\ flight' \in {flight, j + 1, j + 2}
    /\ UNCHANGED first

TakeFirst ==
    \E n \in 0 .. (flight - 1) :
        /\ call' = <<"take", Number(first, n)>>
        /\ Number(first, n) \in lost /\ Span(first, 0, n - 1) \cap lost = {}
        /\ lost' = lost \ {Number(first, n)}
        /\ UNCHANGED <<first, flight>>

\* The window moves up over n numbers, lost or not.
Slide(n) ==
    /\ call' = <<"slide", n>>
    /\ first' = Number(first, n) /\ flight' = flight - n
    /\ lost' = lost \ Span(first, 0, n - 1)

\* The call's name says which of them a step is.
LossNext ==
    CASE call'[1] = "take" -> TakeFirst
      [] call'[1] = "grow" -> \E n \in 1 .. Window : Grow(n)
      [] call'[1] = "insert" -> \E i, j \in 0 .. Window : i <= j /\ Report(i, j)
      [] call'[1] = "remove" -> \E i, j \in 0 .. Window : i <= j /\ Forget(i, j)
      [] call'[1] = "slide" -> \E n \in 0 .. flight : Slide(n)
      [] OTHER -> FALSE

LossSpec == LossInit /\ [][LossNext]_lossVars
=============================================================================
