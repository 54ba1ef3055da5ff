------------------------------ MODULE MCUnited ------------------------------
EXTENDS United

CONSTANTS a1, a2

\* Two threads in accept(); one, that polls the listener and does not block;
\* one, with connections that break (in both, making one can fail); a connect
\* next to the listener, and sockets that linger; a connect that is polled, lingers and breaks.
Listens == [opened |-> 1, acceptors |-> {}, blocking |-> TRUE, polls |-> {},
             listens |-> TRUE, connects |-> FALSE, lingers |-> FALSE, breaks |-> 0,
             fails |-> FALSE]

MCPlans ==
    {[Listens EXCEPT !.acceptors = {a1, a2}],
     [Listens EXCEPT !.acceptors = {a1}, !.blocking = FALSE, !.polls = {3},
                   !.fails = TRUE],
     [Listens EXCEPT !.acceptors = {a1}, !.breaks = 1, !.fails = TRUE],
     [Listens EXCEPT !.opened = 2, !.connects = TRUE, !.lingers = TRUE],
     [Listens EXCEPT !.listens = FALSE, !.connects = TRUE, !.polls = {3},
                   !.lingers = TRUE, !.breaks = 1]}
=============================================================================
