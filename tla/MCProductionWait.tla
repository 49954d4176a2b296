-------------------------- MODULE MCProductionWait --------------------------
EXTENDS ProductionWait

CONSTANTS m, a, b, e, f

W(kind, targets, all, alertable, timed) ==
    [kind |-> kind, targets |-> targets, all |-> all, alertable |-> alertable, timed |-> timed,
     most |-> 0]

PortWait(n, timed) == [W("port", << >>, FALSE, FALSE, timed) EXCEPT !.most = n]

\* The main thread waits for any of an event and a thread, alertably and with a
\* timeout, for both without end, or for two packets without end
\* (GetQueuedCompletionStatusEx); the other one for a packet with a timeout.
MCWaits ==
    [t \in Threads |->
        IF t = m
        THEN {W("objects", <<e, a>>, FALSE, TRUE, TRUE), W("objects", <<e, a>>, TRUE, FALSE, FALSE),
              PortWait(2, FALSE)}
        ELSE {PortWait(1, TRUE)}]

\* An endless wait and an alertable one.
MCEndlessWaits ==
    [t \in Threads |->
        {W("objects", <<e>>, FALSE, FALSE, FALSE), W("objects", <<e>>, FALSE, TRUE, FALSE)}]

MCSleep == [t \in Threads |-> {W("sleep", << >>, FALSE, FALSE, TRUE)}]

MCJoin == [t \in Threads |-> {W("objects", <<a>>, FALSE, FALSE, FALSE)}]

MCAny == [t \in Threads |-> {W("objects", <<e, f>>, FALSE, FALSE, FALSE)}]

=============================================================================
