---------------------------- MODULE MCRangefeed ----------------------------
(***************************************************************************)
(* Small ranges for TLC: two keys and two transactions, channels of        *)
(* capacity two, a replica at most one command behind.                     *)
(***************************************************************************)
EXTENDS Rangefeed

Nothing == [values |-> 0, abandoned |-> {2}, abort |-> {}, local |-> FALSE, gc |-> FALSE,
            leaseholder |-> FALSE, timeouts |-> 0, failures |-> 0, cancel |-> {}, disconnects |-> 0]
Scenario(plan, start, l) == [ts |-> <<2, 2>>, plan |-> plan, start |-> start, left |-> l]

\* One transaction on two keys, which misses its heartbeats, is aborted by the
\* rangefeed's push or by others, and goes on writing.
Zombie == Scenario(<<<<1, 2>>, <<>>>>, <<1>>,
                   [Nothing EXCEPT !.abort = {1}, !.abandoned = {1, 2}])
\* Two transactions write one key, the second one's coordinator is gone.
Rivals == Scenario(<<<<1>>, <<1>>>>, <<1>>, Nothing)
\* Both are abandoned, and a push attempt may fail.
Abandoned == Scenario(<<<<1>>, <<>>>>, <<1>>, [Nothing EXCEPT !.abandoned = {1, 2}, !.failures = 1])
\* On the leaseholder records go once their intents are resolved.
Leaseholder == Scenario(<<<<1>>, <<>>>>, <<1>>, [Nothing EXCEPT !.gc = TRUE, !.leaseholder = TRUE])
\* The record is on this range too: it goes with the intents on both keys.
OneRange == Scenario(<<<<1, 2>>, <<>>>>, <<1>>,
                     [Nothing EXCEPT !.local = TRUE, !.leaseholder = TRUE])
\* Two registrations and values; a client, or the range, goes away.
TwoStreams == Scenario(<<<<>>, <<>>>>, <<1, 1>>,
                       [Nothing EXCEPT !.abandoned = {1, 2}, !.values = 1, !.cancel = {1}])
Reconnect == Scenario(<<<<>>, <<>>>>, <<1, 2>>,
                      [Nothing EXCEPT !.abandoned = {1, 2}, !.values = 1, !.disconnects = 1])
\* The event channel stays full.
Slow == Scenario(<<<<1>>, <<>>>>, <<1>>, [Nothing EXCEPT !.timeouts = 1])

MCScenarios == {Zombie, Rivals, Abandoned, Leaseholder, OneRange, TwoStreams, Reconnect, Slow}

\* On a follower, a transaction that commits and removes its record at once.
MCFollower == {Scenario(<<<<1>>, <<>>>>, <<1>>, [Nothing EXCEPT !.local = TRUE])}
============================================================================
