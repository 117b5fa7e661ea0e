--------------------------- MODULE MCEventClientEnds ---------------------------
(* The two ways an event client comes to its end by itself: losing its     *)
(* connection with nobody to reconnect it, and CloseIfIdle, as the         *)
(* reference of a channel calls it. Which calls are made is chosen at the  *)
(* start.                                                                  *)
EXTENDS EventClient

WhenLost == INSTANCE EventClient WITH Calls <- {"connect", "transfer"}

\* CloseIfIdle against Connect, registrations and the first connection, which does not fail:
\* the faults there may be are used up.
WhenIdle == INSTANCE EventClient WITH
  Calls <- {"connect", "register", "unregister", "closeIfIdle"}, UserChan <- FALSE,
  faults <- faults - MaxFaults

MCInit == WhenLost!Init \/ (faults = MaxFaults /\ WhenIdle!Init)
MCSpec ==
  /\ MCInit /\ [][Next]_vars
  /\ \A t \in Threads : WF_vars(Thread(t))
  /\ WF_vars(Dispatcher) /\ WF_vars(Monitor)
  /\ \A c \in Conns : WF_vars(Receive(c))

\* As long as nobody closes the client, all calls are answered, and a client that was told
\* to stop lets go of its dispatcher and with it of all registrations.
Answered == {"connect", "register", "closeIfIdle"}
CallsEnd ==
  /\ (\E c \in Answered : Running(c))
       ~> (stopped \/ panicked \/ \A c \in Answered : ~Running(c))
  /\ StopsDispatcher
=============================================================================
