------------------------------ MODULE LinkNews ------------------------------
(***************************************************************************)
(* What the event loop, the queue and the manager's handlers together do   *)
(* with the state of the station's link: all news of it reaches the        *)
(* manager, each piece once and in the order in which the link changed.    *)
(* WifiManager implements this with a driver's event, a task that waits to *)
(* post, a queue shared with every other message, and two handlers.        *)
(***************************************************************************)
EXTENDS Naturals, Sequences

VARIABLES link,     \* the station is connected
          news,     \* changes the manager has not been told of, oldest first
          belief    \* what the manager takes the link to be

vars == <<link, news, belief>>

Init == link = FALSE /\ news = << >> /\ belief = FALSE

\* The link comes up; or it goes down, or an attempt to bring it up fails.
ComesUp ==
  /\ ~link
  /\ link' = TRUE
  /\ news' = Append(news, "up")
  /\ UNCHANGED belief

GoesDown ==
  /\ link' = FALSE
  /\ news' = Append(news, "down")
  /\ UNCHANGED belief

ManagerIsTold ==
  /\ news # << >>
  /\ belief' = (Head(news) = "up")
  /\ news' = Tail(news)
  /\ UNCHANGED link

Reset == link' = FALSE /\ news' = << >> /\ belief' = FALSE

Next == ComesUp \/ GoesDown \/ ManagerIsTold \/ Reset

Spec == Init /\ [][Next]_vars
=============================================================================
