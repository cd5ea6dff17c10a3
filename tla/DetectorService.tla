--------------------------- MODULE DetectorService ---------------------------
(***************************************************************************)
(* What an acquisition server promises to its clients, one at a time: the  *)
(* detector belongs to one connection, which gets at most the frames it    *)
(* asked for, and gives the detector back only when it has had them all or *)
(* when somebody stopped it or its client left.                            *)
(***************************************************************************)
EXTENDS Naturals

CONSTANTS
  Conns,     \* the connections, each of which asks for frames at most once
  None,      \* not a connection
  Requests   \* the numbers of frames one may ask for, all positive

VARIABLES
  owner,        \* the connection the detector is acquiring for, or None
  asked,        \* frames each connection asked for, 0 before it starts
  delivered,    \* frames each connection was given
  interrupted   \* connections that were stopped or whose client left

vars == <<owner, asked, delivered, interrupted>>

Init ==
  /\ owner = None
  /\ asked = [c \in Conns |-> 0]
  /\ delivered = [c \in Conns |-> 0]
  /\ interrupted = {}

\* A free detector starts to work for a connection that never had it.
Begin(c) ==
  /\ owner = None
  /\ asked[c] = 0
  /\ owner' = c
  /\ \E n \in Requests : asked' = [asked EXCEPT ![c] = n]
  /\ UNCHANGED <<delivered, interrupted>>

\* The owner may give the detector back when this holds.
Served(c, n, cuts) == n = asked[c] \/ c \in cuts

\* One more frame for the owner, which may be done with it.
Deliver(c) ==
  /\ owner = c
  /\ delivered[c] < asked[c]
  /\ delivered' = [delivered EXCEPT ![c] = @ + 1]
  /\ \/ owner' = owner
     \/ Served(c, delivered[c] + 1, interrupted) /\ owner' = None
  /\ UNCHANGED <<asked, interrupted>>

\* A connection that has started is stopped, or its client goes away.
Interrupt(c) ==
  /\ asked[c] > 0
  /\ interrupted' = interrupted \cup {c}
  /\ UNCHANGED <<owner, asked, delivered>>

\* The owner gives the detector back.
End(c) ==
  /\ owner = c
  /\ Served(c, delivered[c], interrupted)
  /\ owner' = None
  /\ UNCHANGED <<asked, delivered, interrupted>>

Next == \E c \in Conns : Begin(c) \/ Deliver(c) \/ Interrupt(c) \/ End(c)

Spec == Init /\ [][Next]_vars
=============================================================================
