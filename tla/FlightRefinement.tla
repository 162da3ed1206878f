-------------------------- MODULE FlightRefinement --------------------------
(***************************************************************************)
(* How the flights of the coordinator are the waiting lines of             *)
(* SingleFlight: the line of an input is the leader of its flight followed *)
(* by the followers.                                                       *)
(***************************************************************************)
EXTENDS PrefixCacheFlight

CrewOf(flight) == <<flight.leader>> \o flight.followers

\* The abstract line of an input.
LineOf(i) ==
  IF exact_input_index[i] = NoFlight THEN <<>> ELSE CrewOf(flights[exact_input_index[i]])

Abstract == INSTANCE SingleFlight WITH
  line <- [i \in Inputs |-> LineOf(i)],
  released <- released_request_ids

\* Every step of the coordinator is a step of the waiting lines of SingleFlight:
\* promotion takes the oldest follower, a release frees exactly the line of the
\* leader and once, and no request joins a line that was already released.
ImplementsSingleFlight == Abstract!Spec
=============================================================================
