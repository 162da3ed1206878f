------------------------- MODULE PrefixCacheFlight -------------------------
(***************************************************************************)
(* The prefix-cache flight coordinator of one inference backend            *)
(* (execution/prefix_cache_flight.rs).  Requests with the same input form  *)
(* a flight: its leader executes, its followers wait until the leader has  *)
(* populated the prefix cache.  Other than in RefuseRequest, a call that   *)
(* returns Err changes nothing and appears here as a guard.                *)
(***************************************************************************)
EXTENDS Naturals, Sequences

CONSTANTS
  Requests,            \* request IDs
  Inputs,              \* distinct tokenized inputs
  InputOf,             \* the input each request carries
  CoordinationPolicy,  \* PrefixCacheCoordinationPolicy
  MaxFlightId,         \* the largest flight ID the counter can hold (u64::MAX)
  NoFlight             \* "no entry" in the two indexes below

CoordinationPolicies ==
  {"Independent", "UntilRequestCompletion", "UntilPrefixPublished"}

ASSUME FlightAssumption ==
  /\ InputOf \in [Requests -> Inputs]
  /\ CoordinationPolicy \in CoordinationPolicies
  /\ MaxFlightId \in Nat
  /\ NoFlight \notin Nat

VARIABLES
  next_flight_id,       \* counter of FlightId::next
  flights,              \* flight ID -> Flight
  request_flight_ids,   \* request -> its flight, or NoFlight
  exact_input_index,    \* input -> the flight that new requests join, or NoFlight
  released_request_ids  \* members of released flights that still run

flightVars == <<next_flight_id, flights, request_flight_ids,
                exact_input_index, released_request_ids>>

Flight == [input : Inputs, leader : Requests, followers : Seq(Requests)]

FlightTypeOK ==
  /\ next_flight_id \in 0 .. MaxFlightId
  /\ DOMAIN flights \subseteq Nat
  /\ \A f \in DOMAIN flights : flights[f] \in Flight
  /\ request_flight_ids \in [Requests -> Nat \cup {NoFlight}]
  /\ exact_input_index \in [Inputs -> Nat \cup {NoFlight}]
  /\ released_request_ids \subseteq Requests

FlightInit ==
  /\ next_flight_id = 0
  /\ flights = [f \in {} |-> {}]
  /\ request_flight_ids = [r \in Requests |-> NoFlight]
  /\ exact_input_index = [i \in Inputs |-> NoFlight]
  /\ released_request_ids = {}

-----------------------------------------------------------------------------
(* Queries *)

IsMember(r) == request_flight_ids[r] # NoFlight
IsRegistered(r) == IsMember(r) \/ r \in released_request_ids
FlightOf(r) == flights[request_flight_ids[r]]
IsLeader(r) == IsMember(r) /\ FlightOf(r).leader = r
IsFollower(r) == IsMember(r) /\ FlightOf(r).leader # r
Followers(flight) == {flight.followers[n] : n \in DOMAIN flight.followers}

\* requires_prefix_publication
RequiresPrefixPublication(r) ==
  CoordinationPolicy = "UntilPrefixPublished" /\ IsLeader(r)

\* Whether add_request makes r a follower.
JoinsFlight(r) == exact_input_index[InputOf[r]] # NoFlight

\* The same flight with another leader or other followers.
Crewed(flight, leader, followers) ==
  [input |-> flight.input, leader |-> leader, followers |-> followers]

\* VecDeque::remove of the first occurrence of r.
WithoutFollower(followers, r) ==
  LET first == CHOOSE n \in DOMAIN followers :
                 /\ followers[n] = r
                 /\ \A m \in DOMAIN followers : followers[m] = r => n <= m
  IN  [n \in 1 .. Len(followers) - 1 |->
         IF n < first THEN followers[n] ELSE followers[n + 1]]

-----------------------------------------------------------------------------
(* add_request *)

AddFollower(r) ==
  LET f == exact_input_index[InputOf[r]] IN
  /\ flights' = [flights EXCEPT ![f] = Crewed(@, @.leader, Append(@.followers, r))]
  /\ request_flight_ids' = [request_flight_ids EXCEPT ![r] = f]
  /\ UNCHANGED <<next_flight_id, exact_input_index, released_request_ids>>

\* Mutant: the counter is not checked.
AddFlightUnchecked(r) ==
  LET f == next_flight_id IN
  /\ next_flight_id' = next_flight_id + 1
  /\ flights' = [g \in DOMAIN flights \cup {f} |->
                   IF g = f THEN [input |-> InputOf[r], leader |-> r, followers |-> <<>>]
                            ELSE flights[g]]
  /\ request_flight_ids' = [request_flight_ids EXCEPT ![r] = f]
  /\ exact_input_index' = [exact_input_index EXCEPT ![InputOf[r]] = f]
  /\ UNCHANGED released_request_ids

AddFlight(r) ==
  LET f == next_flight_id IN
  /\ next_flight_id < MaxFlightId
  /\ next_flight_id' = next_flight_id + 1
  /\ flights' = [g \in DOMAIN flights \cup {f} |->
                   IF g = f THEN [input |-> InputOf[r], leader |-> r, followers |-> <<>>]
                            ELSE flights[g]]
  /\ request_flight_ids' = [request_flight_ids EXCEPT ![r] = f]
  /\ exact_input_index' = [exact_input_index EXCEPT ![InputOf[r]] = f]
  /\ UNCHANGED released_request_ids

AddRequest(r) ==
  /\ ~IsRegistered(r)
  /\ \/ JoinsFlight(r) /\ AddFollower(r)
     \/ ~JoinsFlight(r) /\ AddFlight(r)

\* add_request returns Err: a duplicate ID, or an exhausted flight counter.
RefuseRequest(r) ==
  /\ \/ IsRegistered(r)
     \/ ~JoinsFlight(r) /\ next_flight_id = MaxFlightId
  /\ UNCHANGED flightVars

-----------------------------------------------------------------------------
(* Releasing and removing *)

\* Mutant: the input stays indexed.
RemoveFlightKeepingIndex(f) ==
  LET members == {flights[f].leader} \cup Followers(flights[f]) IN
  /\ flights' = [g \in DOMAIN flights \ {f} |-> flights[g]]
  /\ UNCHANGED exact_input_index
  /\ request_flight_ids' =
       [r \in Requests |-> IF r \in members THEN NoFlight ELSE request_flight_ids[r]]

\* remove_flight
RemoveFlight(f) ==
  LET members == {flights[f].leader} \cup Followers(flights[f]) IN
  /\ flights' = [g \in DOMAIN flights \ {f} |-> flights[g]]
  /\ exact_input_index' = [exact_input_index EXCEPT ![flights[f].input] = NoFlight]
  /\ request_flight_ids' =
       [r \in Requests |-> IF r \in members THEN NoFlight ELSE request_flight_ids[r]]

\* release_followers: "running" is the leader while it is still active.
ReleaseFollowers(f, running) ==
  /\ RemoveFlight(f)
  /\ released_request_ids' = released_request_ids \cup running \cup Followers(flights[f])
  /\ UNCHANGED next_flight_id

\* release_after_prefix_publication; Ok without effect under request completion.
ReleaseAfterPrefixPublication(r) ==
  \/ /\ CoordinationPolicy = "UntilPrefixPublished"
     /\ IsLeader(r)
     /\ ReleaseFollowers(request_flight_ids[r], {r})
  \/ /\ CoordinationPolicy # "UntilPrefixPublished"
     /\ UNCHANGED flightVars

\* Mutant: the newest follower is promoted.
PromoteNewest(r) ==
  LET f == request_flight_ids[r] IN
  /\ flights[f].followers # <<>>
  /\ flights' = [flights EXCEPT ![f] =
                   Crewed(@, @.followers[Len(@.followers)],
                          SubSeq(@.followers, 1, Len(@.followers) - 1))]
  /\ request_flight_ids' = [request_flight_ids EXCEPT ![r] = NoFlight]
  /\ UNCHANGED <<next_flight_id, exact_input_index, released_request_ids>>

\* elect_next_leader and the removal of the aborted leader.
PromoteNextLeader(r) ==
  LET f == request_flight_ids[r] IN
  /\ flights[f].followers # <<>>
  /\ flights' = [flights EXCEPT ![f] = Crewed(@, Head(@.followers), Tail(@.followers))]
  /\ request_flight_ids' = [request_flight_ids EXCEPT ![r] = NoFlight]
  /\ UNCHANGED <<next_flight_id, exact_input_index, released_request_ids>>

RemoveFollower(r) ==
  LET f == request_flight_ids[r] IN
  /\ flights' = [flights EXCEPT ![f] = Crewed(@, @.leader, WithoutFollower(@.followers, r))]
  /\ request_flight_ids' = [request_flight_ids EXCEPT ![r] = NoFlight]
  /\ UNCHANGED <<next_flight_id, exact_input_index, released_request_ids>>

RemoveReleased(r) ==
  /\ r \in released_request_ids
  /\ released_request_ids' = released_request_ids \ {r}
  /\ UNCHANGED <<next_flight_id, flights, request_flight_ids, exact_input_index>>

\* remove_request(r, Completed)
RemoveCompleted(r) ==
  \/ RemoveReleased(r)
  \/ /\ r \notin released_request_ids
     /\ IsLeader(r)
     /\ ReleaseFollowers(request_flight_ids[r], {})

\* remove_request(r, Aborted)
RemoveAborted(r) ==
  \/ RemoveReleased(r)
  \/ /\ r \notin released_request_ids
     /\ IsLeader(r)
     /\ \/ PromoteNextLeader(r)
        \/ /\ FlightOf(r).followers = <<>>
           /\ RemoveFlight(request_flight_ids[r])
           /\ UNCHANGED <<next_flight_id, released_request_ids>>
  \/ /\ r \notin released_request_ids
     /\ IsFollower(r)
     /\ RemoveFollower(r)

\* Mutant: the promoted leader is not returned.
RunnableAfterAbortForgotten(r) == {}

\* The request IDs these calls return: the ones that become runnable.
RunnableAfterPublication(r) ==
  IF CoordinationPolicy = "UntilPrefixPublished" THEN Followers(FlightOf(r)) ELSE {}

RunnableAfterCompletion(r) ==
  IF r \in released_request_ids THEN {} ELSE Followers(FlightOf(r))

RunnableAfterAbort(r) ==
  IF r \notin released_request_ids /\ IsLeader(r) /\ FlightOf(r).followers # <<>>
  THEN {Head(FlightOf(r).followers)}
  ELSE {}

-----------------------------------------------------------------------------

\* The coordinator on its own: any call it accepts, in any order.
FlightNext ==
  \E r \in Requests :
    \/ AddRequest(r)
    \/ RefuseRequest(r)
    \/ CoordinationPolicy = "UntilPrefixPublished" /\ ReleaseAfterPrefixPublication(r)
    \/ RemoveCompleted(r)
    \/ RemoveAborted(r)

FlightSpec == FlightInit /\ [][FlightNext]_flightVars

-----------------------------------------------------------------------------
(* Properties *)

\* The request index and the flights agree: exactly the leader and the followers
\* of a live flight point to it, each once, so the lookups of flight_unchecked and
\* remove_follower never hit their expect().
MembersMatchFlights ==
  /\ \A r \in Requests : IsMember(r) =>
       /\ request_flight_ids[r] \in DOMAIN flights
       /\ r \in {FlightOf(r).leader} \cup Followers(FlightOf(r))
  /\ \A f \in DOMAIN flights :
       LET fl == flights[f] IN
       /\ \A r \in {fl.leader} \cup Followers(fl) :
            request_flight_ids[r] = f /\ InputOf[r] = fl.input
       /\ fl.leader \notin Followers(fl)
       /\ \A m, n \in DOMAIN fl.followers : fl.followers[m] = fl.followers[n] => m = n

\* An input is indexed iff one live flight carries it: while a leader runs, every
\* later request with its input joins it, and a dead flight attracts nobody.
IndexMatchesFlights ==
  /\ \A i \in Inputs : exact_input_index[i] # NoFlight =>
       /\ exact_input_index[i] \in DOMAIN flights
       /\ flights[exact_input_index[i]].input = i
  /\ \A f \in DOMAIN flights : exact_input_index[flights[f].input] = f

\* A released request has left the flights, and flight IDs are never reused.
ReleasedAreFree ==
  /\ \A r \in released_request_ids : request_flight_ids[r] = NoFlight
  /\ \A f \in DOMAIN flights : f < next_flight_id

FlightConsistent == MembersMatchFlights /\ IndexMatchesFlights /\ ReleasedAreFree
=============================================================================
