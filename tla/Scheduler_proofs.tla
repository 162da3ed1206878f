-------------------------- MODULE Scheduler_proofs --------------------------
(***************************************************************************)
(* The coordinator for any set of requests and inputs.  First, that the    *)
(* flights, the index of requests and the index of inputs agree:           *)
(* FlightTypeOK /\ FlightConsistent is inductive.  Then, that the          *)
(* coordinator implements the waiting lines of SingleFlight: this          *)
(* consistency is what makes each of its calls one step of the lines, a    *)
(* call changes one flight, and so one line.                               *)
(*                                                                         *)
(* The scheduler's invariant for every set of requests, every geometry and *)
(* every policy.  The reservation bound is inductive by itself; that       *)
(* blocked requests are the followers of live flights whose leaders can    *)
(* make progress needs the consistency of the flights and the fact that    *)
(* the coordinator tracks only requests the scheduler knows.  That a batch *)
(* fills its budget needs the order of the two lists: the active requests  *)
(* take from the budget one after the other.                               *)
(***************************************************************************)
EXTENDS Scheduler, FlightRefinement, FiniteSetTheorems, FunctionTheorems, WellFoundedInduction,
        TLAPS

FlightInv == FlightTypeOK /\ FlightConsistent

NoDuplicates(seq) == \A m, n \in DOMAIN seq : seq[m] = seq[n] => m = n
Elements(seq) == {seq[n] : n \in DOMAIN seq}

-----------------------------------------------------------------------------
(* Sequences of followers *)

\* Appending a new request keeps a follower queue free of duplicates.
LEMMA AppendFollower ==
  ASSUME NEW seq \in Seq(Requests), NEW r \in Requests,
         NoDuplicates(seq), r \notin Elements(seq)
  PROVE  /\ Append(seq, r) \in Seq(Requests)
         /\ Elements(Append(seq, r)) = Elements(seq) \cup {r}
         /\ NoDuplicates(Append(seq, r))
<1>1. /\ Append(seq, r) \in Seq(Requests)
      /\ DOMAIN Append(seq, r) = 1 .. Len(seq) + 1
      /\ DOMAIN seq = 1 .. Len(seq)
      /\ Len(seq) \in Nat
      /\ \A n \in 1 .. Len(seq) : Append(seq, r)[n] = seq[n]
      /\ Append(seq, r)[Len(seq) + 1] = r
  OBVIOUS
<1>2. Elements(Append(seq, r)) = Elements(seq) \cup {r}
  BY <1>1 DEF Elements
<1>3. NoDuplicates(Append(seq, r))
  BY <1>1 DEF Elements, NoDuplicates
<1>4. QED
  BY <1>1, <1>2, <1>3

\* Electing the head of the queue leaves the other followers, once each.
LEMMA PopFollower ==
  ASSUME NEW seq \in Seq(Requests), NoDuplicates(seq), seq # <<>>
  PROVE  /\ Head(seq) \in Requests
         /\ Tail(seq) \in Seq(Requests)
         /\ Elements(Tail(seq)) = Elements(seq) \ {Head(seq)}
         /\ Head(seq) \in Elements(seq)
         /\ NoDuplicates(Tail(seq))
<1>1. /\ Tail(seq) \in Seq(Requests)
      /\ DOMAIN Tail(seq) = 1 .. Len(seq) - 1
      /\ DOMAIN seq = 1 .. Len(seq)
      /\ Len(seq) \in Nat \ {0}
      /\ \A n \in 1 .. Len(seq) - 1 : Tail(seq)[n] = seq[n + 1]
      /\ Head(seq) = seq[1]
  OBVIOUS
<1>2. Elements(Tail(seq)) \subseteq Elements(seq) \ {Head(seq)}
  BY <1>1 DEF Elements, NoDuplicates
<1>3. ASSUME NEW r \in Elements(seq) \ {Head(seq)}
      PROVE  r \in Elements(Tail(seq))
  <2>1. PICK n \in 1 .. Len(seq) : seq[n] = r
    BY <1>1 DEF Elements
  <2>2. n - 1 \in 1 .. Len(seq) - 1 /\ Tail(seq)[n - 1] = r
    BY <1>1, <1>3, <2>1
  <2>3. QED
    BY <1>1, <2>2 DEF Elements
<1>4. NoDuplicates(Tail(seq))
  BY <1>1 DEF NoDuplicates
<1>5. Head(seq) \in Requests /\ Head(seq) \in Elements(seq)
  BY <1>1 DEF Elements
<1>6. QED
  BY <1>1, <1>2, <1>3, <1>4, <1>5

\* Removing an aborted follower removes it alone.
LEMMA RemoveFromFollowers ==
  ASSUME NEW seq \in Seq(Requests), NEW r \in Elements(seq), NoDuplicates(seq)
  PROVE  /\ WithoutFollower(seq, r) \in Seq(Requests)
         /\ Elements(WithoutFollower(seq, r)) = Elements(seq) \ {r}
         /\ NoDuplicates(WithoutFollower(seq, r))
<1> DEFINE first == CHOOSE n \in DOMAIN seq :
                      /\ seq[n] = r
                      /\ \A m \in DOMAIN seq : seq[m] = r => n <= m
           out == WithoutFollower(seq, r)
<1>1. DOMAIN seq = 1 .. Len(seq) /\ Len(seq) \in Nat
  OBVIOUS
<1>2. \E n \in DOMAIN seq : seq[n] = r /\ \A m \in DOMAIN seq : seq[m] = r => n <= m
  BY <1>1 DEF Elements, NoDuplicates
<1>3. first \in DOMAIN seq /\ seq[first] = r
  BY <1>2
<1>4. /\ DOMAIN out = 1 .. Len(seq) - 1
      /\ \A n \in 1 .. Len(seq) - 1 :
           out[n] = IF n < first THEN seq[n] ELSE seq[n + 1]
  BY DEF WithoutFollower
<1> HIDE DEF first, out
<1>5. \A n \in 1 .. Len(seq) - 1 : out[n] \in Requests
  BY <1>1, <1>4
<1>6. out \in Seq(Requests)
  <2>1. Len(seq) - 1 \in Nat
    BY <1>1, <1>3
  <2>2. out = [n \in 1 .. Len(seq) - 1 |-> IF n < first THEN seq[n] ELSE seq[n + 1]]
    BY DEF out, first, WithoutFollower
  <2>3. QED
    BY <1>5, <2>1, <2>2, <1>4
<1>7. Elements(out) \subseteq Elements(seq) \ {r}
  BY <1>1, <1>3, <1>4 DEF Elements, NoDuplicates
<1>8. ASSUME NEW q \in Elements(seq) \ {r}
      PROVE  q \in Elements(out)
  <2>1. PICK n \in 1 .. Len(seq) : seq[n] = q
    BY <1>1 DEF Elements
  <2>2. CASE n < first
    BY <1>1, <1>3, <1>4, <2>1, <2>2 DEF Elements
  <2>3. CASE n > first
    <3>1. n - 1 \in 1 .. Len(seq) - 1 /\ out[n - 1] = q
      BY <1>1, <1>3, <1>4, <2>1, <2>3
    <3>2. QED
      BY <1>4, <3>1 DEF Elements
  <2>4. n # first
    BY <1>3, <1>8, <2>1
  <2>5. QED
    BY <1>1, <1>3, <2>1, <2>2, <2>3, <2>4
<1>9. NoDuplicates(out)
  BY <1>1, <1>3, <1>4 DEF NoDuplicates
<1>10. QED
  BY <1>6, <1>7, <1>8, <1>9 DEF out

-----------------------------------------------------------------------------
(* Each call preserves the invariant *)

LEMMA InitFlightInv == FlightInit => FlightInv
BY FlightAssumption DEF FlightInit, FlightInv, FlightTypeOK, FlightConsistent,
   MembersMatchFlights, IndexMatchesFlights, ReleasedAreFree, IsMember

\* What the invariant says of one live flight, and of one member.
LEMMA FlightFacts ==
  ASSUME FlightInv
  PROVE  /\ \A f \in DOMAIN flights :
              /\ f \in Nat /\ f < next_flight_id /\ f # NoFlight
              /\ flights[f].input \in Inputs /\ flights[f].leader \in Requests
              /\ flights[f].followers \in Seq(Requests)
              /\ flights[f] = [input |-> flights[f].input, leader |-> flights[f].leader,
                               followers |-> flights[f].followers]
              /\ Followers(flights[f]) = Elements(flights[f].followers)
              /\ Followers(flights[f]) \subseteq Requests
              /\ NoDuplicates(flights[f].followers)
              /\ flights[f].leader \notin Followers(flights[f])
              /\ \A r \in {flights[f].leader} \cup Followers(flights[f]) :
                   request_flight_ids[r] = f /\ InputOf[r] = flights[f].input
         /\ \A r \in Requests : IsMember(r) => request_flight_ids[r] \in DOMAIN flights
<1> USE DEF FlightInv, FlightTypeOK, FlightConsistent
<1>1. \A f \in DOMAIN flights : f \in Nat /\ f < next_flight_id /\ f # NoFlight
  BY FlightAssumption DEF ReleasedAreFree
<1>2. \A f \in DOMAIN flights :
        /\ flights[f].input \in Inputs /\ flights[f].leader \in Requests
        /\ flights[f].followers \in Seq(Requests)
        /\ flights[f] = [input |-> flights[f].input, leader |-> flights[f].leader,
                         followers |-> flights[f].followers]
  BY DEF Flight
<1>3. \A f \in DOMAIN flights : Followers(flights[f]) = Elements(flights[f].followers)
  BY DEF Followers, Elements
<1>4. \A f \in DOMAIN flights : Followers(flights[f]) \subseteq Requests
  BY <1>2 DEF Followers
<1>5. \A f \in DOMAIN flights :
        /\ NoDuplicates(flights[f].followers)
        /\ flights[f].leader \notin Followers(flights[f])
        /\ \A r \in {flights[f].leader} \cup Followers(flights[f]) :
             request_flight_ids[r] = f /\ InputOf[r] = flights[f].input
  BY DEF MembersMatchFlights, NoDuplicates
<1>6. \A r \in Requests : IsMember(r) => request_flight_ids[r] \in DOMAIN flights
  BY DEF MembersMatchFlights
<1>7. QED
  BY <1>1, <1>2, <1>3, <1>4, <1>5, <1>6

LEMMA AddFollowerInv ==
  ASSUME FlightInv, NEW r \in Requests, ~IsRegistered(r), JoinsFlight(r), AddFollower(r)
  PROVE  FlightInv'
<1> DEFINE f == exact_input_index[InputOf[r]]
           new == Append(flights[f].followers, r)
<1> USE DEF FlightInv, FlightTypeOK, FlightConsistent
<1>1. f \in DOMAIN flights /\ flights[f].input = InputOf[r]
  BY FlightAssumption DEF JoinsFlight, IndexMatchesFlights
<1>2. r \notin Followers(flights[f]) /\ r # flights[f].leader
  BY <1>1, FlightFacts DEF IsRegistered, IsMember
<1>3. /\ new \in Seq(Requests)
      /\ Elements(new) = Followers(flights[f]) \cup {r}
      /\ NoDuplicates(new)
  BY <1>1, <1>2, FlightFacts, AppendFollower
<1>4. /\ DOMAIN flights' = DOMAIN flights
      /\ flights'[f] = [input |-> flights[f].input, leader |-> flights[f].leader,
                        followers |-> new]
      /\ \A g \in DOMAIN flights \ {f} : flights'[g] = flights[g]
  BY <1>1, FlightFacts DEF AddFollower, Crewed
<1>5. Followers(flights'[f]) = Followers(flights[f]) \cup {r}
  <2>1. flights'[f].followers = new
    BY <1>4
  <2>2. Followers(flights'[f]) = Elements(flights'[f].followers)
    BY DEF Followers, Elements
  <2>3. QED
    BY <1>3, <2>1, <2>2
<1>6. /\ request_flight_ids'[r] = f
      /\ \A q \in Requests \ {r} : request_flight_ids'[q] = request_flight_ids[q]
      /\ UNCHANGED <<next_flight_id, exact_input_index, released_request_ids>>
  BY DEF AddFollower
<1> HIDE DEF f, new, FlightInv, FlightTypeOK, FlightConsistent
<1>7. FlightTypeOK'
  <2>1. request_flight_ids' \in [Requests -> Nat \cup {NoFlight}]
    BY <1>1, FlightFacts DEF AddFollower, f, FlightInv, FlightTypeOK
  <2>2. \A g \in DOMAIN flights' : flights'[g] \in Flight
    BY <1>1, <1>3, <1>4, FlightFacts DEF Flight
  <2>3. QED
    BY <1>4, <1>6, <2>1, <2>2 DEF FlightInv, FlightTypeOK
<1>8. MembersMatchFlights'
  <2>1. ASSUME NEW q \in Requests, IsMember(q)'
        PROVE  /\ request_flight_ids'[q] \in DOMAIN flights'
               /\ q \in {FlightOf(q)'.leader} \cup Followers(FlightOf(q)')
    <3>1. CASE q = r
      BY <1>1, <1>4, <1>5, <1>6, <3>1 DEF FlightOf
    <3>2. CASE q # r
      <4>1. IsMember(q) /\ request_flight_ids'[q] = request_flight_ids[q]
        BY <1>6, <2>1, <3>2 DEF IsMember
      <4>2. /\ request_flight_ids[q] \in DOMAIN flights
            /\ q \in {FlightOf(q).leader} \cup Followers(FlightOf(q))
        BY <4>1 DEF FlightInv, FlightConsistent, MembersMatchFlights
      <4>3. QED
        BY <1>4, <1>5, <4>1, <4>2 DEF FlightOf
    <3>3. QED
      BY <3>1, <3>2
  <2>2. ASSUME NEW g \in DOMAIN flights'
        PROVE  /\ \A q \in {flights'[g].leader} \cup Followers(flights'[g]) :
                    request_flight_ids'[q] = g /\ InputOf[q] = flights'[g].input
               /\ flights'[g].leader \notin Followers(flights'[g])
               /\ NoDuplicates(flights'[g].followers)
    <3>1. CASE g = f
      <4>1. \A q \in {flights[f].leader} \cup Followers(flights[f]) :
              q \in Requests /\ q # r /\ request_flight_ids[q] = f
              /\ InputOf[q] = flights[f].input
        BY <1>1, <1>2, FlightFacts
      <4>2. flights[f].leader \notin Followers(flights[f])
        BY <1>1, FlightFacts
      <4>3. /\ flights'[f].input = flights[f].input
            /\ flights'[f].leader = flights[f].leader
            /\ flights'[f].followers = new
        BY <1>4
      <4>4. \A q \in {flights[f].leader} \cup Followers(flights[f]) \cup {r} :
              request_flight_ids'[q] = f /\ InputOf[q] = flights[f].input
        BY <1>1, <1>6, <4>1
      <4>5. QED
        BY <1>2, <1>3, <1>5, <3>1, <4>2, <4>3, <4>4
    <3>2. CASE g # f
      <4>1. g \in DOMAIN flights /\ flights'[g] = flights[g]
        BY <1>4, <2>2, <3>2
      <4>2. \A q \in {flights[g].leader} \cup Followers(flights[g]) :
              q \in Requests /\ q # r
        BY <4>1, FlightFacts DEF IsRegistered, IsMember
      <4>3. QED
        BY <1>6, <4>1, <4>2, FlightFacts
    <3>3. QED
      BY <3>1, <3>2
  <2>3. QED
    BY <2>1, <2>2 DEF MembersMatchFlights, NoDuplicates
<1>9. IndexMatchesFlights'
  BY <1>1, <1>4, <1>6 DEF FlightInv, FlightConsistent, IndexMatchesFlights
<1>10. ReleasedAreFree'
  BY <1>4, <1>6
     DEF FlightInv, FlightTypeOK, FlightConsistent, ReleasedAreFree, IsRegistered
<1>11. QED
  BY <1>7, <1>8, <1>9, <1>10 DEF FlightInv, FlightConsistent

LEMMA AddFlightInv ==
  ASSUME FlightInv, NEW r \in Requests, ~IsRegistered(r), ~JoinsFlight(r), AddFlight(r)
  PROVE  FlightInv'
<1> DEFINE f == next_flight_id
           fl == [input |-> InputOf[r], leader |-> r, followers |-> <<>>]
<1> USE DEF FlightInv, FlightTypeOK, FlightConsistent
<1>1. f \in Nat /\ f \notin DOMAIN flights /\ f # NoFlight /\ InputOf[r] \in Inputs
  BY FlightAssumption, FlightFacts
<1>2. /\ DOMAIN flights' = DOMAIN flights \cup {f}
      /\ flights'[f] = fl
      /\ \A g \in DOMAIN flights : flights'[g] = flights[g]
  BY <1>1 DEF AddFlight
<1>3. fl \in Flight /\ Followers(fl) = {} /\ fl.input = InputOf[r] /\ fl.leader = r
  BY <1>1 DEF Flight, Followers
<1>4. /\ request_flight_ids' = [request_flight_ids EXCEPT ![r] = f]
      /\ exact_input_index' = [exact_input_index EXCEPT ![InputOf[r]] = f]
      /\ next_flight_id' = f + 1
      /\ UNCHANGED released_request_ids
  BY DEF AddFlight
<1>5. fl.followers = <<>>
  OBVIOUS
<1> HIDE DEF f, fl
<1>6. FlightTypeOK'
  <2>1. next_flight_id' \in 0 .. MaxFlightId
    BY <1>1, <1>4, FlightAssumption DEF AddFlight, f
  <2>2. /\ request_flight_ids' \in [Requests -> Nat \cup {NoFlight}]
        /\ exact_input_index' \in [Inputs -> Nat \cup {NoFlight}]
    BY <1>1, <1>4
  <2>3. DOMAIN flights' \subseteq Nat /\ \A g \in DOMAIN flights' : flights'[g] \in Flight
    BY <1>1, <1>2, <1>3
  <2>4. QED
    BY <1>4, <2>1, <2>2, <2>3
<1>7. MembersMatchFlights'
  <2>1. ASSUME NEW q \in Requests, IsMember(q)'
        PROVE  /\ request_flight_ids'[q] \in DOMAIN flights'
               /\ q \in {FlightOf(q)'.leader} \cup Followers(FlightOf(q)')
    <3>1. CASE q = r
      BY <1>2, <1>3, <1>4, <3>1 DEF FlightOf
    <3>2. CASE q # r
      <4>1. IsMember(q) /\ request_flight_ids'[q] = request_flight_ids[q]
        BY <1>4, <2>1, <3>2 DEF IsMember
      <4>2. /\ request_flight_ids[q] \in DOMAIN flights
            /\ q \in {FlightOf(q).leader} \cup Followers(FlightOf(q))
        BY <4>1 DEF MembersMatchFlights
      <4>3. QED
        BY <1>2, <4>1, <4>2 DEF FlightOf
    <3>3. QED
      BY <3>1, <3>2
  <2>2. ASSUME NEW g \in DOMAIN flights'
        PROVE  /\ \A q \in {flights'[g].leader} \cup Followers(flights'[g]) :
                    request_flight_ids'[q] = g /\ InputOf[q] = flights'[g].input
               /\ flights'[g].leader \notin Followers(flights'[g])
               /\ NoDuplicates(flights'[g].followers)
    <3>1. CASE g = f
      BY <1>2, <1>3, <1>4, <1>5, <3>1 DEF NoDuplicates
    <3>2. CASE g # f
      <4>1. g \in DOMAIN flights /\ flights'[g] = flights[g]
        BY <1>2, <2>2, <3>2
      <4>2. \A q \in {flights[g].leader} \cup Followers(flights[g]) :
              q \in Requests /\ q # r
        BY <4>1, FlightFacts DEF IsRegistered, IsMember
      <4>3. QED
        BY <1>4, <4>1, <4>2, FlightFacts
    <3>3. QED
      BY <3>1, <3>2
  <2>3. QED
    BY <2>1, <2>2 DEF MembersMatchFlights, NoDuplicates
<1>8. IndexMatchesFlights'
  <2>1. \A g \in DOMAIN flights : flights[g].input # InputOf[r]
    BY FlightFacts DEF JoinsFlight, IndexMatchesFlights
  <2>2. QED
    BY <1>1, <1>2, <1>3, <1>4, <2>1, FlightFacts DEF IndexMatchesFlights
<1>9. ReleasedAreFree'
  <2>1. \A g \in DOMAIN flights' : g < next_flight_id'
    BY <1>1, <1>2, <1>4, FlightFacts DEF f
  <2>2. QED
    BY <1>4, <2>1 DEF ReleasedAreFree, IsRegistered
<1>10. QED
  BY <1>6, <1>7, <1>8, <1>9

\* Removing a live flight leaves every other flight and its members in place.
LEMMA RemoveFlightInv ==
  ASSUME FlightInv, NEW f \in DOMAIN flights, RemoveFlight(f),
         UNCHANGED next_flight_id,
         released_request_ids' \subseteq
           released_request_ids \cup {flights[f].leader} \cup Followers(flights[f])
  PROVE  FlightInv'
<1> DEFINE members == {flights[f].leader} \cup Followers(flights[f])
<1> USE DEF FlightInv, FlightTypeOK, FlightConsistent
<1>1. /\ DOMAIN flights' = DOMAIN flights \ {f}
      /\ \A g \in DOMAIN flights \ {f} : flights'[g] = flights[g]
      /\ exact_input_index' = [exact_input_index EXCEPT ![flights[f].input] = NoFlight]
      /\ request_flight_ids' =
           [r \in Requests |-> IF r \in members THEN NoFlight ELSE request_flight_ids[r]]
  BY DEF RemoveFlight
<1>2. members \subseteq Requests
  BY FlightFacts
<1>3. \A r \in Requests : IsMember(r) =>
        (r \in members <=> request_flight_ids[r] = f)
  BY FlightFacts DEF MembersMatchFlights, FlightOf
<1> HIDE DEF members
<1>4. FlightTypeOK'
  <2>1. released_request_ids' \subseteq Requests
    BY <1>2 DEF members
  <2>2. QED
    BY <1>1, <2>1
<1>5. MembersMatchFlights'
  <2>1. ASSUME NEW q \in Requests, IsMember(q)'
        PROVE  /\ request_flight_ids'[q] \in DOMAIN flights'
               /\ q \in {FlightOf(q)'.leader} \cup Followers(FlightOf(q)')
    <3>1. /\ IsMember(q) /\ request_flight_ids[q] # f
          /\ request_flight_ids'[q] = request_flight_ids[q]
      BY <1>1, <1>3, <2>1 DEF IsMember
    <3>2. /\ request_flight_ids[q] \in DOMAIN flights
          /\ q \in {FlightOf(q).leader} \cup Followers(FlightOf(q))
      BY <3>1 DEF MembersMatchFlights
    <3>3. QED
      BY <1>1, <3>1, <3>2 DEF FlightOf
  <2>2. ASSUME NEW g \in DOMAIN flights'
        PROVE  /\ \A q \in {flights'[g].leader} \cup Followers(flights'[g]) :
                    request_flight_ids'[q] = g /\ InputOf[q] = flights'[g].input
               /\ flights'[g].leader \notin Followers(flights'[g])
               /\ NoDuplicates(flights'[g].followers)
    <3>1. g \in DOMAIN flights /\ g # f /\ flights'[g] = flights[g]
      BY <1>1
    <3>2. \A q \in {flights[g].leader} \cup Followers(flights[g]) :
            q \in Requests /\ IsMember(q) /\ request_flight_ids[q] = g
      BY <3>1, FlightFacts DEF IsMember
    <3>3. QED
      BY <1>1, <1>3, <3>1, <3>2, FlightFacts
  <2>3. QED
    BY <2>1, <2>2 DEF MembersMatchFlights, NoDuplicates
<1>6. IndexMatchesFlights'
  BY <1>1, FlightFacts DEF IndexMatchesFlights
<1>7. ReleasedAreFree'
  BY <1>1, <1>2 DEF ReleasedAreFree, members
<1>8. QED
  BY <1>4, <1>5, <1>6, <1>7

\* Taking one member out of a flight that keeps the others, in order.
LEMMA ShrinkFlightInv ==
  ASSUME FlightInv, NEW f \in DOMAIN flights,
         NEW r \in Requests, request_flight_ids[r] = f,
         NEW leader \in Requests, NEW followers \in Seq(Requests),
         NoDuplicates(followers), leader \notin Elements(followers),
         {leader} \cup Elements(followers) =
           ({flights[f].leader} \cup Followers(flights[f])) \ {r},
         flights' = [flights EXCEPT ![f] = Crewed(@, leader, followers)],
         request_flight_ids' = [request_flight_ids EXCEPT ![r] = NoFlight],
         UNCHANGED <<next_flight_id, exact_input_index, released_request_ids>>
  PROVE  FlightInv'
<1> DEFINE fl == [input |-> flights[f].input, leader |-> leader, followers |-> followers]
<1> USE DEF FlightInv, FlightTypeOK, FlightConsistent
<1>1. /\ DOMAIN flights' = DOMAIN flights
      /\ flights'[f] = fl
      /\ \A g \in DOMAIN flights \ {f} : flights'[g] = flights[g]
  BY DEF Crewed
<1>2. fl \in Flight /\ Followers(fl) = Elements(followers) /\ fl.leader = leader
      /\ fl.followers = followers /\ fl.input = flights[f].input
  BY FlightFacts DEF Flight, Followers, Elements
<1> HIDE DEF fl
<1>3. FlightTypeOK'
  BY <1>1, <1>2
<1>4. MembersMatchFlights'
  <2>1. ASSUME NEW q \in Requests, IsMember(q)'
        PROVE  /\ request_flight_ids'[q] \in DOMAIN flights'
               /\ q \in {FlightOf(q)'.leader} \cup Followers(FlightOf(q)')
    <3>1. /\ q # r /\ IsMember(q)
          /\ request_flight_ids'[q] = request_flight_ids[q]
      BY <2>1 DEF IsMember
    <3>2. /\ request_flight_ids[q] \in DOMAIN flights
          /\ q \in {FlightOf(q).leader} \cup Followers(FlightOf(q))
      BY <3>1 DEF MembersMatchFlights
    <3>3. QED
      BY <1>1, <1>2, <3>1, <3>2 DEF FlightOf
  <2>2. ASSUME NEW g \in DOMAIN flights'
        PROVE  /\ \A q \in {flights'[g].leader} \cup Followers(flights'[g]) :
                    request_flight_ids'[q] = g /\ InputOf[q] = flights'[g].input
               /\ flights'[g].leader \notin Followers(flights'[g])
               /\ NoDuplicates(flights'[g].followers)
    <3>1. CASE g = f
      <4>1. \A q \in {leader} \cup Elements(followers) :
              q # r /\ q \in Requests /\ request_flight_ids[q] = f
              /\ InputOf[q] = flights[f].input
        BY FlightFacts
      <4>2. QED
        BY <1>1, <1>2, <3>1, <4>1
    <3>2. CASE g # f
      <4>1. g \in DOMAIN flights /\ flights'[g] = flights[g]
        BY <1>1, <2>2, <3>2
      <4>2. \A q \in {flights[g].leader} \cup Followers(flights[g]) :
              q \in Requests /\ q # r /\ request_flight_ids[q] = g
        BY <3>2, <4>1, FlightFacts
      <4>3. QED
        BY <4>1, <4>2, FlightFacts
    <3>3. QED
      BY <3>1, <3>2
  <2>3. QED
    BY <2>1, <2>2 DEF MembersMatchFlights, NoDuplicates
<1>5. IndexMatchesFlights'
  BY <1>1, <1>2, FlightFacts DEF IndexMatchesFlights
<1>6. ReleasedAreFree'
  BY <1>1 DEF ReleasedAreFree
<1>7. QED
  BY <1>3, <1>4, <1>5, <1>6

LEMMA PromoteNextLeaderInv ==
  ASSUME FlightInv, NEW r \in Requests, IsLeader(r), PromoteNextLeader(r)
  PROVE  FlightInv'
<1> DEFINE f == request_flight_ids[r]
           queue == flights[f].followers
<1>1. f \in DOMAIN flights /\ flights[f].leader = r
  BY FlightFacts DEF IsLeader, FlightOf
<1>2. /\ queue \in Seq(Requests) /\ NoDuplicates(queue) /\ queue # <<>>
      /\ Followers(flights[f]) = Elements(queue) /\ r \notin Elements(queue)
  BY <1>1, FlightFacts DEF PromoteNextLeader
<1>3. /\ Head(queue) \in Requests /\ Tail(queue) \in Seq(Requests)
      /\ Elements(Tail(queue)) = Elements(queue) \ {Head(queue)}
      /\ Head(queue) \in Elements(queue) /\ NoDuplicates(Tail(queue))
  BY <1>2, PopFollower
<1>4. /\ flights' = [flights EXCEPT ![f] = Crewed(@, Head(queue), Tail(queue))]
      /\ request_flight_ids' = [request_flight_ids EXCEPT ![r] = NoFlight]
      /\ UNCHANGED <<next_flight_id, exact_input_index, released_request_ids>>
  BY DEF PromoteNextLeader
<1>5. {Head(queue)} \cup Elements(Tail(queue)) =
        ({flights[f].leader} \cup Followers(flights[f])) \ {r}
  BY <1>1, <1>2, <1>3
<1> HIDE DEF f, queue
<1>6. QED
  BY <1>1, <1>3, <1>4, <1>5, ShrinkFlightInv DEF f

LEMMA RemoveFollowerInv ==
  ASSUME FlightInv, NEW r \in Requests, IsFollower(r), RemoveFollower(r)
  PROVE  FlightInv'
<1> DEFINE f == request_flight_ids[r]
           queue == flights[f].followers
           rest == WithoutFollower(queue, r)
           leader == flights[f].leader
<1>1. f \in DOMAIN flights /\ leader # r /\ r \in Followers(flights[f])
  BY FlightFacts DEF IsFollower, FlightOf, FlightInv, FlightConsistent,
     MembersMatchFlights
<1>2. /\ queue \in Seq(Requests) /\ NoDuplicates(queue) /\ r \in Elements(queue)
      /\ Followers(flights[f]) = Elements(queue)
      /\ leader \notin Elements(queue) /\ leader \in Requests
  BY <1>1, FlightFacts
<1>3. /\ rest \in Seq(Requests)
      /\ Elements(rest) = Elements(queue) \ {r}
      /\ NoDuplicates(rest)
  BY <1>2, RemoveFromFollowers
<1>4. /\ flights' = [flights EXCEPT ![f] = Crewed(@, leader, rest)]
      /\ request_flight_ids' = [request_flight_ids EXCEPT ![r] = NoFlight]
      /\ UNCHANGED <<next_flight_id, exact_input_index, released_request_ids>>
  BY DEF RemoveFollower
<1>5. /\ {leader} \cup Elements(rest) = ({leader} \cup Followers(flights[f])) \ {r}
      /\ leader \notin Elements(rest)
  BY <1>1, <1>2, <1>3
<1> HIDE DEF queue, rest
<1>6. QED
  BY <1>1, <1>2, <1>3, <1>4, <1>5, ShrinkFlightInv

LEMMA RemoveReleasedInv ==
  ASSUME FlightInv, NEW r \in Requests, RemoveReleased(r)
  PROVE  FlightInv'
BY DEF FlightInv, FlightTypeOK, FlightConsistent, RemoveReleased, MembersMatchFlights,
   IndexMatchesFlights, ReleasedAreFree, IsMember, FlightOf, Followers

LEMMA ReleaseFollowersInv ==
  ASSUME FlightInv, NEW r \in Requests, IsLeader(r), NEW running \in SUBSET {r},
         ReleaseFollowers(request_flight_ids[r], running)
  PROVE  FlightInv'
<1>1. request_flight_ids[r] \in DOMAIN flights /\ FlightOf(r).leader = r
  BY FlightFacts DEF IsLeader
<1>2. QED
  BY <1>1, RemoveFlightInv DEF ReleaseFollowers, FlightOf

-----------------------------------------------------------------------------
(* The calls of the coordinator *)

LEMMA AddRequestInv ==
  ASSUME FlightInv, NEW r \in Requests, AddRequest(r)
  PROVE  FlightInv'
BY AddFollowerInv, AddFlightInv DEF AddRequest

LEMMA ReleaseAfterPrefixPublicationInv ==
  ASSUME FlightInv, NEW r \in Requests, CoordinationPolicy = "UntilPrefixPublished",
         ReleaseAfterPrefixPublication(r)
  PROVE  FlightInv'
BY ReleaseFollowersInv DEF ReleaseAfterPrefixPublication

LEMMA RemoveCompletedInv ==
  ASSUME FlightInv, NEW r \in Requests, RemoveCompleted(r)
  PROVE  FlightInv'
BY RemoveReleasedInv, ReleaseFollowersInv DEF RemoveCompleted

LEMMA RemoveAbortedInv ==
  ASSUME FlightInv, NEW r \in Requests, RemoveAborted(r)
  PROVE  FlightInv'
<1>1. CASE RemoveReleased(r)
  BY <1>1, RemoveReleasedInv
<1>2. CASE IsLeader(r) /\ PromoteNextLeader(r)
  BY <1>2, PromoteNextLeaderInv
<1>3. CASE /\ IsLeader(r)
           /\ RemoveFlight(request_flight_ids[r])
           /\ UNCHANGED <<next_flight_id, released_request_ids>>
  BY <1>3, FlightFacts, RemoveFlightInv DEF IsLeader
<1>4. CASE IsFollower(r) /\ RemoveFollower(r)
  BY <1>4, RemoveFollowerInv
<1>5. QED
  BY <1>1, <1>2, <1>3, <1>4 DEF RemoveAborted

LEMMA UnchangedFlightInv ==
  FlightInv /\ UNCHANGED flightVars => FlightInv'
BY DEF FlightInv, FlightTypeOK, FlightConsistent, flightVars, MembersMatchFlights,
   IndexMatchesFlights, ReleasedAreFree, IsMember, FlightOf, Followers

LEMMA NextFlightInv == FlightInv /\ [FlightNext]_flightVars => FlightInv'
<1> SUFFICES ASSUME FlightInv, [FlightNext]_flightVars PROVE FlightInv'
  OBVIOUS
<1>1. ASSUME NEW r \in Requests, AddRequest(r) PROVE FlightInv'
  BY <1>1, AddRequestInv
<1>2. ASSUME NEW r \in Requests, RefuseRequest(r) PROVE FlightInv'
  BY <1>2, UnchangedFlightInv DEF RefuseRequest
<1>3. ASSUME NEW r \in Requests, CoordinationPolicy = "UntilPrefixPublished",
             ReleaseAfterPrefixPublication(r)
      PROVE FlightInv'
  BY <1>3, ReleaseAfterPrefixPublicationInv
<1>4. ASSUME NEW r \in Requests, RemoveCompleted(r) PROVE FlightInv'
  BY <1>4, RemoveCompletedInv
<1>5. ASSUME NEW r \in Requests, RemoveAborted(r) PROVE FlightInv'
  BY <1>5, RemoveAbortedInv
<1>6. QED
  BY <1>1, <1>2, <1>3, <1>4, <1>5, UnchangedFlightInv DEF FlightNext

\* The bookkeeping of the coordinator stays well typed.
THEOREM FlightTypeCorrect == FlightSpec => []FlightTypeOK
BY InitFlightInv, NextFlightInv, PTL DEF FlightSpec, FlightInv

\* After any sequence of accepted calls the request index, the input index and the
\* flights agree, so no expect() of prefix_cache_flight.rs can panic.
THEOREM FlightsStayConsistent == FlightSpec => []FlightConsistent
BY InitFlightInv, NextFlightInv, PTL DEF FlightSpec, FlightInv

-----------------------------------------------------------------------------
(* Refinement: the lines of the flights *)

Line == [i \in Inputs |-> LineOf(i)]

-----------------------------------------------------------------------------
(* Lines *)

\* A line of a leader and its followers, place by place.
LEMMA CrewFacts ==
  ASSUME NEW l \in Requests, NEW seq \in Seq(Requests)
  PROVE  LET crew == <<l>> \o seq IN
         /\ crew \in Seq(Requests) /\ crew # <<>>
         /\ DOMAIN crew = 1 .. Len(crew)
         /\ Len(crew) = Len(seq) + 1 /\ Len(seq) \in Nat
         /\ Head(crew) = l /\ crew[1] = l
         /\ \A n \in 1 .. Len(seq) : crew[n + 1] = seq[n]
         /\ {crew[n] : n \in 2 .. Len(crew)} = Elements(seq)
<1> DEFINE crew == <<l>> \o seq
<1>1. /\ crew \in Seq(Requests) /\ crew # <<>>
      /\ DOMAIN crew = 1 .. Len(crew)
      /\ Len(crew) = Len(seq) + 1 /\ Len(seq) \in Nat
      /\ DOMAIN seq = 1 .. Len(seq)
      /\ Head(crew) = l /\ crew[1] = l
  OBVIOUS
<1>2. \A n \in 1 .. Len(seq) : crew[n + 1] = seq[n]
  OBVIOUS
<1> HIDE DEF crew
<1>3. {crew[n] : n \in 2 .. Len(crew)} = Elements(seq)
  <2>1. \A n \in 2 .. Len(crew) : n - 1 \in 1 .. Len(seq) /\ crew[n] = seq[n - 1]
    <3>1. \A n \in 2 .. Len(crew) : n - 1 \in 1 .. Len(seq) /\ n = (n - 1) + 1
      BY <1>1
    <3>2. QED
      BY <1>2, <3>1
  <2>2. \A n \in 1 .. Len(seq) : n + 1 \in 2 .. Len(crew)
    BY <1>1
  <2>3. \A e : e \in {crew[n] : n \in 2 .. Len(crew)} => e \in {seq[n] : n \in 1 .. Len(seq)}
    BY <2>1
  <2>4. \A e : e \in {seq[n] : n \in 1 .. Len(seq)} => e \in {crew[n] : n \in 2 .. Len(crew)}
    BY <1>2, <2>2
  <2>5. QED
    BY <1>1, <2>3, <2>4 DEF Elements
<1>4. QED
  BY <1>1, <1>2, <1>3 DEF crew

\* Leaving a line: a new follower is last, the first follower takes over from its
\* leader, and a follower that is removed moves those behind it up.
LEMMA AppendToCrew ==
  ASSUME NEW l \in Requests, NEW seq \in Seq(Requests), NEW r \in Requests
  PROVE  <<l>> \o Append(seq, r) = Append(<<l>> \o seq, r)
  OBVIOUS

LEMMA DropTheLeader ==
  ASSUME NEW l \in Requests, NEW seq \in Seq(Requests)
  PROVE  /\ Abstract!Drop(<<l>> \o seq, 1) = seq
         /\ seq # <<>> => <<Head(seq)>> \o Tail(seq) = seq
<1> DEFINE crew == <<l>> \o seq
           out == Abstract!Drop(crew, 1)
<1>1. /\ Len(crew) - 1 = Len(seq) /\ Len(seq) \in Nat /\ DOMAIN seq = 1 .. Len(seq)
      /\ \A n \in 1 .. Len(seq) : crew[n + 1] = seq[n]
  BY CrewFacts
<1> HIDE DEF crew
<1>2. out = [m \in 1 .. Len(seq) |-> IF m < 1 THEN crew[m] ELSE crew[m + 1]]
  BY <1>1 DEF Abstract!Drop
<1>3. \A m \in 1 .. Len(seq) : out[m] = seq[m]
  BY <1>1, <1>2
<1>4. out = seq
  <2>1. DOMAIN out = DOMAIN seq /\ out = [m \in 1 .. Len(seq) |-> out[m]]
    BY <1>1, <1>2
  <2>2. seq = [m \in 1 .. Len(seq) |-> seq[m]]
    OBVIOUS
  <2>3. QED
    BY <1>3, <2>1, <2>2
<1>5. seq # <<>> => <<Head(seq)>> \o Tail(seq) = seq
  OBVIOUS
<1>6. QED
  BY <1>4, <1>5 DEF crew

LEMMA DropAFollower ==
  ASSUME NEW l \in Requests, NEW seq \in Seq(Requests), NEW r \in Elements(seq),
         NoDuplicates(seq)
  PROVE  \E n \in DOMAIN (<<l>> \o seq) :
           /\ (<<l>> \o seq)[n] = r
           /\ Abstract!Drop(<<l>> \o seq, n) = <<l>> \o WithoutFollower(seq, r)
<1> DEFINE first == CHOOSE n \in DOMAIN seq :
                      /\ seq[n] = r
                      /\ \A m \in DOMAIN seq : seq[m] = r => n <= m
           crew == <<l>> \o seq
           rest == WithoutFollower(seq, r)
           new == <<l>> \o rest
           out == Abstract!Drop(crew, first + 1)
<1>1. DOMAIN seq = 1 .. Len(seq) /\ Len(seq) \in Nat
  OBVIOUS
<1>2. \E n \in DOMAIN seq : seq[n] = r /\ \A m \in DOMAIN seq : seq[m] = r => n <= m
  BY <1>1 DEF Elements, NoDuplicates
<1>3. first \in 1 .. Len(seq) /\ seq[first] = r
  BY <1>1, <1>2
<1>4. /\ crew \in Seq(Requests) /\ DOMAIN crew = 1 .. Len(crew) /\ Len(crew) = Len(seq) + 1
      /\ crew[1] = l /\ \A n \in 1 .. Len(seq) : crew[n + 1] = seq[n]
  BY CrewFacts
<1>5. rest \in Seq(Requests)
  BY RemoveFromFollowers
<1>6. rest = [n \in 1 .. Len(seq) - 1 |-> IF n < first THEN seq[n] ELSE seq[n + 1]]
  BY DEF WithoutFollower
<1>7. out = [m \in 1 .. Len(crew) - 1 |-> IF m < first + 1 THEN crew[m] ELSE crew[m + 1]]
  BY DEF Abstract!Drop
<1> HIDE DEF first, crew, rest, out
<1>8. Len(rest) = Len(seq) - 1
  <2>1. Len(seq) - 1 \in Nat
    BY <1>1, <1>3
  <2>2. DOMAIN rest = 1 .. Len(seq) - 1
    BY <1>6
  <2>3. DOMAIN rest = 1 .. Len(rest) /\ Len(rest) \in Nat
    BY <1>5
  <2>4. QED
    BY <2>1, <2>2, <2>3
<1>9. /\ new \in Seq(Requests) /\ Len(new) = Len(rest) + 1
      /\ new[1] = l /\ \A n \in 1 .. Len(rest) : new[n + 1] = rest[n]
  BY <1>5, CrewFacts
<1> HIDE DEF new
<1>10. \A m \in 1 .. Len(seq) : out[m] = new[m]
  <2> SUFFICES ASSUME NEW m \in 1 .. Len(seq) PROVE out[m] = new[m]
    OBVIOUS
  <2>1. out[m] = IF m < first + 1 THEN crew[m] ELSE crew[m + 1]
    BY <1>1, <1>4, <1>7
  <2>2. CASE m = 1
    BY <1>3, <1>4, <1>9, <2>1, <2>2
  <2>3. CASE m # 1
    <3>1. m - 1 \in 1 .. Len(seq) - 1 /\ m = (m - 1) + 1
      BY <1>1, <2>3
    <3>2. new[m] = rest[m - 1]
      BY <1>8, <1>9, <3>1
    <3>3. rest[m - 1] = IF m - 1 < first THEN seq[m - 1] ELSE seq[m]
      BY <1>6, <3>1
    <3>4. crew[m] = seq[m - 1] /\ crew[m + 1] = seq[m]
      <4>1. m - 1 \in 1 .. Len(seq)
        BY <1>1, <3>1
      <4>2. QED
        BY <1>4, <3>1, <4>1
    <3>5. QED
      BY <1>3, <2>1, <3>2, <3>3, <3>4
  <2>4. QED
    BY <2>2, <2>3
<1>11. out = new
  <2>1. out = [m \in 1 .. Len(seq) |-> out[m]]
    BY <1>1, <1>4, <1>7
  <2>2. new = [m \in 1 .. Len(seq) |-> new[m]]
    <3>1. Len(new) = Len(seq)
      BY <1>1, <1>8, <1>9
    <3>2. QED
      BY <1>9, <3>1
  <2>3. QED
    BY <1>10, <2>1, <2>2
<1>12. first + 1 \in DOMAIN crew /\ crew[first + 1] = r
  BY <1>1, <1>3, <1>4
<1>13. QED
  BY <1>11, <1>12 DEF out, new, crew, rest

-----------------------------------------------------------------------------
(* One call, one line *)

\* The line of an indexed input is the crew of its flight, and only its members stand
\* in it.
LEMMA LineFacts ==
  ASSUME FlightInv
  PROVE  /\ \A f \in DOMAIN flights :
              /\ flights[f].input \in Inputs
              /\ Line[flights[f].input] = CrewOf(flights[f])
         /\ \A i \in Inputs : exact_input_index[i] = NoFlight => Line[i] = <<>>
         /\ \A r \in Requests : InputOf[r] \in Inputs
         /\ \A r \in Requests : Abstract!InLine(r) => IsMember(r)
<1>1. \A r \in Requests : InputOf[r] \in Inputs
  BY FlightAssumption
<1>2. ASSUME NEW f \in DOMAIN flights
      PROVE  flights[f].input \in Inputs /\ Line[flights[f].input] = CrewOf(flights[f])
  <2>1. flights[f].input \in Inputs /\ f # NoFlight
    BY FlightFacts
  <2>2. exact_input_index[flights[f].input] = f
    BY DEF FlightInv, FlightConsistent, IndexMatchesFlights
  <2>3. QED
    BY <2>1, <2>2 DEF Line, LineOf
<1>3. \A i \in Inputs : exact_input_index[i] = NoFlight => Line[i] = <<>>
  BY DEF Line, LineOf
<1>4. ASSUME NEW r \in Requests, Abstract!InLine(r) PROVE IsMember(r)
  <2>1. PICK n \in DOMAIN Line[InputOf[r]] : Line[InputOf[r]][n] = r
    BY <1>4 DEF Abstract!InLine, Line
  <2>2. exact_input_index[InputOf[r]] # NoFlight
    BY <1>1, <1>3, <2>1
  <2>3. PICK f \in DOMAIN flights :
          f = exact_input_index[InputOf[r]] /\ flights[f].input = InputOf[r]
    BY <1>1, <2>2 DEF FlightInv, FlightConsistent, IndexMatchesFlights
  <2>4. Line[InputOf[r]] = <<flights[f].leader>> \o flights[f].followers
    BY <1>2, <2>3 DEF CrewOf
  <2>5. flights[f].leader \in Requests /\ flights[f].followers \in Seq(Requests)
    BY FlightFacts
  <2>6. r \in {flights[f].leader} \cup Elements(flights[f].followers)
    <3> DEFINE crew == <<flights[f].leader>> \o flights[f].followers
    <3>1. /\ DOMAIN crew = 1 .. Len(crew) /\ crew[1] = flights[f].leader
          /\ {crew[m] : m \in 2 .. Len(crew)} = Elements(flights[f].followers)
          /\ Len(crew) = Len(flights[f].followers) + 1 /\ Len(flights[f].followers) \in Nat
      BY <2>5, CrewFacts
    <3>2. n \in DOMAIN crew /\ crew[n] = r
      BY <2>1, <2>4
    <3> HIDE DEF crew
    <3>3. n = 1 \/ n \in 2 .. Len(crew)
      BY <3>1, <3>2
    <3>4. QED
      BY <3>1, <3>2, <3>3
  <2>7. f # NoFlight /\ request_flight_ids[r] = f
    BY <2>6, FlightFacts
  <2>8. QED
    BY <2>7 DEF IsMember
<1>5. QED
  BY <1>1, <1>2, <1>3, <1>4

\* A call on one flight: the other lines stay as they are.
LEMMA OtherLinesStay ==
  ASSUME FlightInv, NEW i \in Inputs,
         \A g \in DOMAIN flights : flights[g].input # i =>
           g \in DOMAIN flights' /\ flights'[g] = flights[g],
         \A j \in Inputs \ {i} : exact_input_index'[j] = exact_input_index[j]
  PROVE  Line' = [Line EXCEPT ![i] = LineOf(i)']
<1>1. \A j \in Inputs \ {i} : LineOf(j)' = LineOf(j)
  <2> SUFFICES ASSUME NEW j \in Inputs \ {i} PROVE LineOf(j)' = LineOf(j)
    OBVIOUS
  <2>1. CASE exact_input_index[j] = NoFlight
    BY <2>1 DEF LineOf
  <2>2. CASE exact_input_index[j] # NoFlight
    <3>1. PICK f \in DOMAIN flights : f = exact_input_index[j] /\ flights[f].input = j
      BY <2>2 DEF FlightInv, FlightConsistent, IndexMatchesFlights
    <3>2. flights'[f] = flights[f] /\ exact_input_index'[j] = f
      BY <3>1
    <3>3. QED
      BY <3>1, <3>2 DEF LineOf, CrewOf
  <2>3. QED
    BY <2>1, <2>2
<1>2. QED
  BY <1>1 DEF Line

-----------------------------------------------------------------------------
(* Each call is a step of the lines *)

LEMMA JoinStep ==
  ASSUME FlightInv, NEW r \in Requests, AddRequest(r)
  PROVE  Abstract!Join(r)
<1>1. ~IsMember(r) /\ r \notin released_request_ids /\ ~Abstract!InLine(r)
  BY LineFacts DEF AddRequest, IsRegistered
<1>2. InputOf[r] \in Inputs
  BY FlightAssumption
<1>3. CASE JoinsFlight(r) /\ AddFollower(r)
  <2>1. PICK f \in DOMAIN flights :
          f = exact_input_index[InputOf[r]] /\ flights[f].input = InputOf[r]
    BY <1>2, <1>3 DEF JoinsFlight, FlightInv, FlightConsistent, IndexMatchesFlights
  <2>2. /\ flights[f].leader \in Requests /\ flights[f].followers \in Seq(Requests)
        /\ f # NoFlight
    BY FlightFacts
  <2>3. /\ flights' = [flights EXCEPT ![f] = Crewed(@, @.leader, Append(@.followers, r))]
        /\ UNCHANGED <<exact_input_index, released_request_ids>>
    BY <1>3, <2>1 DEF AddFollower
  <2>4. LineOf(InputOf[r])' = <<flights[f].leader>> \o Append(flights[f].followers, r)
    BY <2>1, <2>2, <2>3 DEF LineOf, CrewOf, Crewed
  <2>5. Line[InputOf[r]] = <<flights[f].leader>> \o flights[f].followers
    BY <2>1, LineFacts DEF CrewOf
  <2>6. LineOf(InputOf[r])' = Append(Line[InputOf[r]], r)
    BY <2>2, <2>4, <2>5, AppendToCrew
  <2>7. Line' = [Line EXCEPT ![InputOf[r]] = LineOf(InputOf[r])']
    BY <1>2, <2>1, <2>3, OtherLinesStay
  <2>8. QED
    BY <1>1, <2>3, <2>6, <2>7 DEF Abstract!Join, Line
<1>4. CASE ~JoinsFlight(r) /\ AddFlight(r)
  <2> DEFINE f == next_flight_id
  <2>1. /\ flights' = [g \in DOMAIN flights \cup {f} |->
                        IF g = f THEN [input |-> InputOf[r], leader |-> r, followers |-> <<>>]
                                 ELSE flights[g]]
        /\ exact_input_index' = [exact_input_index EXCEPT ![InputOf[r]] = f]
        /\ UNCHANGED released_request_ids
    BY <1>4 DEF AddFlight
  <2>2. f \notin DOMAIN flights /\ f # NoFlight
    BY FlightFacts, FlightAssumption DEF FlightInv, FlightTypeOK
  <2>3. exact_input_index'[InputOf[r]] = f
    BY <1>2, <2>1 DEF FlightInv, FlightTypeOK
  <2>4. LineOf(InputOf[r])' = <<r>> \o <<>>
    BY <2>1, <2>2, <2>3 DEF LineOf, CrewOf
  <2>5. Line[InputOf[r]] = <<>>
    BY <1>2, <1>4, LineFacts DEF JoinsFlight
  <2>6. LineOf(InputOf[r])' = Append(Line[InputOf[r]], r)
    BY <2>4, <2>5
  <2>7. Line' = [Line EXCEPT ![InputOf[r]] = LineOf(InputOf[r])']
    <3>1. \A g \in DOMAIN flights : g \in DOMAIN flights' /\ flights'[g] = flights[g]
      BY <2>1, <2>2
    <3>2. \A j \in Inputs \ {InputOf[r]} : exact_input_index'[j] = exact_input_index[j]
      BY <2>1 DEF FlightInv, FlightTypeOK
    <3>3. QED
      BY <1>2, <3>1, <3>2, OtherLinesStay
  <2>8. QED
    BY <1>1, <2>1, <2>6, <2>7 DEF Abstract!Join, Line
<1>5. QED
  BY <1>3, <1>4 DEF AddRequest

\* What a leader's call finds, and what a removed flight leaves.
LEMMA FlightLeaderFacts ==
  ASSUME FlightInv, NEW r \in Requests, IsMember(r)
  PROVE  LET f == request_flight_ids[r] IN
         /\ f \in DOMAIN flights /\ f # NoFlight
         /\ flights[f].input = InputOf[r] /\ InputOf[r] \in Inputs
         /\ exact_input_index[InputOf[r]] = f
         /\ flights[f].leader \in Requests /\ flights[f].followers \in Seq(Requests)
         /\ NoDuplicates(flights[f].followers)
         /\ Followers(flights[f]) = Elements(flights[f].followers)
         /\ r = flights[f].leader \/ r \in Elements(flights[f].followers)
         /\ Line[InputOf[r]] = <<flights[f].leader>> \o flights[f].followers
<1> DEFINE f == request_flight_ids[r]
<1>1. f \in DOMAIN flights /\ f # NoFlight /\ r \in {flights[f].leader} \cup Followers(flights[f])
  BY DEF FlightInv, FlightConsistent, MembersMatchFlights, FlightOf, IsMember
<1> HIDE DEF f
<1>2. /\ flights[f].input = InputOf[r]
      /\ flights[f].leader \in Requests /\ flights[f].followers \in Seq(Requests)
      /\ NoDuplicates(flights[f].followers)
      /\ Followers(flights[f]) = Elements(flights[f].followers)
  BY <1>1, FlightFacts
<1>3. exact_input_index[InputOf[r]] = f
  BY <1>1, <1>2 DEF FlightInv, FlightConsistent, IndexMatchesFlights
<1>4. Line[InputOf[r]] = <<flights[f].leader>> \o flights[f].followers /\ InputOf[r] \in Inputs
  BY <1>1, <1>2, LineFacts DEF CrewOf
<1>5. QED
  BY <1>1, <1>2, <1>3, <1>4 DEF f

LEMMA RemovedLine ==
  ASSUME FlightInv, NEW f \in DOMAIN flights, RemoveFlight(f)
  PROVE  Line' = [Line EXCEPT ![flights[f].input] = <<>>]
<1>1. PICK i \in Inputs : i = flights[f].input
  BY FlightFacts
<1>2. /\ \A g \in DOMAIN flights \ {f} : g \in DOMAIN flights' /\ flights'[g] = flights[g]
      /\ exact_input_index' = [exact_input_index EXCEPT ![i] = NoFlight]
  BY <1>1 DEF RemoveFlight
<1>3. exact_input_index \in [Inputs -> Nat \cup {NoFlight}]
  BY DEF FlightInv, FlightTypeOK
<1>4. LineOf(i)' = <<>> /\ \A j \in Inputs \ {i} : exact_input_index'[j] = exact_input_index[j]
  BY <1>2, <1>3 DEF LineOf
<1>5. \A g \in DOMAIN flights : flights[g].input # i => g # f
  BY <1>1
<1>6. Line' = [Line EXCEPT ![i] = LineOf(i)']
  BY <1>2, <1>4, <1>5, OtherLinesStay
<1>7. QED
  BY <1>1, <1>4, <1>6

LEMMA ReleaseStep ==
  ASSUME FlightInv, NEW r \in Requests, IsLeader(r), NEW running \in {{}, {r}},
         ReleaseFollowers(request_flight_ids[r], running)
  PROVE  Abstract!Release(r)
<1> DEFINE f == request_flight_ids[r]
           crew == <<r>> \o flights[f].followers
<1>1. /\ f \in DOMAIN flights /\ flights[f].input = InputOf[r] /\ flights[f].leader = r
      /\ flights[f].followers \in Seq(Requests)
      /\ Followers(flights[f]) = Elements(flights[f].followers)
      /\ Line[InputOf[r]] = crew
  BY FlightLeaderFacts DEF IsLeader, FlightOf
<1>2. /\ crew # <<>> /\ Head(crew) = r
      /\ {crew[n] : n \in 2 .. Len(crew)} = Elements(flights[f].followers)
  BY <1>1, CrewFacts
<1>3. Line' = [Line EXCEPT ![InputOf[r]] = <<>>]
  BY <1>1, RemovedLine DEF ReleaseFollowers
<1>4. released_request_ids' = released_request_ids \cup running \cup Followers(flights[f])
  BY DEF ReleaseFollowers
<1> HIDE DEF crew
<1>5. released_request_ids'
        = released_request_ids \cup running \cup {crew[n] : n \in 2 .. Len(crew)}
  BY <1>1, <1>2, <1>4
<1>6. QED
  BY <1>1, <1>2, <1>3, <1>5 DEF Abstract!Release, Line

LEMMA FinishStep ==
  ASSUME NEW r \in Requests, RemoveReleased(r)
  PROVE  Abstract!Finish(r)
<1>1. Line' = Line
  BY DEF RemoveReleased, Line, LineOf
<1>2. QED
  BY <1>1 DEF RemoveReleased, Abstract!Finish, Line

\* A member that leaves takes its own place out of the line.
LEMMA ShrinkStep ==
  ASSUME FlightInv, NEW r \in Requests, IsMember(r),
         NEW leader, NEW followers,
         flights' = [flights EXCEPT ![request_flight_ids[r]] = Crewed(@, leader, followers)],
         UNCHANGED <<exact_input_index, released_request_ids>>,
         \E n \in DOMAIN Line[InputOf[r]] :
           /\ Line[InputOf[r]][n] = r
           /\ Abstract!Drop(Line[InputOf[r]], n) = <<leader>> \o followers
  PROVE  Abstract!Leave(r)
<1>1. PICK f \in DOMAIN flights :
        /\ f = request_flight_ids[r] /\ f # NoFlight
        /\ flights[f].input = InputOf[r] /\ InputOf[r] \in Inputs
        /\ exact_input_index[InputOf[r]] = f
  BY FlightLeaderFacts
<1>2. LineOf(InputOf[r])' = <<leader>> \o followers
  BY <1>1 DEF LineOf, CrewOf, Crewed
<1>3. Line' = [Line EXCEPT ![InputOf[r]] = LineOf(InputOf[r])']
  BY <1>1, OtherLinesStay
<1>4. QED
  BY <1>2, <1>3 DEF Abstract!Leave, Line

LEMMA AbortStep ==
  ASSUME FlightInv, NEW r \in Requests, RemoveAborted(r)
  PROVE  Abstract!Finish(r) \/ Abstract!Leave(r)
<1> DEFINE f == request_flight_ids[r]
           l == flights[f].leader
           seq == flights[f].followers
<1>1. CASE RemoveReleased(r)
  BY <1>1, FinishStep
<1>2. CASE IsLeader(r) /\ PromoteNextLeader(r)
  <2>1. /\ IsMember(r) /\ l = r /\ r \in Requests /\ seq \in Seq(Requests)
        /\ Line[InputOf[r]] = <<r>> \o seq
    BY <1>2, FlightLeaderFacts DEF IsLeader, FlightOf
  <2>2. /\ seq # <<>>
        /\ flights' = [flights EXCEPT ![f] = Crewed(@, Head(seq), Tail(seq))]
        /\ UNCHANGED <<exact_input_index, released_request_ids>>
    BY <1>2 DEF PromoteNextLeader
  <2> HIDE DEF l, seq
  <2>3. Abstract!Drop(<<r>> \o seq, 1) = <<Head(seq)>> \o Tail(seq)
    BY <2>1, <2>2, DropTheLeader
  <2>4. 1 \in DOMAIN (<<r>> \o seq) /\ (<<r>> \o seq)[1] = r
    BY <2>1, CrewFacts
  <2>5. QED
    BY <2>1, <2>2, <2>3, <2>4, ShrinkStep
<1>3. CASE /\ IsLeader(r) /\ FlightOf(r).followers = <<>>
           /\ RemoveFlight(request_flight_ids[r])
           /\ UNCHANGED <<next_flight_id, released_request_ids>>
  <2>1. /\ f \in DOMAIN flights /\ flights[f].input = InputOf[r]
        /\ Line[InputOf[r]] = <<r>> \o <<>>
    BY <1>3, FlightLeaderFacts DEF IsLeader, FlightOf
  <2>2. Line' = [Line EXCEPT ![InputOf[r]] = <<>>]
    BY <1>3, <2>1, RemovedLine
  <2>3. /\ 1 \in DOMAIN (<<r>> \o <<>>) /\ (<<r>> \o <<>>)[1] = r
        /\ Abstract!Drop(<<r>> \o <<>>, 1) = <<>>
    <3> DEFINE none == <<>>
    <3>1. none \in Seq(Requests)
      OBVIOUS
    <3> HIDE DEF none
    <3>2. /\ 1 \in DOMAIN (<<r>> \o none) /\ (<<r>> \o none)[1] = r
          /\ Abstract!Drop(<<r>> \o none, 1) = none
      <4>1. /\ DOMAIN (<<r>> \o none) = 1 .. Len(none) + 1 /\ Len(none) \in Nat
            /\ (<<r>> \o none)[1] = r
        BY <3>1, CrewFacts
      <4>2. Abstract!Drop(<<r>> \o none, 1) = none
        BY <3>1, DropTheLeader
      <4>3. QED
        BY <4>1, <4>2
    <3>3. QED
      BY <3>2 DEF none
  <2>4. QED
    BY <1>3, <2>1, <2>2, <2>3 DEF Abstract!Leave, Line
<1>4. CASE IsFollower(r) /\ RemoveFollower(r)
  <2>1. /\ IsMember(r) /\ l \in Requests /\ seq \in Seq(Requests) /\ NoDuplicates(seq)
        /\ r \in Elements(seq) /\ Line[InputOf[r]] = <<l>> \o seq
    BY <1>4, FlightLeaderFacts DEF IsFollower, FlightOf
  <2>2. /\ flights' = [flights EXCEPT ![f] = Crewed(@, l, WithoutFollower(seq, r))]
        /\ UNCHANGED <<exact_input_index, released_request_ids>>
    BY <1>4 DEF RemoveFollower
  <2> HIDE DEF l, seq
  <2>3. \E n \in DOMAIN (<<l>> \o seq) :
          /\ (<<l>> \o seq)[n] = r
          /\ Abstract!Drop(<<l>> \o seq, n) = <<l>> \o WithoutFollower(seq, r)
    BY <2>1, DropAFollower
  <2>4. QED
    BY <2>1, <2>2, <2>3, ShrinkStep
<1>5. QED
  BY <1>1, <1>2, <1>3, <1>4 DEF RemoveAborted

-----------------------------------------------------------------------------
(* The refinement *)

LEMMA InitialLines == FlightInit => Abstract!Init
  BY FlightAssumption DEF FlightInit, Abstract!Init, LineOf

LEMMA StepOfLines ==
  ASSUME FlightInv, [FlightNext]_flightVars
  PROVE  [Abstract!Next]_(Abstract!sfVars)
<1>1. ASSUME UNCHANGED flightVars PROVE UNCHANGED Abstract!sfVars
  BY <1>1 DEF flightVars, Abstract!sfVars, LineOf
<1>2. ASSUME NEW r \in Requests, AddRequest(r) PROVE Abstract!Next
  BY <1>2, JoinStep DEF Abstract!Next
<1>3. ASSUME NEW r \in Requests, CoordinationPolicy = "UntilPrefixPublished",
             ReleaseAfterPrefixPublication(r)
      PROVE  Abstract!Next
  BY <1>3, ReleaseStep DEF Abstract!Next, ReleaseAfterPrefixPublication
<1>4. ASSUME NEW r \in Requests, RemoveCompleted(r) PROVE Abstract!Next
  BY <1>4, ReleaseStep, FinishStep DEF Abstract!Next, RemoveCompleted
<1>5. ASSUME NEW r \in Requests, RemoveAborted(r) PROVE Abstract!Next
  BY <1>5, AbortStep DEF Abstract!Next
<1>6. QED
  BY <1>1, <1>2, <1>3, <1>4, <1>5 DEF FlightNext, RefuseRequest

\* The coordinator implements the waiting lines: no order of calls lets a request
\* run before its turn, forgets one that waits, or releases one twice.
THEOREM CoordinatorImplementsLines == FlightSpec => ImplementsSingleFlight
<1>1. FlightInv /\ [FlightNext]_flightVars => [Abstract!Next]_(Abstract!sfVars)
  BY StepOfLines
<1>2. QED
  BY <1>1, InitialLines, InitFlightInv, NextFlightInv, PTL
     DEF FlightSpec, ImplementsSingleFlight, Abstract!Spec

-----------------------------------------------------------------------------
(* The scheduler's invariant *)

\* A request is in at most one of the queue, the active list and its termination.
ListsAreDisjoint ==
  /\ queued_requests \cap active_requests = {}
  /\ leaving \cap (queued_requests \cup active_requests) = {}

\* Without a coordinator nothing ever joins a flight.
NoFlightsWithoutCoordinator ==
  HasCoordinator \/ \A r \in Requests : ~IsRegistered(r)

SchedulerInv ==
  /\ SchedulerTypeOK
  /\ FlightConsistent
  /\ ListsAreDisjoint
  /\ ReservationsFit
  /\ BlockedAreFollowers
  /\ LeadersMakeProgress
  /\ TrackedRequests
  /\ NoFlightsWithoutCoordinator

-----------------------------------------------------------------------------
(* Sums *)

\* The units of a sum.
Pairs(f, S) == UNION {{x} \X (1 .. f[x]) : x \in S}

LEMMA PairsAreFinite ==
  ASSUME NEW S, IsFiniteSet(S), NEW f, \A x \in S : f[x] \in Nat
  PROVE  IsFiniteSet(Pairs(f, S))
<1> DEFINE Row(x) == {x} \X (1 .. f[x])
           Rows == {Row(x) : x \in S}
           g == [x \in S |-> Row(x)]
<1>1. g \in Surjection(S, Rows)
  BY Fun_IsSurj
<1>2. IsFiniteSet(Rows)
  BY <1>1, FS_Surjection
<1>3. ASSUME NEW x \in S PROVE IsFiniteSet(Row(x))
  <2>1. IsFiniteSet({x}) /\ IsFiniteSet(1 .. f[x])
    <3>1. 1 \in Int /\ f[x] \in Int
      OBVIOUS
    <3>2. QED
      BY <3>1, FS_Singleton, FS_Interval
  <2>2. QED
    BY <2>1, FS_Product
<1>4. \A R \in Rows : IsFiniteSet(R)
  BY <1>3
<1>5. IsFiniteSet(UNION Rows)
  <2> HIDE DEF Rows
  <2>1. QED
    BY <1>2, <1>4, FS_UNION
<1>6. QED
  BY <1>5 DEF Pairs

\* A sum is a natural number, grows with its terms and depends on them only.
LEMMA TotalsCompare ==
  ASSUME NEW S, IsFiniteSet(S), NEW f, NEW g,
         \A x \in S : f[x] \in Nat /\ g[x] \in Nat
  PROVE  /\ Total(f, S) \in Nat
         /\ (\A x \in S : f[x] <= g[x]) => Total(f, S) <= Total(g, S)
         /\ (\A x \in S : f[x] = g[x]) => Total(f, S) = Total(g, S)
<1>1. IsFiniteSet(Pairs(f, S)) /\ IsFiniteSet(Pairs(g, S))
  BY PairsAreFinite
<1>2. Total(f, S) = Cardinality(Pairs(f, S)) /\ Total(g, S) = Cardinality(Pairs(g, S))
  BY DEF Total, Pairs
<1>3. ASSUME \A x \in S : f[x] <= g[x] PROVE Pairs(f, S) \subseteq Pairs(g, S)
  <2>1. \A x \in S : \A i \in 1 .. f[x] : i \in 1 .. g[x]
    BY <1>3
  <2>2. \A x \in S : {x} \X (1 .. f[x]) \subseteq {x} \X (1 .. g[x])
    BY <2>1
  <2>3. QED
    BY <2>2 DEF Pairs
<1>4. ASSUME \A x \in S : f[x] = g[x] PROVE Pairs(f, S) = Pairs(g, S)
  BY <1>4 DEF Pairs
<1>5. QED
  BY <1>1, <1>2, <1>3, <1>4, FS_CardinalityType, FS_Subset

\* Sums over disjoint sets add up.
LEMMA TotalsAdd ==
  ASSUME NEW S, NEW T, IsFiniteSet(S), IsFiniteSet(T), S \cap T = {},
         NEW f, \A x \in S \cup T : f[x] \in Nat
  PROVE  Total(f, S \cup T) = Total(f, S) + Total(f, T)
<1>1. IsFiniteSet(Pairs(f, S)) /\ IsFiniteSet(Pairs(f, T))
  BY PairsAreFinite
<1>2. Pairs(f, S \cup T) = Pairs(f, S) \cup Pairs(f, T)
  BY DEF Pairs
<1>3. Pairs(f, S) \cap Pairs(f, T) = {}
  BY DEF Pairs
<1>4. Cardinality(Pairs(f, S) \cup Pairs(f, T)) =
        Cardinality(Pairs(f, S)) + Cardinality(Pairs(f, T)) - Cardinality({})
  BY <1>1, <1>3, FS_Union
<1>5. /\ Total(f, S) = Cardinality(Pairs(f, S)) /\ Total(f, T) = Cardinality(Pairs(f, T))
      /\ Total(f, S \cup T) = Cardinality(Pairs(f, S \cup T))
  BY DEF Total, Pairs
<1>6. Cardinality(Pairs(f, S)) \in Nat /\ Cardinality(Pairs(f, T)) \in Nat
  BY <1>1, FS_CardinalityType
<1>7. QED
  BY <1>2, <1>4, <1>5, <1>6, FS_EmptySet

LEMMA TotalOfOne ==
  ASSUME NEW x, NEW f, f[x] \in Nat
  PROVE  Total(f, {x}) = f[x]
<1>1. Total(f, {x}) = Cardinality({x} \X (1 .. f[x]))
  BY DEF Total
<1>2. IsFiniteSet({x}) /\ Cardinality({x}) = 1
  BY FS_Singleton
<1>3. 1 \in Int /\ f[x] \in Int
  OBVIOUS
<1>4. IsFiniteSet(1 .. f[x]) /\ Cardinality(1 .. f[x]) = f[x]
  BY <1>3, FS_Interval
<1>5. Cardinality({x} \X (1 .. f[x])) = Cardinality({x}) * Cardinality(1 .. f[x])
  BY <1>2, <1>4, FS_Product
<1>6. QED
  BY <1>1, <1>2, <1>4, <1>5

\* Ones count the elements, zeros nothing.
LEMMA TotalOfUnits ==
  ASSUME NEW S, IsFiniteSet(S), NEW f
  PROVE  /\ (\A x \in S : f[x] = 1) => Total(f, S) = Cardinality(S)
         /\ (\A x \in S : f[x] = 0) => Total(f, S) = 0
<1>1. Total(f, S) = Cardinality(Pairs(f, S))
  BY DEF Total, Pairs
<1>2. ASSUME \A x \in S : f[x] = 1 PROVE Total(f, S) = Cardinality(S)
  <2>1. Pairs(f, S) = S \X {1}
    <3>1. 1 .. 1 = {1}
      OBVIOUS
    <3>2. \A x \in S : {x} \X (1 .. f[x]) = {x} \X {1}
      BY <1>2, <3>1
    <3>3. QED
      BY <3>2 DEF Pairs
  <2>2. Cardinality(S \X {1}) = Cardinality(S) * Cardinality({1}) /\ Cardinality({1}) = 1
    BY FS_Product, FS_Singleton
  <2>3. QED
    BY <1>1, <2>1, <2>2, FS_CardinalityType
<1>3. ASSUME \A x \in S : f[x] = 0 PROVE Total(f, S) = 0
  <2>1. Pairs(f, S) = {}
    <3>1. \A x \in S : 1 .. f[x] = {}
      BY <1>3
    <3>2. QED
      BY <3>1 DEF Pairs
  <2>2. QED
    BY <1>1, <2>1, FS_EmptySet
<1>4. QED
  BY <1>2, <1>3

\* The pages that the requests of a set may need.
LEMMA ReservedPages ==
  ASSUME NEW S \in SUBSET Requests, NEW T \in SUBSET Requests
  PROVE  /\ IsFiniteSet(S)
         /\ Total(MaxRequiredPageCount, S) \in Nat
         /\ T \subseteq S =>
              Total(MaxRequiredPageCount, T) <= Total(MaxRequiredPageCount, S)
         /\ S \cap T = {} =>
              Total(MaxRequiredPageCount, S \cup T) =
                Total(MaxRequiredPageCount, S) + Total(MaxRequiredPageCount, T)
<1> DEFINE P == MaxRequiredPageCount
<1>1. \A r \in Requests : P[r] \in Nat
  BY SchedulerAssumption
<1>2. \A U \in SUBSET Requests : IsFiniteSet(U)
  BY SchedulerAssumption, FS_Subset
<1> HIDE DEF P
<1>3. ASSUME NEW U \in SUBSET Requests PROVE Total(P, U) \in Nat
  BY <1>1, <1>2, TotalsCompare
<1>4. ASSUME NEW U \in SUBSET Requests, NEW V \in SUBSET Requests, U \cap V = {}
      PROVE  Total(P, U \cup V) = Total(P, U) + Total(P, V)
  BY <1>1, <1>2, <1>4, TotalsAdd
<1>5. ASSUME T \subseteq S PROVE Total(P, T) <= Total(P, S)
  <2>1. S \ T \in SUBSET Requests /\ T \cap (S \ T) = {} /\ T \cup (S \ T) = S
    BY <1>5
  <2>2. Total(P, T \cup (S \ T)) = Total(P, T) + Total(P, S \ T)
    BY <1>4, <2>1
  <2>3. QED
    BY <1>3, <2>1, <2>2
<1>6. QED
  BY <1>2, <1>3, <1>4, <1>5 DEF P

LEMMA CountActive ==
  ASSUME NEW S \in SUBSET Requests, NEW T \in SUBSET S
  PROVE  /\ Cardinality(S) \in Nat
         /\ Cardinality(T) \in Nat
         /\ Cardinality(T) <= Cardinality(S)
<1>1. IsFiniteSet(S)
  BY ReservedPages
<1>2. QED
  BY <1>1, FS_Subset, FS_CardinalityType

\* Removing a request keeps the reservations within the capacity.
LEMMA ReservationsShrink ==
  ASSUME SchedulerInv, active_requests' \subseteq active_requests
  PROVE  ReservationsFit'
<1>1. active_requests \in SUBSET Requests /\ active_requests' \in SUBSET Requests
  BY DEF SchedulerInv, SchedulerTypeOK
<1>2. Total(MaxRequiredPageCount, active_requests')
        <= Total(MaxRequiredPageCount, active_requests)
  BY <1>1, ReservedPages
<1>3. Cardinality(active_requests') <= Cardinality(active_requests)
  BY <1>1, CountActive
<1>4. /\ Total(MaxRequiredPageCount, active_requests) \in Nat
      /\ Total(MaxRequiredPageCount, active_requests') \in Nat
      /\ Cardinality(active_requests) \in Nat
      /\ Cardinality(active_requests') \in Nat
      /\ PageCapacity \in Nat /\ MaxActiveRequestCount \in Nat
  BY <1>1, ReservedPages, CountActive, SchedulerAssumption
<1>5. QED
  BY <1>2, <1>3, <1>4 DEF SchedulerInv, ReservationsFit

\* Admission keeps them within the capacity.
LEMMA ReservationsGrow ==
  ASSUME SchedulerInv, NEW A \in SUBSET queued_requests, CanAdmit(A),
         active_requests' = active_requests \cup A
  PROVE  ReservationsFit'
<1> USE DEF SchedulerInv, SchedulerTypeOK
<1> DEFINE used == Total(MaxRequiredPageCount, active_requests)
           new == Total(MaxRequiredPageCount, A)
<1>1. A \in SUBSET Requests /\ A \cap active_requests = {}
  BY DEF ListsAreDisjoint
<1>2. used \in Nat /\ new \in Nat
      /\ Total(MaxRequiredPageCount, active_requests \cup A) = used + new
  BY <1>1, ReservedPages
<1>3. PageCapacity \in Nat /\ used <= PageCapacity
  BY SchedulerAssumption DEF ReservationsFit
<1>4. CASE A = {}
  BY <1>4, ReservationsShrink
<1>5. CASE A # {}
  <2>1. /\ Cardinality(active_requests') <= MaxActiveRequestCount
        /\ new <= UnreservedPageCount
    BY <1>5 DEF CanAdmit
  <2>2. UnreservedPageCount = PageCapacity - used
    BY <1>3 DEF UnreservedPageCount
  <2> HIDE DEF used, new
  <2>3. used + new <= PageCapacity
    BY <1>2, <1>3, <2>1, <2>2
  <2>4. QED
    BY <1>2, <2>1, <2>3 DEF ReservationsFit
<1>6. QED
  BY <1>4, <1>5

-----------------------------------------------------------------------------
(* What the calls of the coordinator do to followers and leaders *)

LEMMA AddRequestEffect ==
  ASSUME FlightInv, NEW r \in Requests, AddRequest(r)
  PROVE  /\ \A q \in Requests :
              IsFollower(q)' <=> (IsFollower(q) \/ (q = r /\ JoinsFlight(r)))
         /\ \A f \in DOMAIN flights' :
              \/ flights'[f].leader = r /\ ~JoinsFlight(r)
              \/ f \in DOMAIN flights /\ flights'[f].leader = flights[f].leader
         /\ \A q \in Requests : IsRegistered(q)' => IsRegistered(q) \/ q = r
<1> USE DEF FlightInv, FlightTypeOK, FlightConsistent
<1>1. CASE JoinsFlight(r) /\ AddFollower(r)
  <2> DEFINE f == exact_input_index[InputOf[r]]
  <2>1. f \in DOMAIN flights /\ InputOf[r] \in Inputs
    BY <1>1, FlightAssumption DEF JoinsFlight, IndexMatchesFlights
  <2>2. f # NoFlight /\ flights[f].leader # r
    BY <2>1, FlightFacts DEF AddRequest, IsRegistered, IsMember
  <2>3. /\ DOMAIN flights' = DOMAIN flights
        /\ flights'[f].leader = flights[f].leader
        /\ \A g \in DOMAIN flights \ {f} : flights'[g] = flights[g]
    BY <1>1, <2>1 DEF AddFollower, Crewed
  <2>4. request_flight_ids' = [request_flight_ids EXCEPT ![r] = f]
        /\ UNCHANGED released_request_ids
    BY <1>1 DEF AddFollower
  <2> HIDE DEF f
  <2>5. ASSUME NEW q \in Requests
        PROVE  IsFollower(q)' <=> (IsFollower(q) \/ q = r)
    <3>1. CASE q = r
      BY <2>1, <2>2, <2>3, <2>4, <3>1 DEF IsFollower, IsMember, FlightOf
    <3>2. CASE q # r
      <4>1. request_flight_ids'[q] = request_flight_ids[q]
        BY <2>4, <3>2
      <4>2. IsMember(q) => request_flight_ids[q] \in DOMAIN flights
        BY FlightFacts
      <4>3. QED
        BY <2>3, <3>2, <4>1, <4>2 DEF IsFollower, IsMember, FlightOf
    <3>3. QED
      BY <3>1, <3>2
  <2>6. \A g \in DOMAIN flights' :
          g \in DOMAIN flights /\ flights'[g].leader = flights[g].leader
    BY <2>3
  <2>7. \A q \in Requests : IsRegistered(q)' => IsRegistered(q) \/ q = r
    BY <2>4 DEF IsRegistered, IsMember
  <2>8. QED
    BY <1>1, <2>5, <2>6, <2>7
<1>2. CASE ~JoinsFlight(r) /\ AddFlight(r)
  <2> DEFINE f == next_flight_id
  <2>1. f \notin DOMAIN flights /\ f # NoFlight
    BY FlightAssumption, FlightFacts
  <2>2. /\ DOMAIN flights' = DOMAIN flights \cup {f}
        /\ flights'[f].leader = r
        /\ \A g \in DOMAIN flights : flights'[g] = flights[g]
    BY <1>2, <2>1 DEF AddFlight
  <2>3. request_flight_ids' = [request_flight_ids EXCEPT ![r] = f]
        /\ UNCHANGED released_request_ids
    BY <1>2 DEF AddFlight
  <2>4. ~IsFollower(r)
    BY DEF AddRequest, IsRegistered, IsFollower
  <2> HIDE DEF f
  <2>5. ASSUME NEW q \in Requests
        PROVE  IsFollower(q)' <=> IsFollower(q)
    <3>1. CASE q = r
      BY <2>1, <2>2, <2>3, <2>4, <3>1 DEF IsFollower, IsMember, FlightOf
    <3>2. CASE q # r
      <4>1. request_flight_ids'[q] = request_flight_ids[q]
        BY <2>3, <3>2
      <4>2. IsMember(q) => request_flight_ids[q] \in DOMAIN flights
        BY FlightFacts
      <4>3. QED
        BY <2>2, <4>1, <4>2 DEF IsFollower, IsMember, FlightOf
    <3>3. QED
      BY <3>1, <3>2
  <2>6. \A g \in DOMAIN flights' :
          \/ flights'[g].leader = r
          \/ g \in DOMAIN flights /\ flights'[g].leader = flights[g].leader
    BY <2>2
  <2>7. \A q \in Requests : IsRegistered(q)' => IsRegistered(q) \/ q = r
    BY <2>3 DEF IsRegistered, IsMember
  <2>8. QED
    BY <1>2, <2>5, <2>6, <2>7
<1>3. QED
  BY <1>1, <1>2 DEF AddRequest

\* Releasing a flight frees exactly its followers and touches no other flight.
LEMMA ReleaseEffect ==
  ASSUME FlightInv, NEW r \in Requests, IsLeader(r), NEW running \in SUBSET {r},
         ReleaseFollowers(request_flight_ids[r], running)
  PROVE  /\ Followers(FlightOf(r)) \subseteq Requests
         /\ \A q \in Followers(FlightOf(r)) : IsFollower(q)
         /\ \A q \in Requests :
              IsFollower(q)' <=> (IsFollower(q) /\ q \notin Followers(FlightOf(r)))
         /\ \A f \in DOMAIN flights' :
              f \in DOMAIN flights /\ flights'[f].leader = flights[f].leader
              /\ flights[f].leader # r
         /\ \A q \in Requests : IsRegistered(q)' => (IsRegistered(q) /\ (q = r => r \in running))
<1> USE DEF FlightInv, FlightTypeOK, FlightConsistent
<1> DEFINE f == request_flight_ids[r]
           members == {r} \cup Followers(flights[f])
<1>1. f \in DOMAIN flights /\ flights[f].leader = r /\ FlightOf(r) = flights[f]
  BY FlightFacts DEF IsLeader, FlightOf
<1>2. /\ DOMAIN flights' = DOMAIN flights \ {f}
      /\ \A g \in DOMAIN flights \ {f} : flights'[g] = flights[g]
      /\ request_flight_ids' =
           [q \in Requests |-> IF q \in members THEN NoFlight ELSE request_flight_ids[q]]
      /\ released_request_ids' =
           released_request_ids \cup running \cup Followers(flights[f])
  BY <1>1 DEF ReleaseFollowers, RemoveFlight
<1>3. \A q \in Requests : IsMember(q) => (q \in members <=> request_flight_ids[q] = f)
  BY <1>1, FlightFacts DEF MembersMatchFlights, FlightOf
<1>4. Followers(flights[f]) \subseteq Requests /\ r \notin Followers(flights[f])
      /\ \A q \in members : request_flight_ids[q] = f /\ f # NoFlight
  BY <1>1, FlightFacts
<1>5. \A q \in Followers(flights[f]) : IsFollower(q)
  BY <1>1, <1>4 DEF IsFollower, IsMember, FlightOf
<1>6. r \notin released_request_ids
  BY <1>4 DEF ReleasedAreFree
<1> HIDE DEF f, members
<1>7. ASSUME NEW q \in Requests
      PROVE  IsFollower(q)' <=> (IsFollower(q) /\ q \notin Followers(flights[f]))
  <2>1. CASE q \in members
    BY <1>1, <1>2, <2>1 DEF IsFollower, IsMember, FlightOf, members
  <2>2. CASE q \notin members
    <3>1. request_flight_ids'[q] = request_flight_ids[q]
          /\ q \notin Followers(flights[f])
      BY <1>2, <2>2 DEF members
    <3>2. IsMember(q) => request_flight_ids[q] \in DOMAIN flights \ {f}
      BY <1>3, <2>2, FlightFacts
    <3>3. QED
      BY <1>2, <3>1, <3>2 DEF IsFollower, IsMember, FlightOf
  <2>3. QED
    BY <2>1, <2>2
<1>8. \A g \in DOMAIN flights' :
        g \in DOMAIN flights /\ flights'[g].leader = flights[g].leader
        /\ flights[g].leader # r
  BY <1>1, <1>2, FlightFacts DEF f
<1>9. ASSUME NEW q \in Requests, IsRegistered(q)'
      PROVE  IsRegistered(q) /\ (q = r => r \in running)
  BY <1>2, <1>4, <1>5, <1>6, <1>9 DEF IsRegistered, IsMember, IsFollower, members
<1>10. QED
  BY <1>1, <1>4, <1>5, <1>7, <1>8, <1>9

\* Aborting a leader that has followers makes the oldest of them the leader.
LEMMA PromoteEffect ==
  ASSUME FlightInv, NEW r \in Requests, IsLeader(r), PromoteNextLeader(r)
  PROVE  LET next == Head(FlightOf(r).followers) IN
         /\ next \in Requests /\ IsFollower(next)
         /\ \A q \in Requests : IsFollower(q)' <=> (IsFollower(q) /\ q # next)
         /\ \A f \in DOMAIN flights' :
              f \in DOMAIN flights
              /\ \/ flights'[f].leader = next
                 \/ flights'[f].leader = flights[f].leader /\ flights[f].leader # r
         /\ \A q \in Requests : IsRegistered(q)' => IsRegistered(q) /\ q # r
<1> USE DEF FlightInv, FlightTypeOK, FlightConsistent
<1> DEFINE f == request_flight_ids[r]
           next == Head(FlightOf(r).followers)
<1>1. f \in DOMAIN flights /\ flights[f].leader = r /\ FlightOf(r) = flights[f]
      /\ f # NoFlight
  BY FlightFacts DEF IsLeader, FlightOf
<1>2. next \in Requests /\ next \in Followers(flights[f])
  BY <1>1, FlightFacts, PopFollower DEF PromoteNextLeader
<1>3. request_flight_ids[next] = f /\ next # r
  BY <1>1, <1>2, FlightFacts
<1>4. /\ DOMAIN flights' = DOMAIN flights
      /\ flights'[f].leader = next
      /\ \A g \in DOMAIN flights \ {f} : flights'[g] = flights[g]
      /\ request_flight_ids' = [request_flight_ids EXCEPT ![r] = NoFlight]
      /\ UNCHANGED released_request_ids
  BY <1>1 DEF PromoteNextLeader, Crewed
<1> HIDE DEF f, next
<1>5. ASSUME NEW q \in Requests
      PROVE  IsFollower(q)' <=> (IsFollower(q) /\ q # next)
  <2>1. CASE q = r
    BY <1>1, <1>4, <2>1 DEF IsFollower, IsMember
  <2>2. CASE q # r /\ request_flight_ids[q] = f
    BY <1>1, <1>3, <1>4, <2>2 DEF IsFollower, IsMember, FlightOf
  <2>3. CASE q # r /\ request_flight_ids[q] # f
    <3>1. request_flight_ids'[q] = request_flight_ids[q]
      BY <1>4, <2>3
    <3>2. IsMember(q) => request_flight_ids[q] \in DOMAIN flights
      BY FlightFacts
    <3>3. QED
      BY <1>3, <1>4, <2>3, <3>1, <3>2 DEF IsFollower, IsMember, FlightOf
  <2>4. QED
    BY <2>1, <2>2, <2>3
<1>6. \A g \in DOMAIN flights' :
        g \in DOMAIN flights
        /\ \/ flights'[g].leader = next
           \/ flights'[g].leader = flights[g].leader /\ flights[g].leader # r
  <2>1. \A g \in DOMAIN flights \ {f} : flights[g].leader # r
    BY FlightFacts DEF f
  <2>2. QED
    BY <1>4, <2>1
<1>7. \A q \in Requests : IsRegistered(q)' => IsRegistered(q) /\ q # r
  BY <1>1, <1>4 DEF IsRegistered, IsMember, IsLeader, ReleasedAreFree
<1>8. IsFollower(next)
  BY <1>1, <1>3 DEF IsFollower, IsMember, FlightOf
<1>9. QED
  BY <1>2, <1>5, <1>6, <1>7, <1>8 DEF next

\* A leader is a registered member of its own flight, so it is not a follower.
LEMMA LeaderFacts ==
  ASSUME FlightInv, NEW f \in DOMAIN flights
  PROVE  /\ flights[f].leader \in Requests
         /\ ~IsFollower(flights[f].leader)
         /\ IsRegistered(flights[f].leader)
         /\ flights[f].leader \notin released_request_ids
BY FlightFacts DEF IsFollower, IsRegistered, IsMember, FlightOf, FlightInv,
   FlightConsistent, ReleasedAreFree

\* A step that calls no operation of the coordinator keeps who follows and leads.
LEMMA SameFlights ==
  ASSUME UNCHANGED flightVars
  PROVE  /\ \A q \in Requests : IsFollower(q)' <=> IsFollower(q)
         /\ \A q \in Requests : IsRegistered(q)' <=> IsRegistered(q)
         /\ flights' = flights
BY DEF flightVars, IsFollower, IsRegistered, IsMember, FlightOf

-----------------------------------------------------------------------------
(* Each step keeps the invariant *)

LEMMA InitSchedulerInv == SchedulerInit => SchedulerInv
<1> SUFFICES ASSUME SchedulerInit PROVE SchedulerInv
  OBVIOUS
<1>1. FlightInv
  BY InitFlightInv DEF SchedulerInit
<1>2. SchedulerTypeOK
  BY <1>1 DEF SchedulerInit, SchedulerTypeOK, FlightInv
<1>3. ReservationsFit
  <2>1. Total(MaxRequiredPageCount, {}) = 0
    BY FS_EmptySet DEF Total
  <2>2. QED
    BY <2>1, FS_EmptySet, SchedulerAssumption DEF SchedulerInit, ReservationsFit
<1>4. QED
  BY <1>1, <1>2, <1>3
     DEF SchedulerInit, FlightInit, SchedulerInv, FlightInv, ListsAreDisjoint,
         BlockedAreFollowers, LeadersMakeProgress, TrackedRequests,
         NoFlightsWithoutCoordinator, IsFollower, IsRegistered, IsMember

LEMMA EnqueueRequestInv ==
  ASSUME SchedulerInv, NEW r \in Requests, EnqueueRequest(r)
  PROVE  SchedulerInv'
<1> DEFINE l(f) == flights[f].leader
<1>1. FlightInv
  BY DEF SchedulerInv, SchedulerTypeOK, FlightInv
<1>2. /\ r \notin queued_requests \cup active_requests \cup leaving
      /\ queued_requests' = queued_requests \cup {r}
      /\ active_requests' = active_requests
      /\ leaving' = leaving
  BY DEF EnqueueRequest, callerVars
<1>3. FlightInv'
  BY <1>1, AddRequestInv, UnchangedFlightInv DEF EnqueueRequest
<1>4. SchedulerTypeOK'
  <2>1. InputTokenCount[InputOf[r]] \in Nat
    BY FlightAssumption, SchedulerAssumption
  <2>2. QED
    BY <1>2, <1>3, <2>1
       DEF EnqueueRequest, SchedulerInv, SchedulerTypeOK, FlightInv, callerVars
<1>5. ListsAreDisjoint'
  BY <1>2 DEF SchedulerInv, ListsAreDisjoint
<1>6. ReservationsFit'
  BY <1>2, ReservationsShrink
<1>7. CASE HasCoordinator
  <2>1. AddRequest(r)
    BY <1>7 DEF EnqueueRequest
  <2>2. blocked_requests' =
          IF JoinsFlight(r) THEN blocked_requests \cup {r} ELSE blocked_requests
    BY <1>7 DEF EnqueueRequest
  <2>3. BlockedAreFollowers'
    BY <1>1, <1>2, <2>1, <2>2, AddRequestEffect DEF SchedulerInv, BlockedAreFollowers
  <2>4. ASSUME NEW f \in DOMAIN flights'
        PROVE  flights'[f].leader \in Runnable' \cup active_requests' \cup leaving'
    <3>1. CASE flights'[f].leader = r /\ ~JoinsFlight(r)
      BY <1>2, <2>2, <3>1 DEF Runnable, SchedulerInv, BlockedAreFollowers
    <3>2. CASE f \in DOMAIN flights /\ flights'[f].leader = flights[f].leader
      BY <1>2, <2>2, <3>2 DEF Runnable, SchedulerInv, LeadersMakeProgress
    <3>3. QED
      BY <1>1, <2>1, <3>1, <3>2, AddRequestEffect
  <2>5. TrackedRequests'
    BY <1>1, <1>2, <2>1, AddRequestEffect DEF SchedulerInv, TrackedRequests
  <2>6. QED
    BY <1>3, <1>4, <1>5, <1>6, <1>7, <2>3, <2>4, <2>5
       DEF SchedulerInv, FlightInv, LeadersMakeProgress, NoFlightsWithoutCoordinator,
           HasCoordinator
<1>8. CASE ~HasCoordinator
  <2>1. UNCHANGED flightVars /\ blocked_requests' = blocked_requests
    BY <1>8 DEF EnqueueRequest
  <2>2. QED
    BY <1>1, <1>2, <1>3, <1>4, <1>5, <1>6, <1>8, <2>1, SameFlights, LeaderFacts
       DEF SchedulerInv, FlightInv, BlockedAreFollowers, LeadersMakeProgress,
           TrackedRequests, NoFlightsWithoutCoordinator, HasCoordinator
<1>9. QED
  BY <1>7, <1>8

\* A step that moves requests between the lists without any call of the
\* coordinator: blocked requests stay queued and leaders stay runnable.
LEMMA MoveInv ==
  ASSUME SchedulerInv, UNCHANGED <<flightVars, blocked_requests>>,
         SchedulerTypeOK', ListsAreDisjoint', ReservationsFit',
         blocked_requests \subseteq queued_requests',
         queued_requests \cup active_requests \cup leaving \subseteq
           queued_requests' \cup active_requests' \cup leaving'
  PROVE  SchedulerInv'
<1>1. FlightInv /\ FlightInv'
  BY UnchangedFlightInv DEF SchedulerInv, SchedulerTypeOK, FlightInv
<1>2. /\ \A q \in Requests : IsFollower(q)' <=> IsFollower(q)
      /\ \A q \in Requests : IsRegistered(q)' <=> IsRegistered(q)
      /\ flights' = flights
  BY SameFlights
<1>3. BlockedAreFollowers'
  BY <1>2 DEF SchedulerInv, BlockedAreFollowers
<1>4. TrackedRequests'
  BY <1>2 DEF SchedulerInv, TrackedRequests
<1>5. ASSUME NEW f \in DOMAIN flights'
      PROVE  flights'[f].leader \in Runnable' \cup active_requests' \cup leaving'
  <2>1. flights[f].leader \in Requests /\ ~IsFollower(flights[f].leader)
    BY <1>1, <1>2, LeaderFacts
  <2>2. flights[f].leader \notin blocked_requests
    BY <2>1 DEF SchedulerInv, BlockedAreFollowers
  <2>3. flights[f].leader \in queued_requests \cup active_requests \cup leaving
    BY <1>2 DEF SchedulerInv, LeadersMakeProgress, Runnable
  <2>4. QED
    BY <1>2, <2>2, <2>3 DEF Runnable
<1>6. QED
  BY <1>1, <1>2, <1>3, <1>4, <1>5
     DEF SchedulerInv, FlightInv, LeadersMakeProgress, NoFlightsWithoutCoordinator,
         HasCoordinator

LEMMA AdmitQueuedRequestsInv ==
  ASSUME SchedulerInv, AdmitQueuedRequests
  PROVE  SchedulerInv'
<1>1. PICK A \in SUBSET Runnable : IsAdmission(A) /\ Admit(A)
  BY DEF AdmitQueuedRequests
<1>2. /\ A \in SUBSET queued_requests /\ A \cap blocked_requests = {}
      /\ CanAdmit(A)
      /\ queued_requests' = queued_requests \ A
      /\ active_requests' = active_requests \cup A
  BY <1>1 DEF Runnable, IsAdmission, Admit
<1>3. UNCHANGED <<flightVars, blocked_requests, phase, remaining, generated,
                  next_round_robin_prefill_request_id, publishing, leaving>>
  BY DEF AdmitQueuedRequests, callerVars
<1>4. FlightTypeOK'
  BY <1>3, UnchangedFlightInv DEF SchedulerInv, SchedulerTypeOK, FlightInv
<1>5. SchedulerTypeOK'
  BY <1>1, <1>2, <1>3, <1>4 DEF SchedulerInv, SchedulerTypeOK, Admit
<1>6. ListsAreDisjoint'
  BY <1>2, <1>3 DEF SchedulerInv, ListsAreDisjoint
<1>7. ReservationsFit'
  BY <1>2, ReservationsGrow
<1>8. blocked_requests \subseteq queued_requests'
  BY <1>2 DEF SchedulerInv, BlockedAreFollowers
<1>9. QED
  BY <1>2, <1>3, <1>5, <1>6, <1>7, <1>8, MoveInv

LEMMA CallRemoveActiveInv ==
  ASSUME SchedulerInv, NEW r \in Requests, CallRemoveActive(r)
  PROVE  SchedulerInv'
<1>1. /\ r \in active_requests
      /\ active_requests' = active_requests \ {r}
      /\ queued_requests' = queued_requests
      /\ leaving' = leaving \cup {r}
      /\ UNCHANGED <<flightVars, blocked_requests>>
  BY DEF CallRemoveActive, RemoveActive
<1>2. FlightTypeOK'
  BY <1>1, UnchangedFlightInv DEF SchedulerInv, SchedulerTypeOK, FlightInv
<1>3. SchedulerTypeOK'
  BY <1>1, <1>2 DEF SchedulerInv, SchedulerTypeOK, CallRemoveActive, RemoveActive
<1>4. ListsAreDisjoint'
  BY <1>1 DEF SchedulerInv, ListsAreDisjoint
<1>5. ReservationsFit'
  BY <1>1, ReservationsShrink
<1>6. QED
  BY <1>1, <1>3, <1>4, <1>5, MoveInv DEF SchedulerInv, BlockedAreFollowers

LEMMA CallUpdateInv ==
  ASSUME SchedulerInv, NEW r \in Requests, NEW n,
         CallUpdatePrefill(r, n) \/ CallUpdateDecode(r, n)
  PROVE  SchedulerInv'
<1>1. UNCHANGED <<flightVars, blocked_requests, queued_requests, active_requests, leaving>>
  BY DEF CallUpdatePrefill, CallUpdateDecode, UpdatePrefill, UpdateDecode, callerVars
<1>2. FlightTypeOK'
  BY <1>1, UnchangedFlightInv DEF SchedulerInv, SchedulerTypeOK, FlightInv
<1>3. SchedulerTypeOK'
  <2> USE DEF SchedulerInv, SchedulerTypeOK
  <2>1. remaining[r] \in Nat /\ generated[r] \in Nat /\ MaxNewTokenCount[r] \in Nat
    BY SchedulerAssumption
  <2>2. CASE CallUpdatePrefill(r, n)
    <3>1. n \in Nat
      BY <2>1, <2>2 DEF CallUpdatePrefill
    <3>2. QED
      BY <1>1, <1>2, <2>2, <3>1 DEF CallUpdatePrefill, UpdatePrefill, callerVars
  <2>3. CASE CallUpdateDecode(r, n)
    <3>1. n \in Nat
      BY <2>1, <2>3 DEF CallUpdateDecode
    <3>2. r \notin queued_requests
      BY <2>3 DEF CallUpdateDecode, UpdateDecode, ListsAreDisjoint
    <3>3. QED
      BY <1>1, <1>2, <2>3, <3>1, <3>2 DEF CallUpdateDecode, UpdateDecode
  <2>4. QED
    BY <2>2, <2>3
<1>4. ListsAreDisjoint'
  BY <1>1 DEF SchedulerInv, ListsAreDisjoint
<1>5. ReservationsFit'
  BY <1>1, ReservationsShrink
<1>6. QED
  BY <1>1, <1>3, <1>4, <1>5, MoveInv DEF SchedulerInv, BlockedAreFollowers

LEMMA CreateSchedulingDecisionInv ==
  ASSUME SchedulerInv, CreateSchedulingDecision
  PROVE  SchedulerInv'
<1>1. UNCHANGED <<flightVars, blocked_requests, queued_requests, active_requests, leaving>>
  BY DEF CreateSchedulingDecision, requestVars, callerVars
<1>2. FlightTypeOK'
  BY <1>1, UnchangedFlightInv DEF SchedulerInv, SchedulerTypeOK, FlightInv
<1>3. next_round_robin_prefill_request_id' \in Requests \cup {NoRequest}
  BY DEF SchedulerInv, SchedulerTypeOK, CreateSchedulingDecision, UpdateRoundRobinCursor,
         ActiveIn
<1>7. SchedulerTypeOK'
  BY <1>2, <1>3
     DEF SchedulerInv, SchedulerTypeOK, CreateSchedulingDecision, requestVars, callerVars
<1>4. ListsAreDisjoint'
  BY <1>1 DEF SchedulerInv, ListsAreDisjoint
<1>5. ReservationsFit'
  BY <1>1, ReservationsShrink
<1>6. QED
  BY <1>1, <1>4, <1>5, <1>7, MoveInv DEF SchedulerInv, BlockedAreFollowers

\* A call of the coordinator that frees some followers, which may lead from now on,
\* and forgets requests only when they have reported their termination.
LEMMA CoordinatorCallInv ==
  ASSUME SchedulerInv, FlightInv', UNCHANGED <<requestVars, next_round_robin_prefill_request_id>>,
         publishing' \subseteq publishing, leaving' \subseteq leaving,
         NEW freed, freed \subseteq queued_requests,
         blocked_requests' = blocked_requests \ freed,
         \A q \in Requests : IsFollower(q)' <=> (IsFollower(q) /\ q \notin freed),
         \A f \in DOMAIN flights' :
           \/ flights'[f].leader \in freed
           \/ /\ f \in DOMAIN flights /\ flights'[f].leader = flights[f].leader
              /\ flights[f].leader \notin leaving \ leaving',
         \A q \in Requests : IsRegistered(q)' => IsRegistered(q) /\ q \notin leaving \ leaving'
  PROVE  SchedulerInv'
<1>1. UNCHANGED <<queued_requests, active_requests>>
  BY DEF requestVars
<1>2. SchedulerTypeOK'
  BY DEF SchedulerInv, SchedulerTypeOK, FlightInv, requestVars
<1>3. ListsAreDisjoint'
  BY <1>1 DEF SchedulerInv, ListsAreDisjoint
<1>4. ReservationsFit'
  BY <1>1, ReservationsShrink
<1>5. BlockedAreFollowers'
  BY <1>1 DEF SchedulerInv, BlockedAreFollowers
<1>6. LeadersMakeProgress'
  BY <1>1 DEF SchedulerInv, LeadersMakeProgress, Runnable
<1>7. TrackedRequests' /\ NoFlightsWithoutCoordinator'
  BY <1>1 DEF SchedulerInv, TrackedRequests, NoFlightsWithoutCoordinator, HasCoordinator
<1>8. QED
  BY <1>2, <1>3, <1>4, <1>5, <1>6, <1>7 DEF SchedulerInv, FlightInv

\* The same for a call that frees nobody.
LEMMA QuietCallInv ==
  ASSUME SchedulerInv, FlightInv', UNCHANGED <<requestVars, next_round_robin_prefill_request_id>>,
         publishing' \subseteq publishing, leaving' \subseteq leaving,
         blocked_requests' = blocked_requests,
         \A q \in Requests : IsFollower(q)' <=> IsFollower(q),
         flights' = flights,
         \A f \in DOMAIN flights : flights[f].leader \notin leaving \ leaving',
         \A q \in Requests : IsRegistered(q)' => IsRegistered(q) /\ q \notin leaving \ leaving'
  PROVE  SchedulerInv'
<1> DEFINE nobody == {}
<1>1. nobody \subseteq queued_requests /\ \A q : q \notin nobody
  OBVIOUS
<1>2. blocked_requests' = blocked_requests \ nobody
  OBVIOUS
<1> HIDE DEF nobody
<1>3. \A q \in Requests : IsFollower(q)' <=> (IsFollower(q) /\ q \notin nobody)
  BY <1>1
<1>4. QED
  BY <1>1, <1>2, <1>3, CoordinatorCallInv

LEMMA CallReleasePrefixFlightInv ==
  ASSUME SchedulerInv, NEW r \in Requests, CallReleasePrefixFlight(r)
  PROVE  SchedulerInv'
<1>1. /\ UNCHANGED <<requestVars, next_round_robin_prefill_request_id, leaving>>
      /\ publishing' = publishing \ {r}
      /\ ReleasePrefixFlight(r)
  BY DEF CallReleasePrefixFlight
<1>2. FlightInv
  BY DEF SchedulerInv, SchedulerTypeOK, FlightInv
<1>3. CASE CoordinationPolicy = "UntilPrefixPublished"
  <2>1. /\ IsLeader(r) /\ ReleaseFollowers(request_flight_ids[r], {r})
        /\ Followers(FlightOf(r)) \subseteq queued_requests
        /\ blocked_requests' = blocked_requests \ Followers(FlightOf(r))
    BY <1>1, <1>3
       DEF ReleasePrefixFlight, ReleaseAfterPrefixPublication, UnblockRequests,
           RunnableAfterPublication, HasCoordinator
  <2>2. FlightInv'
    BY <1>2, <2>1, ReleaseFollowersInv
  <2>3. QED
    BY <1>1, <1>2, <2>1, <2>2, ReleaseEffect, CoordinatorCallInv
<1>4. CASE CoordinationPolicy # "UntilPrefixPublished"
  <2>1. UNCHANGED <<flightVars, blocked_requests>>
    BY <1>1, <1>4
       DEF ReleasePrefixFlight, ReleaseAfterPrefixPublication, UnblockRequests,
           RunnableAfterPublication
  <2>2. FlightInv'
    BY <1>2, <2>1, UnchangedFlightInv
  <2>3. /\ publishing' \subseteq publishing /\ leaving' \subseteq leaving
        /\ leaving \ leaving' = {}
    BY <1>1
  <2>4. /\ \A q \in Requests : IsFollower(q)' <=> IsFollower(q)
        /\ \A q \in Requests : IsRegistered(q)' => IsRegistered(q)
        /\ flights' = flights
    BY <2>1, SameFlights
  <2>5. QED
    BY <1>1, <2>1, <2>2, <2>3, <2>4, QuietCallInv
<1>5. QED
  BY <1>3, <1>4

\* Only a request in its last step can be removed as a leader or a released member;
\* a follower cannot, because followers are queued.
LEMMA CallTerminateInv ==
  ASSUME SchedulerInv, NEW r \in Requests, CallComplete(r) \/ CallAbort(r)
  PROVE  SchedulerInv'
<1>1. /\ r \in leaving /\ leaving' = leaving \ {r}
      /\ UNCHANGED <<requestVars, next_round_robin_prefill_request_id, publishing>>
  BY DEF CallComplete, CallAbort
<1>2. FlightInv /\ ~IsFollower(r)
  <2>1. r \notin queued_requests
    BY <1>1 DEF SchedulerInv, ListsAreDisjoint
  <2>2. QED
    BY <2>1 DEF SchedulerInv, SchedulerTypeOK, FlightInv, BlockedAreFollowers
<1>3. leaving \ leaving' = {r}
  BY <1>1
<1>4. CASE HasCoordinator /\ RemoveReleased(r) /\ blocked_requests' = blocked_requests
  <2>1. FlightInv' /\ flights' = flights
    BY <1>2, <1>4, RemoveReleasedInv DEF RemoveReleased
  <2>2. \A q \in Requests : IsFollower(q)' <=> IsFollower(q)
    BY <1>4 DEF RemoveReleased, IsFollower, IsMember, FlightOf
  <2>3. ~IsMember(r)
    BY <1>2, <1>4 DEF FlightInv, FlightConsistent, ReleasedAreFree, RemoveReleased, IsMember
  <2>4. \A q \in Requests : IsRegistered(q)' => IsRegistered(q) /\ q # r
    BY <1>4, <2>3 DEF RemoveReleased, IsRegistered, IsMember
  <2>5. \A f \in DOMAIN flights : flights[f].leader # r
    BY <1>2, <1>4, LeaderFacts DEF RemoveReleased
  <2>6. QED
    BY <1>1, <1>3, <1>4, <2>1, <2>2, <2>4, <2>5, QuietCallInv
<1>5. CASE /\ IsLeader(r) /\ ReleaseFollowers(request_flight_ids[r], {})
           /\ Followers(FlightOf(r)) \subseteq queued_requests
           /\ blocked_requests' = blocked_requests \ Followers(FlightOf(r))
  <2>1. FlightInv'
    BY <1>2, <1>5, ReleaseFollowersInv
  <2>2. QED
    BY <1>1, <1>2, <1>3, <1>5, <2>1, ReleaseEffect, CoordinatorCallInv
<1>6. CASE /\ IsLeader(r) /\ PromoteNextLeader(r)
           /\ Head(FlightOf(r).followers) \in queued_requests
           /\ blocked_requests' = blocked_requests \ {Head(FlightOf(r).followers)}
  <2> DEFINE freed == {Head(FlightOf(r).followers)}
  <2>1. FlightInv'
    BY <1>2, <1>6, PromoteNextLeaderInv
  <2>2. /\ freed \subseteq queued_requests
        /\ blocked_requests' = blocked_requests \ freed
    BY <1>6
  <2>3. /\ \A q \in Requests : IsFollower(q)' <=> (IsFollower(q) /\ q \notin freed)
        /\ \A f \in DOMAIN flights' :
             \/ flights'[f].leader \in freed
             \/ /\ f \in DOMAIN flights /\ flights'[f].leader = flights[f].leader
                /\ flights[f].leader # r
        /\ \A q \in Requests : IsRegistered(q)' => IsRegistered(q) /\ q # r
    BY <1>2, <1>6, PromoteEffect
  <2> HIDE DEF freed
  <2>4. QED
    BY <1>1, <1>3, <2>1, <2>2, <2>3, CoordinatorCallInv
<1>7. CASE ~HasCoordinator /\ UNCHANGED <<flightVars, blocked_requests>>
  <2>1. \A q \in Requests : ~IsRegistered(q)
    BY <1>7 DEF SchedulerInv, NoFlightsWithoutCoordinator
  <2>2. \A f \in DOMAIN flights : FALSE
    BY <1>2, <2>1, LeaderFacts
  <2>3. FlightInv' /\ UNCHANGED flightVars
    BY <1>2, <1>7, UnchangedFlightInv
  <2>4. /\ flights' = flights
        /\ \A q \in Requests : IsFollower(q)' <=> IsFollower(q)
        /\ \A q \in Requests : ~IsRegistered(q)'
    BY <2>1, <2>3, SameFlights
  <2>5. leaving' \subseteq leaving /\ publishing' \subseteq publishing
    BY <1>1
  <2>6. blocked_requests' = blocked_requests
        /\ UNCHANGED <<requestVars, next_round_robin_prefill_request_id>>
    BY <1>1, <1>7
  <2>7. QED
    BY <2>2, <2>3, <2>4, <2>5, <2>6, QuietCallInv
<1>8. CASE HasCoordinator /\ CompleteRequest(r)
  <2>1. RemoveCompleted(r) /\ UnblockRequests(RunnableAfterCompletion(r))
    BY <1>8 DEF CompleteRequest
  <2>2. QED
    BY <1>4, <1>5, <1>8, <2>1
       DEF RemoveCompleted, RemoveReleased, RunnableAfterCompletion, UnblockRequests
<1>9. CASE HasCoordinator /\ AbortRequest(r)
  <2>1. RemoveAborted(r) /\ UnblockRequests(RunnableAfterAbort(r))
    BY <1>9 DEF AbortRequest
  <2>2. CASE RemoveReleased(r)
    BY <1>4, <1>9, <2>1, <2>2 DEF RemoveReleased, RunnableAfterAbort, UnblockRequests
  <2>3. CASE r \notin released_request_ids /\ IsLeader(r) /\ PromoteNextLeader(r)
    <3>1. FlightOf(r).followers # <<>>
      BY <2>3 DEF PromoteNextLeader, FlightOf
    <3>2. QED
      BY <1>6, <2>1, <2>3, <3>1 DEF RunnableAfterAbort, UnblockRequests
  <2>4. CASE /\ r \notin released_request_ids /\ IsLeader(r)
             /\ FlightOf(r).followers = <<>>
             /\ RemoveFlight(request_flight_ids[r])
             /\ UNCHANGED <<next_flight_id, released_request_ids>>
    <3>1. Followers(FlightOf(r)) = {}
      BY <2>4 DEF Followers
    <3>2. ReleaseFollowers(request_flight_ids[r], {})
      BY <2>4, <3>1 DEF ReleaseFollowers, FlightOf
    <3>3. blocked_requests' = blocked_requests
      BY <2>1, <2>4 DEF RunnableAfterAbort, UnblockRequests
    <3>4. QED
      BY <1>5, <2>4, <3>1, <3>2, <3>3
  <2>5. QED
    BY <1>2, <2>1, <2>2, <2>3, <2>4 DEF RemoveAborted
<1>10. QED
  BY <1>7, <1>8, <1>9 DEF CallComplete, CallAbort, CompleteRequest, AbortRequest

LEMMA NextSchedulerInv == SchedulerInv /\ [SchedulerNext]_schedulerVars => SchedulerInv'
<1> SUFFICES ASSUME SchedulerInv, [SchedulerNext]_schedulerVars PROVE SchedulerInv'
  OBVIOUS
<1>1. CASE UNCHANGED schedulerVars
  <2>1. UNCHANGED <<flightVars, requestVars, blocked_requests,
                    next_round_robin_prefill_request_id, callerVars>>
    BY <1>1 DEF schedulerVars
  <2>2. FlightInv'
    BY <2>1, UnchangedFlightInv DEF SchedulerInv, SchedulerTypeOK, FlightInv
  <2>3. UNCHANGED <<publishing, leaving>>
    BY <2>1 DEF callerVars
  <2>4. FlightInv
    BY DEF SchedulerInv, SchedulerTypeOK, FlightInv
  <2>5. QED
    BY <2>1, <2>2, <2>3, <2>4, SameFlights, QuietCallInv
<1>2. CASE AdmitQueuedRequests
  BY <1>2, AdmitQueuedRequestsInv
<1>3. CASE CreateSchedulingDecision
  BY <1>3, CreateSchedulingDecisionInv
<1>4. ASSUME NEW r \in Requests, EnqueueRequest(r) PROVE SchedulerInv'
  BY <1>4, EnqueueRequestInv
<1>5. ASSUME NEW r \in Requests, NEW n, CallUpdatePrefill(r, n) \/ CallUpdateDecode(r, n)
      PROVE SchedulerInv'
  BY <1>5, CallUpdateInv
<1>6. ASSUME NEW r \in Requests, CallReleasePrefixFlight(r) PROVE SchedulerInv'
  BY <1>6, CallReleasePrefixFlightInv
<1>7. ASSUME NEW r \in Requests, CallRemoveActive(r) PROVE SchedulerInv'
  BY <1>7, CallRemoveActiveInv
<1>8. ASSUME NEW r \in Requests, CallComplete(r) \/ CallAbort(r) PROVE SchedulerInv'
  BY <1>8, CallTerminateInv
<1>9. QED
  BY <1>1, <1>2, <1>3, <1>4, <1>5, <1>6, <1>7, <1>8 DEF SchedulerNext

LEMMA SchedulerInvHolds == SchedulerSpec => []SchedulerInv
BY InitSchedulerInv, NextSchedulerInv, PTL DEF SchedulerSpec

-----------------------------------------------------------------------------
(* The order of the lists *)

\* ahead orders the requests of S: it names only them, compares any two and is transitive.
IsOrdered(S) ==
  /\ \A r \in S : ahead[r] \subseteq S \ {r}
  /\ \A q, r \in S : q # r => q \in ahead[r] \/ r \in ahead[q]
  /\ \A p, q, r \in S : p \in ahead[q] /\ q \in ahead[r] => p \in ahead[r]

\* Each of the two Vecs is in one order.
OrderInv == IsOrdered(queued_requests) /\ IsOrdered(active_requests)

\* Both sorts are stable: the requests of each list stay in one order under every policy.
LEMMA QueueIsOrdered ==
  ASSUME SchedulerTypeOK, OrderInv
  PROVE  /\ \A r \in queued_requests : ~ QueuedBefore(r, r)
         /\ \A q, r \in queued_requests : q # r => QueuedBefore(q, r) \/ QueuedBefore(r, q)
         /\ \A p, q, r \in queued_requests :
              QueuedBefore(p, q) /\ QueuedBefore(q, r) => QueuedBefore(p, r)
<1>1. \A r \in queued_requests : remaining[r] \in Nat
  BY DEF SchedulerTypeOK
<1>2. IsOrdered(queued_requests)
  BY DEF OrderInv
<1>3. QED
  BY <1>1, <1>2 DEF QueuedBefore, IsOrdered

\* A new request is the last of the queue.
LEMMA EnqueueKeepsOrder ==
  ASSUME SchedulerInv, OrderInv, NEW r \in Requests, EnqueueRequest(r)
  PROVE  OrderInv'
<1>1. /\ r \notin queued_requests \cup active_requests
      /\ queued_requests' = queued_requests \cup {r} /\ active_requests' = active_requests
      /\ ahead' = [ahead EXCEPT ![r] = queued_requests]
  BY DEF EnqueueRequest
<1>2. /\ ahead \in [Requests -> SUBSET Requests]
      /\ queued_requests \cup active_requests \subseteq Requests
  BY DEF SchedulerInv, SchedulerTypeOK
<1>3. ahead'[r] = queued_requests /\ \A q \in Requests \ {r} : ahead'[q] = ahead[q]
  BY <1>1, <1>2
<1>4. IsOrdered(queued_requests)'
  BY <1>1, <1>2, <1>3 DEF OrderInv, IsOrdered
<1>5. IsOrdered(active_requests)'
  BY <1>1, <1>2, <1>3 DEF OrderInv, IsOrdered
<1>6. QED
  BY <1>4, <1>5 DEF OrderInv

\* Admitted requests join the active ones behind them, in the order of the queue.
LEMMA AdmissionKeepsOrder ==
  ASSUME SchedulerInv, OrderInv, AdmitQueuedRequests
  PROVE  OrderInv'
<1>1. PICK A \in SUBSET queued_requests : Admit(A)
  BY DEF AdmitQueuedRequests, Runnable
<1>2. /\ queued_requests \cup active_requests \subseteq Requests
      /\ queued_requests \cap active_requests = {}
  BY DEF SchedulerInv, SchedulerTypeOK, ListsAreDisjoint
<1>3. /\ queued_requests' = queued_requests \ A /\ active_requests' = active_requests \cup A
      /\ \A r \in Requests : ahead'[r] =
           IF r \in A THEN active_requests \cup {q \in A : QueuedBefore(q, r)}
                      ELSE ahead[r] \ A
  BY <1>1 DEF Admit
<1>4. /\ \A r \in queued_requests' : ahead'[r] = ahead[r] \ A
      /\ \A r \in active_requests : ahead'[r] = ahead[r]
      /\ \A r \in A : ahead'[r] = active_requests \cup {q \in A : QueuedBefore(q, r)}
  <2>1. /\ \A r \in queued_requests \ A : r \in Requests /\ r \notin A
        /\ \A r \in A : r \in Requests
        /\ \A r \in active_requests : r \in Requests /\ r \notin A
    BY <1>2
  <2>2. \A r \in active_requests : ahead'[r] = ahead[r] \ A
    BY <1>3, <2>1
  <2>3. ASSUME NEW r \in active_requests PROVE ahead[r] \ A = ahead[r]
    <3>1. ahead[r] \subseteq active_requests
      BY DEF OrderInv, IsOrdered
    <3>2. QED
      BY <1>2, <3>1
  <2>4. \A r \in active_requests : ahead'[r] = ahead[r]
    BY <2>2, <2>3
  <2>5. \A r \in queued_requests' : ahead'[r] = ahead[r] \ A
    BY <1>3, <2>1
  <2>6. \A r \in A : ahead'[r] = active_requests \cup {q \in A : QueuedBefore(q, r)}
    BY <1>3, <2>1
  <2>7. QED
    BY <2>4, <2>5, <2>6
<1>5. IsOrdered(queued_requests)'
  BY <1>3, <1>4 DEF OrderInv, IsOrdered
<1>6. IsOrdered(active_requests)'
  <2>1. /\ \A r \in A : ~ QueuedBefore(r, r)
        /\ \A q, r \in A : q # r => QueuedBefore(q, r) \/ QueuedBefore(r, q)
        /\ \A p, q, r \in A : QueuedBefore(p, q) /\ QueuedBefore(q, r) => QueuedBefore(p, r)
    BY QueueIsOrdered DEF SchedulerInv
  <2>2. IsOrdered(active_requests) /\ A \cap active_requests = {}
    BY <1>2 DEF OrderInv
  <2>3. \A r \in active_requests' : ahead'[r] \subseteq active_requests' \ {r}
    BY <1>3, <1>4, <2>1, <2>2 DEF IsOrdered
  <2>4. \A q, r \in active_requests' : q # r => q \in ahead'[r] \/ r \in ahead'[q]
    BY <1>3, <1>4, <2>1, <2>2 DEF IsOrdered
  <2>5. \A p, q, r \in active_requests' :
          p \in ahead'[q] /\ q \in ahead'[r] => p \in ahead'[r]
    BY <1>3, <1>4, <2>1, <2>2 DEF IsOrdered
  <2>6. QED
    BY <2>3, <2>4, <2>5 DEF IsOrdered
<1>7. QED
  BY <1>5, <1>6 DEF OrderInv

\* The others close up behind a request that is removed.
LEMMA RemovalKeepsOrder ==
  ASSUME SchedulerInv, OrderInv, NEW r \in Requests, RemoveActive(r)
  PROVE  OrderInv'
<1>1. /\ r \in active_requests /\ active_requests' = active_requests \ {r}
      /\ queued_requests' = queued_requests
      /\ ahead' = [q \in Requests |-> IF q = r THEN {} ELSE ahead[q] \ {r}]
  BY DEF RemoveActive
<1>2. /\ queued_requests \cup active_requests \subseteq Requests
      /\ queued_requests \cap active_requests = {}
  BY DEF SchedulerInv, SchedulerTypeOK, ListsAreDisjoint
<1>3. \A q \in queued_requests' \cup active_requests' : ahead'[q] = ahead[q] \ {r}
  BY <1>1, <1>2
<1>4. \A q \in queued_requests : ahead'[q] = ahead[q]
  <2>1. \A q \in queued_requests : r \notin ahead[q]
    BY <1>1, <1>2 DEF OrderInv, IsOrdered
  <2>2. \A q \in queued_requests : ahead'[q] = ahead[q] \ {r}
    BY <1>1, <1>3
  <2>3. QED
    BY <2>1, <2>2
<1>5. IsOrdered(queued_requests)'
  <2>1. /\ queued_requests' = queued_requests /\ IsOrdered(queued_requests)
        /\ \A q \in queued_requests : ahead'[q] = ahead[q]
    BY <1>1, <1>4 DEF OrderInv
  <2>2. \A q \in queued_requests : ahead'[q] \subseteq queued_requests \ {q}
    BY <2>1 DEF IsOrdered
  <2>3. \A p, q \in queued_requests : p # q => p \in ahead'[q] \/ q \in ahead'[p]
    BY <2>1 DEF IsOrdered
  <2>4. \A p, q, s \in queued_requests :
          p \in ahead'[q] /\ q \in ahead'[s] => p \in ahead'[s]
    BY <2>1 DEF IsOrdered
  <2>5. QED
    BY <2>1, <2>2, <2>3, <2>4 DEF IsOrdered
<1>6. IsOrdered(active_requests)'
  BY <1>1, <1>3 DEF OrderInv, IsOrdered
<1>7. QED
  BY <1>5, <1>6 DEF OrderInv

\* Nothing else moves a request.
LEMMA NextOrderInv ==
  SchedulerInv /\ OrderInv /\ [SchedulerNext]_schedulerVars => OrderInv'
<1> SUFFICES ASSUME SchedulerInv, OrderInv, [SchedulerNext]_schedulerVars PROVE OrderInv'
  OBVIOUS
<1>1. ASSUME UNCHANGED <<queued_requests, active_requests, ahead>> PROVE OrderInv'
  BY <1>1 DEF OrderInv, IsOrdered
<1>2. CASE UNCHANGED schedulerVars
  BY <1>1, <1>2 DEF schedulerVars, requestVars
<1>3. CASE AdmitQueuedRequests
  BY <1>3, AdmissionKeepsOrder
<1>4. CASE CreateSchedulingDecision
  BY <1>1, <1>4 DEF CreateSchedulingDecision, requestVars
<1>5. ASSUME NEW r \in Requests, EnqueueRequest(r) PROVE OrderInv'
  BY <1>5, EnqueueKeepsOrder
<1>6. ASSUME NEW r \in Requests, NEW n, CallUpdatePrefill(r, n) \/ CallUpdateDecode(r, n)
      PROVE OrderInv'
  BY <1>1, <1>6 DEF CallUpdatePrefill, CallUpdateDecode, UpdatePrefill, UpdateDecode
<1>7. ASSUME NEW r \in Requests,
             CallReleasePrefixFlight(r) \/ CallComplete(r) \/ CallAbort(r)
      PROVE OrderInv'
  BY <1>1, <1>7 DEF CallReleasePrefixFlight, CallComplete, CallAbort, requestVars
<1>8. ASSUME NEW r \in Requests, CallRemoveActive(r) PROVE OrderInv'
  BY <1>8, RemovalKeepsOrder DEF CallRemoveActive
<1>9. QED
  BY <1>2, <1>3, <1>4, <1>5, <1>6, <1>7, <1>8 DEF SchedulerNext

\* Queue and active list are always in order.
LEMMA OrderInvHolds == SchedulerSpec => []OrderInv
<1>1. SchedulerInit => OrderInv
  BY DEF SchedulerInit, OrderInv, IsOrdered
<1>2. SchedulerInv /\ OrderInv /\ [SchedulerNext]_schedulerVars => OrderInv'
  BY NextOrderInv
<1>3. QED
  BY <1>1, <1>2, SchedulerInvHolds, PTL DEF SchedulerSpec

-----------------------------------------------------------------------------
(* The batch *)

\* A set of naturals has a least element.
LEMMA LeastElement ==
  ASSUME NEW T \in SUBSET Nat, T # {}
  PROVE  \E x \in T : \A y \in T : x <= y
<1> DEFINE R == OpToRel(<, Nat)
<1>1. IsWellFoundedOn(R, Nat)
  BY NatLessThanWellFounded
<1>2. \A x, y \in Nat : x < y => <<x, y>> \in R
  BY DEF OpToRel
<1> HIDE DEF R
<1>3. PICK x \in T : \A y \in T : ~ (<<y, x>> \in R)
  BY <1>1, WFMin
<1>4. \A y \in T : x <= y
  <2> TAKE y \in T
  <2>1. x \in Nat /\ y \in Nat /\ ~ (y < x)
    BY <1>2, <1>3
  <2>2. QED
    BY <2>1
<1>5. QED
  BY <1>4

\* A finite set that is not empty has a last element in every order of its elements.
LEMMA LastElement ==
  ASSUME NEW T, IsFiniteSet(T), T # {}, NEW before,
         \A x \in T : x \notin before[x],
         \A x, y \in T : x # y => x \in before[y] \/ y \in before[x],
         \A x, y, z \in T : x \in before[y] /\ y \in before[z] => x \in before[z]
  PROVE  \E m \in T : \A x \in T \ {m} : x \in before[m]
<1> DEFINE After(x) == {y \in T : x \in before[y]}
           size == [x \in T |-> Cardinality(After(x))]
           sizes == {size[x] : x \in T}
<1>1. \A x \in T : IsFiniteSet(After(x)) /\ size[x] \in Nat
  <2>1. \A x \in T : After(x) \in SUBSET T
    OBVIOUS
  <2> HIDE DEF After
  <2>2. QED
    BY <2>1, FS_Subset, FS_CardinalityType
<1>2. PICK n \in sizes : \A k \in sizes : n <= k
  <2>1. sizes \in SUBSET Nat /\ sizes # {}
    <3> HIDE DEF size
    <3>1. PICK x : x \in T
      OBVIOUS
    <3>2. size[x] \in sizes
      BY <3>1
    <3>3. \A k \in sizes : k \in Nat
      BY <1>1
    <3>4. QED
      BY <3>2, <3>3
  <2> HIDE DEF sizes
  <2>2. QED
    BY <2>1, LeastElement
<1>3. PICK m \in T : \A x \in T : size[m] <= size[x]
  <2> HIDE DEF size
  <2>1. QED
    BY <1>2
<1>4. ASSUME NEW y \in T, m \in before[y] PROVE FALSE
  <2>1. After(y) \in SUBSET After(m) /\ y \in After(m) /\ y \notin After(y)
    BY <1>4
  <2> HIDE DEF After
  <2>2. size[y] <= size[m] /\ size[y] # size[m]
    <3>1. IsFiniteSet(After(m)) /\ After(y) # After(m)
      BY <1>1, <2>1
    <3>2. /\ Cardinality(After(y)) <= Cardinality(After(m))
          /\ Cardinality(After(y)) # Cardinality(After(m))
      BY <2>1, <3>1, FS_Subset
    <3>3. QED
      BY <3>2
  <2>3. QED
    BY <1>1, <1>3, <2>2
<1>5. QED
  BY <1>3, <1>4

\* Whoever takes from a budget in turn, each what is left of it at most, takes all of it or all
\* they want.
LEMMA LineTakesBudget ==
  ASSUME NEW S, IsFiniteSet(S), NEW before \in [S -> SUBSET S],
         \A x \in S : x \notin before[x],
         \A x, y \in S : x # y => x \in before[y] \/ y \in before[x],
         \A x, y, z \in S : x \in before[y] /\ y \in before[z] => x \in before[z],
         NEW want, \A x \in S : want[x] \in Nat,
         NEW budget \in Nat,
         NEW share,
         \A x \in S : share[x] =
           IF Total(want, before[x]) < budget
           THEN Least(want[x], budget - Total(want, before[x])) ELSE 0
  PROVE  Total(share, S) = Least(budget, Total(want, S))
<1> DEFINE Wrong == {T \in SUBSET S : /\ \A x \in T : before[x] \subseteq T
                                      /\ Total(share, T) # Least(budget, Total(want, T))}
           sizes == {Cardinality(T) : T \in Wrong}
<1>1. SUFFICES ASSUME S \in Wrong PROVE FALSE
  OBVIOUS
<1>2. \A T \in SUBSET S : IsFiniteSet(T) /\ Cardinality(T) \in Nat
  BY FS_Subset, FS_CardinalityType
<1>3. PICK n \in sizes : \A k \in sizes : n <= k
  <2>1. sizes \in SUBSET Nat /\ sizes # {}
    BY <1>1, <1>2
  <2> HIDE DEF sizes
  <2>2. QED
    BY <2>1, LeastElement
<1>4. PICK T \in Wrong : \A U \in Wrong : Cardinality(T) <= Cardinality(U)
  BY <1>3
<1>5. /\ T \in SUBSET S /\ \A x \in T : before[x] \subseteq T
      /\ Total(share, T) # Least(budget, Total(want, T))
  BY <1>4
<1>6. ASSUME NEW U \in SUBSET S, \A x \in U : before[x] \subseteq U,
             Cardinality(U) < Cardinality(T)
      PROVE  Total(share, U) = Least(budget, Total(want, U))
  BY <1>2, <1>4, <1>5, <1>6
<1> HIDE DEF Wrong, sizes
<1>7. \A x \in S : Total(want, before[x]) \in Nat /\ share[x] \in Nat
  <2>1. ASSUME NEW x \in S PROVE Total(want, before[x]) \in Nat
    <3>1. before[x] \in SUBSET S
      OBVIOUS
    <3>2. QED
      BY <1>2, <3>1, TotalsCompare
  <2>2. QED
    BY <2>1 DEF Least
<1>8. T # {}
  <2>1. Total(share, {}) = 0 /\ Total(want, {}) = 0
    BY FS_EmptySet, TotalOfUnits
  <2>2. QED
    BY <1>5, <2>1 DEF Least
<1>9. PICK m \in T : \A x \in T \ {m} : x \in before[m]
  <2>1. IsFiniteSet(T)
    BY <1>2, <1>5
  <2>2. \A x \in T : x \in S
    BY <1>5
  <2>3. /\ \A x \in T : x \notin before[x]
        /\ \A x, y \in T : x # y => x \in before[y] \/ y \in before[x]
        /\ \A x, y, z \in T : x \in before[y] /\ y \in before[z] => x \in before[z]
    BY <2>2
  <2>4. QED
    BY <1>8, <2>1, <2>3, LastElement
<1> DEFINE U == T \ {m}
<1>10. /\ U \in SUBSET S /\ \A x \in U : before[x] \subseteq U
       /\ before[m] = U
  <2>1. before[m] = U
    BY <1>5, <1>9
  <2>2. ASSUME NEW x \in U PROVE m \notin before[x]
    BY <1>5, <2>1, <2>2
  <2>3. QED
    BY <1>5, <2>1, <2>2
<1>11. Cardinality(U) < Cardinality(T)
  <2>1. Cardinality(U) = Cardinality(T) - 1
    BY <1>2, <1>5, <1>9, FS_RemoveElement
  <2>2. QED
    BY <1>2, <1>5, <2>1
<1>12. U \cup {m} = T /\ U \cap {m} = {} /\ m \in S
  BY <1>5, <1>9
<1> HIDE DEF U
<1>13. Total(share, U) = Least(budget, Total(want, U))
  BY <1>6, <1>10, <1>11
<1>14. /\ Total(share, T) = Total(share, U) + share[m]
       /\ Total(want, T) = Total(want, U) + want[m]
  <2>1. /\ Total(share, U \cup {m}) = Total(share, U) + Total(share, {m})
        /\ Total(want, U \cup {m}) = Total(want, U) + Total(want, {m})
    <3>1. IsFiniteSet(U) /\ IsFiniteSet({m})
      BY <1>2, <1>10, FS_Singleton
    <3>2. \A x \in U \cup {m} : share[x] \in Nat /\ want[x] \in Nat
      BY <1>7, <1>10, <1>12
    <3>3. QED
      BY <1>12, <3>1, <3>2, TotalsAdd
  <2>2. Total(share, {m}) = share[m] /\ Total(want, {m}) = want[m]
    BY <1>7, <1>12, TotalOfOne
  <2>3. QED
    BY <1>12, <2>1, <2>2
<1>15. share[m] = IF Total(want, U) < budget
                  THEN Least(want[m], budget - Total(want, U)) ELSE 0
  BY <1>10, <1>12
<1>16. Total(want, U) \in Nat /\ want[m] \in Nat
  BY <1>7, <1>10, <1>12
<1>17. QED
  BY <1>5, <1>13, <1>14, <1>15, <1>16 DEF Least

\* Whatever the policy, the active prefills stand in one line.
LEMMA PrefillsAreOrdered ==
  ASSUME SchedulerTypeOK, OrderInv
  PROVE  /\ \A r \in ActiveIn("prefill") : ~ PrefillBefore(r, r)
         /\ \A q, r \in ActiveIn("prefill") :
              q # r => PrefillBefore(q, r) \/ PrefillBefore(r, q)
         /\ \A p, q, r \in ActiveIn("prefill") :
              PrefillBefore(p, q) /\ PrefillBefore(q, r) => PrefillBefore(p, r)
<1> DEFINE P == ActiveIn("prefill")
<1>1. /\ \A r \in P : r \notin ahead[r]
      /\ \A q, r \in P : q # r => q \in ahead[r] \/ r \in ahead[q]
      /\ \A p, q, r \in P : p \in ahead[q] /\ q \in ahead[r] => p \in ahead[r]
  BY DEF OrderInv, IsOrdered, ActiveIn
<1>2. \A r \in P : remaining[r] \in Nat
  BY DEF SchedulerTypeOK, ActiveIn
<1> HIDE DEF P
<1>3. CASE SchedulingPolicy = "FirstComeFirstServed"
  BY <1>1, <1>3 DEF PrefillBefore, P
<1>4. CASE SchedulingPolicy = "ShortestPrefillFirst"
  <2>1. \A q, r : PrefillBefore(q, r) <=>
          remaining[q] < remaining[r] \/ (remaining[q] = remaining[r] /\ q \in ahead[r])
    BY <1>4 DEF PrefillBefore
  <2>2. QED
    BY <1>1, <1>2, <2>1 DEF P
<1>5. CASE SchedulingPolicy = "RoundRobin"
  <2>1. \A q, r : PrefillBefore(q, r) <=>
          IF IsRotatedToFront(q) = IsRotatedToFront(r) THEN q \in ahead[r]
          ELSE IsRotatedToFront(q)
    BY <1>5 DEF PrefillBefore
  <2>2. \A r : IsRotatedToFront(r) \in BOOLEAN
    BY DEF IsRotatedToFront
  <2>3. QED
    BY <1>1, <2>1, <2>2 DEF P
<1>6. QED
  BY <1>3, <1>4, <1>5, SchedulerAssumption DEF SchedulingPolicies

\* schedule_decodes gives a token to each decoding request, or the whole budget away.
LEMMA DecodesTakeBudget ==
  ASSUME SchedulerTypeOK, OrderInv
  PROVE  Cardinality(ScheduledDecodes) =
           Least(MaxBatchedTokenCount, Cardinality(ActiveIn("decode")))
<1> DEFINE D == ActiveIn("decode")
           before == [r \in D |-> {q \in D : q \in ahead[r]}]
           want == [r \in D |-> 1]
           share == [r \in D |-> IF r \in ScheduledDecodes THEN 1 ELSE 0]
<1>1. /\ IsFiniteSet(D) /\ \A T \in SUBSET D : IsFiniteSet(T) /\ Cardinality(T) \in Nat
  BY SchedulerAssumption, FS_Subset, FS_CardinalityType DEF SchedulerTypeOK, ActiveIn
<1>2. /\ before \in [D -> SUBSET D]
      /\ \A x \in D : x \notin before[x]
      /\ \A x, y \in D : x # y => x \in before[y] \/ y \in before[x]
      /\ \A x, y, z \in D : x \in before[y] /\ y \in before[z] => x \in before[z]
  BY DEF OrderInv, IsOrdered, ActiveIn
<1>3. ScheduledDecodes = {r \in D : Cardinality(before[r]) < MaxBatchedTokenCount}
  BY DEF ScheduledDecodes
<1>4. \A x \in D : before[x] \in SUBSET D
  OBVIOUS
<1> HIDE DEF D, before
<1>5. /\ \A x \in D : Total(want, before[x]) = Cardinality(before[x])
      /\ Total(want, D) = Cardinality(D)
  BY <1>1, <1>4, TotalOfUnits
<1>6. MaxBatchedTokenCount \in Nat
  BY SchedulerAssumption
<1>7. \A x \in D : share[x] =
        IF Total(want, before[x]) < MaxBatchedTokenCount
        THEN Least(want[x], MaxBatchedTokenCount - Total(want, before[x])) ELSE 0
  <2>1. \A x \in D : Cardinality(before[x]) \in Nat
    BY <1>1, <1>4
  <2>2. QED
    BY <1>3, <1>5, <1>6, <2>1 DEF Least
<1>8. \A x \in D : want[x] \in Nat /\ share[x] \in Nat
  OBVIOUS
<1>9. Total(share, D) = Cardinality(ScheduledDecodes)
  <2> DEFINE rest == D \ ScheduledDecodes
  <2>1. /\ ScheduledDecodes \in SUBSET D /\ rest \in SUBSET D
        /\ ScheduledDecodes \cup rest = D /\ ScheduledDecodes \cap rest = {}
    BY <1>3
  <2>2. \A x \in ScheduledDecodes : share[x] = 1
    BY <2>1
  <2>3. \A x \in rest : share[x] = 0
    OBVIOUS
  <2> HIDE DEF rest, share
  <2>4. Total(share, ScheduledDecodes) = Cardinality(ScheduledDecodes) /\ Total(share, rest) = 0
    BY <1>1, <2>1, <2>2, <2>3, TotalOfUnits
  <2>5. Total(share, ScheduledDecodes \cup rest) =
          Total(share, ScheduledDecodes) + Total(share, rest)
    BY <1>1, <1>8, <2>1, TotalsAdd
  <2>6. QED
    BY <1>1, <2>1, <2>4, <2>5
<1> HIDE DEF want, share
<1>10. Total(share, D) = Least(MaxBatchedTokenCount, Total(want, D))
  BY <1>1, <1>2, <1>6, <1>7, <1>8, LineTakesBudget
<1>11. QED
  BY <1>5, <1>9, <1>10 DEF D

\* schedule_prefills gives what the decodes leave.
LEMMA PrefillsTakeBudget ==
  ASSUME SchedulerTypeOK, OrderInv, PrefillTokenBudget \in Nat,
         NEW share, \A r \in ActiveIn("prefill") : share[r] = PrefillShare(r)
  PROVE  Total(share, ActiveIn("prefill")) =
           Least(PrefillTokenBudget, Total(remaining, ActiveIn("prefill")))
<1> DEFINE P == ActiveIn("prefill")
           before == [r \in P |-> {q \in P : PrefillBefore(q, r)}]
<1>1. IsFiniteSet(P)
  BY SchedulerAssumption, FS_Subset DEF SchedulerTypeOK, ActiveIn
<1>2. /\ before \in [P -> SUBSET P]
      /\ \A x \in P : x \notin before[x]
      /\ \A x, y \in P : x # y => x \in before[y] \/ y \in before[x]
      /\ \A x, y, z \in P : x \in before[y] /\ y \in before[z] => x \in before[z]
  BY PrefillsAreOrdered
<1>3. \A x \in P : remaining[x] \in Nat
  BY DEF SchedulerTypeOK, ActiveIn
<1>4. \A x \in P : share[x] =
        IF Total(remaining, before[x]) < PrefillTokenBudget
        THEN Least(remaining[x], PrefillTokenBudget - Total(remaining, before[x])) ELSE 0
  <2>1. \A x \in P : before[x] = {q \in P : PrefillBefore(q, x)}
    OBVIOUS
  <2>2. QED
    BY <2>1 DEF PrefillShare
<1> HIDE DEF P, before
<1>5. Total(share, P) = Least(PrefillTokenBudget, Total(remaining, P))
  BY <1>1, <1>2, <1>3, <1>4, LineTakesBudget
<1>6. QED
  BY <1>5 DEF P

\* The batch is what the decodes and the prefills take.
LEMMA BatchIsFull == SchedulerInv /\ OrderInv => BatchFillsBudget
<1> SUFFICES ASSUME SchedulerInv, OrderInv PROVE BatchFillsBudget
  OBVIOUS
<1> DEFINE D == ActiveIn("decode")
           P == ActiveIn("prefill")
           rest == Requests \ (ScheduledDecodes \cup P)
           batch == SchedulingDecision
<1>1. SchedulerTypeOK
  BY DEF SchedulerInv
<1>2. /\ D \in SUBSET Requests /\ P \in SUBSET Requests /\ rest \in SUBSET Requests
      /\ ScheduledDecodes \in SUBSET D /\ D \cap P = {}
      /\ Requests = (ScheduledDecodes \cup P) \cup rest
  BY <1>1 DEF SchedulerTypeOK, ActiveIn, ScheduledDecodes
<1>3. \A S \in SUBSET Requests : IsFiniteSet(S) /\ Cardinality(S) \in Nat
  BY SchedulerAssumption, FS_Subset, FS_CardinalityType
<1>4. /\ \A r \in ScheduledDecodes : batch[r] = 1
      /\ \A r \in P : batch[r] = PrefillShare(r)
      /\ \A r \in rest : batch[r] = 0
  BY <1>2 DEF SchedulingDecision
<1>5. MaxBatchedTokenCount \in Nat
  BY SchedulerAssumption
<1> HIDE DEF D, P, rest, batch
<1>6. Cardinality(ScheduledDecodes) = Least(MaxBatchedTokenCount, Cardinality(D))
  BY <1>1, DecodesTakeBudget DEF D
<1>7. Cardinality(D) \in Nat
  BY <1>2, <1>3
<1>8. PrefillTokenBudget \in Nat
  BY <1>5, <1>6, <1>7 DEF PrefillTokenBudget, Least
<1>9. Total(batch, P) = Least(PrefillTokenBudget, Total(remaining, P))
  BY <1>1, <1>4, <1>8, PrefillsTakeBudget DEF P
<1>10. Total(remaining, P) \in Nat
  <2>1. \A r \in P : remaining[r] \in Nat
    BY <1>1, <1>2 DEF SchedulerTypeOK
  <2>2. QED
    BY <1>2, <1>3, <2>1, TotalsCompare
<1>11. \A r \in Requests : batch[r] \in Nat
  <2>1. ASSUME NEW r \in P PROVE PrefillShare(r) \in Nat
    <3> DEFINE before == {q \in P : PrefillBefore(q, r)}
    <3>1. before \in SUBSET P /\ \A q \in P : remaining[q] \in Nat
      BY <1>1, <1>2 DEF SchedulerTypeOK
    <3>2. PrefillShare(r) = IF Total(remaining, before) < PrefillTokenBudget
            THEN Least(remaining[r], PrefillTokenBudget - Total(remaining, before)) ELSE 0
      BY DEF PrefillShare, P
    <3> HIDE DEF before
    <3>3. Total(remaining, before) \in Nat
      BY <1>2, <1>3, <3>1, TotalsCompare
    <3>4. QED
      BY <1>8, <3>1, <3>2, <3>3 DEF Least
  <2>2. QED
    BY <1>2, <1>4, <2>1
<1>12. /\ Total(batch, ScheduledDecodes) = Cardinality(ScheduledDecodes)
       /\ Total(batch, rest) = 0
  BY <1>2, <1>3, <1>4, TotalOfUnits
<1>13. Total(batch, Requests) = Total(batch, ScheduledDecodes) + Total(batch, P)
  <2>1. ScheduledDecodes \cap P = {} /\ (ScheduledDecodes \cup P) \cap rest = {}
    BY <1>2 DEF rest
  <2>2. /\ IsFiniteSet(ScheduledDecodes) /\ IsFiniteSet(P) /\ IsFiniteSet(rest)
        /\ IsFiniteSet(ScheduledDecodes \cup P)
    BY <1>2, <1>3
  <2>3. Total(batch, ScheduledDecodes \cup P) =
          Total(batch, ScheduledDecodes) + Total(batch, P)
    BY <1>2, <1>11, <2>1, <2>2, TotalsAdd
  <2>4. Total(batch, (ScheduledDecodes \cup P) \cup rest) =
          Total(batch, ScheduledDecodes \cup P) + Total(batch, rest)
    BY <1>2, <1>11, <2>1, <2>2, TotalsAdd
  <2>5. Total(batch, ScheduledDecodes) + Total(batch, P) \in Nat
    BY <1>6, <1>5, <1>7, <1>8, <1>9, <1>10, <1>12 DEF Least
  <2>6. QED
    BY <1>2, <1>12, <2>3, <2>4, <2>5
<1>14. Total(batch, Requests) =
         Least(MaxBatchedTokenCount, Cardinality(D) + Total(remaining, P))
  BY <1>5, <1>6, <1>7, <1>9, <1>10, <1>12, <1>13 DEF Least, PrefillTokenBudget
<1>15. QED
  BY <1>14 DEF BatchFillsBudget, D, P, batch

-----------------------------------------------------------------------------
(* The theorems *)

\* Every state the scheduler reaches has well-typed lists, phases and cursor.
THEOREM SchedulerTypeCorrect == SchedulerSpec => []SchedulerTypeOK
BY SchedulerInvHolds, PTL DEF SchedulerInv

\* Admission never reserves more pages or slots than the backend has, whatever the
\* geometry, the policy and the requests, so admitted requests can always finish.
THEOREM ReservationsAlwaysFit == SchedulerSpec => []ReservationsFit
BY SchedulerInvHolds, PTL DEF SchedulerInv

\* A request is blocked exactly while it follows the leader of a live flight, so
\* unblock_requests never misses a request and never errs.
THEOREM BlockedRequestsFollow == SchedulerSpec => []BlockedAreFollowers
BY SchedulerInvHolds, PTL DEF SchedulerInv

\* No follower waits for a leader that can no longer run or report its end.
THEOREM NoLostWakeup == SchedulerSpec => []LeadersMakeProgress
BY SchedulerInvHolds, PTL DEF SchedulerInv

\* The coordinator forgets every request that the scheduler has let go.
THEOREM OnlyKnownRequestsAreTracked == SchedulerSpec => []TrackedRequests
BY SchedulerInvHolds, PTL DEF SchedulerInv

\* Every batch uses its whole budget, or does all the work that the active requests have,
\* whatever policy orders the prefills.
THEOREM BatchAlwaysFillsBudget == SchedulerSpec => []BatchFillsBudget
BY SchedulerInvHolds, OrderInvHolds, BatchIsFull, PTL
=============================================================================
