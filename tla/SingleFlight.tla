---------------------------- MODULE SingleFlight ----------------------------
(***************************************************************************)
(* What the flight coordinator promises, without flight IDs or indexes.    *)
(* The requests of each input stand in a line.  Only the head of a line    *)
(* may run.  A line is released as a whole, when its head has done the     *)
(* work the others wait for; a request that leaves before that only moves  *)
(* the requests behind it up.                                              *)
(***************************************************************************)
EXTENDS Naturals, Sequences

CONSTANTS Requests, Inputs, InputOf

VARIABLES
  line,     \* input -> the requests that wait for each other, in arrival order
  released  \* requests released from their line that still run

sfVars == <<line, released>>

InLine(r) == \E n \in DOMAIN line[InputOf[r]] : line[InputOf[r]][n] = r

MayRun(r) == r \in released \/ (line[InputOf[r]] # <<>> /\ Head(line[InputOf[r]]) = r)

Drop(seq, n) == [m \in 1 .. Len(seq) - 1 |-> IF m < n THEN seq[m] ELSE seq[m + 1]]

Init ==
  /\ line = [i \in Inputs |-> <<>>]
  /\ released = {}

Join(r) ==
  /\ ~InLine(r) /\ r \notin released
  /\ line' = [line EXCEPT ![InputOf[r]] = Append(@, r)]
  /\ UNCHANGED released

Leave(r) ==
  /\ \E n \in DOMAIN line[InputOf[r]] :
       /\ line[InputOf[r]][n] = r
       /\ line' = [line EXCEPT ![InputOf[r]] = Drop(@, n)]
  /\ UNCHANGED released

\* The head h of its line releases everyone; it stays itself if it still runs.
Release(h) ==
  LET waiting == line[InputOf[h]] IN
  /\ waiting # <<>> /\ Head(waiting) = h
  /\ line' = [line EXCEPT ![InputOf[h]] = <<>>]
  /\ \E stays \in {{}, {h}} :
       released' = released \cup stays \cup {waiting[n] : n \in 2 .. Len(waiting)}

Finish(r) ==
  /\ r \in released
  /\ released' = released \ {r}
  /\ UNCHANGED line

Next == \E r \in Requests : Join(r) \/ Leave(r) \/ Release(r) \/ Finish(r)

Spec == Init /\ [][Next]_sfVars
=============================================================================
