----------------------- MODULE RequestHandler_proofs -----------------------
(***************************************************************************)
(* What holds of RequestHandler for every number of calls and threads,     *)
(* every channel capacity and every stream: its types, with the bound on   *)
(* the channel to the client, when a pool thread may return, and that the  *)
(* client is given what the runner emitted (StreamInv, over what has been  *)
(* sent and is still to be sent of a stream).                              *)
(***************************************************************************)
EXTENDS RequestHandler, FiniteSetTheorems, SequenceTheorems, WellFoundedInduction, TLAPS

Closing == {"joining", "exited"}

\* Shutdown commands come from the drop of the pool only, and a thread returns
\* on one of them only.
ShutdownsAreLast ==
  /\ \A i \in 1..Len(commands) : commands[i] = "shutdown" => server \in Closing
  /\ \A w \in Workers : worker[w] = "returned" => server \in Closing

IInv == HandlerTypeOK /\ ShutdownsAreLast

LEMMA EventsAreTyped ==
  /\ Stats \in Events /\ Error \in Events
  /\ \A s \in Seq(Tokens) : Text(s) \in Events
  BY DEF Stats, Error, Text, Events

\* Sequences may be read as stacks and queues without leaving their set.
LEMMA QueuesStayTyped ==
  ASSUME NEW S, NEW s \in Seq(S)
  PROVE  /\ \A e \in S : /\ Append(s, e) \in Seq(S) /\ <<e>> \in Seq(S)
                         /\ Len(Append(s, e)) = Len(s) + 1
         /\ \A e, f \in S : <<e, f>> \in Seq(S)
         /\ \A t \in Seq(S) : s \o t \in Seq(S)
         /\ <<>> \in Seq(S) /\ Len(s) \in Nat
         /\ s # <<>> => /\ Head(s) \in S /\ Tail(s) \in Seq(S)
                        /\ Len(Tail(s)) = Len(s) - 1
  OBVIOUS

LEMMA InitInvariant == Init => IInv
  BY HandlerAssumption DEF Init, IInv, HandlerTypeOK, ShutdownsAreLast, Open, Gone

-----------------------------------------------------------------------------
(* The pool. *)

LEMMA StopKeepsTypes ==
  ASSUME HandlerTypeOK, NEW w \in Workers, NEW s \in Gone, NEW pending, NEW done,
         pending \in Seq(Requests \cup {"shutdown"}), Stop(w, s, pending, done)
  PROVE  /\ worker' \in [Workers -> {"receiving"} \cup Gone \cup Requests]
         /\ worker' = [worker EXCEPT ![w] = s]
         /\ commands' \in Seq(Requests \cup {"shutdown"})
         /\ commands' \in {<<>>, pending}
         /\ result' \in [Requests -> {"none", "waiting", "ok", "error"}]
  BY DEF HandlerTypeOK, Stop

LEMMA ReceiveInvariant ==
  ASSUME IInv, NEW w \in Workers, Receive(w)
  PROVE  IInv'
<1> USE DEF IInv
<1>1. /\ commands \in Seq(Requests \cup {"shutdown"}) /\ commands # <<>>
      /\ Len(commands) \in Nat \ {0}
      /\ Head(commands) = commands[1]
      /\ Tail(commands) \in Seq(Requests \cup {"shutdown"})
      /\ Len(Tail(commands)) = Len(commands) - 1
      /\ \A i \in 1..Len(Tail(commands)) : Tail(commands)[i] = commands[i + 1]
  BY DEF Receive, HandlerTypeOK
<1>2. Head(commands) \in Requests \cup {"shutdown"}
  BY <1>1
<1>3. \A i \in 1..Len(Tail(commands)) : Tail(commands)[i] = "shutdown" => server \in Closing
  BY <1>1 DEF ShutdownsAreLast
<1>4. CASE Head(commands) = "shutdown"
  <2>1. Stop(w, "returned", Tail(commands), {})
    BY <1>4 DEF Receive
  <2>2. server \in Closing
    BY <1>1, <1>4 DEF ShutdownsAreLast
  <2>3. /\ worker' \in [Workers -> {"receiving"} \cup Gone \cup Requests]
        /\ commands' \in Seq(Requests \cup {"shutdown"})
        /\ commands' \in {<<>>, Tail(commands)}
        /\ result' \in [Requests -> {"none", "waiting", "ok", "error"}]
    BY <2>1, <1>1, StopKeepsTypes DEF Gone
  <2>4. HandlerTypeOK'
    BY <2>3, <1>1 DEF HandlerTypeOK, Receive, taskVars
  <2>5. ShutdownsAreLast'
    BY <2>2 DEF ShutdownsAreLast, Receive
  <2>6. QED
    BY <2>4, <2>5
<1>5. CASE Head(commands) # "shutdown"
  <2>1. /\ worker' = [worker EXCEPT ![w] = Head(commands)]
        /\ commands' = Tail(commands) /\ result' = result
    BY <1>5 DEF Receive
  <2>2. HandlerTypeOK'
    BY <2>1, <1>1, <1>2, <1>5 DEF HandlerTypeOK, Receive, taskVars
  <2>3. Head(commands) # "returned"
    BY <1>2, <1>5, HandlerAssumption
  <2>4. \A v \in Workers : worker'[v] = "returned" => worker[v] = "returned"
    BY <2>1, <2>3 DEF HandlerTypeOK
  <2>5. ShutdownsAreLast'
    BY <2>1, <2>4, <1>3 DEF ShutdownsAreLast, Receive
  <2>6. QED
    BY <2>2, <2>5
<1>6. QED
  BY <1>4, <1>5

LEMMA PreprocessInvariant ==
  ASSUME IInv, NEW w \in Workers, Preprocess(w) \/ Panic(w)
  PROVE  IInv'
<1> USE DEF IInv
<1>1. CASE Preprocess(w)
  <2>1. HandlerTypeOK'
    BY <1>1 DEF Preprocess, Outcomes, HandlerTypeOK, taskVars
  <2>2. ShutdownsAreLast'
    BY <1>1 DEF Preprocess, HandlerTypeOK, ShutdownsAreLast
  <2>3. QED
    BY <2>1, <2>2
<1>2. CASE Panic(w)
  <2>1. /\ worker' \in [Workers -> {"receiving"} \cup Gone \cup Requests]
        /\ worker' = [worker EXCEPT ![w] = "panicked"]
        /\ commands' \in Seq(Requests \cup {"shutdown"})
        /\ commands' \in {<<>>, commands}
        /\ result' \in [Requests -> {"none", "waiting", "ok", "error"}]
    BY <1>2, StopKeepsTypes DEF Panic, HandlerTypeOK, Gone
  <2>2. HandlerTypeOK'
    BY <1>2, <2>1 DEF Panic, HandlerTypeOK, taskVars
  <2>3. \A v \in Workers : worker'[v] = "returned" => worker[v] = "returned"
    BY <2>1 DEF HandlerTypeOK
  <2>4. ShutdownsAreLast'
    BY <1>2, <2>1, <2>3 DEF ShutdownsAreLast, Panic
  <2>5. QED
    BY <2>2, <2>4
<1>3. QED
  BY <1>1, <1>2

LEMMA DropPoolInvariant ==
  ASSUME IInv, DropPool
  PROVE  IInv'
<1> USE DEF IInv
<1> DEFINE shutdowns == [i \in 1..Cardinality(Workers) |-> "shutdown"]
<1>1. Cardinality(Workers) \in Nat
  BY HandlerAssumption, FS_CardinalityType
<1>2. shutdowns \in Seq(Requests \cup {"shutdown"})
  BY <1>1
<1>3. commands' \in Seq(Requests \cup {"shutdown"})
  <2> HIDE DEF shutdowns
  <2>1. commands \in Seq(Requests \cup {"shutdown"})
    BY DEF HandlerTypeOK
  <2>2. commands' \in {commands, commands \o shutdowns}
    BY DEF DropPool, shutdowns
  <2> DEFINE S == Requests \cup {"shutdown"}
  <2> HIDE DEF S
  <2>3. commands \o shutdowns \in Seq(S)
    BY <1>2, <2>1, QueuesStayTyped DEF S
  <2>4. QED
    BY <2>1, <2>2, <2>3 DEF S
<1>4. HandlerTypeOK'
  BY <1>3 DEF HandlerTypeOK, DropPool, taskVars
<1>5. ShutdownsAreLast'
  BY DEF DropPool, ShutdownsAreLast, Closing
<1>6. QED
  BY <1>4, <1>5

-----------------------------------------------------------------------------
(* The calls and their tasks. *)

LEMMA CallInvariant ==
  ASSUME IInv, NEW r \in Requests,
         Arrive(r) \/ ArriveTooLate(r) \/ ClientLeaves(r) \/ Serve(r)
  PROVE  IInv'
<1> USE DEF IInv
<1>1. CASE Arrive(r)
  <2>1. commands' \in {commands, Append(commands, r)}
    BY <1>1 DEF Arrive
  <2>2. /\ commands \in Seq(Requests \cup {"shutdown"})
        /\ Append(commands, r) \in Seq(Requests \cup {"shutdown"})
    BY DEF HandlerTypeOK
  <2>3. \A i \in 1..Len(commands') :
          commands'[i] = "shutdown" => i \in 1..Len(commands) /\ commands[i] = "shutdown"
    <3>1. r # "shutdown"
      BY HandlerAssumption
    <3>2. /\ Len(Append(commands, r)) = Len(commands) + 1 /\ Len(commands) \in Nat
          /\ \A i \in 1..Len(commands) : Append(commands, r)[i] = commands[i]
          /\ Append(commands, r)[Len(commands) + 1] = r
      BY <2>2
    <3>3. \A i \in 1..Len(commands) + 1 : i \in 1..Len(commands) \/ i = Len(commands) + 1
      BY <3>2
    <3>4. QED
      BY <2>1, <3>1, <3>2, <3>3
  <2>4. ShutdownsAreLast'
    BY <1>1, <2>3 DEF Arrive, ShutdownsAreLast
  <2>5. HandlerTypeOK'
    <3>1. requestId' \in 1..MaxRequestId
      BY <1>1, HandlerAssumption DEF Arrive, NextId, HandlerTypeOK
    <3>2. /\ call' \in [Requests -> {"idle", "left", "ok", "error"} \cup Open]
          /\ result' \in [Requests -> {"none", "waiting", "ok", "error"}]
      BY <1>1 DEF Arrive, HandlerTypeOK, Open
    <3>3. commands' \in Seq(Requests \cup {"shutdown"})
      BY <2>1, <2>2
    <3>4. QED
      BY <1>1, <3>1, <3>2, <3>3 DEF Arrive, HandlerTypeOK, taskVars
  <2>6. QED
    BY <2>4, <2>5
<1>2. CASE ArriveTooLate(r)
  BY <1>2 DEF ArriveTooLate, HandlerTypeOK, ShutdownsAreLast, poolVars, taskVars
<1>3. CASE ClientLeaves(r)
  BY <1>3, HandlerAssumption
     DEF ClientLeaves, HandlerTypeOK, ShutdownsAreLast, poolVars
<1>4. CASE Serve(r)
  BY <1>4 DEF Serve, Preprocessed, RunnerRefuses, RunnerAccepts, HandlerTypeOK,
     ShutdownsAreLast, poolVars, taskVars, Open
<1>5. QED
  BY <1>1, <1>2, <1>3, <1>4

LEMMA TaskInvariant ==
  ASSUME IInv, NEW r \in Requests, Forward(r) \/ Consume(r)
  PROVE  IInv'
<1> USE DEF IInv, HandlerTypeOK, poolVars, taskVars
<1>1. CASE ReadToken(r)
  <2> DEFINE token == Len(sent[r]) + 1
             text == Append(held[r], token)
  <2>1. /\ token \in Tokens
        /\ Append(sent[r], token) \in Seq(Tokens)
        /\ text \in Seq(Tokens) /\ <<>> \in Seq(Tokens)
        /\ buffered[r] \o text \in Seq(Tokens)
    BY QueuesStayTyped DEF Tokens
  <2>2. /\ sent' = [sent EXCEPT ![r] = Append(sent[r], token)]
        /\ held' \in {[held EXCEPT ![r] = text], [held EXCEPT ![r] = <<>>]}
        /\ buffered' \in {buffered, [buffered EXCEPT ![r] = buffered[r] \o text]}
        /\ out' \in {out, [out EXCEPT ![r] = <<Text(text)>>]}
        /\ UNCHANGED <<streamed, server, requestId, call, commands, worker, result,
                       task, events, got>>
    BY <1>1 DEF ReadToken
  <2> HIDE DEF token, text
  <2>3. <<Text(text)>> \in Seq(Events)
    BY <2>1, EventsAreTyped
  <2>4. /\ sent' \in [Requests -> Seq(Tokens)] /\ held' \in [Requests -> Seq(Tokens)]
        /\ buffered' \in [Requests -> Seq(Tokens)] /\ out' \in [Requests -> Seq(Events)]
    <3>1. sent' \in [Requests -> Seq(Tokens)]
      BY <2>1, <2>2
    <3>2. held' \in [Requests -> Seq(Tokens)]
      BY <2>1, <2>2
    <3>3. buffered' \in [Requests -> Seq(Tokens)]
      <4>1. buffered[r] \o text \in Seq(Tokens)
        BY <2>1
      <4>2. QED
        BY <2>2, <4>1
    <3>4. out' \in [Requests -> Seq(Events)]
      BY <2>2, <2>3
    <3>5. QED
      BY <3>1, <3>2, <3>3, <3>4
  <2>5. QED
    BY <2>2, <2>4 DEF ShutdownsAreLast
<1>2. CASE ReadStats(r)
  <2>1. <<Stats>> \in Seq(Events) /\ <<Text(buffered[r]), Stats>> \in Seq(Events)
    BY EventsAreTyped
  <2>2. <<>> \in Seq(Tokens)
    OBVIOUS
  <2>3. QED
    BY <1>2, <2>1, <2>2 DEF ReadStats, ShutdownsAreLast
<1>3. CASE ReadFailure(r)
  BY <1>3, EventsAreTyped DEF ReadFailure, ShutdownsAreLast
<1>4. CASE Send(r)
  <2>1. /\ Head(out[r]) \in Events /\ Tail(out[r]) \in Seq(Events)
        /\ Append(events[r], Head(out[r])) \in Seq(Events)
        /\ Len(Append(events[r], Head(out[r]))) = Len(events[r]) + 1
        /\ Len(events[r]) \in Nat
    BY <1>4, QueuesStayTyped DEF Send
  <2>2. Len(Append(events[r], Head(out[r]))) <= Capacity
    BY <1>4, <2>1, HandlerAssumption DEF Send
  <2>3. QED
    BY <1>4, <2>1, <2>2 DEF Send, ShutdownsAreLast
<1>5. CASE SendFails(r)
  BY <1>5 DEF SendFails, ShutdownsAreLast
<1>6. CASE ClientReads(r)
  <2>1. /\ Head(events[r]) \in Events /\ Tail(events[r]) \in Seq(Events)
        /\ Append(got[r], Head(events[r])) \in Seq(Events)
        /\ Len(Tail(events[r])) = Len(events[r]) - 1
        /\ Len(events[r]) \in Nat
    BY <1>6, QueuesStayTyped DEF ClientReads
  <2>2. Len(Tail(events[r])) <= Capacity
    BY <2>1, HandlerAssumption
  <2>3. QED
    BY <1>6, <2>1, <2>2 DEF ClientReads, ShutdownsAreLast
<1>7. CASE StreamEnds(r)
  BY <1>7 DEF StreamEnds, ShutdownsAreLast
<1>8. QED
  BY <1>1, <1>2, <1>3, <1>4, <1>5, <1>6, <1>7 DEF Forward, Read, Consume

-----------------------------------------------------------------------------

LEMMA StepInvariant == IInv /\ [Next]_vars => IInv'
<1> SUFFICES ASSUME IInv, [Next]_vars PROVE IInv'
  OBVIOUS
<1>1. ASSUME NEW r \in Requests,
             \/ Arrive(r) \/ ArriveTooLate(r) \/ ClientLeaves(r) \/ Serve(r)
             \/ Forward(r) \/ Consume(r)
      PROVE  IInv'
  BY <1>1, CallInvariant, TaskInvariant
<1>2. ASSUME NEW w \in Workers, Work(w) PROVE IInv'
  BY <1>2, ReceiveInvariant, PreprocessInvariant DEF Work
<1>3. CASE Shutdown \/ Drained
  BY <1>3 DEF Shutdown, Drained, IInv, HandlerTypeOK, ShutdownsAreLast, Closing,
     poolVars, taskVars
<1>4. CASE DropPool
  BY <1>4, DropPoolInvariant
<1>5. CASE Joined
  BY <1>5 DEF Joined, IInv, HandlerTypeOK, ShutdownsAreLast, Closing, poolVars, taskVars
<1>6. CASE UNCHANGED vars
  BY <1>6 DEF vars, IInv, HandlerTypeOK, ShutdownsAreLast, poolVars, taskVars
<1>7. QED
  BY <1>1, <1>2, <1>3, <1>4, <1>5, <1>6 DEF Next

LEMMA InvariantHolds == Spec => []IInv
  BY InitInvariant, StepInvariant, PTL DEF Spec

\* A set of naturals has a least element.
LEMMA LeastElement ==
  ASSUME NEW T \in SUBSET Nat, T # {}
  PROVE  \E x \in T : \A y \in T : x <= y
<1> DEFINE R == OpToRel(<, Nat)
<1>1. IsWellFoundedOn(R, Nat)
  BY NatLessThanWellFounded
<1>2. \A x, y \in Nat : x < y => <<x, y>> \in R
  BY DEF OpToRel
<1> HIDE DEF R
<1>3. PICK x \in T : \A y \in T : ~ (<<y, x>> \in R)
  BY <1>1, WFMin
<1>4. \A y \in T : x <= y
  <2> TAKE y \in T
  <2>1. x \in Nat /\ y \in Nat /\ ~ (y < x)
    BY <1>2, <1>3
  <2>2. QED
    BY <2>1
<1>5. QED
  BY <1>4


-----------------------------------------------------------------------------
(* The text of events *)

\* The concatenation, closed to the provers where only its arguments matter.
Concat(s, t) == s \o t

\* f is what the loop of FlattenSeq has joined after each of the first n sequences.
IsLoop(f, s, n) == f = [i \in 1 .. n |-> IF i = 1 THEN s[i] ELSE Concat(f[i - 1], s[i])]

LEMMA LoopStep ==
  ASSUME NEW f, NEW s, NEW n \in Nat, IsLoop(f, s, n)
  PROVE  /\ n > 0 => f[1] = s[1]
         /\ \A i \in 2 .. n : f[i] = Concat(f[i - 1], s[i])
<1>1. \A i \in 1 .. n : f[i] = IF i = 1 THEN s[i] ELSE Concat(f[i - 1], s[i])
  <2> DEFINE F == [i \in 1 .. n |-> IF i = 1 THEN s[i] ELSE Concat(f[i - 1], s[i])]
  <2>1. f = F
    BY DEF IsLoop
  <2>2. \A i \in 1 .. n : F[i] = IF i = 1 THEN s[i] ELSE Concat(f[i - 1], s[i])
    OBVIOUS
  <2> HIDE DEF F
  <2>3. QED
    BY <2>1, <2>2
<1>2. QED
  BY <1>1

\* The loop can always go on: were there a first n that it does not reach, it would from n - 1.
LEMMA LoopExists ==
  ASSUME NEW s, NEW n \in Nat
  PROVE  \E f : IsLoop(f, s, n)
<1> DEFINE Unreached == {k \in Nat : \A f : ~ IsLoop(f, s, k)}
<1>1. SUFFICES ASSUME n \in Unreached PROVE FALSE
  OBVIOUS
<1>2. PICK k \in Unreached : \A j \in Unreached : k <= j
  <2>1. Unreached \in SUBSET Nat /\ Unreached # {}
    BY <1>1
  <2> HIDE DEF Unreached
  <2>2. QED
    BY <2>1, LeastElement
<1>3. CASE k = 0
  <2>1. IsLoop([i \in 1 .. 0 |-> {}], s, 0)
    BY DEF IsLoop
  <2>2. QED
    BY <1>2, <1>3, <2>1
<1>4. CASE k # 0
  <2>1. k \in Nat /\ k - 1 \in Nat /\ ~ (k <= k - 1)
    BY <1>2, <1>4
  <2>2. PICK f : IsLoop(f, s, k - 1)
    BY <1>2, <2>1
  <2> DEFINE g == [i \in 1 .. k |-> IF i < k THEN f[i]
                                  ELSE IF k = 1 THEN s[k] ELSE Concat(f[k - 1], s[k])]
  <2>3. /\ k - 1 > 0 => f[1] = s[1]
        /\ \A i \in 2 .. k - 1 : f[i] = Concat(f[i - 1], s[i])
    BY <2>1, <2>2, LoopStep
  <2>4. /\ \A i \in 1 .. k - 1 : g[i] = f[i]
        /\ g[k] = IF k = 1 THEN s[k] ELSE Concat(f[k - 1], s[k])
    BY <2>1
  <2>5. \A i \in 1 .. k : g[i] = IF i = 1 THEN s[i] ELSE Concat(g[i - 1], s[i])
    <3> TAKE i \in 1 .. k
    <3> HIDE DEF g
    <3>1. CASE i = 1
      BY <2>1, <2>3, <2>4, <3>1
    <3>2. CASE i > 1 /\ i < k
      <4>1. i - 1 \in 1 .. k - 1 /\ i \in 1 .. k - 1 /\ i \in 2 .. k - 1
        BY <2>1, <3>2
      <4>2. QED
        BY <2>3, <2>4, <3>2, <4>1
    <3>3. CASE i > 1 /\ i = k
      <4>1. k - 1 \in 1 .. k - 1
        BY <2>1, <3>3
      <4>2. QED
        BY <2>4, <3>3, <4>1
    <3>4. QED
      BY <2>1, <3>1, <3>2, <3>3
  <2>6. IsLoop(g, s, k)
    <3> DEFINE G == [i \in 1 .. k |-> IF i = 1 THEN s[i] ELSE Concat(g[i - 1], s[i])]
    <3>1. g = G
      BY <2>5
    <3>2. QED
      BY <3>1 DEF IsLoop
  <2> HIDE DEF g
  <2>7. QED
    BY <1>2, <2>6
<1>5. QED
  BY <1>3, <1>4

\* What the loop has joined depends on the sequences before only, and is a sequence.
LEMMA LoopAgrees ==
  ASSUME NEW S, NEW s \in Seq(Seq(S)), NEW t \in Seq(Seq(S)),
         NEW m \in Nat, m <= Len(s), m <= Len(t), \A i \in 1 .. m : s[i] = t[i],
         NEW f, IsLoop(f, s, Len(s)), NEW g, IsLoop(g, t, Len(t))
  PROVE  \A i \in 1 .. m : f[i] = g[i] /\ f[i] \in Seq(S)
<1> DEFINE Wrong == {i \in 1 .. m : ~ (f[i] = g[i] /\ f[i] \in Seq(S))}
<1>1. SUFFICES ASSUME Wrong # {} PROVE FALSE
  OBVIOUS
<1>2. PICK k \in Wrong : \A j \in Wrong : k <= j
  <2>1. Wrong \in SUBSET Nat
    OBVIOUS
  <2> HIDE DEF Wrong
  <2>2. QED
    BY <1>1, <2>1, LeastElement
<1>3. /\ Len(s) \in Nat /\ Len(t) \in Nat
      /\ k \in Nat /\ 1 <= k /\ k <= m
      /\ s[k] \in Seq(S) /\ s[k] = t[k] /\ s[1] = t[1] /\ s[1] \in Seq(S)
  <2>1. Len(s) \in Nat /\ Len(t) \in Nat /\ k \in 1 .. m
    OBVIOUS
  <2>2. k \in 1 .. Len(s) /\ 1 \in 1 .. Len(s) /\ 1 \in 1 .. m
    BY <2>1
  <2>3. QED
    BY <2>1, <2>2
<1>4. /\ f[1] = s[1] /\ g[1] = t[1]
      /\ \A i \in 2 .. Len(s) : f[i] = Concat(f[i - 1], s[i])
      /\ \A i \in 2 .. Len(t) : g[i] = Concat(g[i - 1], t[i])
  <2> HIDE DEF Wrong
  <2>1. Len(s) > 0 /\ Len(t) > 0
    BY <1>3
  <2>2. f[1] = s[1] /\ \A i \in 2 .. Len(s) : f[i] = Concat(f[i - 1], s[i])
    BY <1>3, <2>1, LoopStep
  <2>3. g[1] = t[1] /\ \A i \in 2 .. Len(t) : g[i] = Concat(g[i - 1], t[i])
    BY <1>3, <2>1, LoopStep
  <2>4. QED
    BY <2>2, <2>3
<1>5. CASE k = 1
  BY <1>2, <1>3, <1>4, <1>5
<1>6. CASE k > 1
  <2>1. f[k - 1] = g[k - 1] /\ f[k - 1] \in Seq(S)
    <3>1. k - 1 \in 1 .. m /\ ~ (k <= k - 1)
      BY <1>3, <1>6
    <3>2. QED
      BY <1>2, <3>1
  <2>2. k \in 2 .. Len(s) /\ k \in 2 .. Len(t)
    BY <1>3, <1>6
  <2>3. f[k] = Concat(f[k - 1], s[k]) /\ g[k] = Concat(g[k - 1], s[k])
    BY <1>3, <1>4, <2>2
  <2>4. Concat(f[k - 1], s[k]) \in Seq(S)
    BY <1>3, <2>1, ConcatProperties DEF Concat
  <2>5. QED
    BY <1>2, <2>1, <2>3, <2>4
<1>7. QED
  BY <1>3, <1>5, <1>6

\* Flattening one sequence more adds it at the end.
LEMMA FlattenGrows ==
  ASSUME NEW S, NEW s \in Seq(Seq(S)), NEW t \in Seq(Seq(S)),
         Len(t) = Len(s) + 1, \A i \in 1 .. Len(s) : t[i] = s[i]
  PROVE  FlattenSeq(s) \in Seq(S) /\ FlattenSeq(t) = FlattenSeq(s) \o t[Len(t)]
<1>1. ASSUME NEW u \in Seq(Seq(S)), Len(u) # 0
      PROVE  \E f : IsLoop(f, u, Len(u)) /\ FlattenSeq(u) = f[Len(u)]
  <2> DEFINE flat == CHOOSE f : IsLoop(f, u, Len(u))
  <2>1. FlattenSeq(u) = flat[Len(u)]
    BY <1>1 DEF FlattenSeq, IsLoop, Concat
  <2>2. IsLoop(flat, u, Len(u))
    <3>1. Len(u) \in Nat
      OBVIOUS
    <3>2. QED
      BY <3>1, LoopExists
  <2> HIDE DEF flat
  <2>3. QED
    BY <2>1, <2>2
<1>2. Len(s) \in Nat /\ Len(t) \in Nat /\ Len(t) > 0 /\ t[Len(t)] \in Seq(S)
  OBVIOUS
<1>3. PICK g : IsLoop(g, t, Len(t)) /\ FlattenSeq(t) = g[Len(t)]
  BY <1>1, <1>2
<1>4. /\ g[1] = t[1]
      /\ \A i \in 2 .. Len(t) : g[i] = Concat(g[i - 1], t[i])
  <2>1. IsLoop(g, t, Len(t)) /\ Len(t) \in Nat /\ Len(t) > 0
    BY <1>2, <1>3
  <2>2. QED
    BY ONLY <2>1, LoopStep
<1>5. CASE Len(s) = 0
  <2>1. FlattenSeq(t) = t[1] /\ Len(t) = 1
    BY <1>2, <1>3, <1>4, <1>5
  <2>2. FlattenSeq(s) = s /\ s = <<>> /\ <<>> \in Seq(S)
    BY <1>5, EmptySeq DEF FlattenSeq
  <2>3. QED
    BY <1>2, <2>1, <2>2, ConcatEmptySeq
<1>6. CASE Len(s) # 0
  <2>0. PICK f : IsLoop(f, s, Len(s)) /\ FlattenSeq(s) = f[Len(s)]
    BY <1>1, <1>6
  <2>1. \A i \in 1 .. Len(s) : f[i] = g[i] /\ f[i] \in Seq(S)
    <3>1. Len(s) <= Len(s) /\ Len(s) <= Len(t) /\ \A i \in 1 .. Len(s) : s[i] = t[i]
      BY <1>2
    <3>2. QED
      <4>1. /\ s \in Seq(Seq(S)) /\ t \in Seq(Seq(S)) /\ Len(s) \in Nat
            /\ IsLoop(f, s, Len(s)) /\ IsLoop(g, t, Len(t))
        BY <1>2, <1>3, <2>0
      <4>2. QED
        BY ONLY <3>1, <4>1, LoopAgrees
  <2>2. Len(t) - 1 = Len(s) /\ Len(s) \in 1 .. Len(s) /\ Len(t) \in 2 .. Len(t)
    BY <1>2, <1>6
  <2>3. g[Len(t)] = Concat(g[Len(t) - 1], t[Len(t)])
    BY <1>4, <2>2
  <2>4. g[Len(t)] = Concat(f[Len(s)], t[Len(t)]) /\ f[Len(s)] \in Seq(S)
    BY <2>1, <2>2, <2>3
  <2>5. QED
    BY <1>3, <2>0, <2>4 DEF Concat
<1>7. QED
  BY <1>5, <1>6

\* The text of events grows by the text of each event that is added.
LEMMA TextGrows ==
  ASSUME NEW s \in Seq(Events), NEW e \in Events
  PROVE  /\ TextOf(s) \in Seq(Tokens)
         /\ TextOf(Append(s, e)) = TextOf(s) \o e.tokens
<1> DEFINE t == Append(s, e)
           p == [i \in DOMAIN s |-> s[i].tokens]
           q == [i \in DOMAIN t |-> t[i].tokens]
<1>1. /\ t \in Seq(Events) /\ Len(t) = Len(s) + 1 /\ Len(s) \in Nat
      /\ \A i \in 1 .. Len(s) : t[i] = s[i]
      /\ t[Len(t)] = e
  OBVIOUS
<1>2. \A u \in Seq(Events) : \A i \in 1 .. Len(u) : u[i].tokens \in Seq(Tokens)
  <2>1. \A u \in Seq(Events) : \A i \in 1 .. Len(u) : u[i] \in Events
    OBVIOUS
  <2>2. QED
    BY <2>1 DEF Events
<1> HIDE DEF t
<1>3. /\ p \in Seq(Seq(Tokens)) /\ Len(p) = Len(s)
      /\ \A i \in 1 .. Len(s) : p[i] = s[i].tokens
  BY <1>2
<1>4. /\ q \in Seq(Seq(Tokens)) /\ Len(q) = Len(t)
      /\ \A i \in 1 .. Len(t) : q[i] = t[i].tokens
  BY <1>1, <1>2
<1>5. TextOf(s) = FlattenSeq(p) /\ TextOf(t) = FlattenSeq(q)
  BY DEF TextOf
<1> HIDE DEF p, q
<1>6. FlattenSeq(p) \in Seq(Tokens) /\ FlattenSeq(q) = FlattenSeq(p) \o q[Len(q)]
  <2>1. Len(q) = Len(p) + 1
    BY <1>1, <1>3, <1>4
  <2>2. ASSUME NEW i \in 1 .. Len(p) PROVE q[i] = p[i]
    <3>1. i \in 1 .. Len(s) /\ i \in 1 .. Len(t)
      BY <1>1, <1>3
    <3>2. q[i] = t[i].tokens /\ p[i] = s[i].tokens /\ t[i] = s[i]
      BY <1>1, <1>3, <1>4, <3>1
    <3>3. QED
      BY <3>2
  <2>3. QED
    BY <1>3, <1>4, <2>1, <2>2, FlattenGrows
<1>7. q[Len(q)] = e.tokens
  <2>1. Len(t) \in 1 .. Len(t) /\ t[Len(t)] = e /\ Len(q) = Len(t)
    BY <1>1, <1>4
  <2>2. q[Len(t)] = t[Len(t)].tokens
    BY <1>4, <2>1
  <2>3. QED
    BY <2>1, <2>2
<1>8. QED
  BY <1>5, <1>6, <1>7 DEF t

\* No events, no text.
LEMMA NoText == TextOf(<<>>) = <<>>
  BY DEF TextOf, FlattenSeq

-----------------------------------------------------------------------------
(* The streams *)

\* What a client has been and will be given of a stream.
AllEvents(r) == got[r] \o events[r] \o out[r]

\* A stream that has been read to its end: text, then the statistics or an error.  With the
\* statistics nothing is left in the buffer.
IsEnded(r) ==
  LET all == AllEvents(r) IN
  /\ all # <<>> /\ all[Len(all)] \in {Stats, Error}
  /\ \A i \in 1 .. Len(all) - 1 : all[i].kind = "text"
  /\ all[Len(all)] = Stats => buffered[r] = <<>> /\ (r \notin streamed => Len(all) = 2)

\* One that goes on: text only, which waits in the buffer unless it is streamed.
GoesOn(r) ==
  /\ \A i \in 1 .. Len(AllEvents(r)) : AllEvents(r)[i].kind = "text"
  /\ IF r \in streamed THEN buffered[r] = <<>> ELSE AllEvents(r) = <<>>

\* Nothing has been read yet.
NotBegun(r) ==
  /\ task[r] = "none" /\ sent[r] = <<>> /\ held[r] = <<>> /\ buffered[r] = <<>>
  /\ out[r] = <<>> /\ events[r] = <<>> /\ got[r] = <<>>

\* What the task has done of a stream while its client reads it, and when it is over.
StreamInv(r) ==
  /\ call[r] \in {"idle", "preprocessing", "calling"} => NotBegun(r)
  /\ call[r] = "streaming" =>
       /\ task[r] # "none"
       /\ \A i \in 1 .. Len(got[r]) : got[r][i] # Error
       /\ task[r] = "reading" => GoesOn(r)
       /\ task[r] = "last" => IsEnded(r) /\ out[r] # <<>>
       /\ task[r] = "done" => IsEnded(r) /\ out[r] = <<>>
  /\ call[r] = "ok" => task[r] = "done"
  /\ TextIsConserved(r) /\ SuccessIsComplete(r)

-----------------------------------------------------------------------------
(* What is sent *)

LEMMA JoinFacts ==
  ASSUME NEW S, NEW s \in Seq(S), NEW t \in Seq(S), NEW x \in S
  PROVE  /\ s \o t \in Seq(S) /\ Append(s, x) \in Seq(S) /\ <<x>> \in Seq(S) /\ <<>> \in Seq(S)
         /\ s \o Append(t, x) = Append(s \o t, x)
         /\ s \o <<x>> = Append(s, x)
         /\ s \o <<>> = s /\ <<>> \o s = s
<1>1. /\ s \o t \in Seq(S) /\ Append(s, x) \in Seq(S) /\ Append(t, x) \in Seq(S)
      /\ <<x>> \in Seq(S) /\ <<>> \in Seq(S)
  OBVIOUS
<1>2. s \o <<>> = s /\ <<>> \o s = s
  BY ConcatEmptySeq
<1>3. /\ s \o <<x>> = Append(s, x) /\ t \o <<x>> = Append(t, x)
      /\ (s \o t) \o <<x>> = Append(s \o t, x)
  BY <1>1
<1>4. (s \o t) \o <<x>> = s \o (t \o <<x>>)
  BY <1>1, ConcatAssociative
<1>5. QED
  BY <1>1, <1>2, <1>3, <1>4

LEMMA StreamTypes ==
  ASSUME HandlerTypeOK, NEW r \in Requests
  PROVE  /\ got[r] \in Seq(Events) /\ events[r] \in Seq(Events) /\ out[r] \in Seq(Events)
         /\ sent[r] \in Seq(Tokens) /\ held[r] \in Seq(Tokens) /\ buffered[r] \in Seq(Tokens)
         /\ AllEvents(r) \in Seq(Events)
         /\ TextOf(AllEvents(r)) \in Seq(Tokens)
         /\ task[r] \in {"none", "reading", "last", "done"}
<1>1. /\ got[r] \in Seq(Events) /\ events[r] \in Seq(Events) /\ out[r] \in Seq(Events)
      /\ sent[r] \in Seq(Tokens) /\ held[r] \in Seq(Tokens) /\ buffered[r] \in Seq(Tokens)
      /\ task[r] \in {"none", "reading", "last", "done"}
  BY DEF HandlerTypeOK
<1>2. got[r] \o events[r] \in Seq(Events)
  BY <1>1, ConcatProperties
<1>3. AllEvents(r) \in Seq(Events)
  BY <1>1, <1>2, ConcatProperties DEF AllEvents
<1>4. TextOf(AllEvents(r)) \in Seq(Tokens)
  BY <1>3, TextGrows, EventsAreTyped
<1>5. QED
  BY <1>1, <1>3, <1>4

\* What nobody touches stays as it is.
LEMMA SameStream ==
  ASSUME NEW r, StreamInv(r), streamed' = streamed,
         call'[r] = call[r], task'[r] = task[r], sent'[r] = sent[r], held'[r] = held[r],
         buffered'[r] = buffered[r], out'[r] = out[r], events'[r] = events[r], got'[r] = got[r]
  PROVE  StreamInv(r)'
<1>1. /\ AllEvents(r)' = AllEvents(r)
      /\ NotBegun(r)' = NotBegun(r)
  BY DEF AllEvents, NotBegun
<1>2. IsEnded(r)' = IsEnded(r) /\ GoesOn(r)' = GoesOn(r)
  BY <1>1 DEF IsEnded, GoesOn
<1>3. TextIsConserved(r)' /\ SuccessIsComplete(r)'
  BY DEF StreamInv, TextIsConserved, SuccessIsComplete
<1>4. QED
  BY <1>1, <1>2, <1>3 DEF StreamInv

\* Nothing is claimed of a call that failed or whose client left.
LEMMA LostStream ==
  ASSUME NEW r, call'[r] \in {"left", "error"}
  PROVE  StreamInv(r)'
  BY DEF StreamInv, TextIsConserved, SuccessIsComplete

\* A call that is not being read yet has not begun, one that has ended has no task.
LEMMA ReadingMeans ==
  ASSUME HandlerTypeOK, NEW r \in Requests, StreamInv(r), task[r] = "reading"
  PROVE  call[r] \in {"streaming", "left", "error"}
  BY DEF StreamInv, NotBegun, HandlerTypeOK, Open

LEMMA CallKeepsStream ==
  ASSUME HandlerTypeOK, NEW r \in Requests, StreamInv(r),
         Arrive(r) \/ ArriveTooLate(r) \/ ClientLeaves(r) \/ Serve(r)
  PROVE  StreamInv(r)'
<1>1. CASE ClientLeaves(r)
  BY <1>1, LostStream DEF ClientLeaves, HandlerTypeOK
<1>2. ASSUME call[r] \in {"idle", "preprocessing", "calling"},
             UNCHANGED <<streamed, taskVars, got>>,
             call'[r] \in {"preprocessing", "calling", "error"}
      PROVE  StreamInv(r)'
  <2>1. NotBegun(r)'
    BY <1>2 DEF StreamInv, NotBegun, taskVars
  <2>2. QED
    BY <1>2, <2>1 DEF StreamInv, TextIsConserved, SuccessIsComplete
<1>3. CASE Arrive(r) \/ ArriveTooLate(r) \/ Preprocessed(r) \/ RunnerRefuses(r)
  BY <1>2, <1>3 DEF Arrive, ArriveTooLate, Preprocessed, RunnerRefuses, HandlerTypeOK
<1>4. CASE RunnerAccepts(r)
  <2>1. /\ call'[r] = "streaming" /\ task'[r] = "reading"
        /\ sent'[r] = <<>> /\ held'[r] = <<>> /\ buffered'[r] = <<>>
        /\ out'[r] = <<>> /\ events'[r] = <<>> /\ got'[r] = <<>>
    BY <1>4 DEF RunnerAccepts, StreamInv, NotBegun, HandlerTypeOK
  <2>2. <<>> \o <<>> = <<>>
    OBVIOUS
  <2>3. AllEvents(r)' = <<>>
    BY <2>1, <2>2 DEF AllEvents
  <2>4. TextIsConserved(r)'
    BY <2>1, <2>2, NoText DEF TextIsConserved
  <2>5. GoesOn(r)'
    BY <2>1, <2>3 DEF GoesOn
  <2>6. QED
    BY <2>1, <2>4, <2>5 DEF StreamInv, SuccessIsComplete
<1>5. QED
  BY <1>1, <1>3, <1>4 DEF Serve

\* A sequence is its head and its tail.
LEMMA MovingOn ==
  ASSUME NEW S, NEW s \in Seq(S), NEW o \in Seq(S), o # <<>>
  PROVE  Append(s, Head(o)) \o Tail(o) = s \o o
<1>1. /\ Head(o) \in S /\ Tail(o) \in Seq(S) /\ o[1] = Head(o) /\ Len(o) \in Nat \ {0}
      /\ Len(Tail(o)) = Len(o) - 1
      /\ \A i \in 1 .. Len(o) - 1 : Tail(o)[i] = o[i + 1]
  OBVIOUS
<1>2. <<Head(o)>> \o Tail(o) = o
  <2>1. /\ <<Head(o)>> \in Seq(S) /\ Len(<<Head(o)>>) = 1 /\ <<Head(o)>>[1] = Head(o)
        /\ <<Head(o)>> \o Tail(o) \in Seq(S)
        /\ Len(<<Head(o)>> \o Tail(o)) = Len(o)
        /\ \A i \in 1 .. Len(o) : (<<Head(o)>> \o Tail(o))[i] = o[i]
    BY <1>1
  <2>2. QED
    BY <2>1, SeqEqual
<1>3. (s \o <<Head(o)>>) \o Tail(o) = s \o (<<Head(o)>> \o Tail(o))
  BY <1>1, ConcatAssociative
<1>4. s \o <<Head(o)>> = Append(s, Head(o))
  BY <1>1, JoinFacts
<1>5. QED
  BY <1>2, <1>3, <1>4

\* The first of o passed on to t, behind s.
Passed(s, t, o) == (s \o Append(t, Head(o))) \o Tail(o)

LEMMA MovingOnBehind ==
  ASSUME NEW S, NEW s \in Seq(S), NEW t \in Seq(S), NEW o \in Seq(S), o # <<>>
  PROVE  Passed(s, t, o) = (s \o t) \o o
<1>1. s \o t \in Seq(S) /\ Head(o) \in S
  BY JoinFacts
<1>2. s \o Append(t, Head(o)) = Append(s \o t, Head(o))
  BY <1>1, JoinFacts
<1>3. \A u \in Seq(S) : Append(u, Head(o)) \o Tail(o) = u \o o
  BY MovingOn
<1>4. QED
  BY <1>1, <1>2, <1>3 DEF Passed

\* Wherever the decoder's next text goes, it comes after the text before it.
LEMMA TextGoesOn ==
  ASSUME NEW t \in Seq(Tokens), NEW b \in Seq(Tokens), NEW h \in Seq(Tokens), NEW x \in Tokens
  PROVE  /\ (t \o b) \o Append(h, x) = Append((t \o b) \o h, x)
         /\ (t \o (b \o Append(h, x))) \o <<>> = Append((t \o b) \o h, x)
         /\ ((t \o Append(h, x)) \o <<>>) \o <<>> = Append((t \o <<>>) \o h, x)
<1>1. /\ t \o b \in Seq(Tokens) /\ Append(h, x) \in Seq(Tokens)
      /\ t \o Append(h, x) \in Seq(Tokens)
      /\ b \o Append(h, x) \in Seq(Tokens)
  BY JoinFacts
<1>2. (t \o b) \o Append(h, x) = Append((t \o b) \o h, x)
  BY <1>1, JoinFacts
<1>3. t \o (b \o Append(h, x)) = (t \o b) \o Append(h, x)
  <2>1. \A u \in Seq(Tokens) : (t \o b) \o u = t \o (b \o u)
    BY ConcatAssociative
  <2>2. QED
    BY <1>1, <2>1
<1>4. (t \o (b \o Append(h, x))) \o <<>> = t \o (b \o Append(h, x))
  <2>1. t \o (b \o Append(h, x)) \in Seq(Tokens)
    BY <1>1, ConcatProperties
  <2>2. QED
    BY <2>1, ConcatEmptySeq
<1>5. t \o Append(h, x) = Append(t \o h, x) /\ t \o <<>> = t
  BY JoinFacts
<1>6. ((t \o Append(h, x)) \o <<>>) \o <<>> = t \o Append(h, x)
  BY <1>1, ConcatEmptySeq
<1>7. QED
  BY <1>2, <1>3, <1>4, <1>5, <1>6

\* What is added to the events of a task that has sent all it had.
LEMMA EventsGrow ==
  ASSUME HandlerTypeOK, NEW r \in Requests, NEW e \in Events, out[r] = <<>>,
         got'[r] = got[r], events'[r] = events[r], out'[r] = <<e>>
  PROVE  /\ AllEvents(r)' = Append(AllEvents(r), e)
         /\ TextOf(AllEvents(r)') = TextOf(AllEvents(r)) \o e.tokens
         /\ Len(AllEvents(r)') = Len(AllEvents(r)) + 1
         /\ AllEvents(r)'[Len(AllEvents(r)')] = e
         /\ \A i \in 1 .. Len(AllEvents(r)) : AllEvents(r)'[i] = AllEvents(r)[i]
<1>1. got[r] \in Seq(Events) /\ events[r] \in Seq(Events) /\ AllEvents(r) \in Seq(Events)
  BY StreamTypes
<1>2. got[r] \o events[r] \in Seq(Events)
  BY <1>1, ConcatProperties
<1>3. AllEvents(r) = got[r] \o events[r]
  BY <1>2, ConcatEmptySeq DEF AllEvents
<1>4. AllEvents(r)' = (got[r] \o events[r]) \o <<e>>
  BY DEF AllEvents
<1>5. (got[r] \o events[r]) \o <<e>> = Append(got[r] \o events[r], e)
  <2>1. \A u \in Seq(Events) : u \o <<e>> = Append(u, e)
    BY JoinFacts
  <2>2. QED
    BY <1>2, <2>1
<1>6. AllEvents(r)' = Append(AllEvents(r), e)
  BY <1>3, <1>4, <1>5
<1> DEFINE a == AllEvents(r)
<1>7. a \in Seq(Events)
  BY <1>1
<1> HIDE DEF a
<1>8. /\ Len(Append(a, e)) = Len(a) + 1
      /\ Append(a, e)[Len(Append(a, e))] = e
      /\ \A i \in 1 .. Len(a) : Append(a, e)[i] = a[i]
  BY <1>7
<1>9. TextOf(Append(a, e)) = TextOf(a) \o e.tokens
  BY <1>7, TextGrows
<1>10. QED
  BY <1>6, <1>8, <1>9 DEF a

\* What a stream that is read looks like.
LEMMA Conserved ==
  ASSUME NEW r, StreamInv(r), call[r] = "streaming"
  PROVE  (TextOf(AllEvents(r)) \o buffered[r]) \o held[r] = sent[r]
  BY DEF StreamInv, TextIsConserved, AllEvents

\* What is left to show of one that is read on.
LEMMA StillStreaming ==
  ASSUME NEW r, call'[r] = "streaming", task'[r] \in {"reading", "last", "done"},
         \A i \in 1 .. Len(got'[r]) : got'[r][i] # Error,
         task'[r] = "reading" => GoesOn(r)',
         task'[r] = "last" => IsEnded(r)' /\ out'[r] # <<>>,
         task'[r] = "done" => IsEnded(r)' /\ out'[r] = <<>>,
         (TextOf(AllEvents(r)') \o buffered'[r]) \o held'[r] = sent'[r]
  PROVE  StreamInv(r)'
<1>1. TextIsConserved(r)'
  BY DEF TextIsConserved, AllEvents
<1>2. SuccessIsComplete(r)'
  BY DEF SuccessIsComplete
<1>3. task'[r] # "none"
  OBVIOUS
<1>4. QED
  BY <1>1, <1>2, <1>3 DEF StreamInv

LEMMA ReadTokenKeepsStream ==
  ASSUME HandlerTypeOK, NEW r \in Requests, StreamInv(r), call[r] = "streaming", ReadToken(r)
  PROVE  StreamInv(r)'
<1> DEFINE t == TextOf(AllEvents(r))
           b == buffered[r]
           h == held[r]
           x == Len(sent[r]) + 1
<1>1. /\ t \in Seq(Tokens) /\ b \in Seq(Tokens) /\ h \in Seq(Tokens) /\ x \in Tokens
      /\ AllEvents(r) \in Seq(Events)
  <2>1. sent[r] \in Seq(Tokens)
    BY StreamTypes
  <2>2. x \in Tokens
    BY <2>1 DEF Tokens
  <2>3. QED
    BY <2>2, StreamTypes
<1>2. (t \o b) \o h = sent[r]
  BY Conserved
<1>3. /\ task[r] = "reading" /\ out[r] = <<>> /\ GoesOn(r)
      /\ \A i \in 1 .. Len(got[r]) : got[r][i] # Error
  BY DEF ReadToken, Reading, StreamInv
<1>4. /\ call'[r] = "streaming" /\ task'[r] = "reading" /\ streamed' = streamed
      /\ got'[r] = got[r] /\ events'[r] = events[r]
      /\ sent'[r] = Append(sent[r], x)
      /\ \/ held'[r] = Append(h, x) /\ buffered'[r] = b /\ out'[r] = out[r]
         \/ /\ r \in streamed
            /\ held'[r] = <<>> /\ buffered'[r] = b /\ out'[r] = <<Text(Append(h, x))>>
         \/ /\ r \notin streamed
            /\ held'[r] = <<>> /\ buffered'[r] = b \o Append(h, x) /\ out'[r] = out[r]
  BY <1>3 DEF ReadToken, HandlerTypeOK
<1>5. /\ (t \o b) \o Append(h, x) = Append((t \o b) \o h, x)
      /\ (t \o (b \o Append(h, x))) \o <<>> = Append((t \o b) \o h, x)
      /\ ((t \o Append(h, x)) \o <<>>) \o <<>> = Append((t \o <<>>) \o h, x)
  <2> HIDE DEF t, b, h, x
  <2>1. QED
    BY <1>1, TextGoesOn
<1>6. SUFFICES /\ GoesOn(r)'
               /\ (TextOf(AllEvents(r)') \o buffered'[r]) \o held'[r] = sent'[r]
  BY <1>3, <1>4, StillStreaming
<1>7. CASE out'[r] = out[r]
  <2>1. AllEvents(r)' = AllEvents(r)
    BY <1>4, <1>7 DEF AllEvents
  <2>2. TextOf(AllEvents(r)') = t
    BY <2>1
  <2>3. \/ held'[r] = Append(h, x) /\ buffered'[r] = b
        \/ r \notin streamed /\ held'[r] = <<>> /\ buffered'[r] = b \o Append(h, x)
    <3>1. <<Text(Append(h, x))>> # <<>>
      OBVIOUS
    <3>2. QED
      BY <1>3, <1>4, <1>7, <3>1
  <2>4. GoesOn(r)'
    BY <1>3, <1>4, <2>1, <2>3 DEF GoesOn
  <2>5. (TextOf(AllEvents(r)') \o buffered'[r]) \o held'[r] = sent'[r]
    <3> HIDE DEF t, b, h, x
    <3>1. QED
      BY <1>2, <1>4, <1>5, <2>2, <2>3
  <2>6. QED
    BY <2>4, <2>5
<1>8. CASE out'[r] # out[r]
  <2>1. /\ r \in streamed
        /\ held'[r] = <<>> /\ buffered'[r] = b /\ out'[r] = <<Text(Append(h, x))>>
    BY <1>4, <1>8
  <2>2. Text(Append(h, x)) \in Events /\ Text(Append(h, x)).tokens = Append(h, x)
    <3>1. Append(h, x) \in Seq(Tokens)
      BY <1>1, JoinFacts
    <3>2. QED
      BY <3>1, EventsAreTyped DEF Text
  <2> DEFINE e == Text(Append(h, x))
  <2>3. /\ AllEvents(r)' = Append(AllEvents(r), e)
        /\ TextOf(AllEvents(r)') = t \o e.tokens
    BY <1>3, <1>4, <2>1, <2>2, EventsGrow
  <2>4. b = <<>>
    BY <1>3, <2>1 DEF GoesOn
  <2>5. GoesOn(r)'
    <3>1. \A i \in 1 .. Len(AllEvents(r)) : AllEvents(r)[i].kind = "text"
      BY <1>3 DEF GoesOn
    <3>2. e.kind = "text"
      BY DEF Text
    <3>3. \A i \in 1 .. Len(AllEvents(r)') : AllEvents(r)'[i].kind = "text"
      <4> HIDE DEF e
      <4>1. \A i \in 1 .. Len(Append(AllEvents(r), e)) : Append(AllEvents(r), e)[i].kind = "text"
        BY <1>1, <3>1, <3>2
      <4>2. QED
        BY <2>3, <4>1
    <3>4. QED
      BY <1>4, <2>1, <2>4, <3>3 DEF GoesOn
  <2>6. (TextOf(AllEvents(r)') \o buffered'[r]) \o held'[r] = sent'[r]
    <3>1. TextOf(AllEvents(r)') = t \o Append(h, x)
      BY <2>2, <2>3
    <3> HIDE DEF t, b, h, x
    <3>2. QED
      BY <1>2, <1>4, <1>5, <2>1, <2>4, <3>1
  <2>7. QED
    BY <2>5, <2>6
<1>9. QED
  BY <1>7, <1>8

LEMMA ReadEndKeepsStream ==
  ASSUME HandlerTypeOK, NEW r \in Requests, StreamInv(r), call[r] = "streaming",
         ReadStats(r) \/ ReadFailure(r)
  PROVE  StreamInv(r)'
<1> DEFINE a == AllEvents(r)
           b == buffered[r]
<1>1. /\ TextOf(a) \in Seq(Tokens) /\ b \in Seq(Tokens) /\ a \in Seq(Events)
      /\ Stats \in Events /\ Error \in Events /\ Text(b) \in Events
      /\ Stats.tokens = <<>> /\ Error.tokens = <<>> /\ Stats # Error
      /\ Text(b).tokens = b /\ Text(b).kind = "text"
  BY StreamTypes, EventsAreTyped DEF Stats, Error, Text
<1>2. (TextOf(a) \o b) \o held[r] = sent[r]
  BY Conserved
<1>3. /\ task[r] = "reading" /\ out[r] = <<>> /\ GoesOn(r)
      /\ \A i \in 1 .. Len(got[r]) : got[r][i] # Error
  BY DEF ReadStats, ReadFailure, Reading, StreamInv
<1>4. /\ call'[r] = "streaming" /\ task'[r] = "last" /\ streamed' = streamed
      /\ got'[r] = got[r] /\ events'[r] = events[r]
      /\ held'[r] = held[r] /\ sent'[r] = sent[r]
      /\ \/ /\ out'[r] = IF r \in streamed THEN <<Stats>> ELSE <<Text(b), Stats>>
            /\ buffered'[r] = <<>>
         \/ out'[r] = <<Error>> /\ buffered'[r] = b
  BY <1>3 DEF ReadStats, ReadFailure, HandlerTypeOK
<1>5. <<Stats>> # <<>> /\ <<Text(b), Stats>> # <<>> /\ <<Error>> # <<>>
  OBVIOUS
<1>6. out'[r] # <<>>
  BY <1>4, <1>5
<1>7. SUFFICES /\ IsEnded(r)'
               /\ (TextOf(AllEvents(r)') \o buffered'[r]) \o held'[r] = sent'[r]
  BY <1>3, <1>4, <1>6, StillStreaming
<1>8. \A i \in 1 .. Len(a) : a[i].kind = "text"
  BY <1>3 DEF GoesOn
<1>9. TextOf(a) \o <<>> = TextOf(a)
  BY <1>1, ConcatEmptySeq
<1>10. ASSUME NEW e \in {Stats, Error}, out'[r] = <<e>>, e = Stats => buffered'[r] = <<>>,
              r \in streamed \/ e = Error
       PROVE  IsEnded(r)' /\ TextOf(AllEvents(r)') = TextOf(a)
  <2>1. /\ TextOf(AllEvents(r)') = TextOf(a) \o e.tokens
        /\ Len(AllEvents(r)') = Len(a) + 1
        /\ AllEvents(r)'[Len(AllEvents(r)')] = e
        /\ \A i \in 1 .. Len(a) : AllEvents(r)'[i] = a[i]
    <3>1. e \in Events
      BY <1>1
    <3>2. QED
      BY <1>3, <1>4, <1>10, <3>1, EventsGrow
  <2>2. TextOf(AllEvents(r)') = TextOf(a)
    BY <1>1, <1>9, <2>1
  <2>3. Len(a) \in Nat
    BY <1>1
  <2> HIDE DEF a
  <2>4. AllEvents(r)' # <<>> /\ Len(AllEvents(r)') - 1 = Len(a)
    BY <2>1, <2>3
  <2>5. \A i \in 1 .. Len(AllEvents(r)') - 1 : AllEvents(r)'[i].kind = "text"
    BY <1>8, <2>1, <2>4
  <2>6. IsEnded(r)'
    BY <1>1, <1>4, <1>10, <2>1, <2>4, <2>5 DEF IsEnded
  <2>7. QED
    BY <2>2, <2>6
<1>11. CASE out'[r] = <<Error>> /\ buffered'[r] = b
  BY <1>1, <1>2, <1>4, <1>10, <1>11
<1>12. CASE out'[r] = <<Stats>> /\ buffered'[r] = <<>> /\ r \in streamed
  <2>1. b = <<>>
    BY <1>3, <1>12 DEF GoesOn
  <2>2. QED
    BY <1>2, <1>4, <1>10, <1>12, <2>1
<1>13. CASE out'[r] = <<Text(b), Stats>> /\ buffered'[r] = <<>> /\ r \notin streamed
  <2>1. a = <<>>
    BY <1>3, <1>13 DEF GoesOn
  <2>2. got[r] = <<>> /\ events[r] = <<>>
    <3>1. got[r] \in Seq(Events) /\ events[r] \in Seq(Events) /\ got[r] \o events[r] \in Seq(Events)
      BY StreamTypes, ConcatProperties
    <3>2. got[r] \o events[r] = <<>>
      BY <1>3, <2>1, <3>1, ConcatEmptySeq DEF AllEvents
    <3>3. QED
      BY <3>1, <3>2, ConcatEqualIffEmpty
  <2>3. AllEvents(r)' = <<Text(b), Stats>>
    <3>1. AllEvents(r)' = (<<>> \o <<>>) \o <<Text(b), Stats>>
      BY <1>4, <1>13, <2>2 DEF AllEvents
    <3>2. <<Text(b), Stats>> \in Seq(Events) /\ <<>> \in Seq(Events)
      BY <1>1
    <3>3. QED
      BY <3>1, <3>2, ConcatEmptySeq
  <2>4. TextOf(<<Text(b), Stats>>) = b
    <3>1. <<Text(b), Stats>> = Append(<<Text(b)>>, Stats) /\ <<Text(b)>> = Append(<<>>, Text(b))
      OBVIOUS
    <3>2. <<>> \in Seq(Events) /\ <<Text(b)>> \in Seq(Events)
      BY <1>1
    <3>3. TextOf(<<Text(b)>>) = b
      <4>1. TextOf(<<Text(b)>>) = <<>> \o b
        BY <1>1, <3>1, <3>2, TextGrows, NoText
      <4>2. QED
        BY <1>1, <4>1, ConcatEmptySeq
    <3>4. TextOf(<<Text(b), Stats>>) = b \o <<>>
      BY <1>1, <3>1, <3>2, <3>3, TextGrows
    <3>5. QED
      BY <1>1, <3>4, ConcatEmptySeq
  <2>5. (TextOf(AllEvents(r)') \o buffered'[r]) \o held'[r] = sent'[r]
    <3>1. TextOf(a) \o b = b /\ b \o <<>> = b
      BY <1>1, <2>1, NoText, ConcatEmptySeq
    <3> HIDE DEF a, b
    <3>2. QED
      BY <1>2, <1>4, <1>13, <2>3, <2>4, <3>1
  <2>6. IsEnded(r)'
    <3>1. /\ Len(<<Text(b), Stats>>) = 2 /\ <<Text(b), Stats>>[2] = Stats
          /\ <<Text(b), Stats>>[1] = Text(b)
      OBVIOUS
    <3>2. \A i \in 1 .. 2 - 1 : i = 1
      OBVIOUS
    <3> HIDE DEF a, b
    <3>3. QED
      BY <1>1, <1>5, <1>13, <2>3, <3>1, <3>2 DEF IsEnded
  <2>7. QED
    BY <2>5, <2>6
<1>14. QED
  BY <1>4, <1>11, <1>12, <1>13

\* Events that move on do not change what the client is given in all.
LEMMA SameEvents ==
  ASSUME NEW r, AllEvents(r)' = AllEvents(r), streamed' = streamed, buffered'[r] = buffered[r]
  PROVE  IsEnded(r)' = IsEnded(r) /\ GoesOn(r)' = GoesOn(r)
  BY DEF IsEnded, GoesOn

LEMMA SendKeepsStream ==
  ASSUME HandlerTypeOK, NEW r \in Requests, StreamInv(r), call[r] = "streaming", Send(r)
  PROVE  StreamInv(r)'
<1>1. /\ got[r] \in Seq(Events) /\ events[r] \in Seq(Events) /\ out[r] \in Seq(Events)
      /\ out[r] # <<>> /\ Len(out[r]) \in Nat \ {0} /\ Len(Tail(out[r])) = Len(out[r]) - 1
  <2>1. got[r] \in Seq(Events) /\ events[r] \in Seq(Events) /\ out[r] \in Seq(Events)
    BY StreamTypes
  <2>2. QED
    BY <2>1 DEF Send
<1>2. /\ call'[r] = "streaming" /\ streamed' = streamed /\ got'[r] = got[r]
      /\ events'[r] = Append(events[r], Head(out[r])) /\ out'[r] = Tail(out[r])
      /\ held'[r] = held[r] /\ sent'[r] = sent[r] /\ buffered'[r] = buffered[r]
      /\ task'[r] = IF task[r] = "last" /\ Len(out[r]) = 1 THEN "done" ELSE task[r]
  BY DEF Send, HandlerTypeOK
<1>3. AllEvents(r)' = AllEvents(r)
  <2>1. AllEvents(r)' = (got[r] \o Append(events[r], Head(out[r]))) \o Tail(out[r])
    BY <1>2 DEF AllEvents
  <2>2. (got[r] \o Append(events[r], Head(out[r]))) \o Tail(out[r])
          = (got[r] \o events[r]) \o out[r]
    <3> DEFINE g == got[r]
               e == events[r]
               o == out[r]
    <3>1. g \in Seq(Events) /\ e \in Seq(Events) /\ o \in Seq(Events) /\ o # <<>>
      BY <1>1
    <3> HIDE DEF g, e, o
    <3>2. Passed(g, e, o) = (g \o e) \o o
      BY ONLY <3>1, MovingOnBehind
    <3>3. (g \o Append(e, Head(o))) \o Tail(o) = (g \o e) \o o
      BY <3>2 DEF Passed
    <3>4. QED
      BY <3>3 DEF g, e, o
  <2>3. QED
    BY <2>1, <2>2 DEF AllEvents
<1>4. /\ task[r] \in {"reading", "last"}
      /\ task[r] = "reading" => GoesOn(r)
      /\ task[r] = "last" => IsEnded(r)
      /\ \A i \in 1 .. Len(got[r]) : got[r][i] # Error
  BY <1>1, StreamTypes DEF StreamInv
<1>5. IsEnded(r)' = IsEnded(r) /\ GoesOn(r)' = GoesOn(r)
  BY <1>2, <1>3, SameEvents
<1>6. Tail(out[r]) = <<>> <=> Len(out[r]) = 1
  <2> DEFINE o == out[r]
  <2>1. o \in Seq(Events) /\ o # <<>>
    BY <1>1
  <2> HIDE DEF o
  <2>2. Tail(o) \in Seq(Events) /\ Len(Tail(o)) = Len(o) - 1 /\ Len(o) \in Nat
    BY <2>1
  <2>3. Tail(o) = <<>> <=> Len(Tail(o)) = 0
    BY <2>2, EmptySeq
  <2>4. QED
    BY <2>2, <2>3 DEF o
<1>7. (TextOf(AllEvents(r)') \o buffered'[r]) \o held'[r] = sent'[r]
  BY <1>2, <1>3, Conserved
<1>8. QED
  BY <1>2, <1>4, <1>5, <1>6, <1>7, StillStreaming

LEMMA ClientReadsKeepsStream ==
  ASSUME HandlerTypeOK, NEW r \in Requests, StreamInv(r), ClientReads(r)
  PROVE  StreamInv(r)'
<1>1. /\ got[r] \in Seq(Events) /\ events[r] \in Seq(Events) /\ out[r] \in Seq(Events)
      /\ events[r] # <<>> /\ call[r] = "streaming"
  BY StreamTypes DEF ClientReads
<1>2. /\ call'[r] = IF Head(events[r]) = Error THEN "error" ELSE "streaming"
      /\ streamed' = streamed /\ got'[r] = Append(got[r], Head(events[r]))
      /\ events'[r] = Tail(events[r]) /\ out'[r] = out[r] /\ task'[r] = task[r]
      /\ held'[r] = held[r] /\ sent'[r] = sent[r] /\ buffered'[r] = buffered[r]
  BY <1>1 DEF ClientReads, HandlerTypeOK
<1>3. CASE Head(events[r]) = Error
  BY <1>2, <1>3, LostStream
<1>4. CASE Head(events[r]) # Error
  <2>1. AllEvents(r)' = AllEvents(r)
    <3>1. AllEvents(r)' = (Append(got[r], Head(events[r])) \o Tail(events[r])) \o out[r]
      BY <1>2 DEF AllEvents
    <3>2. Append(got[r], Head(events[r])) \o Tail(events[r]) = got[r] \o events[r]
      BY <1>1, MovingOn
    <3>3. QED
      BY <3>1, <3>2 DEF AllEvents
  <2>2. \A i \in 1 .. Len(got[r]) : got[r][i] # Error
    BY <1>1 DEF StreamInv
  <2>3. \A i \in 1 .. Len(got'[r]) : got'[r][i] # Error
    <3> DEFINE g == got[r]
               e == Head(events[r])
    <3>1. g \in Seq(Events) /\ \A i \in 1 .. Len(g) : g[i] # Error
      BY <1>1, <2>2
    <3>2. e # Error /\ got'[r] = Append(g, e)
      BY <1>2, <1>4
    <3> HIDE DEF g, e
    <3>3. \A i \in 1 .. Len(Append(g, e)) : Append(g, e)[i] # Error
      BY <3>1, <3>2
    <3>4. QED
      BY <3>2, <3>3
  <2>4. IsEnded(r)' = IsEnded(r) /\ GoesOn(r)' = GoesOn(r)
    BY <1>2, <2>1, SameEvents
  <2>5. (TextOf(AllEvents(r)') \o buffered'[r]) \o held'[r] = sent'[r]
    BY <1>1, <1>2, <2>1, Conserved
  <2>6. /\ task[r] \in {"reading", "last", "done"}
        /\ task[r] = "reading" => GoesOn(r)
        /\ task[r] = "last" => IsEnded(r) /\ out[r] # <<>>
        /\ task[r] = "done" => IsEnded(r) /\ out[r] = <<>>
    BY <1>1, StreamTypes DEF StreamInv
  <2>7. QED
    BY <1>2, <1>4, <2>3, <2>4, <2>5, <2>6, StillStreaming
<1>5. QED
  BY <1>3, <1>4

\* A stream ends with success only when all of it has been read, and no error in it.
LEMMA StreamEndsKeepsStream ==
  ASSUME HandlerTypeOK, NEW r \in Requests, StreamInv(r), StreamEnds(r)
  PROVE  StreamInv(r)'
<1>1. /\ call[r] = "streaming" /\ events[r] = <<>> /\ task[r] = "done"
      /\ call'[r] = "ok" /\ streamed' = streamed /\ task'[r] = "done" /\ got'[r] = got[r]
      /\ held'[r] = held[r] /\ sent'[r] = sent[r]
  BY DEF StreamEnds, HandlerTypeOK, taskVars
<1>2. IsEnded(r) /\ out[r] = <<>> /\ \A i \in 1 .. Len(got[r]) : got[r][i] # Error
  BY <1>1 DEF StreamInv
<1>3. got[r] \in Seq(Events)
  BY StreamTypes
<1>4. AllEvents(r) = got[r]
  BY <1>1, <1>2, <1>3, ConcatEmptySeq DEF AllEvents
<1>5. /\ got[r] # <<>> /\ got[r][Len(got[r])] \in {Stats, Error}
      /\ \A i \in 1 .. Len(got[r]) - 1 : got[r][i].kind = "text"
      /\ got[r][Len(got[r])] = Stats => buffered[r] = <<>> /\ (r \notin streamed => Len(got[r]) = 2)
  BY <1>2, <1>4 DEF IsEnded
<1>6. Len(got[r]) \in 1 .. Len(got[r])
  BY <1>3, <1>5
<1>7. got[r][Len(got[r])] = Stats /\ Last(got[r]) = Stats
  BY <1>2, <1>5, <1>6 DEF Last
<1>8. TextOf(got[r]) \o held[r] = sent[r]
  <2>1. (TextOf(got[r]) \o <<>>) \o held[r] = sent[r]
    BY <1>1, <1>4, <1>5, <1>7, Conserved
  <2>2. TextOf(got[r]) \in Seq(Tokens)
    BY <1>4, StreamTypes
  <2>3. QED
    BY <2>1, <2>2, ConcatEmptySeq
<1>9. SuccessIsComplete(r)'
  BY <1>1, <1>5, <1>7, <1>8 DEF SuccessIsComplete
<1>10. TextIsConserved(r)'
  BY <1>1 DEF TextIsConserved
<1>11. QED
  BY <1>1, <1>9, <1>10 DEF StreamInv

LEMMA TaskKeepsStream ==
  ASSUME HandlerTypeOK, NEW r \in Requests, StreamInv(r), Forward(r) \/ Consume(r)
  PROVE  StreamInv(r)'
<1>1. CASE Read(r)
  <2>1. task[r] = "reading" /\ call' = call
    BY <1>1 DEF Read, ReadToken, ReadStats, ReadFailure, Reading
  <2>2. CASE call[r] = "streaming"
    BY <1>1, <2>2, ReadTokenKeepsStream, ReadEndKeepsStream DEF Read
  <2>3. CASE call[r] # "streaming"
    BY <2>1, <2>3, ReadingMeans, LostStream
  <2>4. QED
    BY <2>2, <2>3
<1>2. CASE Send(r)
  BY <1>2, SendKeepsStream DEF Send
<1>3. CASE SendFails(r)
  <2>1. /\ out[r] # <<>> /\ call[r] # "streaming" /\ call' = call /\ task'[r] = "done"
        /\ UNCHANGED <<streamed, sent, held, buffered, got>>
    BY <1>3 DEF SendFails, HandlerTypeOK
  <2>2. call[r] \in {"ok", "left", "error"}
    BY <2>1 DEF HandlerTypeOK, Open, StreamInv, NotBegun
  <2>3. CASE call[r] = "ok"
    BY <2>1, <2>3 DEF StreamInv, TextIsConserved, SuccessIsComplete
  <2>4. QED
    BY <2>1, <2>2, <2>3, LostStream
<1>4. CASE ClientReads(r)
  BY <1>4, ClientReadsKeepsStream
<1>5. CASE StreamEnds(r)
  BY <1>5, StreamEndsKeepsStream
<1>6. QED
  BY <1>1, <1>2, <1>3, <1>4, <1>5 DEF Forward, Consume

\* A step of one request leaves the streams of the others alone.
LEMMA OthersKeepStream ==
  ASSUME HandlerTypeOK, NEW r \in Requests, NEW q \in Requests, q # r, StreamInv(q),
         \/ Arrive(r) \/ ArriveTooLate(r) \/ ClientLeaves(r) \/ Serve(r)
         \/ Forward(r) \/ Consume(r)
  PROVE  StreamInv(q)'
<1> SUFFICES /\ streamed' = streamed
             /\ call'[q] = call[q] /\ task'[q] = task[q] /\ sent'[q] = sent[q]
             /\ held'[q] = held[q] /\ buffered'[q] = buffered[q] /\ out'[q] = out[q]
             /\ events'[q] = events[q] /\ got'[q] = got[q]
  BY SameStream
<1>1. CASE Arrive(r) \/ ArriveTooLate(r) \/ ClientLeaves(r) \/ Serve(r)
  BY <1>1 DEF Arrive, ArriveTooLate, ClientLeaves, Serve, Preprocessed, RunnerRefuses,
     RunnerAccepts, taskVars, HandlerTypeOK
<1>2. CASE Read(r)
  BY <1>2 DEF Read, ReadToken, ReadStats, ReadFailure, HandlerTypeOK
<1>3. CASE Send(r) \/ SendFails(r)
  BY <1>3 DEF Send, SendFails, HandlerTypeOK
<1>4. CASE Consume(r)
  BY <1>4 DEF Consume, ClientReads, StreamEnds, taskVars, HandlerTypeOK
<1>5. QED
  BY <1>1, <1>2, <1>3, <1>4 DEF Forward

StreamsInv == \A r \in Requests : StreamInv(r)

LEMMA InitStreams == Init => StreamsInv
<1> SUFFICES ASSUME Init, NEW r \in Requests PROVE StreamInv(r)
  BY DEF StreamsInv
<1>1. call[r] = "idle" /\ NotBegun(r)
  BY DEF Init, NotBegun
<1>2. QED
  BY <1>1 DEF StreamInv, TextIsConserved, SuccessIsComplete

LEMMA StepKeepsStreams == HandlerTypeOK /\ StreamsInv /\ [Next]_vars => StreamsInv'
<1> SUFFICES ASSUME HandlerTypeOK, StreamsInv, [Next]_vars, NEW q \in Requests
             PROVE  StreamInv(q)'
  BY DEF StreamsInv
<1>0. StreamInv(q)
  BY DEF StreamsInv
<1>1. ASSUME NEW r \in Requests,
             \/ Arrive(r) \/ ArriveTooLate(r) \/ ClientLeaves(r) \/ Serve(r)
             \/ Forward(r) \/ Consume(r)
      PROVE  StreamInv(q)'
  <2>1. CASE r = q
    BY <1>0, <1>1, <2>1, CallKeepsStream, TaskKeepsStream
  <2>2. CASE r # q
    BY <1>0, <1>1, <2>2, OthersKeepStream
  <2>3. QED
    BY <2>1, <2>2
<1>2. CASE UNCHANGED <<streamed, call, taskVars, got>>
  BY <1>0, <1>2, SameStream DEF taskVars
<1>3. ASSUME NEW w \in Workers, Work(w) PROVE StreamInv(q)'
  BY <1>2, <1>3 DEF Work, Receive, Preprocess, Panic
<1>4. CASE Shutdown \/ Drained \/ DropPool \/ Joined
  BY <1>2, <1>4 DEF Shutdown, Drained, DropPool, Joined
<1>5. CASE UNCHANGED vars
  BY <1>2, <1>5 DEF vars
<1>6. QED
  BY <1>1, <1>3, <1>4, <1>5 DEF Next

LEMMA StreamsInvHolds == Spec => [](HandlerTypeOK /\ StreamsInv)
<1>1. IInv => HandlerTypeOK
  BY DEF IInv
<1>2. QED
  BY <1>1, InvariantHolds, InitStreams, StepKeepsStreams, PTL DEF Spec

-----------------------------------------------------------------------------
(* The theorems *)

\* The handler's state stays well typed for every number of calls and threads;
\* no client's channel ever exceeds GENERATION_EVENT_QUEUE_CAPACITY.
THEOREM HandlerTypeCorrect == Spec => []HandlerTypeOK
<1>1. IInv => HandlerTypeOK
  BY DEF IInv
<1>2. QED
  BY <1>1, InvariantHolds, PTL

\* run_worker returns only on the shutdown commands of the pool's drop: no
\* failed request and no client that left costs the pool a thread.
THEOREM WorkersAlwaysStay == Spec => []WorkersStay
<1>1. IInv => WorkersStay
  BY DEF IInv, ShutdownsAreLast, WorkersStay, Closing
<1>2. QED
  BY <1>1, InvariantHolds, PTL

\* What a client of RequestHandler is given is the text of what the runner emitted, without loss,
\* repetition or reordering, wherever it is on its way (the decoder, the buffer, the task, the
\* channel), and a successful response is complete and ends with its statistics: for every number
\* of calls, every stream and every channel capacity.
THEOREM StreamsAreAlwaysFaithful == Spec => []StreamsAreFaithful
<1>1. HandlerTypeOK /\ StreamsInv => StreamsAreFaithful
  BY DEF StreamsInv, StreamInv, StreamsAreFaithful
<1>2. QED
  BY <1>1, StreamsInvHolds, PTL

=============================================================================
