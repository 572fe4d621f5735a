------------------------------ MODULE QueueLemmas ------------------------------
(***************************************************************************)
(* Queues of messages, reasoned about through the set of what they hold:   *)
(* one lemma each for sending, receiving, losing the end and emptying.     *)
(***************************************************************************)
EXTENDS Naturals, Sequences, TLAPS

\* The messages of a queue.
InFlight(q) == {q[i] : i \in DOMAIN q}

\* Sending adds the message to what is in flight.
LEMMA AppendInFlight ==
  ASSUME NEW T, NEW q \in Seq(T), NEW e \in T
  PROVE  Append(q, e) \in Seq(T) /\ InFlight(Append(q, e)) = InFlight(q) \cup {e}
<1>1. Append(q, e) \in Seq(T) /\ Len(Append(q, e)) = Len(q) + 1
  OBVIOUS
<1>2. DOMAIN q = 1..Len(q) /\ DOMAIN Append(q, e) = 1..(Len(q) + 1) /\ Len(q) \in Nat
  OBVIOUS
<1>3. \A i \in 1..Len(q) : Append(q, e)[i] = q[i]
  OBVIOUS
<1>4. Append(q, e)[Len(q) + 1] = e
  OBVIOUS
<1>5. 1..(Len(q) + 1) = 1..Len(q) \cup {Len(q) + 1}
  BY <1>2
<1>6. InFlight(Append(q, e)) = {Append(q, e)[i] : i \in 1..Len(q) \cup {Len(q) + 1}}
  BY <1>2, <1>5, Zenon DEF InFlight
<1>7. InFlight(q) = {q[i] : i \in 1..Len(q)}
  BY <1>2, Zenon DEF InFlight
<1>8. QED
  BY <1>1, <1>3, <1>4, <1>6, <1>7

\* Receiving takes a message that was in flight and adds none.
LEMMA TailInFlight ==
  ASSUME NEW T, NEW q \in Seq(T), q # <<>>
  PROVE  /\ Head(q) \in T /\ Head(q) \in InFlight(q)
         /\ Tail(q) \in Seq(T) /\ InFlight(Tail(q)) \subseteq InFlight(q)
<1>1. Len(q) \in Nat \ {0} /\ DOMAIN q = 1..Len(q) /\ Head(q) = q[1] /\ 1 \in DOMAIN q
  OBVIOUS
<1>2. Tail(q) \in Seq(T) /\ DOMAIN Tail(q) = 1..(Len(q) - 1)
  OBVIOUS
<1>3. \A i \in 1..(Len(q) - 1) : Tail(q)[i] = q[i + 1] /\ i + 1 \in DOMAIN q
  BY <1>1
<1>4. InFlight(Tail(q)) \subseteq InFlight(q)
  BY <1>2, <1>3, Zenon DEF InFlight
<1>5. QED
  BY <1>1, <1>2, <1>4 DEF InFlight

\* Nothing but the message received leaves the queue.
LEMMA HeadInFlight ==
  ASSUME NEW T, NEW q \in Seq(T), q # <<>>
  PROVE  InFlight(q) = InFlight(Tail(q)) \cup {Head(q)}
<1>1. Len(q) \in Nat \ {0} /\ DOMAIN q = 1..Len(q) /\ Head(q) = q[1]
  OBVIOUS
<1>2. DOMAIN Tail(q) = 1..(Len(q) - 1)
  OBVIOUS
<1>3. \A i \in 2..Len(q) : i - 1 \in DOMAIN Tail(q) /\ Tail(q)[i - 1] = q[i]
  BY <1>1, <1>2
<1>4. \A i \in DOMAIN q : i = 1 \/ i \in 2..Len(q)
  BY <1>1
<1>5. InFlight(q) \subseteq InFlight(Tail(q)) \cup {Head(q)}
  BY <1>1, <1>3, <1>4, Zenon DEF InFlight
<1>6. QED
  BY <1>5, TailInFlight

\* Losing the end of a queue adds none.
LEMMA PrefixInFlight ==
  ASSUME NEW T, NEW q \in Seq(T), NEW k \in 0..Len(q)
  PROVE  SubSeq(q, 1, k) \in Seq(T) /\ InFlight(SubSeq(q, 1, k)) \subseteq InFlight(q)
<1>1. Len(q) \in Nat /\ DOMAIN q = 1..Len(q)
  OBVIOUS
<1>2. SubSeq(q, 1, k) \in Seq(T) /\ DOMAIN SubSeq(q, 1, k) = 1..k
  BY <1>1
<1>3. \A i \in 1..k : SubSeq(q, 1, k)[i] = q[i] /\ i \in DOMAIN q
  BY <1>1
<1>4. QED
  BY <1>2, <1>3, Zenon DEF InFlight

\* A new queue holds nothing.
LEMMA EmptyInFlight ==
  ASSUME NEW T
  PROVE  <<>> \in Seq(T) /\ InFlight(<<>>) = {}
BY DEF InFlight

\* An empty queue holds nothing, and only an empty one.
LEMMA NothingInFlight ==
  ASSUME NEW T, NEW q \in Seq(T)
  PROVE  q = <<>> <=> InFlight(q) = {}
<1>1. Len(q) \in Nat /\ DOMAIN q = 1..Len(q) /\ (q # <<>> => 1 \in DOMAIN q)
  OBVIOUS
<1>2. ASSUME q # <<>> PROVE InFlight(q) # {}
  BY <1>1, <1>2, q[1] \in InFlight(q) DEF InFlight
<1>3. QED
  BY <1>2, EmptyInFlight


\* A queue that several messages are added to at once.
LEMMA ConcatInFlight ==
  ASSUME NEW T, NEW q \in Seq(T), NEW r \in Seq(T)
  PROVE  q \o r \in Seq(T) /\ InFlight(q \o r) = InFlight(q) \cup InFlight(r)
<1>1. q \o r \in Seq(T) /\ Len(q \o r) = Len(q) + Len(r) /\ Len(q) \in Nat /\ Len(r) \in Nat
  OBVIOUS
<1>2. DOMAIN q = 1..Len(q) /\ DOMAIN r = 1..Len(r) /\ DOMAIN (q \o r) = 1..(Len(q) + Len(r))
  OBVIOUS
<1>3. \A i \in 1..Len(q) : (q \o r)[i] = q[i] /\ i \in DOMAIN (q \o r)
  BY <1>1, <1>2
<1>4. \A i \in 1..Len(r) : (q \o r)[Len(q) + i] = r[i] /\ Len(q) + i \in DOMAIN (q \o r)
  BY <1>1, <1>2
<1>5. ASSUME NEW i \in DOMAIN (q \o r) PROVE (q \o r)[i] \in InFlight(q) \cup InFlight(r)
  <2>1. CASE i <= Len(q)
    BY <1>1, <1>2, <1>3, <2>1 DEF InFlight
  <2>2. CASE i > Len(q)
    <3>1. i - Len(q) \in 1..Len(r) /\ i = Len(q) + (i - Len(q))
      BY <1>1, <1>2, <2>2
    <3>2. (q \o r)[i] = r[i - Len(q)]
      BY <1>4, <3>1
    <3>3. QED
      BY <1>2, <3>1, <3>2 DEF InFlight
  <2>3. QED
    BY <1>1, <1>2, <2>1, <2>2
<1>6. InFlight(q) \subseteq InFlight(q \o r)
  BY <1>2, <1>3, Zenon DEF InFlight
<1>7. InFlight(r) \subseteq InFlight(q \o r)
  BY <1>2, <1>4, Zenon DEF InFlight
<1>8. InFlight(q \o r) \subseteq InFlight(q) \cup InFlight(r)
  <2>1. \A x \in InFlight(q \o r) : \E i \in DOMAIN (q \o r) : x = (q \o r)[i]
    BY Zenon DEF InFlight
  <2>2. QED
    BY <1>5, <2>1
<1>9. QED
  BY <1>1, <1>6, <1>7, <1>8


\* A function on 1..n is a queue.
LEMMA FunctionIsQueue ==
  ASSUME NEW T, NEW n \in Nat, NEW f \in [1..n -> T]
  PROVE  f \in Seq(T)
OBVIOUS

\* A queue of length 0 is empty.
LEMMA ZeroIsEmpty ==
  ASSUME NEW T, NEW q \in Seq(T), Len(q) = 0
  PROVE  q = <<>>
<1>1. DOMAIN q = {}
  OBVIOUS
<1>2. InFlight(q) = {}
  BY <1>1 DEF InFlight
<1>3. QED
  BY <1>2, NothingInFlight
=============================================================================
