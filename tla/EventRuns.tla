------------------------------- MODULE EventRuns -------------------------------
(***************************************************************************)
(* A queue of events as the steps from one value to another.  Several      *)
(* components hold a value that is behind another one by the events on     *)
(* their way; the proofs about them say that the queue leads from the one  *)
(* to the other, and use what appending and taking an event do to that.    *)
(***************************************************************************)
EXTENDS Integers, Sequences, TLAPS

\* Steps are triples: a value, an event and the value after it.  The run of the events
\* of q from a ends at b.
Leads(q, Steps, Values, a, b) ==
    \E run \in [0..Len(q) -> Values] :
        /\ run[0] = a /\ run[Len(q)] = b
        /\ \A i \in 1..Len(q) : <<run[i - 1], q[i], run[i]>> \in Steps

\* No event leads from a value to itself only.
LEMMA NothingLeads ==
    ASSUME NEW Steps, NEW Values, NEW a \in Values, NEW b
    PROVE  Leads(<<>>, Steps, Values, a, b) <=> a = b
<1>1. Leads(<<>>, Steps, Values, a, a)
  <2> DEFINE run == [i \in 0..0 |-> a]
  <2>1. run \in [0..Len(<<>>) -> Values] /\ run[0] = a /\ run[Len(<<>>)] = a
      OBVIOUS
  <2>2. \A i \in 1..Len(<<>>) : <<run[i - 1], <<>>[i], run[i]>> \in Steps
      OBVIOUS
  <2> HIDE DEF run
  <2> QED
      BY <2>1, <2>2 DEF Leads
<1>2. Leads(<<>>, Steps, Values, a, b) => a = b
    BY DEF Leads
<1> QED
    BY <1>1, <1>2

\* What runs end at, and begin with, are values.
LEMMA LeadsTyped ==
    ASSUME NEW Steps, NEW Values, NEW Events, NEW q \in Seq(Events), NEW a, NEW b,
           Leads(q, Steps, Values, a, b)
    PROVE  a \in Values /\ b \in Values
BY DEF Leads

\* One more event.
LEMMA LeadsFurther ==
    ASSUME NEW Steps, NEW Values, NEW Events, NEW q \in Seq(Events), NEW e \in Events,
           NEW a, NEW b, NEW c \in Values,
           Leads(q, Steps, Values, a, b), <<b, e, c>> \in Steps
    PROVE  Leads(Append(q, e), Steps, Values, a, c)
<1>1. PICK run \in [0..Len(q) -> Values] :
            /\ run[0] = a /\ run[Len(q)] = b
            /\ \A i \in 1..Len(q) : <<run[i - 1], q[i], run[i]>> \in Steps
    BY DEF Leads
<1> DEFINE longer == Append(q, e)
           further == [i \in 0..Len(longer) |-> IF i = Len(longer) THEN c ELSE run[i]]
<1>2. /\ Len(q) \in Nat /\ Len(longer) = Len(q) + 1 /\ longer[Len(q) + 1] = e
      /\ \A i \in 1..Len(q) : longer[i] = q[i]
    OBVIOUS
<1> HIDE DEF longer
<1>3. /\ further \in [0..Len(longer) -> Values]
      /\ further[Len(longer)] = c /\ \A i \in 0..Len(q) : further[i] = run[i]
    BY <1>1, <1>2
<1>4. further[0] = a
    BY <1>1, <1>2, <1>3
<1>5. \A i \in 1..Len(longer) : <<further[i - 1], longer[i], further[i]>> \in Steps
  <2> HIDE DEF further
  <2> TAKE i \in 1..Len(longer)
  <2>1. CASE i \in 1..Len(q)
    <3>1. further[i - 1] = run[i - 1] /\ further[i] = run[i] /\ longer[i] = q[i]
        BY <1>2, <1>3, <2>1
    <3> QED
        BY <1>1, <2>1, <3>1
  <2>2. CASE i = Len(q) + 1
    <3>1. further[i - 1] = b /\ further[i] = c /\ longer[i] = e
        BY <1>1, <1>2, <1>3, <2>2
    <3> QED
        BY <3>1
  <2> QED
      BY <1>2, <2>1, <2>2
<1> HIDE DEF further
<1>6. Leads(longer, Steps, Values, a, c)
    BY <1>3, <1>4, <1>5 DEF Leads
<1> QED
    BY <1>6 DEF longer

\* The first event is taken.
LEMMA LeadsOn ==
    ASSUME NEW Steps, NEW Values, NEW Events, NEW q \in Seq(Events), q # <<>>,
           NEW a, NEW b, Leads(q, Steps, Values, a, b)
    PROVE  \E c \in Values : <<a, Head(q), c>> \in Steps /\ Leads(Tail(q), Steps, Values, c, b)
<1>1. PICK run \in [0..Len(q) -> Values] :
            /\ run[0] = a /\ run[Len(q)] = b
            /\ \A i \in 1..Len(q) : <<run[i - 1], q[i], run[i]>> \in Steps
    BY DEF Leads
<1> DEFINE rest == Tail(q)
           from == [i \in 0..Len(rest) |-> run[i + 1]]
<1>2. /\ Len(q) \in Nat \ {0} /\ Len(rest) = Len(q) - 1 /\ Head(q) = q[1]
      /\ \A i \in 1..Len(rest) : rest[i] = q[i + 1]
    OBVIOUS
<1> HIDE DEF rest
<1>3. from \in [0..Len(rest) -> Values] /\ \A i \in 0..Len(rest) : from[i] = run[i + 1]
    BY <1>1, <1>2
<1> HIDE DEF from
<1>4. /\ from[0] \in Values /\ from[0] = run[1] /\ from[Len(rest)] = b
      /\ <<a, Head(q), from[0]>> \in Steps
    BY <1>1, <1>2, <1>3
<1>5. ASSUME NEW i \in 1..Len(rest)
      PROVE  <<from[i - 1], rest[i], from[i]>> \in Steps
  <2>1. from[i - 1] = run[(i + 1) - 1] /\ from[i] = run[i + 1] /\ rest[i] = q[i + 1]
      BY <1>2, <1>3
  <2>2. i + 1 \in 1..Len(q)
      BY <1>2
  <2>3. <<run[(i + 1) - 1], q[i + 1], run[i + 1]>> \in Steps
      BY <1>1, <2>2
  <2> QED
      BY <2>1, <2>3
<1>6. Leads(rest, Steps, Values, from[0], b)
    BY <1>3, <1>4, <1>5 DEF Leads
<1> QED
    BY <1>4, <1>6 DEF rest

=============================================================================
