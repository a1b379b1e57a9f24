--------------------------- MODULE ChannelView_proofs --------------------------
(***************************************************************************)
(* Theorems about ChannelView, for every value of its constants.           *)
(***************************************************************************)
EXTENDS ChannelView, WellFoundedInduction, FiniteSetTheorems, SequenceTheorems, TLAPS

-----------------------------------------------------------------------------
(* Least and greatest members                                              *)

LEMMA LeastExists ==
    ASSUME NEW T \in SUBSET Nat, T # {}
    PROVE  \E x \in T : \A y \in T : x <= y
<1> DEFINE R == {ss \in Nat \X Nat : ss[1] < ss[2]}
<1>1. IsWellFoundedOn(R, Nat)
  <2>1. R = OpToRel(<, Nat)
      BY DEF OpToRel
  <2> QED
      BY <2>1, NatLessThanWellFounded
<1>2. PICK x \in T : \A y \in T : ~ (<<y, x>> \in R)
  <2> HIDE DEF R
  <2> QED
      BY <1>1, WFMin
<1>3. \A y \in T : ~ (y < x)
    BY <1>2
<1> QED
    BY <1>3

LEMMA NewestExists ==
    ASSUME NEW S \in SUBSET TS, S # {}
    PROVE  NewestOf(S) \in S
<1> DEFINE T == {MaxTS - t : t \in S}
<1>1. \A t \in S : t \in Nat /\ MaxTS - t \in Nat
    BY BoundsAssumption DEF TS
<1>2. T \subseteq Nat /\ T # {}
    BY <1>1
<1>3. PICK x \in T : \A y \in T : x <= y
  <2> HIDE DEF T
  <2> QED
      BY <1>2, LeastExists
<1>4. PICK t \in S : x = MaxTS - t
    OBVIOUS
<1>5. ASSUME NEW u \in S PROVE u <= t
  <2>1. x <= MaxTS - u
      BY <1>3
  <2> QED
      BY <2>1, <1>1, <1>4, BoundsAssumption
<1> QED
    BY <1>5 DEF NewestOf

LEMMA NewestTyped ==
    ASSUME NEW S \in SUBSET TS
    PROVE  NewestOr0(S) \in 0 .. MaxTS
<1>1. CASE S = {}
    BY <1>1, BoundsAssumption DEF NewestOr0
<1>2. CASE S # {}
  <2>1. NewestOf(S) \in TS
      BY <1>2, NewestExists
  <2> QED
      BY <2>1, <1>2, BoundsAssumption DEF NewestOr0, TS
<1> QED
    BY <1>1, <1>2

\* The first index of a list whose line is in a set.
LEMMA FirstExists ==
    ASSUME NEW s \in Seq(Line), NEW S, \E i \in DOMAIN s : s[i] \in S
    PROVE  /\ First(s, S) \in 1 .. Len(s)
           /\ s[First(s, S)] \in S
           /\ \A j \in 1 .. First(s, S) - 1 : s[j] \notin S
<1> DEFINE T == {i \in DOMAIN s : s[i] \in S}
<1>1. DOMAIN s = 1 .. Len(s) /\ Len(s) \in Nat
    OBVIOUS
<1>2. T \in SUBSET Nat /\ T # {}
    BY <1>1
<1>3. PICK x \in T : \A y \in T : x <= y
  <2> HIDE DEF T
  <2> QED
      BY <1>2, LeastExists
<1>4. \A j \in 1 .. x - 1 : s[j] \notin S
  <2> SUFFICES ASSUME NEW j \in 1 .. x - 1, s[j] \in S PROVE FALSE
      OBVIOUS
  <2>1. x \in 1 .. Len(s) /\ j \in 1 .. Len(s) /\ j < x
      BY <1>1
  <2>2. j \in T
      BY <2>1, <1>1
  <2> QED
      BY <2>1, <2>2, <1>3
<1> QED
    BY <1>1, <1>4 DEF First

\* Where the oldest line in S stands is also where that line first stands.
LEMMA FirstOfItself ==
    ASSUME NEW s \in Seq(Line), NEW S, \E i \in DOMAIN s : s[i] \in S
    PROVE  First(s, {s[First(s, S)]}) = First(s, S)
<1> DEFINE i == First(s, S)
           j == First(s, {s[i]})
<1>1. i \in 1 .. Len(s) /\ s[i] \in S /\ \A k \in 1 .. i - 1 : s[k] \notin S
    BY FirstExists
<1>2. j \in 1 .. Len(s) /\ s[j] = s[i] /\ \A k \in 1 .. j - 1 : s[k] # s[i]
  <2>1. \E k \in DOMAIN s : s[k] \in {s[i]}
      BY <1>1
  <2> HIDE DEF i
  <2>2. j \in 1 .. Len(s) /\ s[j] \in {s[i]} /\ \A k \in 1 .. j - 1 : s[k] \notin {s[i]}
      BY <2>1, FirstExists
  <2> QED
      BY <2>2
<1> HIDE DEF i, j
<1>3. ~ (j < i)
    BY <1>1, <1>2
<1>4. ~ (i < j)
    BY <1>1, <1>2
<1>5. i = j
    BY <1>1, <1>2, <1>3, <1>4
<1> QED
    BY <1>5 DEF i, j

-----------------------------------------------------------------------------
(* Lists of lines                                                          *)

Increasing(s) == \A i, j \in DOMAIN s : i < j => s[i] < s[j]

LEMMA SortedTyped ==
    ASSUME NEW S \in SUBSET TS, NEW rows \in Sorted(S)
    PROVE  rows \in Seq(TS) /\ Elems(rows) \subseteq S /\ Increasing(rows)
<1>1. IsFiniteSet(S)
  <2>1. IsFiniteSet(1 .. MaxTS)
      BY FS_Interval, BoundsAssumption
  <2> QED
      BY <2>1, FS_Subset DEF TS
<1>2. Cardinality(S) \in Nat
    BY <1>1, FS_CardinalityType
<1>3. rows \in [1 .. Cardinality(S) -> S]
    BY DEF Sorted
<1>4. Elems(rows) \subseteq S
    BY <1>3 DEF Elems
<1>5. Increasing(rows)
    BY DEF Sorted, Increasing
<1> QED
    BY <1>2, <1>3, <1>4, <1>5

LEMMA LinesTyped ==
    ASSUME NEW rows \in Seq(TS)
    PROVE  /\ Lines(rows) \in Seq(Line) /\ Len(Lines(rows)) = Len(rows)
           /\ \A i \in 1 .. Len(rows) : Lines(rows)[i] = Confirmed(rows[i])
<1>1. rows \in [1 .. Len(rows) -> TS] /\ Len(rows) \in Nat /\ DOMAIN rows = 1 .. Len(rows)
    OBVIOUS
<1>2. \A i \in 1 .. Len(rows) : Confirmed(rows[i]) \in Line
    BY <1>1, BoundsAssumption DEF Confirmed, Line, TS
<1>3. Lines(rows) \in [1 .. Len(rows) -> Line]
    BY <1>1, <1>2 DEF Lines
<1>4. Lines(rows) \in Seq(Line) /\ Len(Lines(rows)) = Len(rows)
    BY <1>1, <1>3
<1> QED
    BY <1>1, <1>4 DEF Lines

LEMMA WithoutTyped ==
    ASSUME NEW s \in Seq(Line), NEW l
    PROVE  /\ Without(s, l) \in Seq(Line)
           /\ Elems(s) \subseteq Elems(Without(s, l)) \cup {l}
<1>1. CASE l \notin Elems(s)
    BY <1>1 DEF Without
<1>2. CASE l \in Elems(s)
  <2> DEFINE f == First(s, {l})
             before == SubSeq(s, 1, f - 1)
             after == SubSeq(s, f + 1, Len(s))
             w == before \o after
  <2>1. Without(s, l) = w
      BY <1>2 DEF Without
  <2>2. f \in 1 .. Len(s) /\ s[f] = l
    <3>1. \E i \in DOMAIN s : s[i] \in {l}
        BY <1>2 DEF Elems
    <3>2. f \in 1 .. Len(s) /\ s[f] \in {l}
        BY <3>1, FirstExists
    <3> QED
        BY <3>2
  <2> HIDE DEF f
  <2>3. /\ before \in Seq(Line) /\ Len(before) = f - 1
        /\ \A i \in 1 .. f - 1 : before[i] = s[i]
      BY <2>2
  <2>4. /\ after \in Seq(Line) /\ Len(after) = Len(s) - f
        /\ \A i \in 1 .. Len(s) - f : after[i] = s[f + i]
      BY <2>2
  <2> HIDE DEF before, after
  <2>5. w \in Seq(Line) /\ DOMAIN w = 1 .. Len(s) - 1
    <3>1. w \in Seq(Line) /\ Len(w) = Len(before) + Len(after)
      <4>1. before \in Seq(Line) /\ after \in Seq(Line)
          BY <2>3, <2>4
      <4> QED
          BY <4>1, ConcatProperties
    <3>2. Len(before) + Len(after) = Len(s) - 1
        BY <2>2, <2>3, <2>4
    <3> HIDE DEF w
    <3> QED
        BY <3>1, <3>2
  <2>6. ASSUME NEW i \in 1 .. Len(s), s[i] # l
        PROVE  \E j \in DOMAIN w : w[j] = s[i]
    <3>1. CASE i < f
      <4>1. i \in 1 .. f - 1 /\ i \in 1 .. Len(s) - 1
          BY <3>1, <2>2
      <4>2. w[i] = before[i]
          BY <4>1, <2>3, <2>4
      <4> QED
          BY <4>1, <4>2, <2>3, <2>5
    <3>2. CASE i > f
      <4>1. i - f \in 1 .. Len(s) - f /\ i - 1 \in 1 .. Len(s) - 1
          BY <3>2, <2>2
      <4>2. w[i - 1] = after[i - f]
          BY <4>1, <2>2, <2>3, <2>4
      <4>3. f + (i - f) = i
          BY <2>2
      <4> QED
          BY <4>1, <4>2, <4>3, <2>4, <2>5
    <3> QED
        BY <2>2, <2>6, <3>1, <3>2
  <2> HIDE DEF w
  <2>7. Elems(s) \subseteq Elems(w) \cup {l}
      BY <2>6 DEF Elems
  <2> QED
      BY <2>1, <2>5, <2>7
<1> QED
    BY <1>1, <1>2

\* What joining two lists keeps.
LEMMA JoinKeeps ==
    ASSUME NEW s \in Seq(Line), NEW t \in Seq(Line)
    PROVE  /\ s \o t \in Seq(Line) /\ Elems(s) \subseteq Elems(s \o t)
           /\ Elems(t) \subseteq Elems(s \o t)
           /\ t # <<>> => /\ Len(s \o t) \in DOMAIN (s \o t)
                          /\ (s \o t)[Len(s \o t)] = t[Len(t)]
<1> DEFINE w == s \o t
<1>1. w \in Seq(Line) /\ Len(w) = Len(s) + Len(t) /\ DOMAIN w = 1 .. Len(s) + Len(t)
    OBVIOUS
<1>2. \A i \in 1 .. Len(s) : i \in DOMAIN w /\ w[i] = s[i]
    BY <1>1
<1>3. \A i \in 1 .. Len(t) : Len(s) + i \in DOMAIN w /\ w[Len(s) + i] = t[i]
    BY <1>1
<1>4. t # <<>> => Len(t) \in 1 .. Len(t)
    OBVIOUS
<1> HIDE DEF w
<1>5. Elems(s) \subseteq Elems(w) /\ Elems(t) \subseteq Elems(w)
  <2>1. Elems(s) \subseteq Elems(w)
      BY <1>2 DEF Elems
  <2>2. ASSUME NEW x \in Elems(t) PROVE x \in Elems(w)
    <3>1. PICK i \in 1 .. Len(t) : t[i] = x
        BY <2>2 DEF Elems
    <3>2. Len(s) + i \in DOMAIN w /\ w[Len(s) + i] = x
        BY <1>3, <3>1
    <3> QED
        BY <3>2 DEF Elems
  <2> QED
      BY <2>1, <2>2
<1>6. t # <<>> => Len(w) \in DOMAIN w /\ w[Len(w)] = t[Len(t)]
  <2> SUFFICES ASSUME t # <<>>
               PROVE  Len(w) \in DOMAIN w /\ w[Len(w)] = t[Len(t)]
      OBVIOUS
  <2>1. Len(t) \in 1 .. Len(t) /\ Len(w) = Len(s) + Len(t)
      BY <1>1, <1>4
  <2>2. Len(s) + Len(t) \in DOMAIN w /\ w[Len(s) + Len(t)] = t[Len(t)]
      BY <1>3, <2>1
  <2> QED
      BY <2>1, <2>2
<1> QED
    BY <1>1, <1>5, <1>6 DEF w

LEMMA AppendKeeps ==
    ASSUME NEW s \in Seq(Line), NEW l \in Line
    PROVE  Append(s, l) \in Seq(Line) /\ Elems(s) \subseteq Elems(Append(s, l))
<1> DEFINE w == Append(s, l)
<1>1. w \in Seq(Line) /\ DOMAIN w = 1 .. Len(s) + 1
    OBVIOUS
<1>2. \A i \in 1 .. Len(s) : i \in DOMAIN w /\ w[i] = s[i]
    BY <1>1
<1> HIDE DEF w
<1>3. Elems(s) \subseteq Elems(w)
    BY <1>2 DEF Elems
<1> QED
    BY <1>1, <1>3 DEF w

LEMMA ReplaceKeeps ==
    ASSUME NEW s \in Seq(Line), NEW l \in Line, NEW i \in 1 .. Len(s)
    PROVE  /\ [s EXCEPT ![i] = l] \in Seq(Line)
           /\ Elems(s) \subseteq Elems([s EXCEPT ![i] = l]) \cup {s[i]}
           /\ l \in Elems([s EXCEPT ![i] = l])
<1> DEFINE w == [s EXCEPT ![i] = l]
<1>1. w \in Seq(Line) /\ DOMAIN w = 1 .. Len(s)
    OBVIOUS
<1>2. w[i] = l /\ \A j \in 1 .. Len(s) : j # i => w[j] = s[j]
    OBVIOUS
<1> HIDE DEF w
<1>3. Elems(s) \subseteq Elems(w) \cup {s[i]} /\ l \in Elems(w)
    BY <1>1, <1>2 DEF Elems
<1> QED
    BY <1>1, <1>3 DEF w

\* Taking a piece off the rows of an answer.
LEMMA SplitFact ==
    ASSUME NEW rows \in Seq(TS), NEW n \in Nat \ {0}
    PROVE  LET k == Least(n, Len(rows))
               piece == SubSeq(rows, 1, k)
               rest == SubSeq(rows, k + 1, Len(rows))
           IN  /\ piece \in Seq(TS) /\ rest \in Seq(TS)
               /\ Elems(rest) \subseteq Elems(rows)
               /\ rows # <<>> => piece # <<>>
               /\ rows = <<>> => piece = <<>> /\ rest = <<>>
               /\ Increasing(rows) => Increasing(piece) /\ Increasing(rest)
<1> DEFINE k == Least(n, Len(rows))
           piece == SubSeq(rows, 1, k)
           rest == SubSeq(rows, k + 1, Len(rows))
<1>1. k \in Nat /\ k <= Len(rows) /\ (Len(rows) # 0 => k # 0)
    BY DEF Least
<1> HIDE DEF k
<1>2. /\ piece \in Seq(TS) /\ Len(piece) = k /\ DOMAIN piece = 1 .. k
      /\ \A i \in 1 .. k : piece[i] = rows[i]
    BY <1>1
<1>3. /\ rest \in Seq(TS) /\ Len(rest) = Len(rows) - k
      /\ \A i \in 1 .. Len(rows) - k : rest[i] = rows[k + i]
    BY <1>1
<1>4. \A i \in 1 .. Len(rows) - k : k + i \in DOMAIN rows
    BY <1>1
<1>8. Increasing(rows) => Increasing(piece) /\ Increasing(rest)
  <2> SUFFICES ASSUME Increasing(rows) PROVE Increasing(piece) /\ Increasing(rest)
      OBVIOUS
  <2>0. Len(rows) \in Nat /\ DOMAIN rows = 1 .. Len(rows) /\ DOMAIN rest = 1 .. Len(rows) - k
      BY <1>1, <1>3
  <2> HIDE DEF piece, rest
  <2>1. Increasing(piece)
      BY <1>1, <1>2, <2>0 DEF Increasing
  <2>2. ASSUME NEW i \in 1 .. Len(rows) - k, NEW j \in 1 .. Len(rows) - k, i < j
        PROVE  rest[i] < rest[j]
    <3>1. k + i < k + j /\ k + i \in DOMAIN rows /\ k + j \in DOMAIN rows
        BY <1>1, <1>4, <2>0, <2>2
    <3> QED
        BY <3>1, <1>3 DEF Increasing
  <2> QED
      BY <2>0, <2>1, <2>2 DEF Increasing
<1> HIDE DEF piece, rest
<1>5. Elems(rest) \subseteq Elems(rows)
    BY <1>3, <1>4 DEF Elems
<1>6. rows # <<>> => piece # <<>>
    BY <1>1, <1>2
<1>7. rows = <<>> => piece = <<>> /\ rest = <<>>
    BY <1>1, <1>2, <1>3
<1> QED
    BY <1>2, <1>3, <1>5, <1>6, <1>7, <1>8 DEF k, piece, rest

-----------------------------------------------------------------------------
(* The inductive invariant                                                 *)

SlackOK ==
    /\ at \in Seq(Channels) /\ Len(at) <= MaxTS /\ own \subseteq TS /\ gone \subseteq TS
    /\ cached \subseteq DOMAIN at /\ dead \subseteq TS /\ lastTS \in 0 .. MaxTS

MarksOK == mark \in [Channels -> 0 .. MaxTS]

ViewOK ==
    /\ active \in SUBSET Joined /\ up \in BOOLEAN /\ cur \in Channels
    /\ older \in BOOLEAN /\ noMore \subseteq Channels /\ synced \in BOOLEAN

RetryOK == tries \in [Channels -> 0 .. MaxTries] /\ timer \in SUBSET Joined

ListsTyped == store \in [Channels -> Seq(Line)] /\ shown \in Seq(Line)

\* There are no more sends under way than there have been.
CountsOK ==
    /\ acts \in 0 .. MaxActs /\ outbox \in [Channels -> 0 .. MaxActs]
    /\ \A ch \in Channels : outbox[ch] <= acts

\* An answer has rows of messages that exist, in their order, a "recent" one is
\* for a channel of the user, and what follows its first piece is never empty.
AnswersFit ==
    \A q \in Reqs :
      /\ Elems(req[q].rows) \subseteq DOMAIN at /\ Increasing(req[q].rows)
      /\ req[q].do = "recent" => req[q].ch \in Joined
      /\ ~ req[q].first =>
           req[q].do = "recent" /\ req[q].stage = "sending" /\ req[q].rows # <<>>

AnswersOK == req \in [Reqs -> Request] /\ AnswersFit

IInv ==
    /\ SlackOK /\ MarksOK /\ ViewOK /\ RetryOK /\ ListsTyped /\ CountsOK /\ AnswersOK
    /\ TwoCopiesAgree

LEMMA IInvTyped == IInv => TypeOK
<1> SUFFICES ASSUME IInv PROVE TypeOK
    OBVIOUS
<1>1. DOMAIN at \subseteq TS
    BY BoundsAssumption DEF IInv, SlackOK, TS
<1> QED
    BY <1>1 DEF IInv, SlackOK, MarksOK, ViewOK, RetryOK, ListsTyped, CountsOK, AnswersOK, TypeOK

-----------------------------------------------------------------------------
(* What the handlers do to the two copies                                  *)

\* What LinesStay says of one channel.
Kept(ch) ==
    \A l \in Elems(store[ch]) \ Elems(store'[ch]) :
      IF l.pending
      THEN \E n \in Elems(store'[ch]) \ Elems(store[ch]) : ~ n.pending /\ n.ts \in own
      ELSE l.ts \in gone'

LEMMA ConfirmedFact ==
    ASSUME NEW ts \in TS
    PROVE  Confirmed(ts) \in Line /\ ~ Confirmed(ts).pending /\ Confirmed(ts).ts = ts
BY DEF Confirmed, Line

LEMMA AppendLineFact ==
    ASSUME ListsTyped, cur \in Channels, NEW ch \in Channels, NEW l \in Line,
           AppendLine(ch, l)
    PROVE  /\ ListsTyped'
           /\ shown = store[cur] => shown' = store'[cur]
           /\ \A c \in Channels : Kept(c)
<1>1. /\ store[ch] \in Seq(Line) /\ shown \in Seq(Line)
      /\ store' = [store EXCEPT ![ch] = Append(store[ch], l)]
      /\ shown' = IF ch = cur THEN Append(shown, l) ELSE shown
    BY DEF ListsTyped, AppendLine
<1>2. Append(store[ch], l) \in Seq(Line) /\ Append(shown, l) \in Seq(Line)
    BY <1>1, AppendKeeps
<1>3. ListsTyped'
    BY <1>1, <1>2 DEF ListsTyped
<1>4. shown = store[cur] => shown' = store'[cur]
    BY <1>1 DEF ListsTyped
<1>5. ASSUME NEW c \in Channels PROVE Elems(store[c]) \subseteq Elems(store'[c])
  <2>1. CASE c = ch
    <3>1. store'[c] = Append(store[c], l)
        BY <1>1, <2>1 DEF ListsTyped
    <3> QED
        BY <3>1, <2>1, <1>1, AppendKeeps
  <2>2. CASE c # ch
      BY <1>1, <2>2 DEF ListsTyped
  <2> QED
      BY <2>1, <2>2
<1> QED
    BY <1>3, <1>4, <1>5 DEF Kept

LEMMA ReconcileFact ==
    ASSUME ListsTyped, cur \in Channels, NEW ts \in TS, NEW ch \in Channels,
           Confirmed(ts) \notin Elems(store[ch]), ts \in own,
           Pending(store[ch]) # {},
           ReconcileOptimistic(ch, Confirmed(ts))
    PROVE  /\ ListsTyped'
           /\ shown = store[cur] => shown' = store'[cur]
           /\ \A c \in Channels : Kept(c)
<1> DEFINE s == store[ch]
           l == Confirmed(ts)
           i == First(s, Pending(s))
           opt == s[i]
           put == [s EXCEPT ![i] = l]
<1>0. l \in Line /\ ~ l.pending /\ l.ts = ts
    BY ConfirmedFact
<1>1. s \in Seq(Line) /\ shown \in Seq(Line)
    BY DEF ListsTyped
<1>2. \E n \in DOMAIN s : s[n] \in Pending(s)
    BY DEF Pending, Elems
<1>3. i \in 1 .. Len(s) /\ opt \in Pending(s)
    BY <1>1, <1>2, FirstExists
<1>4. opt \in Elems(s) /\ opt.pending
    BY <1>3 DEF Pending
<1>5. First(s, {opt}) = i
    BY <1>1, <1>2, FirstOfItself
<1>6. /\ store' = [store EXCEPT ![ch] = put]
      /\ shown' = IF ch = cur /\ opt \in Elems(shown)
                  THEN [shown EXCEPT ![First(shown, {opt})] = l] ELSE shown
    BY DEF ReconcileOptimistic
<1> HIDE DEF i, opt, l
<1>7. put \in Seq(Line) /\ Elems(s) \subseteq Elems(put) \cup {opt} /\ l \in Elems(put)
  <2>1. s[i] = opt
      BY DEF opt
  <2> QED
      BY <2>1, <1>0, <1>1, <1>3, ReplaceKeeps
<1>8. opt \in Elems(shown) => [shown EXCEPT ![First(shown, {opt})] = l] \in Seq(Line)
  <2> SUFFICES ASSUME opt \in Elems(shown)
               PROVE  [shown EXCEPT ![First(shown, {opt})] = l] \in Seq(Line)
      OBVIOUS
  <2>1. \E n \in DOMAIN shown : shown[n] \in {opt}
      BY DEF Elems
  <2>2. First(shown, {opt}) \in 1 .. Len(shown)
      BY <2>1, <1>1, FirstExists
  <2> QED
      BY <2>2, <1>0, <1>1, ReplaceKeeps
<1> HIDE DEF put
<1>9. store'[ch] = put /\ \A c \in Channels : c # ch => store'[c] = store[c]
    BY <1>6 DEF ListsTyped
<1>10. ListsTyped'
    BY <1>6, <1>7, <1>8 DEF ListsTyped
<1>11. ASSUME shown = store[cur] PROVE shown' = store'[cur]
  <2>1. CASE ch = cur
    <3>1. shown = s /\ opt \in Elems(shown)
        BY <2>1, <1>4, <1>11
    <3>2. shown' = [s EXCEPT ![i] = l]
        BY <2>1, <3>1, <1>5, <1>6
    <3>3. shown' = put
        BY <3>2 DEF put
    <3> QED
        BY <3>3, <1>9, <2>1
  <2>2. CASE ch # cur
      BY <2>2, <1>6, <1>9, <1>11
  <2> QED
      BY <2>1, <2>2
<1>12. Kept(ch)
  <2>1. l \in Elems(store'[ch]) \ Elems(store[ch])
      BY <1>7, <1>9 DEF l
  <2>2. ASSUME NEW x \in Elems(store[ch]) \ Elems(store'[ch]) PROVE x.pending
      BY <2>2, <1>4, <1>7, <1>9
  <2> QED
      BY <2>1, <2>2, <1>0 DEF Kept
<1>13. \A c \in Channels : c # ch => Kept(c)
    BY <1>9 DEF Kept
<1> QED
    BY <1>10, <1>11, <1>12, <1>13

LEMMA IngestFact ==
    ASSUME ListsTyped, cur \in Channels, NEW ts \in TS, at[ts] \in Channels, Ingest(ts)
    PROVE  /\ ListsTyped'
           /\ shown = store[cur] => shown' = store'[cur]
           /\ \A c \in Channels : Kept(c)
<1> DEFINE ch == at[ts]
           l == Confirmed(ts)
<1>1. CASE UNCHANGED lists
    BY <1>1 DEF lists, ListsTyped, Kept
<1>2. CASE l \notin Elems(store[ch]) /\ ts \in own /\ Pending(store[ch]) # {}
           /\ ReconcileOptimistic(ch, l)
    BY <1>2, ReconcileFact
<1>3. CASE AppendLine(ch, l)
    BY <1>3, ConfirmedFact, AppendLineFact
<1> QED
    BY <1>1, <1>2, <1>3 DEF Ingest

LEMMA ApplyDeleteFact ==
    ASSUME ListsTyped, cur \in Channels, NEW ts \in TS, at[ts] \in Channels,
           ApplyDelete(ts), ts \in gone'
    PROVE  /\ ListsTyped'
           /\ shown = store[cur] => shown' = store'[cur]
           /\ \A c \in Channels : Kept(c)
<1> DEFINE ch == at[ts]
           l == Confirmed(ts)
<1>0. ~ l.pending /\ l.ts = ts
    BY ConfirmedFact
<1>1. store[ch] \in Seq(Line) /\ shown \in Seq(Line)
    BY DEF ListsTyped
<1>2. /\ store' = [store EXCEPT ![ch] = Without(store[ch], l)]
      /\ shown' = IF ch = cur THEN Without(shown, l) ELSE shown
    BY DEF ApplyDelete
<1> HIDE DEF l
<1>3. /\ Without(store[ch], l) \in Seq(Line) /\ Without(shown, l) \in Seq(Line)
      /\ Elems(store[ch]) \subseteq Elems(Without(store[ch], l)) \cup {l}
    BY <1>1, WithoutTyped
<1>4. /\ store'[ch] = Without(store[ch], l)
      /\ \A c \in Channels : c # ch => store'[c] = store[c]
    BY <1>2 DEF ListsTyped
<1>5. ListsTyped'
    BY <1>2, <1>3 DEF ListsTyped
<1>6. shown = store[cur] => shown' = store'[cur]
    BY <1>2, <1>4
<1>7. \A c \in Channels : Kept(c)
    BY <1>0, <1>3, <1>4 DEF Kept
<1> QED
    BY <1>5, <1>6, <1>7

\* What loadRecent leaves well typed, when the copies agree after it, what it
\* takes away, and which line it marks.
Loaded(ch, rows, reset, final, jump, view, screen) ==
    /\ ListsTyped' /\ mark' \in [Channels -> 0 .. MaxTS]
    /\ tries' \in [Channels -> 0 .. MaxTries] /\ timer' \subseteq Joined
    /\ noMore' \subseteq Channels /\ synced' \in BOOLEAN
    /\ \/ synced => screen = store[view]
       \/ reset /\ jump /\ ch = view
       => (synced' => shown' = store'[view])
    /\ \A c \in Channels : c # ch => store'[c] = store[c]
    /\ ~ reset \/ Stale(ch, rows, reset, final, jump)
       => Elems(store[ch]) \subseteq Elems(store'[ch])

LEMMA LoadRecentFact ==
    ASSUME TypeOK, NEW ch \in Channels, NEW rows \in Seq(TS),
           NEW reset \in BOOLEAN, NEW final \in BOOLEAN, NEW jump \in BOOLEAN,
           NEW view \in Channels, NEW screen \in Seq(Line),
           ch \in Joined \/ jump, rows # <<>> \/ reset,
           LoadRecent(ch, rows, reset, final, jump, view, screen)
    PROVE  Loaded(ch, rows, reset, final, jump, view, screen)
<1> DEFINE stale == Stale(ch, rows, reset, final, jump)
           kept == IF reset THEN <<>> ELSE store[ch]
           left == IF reset THEN <<>> ELSE screen
           new == Lines(rows)
           list == kept \o new
<1>0. /\ store \in [Channels -> Seq(Line)] /\ shown \in Seq(Line)
      /\ mark \in [Channels -> 0 .. MaxTS] /\ timer \subseteq Joined
      /\ tries \in [Channels -> 0 .. MaxTries] /\ MaxTries \in Nat /\ MaxTS \in Nat
      /\ noMore \subseteq Channels /\ synced \in BOOLEAN
    BY BoundsAssumption DEF TypeOK
<1>1. CASE stale
  <2>1. /\ reset /\ ~ jump /\ tries[ch] < MaxTries
      BY <1>1 DEF Stale
  <2>2. /\ tries' = [tries EXCEPT ![ch] = @ + 1] /\ timer' = {ch} /\ shown' = screen
        /\ UNCHANGED <<store, noMore, synced, mark>>
      BY <1>1 DEF LoadRecent
  <2>3. tries' \in [Channels -> 0 .. MaxTries]
      BY <1>0, <2>1, <2>2
  <2> QED
      BY <1>0, <2>1, <2>2, <2>3 DEF ListsTyped, Loaded
<1>2. CASE ~ stale
  <2>1. /\ tries' = IF rows # <<>> THEN [tries EXCEPT ![ch] = 0] ELSE tries
        /\ store' = [store EXCEPT ![ch] = list]
        /\ shown' = IF ch # view THEN screen ELSE left \o new
        /\ noMore' = IF reset THEN noMore \ {ch} ELSE noMore
        /\ synced' = (synced \/ (reset /\ ch = view))
        /\ IF final /\ ch = view /\ ch \in Joined /\ store'[ch] # <<>>
           THEN mark' = [mark EXCEPT ![ch] = ReadUpTo(store'[ch])]
           ELSE UNCHANGED mark
        /\ UNCHANGED timer
      BY <1>2 DEF LoadRecent
  <2>2. /\ new \in Seq(Line) /\ Len(new) = Len(rows)
        /\ \A i \in 1 .. Len(rows) : new[i] = Confirmed(rows[i])
      BY LinesTyped
  <2>3. kept \in Seq(Line) /\ left \in Seq(Line)
      BY <1>0
  <2> HIDE DEF new
  <2>4. left \o new \in Seq(Line) /\ list \in Seq(Line) /\ Elems(kept) \subseteq Elems(list)
      BY <2>2, <2>3, JoinKeeps
  <2>5. store'[ch] = list /\ \A c \in Channels : c # ch => store'[c] = store[c]
      BY <1>0, <2>1
  <2>6. ListsTyped'
    <3> HIDE DEF list, left
    <3> QED
        BY <1>0, <2>1, <2>4 DEF ListsTyped
  <2>7. tries' \in [Channels -> 0 .. MaxTries] /\ timer' \subseteq Joined
        /\ noMore' \subseteq Channels /\ synced' \in BOOLEAN
      BY <1>0, <2>1
  <2>8. ASSUME \/ synced => screen = store[view]
               \/ reset /\ jump /\ ch = view,
               synced'
        PROVE  shown' = store'[view]
    <3>1. CASE reset /\ ch = view
        BY <3>1, <2>1, <2>5
    <3>2. CASE ~ (reset /\ ch = view)
      <4>1. screen = store[view]
          BY <2>1, <2>8, <3>2
      <4>2. CASE ch = view
          BY <4>1, <4>2, <3>2, <2>1, <2>5
      <4>3. CASE ch # view
          BY <4>1, <4>3, <2>1, <2>5
      <4> QED
          BY <4>2, <4>3
    <3> QED
        BY <3>1, <3>2
  <2>9. ~ reset => Elems(store[ch]) \subseteq Elems(store'[ch])
      BY <2>4, <2>5
  <2>10. ASSUME list # <<>>
         PROVE  ReadUpTo(list) \in TS
    <3>1. rows # <<>>
        BY <2>10, <2>2
    <3>2. new # <<>> /\ Len(rows) \in 1 .. Len(rows) /\ rows[Len(rows)] \in TS
        BY <3>1, <2>2
    <3>3. Len(list) \in DOMAIN list /\ list[Len(list)] = new[Len(new)]
        BY <3>2, <2>2, <2>3, JoinKeeps
    <3>4. list[Len(list)] = Confirmed(rows[Len(rows)])
        BY <3>2, <3>3, <2>2
    <3> HIDE DEF list
    <3>5. ReadUpTo(list) = rows[Len(rows)]
        BY <3>4 DEF ReadUpTo, Confirmed
    <3> QED
        BY <3>2, <3>5
  <2> HIDE DEF list
  <2>11. mark' \in [Channels -> 0 .. MaxTS]
    <3>1. CASE final /\ ch = view /\ ch \in Joined /\ store'[ch] # <<>>
      <4>1. mark' = [mark EXCEPT ![ch] = ReadUpTo(list)]
          BY <3>1, <2>1, <2>5
      <4>2. ReadUpTo(list) \in TS
          BY <3>1, <2>5, <2>10
      <4>3. ReadUpTo(list) \in 0 .. MaxTS
          BY <4>2, <1>0 DEF TS
      <4> QED
          BY <1>0, <4>1, <4>3
    <3>2. CASE UNCHANGED mark
        BY <1>0, <3>2
    <3> QED
        BY <2>1, <3>1, <3>2
  <2> QED
      BY <1>2, <2>5, <2>6, <2>7, <2>8, <2>9, <2>11 DEF Loaded
<1> QED
    BY <1>1, <1>2

\* What is left of a page of older messages: those below the first line, if that
\* has a number of Slack's.
LEMMA OlderThanFirstFact ==
    ASSUME NEW s \in Seq(Line), NEW rows \in Seq(TS)
    PROVE  LET new == OlderThanFirst(s, rows)
           IN  /\ new \in Seq(TS)
               /\ Increasing(rows) => Increasing(new)
               /\ Increasing(rows) /\ s # <<>> /\ ~ s[1].pending
                    => \A i \in DOMAIN new : new[i] < s[1].ts
<1> DEFINE h == s[1].ts
           below == {i \in DOMAIN rows : rows[i] < h}
           k == Cardinality(below)
           new == OlderThanFirst(s, rows)
<1>1. CASE s = <<>> \/ s[1].pending
    BY <1>1 DEF OlderThanFirst
<1>2. CASE ~ (s = <<>> \/ s[1].pending)
  <2>0. h \in Nat
    <3>1. s[1] \in Line
        BY <1>2
    <3>2. ASSUME NEW l \in Line PROVE l.ts \in Nat
      <4>1. l \in [ts : TS, pending : {FALSE}] \/ l \in [ts : 1 .. MaxActs, pending : {TRUE}]
          BY DEF Line
      <4>2. l.ts \in TS \/ l.ts \in 1 .. MaxActs
          BY <4>1
      <4> HIDE DEF h
      <4> QED
          BY <4>2, BoundsAssumption DEF TS
    <3> QED
        BY <3>1, <3>2
  <2>1. Len(rows) \in Nat /\ DOMAIN rows = 1 .. Len(rows)
        /\ \A i \in 1 .. Len(rows) : rows[i] \in Nat
      BY BoundsAssumption DEF TS
  <2>2. new = SubSeq(rows, 1, k)
      BY <1>2 DEF OlderThanFirst
  <2> HIDE DEF h, new
  <2>3. ASSUME NEW n \in Nat, below \subseteq 1 .. n
        PROVE  k \in Nat /\ k <= n
    <3>1. IsFiniteSet(1 .. n) /\ Cardinality(1 .. n) = n
      <4>1. /\ IsFiniteSet(1 .. n)
            /\ Cardinality(1 .. n) = IF 1 > n THEN 0 ELSE n - 1 + 1
          BY FS_Interval
      <4> QED
          BY <4>1
    <3> HIDE DEF below
    <3>2. IsFiniteSet(below) /\ Cardinality(below) <= Cardinality(1 .. n)
        BY <2>3, <3>1, FS_Subset
    <3> QED
        BY <3>1, <3>2, FS_CardinalityType
  <2>4. k \in Nat /\ k <= Len(rows)
      BY <2>1, <2>3
  <2>5. /\ new \in Seq(TS) /\ DOMAIN new = 1 .. k
        /\ \A i \in 1 .. k : new[i] = rows[i] /\ i \in 1 .. Len(rows)
    <3> HIDE DEF k
    <3> QED
        BY <2>1, <2>2, <2>4
  <2>6. Increasing(rows) => Increasing(new)
      BY <2>1, <2>5 DEF Increasing
  <2>7. ASSUME Increasing(rows), NEW i \in 1 .. k PROVE new[i] < h
    <3>1. i \in Nat /\ i - 1 \in Nat /\ i \in 1 .. Len(rows)
        BY <2>4, <2>5
    <3>2. ~ (rows[i] < h) => \A j \in 1 .. Len(rows) : j >= i => ~ (rows[j] < h)
      <4>1. \A j \in 1 .. Len(rows) : j > i => rows[i] < rows[j]
          BY <2>1, <2>7, <3>1 DEF Increasing
      <4> QED
          BY <4>1, <2>0, <2>1, <3>1
    <3>3. ~ (rows[i] < h) => below \subseteq 1 .. i - 1
        BY <3>1, <3>2, <2>1
    <3>4. ~ (rows[i] < h) => k <= i - 1
        BY <3>1, <3>3, <2>3
    <3> QED
        BY <2>4, <2>5, <3>4
  <2> QED
      BY <2>5, <2>6, <2>7 DEF h, new
<1> QED
    BY <1>1, <1>2

LEMMA PrependOlderFact ==
    ASSUME TypeOK, NEW ch \in Channels, NEW rows \in Seq(TS), PrependOlder(ch, rows)
    PROVE  /\ ListsTyped' /\ older' \in BOOLEAN /\ noMore' \subseteq Channels
           /\ shown = store[cur] => shown' = store'[cur]
           /\ \A c \in Channels : Kept(c)
<1> DEFINE s == store[ch]
           new == OlderThanFirst(s, rows)
           add == Lines(new)
<1>0. /\ store \in [Channels -> Seq(Line)] /\ shown \in Seq(Line)
      /\ s \in Seq(Line) /\ noMore \subseteq Channels /\ cur \in Channels
    BY DEF TypeOK
<1>1. /\ older' = FALSE
      /\ noMore' = IF new = <<>> THEN noMore \cup {ch} ELSE noMore
      /\ store' = [store EXCEPT ![ch] = add \o s]
      /\ shown' = IF ch = cur THEN add \o shown ELSE shown
    BY DEF PrependOlder
<1>3. new \in Seq(TS)
    BY <1>0, OlderThanFirstFact
<1> HIDE DEF new
<1>4. add \in Seq(Line)
    BY <1>3, LinesTyped
<1> HIDE DEF add
<1>5. add \o s \in Seq(Line) /\ add \o shown \in Seq(Line) /\ Elems(s) \subseteq Elems(add \o s)
    BY <1>0, <1>4, JoinKeeps
<1>6. store'[ch] = add \o s /\ \A c \in Channels : c # ch => store'[c] = store[c]
    BY <1>0, <1>1
<1>7. ListsTyped'
    BY <1>0, <1>1, <1>5 DEF ListsTyped
<1>8. shown = store[cur] => shown' = store'[cur]
    BY <1>0, <1>1, <1>6
<1>9. \A c \in Channels : Kept(c)
    BY <1>5, <1>6 DEF Kept
<1> QED
    BY <1>0, <1>1, <1>7, <1>8, <1>9

-----------------------------------------------------------------------------
(* Answers being prepared                                                  *)

Fits(r) ==
    /\ r \in Request
    /\ Elems(r.rows) \subseteq DOMAIN at /\ Increasing(r.rows)
    /\ r.do = "recent" => r.ch \in Joined
    /\ ~ r.first => r.do = "recent" /\ r.stage = "sending" /\ r.rows # <<>>

LEMMA AnswersAll ==
    req \in [Reqs -> Request] => (AnswersFit <=> \A q \in Reqs : Fits(req[q]))
BY DEF AnswersFit, Fits

LEMMA OneAnswerFact ==
    ASSUME AnswersOK, NEW q \in Reqs, NEW r, Fits(r),
           req' = [req EXCEPT ![q] = r], at' = at
    PROVE  AnswersOK'
<1>1. req' \in [Reqs -> Request]
    BY DEF AnswersOK, Fits
<1>2. \A p \in Reqs : Fits(req'[p])
    BY AnswersAll DEF AnswersOK
<1>3. AnswersFit'
    BY <1>2 DEF AnswersFit, Fits
<1> QED
    BY <1>1, <1>3 DEF AnswersOK

LEMMA IdleFits == Fits(Idle) /\ Idle.stage = "idle"
<1>1. Idle \in Request
    BY ChannelsAssumption, BoundsAssumption DEF Idle, Request
<1>2. Elems(Idle.rows) = {} /\ Increasing(Idle.rows)
    BY DEF Elems, Increasing, Idle
<1> QED
    BY <1>1, <1>2, ChannelsAssumption DEF Fits, Idle

LEMMA BegunFits ==
    ASSUME NEW do \in {"recent", "history", "jump"}, NEW ch \in Channels,
           NEW arg \in 0 .. MaxTS, do = "recent" => ch \in Joined
    PROVE  Fits(Begun(do, ch, arg))
<1> DEFINE r == Begun(do, ch, arg)
<1>1. /\ Idle \in Request /\ Elems(Idle.rows) = {} /\ Increasing(Idle.rows)
      /\ Idle.first
    BY IdleFits DEF Fits, Idle, Elems
<1>2. r = [Idle EXCEPT !.do = do, !.ch = ch, !.arg = arg, !.stage = "asked", !.live = TRUE]
    BY DEF Begun
<1>3. r \in Request /\ r.rows = Idle.rows /\ r.first = Idle.first /\ r.do = do /\ r.ch = ch
  <2>1. r = [do |-> do, ch |-> ch, arg |-> arg, stage |-> "asked", rows |-> <<>>,
             first |-> TRUE, live |-> TRUE]
      BY <1>2 DEF Idle
  <2> HIDE DEF r
  <2>2. <<>> \in Seq(TS)
      OBVIOUS
  <2>3. r \in Request
      BY <2>1, <2>2 DEF Request
  <2> QED
      BY <2>1, <2>3 DEF Idle
<1> HIDE DEF r
<1>4. Fits(r)
    BY <1>1, <1>3 DEF Fits
<1> QED
    BY <1>4 DEF r

\* A command starts one answer; it touches none that is being written.
LEMMA StartFact ==
    ASSUME AnswersOK, NEW do \in {"recent", "history", "jump"}, NEW ch \in Channels,
           NEW arg \in 0 .. MaxTS, do = "recent" => ch \in Joined,
           Start(do, ch, arg), at' = at
    PROVE  AnswersOK'
<1>1. CASE UNCHANGED req
    BY <1>1 DEF AnswersOK, AnswersFit
<1>2. CASE \E q \in Reqs : req' = [req EXCEPT ![q] = Begun(do, ch, arg)]
    BY <1>2, BegunFits, OneAnswerFact
<1> QED
    BY <1>1, <1>2 DEF Start

LEMMA AskRecentFact ==
    ASSUME AnswersOK, active \in SUBSET Joined, NEW ch \in Channels,
           AskRecent(ch), at' = at
    PROVE  AnswersOK' /\ active' \in SUBSET Joined
<1>1. CASE up /\ ch \in Joined /\ Start("recent", ch, 0) /\ active' = {ch}
    BY <1>1, StartFact, BoundsAssumption
<1>2. CASE UNCHANGED <<req, active>>
    BY <1>2 DEF AnswersOK, AnswersFit
<1> QED
    BY <1>1, <1>2 DEF AskRecent

\* A page is read.
LEMMA PageFact ==
    ASSUME AnswersOK, NEW q \in Reqs, NEW rows \in Seq(TS),
           NEW stage \in {"fetched", "sending"},
           req[q].stage \in {"asked", "fetched"},
           Elems(rows) \subseteq DOMAIN at, Increasing(rows),
           req' = [req EXCEPT ![q].stage = stage, ![q].rows = rows], at' = at
    PROVE  AnswersOK'
<1> DEFINE r == [req[q] EXCEPT !.stage = stage, !.rows = rows]
<1>1. req[q] \in Request /\ Fits(req[q])
    BY AnswersAll DEF AnswersOK
<1>2. req' = [req EXCEPT ![q] = r]
    BY DEF AnswersOK
<1>3. /\ r \in Request /\ r.rows = rows /\ r.do = req[q].do /\ r.ch = req[q].ch
      /\ r.first = req[q].first
    BY <1>1 DEF Request
<1> HIDE DEF r
<1>4. Fits(r)
    BY <1>1, <1>3 DEF Fits
<1> QED
    BY <1>2, <1>4, OneAnswerFact

-----------------------------------------------------------------------------
(* One lemma for each action                                               *)

\* What is shown of every step.
Sound ==
    /\ IInv'
    /\ \A ch \in Channels : Replaces(ch) \/ Kept(ch)

LEMMA SlackKept == SlackOK /\ UNCHANGED <<slack, table>> => SlackOK'
BY DEF SlackOK, slack, table

LEMMA ListsKept ==
    UNCHANGED store => \A ch \in Channels : Kept(ch)
BY DEF Kept

LEMMA AnswersKept ==
    AnswersOK /\ UNCHANGED req /\ UNCHANGED at => AnswersOK'
BY DEF AnswersOK, AnswersFit

LEMMA ActFact ==
    ASSUME IInv, Act
    PROVE  acts' \in 1 .. MaxActs /\ acts' > acts /\ (UNCHANGED outbox => CountsOK')
<1>1. acts' \in 1 .. MaxActs /\ acts' = acts + 1
    BY BoundsAssumption DEF Act, IInv, CountsOK
<1> QED
    BY <1>1 DEF IInv, CountsOK

LEMMA MessageFact ==
    ASSUME IInv, NEW ts \in DOMAIN at
    PROVE  ts \in TS /\ ts \in 0 .. MaxTS /\ at[ts] \in Channels
<1>1. at \in Seq(Channels) /\ Len(at) <= MaxTS /\ DOMAIN at = 1 .. Len(at)
    BY DEF IInv, SlackOK
<1> QED
    BY <1>1, BoundsAssumption DEF TS

LEMMA ShowFact ==
    ASSUME IInv, NEW ch \in Channels, Show(ch), UNCHANGED <<up, store>>,
           active' \in SUBSET Joined
    PROVE  ViewOK' /\ ListsTyped' /\ TwoCopiesAgree'
<1>1. cur' = ch /\ shown' = <<>> /\ ~ synced' /\ synced' \in BOOLEAN /\ older' \in BOOLEAN
    BY DEF Show
<1>2. noMore' \subseteq Channels
    BY DEF Show, IInv, ViewOK
<1>3. ViewOK'
    BY <1>1, <1>2 DEF IInv, ViewOK
<1>4. ListsTyped'
    BY <1>1 DEF IInv, ListsTyped
<1>5. TwoCopiesAgree'
    BY <1>1 DEF TwoCopiesAgree
<1> QED
    BY <1>3, <1>4, <1>5

LEMMA SelectChannelStep ==
    ASSUME IInv, NEW ch \in Channels, SelectChannel(ch) PROVE Sound
<1> USE DEF SelectChannel
<1>1. AnswersOK' /\ active' \in SUBSET Joined
    BY AskRecentFact DEF IInv, ViewOK, slack
<1>2. SlackOK' /\ MarksOK' /\ RetryOK' /\ CountsOK'
    BY SlackKept, ActFact DEF IInv, MarksOK, RetryOK, retry
<1>3. ViewOK' /\ ListsTyped' /\ TwoCopiesAgree'
    BY <1>1, ShowFact
<1> QED
    BY <1>1, <1>2, <1>3, ListsKept DEF Sound, IInv

LEMMA OpenPermalinkStep ==
    ASSUME IInv, NEW ts \in DOMAIN at, OpenPermalink(ts) PROVE Sound
<1> USE DEF OpenPermalink
<1> DEFINE ch == at[ts]
<1>0. ch \in Channels /\ ts \in 0 .. MaxTS
    BY MessageFact
<1>1. AnswersOK'
    BY <1>0, StartFact DEF IInv, slack
<1>2. SlackOK' /\ MarksOK' /\ RetryOK' /\ CountsOK'
    BY SlackKept, ActFact DEF IInv, MarksOK, RetryOK, retry
<1>3. ViewOK' /\ ListsTyped' /\ TwoCopiesAgree'
  <2>1. CASE ch \in Joined
    <3>1. active' \in SUBSET Joined
        BY <2>1 DEF IInv, ViewOK
    <3> QED
        BY <1>0, <2>1, <3>1, ShowFact
  <2>2. CASE ch \notin Joined
      BY <2>2 DEF IInv, ViewOK, ListsTyped, TwoCopiesAgree, scroll
  <2> QED
      BY <2>1, <2>2
<1> QED
    BY <1>1, <1>2, <1>3, ListsKept DEF Sound, IInv

LEMMA RequestOlderStep == ASSUME IInv, RequestOlder PROVE Sound
<1> USE DEF RequestOlder
<1> DEFINE head == store[cur][1]
<1>1. AnswersOK'
  <2>1. CASE UNCHANGED req
      BY <2>1, AnswersKept DEF IInv, slack
  <2>2. CASE ~ head.pending /\ cur \in Joined /\ Start("history", cur, head.ts)
    <3>1. store[cur] \in Seq(Line) /\ store[cur] # <<>> /\ cur \in Channels
        BY DEF IInv, ListsTyped, ViewOK
    <3>2. head \in Line
        BY <3>1
    <3>3. head.ts \in 0 .. MaxTS
      <4> HIDE DEF head
      <4>1. \/ head \in [ts : TS, pending : {FALSE}]
            \/ head \in [ts : 1 .. MaxActs, pending : {TRUE}]
          BY <3>2 DEF Line
      <4>2. head.ts \in TS
          BY <4>1, <2>2
      <4> QED
          BY <4>2, BoundsAssumption DEF TS
    <3> QED
        BY <2>2, <3>1, <3>3, StartFact DEF IInv, slack
  <2> QED
      BY <2>1, <2>2
<1>2. SlackOK' /\ MarksOK' /\ RetryOK' /\ CountsOK'
    BY SlackKept, ActFact DEF IInv, MarksOK, RetryOK, retry
<1>3. ViewOK' /\ ListsTyped' /\ TwoCopiesAgree'
    BY DEF IInv, ViewOK, ListsTyped, TwoCopiesAgree, lists
<1> QED
    BY <1>1, <1>2, <1>3, ListsKept DEF Sound, IInv, lists

LEMMA OlderTimeoutStep == ASSUME IInv, OlderTimeout PROVE Sound
<1> USE DEF OlderTimeout
<1>1. SlackOK' /\ MarksOK' /\ RetryOK' /\ CountsOK' /\ AnswersOK'
    BY SlackKept, AnswersKept DEF IInv, MarksOK, RetryOK, CountsOK, retry, slack
<1>2. ViewOK' /\ ListsTyped' /\ TwoCopiesAgree'
    BY DEF IInv, ViewOK, ListsTyped, TwoCopiesAgree, lists
<1> QED
    BY <1>1, <1>2, ListsKept DEF Sound, IInv, lists

LEMMA RetryFiresStep == ASSUME IInv, RetryFires PROVE Sound
<1> USE DEF RetryFires
<1>1. PICK ch \in timer : AskRecent(ch)
    OBVIOUS
<1>2. ch \in Channels
    BY ChannelsAssumption DEF IInv, RetryOK
<1>3. AnswersOK' /\ active' \in SUBSET Joined
    BY <1>1, <1>2, AskRecentFact DEF IInv, ViewOK, slack
<1>4. SlackOK' /\ MarksOK' /\ RetryOK' /\ CountsOK'
    BY SlackKept DEF IInv, MarksOK, RetryOK, CountsOK
<1>5. ViewOK' /\ ListsTyped' /\ TwoCopiesAgree'
    BY <1>3 DEF IInv, ViewOK, ListsTyped, TwoCopiesAgree, lists, scroll
<1> QED
    BY <1>3, <1>4, <1>5, ListsKept DEF Sound, IInv, lists

LEMMA MarkChannelReadStep ==
    ASSUME IInv, NEW ch \in Channels, MarkChannelRead(ch) PROVE Sound
<1> USE DEF MarkChannelRead
<1>1. NewestOr0(Rows(ch)) \in 0 .. MaxTS
  <2>1. Rows(ch) \in SUBSET TS
      BY MessageFact DEF Rows, IInv, SlackOK
  <2> QED
      BY <2>1, NewestTyped
<1>2. MarksOK'
    BY <1>1 DEF IInv, MarksOK
<1>3. SlackOK' /\ RetryOK' /\ CountsOK' /\ AnswersOK'
    BY SlackKept, AnswersKept, ActFact DEF IInv, RetryOK, retry, slack
<1>4. ViewOK' /\ ListsTyped' /\ TwoCopiesAgree'
    BY DEF IInv, ViewOK, ListsTyped, TwoCopiesAgree, lists, scroll
<1> QED
    BY <1>2, <1>3, <1>4, ListsKept DEF Sound, IInv, lists

LEMMA SendMessageStep == ASSUME IInv, SendMessage PROVE Sound
<1> USE DEF SendMessage
<1> DEFINE l == [ts |-> acts', pending |-> TRUE]
<1>0. /\ ListsTyped /\ cur \in Channels /\ acts' \in 1 .. MaxActs /\ acts' = acts + 1
      /\ acts \in Nat /\ MaxActs \in Nat
    BY ActFact, BoundsAssumption DEF IInv, ViewOK, Act, CountsOK
<1>1. l \in Line /\ AppendLine(cur, l)
    BY <1>0 DEF Line
<1> HIDE DEF l
<1>2. /\ ListsTyped' /\ \A c \in Channels : Kept(c)
      /\ shown = store[cur] => shown' = store'[cur]
    BY <1>0, <1>1, AppendLineFact
<1>3. CountsOK'
  <2>1. /\ outbox \in [Channels -> 0 .. MaxActs]
        /\ \A ch \in Channels : outbox[ch] \in 0 .. MaxActs /\ outbox[ch] <= acts
      BY DEF IInv, CountsOK
  <2>2. \A ch \in Channels : outbox'[ch] \in 0 .. MaxActs /\ outbox'[ch] <= acts'
      BY <1>0, <2>1
  <2>3. outbox' \in [Channels -> 0 .. MaxActs]
      BY <1>0, <2>1
  <2> QED
      BY <1>0, <2>2, <2>3 DEF CountsOK
<1>4. SlackOK' /\ MarksOK' /\ RetryOK' /\ AnswersOK'
    BY SlackKept, AnswersKept DEF IInv, MarksOK, RetryOK, retry, slack
<1>5. ViewOK' /\ TwoCopiesAgree'
    BY <1>2 DEF IInv, ViewOK, TwoCopiesAgree, scroll
<1> QED
    BY <1>2, <1>3, <1>4, <1>5 DEF Sound, IInv

LEMMA ResyncStep == ASSUME IInv, Resync PROVE Sound
<1> USE DEF Resync
<1>1. AnswersOK' /\ active' \in SUBSET Joined
    BY AskRecentFact DEF IInv, ViewOK, slack
<1>2. SlackOK' /\ MarksOK' /\ RetryOK' /\ CountsOK'
    BY SlackKept, ActFact DEF IInv, MarksOK, RetryOK, retry
<1>3. ViewOK' /\ ListsTyped' /\ TwoCopiesAgree'
    BY <1>1 DEF IInv, ViewOK, ListsTyped, TwoCopiesAgree, lists, scroll
<1> QED
    BY <1>1, <1>2, <1>3, ListsKept DEF Sound, IInv, lists

LEMMA DisconnectStep == ASSUME IInv, Disconnect PROVE Sound
<1> USE DEF Disconnect
<1>1. AnswersOK'
  <2>1. ASSUME NEW q \in Reqs
        PROVE  /\ [req[q] EXCEPT !.live = FALSE] \in Request
               /\ req'[q].rows = req[q].rows /\ req'[q].do = req[q].do
               /\ req'[q].ch = req[q].ch /\ req'[q].first = req[q].first
               /\ req'[q].stage = req[q].stage
      BY DEF IInv, AnswersOK, Request
  <2>2. req' \in [Reqs -> Request]
      BY <2>1
  <2> QED
      BY <2>1, <2>2 DEF IInv, AnswersOK, AnswersFit, slack
<1>2. SlackOK' /\ MarksOK' /\ RetryOK' /\ CountsOK'
    BY SlackKept, ActFact DEF IInv, MarksOK, RetryOK, retry
<1>3. ViewOK' /\ ListsTyped' /\ TwoCopiesAgree'
    BY DEF IInv, ViewOK, ListsTyped, TwoCopiesAgree, lists, scroll
<1> QED
    BY <1>1, <1>2, <1>3, ListsKept DEF Sound, IInv, lists

LEMMA RedialStep == ASSUME IInv, Redial PROVE Sound
<1> USE DEF Redial
<1>1. AnswersOK'
  <2>1. CASE UNCHANGED req
      BY <2>1, AnswersKept DEF IInv, slack
  <2>2. CASE cur \in Joined /\ \E q \in Reqs : req' = [req EXCEPT ![q] = Begun("recent", cur, 0)]
    <3>1. Fits(Begun("recent", cur, 0))
        BY <2>2, BegunFits, BoundsAssumption DEF IInv, ViewOK
    <3> QED
        BY <2>2, <3>1, OneAnswerFact DEF IInv, slack
  <2> QED
      BY <2>1, <2>2
<1>2. SlackOK' /\ MarksOK' /\ RetryOK' /\ CountsOK'
    BY SlackKept DEF IInv, MarksOK, RetryOK, CountsOK, retry
<1>3. ViewOK' /\ ListsTyped' /\ TwoCopiesAgree'
    BY DEF IInv, ViewOK, ListsTyped, TwoCopiesAgree, lists, scroll
<1> QED
    BY <1>1, <1>2, <1>3, ListsKept DEF Sound, IInv, lists

\* Steps that change nothing but the answers being prepared.
LEMMA OnlyAnswersFact ==
    ASSUME IInv, AnswersOK',
           UNCHANGED <<slack, table, mark, active, up, cur, lists, scroll, retry,
                       outbox, acts, synced>>
    PROVE  Sound
<1>1. SlackOK' /\ MarksOK' /\ RetryOK' /\ CountsOK'
    BY SlackKept DEF IInv, MarksOK, RetryOK, CountsOK, retry
<1>2. ViewOK' /\ ListsTyped' /\ TwoCopiesAgree'
    BY DEF IInv, ViewOK, ListsTyped, TwoCopiesAgree, lists, scroll
<1> QED
    BY <1>1, <1>2, ListsKept DEF Sound, IInv, lists

\* The messages of a channel that Slack has.
LEMMA PostsFact ==
    ASSUME IInv, NEW ch
    PROVE  Posts(ch) \subseteq DOMAIN at /\ DOMAIN at \subseteq TS
BY MessageFact DEF Posts

\* An answer whose rows are the messages in S.
LEMMA AnswerFact ==
    ASSUME IInv, NEW q \in Reqs, NEW S \in SUBSET DOMAIN at,
           req[q].stage \in {"asked", "fetched"}, Answer(q, S), at' = at
    PROVE  AnswersOK'
<1>1. PICK rows \in Sorted(S) :
        req' = [req EXCEPT ![q].stage = "sending", ![q].rows = rows]
    BY DEF Answer
<1>2. S \in SUBSET TS
    BY MessageFact
<1>3. rows \in Seq(TS) /\ Elems(rows) \subseteq DOMAIN at /\ Increasing(rows)
    BY <1>2, SortedTyped
<1> QED
    BY <1>1, <1>3, PageFact DEF IInv

LEMMA FetchRecentStep ==
    ASSUME IInv, NEW q \in Reqs, FetchRecent(q) PROVE Sound
<1> USE DEF FetchRecent
<1> DEFINE S == Newest(Page, Posts(req[q].ch))
<1>1. S \in SUBSET DOMAIN at /\ S \in SUBSET TS
    BY PostsFact DEF Newest
<1>2. PICK rows \in Sorted(S) \cup {<<>>} : Fetch(q, rows)
    OBVIOUS
<1>3. rows \in Seq(TS) /\ Elems(rows) \subseteq DOMAIN at /\ Increasing(rows)
  <2>1. CASE rows \in Sorted(S)
    <3> HIDE DEF S
    <3> QED
        BY <2>1, <1>1, SortedTyped
  <2>2. CASE rows = <<>>
      BY <2>2 DEF Elems, Increasing
  <2> QED
      BY <2>1, <2>2
<1>4. AnswersOK'
    BY <1>2, <1>3, PageFact DEF IInv, Fetch, Asked, slack
<1> QED
    BY <1>4, OnlyAnswersFact

LEMMA QueryRecentStep ==
    ASSUME IInv, NEW q \in Reqs, QueryRecent(q) PROVE Sound
<1> USE DEF QueryRecent
<1> DEFINE S == Newest(Window, {ts \in cached' \ dead' : at[ts] = req[q].ch})
<1>0. at' = at /\ Elems(req[q].rows) \subseteq DOMAIN at /\ req[q].stage = "fetched"
    BY DEF slack, IInv, AnswersOK, AnswersFit
<1>1. cached' \subseteq DOMAIN at
    BY <1>0 DEF IInv, SlackOK
<1>2. S \in SUBSET DOMAIN at
    BY <1>1 DEF Newest
<1>3. AnswersOK'
  <2> HIDE DEF S
  <2>1. Answer(q, S)
      BY DEF S
  <2> QED
      BY <1>0, <1>2, <2>1, AnswerFact
<1>4. SlackOK' /\ MarksOK' /\ RetryOK' /\ CountsOK'
    BY <1>0, <1>1 DEF IInv, SlackOK, MarksOK, RetryOK, CountsOK, retry, slack
<1>5. ViewOK' /\ ListsTyped' /\ TwoCopiesAgree'
    BY DEF IInv, ViewOK, ListsTyped, TwoCopiesAgree, lists, scroll
<1> QED
    BY <1>3, <1>4, <1>5, ListsKept DEF Sound, IInv, lists

LEMMA ReadHistoryStep ==
    ASSUME IInv, NEW q \in Reqs, ReadHistory(q) PROVE Sound
<1> USE DEF ReadHistory
<1> DEFINE S == Newest(Page, {ts \in Posts(req[q].ch) : ts < req[q].arg})
<1>1. S \in SUBSET DOMAIN at
    BY PostsFact DEF Newest
<1>2. CASE Answer(q, S)
    BY <1>1, <1>2, AnswerFact, OnlyAnswersFact DEF Asked, slack
<1>3. CASE req' = [req EXCEPT ![q] = Idle]
    BY <1>3, IdleFits, OneAnswerFact, OnlyAnswersFact DEF IInv, slack
<1> QED
    BY <1>2, <1>3

LEMMA ReadJumpStep ==
    ASSUME IInv, NEW q \in Reqs, ReadJump(q) PROVE Sound
<1> USE DEF ReadJump
<1> DEFINE posts == Posts(req[q].ch)
           newer == {ts \in posts : ts > req[q].arg}
           S == Newest(Around, posts \ newer)
                  \cup IF Cardinality(newer) > Around THEN {} ELSE newer
<1>1. S \in SUBSET DOMAIN at
    BY PostsFact DEF Newest
<1>2. CASE Answer(q, S)
  <2> HIDE DEF S
  <2> QED
      BY <1>1, <1>2, AnswerFact, OnlyAnswersFact DEF Asked, slack
<1>3. CASE req' = [req EXCEPT ![q] = Idle]
    BY <1>3, IdleFits, OneAnswerFact, OnlyAnswersFact DEF IInv, slack
<1> QED
    BY <1>2, <1>3

LEMMA WriteRecentStep ==
    ASSUME IInv, NEW q \in Reqs, WriteRecent(q) PROVE Sound
<1> DEFINE r == req[q]
           k == Least(Chunk, Len(r.rows))
           piece == SubSeq(r.rows, 1, k)
           rest == SubSeq(r.rows, k + 1, Len(r.rows))
           next == IF rest = <<>> THEN Idle ELSE [r EXCEPT !.rows = rest, !.first = FALSE]
<1>1. /\ r \in Request /\ Fits(r) /\ r.do = "recent" /\ r.stage = "sending"
      /\ AnswersOK /\ TypeOK
    BY AnswersAll, IInvTyped DEF IInv, AnswersOK, WriteRecent, Sending
<1>2. /\ req' = [req EXCEPT ![q] = next]
      /\ IF r.live
         THEN LoadRecent(r.ch, piece, r.first, rest = <<>>, FALSE, cur, shown)
         ELSE UNCHANGED <<lists, mark, noMore, retry, synced>>
      /\ UNCHANGED <<slack, table, active, up, cur, older, outbox, acts>>
    BY DEF WriteRecent
<1>3. r.rows \in Seq(TS) /\ r.ch \in Channels /\ r.ch \in Joined /\ r.first \in BOOLEAN
    BY <1>1 DEF Request, Fits
<1>4. /\ piece \in Seq(TS) /\ rest \in Seq(TS) /\ Elems(rest) \subseteq Elems(r.rows)
      /\ r.rows # <<>> => piece # <<>>
      /\ r.rows = <<>> => piece = <<>> /\ rest = <<>>
      /\ Increasing(rest)
  <2>1. Increasing(r.rows)
      BY <1>1 DEF Fits
  <2> QED
      BY <1>3, <2>1, SplitFact, BoundsAssumption
<1> HIDE DEF k, piece, rest
<1>5. Fits(next)
  <2>1. CASE rest = <<>>
      BY <2>1, IdleFits
  <2>2. CASE rest # <<>>
    <3> DEFINE n == [r EXCEPT !.rows = rest, !.first = FALSE]
    <3>1. /\ n \in Request /\ n.rows = rest /\ n.do = r.do /\ n.ch = r.ch
          /\ n.stage = r.stage
        BY <1>1, <1>4 DEF Request
    <3>2. next = n
        BY <2>2
    <3> HIDE DEF n, next
    <3>3. Fits(n)
        BY <1>1, <1>4, <2>2, <3>1 DEF Fits
    <3> QED
        BY <3>2, <3>3
  <2> QED
      BY <2>1, <2>2
<1>6. req'[q] = next /\ (r.first => next # r)
  <2>1. req'[q] = next
      BY <1>2 DEF IInv, AnswersOK
  <2>2. CASE rest = <<>>
      BY <2>1, <2>2, <1>1, IdleFits
  <2>3. ASSUME rest # <<>>, r.first PROVE next # r
    <3>1. ~ next.first
        BY <1>1, <2>3 DEF Request
    <3> QED
        BY <2>3, <3>1
  <2> QED
      BY <2>1, <2>2, <2>3
<1> HIDE DEF next
<1>7. AnswersOK'
    BY <1>1, <1>2, <1>5, OneAnswerFact DEF slack
<1>8. SlackOK' /\ CountsOK'
    BY <1>2, SlackKept DEF IInv, CountsOK
<1>9. CASE ~ r.live
  <2>1. MarksOK' /\ RetryOK' /\ ViewOK' /\ ListsTyped' /\ TwoCopiesAgree'
      BY <1>2, <1>9 DEF IInv, MarksOK, RetryOK, ViewOK, ListsTyped, TwoCopiesAgree,
                        lists, retry
  <2> QED
      BY <1>2, <1>7, <1>8, <1>9, <2>1, ListsKept DEF Sound, IInv, lists
<1>10. CASE r.live
  <2> DEFINE final == rest = <<>>
             stale == Stale(r.ch, piece, r.first, final, FALSE)
  <2>1. shown \in Seq(Line) /\ cur \in Channels /\ (synced => shown = store[cur])
      BY DEF IInv, ListsTyped, ViewOK, TwoCopiesAgree
  <2>2. LoadRecent(r.ch, piece, r.first, final, FALSE, cur, shown)
      BY <1>2, <1>10
  <2>3. final \in BOOLEAN /\ (piece # <<>> \/ r.first)
      BY <1>1, <1>4 DEF Fits
  <2> HIDE DEF final, r
  <2>4. /\ ListsTyped' /\ mark' \in [Channels -> 0 .. MaxTS]
        /\ tries' \in [Channels -> 0 .. MaxTries] /\ timer' \subseteq Joined
        /\ noMore' \subseteq Channels /\ synced' \in BOOLEAN
        /\ synced' => shown' = store'[cur]
        /\ \A c \in Channels : c # r.ch => store'[c] = store[c]
        /\ ~ r.first \/ stale => Elems(store[r.ch]) \subseteq Elems(store'[r.ch])
    <3>1. Loaded(r.ch, piece, r.first, final, FALSE, cur, shown)
        BY <1>1, <1>3, <1>4, <2>1, <2>2, <2>3, LoadRecentFact, Zenon
    <3> QED
        BY <2>1, <3>1 DEF Loaded
  <2>5. MarksOK' /\ RetryOK' /\ TwoCopiesAgree'
      BY <1>2, <2>4 DEF MarksOK, RetryOK, TwoCopiesAgree
  <2>6. ViewOK'
      BY <1>2, <2>4 DEF IInv, ViewOK
  <2>7. Replaces(r.ch) \/ Kept(r.ch)
    <3>1. CASE ~ r.first \/ stale
        BY <2>4, <3>1 DEF Kept
    <3>2. CASE r.first /\ ~ stale
      <4>1. ~ Stale(r.ch, r.rows, TRUE, TRUE, r.do = "jump")
          BY <3>2, <1>1, <1>4 DEF Stale, final
      <4>2. req'[q] # req[q]
          BY <3>2, <1>6 DEF r
      <4> QED
          BY <4>1, <4>2, <3>2, <1>1 DEF Replaces, r
    <3> QED
        BY <3>1, <3>2
  <2>8. \A c \in Channels : c # r.ch => Kept(c)
      BY <2>4 DEF Kept
  <2> QED
      BY <1>7, <1>8, <2>4, <2>5, <2>6, <2>7, <2>8 DEF Sound, IInv
<1> QED
    BY <1>9, <1>10

LEMMA WriteJumpStep ==
    ASSUME IInv, NEW q \in Reqs, WriteJump(q) PROVE Sound
<1> DEFINE r == req[q]
           adopt == r.live /\ r.ch # cur /\ r.ch \notin Joined
           screen == IF adopt THEN <<>> ELSE shown
<1>1. /\ r \in Request /\ r.do = "jump" /\ r.stage = "sending"
      /\ AnswersOK /\ TypeOK /\ Sending(q, "jump")
    BY IInvTyped DEF IInv, AnswersOK, WriteJump, Sending
<1>2. /\ req' = [req EXCEPT ![q] = Idle]
      /\ cur' = IF adopt THEN r.ch ELSE cur
      /\ active' = IF adopt THEN {} ELSE active
      /\ older' = IF adopt THEN FALSE ELSE older
      /\ IF r.live
         THEN LoadRecent(r.ch, r.rows, TRUE, TRUE, TRUE, cur', screen)
         ELSE UNCHANGED <<lists, mark, noMore, retry, synced>>
      /\ UNCHANGED <<slack, table, up, outbox, acts>>
    BY DEF WriteJump
<1>3. r.rows \in Seq(TS) /\ r.ch \in Channels
    BY <1>1 DEF Request
<1>4. req'[q] # req[q]
    BY <1>1, <1>2, IdleFits DEF AnswersOK
<1>5. AnswersOK'
    BY <1>1, <1>2, IdleFits, OneAnswerFact DEF slack
<1>6. SlackOK' /\ CountsOK'
    BY <1>2, SlackKept DEF IInv, CountsOK
<1>7. cur' \in Channels /\ active' \in SUBSET Joined /\ older' \in BOOLEAN
    BY <1>2, <1>3 DEF IInv, ViewOK
<1>8. CASE ~ r.live
  <2>1. MarksOK' /\ RetryOK' /\ ViewOK' /\ ListsTyped' /\ TwoCopiesAgree'
      BY <1>2, <1>7, <1>8 DEF IInv, MarksOK, RetryOK, ViewOK, ListsTyped, TwoCopiesAgree,
                              lists, retry
  <2> QED
      BY <1>2, <1>5, <1>6, <1>8, <2>1, ListsKept DEF Sound, IInv, lists
<1>9. CASE r.live
  <2>1. screen \in Seq(Line)
      BY DEF IInv, ListsTyped
  <2>2. \/ synced => screen = store[cur']
        \/ r.ch = cur'
      BY <1>2 DEF IInv, TwoCopiesAgree
  <2>3. LoadRecent(r.ch, r.rows, TRUE, TRUE, TRUE, cur', screen)
      BY <1>2, <1>9
  <2> HIDE DEF r, screen
  <2>4. /\ ListsTyped' /\ mark' \in [Channels -> 0 .. MaxTS]
        /\ tries' \in [Channels -> 0 .. MaxTries] /\ timer' \subseteq Joined
        /\ noMore' \subseteq Channels /\ synced' \in BOOLEAN
        /\ synced' => shown' = store'[cur']
        /\ \A c \in Channels : c # r.ch => store'[c] = store[c]
    <3>1. Loaded(r.ch, r.rows, TRUE, TRUE, TRUE, cur', screen)
        BY <1>1, <1>3, <1>7, <2>1, <2>3, LoadRecentFact, Zenon
    <3> QED
        BY <2>2, <3>1 DEF Loaded
  <2>5. MarksOK' /\ RetryOK' /\ ViewOK' /\ TwoCopiesAgree'
      BY <1>2, <1>7, <2>4 DEF MarksOK, RetryOK, ViewOK, TwoCopiesAgree, IInv
  <2>6. Replaces(r.ch)
    <3>1. r.first
        BY <1>1 DEF AnswersOK, AnswersFit, Request, r
    <3>2. ~ Stale(r.ch, r.rows, TRUE, TRUE, r.do = "jump")
        BY <1>1 DEF Stale
    <3> QED
        BY <3>1, <3>2, <1>1, <1>4 DEF Replaces, r
  <2>7. \A c \in Channels : c # r.ch => Kept(c)
      BY <2>4 DEF Kept
  <2> QED
      BY <1>5, <1>6, <2>4, <2>5, <2>6, <2>7 DEF Sound, IInv
<1> QED
    BY <1>8, <1>9

LEMMA WriteHistoryStep ==
    ASSUME IInv, NEW q \in Reqs, WriteHistory(q) PROVE Sound
<1> USE DEF WriteHistory
<1>1. AnswersOK'
    BY IdleFits, OneAnswerFact DEF IInv, slack
<1>2. SlackOK' /\ MarksOK' /\ RetryOK' /\ CountsOK'
    BY SlackKept DEF IInv, MarksOK, RetryOK, CountsOK, retry
<1>3. /\ ListsTyped' /\ older' \in BOOLEAN /\ noMore' \subseteq Channels
      /\ shown = store[cur] => shown' = store'[cur]
      /\ \A c \in Channels : Kept(c)
  <2>1. CASE PrependOlder(req[q].ch, req[q].rows)
    <3>1. req[q].ch \in Channels /\ req[q].rows \in Seq(TS)
        BY DEF IInv, AnswersOK, Request
    <3> QED
        BY <2>1, <3>1, IInvTyped, PrependOlderFact
  <2>2. CASE UNCHANGED <<lists, scroll>>
      BY <2>2, ListsKept DEF IInv, ListsTyped, ViewOK, lists, scroll
  <2> QED
      BY <2>1, <2>2
<1>4. ViewOK' /\ TwoCopiesAgree'
    BY <1>3 DEF IInv, ViewOK, TwoCopiesAgree
<1> QED
    BY <1>1, <1>2, <1>3, <1>4 DEF Sound, IInv

\* A message is posted: the ones there are keep their channels.
LEMMA PostedFact ==
    ASSUME IInv, NEW ch \in Channels, NEW mine \in BOOLEAN, Posted(ch, mine),
           UNCHANGED <<gone, dead, lastTS, req>>
    PROVE  SlackOK' /\ AnswersOK'
<1>1. /\ at \in Seq(Channels) /\ Len(at) + 1 <= MaxTS /\ at' = Append(at, ch)
      /\ Len(at) \in Nat /\ MaxTS \in Nat /\ DOMAIN at = 1 .. Len(at)
    BY BoundsAssumption DEF IInv, SlackOK, Posted
<1>2. /\ at' \in Seq(Channels) /\ Len(at') = Len(at) + 1
      /\ DOMAIN at' = 1 .. Len(at) + 1
    BY <1>1
<1>3. Len(at) + 1 \in DOMAIN at' /\ DOMAIN at \subseteq DOMAIN at' /\ Len(at) + 1 \in TS
    BY <1>1, <1>2 DEF TS
<1>4. cached' \subseteq DOMAIN at'
    BY <1>3 DEF Posted, IInv, SlackOK
<1>5. own' \subseteq TS
    BY <1>3 DEF Posted, IInv, SlackOK
<1>6. SlackOK'
    BY <1>1, <1>2, <1>4, <1>5 DEF IInv, SlackOK
<1>7. AnswersOK'
    BY <1>3 DEF IInv, AnswersOK, AnswersFit
<1> QED
    BY <1>6, <1>7

LEMMA PostStep ==
    ASSUME IInv, NEW ch \in Channels, Post(ch) PROVE Sound
<1> USE DEF Post
<1>1. SlackOK' /\ AnswersOK'
    BY PostedFact
<1>2. MarksOK' /\ RetryOK' /\ CountsOK'
    BY DEF IInv, MarksOK, RetryOK, CountsOK, retry
<1>3. ViewOK' /\ ListsTyped' /\ TwoCopiesAgree'
    BY DEF IInv, ViewOK, ListsTyped, TwoCopiesAgree, lists, scroll
<1> QED
    BY <1>1, <1>2, <1>3, ListsKept DEF Sound, IInv, lists

LEMMA OutboxFact ==
    ASSUME IInv, NEW ch \in Channels, outbox[ch] > 0,
           outbox' = [outbox EXCEPT ![ch] = @ - 1], UNCHANGED acts
    PROVE  CountsOK'
<1>1. /\ outbox \in [Channels -> 0 .. MaxActs] /\ MaxActs \in Nat /\ acts \in 0 .. MaxActs
      /\ \A c \in Channels : outbox[c] <= acts
    BY BoundsAssumption DEF IInv, CountsOK
<1>2. \A c \in Channels : outbox'[c] \in 0 .. MaxActs /\ outbox'[c] <= acts
    BY <1>1
<1>3. outbox' \in [Channels -> 0 .. MaxActs]
    BY <1>1
<1> QED
    BY <1>1, <1>2, <1>3 DEF CountsOK

LEMMA SendPostsStep ==
    ASSUME IInv, NEW ch \in Channels, SendPosts(ch) PROVE Sound
<1> USE DEF SendPosts
<1>1. SlackOK' /\ AnswersOK'
    BY PostedFact
<1>2. CountsOK'
    BY OutboxFact
<1>3. MarksOK' /\ RetryOK'
    BY DEF IInv, MarksOK, RetryOK, retry
<1>4. ViewOK' /\ ListsTyped' /\ TwoCopiesAgree'
    BY DEF IInv, ViewOK, ListsTyped, TwoCopiesAgree, lists, scroll
<1> QED
    BY <1>1, <1>2, <1>3, <1>4, ListsKept DEF Sound, IInv, lists

LEMMA SendFailsStep ==
    ASSUME IInv, NEW ch \in Channels, SendFails(ch) PROVE Sound
<1> USE DEF SendFails
<1>1. SlackOK' /\ AnswersOK'
    BY SlackKept, AnswersKept DEF IInv, slack
<1>2. CountsOK'
    BY OutboxFact
<1>3. MarksOK' /\ RetryOK'
    BY DEF IInv, MarksOK, RetryOK, retry
<1>4. ViewOK' /\ ListsTyped' /\ TwoCopiesAgree'
    BY DEF IInv, ViewOK, ListsTyped, TwoCopiesAgree, lists, scroll
<1> QED
    BY <1>1, <1>2, <1>3, <1>4, ListsKept DEF Sound, IInv, lists

LEMMA EditStep ==
    ASSUME IInv, NEW ts \in DOMAIN at, Edit(ts) PROVE Sound
<1> USE DEF Edit
<1>1. SlackOK' /\ MarksOK' /\ RetryOK' /\ CountsOK' /\ AnswersOK'
    BY ActFact, AnswersKept DEF IInv, SlackOK, MarksOK, RetryOK, retry, slack
<1>2. /\ ListsTyped' /\ \A c \in Channels : Kept(c)
      /\ shown = store[cur] => shown' = store'[cur]
  <2>1. CASE Ingest(ts)
      BY <2>1, MessageFact, IngestFact DEF IInv, ViewOK
  <2>2. CASE UNCHANGED lists
      BY <2>2, ListsKept DEF IInv, ListsTyped, lists
  <2> QED
      BY <2>1, <2>2
<1>3. ViewOK' /\ TwoCopiesAgree'
    BY <1>2 DEF IInv, ViewOK, TwoCopiesAgree, scroll
<1> QED
    BY <1>1, <1>2, <1>3 DEF Sound, IInv

LEMMA DeleteStep ==
    ASSUME IInv, NEW ts \in DOMAIN at, Delete(ts) PROVE Sound
<1> USE DEF Delete
<1>1. SlackOK'
    BY MessageFact DEF IInv, SlackOK
<1>2. MarksOK' /\ RetryOK' /\ CountsOK' /\ AnswersOK'
    BY ActFact, AnswersKept DEF IInv, MarksOK, RetryOK, retry
<1>3. /\ ListsTyped' /\ \A c \in Channels : Kept(c)
      /\ shown = store[cur] => shown' = store'[cur]
  <2>1. CASE ApplyDelete(ts)
      BY <2>1, MessageFact, ApplyDeleteFact DEF IInv, ViewOK
  <2>2. CASE UNCHANGED lists
      BY <2>2, ListsKept DEF IInv, ListsTyped, lists
  <2> QED
      BY <2>1, <2>2
<1>4. ViewOK' /\ TwoCopiesAgree'
    BY <1>3 DEF IInv, ViewOK, TwoCopiesAgree, scroll
<1> QED
    BY <1>1, <1>2, <1>3, <1>4 DEF Sound, IInv

LEMMA AnnounceStep == ASSUME IInv, Announce PROVE Sound
<1> DEFINE fresh == {t \in cached \ dead : t > lastTS}
           ts == CHOOSE t \in fresh : \A u \in fresh : t <= u
<1>1. /\ fresh # {} /\ lastTS' = ts
      /\ IF up THEN Ingest(ts) ELSE UNCHANGED lists
      /\ (mark' = [mark EXCEPT ![at[ts]] = ts] \/ UNCHANGED mark)
      /\ UNCHANGED <<slack, cached, dead, active, req, up, cur, scroll, retry,
                     outbox, acts, synced>>
    BY DEF Announce
<1>2. ts \in DOMAIN at
  <2>1. fresh \in SUBSET Nat
      BY MessageFact DEF IInv, SlackOK, TS
  <2>2. \E t \in fresh : \A u \in fresh : t <= u
    <3> HIDE DEF fresh
    <3> QED
        BY <1>1, <2>1, LeastExists
  <2>3. ts \in fresh
      BY <2>2
  <2> QED
      BY <2>3 DEF IInv, SlackOK
<1> HIDE DEF ts
<1>3. ts \in TS /\ ts \in 0 .. MaxTS /\ at[ts] \in Channels
    BY <1>2, MessageFact
<1>4. SlackOK'
    BY <1>1, <1>3 DEF IInv, SlackOK, slack
<1>5. MarksOK'
    BY <1>1, <1>3 DEF IInv, MarksOK
<1>6. RetryOK' /\ CountsOK' /\ AnswersOK'
    BY <1>1, AnswersKept DEF IInv, RetryOK, CountsOK, retry, slack
<1>7. /\ ListsTyped' /\ \A c \in Channels : Kept(c)
      /\ shown = store[cur] => shown' = store'[cur]
  <2>1. CASE Ingest(ts)
      BY <2>1, <1>3, IngestFact DEF IInv, ViewOK
  <2>2. CASE UNCHANGED lists
      BY <2>2, ListsKept DEF IInv, ListsTyped, lists
  <2> QED
      BY <1>1, <2>1, <2>2
<1>8. ViewOK' /\ TwoCopiesAgree'
    BY <1>1, <1>7 DEF IInv, ViewOK, TwoCopiesAgree, scroll
<1> QED
    BY <1>1, <1>4, <1>5, <1>6, <1>7, <1>8 DEF Sound, IInv

LEMMA StutterStep == ASSUME IInv, UNCHANGED vars PROVE Sound
<1> USE DEF vars
<1>1. AnswersOK'
    BY AnswersKept DEF IInv, slack
<1> QED
    BY <1>1, OnlyAnswersFact

-----------------------------------------------------------------------------
(* The theorems                                                            *)

LEMMA Initially == Init => IInv
<1> SUFFICES ASSUME Init PROVE IInv
    OBVIOUS
<1> USE DEF Init
<1>0. Home \in Channels /\ Home \in Joined
    BY ChannelsAssumption
<1>1. SlackOK /\ MarksOK /\ ViewOK /\ RetryOK /\ ListsTyped /\ TwoCopiesAgree
  <2>1. SlackOK
    <3>1. at \in Seq(Channels) /\ Len(at) = 0
        OBVIOUS
    <3> QED
        BY <3>1, BoundsAssumption DEF SlackOK
  <2>2. MarksOK /\ RetryOK
      BY BoundsAssumption DEF MarksOK, RetryOK
  <2>3. ViewOK
      BY <1>0 DEF ViewOK
  <2>4. ListsTyped /\ TwoCopiesAgree
      BY <1>0 DEF ListsTyped, TwoCopiesAgree
  <2> QED
      BY <2>1, <2>2, <2>3, <2>4
<1>2. CountsOK
    BY BoundsAssumption DEF CountsOK
<1>3. AnswersOK
  <2>1. \A q \in Reqs : Fits(req[q])
      BY <1>0, IdleFits, BegunFits, BoundsAssumption
  <2> QED
      BY <2>1 DEF AnswersOK, AnswersFit, Fits
<1> QED
    BY <1>1, <1>2, <1>3 DEF IInv

LEMMA EveryStep == ASSUME IInv, [Next]_vars PROVE Sound
<1>1. CASE User
    BY <1>1, SelectChannelStep, MarkChannelReadStep, OpenPermalinkStep, RequestOlderStep,
       SendMessageStep DEF User
<1>2. CASE Timers
    BY <1>2, OlderTimeoutStep, RetryFiresStep, RedialStep DEF Timers
<1>3. CASE Slack
    BY <1>3, PostStep, SendPostsStep, SendFailsStep, EditStep, DeleteStep DEF Slack
<1>4. CASE \E q \in Reqs : Daemon(q)
    BY <1>4, FetchRecentStep, QueryRecentStep, WriteRecentStep, ReadHistoryStep,
       WriteHistoryStep, ReadJumpStep, WriteJumpStep DEF Daemon
<1>5. CASE Announce \/ Resync \/ Disconnect
    BY <1>5, AnnounceStep, ResyncStep, DisconnectStep
<1>6. CASE UNCHANGED vars
    BY <1>6, StutterStep
<1> QED
    BY <1>1, <1>2, <1>3, <1>4, <1>5, <1>6 DEF Next

\* The invariant holds of every behaviour.
THEOREM Invariance == Spec => []IInv
<1>1. IInv /\ [Next]_vars => IInv'
    BY EveryStep DEF Sound
<1> QED
    BY Initially, <1>1, PTL DEF Spec

\* The state has the form TypeOK says: in particular only messages that exist
\* are shown, counted as marked or asked for, and only a channel of the user is
\* retried or taken for the active one.
THEOREM TypeCorrect == Spec => []TypeOK
BY Invariance, IInvTyped, PTL

\* For any number of channels, answers and messages, and pages cut in any way:
\* the screen is the list kept for the channel, once a page has been loaded.
THEOREM CopiesAgree == Spec => []TwoCopiesAgree
<1>1. IInv => TwoCopiesAgree
    BY DEF IInv
<1> QED
    BY <1>1, Invariance, PTL

\* Outside a new page, a line leaves a list only as its message is deleted or
\* as one of the user's own takes its place.
THEOREM LinesRemain == Spec => LinesStay
<1> DEFINE A == \A ch \in Channels : ~ Replaces(ch) =>
                  \A l \in Elems(store[ch]) \ Elems(store'[ch]) :
                    IF l.pending
                    THEN \E n \in Elems(store'[ch]) \ Elems(store[ch]) :
                           ~ n.pending /\ n.ts \in own
                    ELSE l.ts \in gone'
<1>1. IInv /\ [Next]_vars => [A]_vars
    BY EveryStep DEF Sound, Kept
<1> HIDE DEF A
<1>2. Spec => [][A]_vars
    BY <1>1, Invariance, PTL DEF Spec
<1> QED
    BY <1>2 DEF LinesStay, A

-----------------------------------------------------------------------------
(* The UI implements OneList                                               *)

\* What OneList sees of a state, and what is shown of every step.
Seen == <<store, cur, synced, IF synced THEN shown ELSE <<>>>>
Follows == [Promised!Next]_Seen

\* Rows in their order, of messages there are, make a page.
LEMMA PageFits ==
    ASSUME NEW rows \in Seq(TS), Increasing(rows)
    PROVE  rows \in Promised!Pages /\ Lines(rows) = Promised!Written(rows)
<1> DEFINE n == Len(rows)
<1>1. n \in Nat /\ DOMAIN rows = 1 .. n /\ rows \in [1 .. n -> TS]
    OBVIOUS
<1>2. IsFiniteSet(TS)
    BY FS_Interval, BoundsAssumption DEF TS
<1>3. \A i, j \in 1 .. n : rows[i] = rows[j] => i = j
  <2> SUFFICES ASSUME NEW i \in 1 .. n, NEW j \in 1 .. n, i # j PROVE rows[i] # rows[j]
      OBVIOUS
  <2>1. rows[i] < rows[j] \/ rows[j] < rows[i]
      BY <1>1 DEF Increasing
  <2>2. rows[i] \in Nat /\ rows[j] \in Nat
      BY BoundsAssumption DEF TS
  <2> QED
      BY <2>1, <2>2
<1>4. n <= MaxTS
  <2>1. rows \in Injection(1 .. n, TS)
      BY <1>1, <1>3 DEF Injection, IsInjective
  <2>2. Cardinality(1 .. n) <= Cardinality(TS)
      BY <1>2, <2>1, FS_Injection
  <2>3. /\ Cardinality(1 .. n) = IF 1 > n THEN 0 ELSE n - 1 + 1
        /\ Cardinality(1 .. MaxTS) = IF 1 > MaxTS THEN 0 ELSE MaxTS - 1 + 1
      BY <1>1, FS_Interval, BoundsAssumption
  <2> QED
      BY <1>1, <2>2, <2>3, BoundsAssumption DEF TS
<1> HIDE DEF n
<1>6. n \in 0 .. MaxTS
    BY <1>1, <1>4, BoundsAssumption
<1>7. rows \in Promised!Pages
    BY <1>1, <1>6 DEF Promised!Pages, Promised!Messages, TS, Increasing
<1>8. Lines(rows) = Promised!Written(rows)
    BY DEF Lines, Promised!Written, Promised!InList, Confirmed
<1> QED
    BY <1>7, <1>8

\* The screen is drawn after a step, because the two copies agree after it.
LEMMA DrawnFact == IInv' => Promised!Drawn
BY DEF IInv, TwoCopiesAgree, Promised!Drawn

LEMMA BecomesFact ==
    ASSUME IInv', NEW c \in Channels, NEW lines, store' = [store EXCEPT ![c] = lines],
           UNCHANGED <<cur, synced>>
    PROVE  Promised!Becomes(c, lines)
BY DrawnFact DEF Promised!Becomes

LEMMA StillFact == IInv /\ IInv' /\ UNCHANGED <<store, cur, synced>> => UNCHANGED Seen
BY DEF IInv, TwoCopiesAgree, Seen

LEMMA OpenFollows ==
    ASSUME IInv', NEW c \in Channels, Show(c), UNCHANGED store
    PROVE  Follows
<1>1. Promised!Open(c)
    BY DrawnFact DEF Show, Promised!Open
<1> QED
    BY <1>1 DEF Follows, Promised!Next

LEMMA IngestFollows ==
    ASSUME IInv, IInv', NEW ts \in TS, at[ts] \in Channels, Ingest(ts),
           UNCHANGED <<cur, synced>>
    PROVE  Follows
<1> DEFINE c == at[ts]
           s == store[c]
           l == Confirmed(ts)
<1>0. s \in Seq(Line) /\ l = Promised!InList(ts)
    BY DEF IInv, ListsTyped, Confirmed, Promised!InList
<1>1. CASE UNCHANGED lists
    BY <1>1, StillFact DEF lists, Follows
<1>2. CASE l \notin Elems(s) /\ Pending(s) # {} /\ ReconcileOptimistic(c, l)
  <2> DEFINE i == First(s, Pending(s))
  <2>1. \E n \in DOMAIN s : s[n] \in Pending(s)
      BY <1>2 DEF Pending, Elems
  <2>2. /\ i \in DOMAIN s /\ s[i] \in Pending(s)
        /\ \A j \in 1 .. i - 1 : s[j] \notin Pending(s) /\ j \in DOMAIN s
      BY <1>0, <2>1, FirstExists
  <2>3. store' = [store EXCEPT ![c] = [s EXCEPT ![i] = l]]
      BY <1>2 DEF ReconcileOptimistic
  <2> HIDE DEF i
  <2>4. s[i].pending /\ \A j \in 1 .. i - 1 : ~ s[j].pending
      BY <2>2 DEF Pending, Elems
  <2>5. Promised!Becomes(c, [s EXCEPT ![i] = l])
      BY <2>3, BecomesFact
  <2>6. Promised!Arrive(c, ts)
      BY <1>0, <1>2, <2>2, <2>4, <2>5 DEF Promised!Arrive, Elems
  <2> QED
      BY <2>6 DEF Follows, Promised!Next, Promised!Messages, TS
<1>3. CASE l \notin Elems(s) /\ AppendLine(c, l)
  <2>1. Promised!Becomes(c, Append(s, l))
      BY <1>3, BecomesFact DEF AppendLine
  <2>2. Promised!Arrive(c, ts)
      BY <1>0, <1>3, <2>1 DEF Promised!Arrive, Elems
  <2> QED
      BY <2>2 DEF Follows, Promised!Next, Promised!Messages, TS
<1> QED
    BY <1>1, <1>2, <1>3 DEF Ingest

LEMMA DeleteFollows ==
    ASSUME IInv, IInv', NEW ts \in TS, at[ts] \in Channels, ApplyDelete(ts),
           UNCHANGED <<cur, synced>>
    PROVE  Follows
<1> DEFINE c == at[ts]
           s == store[c]
           l == Confirmed(ts)
<1>0. s \in Seq(Line) /\ l = Promised!InList(ts) /\ store \in [Channels -> Seq(Line)]
    BY DEF IInv, ListsTyped, Confirmed, Promised!InList
<1>1. store' = [store EXCEPT ![c] = Without(s, l)]
    BY DEF ApplyDelete
<1>2. CASE l \notin Elems(s)
  <2>1. Without(s, l) = s
      BY <1>2 DEF Without
  <2>2. UNCHANGED store
      BY <1>0, <1>1, <2>1
  <2> QED
      BY <2>2, StillFact DEF Follows
<1>3. CASE l \in Elems(s)
  <2> DEFINE i == First(s, {l})
             left == SubSeq(s, 1, i - 1) \o SubSeq(s, i + 1, Len(s))
  <2>1. i \in DOMAIN s /\ s[i] = l
    <3>1. \E n \in DOMAIN s : s[n] \in {l}
        BY <1>3 DEF Elems
    <3>2. i \in 1 .. Len(s) /\ s[i] \in {l}
        BY <1>0, <3>1, FirstExists
    <3> QED
        BY <1>0, <3>2
  <2>2. Without(s, l) = left
      BY <1>3 DEF Without
  <2>3. Promised!Becomes(c, left)
      BY <1>1, <2>2, BecomesFact
  <2> HIDE DEF i
  <2>4. Promised!Delete(c, ts)
      BY <1>0, <2>1, <2>3 DEF Promised!Delete
  <2> QED
      BY <2>4 DEF Follows, Promised!Next, Promised!Messages, TS
<1> QED
    BY <1>2, <1>3

\* A piece that replaces the list, one that goes on with it, one not believed.
LEMMA LoadFollows ==
    ASSUME IInv, IInv', NEW c \in Channels, NEW rows \in Seq(TS), Increasing(rows),
           NEW reset \in BOOLEAN, NEW final, NEW jump, NEW on,
           LoadRecent(c, rows, reset, final, jump, cur', on),
           \/ UNCHANGED cur
           \/ cur' = c /\ reset /\ jump
    PROVE  Follows
<1> DEFINE page == Promised!Written(rows)
<1>0. /\ rows \in Promised!Pages /\ Lines(rows) = page
      /\ store \in [Channels -> Seq(Line)] /\ synced \in BOOLEAN
    BY PageFits DEF IInv, ListsTyped, ViewOK
<1> HIDE DEF page
<1>1. CASE Stale(c, rows, reset, final, jump)
  <2>1. UNCHANGED <<store, cur, synced>>
      BY <1>1 DEF LoadRecent, Stale
  <2> QED
      BY <2>1, StillFact DEF Follows
<1>2. CASE ~ Stale(c, rows, reset, final, jump) /\ reset
  <2>1. store' = [store EXCEPT ![c] = <<>> \o page] /\ synced' = (synced \/ c = cur')
      BY <1>0, <1>2 DEF LoadRecent
  <2>2. <<>> \o page = page
    <3>1. page \in Seq(Line)
        BY <1>0, LinesTyped
    <3> QED
        BY <3>1
  <2>3. Promised!Replace(c, rows)
      BY <2>1, <2>2, DrawnFact DEF Promised!Replace, page
  <2> QED
      BY <1>0, <2>3 DEF Follows, Promised!Next
<1>3. CASE ~ Stale(c, rows, reset, final, jump) /\ ~ reset
  <2>1. store' = [store EXCEPT ![c] = store[c] \o page] /\ UNCHANGED <<cur, synced>>
      BY <1>0, <1>3 DEF LoadRecent
  <2>2. Promised!Later(c, rows)
      BY <2>1, BecomesFact DEF Promised!Later, page
  <2> QED
      BY <1>0, <2>2 DEF Follows, Promised!Next
<1> QED
    BY <1>1, <1>2, <1>3

LEMMA PrependFollows ==
    ASSUME IInv, IInv', NEW c \in Channels, NEW rows \in Seq(TS), Increasing(rows),
           PrependOlder(c, rows), UNCHANGED <<cur, synced>>
    PROVE  Follows
<1> DEFINE s == store[c]
           new == OlderThanFirst(s, rows)
<1>0. s \in Seq(Line)
    BY DEF IInv, ListsTyped
<1>1. /\ new \in Seq(TS) /\ Increasing(new)
      /\ s # <<>> /\ ~ s[1].pending => \A i \in DOMAIN new : new[i] < s[1].ts
    BY <1>0, OlderThanFirstFact
<1>2. store' = [store EXCEPT ![c] = Lines(new) \o s]
    BY DEF PrependOlder
<1> HIDE DEF new
<1>3. new \in Promised!Pages /\ Lines(new) = Promised!Written(new)
    BY <1>1, PageFits
<1>4. Promised!Becomes(c, Promised!Written(new) \o s)
    BY <1>2, <1>3, BecomesFact
<1>5. Promised!Earlier(c, new)
    BY <1>1, <1>4 DEF Promised!Earlier
<1> QED
    BY <1>3, <1>5 DEF Follows, Promised!Next

LEMMA SendFollows == ASSUME IInv, IInv', SendMessage PROVE Follows
<1> DEFINE l == [ts |-> acts', pending |-> TRUE]
<1>1. cur \in Channels /\ acts' \in 1 .. MaxActs /\ AppendLine(cur, l)
    BY ActFact DEF IInv, ViewOK, SendMessage
<1>2. l = Promised!Sent(acts') /\ UNCHANGED <<cur, synced>>
    BY DEF SendMessage, Promised!Sent
<1> HIDE DEF l
<1>3. Promised!Becomes(cur, Append(store[cur], l))
    BY <1>1, <1>2, BecomesFact DEF AppendLine
<1>4. Promised!Send(cur)
    BY <1>1, <1>2, <1>3 DEF Promised!Send
<1> QED
    BY <1>1, <1>4 DEF Follows, Promised!Next

LEMMA UserFollows == ASSUME IInv, IInv', User PROVE Follows
<1>1. ASSUME NEW ch \in Channels, SelectChannel(ch) PROVE Follows
    BY <1>1, OpenFollows DEF SelectChannel
<1>2. ASSUME NEW ch \in Channels, MarkChannelRead(ch) PROVE Follows
    BY <1>2, StillFact DEF MarkChannelRead, lists, Follows
<1>3. ASSUME NEW ts \in DOMAIN at, OpenPermalink(ts) PROVE Follows
  <2>1. CASE at[ts] \in Joined
      BY <1>3, <2>1, OpenFollows, MessageFact DEF OpenPermalink
  <2>2. CASE at[ts] \notin Joined
      BY <1>3, <2>2, StillFact DEF OpenPermalink, Follows
  <2> QED
      BY <2>1, <2>2
<1>4. CASE RequestOlder
    BY <1>4, StillFact DEF RequestOlder, lists, Follows
<1>5. CASE SendMessage
    BY <1>5, SendFollows
<1> QED
    BY <1>1, <1>2, <1>3, <1>4, <1>5 DEF User

LEMMA TimersFollow ==
    ASSUME IInv, IInv', Timers \/ Resync \/ Disconnect PROVE Follows
BY StillFact DEF Timers, OlderTimeout, RetryFires, Redial, Resync, Disconnect, lists, Follows

LEMMA SlackFollows == ASSUME IInv, IInv', Slack PROVE Follows
<1>1. ASSUME NEW ch \in Channels, Post(ch) \/ SendPosts(ch) \/ SendFails(ch) PROVE Follows
    BY <1>1, StillFact DEF Post, SendPosts, SendFails, lists, Follows
<1>2. ASSUME NEW ts \in DOMAIN at, Edit(ts) PROVE Follows
    BY <1>2, StillFact, IngestFollows, MessageFact DEF Edit, lists, Follows
<1>3. ASSUME NEW ts \in DOMAIN at, Delete(ts) PROVE Follows
    BY <1>3, StillFact, DeleteFollows, MessageFact DEF Delete, lists, Follows
<1> QED
    BY <1>1, <1>2, <1>3 DEF Slack

LEMMA AnnounceFollows == ASSUME IInv, IInv', Announce PROVE Follows
<1> DEFINE fresh == {t \in cached \ dead : t > lastTS}
           ts == CHOOSE t \in fresh : \A u \in fresh : t <= u
<1>1. /\ fresh # {} /\ UNCHANGED <<cur, synced>>
      /\ IF up THEN Ingest(ts) ELSE UNCHANGED lists
    BY DEF Announce
<1>2. ts \in DOMAIN at
  <2>1. fresh \in SUBSET Nat
      BY MessageFact DEF IInv, SlackOK, TS
  <2>2. \E t \in fresh : \A u \in fresh : t <= u
    <3> HIDE DEF fresh
    <3> QED
        BY <1>1, <2>1, LeastExists
  <2>3. ts \in fresh
      BY <2>2
  <2> QED
      BY <2>3 DEF IInv, SlackOK
<1> HIDE DEF ts
<1> QED
    BY <1>1, <1>2, MessageFact, IngestFollows, StillFact DEF lists, Follows

LEMMA WriteRecentFollows ==
    ASSUME IInv, IInv', NEW q \in Reqs, WriteRecent(q) PROVE Follows
<1> DEFINE r == req[q]
           k == Least(Chunk, Len(r.rows))
           piece == SubSeq(r.rows, 1, k)
           rest == SubSeq(r.rows, k + 1, Len(r.rows))
<1>1. /\ IF r.live
         THEN LoadRecent(r.ch, piece, r.first, rest = <<>>, FALSE, cur, shown)
         ELSE UNCHANGED <<lists, mark, noMore, retry, synced>>
      /\ UNCHANGED cur
    BY DEF WriteRecent
<1>2. r \in Request /\ Fits(r)
    BY AnswersAll DEF IInv, AnswersOK
<1>3. /\ r.rows \in Seq(TS) /\ r.ch \in Channels /\ r.first \in BOOLEAN
      /\ Increasing(r.rows)
    BY <1>2 DEF Request, Fits
<1>4. piece \in Seq(TS) /\ Increasing(piece)
    BY <1>3, SplitFact, BoundsAssumption
<1> HIDE DEF r, piece, rest
<1>5. CASE ~ r.live
    BY <1>1, <1>5, StillFact DEF lists, Follows
<1>6. CASE r.live
  <2>1. LoadRecent(r.ch, piece, r.first, rest = <<>>, FALSE, cur', shown)
      BY <1>1, <1>6
  <2> QED
      BY <1>1, <1>3, <1>4, <2>1, LoadFollows
<1> QED
    BY <1>5, <1>6

LEMMA WriteJumpFollows ==
    ASSUME IInv, IInv', NEW q \in Reqs, WriteJump(q) PROVE Follows
<1> DEFINE r == req[q]
           adopt == r.live /\ r.ch # cur /\ r.ch \notin Joined
           on == IF adopt THEN <<>> ELSE shown
<1>1. /\ IF r.live
         THEN LoadRecent(r.ch, r.rows, TRUE, TRUE, TRUE, cur', on)
         ELSE UNCHANGED <<lists, mark, noMore, retry, synced>>
      /\ cur' = IF adopt THEN r.ch ELSE cur
    BY DEF WriteJump
<1>2. r \in Request /\ Fits(r)
    BY AnswersAll DEF IInv, AnswersOK
<1>3. r.rows \in Seq(TS) /\ r.ch \in Channels /\ Increasing(r.rows)
    BY <1>2 DEF Request, Fits
<1> HIDE DEF r, on
<1>4. CASE ~ r.live
    BY <1>1, <1>4, StillFact DEF lists, Follows
<1>5. CASE r.live
    BY <1>1, <1>3, <1>5, LoadFollows
<1> QED
    BY <1>4, <1>5

LEMMA WriteHistoryFollows ==
    ASSUME IInv, IInv', NEW q \in Reqs, WriteHistory(q) PROVE Follows
<1>1. /\ req[q].ch \in Channels /\ req[q].rows \in Seq(TS) /\ Increasing(req[q].rows)
    BY DEF IInv, AnswersOK, AnswersFit, Request
<1>2. CASE PrependOlder(req[q].ch, req[q].rows)
    BY <1>1, <1>2, PrependFollows DEF WriteHistory
<1>3. CASE UNCHANGED lists
    BY <1>3, StillFact DEF WriteHistory, lists, Follows
<1> QED
    BY <1>2, <1>3 DEF WriteHistory

LEMMA DaemonFollows ==
    ASSUME IInv, IInv', NEW q \in Reqs, Daemon(q) PROVE Follows
<1>1. CASE FetchRecent(q) \/ QueryRecent(q) \/ ReadHistory(q) \/ ReadJump(q)
    BY <1>1, StillFact DEF FetchRecent, QueryRecent, ReadHistory, ReadJump, lists, Follows
<1> QED
    BY <1>1, WriteRecentFollows, WriteHistoryFollows, WriteJumpFollows DEF Daemon

\* Every step of the UI and of the daemon is a step of OneList or shows nothing.
LEMMA StepSimulated == IInv /\ [Next]_vars => Follows
<1> SUFFICES ASSUME IInv, [Next]_vars PROVE Follows
    OBVIOUS
<1>1. IInv'
    BY EveryStep DEF Sound
<1>2. CASE UNCHANGED vars
    BY <1>1, <1>2, StillFact DEF vars, lists, Follows
<1>3. CASE Next
    BY <1>1, <1>3, UserFollows, TimersFollow, SlackFollows, DaemonFollows, AnnounceFollows
       DEF Next
<1> QED
    BY <1>2, <1>3

\* For any channels, messages, pieces, lost answers and lost connections the user
\* sees one list for each channel, changed one way at a time, and the screen is it
\* (Backend.qml, which keeps two copies and changes them in a dozen places).
THEOREM UserSeesOneList == Spec => ImplementsOneList
<1>1. Init => Promised!Init
    BY ChannelsAssumption DEF Init, Promised!Init
<1>2. IInv /\ [Next]_vars => [Promised!Next]_Seen
    BY StepSimulated DEF Follows
<1> QED
    BY <1>1, <1>2, Invariance, PTL DEF Spec, ImplementsOneList, Promised!Spec, Seen

=============================================================================
