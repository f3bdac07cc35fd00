------------------------- MODULE TerminalOutputProofs -------------------------
(***************************************************************************)
(* Proofs about TerminalOutput, for any number of sessions, streams,       *)
(* launches and chunks, and any size of the ring and of the channels: a    *)
(* stream is sent no chunk twice, none out of order and none missing that  *)
(* its channel had room for; the registry knows who is sent output; and    *)
(* nothing is sent on a closed channel.                                    *)
(***************************************************************************)
EXTENDS TerminalOutput, TLAPS, NaturalsInduction, WellFoundedInduction, SequenceTheorems

-----------------------------------------------------------------------------
(* What Filter returns.  Its recursive function exists, and a least        *)
(* position where a claim about it fails would have a predecessor.         *)

Grow(seq, keep, i, before) == IF seq[i] \in keep THEN Append(before, seq[i]) ELSE before
Loop(seq, keep, f) ==
  [i \in 0..Len(seq) |-> IF i = 0 THEN <<>> ELSE Grow(seq, keep, i, f[i - 1])]

(* A set of positions that holds 0 and is closed under successor up to n   *)
(* holds them all.                                                         *)
LEMMA UpTo ==
  ASSUME NEW n \in Nat, NEW P,
         0 \in P, \A i \in 1..n : i - 1 \in P => i \in P
  PROVE  \A i \in 0..n : i \in P
  <1> DEFINE B == {i \in 0..n : i \notin P}
  <1> SUFFICES ASSUME B # {} PROVE FALSE
    OBVIOUS
  <1>1. PICK m \in B : \A x \in B : ~(<<x, m>> \in OpToRel(<, Nat))
    <2>1. B \subseteq Nat
      OBVIOUS
    <2> QED BY <2>1, NatLessThanWellFounded, WFMin, Zenon
  <1>2. \A x \in B : ~(x < m)
    <2>1. \A x \in B : <<x, m>> \in Nat \X Nat
      OBVIOUS
    <2> QED BY <1>1, <2>1, Zenon DEF OpToRel
  <1>3. m \in 0..n /\ m \notin P
    OBVIOUS
  <1>4. m - 1 \in B
    BY <1>3
  <1> QED BY <1>2, <1>3, <1>4

(* A loop that has run to position n has run to every position: the       *)
(* function Filter chooses exists.                                         *)
LEMMA LoopExists ==
  ASSUME NEW seq, Len(seq) \in Nat, NEW keep
  PROVE  \E f : f = Loop(seq, keep, f)
  <1> DEFINE RunTo(n, g) == /\ g = [i \in 0..n |-> g[i]] /\ g[0] = <<>>
                            /\ \A i \in 1..n : g[i] = Grow(seq, keep, i, g[i - 1])
             P == {n \in Nat : \E g : RunTo(n, g)}
  <1>1. 0 \in P
    <2>1. RunTo(0, [i \in 0..0 |-> <<>>])
      OBVIOUS
    <2> QED BY <2>1, Zenon
  <1>2. ASSUME NEW n \in 1..Len(seq), n - 1 \in P PROVE n \in P
    <2>1. PICK g : RunTo(n - 1, g)
      BY <1>2
    <2> DEFINE h == [i \in 0..n |-> IF i = n THEN Grow(seq, keep, n, g[n - 1]) ELSE g[i]]
    <2>2. \A i \in 0..(n - 1) : h[i] = g[i]
      OBVIOUS
    <2>3. h[n] = Grow(seq, keep, n, g[n - 1]) /\ h = [i \in 0..n |-> h[i]]
      OBVIOUS
    <2> HIDE DEF h
    <2>4. ASSUME NEW i \in 1..n PROVE h[i] = Grow(seq, keep, i, h[i - 1])
      <3>1. i - 1 \in 0..(n - 1)
        OBVIOUS
      <3>2. h[i - 1] = g[i - 1]
        BY <2>2, <3>1, Zenon
      <3>3. CASE i = n
        BY <2>3, <3>2, <3>3
      <3>4. CASE i # n
        <4>1. i \in 1..(n - 1) /\ i \in 0..(n - 1)
          BY <3>4
        <4> QED BY <2>1, <2>2, <3>2, <4>1, Zenon
      <3> QED BY <3>3, <3>4
    <2>5. h[0] = <<>>
      BY <2>1, <2>2
    <2>6. RunTo(n, h)
      BY <2>3, <2>4, <2>5, Zenon
    <2> HIDE DEF RunTo
    <2> QED BY <2>6
  <1>3. Len(seq) \in P
    <2> HIDE DEF P
    <2>1. \A i \in 0..Len(seq) : i \in P
      BY <1>1, <1>2, UpTo, Zenon
    <2> QED BY <2>1
  <1>4. PICK g : RunTo(Len(seq), g)
    BY <1>3
  <1>5. g = Loop(seq, keep, g)
    BY <1>4 DEF Loop
  <1> QED BY <1>5

(* Filter is the last value of such a loop.                               *)
Filters(seq, keep, f) ==
  /\ Filter(seq, keep) = f[Len(seq)]
  /\ f[0] = <<>>
  /\ \A i \in 1..Len(seq) : f[i] = Grow(seq, keep, i, f[i - 1])

LEMMA FilterLoop ==
  ASSUME NEW seq, Len(seq) \in Nat, NEW keep
  PROVE  \E f : Filters(seq, keep, f)
  <1> DEFINE f == CHOOSE g : g = Loop(seq, keep, g)
  <1>1. f = Loop(seq, keep, f)
    BY LoopExists, Zenon
  <1>2. Filter(seq, keep) = f[Len(seq)]
    BY DEF Filter, Loop, Grow
  <1> HIDE DEF f
  <1>3. f[0] = <<>> /\ \A i \in 1..Len(seq) : f[i] = Grow(seq, keep, i, f[i - 1])
    BY <1>1 DEF Loop
  <1> QED BY <1>2, <1>3, Zenon DEF Filters

(* Appending an element to a sequence adds it to the elements.            *)
LEMMA AppendRange ==
  ASSUME NEW T, NEW g \in Seq(T), NEW x \in T
  PROVE  Range(Append(g, x)) = Range(g) \cup {x}
  <1> DEFINE h == Append(g, x)
  <1>1. DOMAIN h = DOMAIN g \cup {Len(g) + 1}
    OBVIOUS
  <1>2. h[Len(g) + 1] = x /\ \A i \in DOMAIN g : h[i] = g[i]
    OBVIOUS
  <1> HIDE DEF h
  <1>3. Range(h) = Range(g) \cup {x}
    BY <1>1, <1>2, Zenon DEF Range
  <1> QED BY <1>3 DEF h

(* A filtered sequence has the elements that are kept, and no other.       *)
LEMMA FilterElements ==
  ASSUME NEW T, NEW seq \in Seq(T), NEW keep
  PROVE  /\ Filter(seq, keep) \in Seq(T)
         /\ Range(Filter(seq, keep)) = Range(seq) \cap keep
  <1>0. PICK f : Filters(seq, keep, f)
    BY FilterLoop
  <1>1. /\ Filter(seq, keep) = f[Len(seq)]
        /\ f[0] = <<>>
        /\ \A i \in 1..Len(seq) : f[i] = Grow(seq, keep, i, f[i - 1])
    BY <1>0 DEF Filters
  <1> DEFINE To(i) == {seq[j] : j \in 1..i} \cap keep
             P == {i \in 0..Len(seq) : f[i] \in Seq(T) /\ Range(f[i]) = To(i)}
  <1>2. 0 \in P
    <2>1. 0 \in 0..Len(seq) /\ f[0] \in Seq(T) /\ DOMAIN f[0] = {} /\ 1..0 = {}
      BY <1>1
    <2>2. Range(f[0]) = {} /\ To(0) = {}
      BY <2>1, Zenon DEF Range
    <2> QED BY <2>1, <2>2, Zenon
  <1>3. \A i \in 1..Len(seq) : i - 1 \in P => i \in P
    <2> SUFFICES ASSUME NEW i \in 1..Len(seq), i - 1 \in P PROVE i \in P
      BY Zenon
    <2> DEFINE g == f[i - 1]
    <2>1. g \in Seq(T) /\ Range(g) = To(i - 1)
      BY Zenon
    <2>2. 1..i = 1..(i - 1) \cup {i} /\ seq[i] \in T /\ i \in 0..Len(seq)
      OBVIOUS
    <2>3. To(i) = To(i - 1) \cup ({seq[i]} \cap keep)
      BY <2>2, Zenon
    <2>4. f[i] = Grow(seq, keep, i, g)
      BY <1>1, Zenon
    <2> HIDE DEF g, To
    <2>5. f[i] \in Seq(T) /\ Range(f[i]) = To(i)
      <3>1. CASE seq[i] \in keep
        <4>1. f[i] = Append(g, seq[i])
          BY <2>4, <3>1, Zenon DEF Grow
        <4>2. f[i] \in Seq(T)
          BY <2>1, <2>2, <4>1
        <4>3. Range(f[i]) = Range(g) \cup {seq[i]}
          BY <2>1, <2>2, <4>1, AppendRange
        <4> QED BY <2>1, <2>3, <3>1, <4>2, <4>3, Zenon
      <3>2. CASE seq[i] \notin keep
        <4>1. f[i] = g
          BY <2>4, <3>2, Zenon DEF Grow
        <4> QED BY <2>1, <2>3, <3>2, <4>1, Zenon
      <3> QED BY <3>1, <3>2, Zenon
    <2> QED BY <2>2, <2>5, Zenon
  <1>4. Len(seq) \in P
    <2> HIDE DEF P
    <2>1. \A i \in 0..Len(seq) : i \in P
      BY <1>2, <1>3, UpTo, Len(seq) \in Nat, Zenon
    <2> QED BY <2>1
  <1>5. Range(seq) = {seq[j] : j \in 1..Len(seq)}
    BY DEF Range
  <1> QED BY <1>1, <1>4, <1>5, Zenon

(* The numbers from a up, n of them.                                       *)
Interval(a, n) == [i \in 1..n |-> a + i - 1]

(* An interval grows by its next number, and is a sequence.               *)
LEMMA GrowInterval ==
  ASSUME NEW a \in Int, NEW n \in Nat
  PROVE  /\ Interval(a, n) \in Seq(Int)
         /\ Len(Interval(a, n)) = n
         /\ Append(Interval(a, n), a + n) = Interval(a, n + 1)
  <1> DEFINE h == Interval(a, n)
  <1>1. h \in Seq(Int) /\ Len(h) = n /\ \A i \in 1..n : h[i] = a + i - 1
    BY DEF Interval
  <1> HIDE DEF h
  <1>2. Append(h, a + n) = [i \in 1..(n + 1) |-> a + i - 1]
    BY <1>1
  <1> QED BY <1>1, <1>2 DEF h, Interval

Counts(seq, a) == \A i \in DOMAIN seq : seq[i] = a + i - 1

(* Consecutive numbers stay so when the next one is appended, and when     *)
(* the oldest are cut off.                                                 *)
LEMMA AppendCounts ==
  ASSUME NEW M \in Nat, NEW c \in Seq(1..M), NEW a \in Nat, Counts(c, a),
         NEW q \in 1..M, q = a + Len(c)
  PROVE  Append(c, q) \in Seq(1..M) /\ Append(c, q) # <<>> /\ Counts(Append(c, q), a)
  <1> DEFINE e == Append(c, q)
  <1>1. e \in Seq(1..M) /\ DOMAIN e = 1..(Len(c) + 1) /\ e # <<>> /\ e[Len(c) + 1] = q
    <2>1. e \in Seq(1..M) /\ e # <<>> /\ Len(e) = Len(c) + 1 /\ e[Len(c) + 1] = q
      BY AppendProperties, Zenon
    <2> HIDE DEF e
    <2> QED BY <2>1
  <1>2. \A i \in 1..Len(c) : e[i] = c[i] /\ c[i] = a + i - 1
    BY DEF Counts
  <1> HIDE DEF e
  <1>3. ASSUME NEW i \in DOMAIN e PROVE e[i] = a + i - 1
    <2>1. i \in 1..Len(c) \/ i = Len(c) + 1
      BY <1>1
    <2>2. Len(c) \in Nat
      OBVIOUS
    <2> QED BY <1>1, <1>2, <2>1, <2>2
  <1> QED BY <1>1, <1>3 DEF Counts, e

LEMMA NewestCounts ==
  ASSUME NEW M \in Nat, NEW e \in Seq(1..M), e # <<>>, NEW a \in Nat \ {0}, Counts(e, a),
         NEW n \in Nat \ {0}
  PROVE  /\ Newest(e, n) \in Seq(1..M) /\ Newest(e, n) # <<>>
         /\ Newest(e, n)[Len(Newest(e, n))] = e[Len(e)]
         /\ \E b \in Nat \ {0} : Counts(Newest(e, n), b)
  <1>1. CASE ~(Len(e) > n)
    BY <1>1, Zenon DEF Newest
  <1>2. CASE Len(e) > n
    <2> DEFINE k == Len(e) - n
               d == SubSeq(e, Len(e) - n + 1, Len(e))
    <2>1. Newest(e, n) = d
      BY <1>2, Zenon DEF Newest
    <2>2. /\ Len(e) \in Nat /\ k \in Nat /\ Len(e) = n + k
          /\ Len(e) - n + 1 \in 1..(Len(e) + 1) /\ Len(e) \in (Len(e) - n)..Len(e)
      BY <1>2
    <2>3. d \in Seq(1..M) /\ Len(d) = n
      BY <2>2
    <2>4. ASSUME NEW i \in 1..n PROVE d[i] = e[k + i]
      BY <2>2
    <2> HIDE DEF d, k
    <2>5. DOMAIN d = 1..n /\ n \in 1..n /\ k + n = Len(e) /\ a + k \in Nat \ {0}
      BY <2>2, <2>3
    <2>6. ASSUME NEW i \in 1..n PROVE d[i] = a + k + i - 1
      <3>1. k + i \in DOMAIN e
        BY <2>2
      <3>2. e[k + i] = a + (k + i) - 1
        BY <3>1, Zenon DEF Counts
      <3> QED BY <2>2, <2>4, <3>2
    <2>7. Counts(d, a + k)
      BY <2>5, <2>6, Zenon DEF Counts
    <2>8. d # <<>> /\ d[Len(d)] = e[Len(e)]
      BY <2>2, <2>3, <2>4, <2>5
    <2> QED BY <2>1, <2>3, <2>5, <2>7, <2>8, Zenon
  <1> QED BY <1>1, <1>2

(* Keeping the numbers from a position on in a ring leaves the end of it.  *)
LEMMA FilterInterval ==
  ASSUME NEW M \in Nat, NEW seq \in Seq(1..M), NEW a \in Nat, Counts(seq, a),
         NEW from \in Nat, NEW b \in Nat,
         b \in {a, from}, b >= a, b >= from
  PROVE  Filter(seq, from..M) = Interval(b, a + Len(seq) - b)
  <1> DEFINE keep == from..M
             size == Len(seq)
  <1>1. size \in Nat /\ \A i \in 1..size : seq[i] = a + i - 1 /\ seq[i] \in 1..M
    BY DEF Counts
  <1>0. PICK f : Filters(seq, keep, f)
    BY <1>1, FilterLoop, Zenon
  <1>2. /\ Filter(seq, keep) = f[size]
        /\ f[0] = <<>>
        /\ \A i \in 1..size : f[i] = Grow(seq, keep, i, f[i - 1])
    BY <1>0, Zenon DEF Filters
  <1> HIDE DEF size
  <1> DEFINE P == {i \in 0..size : f[i] = Interval(b, a + i - b)}
  <1>3. \A n \in Int : n <= 0 => Interval(b, n) = <<>>
    BY DEF Interval
  <1>4. 0 \in P
    <2>1. 0 \in 0..size /\ a + 0 - b \in Int /\ a + 0 - b <= 0
      BY <1>1
    <2> QED BY <1>2, <1>3, <2>1, Zenon
  <1>5. ASSUME NEW i \in 1..size, i - 1 \in P PROVE i \in P
    <2> DEFINE n == a + i - b
    <2>1. n \in Int /\ a + (i - 1) - b = n - 1 /\ i \in 0..size
      BY <1>1
    <2>2. f[i - 1] = Interval(b, n - 1)
      <3>1. f[i - 1] = Interval(b, a + (i - 1) - b)
        BY <1>5, Zenon
      <3> HIDE DEF n
      <3> QED BY <2>1, <3>1, Zenon
    <2>3. f[i] = Grow(seq, keep, i, f[i - 1])
      BY <1>2, Zenon
    <2>4. seq[i] = b + n - 1 /\ seq[i] \in 1..M
      BY <1>1
    <2>5. n < 1 => seq[i] \notin keep
      BY <1>1
    <2>6. n >= 1 => seq[i] \in keep
      BY <1>1
    <2> HIDE DEF n
    <2>7. f[i] = Interval(b, n)
      <3>1. CASE n >= 1
        <4>1. f[i] = Append(f[i - 1], seq[i])
          BY <2>3, <2>6, <3>1, Zenon DEF Grow
        <4>2. n - 1 \in Nat /\ seq[i] = b + (n - 1) /\ (n - 1) + 1 = n /\ b \in Int
          BY <2>1, <2>4, <3>1
        <4>3. Append(Interval(b, n - 1), b + (n - 1)) = Interval(b, (n - 1) + 1)
          BY <4>2, GrowInterval, Zenon
        <4> QED BY <2>2, <4>1, <4>2, <4>3, Zenon
      <3>2. CASE n < 1
        <4>1. f[i] = f[i - 1]
          BY <2>3, <2>5, <3>2, Zenon DEF Grow
        <4>2. n <= 0 /\ n - 1 <= 0 /\ n - 1 \in Int
          BY <2>1, <3>2
        <4> QED BY <1>3, <2>1, <2>2, <4>1, <4>2, Zenon
      <3>3. n >= 1 \/ n < 1
        BY <2>1
      <3> QED BY <3>1, <3>2, <3>3, Zenon
    <2> QED BY <2>1, <2>7, Zenon DEF n
  <1>6. size \in P
    <2> HIDE DEF P
    <2>1. \A i \in 0..size : i \in P
      BY <1>1, <1>4, <1>5, UpTo, Zenon
    <2> QED BY <1>1, <2>1
  <1> QED BY <1>2, <1>6, Zenon DEF size

-----------------------------------------------------------------------------
(* The order lists the sessions that run, and the active one is of them;   *)
(* a run belongs to one session.                                           *)
GroupInv ==
  /\ \A s \in Sessions : run[s] <= launched
  /\ \A s, t \in Sessions : run[s] = run[t] /\ run[s] # 0 => s = t
  /\ Range(order) = {s \in Sessions : run[s] # 0}
  /\ order # <<>> => active \in Range(order)

(* A ring holds consecutive numbers, and a reader delivers the newest.     *)
RingOK(r) ==
  /\ \E a \in Nat \ {0} : Counts(chunks[r], a)
  /\ fanout[r].to # {} => fanout[r].seq = NextSeq(r) - 1 /\ chunks[r] # <<>>

(* A stream that did not attach is known to nobody.                        *)
IdleOK(u) ==
  sub[u].pc = "idle" =>
    /\ sub[u] = NoStream
    /\ u \notin registry \cup leaving
    /\ \A r \in Runs : u \notin fanout[r].to

(* What a stream was sent is older than what is on its way to it.          *)
SentOK(u) ==
  \A r \in Runs : \A i \in DOMAIN Sent(u) :
    Sent(u)[i][1] = r =>
      /\ Sent(u)[i][2] < NextSeq(r)
      /\ u \in fanout[r].to => Sent(u)[i][2] < fanout[r].seq

Steady(u) == sub[u].steady /\ ~sub[u].closed /\ sub[u].pc = "reading"

(* The newest chunk of run r that stream u was sent, if it follows r.      *)
Reached(u, r) == IF u \in fanout[r].to THEN fanout[r].seq - 1 ELSE NextSeq(r) - 1

(* A steady stream follows the active session, and no other one has        *)
(* anything for it.                                                        *)
SteadyOK(u) ==
  Steady(u) =>
    /\ u \in registry
    /\ order # <<>> /\ run[active] = sub[u].home
    /\ \A r \in Runs : u \in fanout[r].to => r = sub[u].home
    /\ sub[u].first <= Reached(u, sub[u].home) + 1

(* StreamsAreExact, one stream at a time.                                  *)
Ordered(u) ==
  \A i, j \in DOMAIN Sent(u) :
     i < j /\ Sent(u)[i][1] = Sent(u)[j][1] => Sent(u)[i][2] < Sent(u)[j][2]

(* The chunks of run r from number a up, n of them.                        *)
Chunks(r, a, n) == [i \in 1..n |-> <<r, a + i - 1>>]

Gapless(u) ==
  Steady(u) =>
    Sent(u) = Chunks(sub[u].home, sub[u].first, Reached(u, sub[u].home) - sub[u].first + 1)

Registered(u) ==
  /\ sub[u].pc = "reading" /\ ~sub[u].closed => u \in registry \cup leaving
  /\ sub[u].pc = "done" => u \notin registry

StreamOK(u) ==
  IdleOK(u) /\ SentOK(u) /\ SteadyOK(u) /\ Ordered(u) /\ Gapless(u) /\ Registered(u)

OutputInv ==
  /\ TypeOK /\ GroupInv
  /\ \A r \in Runs : RingOK(r)
  /\ \A u \in Subs : StreamOK(u)

(* The invariant has the property.                                        *)
LEMMA InvIsExact == OutputInv => StreamsAreExact
  <1> SUFFICES ASSUME OutputInv PROVE StreamsAreExact
    OBVIOUS
  <1>1. InOrder
    BY Zenon DEF OutputInv, StreamOK, Ordered, InOrder
  <1>2. NoGap
    BY Zenon DEF OutputInv, StreamOK, Gapless, Chunks, Steady, Reached, NoGap
  <1>3. RegistryIsExact
    BY Zenon DEF OutputInv, StreamOK, Registered, RegistryIsExact
  <1> QED BY <1>1, <1>2, <1>3 DEF StreamsAreExact

-----------------------------------------------------------------------------
(* What a stream was sent are chunks.                                      *)
LEMMA SentType ==
  ASSUME TypeOK, NEW u \in Subs
  PROVE  /\ Sent(u) \in Seq(Chunk)
         /\ \A i \in DOMAIN Sent(u) : Sent(u)[i][1] \in Runs /\ Sent(u)[i][2] \in Nat
  <1>1. sub[u].got \in Seq(Chunk) /\ sub[u].buf \in Seq(Chunk)
    BY DEF TypeOK, Streams
  <1>2. Sent(u) \in Seq(Chunk)
    BY <1>1 DEF Sent
  <1>3. ASSUME NEW i \in DOMAIN Sent(u) PROVE Sent(u)[i] \in Chunk
    BY <1>2
  <1>4. \A c \in Chunk : c[1] \in Runs /\ c[2] \in Nat
    BY OutputAssumption DEF Chunk
  <1> QED BY <1>2, <1>3, <1>4, Zenon

(* The number of the next chunk of a run.                                 *)
LEMMA NextSeqType ==
  ASSUME TypeOK, NEW r \in Runs
  PROVE  /\ NextSeq(r) \in Nat \ {0} /\ NextSeq(r) <= MaxChunks + 1
         /\ chunks[r] = <<>> => NextSeq(r) = 1
         /\ \A a : Counts(chunks[r], a) /\ a \in Nat /\ chunks[r] # <<>>
                => NextSeq(r) = a + Len(chunks[r])
  <1> DEFINE c == chunks[r]
  <1>1. c \in Seq(1..MaxChunks) /\ MaxChunks \in Nat
    BY OutputAssumption DEF TypeOK
  <1>2. NextSeq(r) = IF c = <<>> THEN 1 ELSE c[Len(c)] + 1
    BY DEF NextSeq, Last
  <1> HIDE DEF c
  <1>3. c # <<>> => Len(c) \in DOMAIN c /\ c[Len(c)] \in 1..MaxChunks /\ Len(c) \in Nat
    BY <1>1
  <1>4. NextSeq(r) \in Nat \ {0} /\ NextSeq(r) <= MaxChunks + 1
    BY <1>1, <1>2, <1>3
  <1>5. ASSUME NEW a \in Nat, Counts(c, a), c # <<>> PROVE NextSeq(r) = a + Len(c)
    BY <1>2, <1>3, <1>5 DEF Counts
  <1> QED BY <1>2, <1>4, <1>5 DEF c

(* The ring after one more chunk: it is not empty, still consecutive, and  *)
(* ends with it.                                                           *)
LEMMA RingGrows ==
  ASSUME TypeOK, NEW r \in Runs, RingOK(r), NextSeq(r) <= MaxChunks,
         NEW d, d = Newest(Append(chunks[r], NextSeq(r)), Ring)
  PROVE  /\ d \in Seq(1..MaxChunks) /\ d # <<>> /\ d[Len(d)] = NextSeq(r)
         /\ \E a \in Nat \ {0} : Counts(d, a)
  <1> DEFINE c == chunks[r]
             q == NextSeq(r)
  <1>1. c \in Seq(1..MaxChunks) /\ MaxChunks \in Nat /\ Ring \in Nat \ {0} /\ q \in 1..MaxChunks
    BY OutputAssumption, NextSeqType DEF TypeOK
  <1>2. \E a \in Nat \ {0} : Counts(c, a) /\ q = a + Len(c)
    <2>1. CASE c = <<>>
      <3>1. Counts(c, 1) /\ q = 1 + Len(c)
        BY <2>1, NextSeqType DEF Counts
      <3> QED BY <3>1
    <2>2. CASE c # <<>>
      BY <2>2, NextSeqType, Zenon DEF RingOK
    <2> QED BY <2>1, <2>2
  <1>3. PICK a \in Nat \ {0} : Counts(c, a) /\ q = a + Len(c)
    BY <1>2
  <1> HIDE DEF c, q
  <1> DEFINE e == Append(c, q)
  <1>4. e \in Seq(1..MaxChunks) /\ e # <<>> /\ Counts(e, a)
    BY <1>1, <1>3, AppendCounts, Zenon
  <1>5. e[Len(e)] = q
    BY <1>1
  <1>6. d = Newest(e, Ring)
    BY DEF c, q
  <1> HIDE DEF e
  <1>7. /\ Newest(e, Ring) \in Seq(1..MaxChunks) /\ Newest(e, Ring) # <<>>
        /\ Newest(e, Ring)[Len(Newest(e, Ring))] = e[Len(e)]
        /\ \E b \in Nat \ {0} : Counts(Newest(e, Ring), b)
    BY <1>1, <1>4, NewestCounts
  <1> QED BY <1>5, <1>6, <1>7, Zenon DEF q

-----------------------------------------------------------------------------
(* What is in reach of a stream: the rings, and the readers' lists as far  *)
(* as the stream is in them.                                               *)
SameReach(u) ==
  /\ \A r \in Runs : NextSeq(r)' = NextSeq(r)
  /\ \A r \in Runs : u \in fanout'[r].to => u \in fanout[r].to
  /\ \A r \in Runs : u \in fanout'[r].to => fanout'[r].seq = fanout[r].seq

(* A steady stream stays steady only in a group that stays as it is for it. *)
SameGroup(u) ==
  Steady(u)' =>
    /\ Steady(u)
    /\ sub'[u].home = sub[u].home /\ sub'[u].first = sub[u].first
    /\ \A r \in Runs : u \in fanout[r].to => u \in fanout'[r].to
    /\ u \in registry => u \in registry'
    /\ order # <<>> => order' # <<>> /\ run'[active'] = run[active]

(* A stream that is sent nothing by a step is as sound after it.          *)
LEMMA StreamKept ==
  ASSUME NEW u \in Subs, TypeOK, StreamOK(u), Sent(u)' = Sent(u),
         SameReach(u), SameGroup(u), IdleOK(u)', Registered(u)',
         Steady(u) => sub[u].home \in Runs
  PROVE  StreamOK(u)'
  <1>1. SentOK(u)'
    BY Zenon DEF StreamOK, SentOK, SameReach
  <1>2. Ordered(u)'
    BY Zenon DEF StreamOK, Ordered
  <1>3. ASSUME Steady(u)' PROVE Reached(u, sub[u].home)' = Reached(u, sub[u].home)
    BY <1>3, Zenon DEF Reached, SameReach, SameGroup
  <1>4. SteadyOK(u)'
    BY <1>3, Zenon DEF StreamOK, SteadyOK, SameReach, SameGroup
  <1>5. Gapless(u)'
    BY <1>3, Zenon DEF StreamOK, Gapless, SameGroup
  <1> QED BY <1>1, <1>2, <1>4, <1>5, Zenon DEF StreamOK

(* A steady stream follows a run.                                          *)
LEMMA HomeIsRun ==
  ASSUME OutputInv, NEW u \in Subs, Steady(u)
  PROVE  sub[u].home \in Runs /\ run[active] = sub[u].home /\ u \in registry
         /\ active \in Sessions /\ order # <<>>
  <1>1. order # <<>> /\ run[active] = sub[u].home /\ u \in registry
    BY Zenon DEF OutputInv, StreamOK, SteadyOK
  <1>2. active \in Sessions /\ run[active] # 0
    BY <1>1, Zenon DEF OutputInv, GroupInv
  <1>3. run \in [Sessions -> 0..MaxRuns] /\ MaxRuns \in Nat
    BY OutputAssumption DEF OutputInv, TypeOK
  <1>4. run[active] \in Runs
    BY <1>2, <1>3 DEF Runs
  <1> QED BY <1>1, <1>2, <1>4

(* What unsettling leaves alone.                                           *)
LEMMA UnsettledFields ==
  ASSUME TypeOK, NEW us, NEW u \in Subs
  PROVE  /\ Unsettled(us)[u] \in Streams
         /\ u \notin us => Unsettled(us)[u] = sub[u]
         /\ u \in us => Unsettled(us)[u].steady = FALSE
         /\ Unsettled(us)[u].pc = sub[u].pc /\ Unsettled(us)[u].closed = sub[u].closed
         /\ Unsettled(us)[u].got = sub[u].got /\ Unsettled(us)[u].buf = sub[u].buf
  <1> DEFINE w == [sub[u] EXCEPT !.steady = FALSE]
  <1>1. Unsettled(us)[u] = IF u \in us THEN w ELSE sub[u]
    BY DEF Unsettled
  <1>2. sub[u] \in Streams
    BY DEF TypeOK
  <1>3. /\ w \in Streams /\ w.steady = FALSE /\ w.pc = sub[u].pc /\ w.closed = sub[u].closed
        /\ w.got = sub[u].got /\ w.buf = sub[u].buf
    BY <1>2, Zenon DEF Streams
  <1> HIDE DEF w
  <1> QED BY <1>1, <1>2, <1>3, Zenon

LEMMA UnsettledType ==
  ASSUME TypeOK, NEW us
  PROVE  Unsettled(us) \in [Subs -> Streams]
  <1>1. \A u \in Subs : Unsettled(us)[u] \in Streams
    BY UnsettledFields, Zenon
  <1>2. Unsettled(us) = [u \in Subs |-> Unsettled(us)[u]]
    BY Zenon DEF Unsettled
  <1> QED BY <1>1, <1>2, Zenon

(* A step that leaves the rings and the readers alone.                     *)
LEMMA SameRings ==
  ASSUME OutputInv, UNCHANGED <<chunks, fanout>>
  PROVE  /\ \A r \in Runs : RingOK(r)'
         /\ \A u \in Subs : SameReach(u)
  <1>1. chunks' = chunks /\ fanout' = fanout
    OBVIOUS
  <1>2. ASSUME NEW r \in Runs PROVE NextSeq(r)' = NextSeq(r)
    BY <1>1, Zenon DEF NextSeq
  <1>3. ASSUME NEW r \in Runs PROVE RingOK(r)'
    BY <1>1, <1>2, Zenon DEF OutputInv, RingOK
  <1>4. ASSUME NEW u \in Subs PROVE SameReach(u)
    BY <1>1, <1>2, Zenon DEF SameReach
  <1> QED BY <1>3, <1>4, Zenon

(* A step that moves the focus, or removes the group, unsettles the        *)
(* streams it had; one that removes another session leaves them alone.     *)
LEMMA Refocused ==
  ASSUME OutputInv, TypeOK', GroupInv', UNCHANGED <<chunks, fanout>>,
         registry' \subseteq registry, registry' \cup leaving' = registry \cup leaving,
         \/ sub' = Unsettled(registry)
         \/ /\ sub' = sub /\ registry' = registry
            /\ order' # <<>> /\ run'[active'] = run[active]
  PROVE  OutputInv'
  <1>1. (\A r \in Runs : RingOK(r)') /\ \A u \in Subs : SameReach(u)
    BY SameRings
  <1>2. ASSUME NEW u \in Subs PROVE StreamOK(u)'
    <2> DEFINE v == sub[u]
               w == sub'[u]
    <2>0. TypeOK /\ StreamOK(u)
      BY Zenon DEF OutputInv
    <2>1. /\ w.pc = v.pc /\ w.closed = v.closed /\ w.got = v.got /\ w.buf = v.buf
          /\ u \notin registry => w = v
      <3>1. CASE sub' = Unsettled(registry)
        <4>1. w = Unsettled(registry)[u]
          BY <3>1
        <4> HIDE DEF w
        <4> QED BY <2>0, <4>1, UnsettledFields, Zenon
      <3>2. CASE sub' = sub
        BY <3>2
      <3> QED BY <3>1, <3>2
    <2>2. Sent(u)' = Sent(u)
      BY <2>1, Zenon DEF Sent
    <2>3. SameGroup(u)
      <3>1. CASE sub' = Unsettled(registry)
        <4>1. u \in registry => ~Steady(u)'
          BY <2>0, <3>1, UnsettledFields, Zenon DEF Steady
        <4>2. u \notin registry => (Steady(u)' => Steady(u))
          BY <2>1, Zenon DEF Steady
        <4>3. ~Steady(u)'
          BY <4>1, <4>2, HomeIsRun, Zenon
        <4> QED BY <4>3, Zenon DEF SameGroup
      <3>2. CASE sub' = sub /\ registry' = registry /\ order' # <<>> /\ run'[active'] = run[active]
        <4>1. fanout' = fanout
          OBVIOUS
        <4> QED BY <3>2, <4>1, Zenon DEF SameGroup, Steady
      <3> QED BY <3>1, <3>2
    <2>4. IdleOK(u)' /\ Registered(u)'
      <3>1. IdleOK(u) /\ Registered(u)
        BY <2>0 DEF StreamOK
      <3>2. fanout' = fanout
        OBVIOUS
      <3>3. IdleOK(u)'
        BY <2>1, <3>1, <3>2, Zenon DEF IdleOK
      <3>4. Registered(u)'
        BY <2>1, <3>1, Zenon DEF Registered
      <3> QED BY <3>3, <3>4
    <2>5. Steady(u) => sub[u].home \in Runs
      BY HomeIsRun, Zenon
    <2> QED BY <1>1, <2>0, <2>2, <2>3, <2>4, <2>5, StreamKept, Zenon
  <1> QED BY <1>1, <1>2, Zenon DEF OutputInv

(* CreateSession and StartSession.                                         *)
LEMMA InstallKeeps ==
  ASSUME OutputInv, NEW s \in Sessions, Install(s)
  PROVE  OutputInv'
  <1>1. TypeOK /\ GroupInv
    BY DEF OutputInv
  <1>2. run \in [Sessions -> 0..MaxRuns] /\ launched \in 0..MaxRuns /\ order \in Seq(Sessions)
    BY <1>1 DEF TypeOK
  <1>3. /\ run[s] = 0 /\ launched < MaxRuns /\ launched' = launched + 1
        /\ run' = [run EXCEPT ![s] = launched + 1] /\ order' = Append(order, s) /\ active' = s
        /\ sub' = Unsettled(registry)
        /\ UNCHANGED <<chunks, fanout, exited, registry, leaving>>
    BY DEF Install
  <1>4. MaxRuns \in Nat
    BY OutputAssumption
  <1>5. launched' \in 0..MaxRuns /\ run' \in [Sessions -> 0..MaxRuns]
    BY <1>2, <1>3, <1>4
  <1>6. order' \in Seq(Sessions) /\ order' # <<>> /\ Range(order') = Range(order) \cup {s}
    <2>1. order' \in Seq(Sessions) /\ order' # <<>>
      BY <1>2, <1>3
    <2> QED BY <1>2, <1>3, <2>1, AppendRange
  <1>7. TypeOK'
    <2>1. sub' \in [Subs -> Streams]
      BY <1>1, <1>3, UnsettledType, Zenon
    <2> QED BY <1>1, <1>3, <1>5, <1>6, <2>1 DEF TypeOK
  <1>8. GroupInv'
    <2>1. run'[s] = launched + 1 /\ launched + 1 # 0 /\ \A t \in Sessions : t # s => run'[t] = run[t]
      BY <1>2, <1>3
    <2>2. \A t \in Sessions : run[t] <= launched /\ run[t] # launched + 1 /\ run[t] <= launched + 1
      BY <1>1, <1>2 DEF GroupInv
    <2>3. \A t \in Sessions : run'[t] <= launched'
      BY <1>2, <1>3, <2>1, <2>2
    <2>4. \A t, x \in Sessions : run'[t] = run'[x] /\ run'[t] # 0 => t = x
      BY <1>1, <2>1, <2>2, Zenon DEF GroupInv
    <2>5. Range(order') = {t \in Sessions : run'[t] # 0}
      BY <1>1, <1>6, <2>1, Zenon DEF GroupInv
    <2>6. active' \in Range(order')
      BY <1>3, <1>6
    <2> QED BY <2>3, <2>4, <2>5, <2>6, Zenon DEF GroupInv
  <1> QED BY <1>3, <1>7, <1>8, Refocused

LEMMA SetActiveKeeps ==
  ASSUME OutputInv, NEW s \in Sessions, SetActiveSession(s)
  PROVE  OutputInv'
  <1>1. TypeOK /\ GroupInv
    BY DEF OutputInv
  <1>2. /\ run[s] # 0 /\ active' = s /\ sub' = Unsettled(registry)
        /\ UNCHANGED <<run, order, launched, chunks, fanout, exited, registry, leaving>>
    BY DEF SetActiveSession
  <1>3. sub' \in [Subs -> Streams]
    BY <1>1, <1>2, UnsettledType, Zenon
  <1>4. TypeOK'
    BY <1>1, <1>2, <1>3 DEF TypeOK
  <1>5. GroupInv'
    <2>1. s \in Range(order)
      BY <1>1, <1>2, Zenon DEF GroupInv
    <2> QED BY <1>1, <1>2, <2>1 DEF GroupInv
  <1> QED BY <1>2, <1>4, <1>5, Refocused

LEMMA CloseSessionKeeps ==
  ASSUME OutputInv, CloseSession
  PROVE  OutputInv'
  <1>1. TypeOK /\ GroupInv
    BY DEF OutputInv
  <1>2. /\ run' = [s \in Sessions |-> 0] /\ order' = <<>> /\ active' = None
        /\ leaving' = leaving \cup registry /\ registry' = {} /\ sub' = Unsettled(registry)
        /\ UNCHANGED <<launched, chunks, fanout, exited>>
    BY DEF CloseSession
  <1>3. sub' \in [Subs -> Streams]
    BY <1>1, <1>2, UnsettledType, Zenon
  <1>4. run' \in [Sessions -> 0..MaxRuns]
    BY <1>2, OutputAssumption
  <1>5. TypeOK'
    BY <1>1, <1>2, <1>3, <1>4 DEF TypeOK
  <1>6. GroupInv'
    <2>1. Range(order') = {}
      <3>1. DOMAIN order' = {}
        BY <1>2
      <3> QED BY <3>1, Zenon DEF Range
    <2>2. \A s \in Sessions : run'[s] = 0 /\ 0 <= launched'
      BY <1>1, <1>2, OutputAssumption DEF TypeOK
    <2> QED BY <1>2, <2>1, <2>2, Zenon DEF GroupInv
  <1>7. registry' \subseteq registry /\ registry' \cup leaving' = registry \cup leaving
    BY <1>2
  <1> QED BY <1>2, <1>5, <1>6, <1>7, Refocused

LEMMA CloseWidgetKeeps ==
  ASSUME OutputInv, NEW s \in Sessions, CloseWidgetSession(s)
  PROVE  OutputInv'
  <1> DEFINE rest == Filter(order, Sessions \ {s})
  <1>1. TypeOK /\ GroupInv
    BY DEF OutputInv
  <1>2. /\ run[s] # 0 /\ run' = [run EXCEPT ![s] = 0] /\ order' = rest
        /\ active' = IF active # s THEN active ELSE IF rest = <<>> THEN None ELSE Last(rest)
        /\ IF rest = <<>> THEN leaving' = leaving \cup registry /\ registry' = {}
                          ELSE UNCHANGED <<leaving, registry>>
        /\ sub' = IF active = s THEN Unsettled(registry) ELSE sub
        /\ UNCHANGED <<launched, chunks, fanout, exited>>
    BY DEF CloseWidgetSession
  <1>3. order \in Seq(Sessions) /\ run \in [Sessions -> 0..MaxRuns] /\ 0 \in 0..MaxRuns
    BY <1>1, OutputAssumption DEF TypeOK
  <1>4. rest \in Seq(Sessions) /\ Range(rest) = Range(order) \cap (Sessions \ {s})
    BY <1>3, FilterElements, Zenon
  <1> HIDE DEF rest
  <1>5. rest # <<>> => Last(rest) \in Range(rest) /\ Last(rest) \in Sessions
    <2>1. rest # <<>> => Len(rest) \in DOMAIN rest /\ rest[Len(rest)] \in Sessions
      BY <1>4
    <2> QED BY <2>1, Zenon DEF Last, Range
  <1>6. Range(order) = {t \in Sessions : run[t] # 0} /\ (order # <<>> => active \in Range(order))
    BY <1>1 DEF GroupInv
  <1>7. order # <<>>
    <2>1. s \in Range(order)
      BY <1>2, <1>6, Zenon
    <2>2. order = <<>> => DOMAIN order = {}
      OBVIOUS
    <2> QED BY <2>1, <2>2, Zenon DEF Range
  <1>8. active # s => active \in Range(rest) /\ rest # <<>>
    <2>1. active # s => active \in Range(rest)
      BY <1>4, <1>6, <1>7, Zenon
    <2>2. rest = <<>> => DOMAIN rest = {}
      OBVIOUS
    <2> QED BY <2>1, <2>2, Zenon DEF Range
  <1>9. run' \in [Sessions -> 0..MaxRuns] /\ run'[s] = 0 /\ \A t \in Sessions : t # s => run'[t] = run[t]
    BY <1>2, <1>3
  <1>10. TypeOK'
    <2>1. sub' \in [Subs -> Streams]
      BY <1>1, <1>2, UnsettledType, Zenon DEF TypeOK
    <2>2. active' \in Sessions \cup {None}
      BY <1>1, <1>2, <1>5, Zenon DEF TypeOK
    <2>3. registry' \subseteq Subs /\ leaving' \subseteq Subs
      BY <1>1, <1>2 DEF TypeOK
    <2> QED BY <1>1, <1>2, <1>4, <1>9, <2>1, <2>2, <2>3 DEF TypeOK
  <1>11. GroupInv'
    <2>1. \A t \in Sessions : run'[t] <= launched'
      BY <1>1, <1>2, <1>9, OutputAssumption DEF GroupInv, TypeOK
    <2>2. \A t, x \in Sessions : run'[t] = run'[x] /\ run'[t] # 0 => t = x
      BY <1>1, <1>9, Zenon DEF GroupInv
    <2>3. Range(order') = {t \in Sessions : run'[t] # 0}
      BY <1>2, <1>4, <1>6, <1>9, Zenon
    <2>4. order' # <<>> => active' \in Range(order')
      BY <1>2, <1>5, <1>8, Zenon
    <2> QED BY <2>1, <2>2, <2>3, <2>4, Zenon DEF GroupInv
  <1>12. registry' \subseteq registry /\ registry' \cup leaving' = registry \cup leaving
    BY <1>2
  <1>13. \/ sub' = Unsettled(registry)
         \/ /\ sub' = sub /\ registry' = registry
            /\ order' # <<>> /\ run'[active'] = run[active]
    <2>1. CASE active = s
      BY <1>2, <2>1, Zenon
    <2>2. CASE active # s
      <3>1. active \in Sessions
        BY <1>6, <1>7, Zenon
      <3> QED BY <1>2, <1>8, <1>9, <2>2, <3>1, Zenon
    <2> QED BY <2>1, <2>2
  <1>14. UNCHANGED <<chunks, fanout>>
    BY <1>2
  <1> QED BY <1>10, <1>11, <1>12, <1>13, <1>14, Refocused

-----------------------------------------------------------------------------
(* A step of one stream leaves the others as sound as they are.            *)
OnlyStream(u) ==
  /\ UNCHANGED <<groupVars, chunks>>
  /\ \A v \in Subs : v # u =>
       /\ sub'[v] = sub[v]
       /\ v \in registry' <=> v \in registry
       /\ v \in leaving' <=> v \in leaving
       /\ \A r \in Runs : v \in fanout'[r].to <=> v \in fanout[r].to
  /\ \A r \in Runs : fanout'[r].seq = fanout[r].seq /\ fanout'[r].to \subseteq fanout[r].to

LEMMA OthersKept ==
  ASSUME OutputInv, NEW u \in Subs, OnlyStream(u), TypeOK', StreamOK(u)'
  PROVE  OutputInv'
  <1>1. chunks' = chunks /\ run' = run /\ order' = order /\ active' = active /\ launched' = launched
    BY DEF OnlyStream, groupVars
  <1>2. \A r \in Runs : fanout'[r].seq = fanout[r].seq /\ fanout'[r].to \subseteq fanout[r].to
    BY DEF OnlyStream
  <1>3. GroupInv'
    BY <1>1 DEF OutputInv, GroupInv
  <1>4. ASSUME NEW r \in Runs PROVE NextSeq(r)' = NextSeq(r)
    BY <1>1, Zenon DEF NextSeq
  <1>5. ASSUME NEW r \in Runs PROVE RingOK(r)'
    <2>1. RingOK(r)
      BY DEF OutputInv
    <2> QED BY <1>1, <1>2, <1>4, <2>1, Zenon DEF RingOK
  <1>6. ASSUME NEW v \in Subs, v # u PROVE StreamOK(v)'
    <2>1. /\ sub'[v] = sub[v] /\ (v \in registry' <=> v \in registry)
          /\ v \in leaving' <=> v \in leaving
          /\ \A r \in Runs : v \in fanout'[r].to <=> v \in fanout[r].to
      BY <1>6, Zenon DEF OnlyStream
    <2>2. TypeOK /\ StreamOK(v) /\ IdleOK(v) /\ Registered(v)
      BY Zenon DEF OutputInv, StreamOK
    <2>3. Sent(v)' = Sent(v) /\ (Steady(v)' => Steady(v))
      BY <2>1, Zenon DEF Sent, Steady
    <2>4. SameReach(v)
      BY <1>2, <1>4, <2>1, Zenon DEF SameReach
    <2>5. SameGroup(v)
      BY <1>1, <2>1, <2>3, Zenon DEF SameGroup
    <2>6. IdleOK(v)' /\ Registered(v)'
      BY <2>1, <2>2, Zenon DEF IdleOK, Registered
    <2>7. Steady(v) => sub[v].home \in Runs
      BY HomeIsRun, Zenon
    <2> QED BY <2>2, <2>3, <2>4, <2>5, <2>6, <2>7, StreamKept, Zenon
  <1> QED BY <1>3, <1>5, <1>6, Zenon DEF OutputInv

(* A step that sends stream u nothing and leaves the group alone.          *)
LEMMA SameStream ==
  ASSUME OutputInv, NEW u \in Subs, OnlyStream(u), TypeOK', Sent(u)' = Sent(u),
         Steady(u)' =>
           /\ Steady(u)
           /\ sub'[u].home = sub[u].home /\ sub'[u].first = sub[u].first
           /\ u \in registry => u \in registry'
           /\ \A r \in Runs : u \in fanout[r].to => u \in fanout'[r].to,
         IdleOK(u)', Registered(u)'
  PROVE  OutputInv'
  <1>1. chunks' = chunks /\ run' = run /\ order' = order /\ active' = active
    BY DEF OnlyStream, groupVars
  <1>2. \A r \in Runs : fanout'[r].seq = fanout[r].seq /\ fanout'[r].to \subseteq fanout[r].to
    BY DEF OnlyStream
  <1>3. ASSUME NEW r \in Runs PROVE NextSeq(r)' = NextSeq(r)
    BY <1>1, Zenon DEF NextSeq
  <1>4. SameReach(u)
    BY <1>2, <1>3, Zenon DEF SameReach
  <1>5. SameGroup(u)
    BY <1>1, Zenon DEF SameGroup
  <1>6. Steady(u) => sub[u].home \in Runs
    BY HomeIsRun, Zenon
  <1>7. TypeOK /\ StreamOK(u)
    BY Zenon DEF OutputInv
  <1>8. StreamOK(u)'
    BY <1>4, <1>5, <1>6, <1>7, StreamKept, Zenon
  <1> QED BY <1>8, OthersKept, Zenon

(* A stream that stops reading, or whose channel is closed.                *)
LEMMA StreamStops ==
  ASSUME OutputInv, NEW u \in Subs, NEW w \in Streams, sub' = [sub EXCEPT ![u] = w],
         w.got = sub[u].got, w.buf = sub[u].buf,
         w.closed = TRUE \/ w.pc # "reading",
         w.pc = "idle" => w = sub[u] /\ sub[u].pc = "idle",
         UNCHANGED <<groupVars, chunks, fanout, exited>>,
         registry' = registry \/ registry' = registry \ {u},
         leaving' = leaving \/ leaving' = leaving \ {u},
         w.pc = "done" => u \notin registry'
  PROVE  OutputInv'
  <1>1. TypeOK /\ StreamOK(u)
    BY Zenon DEF OutputInv
  <1>2. sub \in [Subs -> Streams]
    BY <1>1 DEF TypeOK
  <1>3. sub' \in [Subs -> Streams] /\ sub'[u] = w /\ \A v \in Subs : v # u => sub'[v] = sub[v]
    BY <1>2
  <1>4. TypeOK'
    BY <1>1, <1>3 DEF TypeOK, groupVars
  <1>5. OnlyStream(u)
    BY <1>3, Zenon DEF OnlyStream
  <1>6. Sent(u)' = Sent(u) /\ ~Steady(u)'
    BY <1>3, Zenon DEF Sent, Steady
  <1>7. IdleOK(u)'
    <2>1. IdleOK(u) /\ fanout' = fanout
      BY <1>1 DEF StreamOK
    <2> QED BY <1>3, <2>1, Zenon DEF IdleOK
  <1>8. Registered(u)'
    BY <1>3, Zenon DEF Registered
  <1> QED BY <1>4, <1>5, <1>6, <1>7, <1>8, SameStream, Zenon

(* closeGroupSubscribers, the end of a stream, and unsubscribe.            *)
LEMMA StopKeeps ==
  ASSUME OutputInv, NEW u \in Subs,
         CloseSubscriber(u) \/ ReadClosed(u) \/ ClientGone(u) \/ Unsubscribe(u)
  PROVE  OutputInv'
  <1> DEFINE v == sub[u]
             Gone(w) == w.got = v.got /\ w.buf = v.buf
  <1>1. TypeOK /\ sub \in [Subs -> Streams] /\ v \in Streams /\ IdleOK(u)
    BY DEF OutputInv, TypeOK, StreamOK
  <1>2. CASE CloseSubscriber(u)
    <2> DEFINE w == [v EXCEPT !.closed = TRUE]
    <2>1. /\ u \in leaving /\ leaving' = leaving \ {u}
          /\ UNCHANGED <<groupVars, chunks, fanout, exited, registry>>
      BY <1>2 DEF CloseSubscriber
    <2>2. sub' = [sub EXCEPT ![u] = w]
      BY <1>2 DEF CloseSubscriber
    <2>3. w \in Streams /\ Gone(w) /\ w.closed = TRUE /\ w.pc = v.pc
      BY <1>1, Zenon DEF Streams
    <2>4. v.pc # "idle" /\ (v.pc = "done" => u \notin registry)
      BY <1>1, <2>1, Zenon DEF IdleOK, OutputInv, StreamOK, Registered
    <2> HIDE DEF w
    <2> QED BY <2>1, <2>2, <2>3, <2>4, StreamStops, Zenon
  <1>3. CASE ReadClosed(u) \/ ClientGone(u)
    <2> DEFINE w == [v EXCEPT !.pc = "unsubscribe"]
    <2>1. UNCHANGED <<groupVars, chunks, fanout, exited, registry, leaving>>
      BY <1>3 DEF ReadClosed, ClientGone
    <2>2. sub' = [sub EXCEPT ![u] = w]
      BY <1>3 DEF ReadClosed, ClientGone
    <2>3. w \in Streams /\ Gone(w) /\ w.pc = "unsubscribe"
      BY <1>1, Zenon DEF Streams
    <2> HIDE DEF w
    <2> QED BY <2>1, <2>2, <2>3, StreamStops, Zenon
  <1>4. CASE Unsubscribe(u)
    <2> DEFINE w == [v EXCEPT !.pc = "done", !.closed = TRUE]
    <2>1. registry' = registry \ {u} /\ UNCHANGED <<groupVars, chunks, fanout, exited, leaving>>
      BY <1>4 DEF Unsubscribe
    <2>2. sub' = [sub EXCEPT ![u] = w]
      BY <1>4, Zenon DEF Unsubscribe
    <2>3. w \in Streams /\ Gone(w) /\ w.pc = "done" /\ w.closed = TRUE
      BY <1>1, Zenon DEF Streams
    <2> HIDE DEF w
    <2> QED BY <2>1, <2>2, <2>3, StreamStops, Zenon
  <1> QED BY <1>2, <1>3, <1>4

(* Moving the head of one sequence to the end of another.                  *)
LEMMA ShiftHead ==
  ASSUME NEW T, NEW g \in Seq(T), NEW b \in Seq(T), b # <<>>
  PROVE  /\ Append(g, Head(b)) \in Seq(T) /\ Tail(b) \in Seq(T)
         /\ Append(g, Head(b)) \o Tail(b) = g \o b
  <1> DEFINE h == Append(g, Head(b))
             t == Tail(b)
  <1>1. h \in Seq(T) /\ t \in Seq(T) /\ Len(h) = Len(g) + 1 /\ Len(t) = Len(b) - 1
    OBVIOUS
  <1>2. \A i \in 1..Len(g) : h[i] = g[i]
    OBVIOUS
  <1>3. h[Len(g) + 1] = b[1] /\ \A i \in 1..Len(t) : t[i] = b[i + 1]
    OBVIOUS
  <1>4. Len(g) \in Nat /\ Len(b) \in Nat /\ Len(b) >= 1
    OBVIOUS
  <1> HIDE DEF h, t
  <1>5. /\ h \o t \in Seq(T) /\ g \o b \in Seq(T)
        /\ Len(h \o t) = Len(g) + Len(b) /\ Len(g \o b) = Len(g) + Len(b)
    BY <1>1, <1>4
  <1>6. ASSUME NEW i \in 1..(Len(g) + Len(b)) PROVE (h \o t)[i] = (g \o b)[i]
    <2>1. CASE i <= Len(g)
      BY <1>1, <1>2, <1>4, <2>1
    <2>2. CASE i = Len(g) + 1
      BY <1>1, <1>3, <1>4, <2>2
    <2>3. CASE i > Len(g) + 1
      <3>1. (h \o t)[i] = t[i - (Len(g) + 1)]
        BY <1>1, <1>4, <2>3
      <3>2. (g \o b)[i] = b[i - Len(g)]
        BY <1>1, <1>4, <2>3
      <3>3. i - (Len(g) + 1) \in 1..Len(t) /\ (i - (Len(g) + 1)) + 1 = i - Len(g)
        BY <1>1, <1>4, <2>3
      <3> QED BY <1>3, <3>1, <3>2, <3>3
    <2>4. i <= Len(g) \/ i = Len(g) + 1 \/ i > Len(g) + 1
      BY <1>4
    <2> QED BY <2>1, <2>2, <2>3, <2>4, Zenon
  <1>7. h \o t = g \o b
    <2> DEFINE x == h \o t
               y == g \o b
    <2> HIDE DEF x, y
    <2>1. x \in Seq(T) /\ y \in Seq(T) /\ Len(x) = Len(y) /\ \A i \in 1..Len(x) : x[i] = y[i]
      BY <1>5, <1>6 DEF x, y
    <2>2. x = y
      BY <2>1
    <2> QED BY <2>2 DEF x, y
  <1> QED BY <1>1, <1>7 DEF h, t

(* The stream writes the next chunk of its channel to the client.          *)
LEMMA ReadChunkKeeps ==
  ASSUME OutputInv, NEW u \in Subs, ReadChunk(u)
  PROVE  OutputInv'
  <1> DEFINE v == sub[u]
             w == [v EXCEPT !.buf = Tail(v.buf), !.got = Append(v.got, Head(v.buf))]
  <1>1. TypeOK /\ sub \in [Subs -> Streams] /\ v \in Streams /\ StreamOK(u)
    BY DEF OutputInv, TypeOK
  <1>2. v.pc = "reading" /\ v.buf # <<>>
        /\ UNCHANGED <<groupVars, chunks, fanout, exited, registry, leaving>>
    BY DEF ReadChunk
  <1>3. sub' = [sub EXCEPT ![u] = w]
    <2>1. sub' = [sub EXCEPT ![u].buf = Tail(@), ![u].got = Append(@, Head(sub[u].buf))]
      BY DEF ReadChunk
    <2> QED BY <1>1, <2>1, Zenon
  <1>4. v.got \in Seq(Chunk) /\ v.buf \in Seq(Chunk)
    BY <1>1 DEF Streams
  <1>5. /\ Append(v.got, Head(v.buf)) \in Seq(Chunk) /\ Tail(v.buf) \in Seq(Chunk)
        /\ Append(v.got, Head(v.buf)) \o Tail(v.buf) = v.got \o v.buf
    BY <1>2, <1>4, ShiftHead, Zenon
  <1>6. /\ w \in Streams /\ w.pc = v.pc /\ w.closed = v.closed /\ w.steady = v.steady
        /\ w.home = v.home /\ w.first = v.first
        /\ w.got = Append(v.got, Head(v.buf)) /\ w.buf = Tail(v.buf)
    BY <1>1, <1>5, Zenon DEF Streams
  <1> HIDE DEF w
  <1>7. sub' \in [Subs -> Streams] /\ sub'[u] = w /\ \A x \in Subs : x # u => sub'[x] = sub[x]
    BY <1>1, <1>3, <1>6
  <1>8. TypeOK'
    BY <1>1, <1>2, <1>7 DEF TypeOK, groupVars
  <1>9. OnlyStream(u)
    BY <1>2, <1>7, Zenon DEF OnlyStream
  <1>10. Sent(u)' = Sent(u)
    BY <1>5, <1>6, <1>7, Zenon DEF Sent
  <1>11. Steady(u)' => Steady(u)
    BY <1>6, <1>7, Zenon DEF Steady
  <1>12. IdleOK(u)' /\ Registered(u)'
    <2>1. Registered(u) /\ w.pc # "idle" /\ w.pc # "done"
      BY <1>1, <1>2, <1>6 DEF StreamOK
    <2> QED BY <1>2, <1>6, <1>7, <2>1, Zenon DEF IdleOK, Registered
  <1> QED BY <1>2, <1>6, <1>7, <1>8, <1>9, <1>10, <1>11, <1>12, SameStream, Zenon

-----------------------------------------------------------------------------
(* consumeOutput: the next chunk of a run goes into its ring, and to the   *)
(* subscribers of the widget if the run is the active session's.           *)
LEMMA ConsumeKeeps ==
  ASSUME OutputInv, NEW r \in Runs, ConsumeOutput(r)
  PROVE  OutputInv'
  <1> DEFINE q == NextSeq(r)
             s == CHOOSE x \in Sessions : run[x] = r
             to == IF active = s THEN registry ELSE {}
             d == Newest(Append(chunks[r], q), Ring)
  <1>1. TypeOK /\ GroupInv /\ (\A x \in Runs : RingOK(x)) /\ \A u \in Subs : StreamOK(u)
    BY DEF OutputInv
  <1>2. /\ Current(r) /\ fanout[r].to = {} /\ q <= MaxChunks
        /\ chunks' = [chunks EXCEPT ![r] = d]
        /\ fanout' = [fanout EXCEPT ![r] = [seq |-> q, to |-> to]]
        /\ UNCHANGED <<groupVars, exited, registry, leaving, sub>>
    BY Zenon DEF ConsumeOutput
  <1>3. s \in Sessions /\ run[s] = r
    BY <1>2, Zenon DEF Current
  <1>4. q \in Nat \ {0} /\ MaxChunks \in Nat /\ MaxRuns \in Nat /\ r \in 1..MaxRuns
    BY <1>1, NextSeqType, OutputAssumption DEF Runs
  <1>5. /\ d \in Seq(1..MaxChunks) /\ d # <<>> /\ d[Len(d)] = q
        /\ \E a \in Nat \ {0} : Counts(d, a)
    BY <1>1, <1>2, RingGrows
  <1>6. to \in SUBSET Subs
    BY <1>1 DEF TypeOK
  <1>7. \A u \in registry : active = s => u \in to
    OBVIOUS
  <1>8. \A u \in to : u \in registry /\ active = s
    OBVIOUS
  <1> HIDE DEF q, s, to, d
  <1>9. /\ chunks'[r] = d /\ fanout'[r].seq = q /\ fanout'[r].to = to
        /\ \A x \in Runs : x # r => chunks'[x] = chunks[x] /\ fanout'[x] = fanout[x]
    BY <1>1, <1>2 DEF TypeOK
  <1>10. TypeOK'
    <2>1. chunks' \in [Runs -> Seq(1..MaxChunks)]
      BY <1>1, <1>2, <1>5 DEF TypeOK
    <2>2. [seq |-> q, to |-> to] \in [seq : 0..MaxChunks, to : SUBSET Subs]
      BY <1>2, <1>4, <1>6
    <2>3. fanout' \in [Runs -> [seq : 0..MaxChunks, to : SUBSET Subs]]
      BY <1>1, <1>2, <2>2, Zenon DEF TypeOK
    <2> QED BY <1>1, <1>2, <2>1, <2>3 DEF TypeOK, groupVars
  <1>11. GroupInv'
    BY <1>1, <1>2 DEF GroupInv, groupVars
  <1>12. NextSeq(r)' = q + 1 /\ \A x \in Runs : x # r => NextSeq(x)' = NextSeq(x)
    <2>1. NextSeq(r)' = q + 1
      BY <1>5, <1>9, Zenon DEF NextSeq, Last
    <2>2. \A x \in Runs : x # r => NextSeq(x)' = NextSeq(x)
      BY <1>9, Zenon DEF NextSeq
    <2> QED BY <2>1, <2>2
  <1>13. ASSUME NEW x \in Runs PROVE RingOK(x)'
    <2>1. CASE x = r
      <3>1. q = (q + 1) - 1
        BY <1>4
      <3> QED BY <1>5, <1>9, <1>12, <2>1, <3>1, Zenon DEF RingOK
    <2>2. CASE x # r
      BY <1>1, <1>9, <1>12, <2>2, Zenon DEF RingOK
    <2> QED BY <2>1, <2>2
  <1>14. ASSUME NEW u \in Subs PROVE StreamOK(u)'
    <2>1. StreamOK(u) /\ sub' = sub /\ registry' = registry /\ leaving' = leaving
          /\ run' = run /\ order' = order /\ active' = active
      BY <1>1, <1>2 DEF groupVars
    <2>2. Sent(u)' = Sent(u) /\ (Steady(u)' <=> Steady(u))
      BY <2>1 DEF Sent, Steady
    <2>3. IdleOK(u)'
      <3>1. ASSUME NEW x \in Runs, sub[u].pc = "idle" PROVE u \notin fanout'[x].to
        BY <1>8, <1>9, <2>1, <3>1, Zenon DEF StreamOK, IdleOK
      <3> QED BY <2>1, <3>1, Zenon DEF StreamOK, IdleOK
    <2>4. Registered(u)' /\ Ordered(u)'
      BY <2>1, <2>2, Zenon DEF StreamOK, Registered, Ordered
    <2>5. SentOK(u)'
      <3> SUFFICES ASSUME NEW x \in Runs, NEW i \in DOMAIN Sent(u), Sent(u)[i][1] = x
                   PROVE  /\ Sent(u)[i][2] < NextSeq(x)'
                          /\ u \in fanout'[x].to => Sent(u)[i][2] < fanout'[x].seq
        BY <2>2, Zenon DEF SentOK
      <3>1. Sent(u)[i][2] < NextSeq(x) /\ (u \in fanout[x].to => Sent(u)[i][2] < fanout[x].seq)
        BY <2>1, Zenon DEF StreamOK, SentOK
      <3>2. CASE x = r
        <4>1. Sent(u)[i][2] \in Nat
          BY <1>1, SentType
        <4>2. Sent(u)[i][2] < q
          BY <3>1, <3>2 DEF q
        <4> QED BY <1>4, <1>9, <1>12, <3>2, <4>1, <4>2
      <3>3. CASE x # r
        BY <1>9, <1>12, <3>1, <3>3, Zenon
      <3> QED BY <3>2, <3>3
    <2>6. ASSUME Steady(u) PROVE Reached(u, sub[u].home)' = Reached(u, sub[u].home)
      <3>1. sub[u].home \in Runs /\ run[active] = sub[u].home /\ u \in registry /\ active \in Sessions
        BY <2>6, HomeIsRun, Zenon
      <3>2. CASE sub[u].home = r
        <4>1. active = s
          BY <1>1, <1>3, <1>4, <3>1, <3>2 DEF GroupInv
        <4>2. u \in fanout'[r].to /\ u \notin fanout[r].to
          BY <1>2, <1>7, <1>9, <3>1, <4>1, Zenon
        <4> QED BY <1>9, <2>1, <3>2, <4>2, Zenon DEF Reached, q
      <3>3. CASE sub[u].home # r
        BY <1>9, <1>12, <2>1, <3>1, <3>3, Zenon DEF Reached
      <3> QED BY <3>2, <3>3
    <2>7. SteadyOK(u)'
      <3> SUFFICES ASSUME Steady(u) PROVE SteadyOK(u)'
        BY <2>2, Zenon DEF SteadyOK
      <3>1. ASSUME NEW x \in Runs, u \in fanout'[x].to PROVE x = sub[u].home
        <4>1. CASE x = r
          <5>1. active = s
            BY <1>8, <1>9, <3>1, <4>1
          <5>2. run[active] = sub[u].home
            BY HomeIsRun, Zenon
          <5> QED BY <1>3, <4>1, <5>1, <5>2
        <4>2. CASE x # r
          BY <1>9, <2>1, <3>1, <4>2, Zenon DEF StreamOK, SteadyOK
        <4> QED BY <4>1, <4>2
      <3> QED BY <2>1, <2>6, <3>1, Zenon DEF StreamOK, SteadyOK
    <2>8. Gapless(u)'
      BY <2>1, <2>2, <2>6, Zenon DEF StreamOK, Gapless
    <2> QED BY <2>3, <2>4, <2>5, <2>7, <2>8 DEF StreamOK
  <1> QED BY <1>10, <1>11, <1>13, <1>14, Zenon DEF OutputInv

-----------------------------------------------------------------------------
(* A stretch of chunks grows by the next one.                              *)
LEMMA GrowChunks ==
  ASSUME NEW r, NEW a \in Int, NEW n \in Nat
  PROVE  Append(Chunks(r, a, n), <<r, a + n>>) = Chunks(r, a, n + 1)
  <1> DEFINE T == {r} \X Int
             h == Chunks(r, a, n)
  <1>1. h \in Seq(T) /\ Len(h) = n /\ \A i \in 1..n : h[i] = <<r, a + i - 1>>
    BY DEF Chunks
  <1>2. <<r, a + n>> \in T
    OBVIOUS
  <1> HIDE DEF h, T
  <1>3. Append(h, <<r, a + n>>) = [i \in 1..(n + 1) |-> <<r, a + i - 1>>]
    <2> DEFINE e == Append(h, <<r, a + n>>)
    <2>1. e \in Seq(T) /\ Len(e) = n + 1 /\ e[n + 1] = <<r, a + n>>
      BY <1>1, <1>2
    <2>2. \A i \in 1..n : e[i] = <<r, a + i - 1>>
      BY <1>1, <1>2
    <2> HIDE DEF e
    <2>3. ASSUME NEW i \in 1..(n + 1) PROVE e[i] = <<r, a + i - 1>>
      <3>1. i \in 1..n \/ (i = n + 1 /\ a + i - 1 = a + n)
        OBVIOUS
      <3> QED BY <2>1, <2>2, <3>1, Zenon
    <2>4. e = [i \in 1..(n + 1) |-> e[i]]
      BY <2>1
    <2>5. e = [i \in 1..(n + 1) |-> <<r, a + i - 1>>]
      BY <2>3, <2>4, Zenon
    <2> QED BY <2>5, Zenon DEF e
  <1> QED BY <1>3 DEF h, Chunks

(* An element appended to the second sequence is appended to both.        *)
LEMMA ConcatAppend ==
  ASSUME NEW T, NEW g \in Seq(T), NEW b \in Seq(T), NEW x \in T
  PROVE  g \o Append(b, x) = Append(g \o b, x)
  <1>1. Append(b, x) = b \o <<x>> /\ <<x>> \in Seq(T)
    BY AppendIsConcat
  <1>2. g \o b \in Seq(T)
    OBVIOUS
  <1>3. Append(g \o b, x) = (g \o b) \o <<x>>
    BY <1>2, AppendIsConcat, Zenon
  <1>4. (g \o b) \o <<x>> = g \o (b \o <<x>>)
    BY <1>1, ConcatAssociative
  <1> QED BY <1>1, <1>3, <1>4, Zenon

(* A chunk that a stream has room for: it is the next one in its order.    *)
LEMMA SendKeeps ==
  ASSUME OutputInv, NEW r \in Runs, NEW u \in Subs, u \in fanout[r].to, OnlyStream(u), TypeOK',
         u \notin fanout'[r].to, \A x \in Runs : x # r => fanout'[x] = fanout[x],
         registry' = registry, leaving' = leaving,
         Sent(u)' = Append(Sent(u), <<r, fanout[r].seq>>),
         Steady(u)' <=> Steady(u),
         sub'[u].pc = sub[u].pc, sub'[u].closed = sub[u].closed,
         sub'[u].home = sub[u].home, sub'[u].first = sub[u].first
  PROVE  OutputInv'
  <1> DEFINE q == fanout[r].seq
             old == Sent(u)
             new == Sent(u)'
             n == Len(old)
  <1>1. TypeOK /\ StreamOK(u) /\ RingOK(r)
    BY DEF OutputInv
  <1>2. q = NextSeq(r) - 1 /\ NextSeq(r) \in Nat \ {0} /\ q \in Nat
    <2>1. fanout[r].to # {}
      OBVIOUS
    <2>2. NextSeq(r) \in Nat \ {0} /\ q = NextSeq(r) - 1
      BY <1>1, <2>1, NextSeqType DEF RingOK
    <2> QED BY <2>2
  <1>3. chunks' = chunks /\ run' = run /\ order' = order /\ active' = active
    BY DEF OnlyStream, groupVars
  <1>4. \A x \in Runs : NextSeq(x)' = NextSeq(x)
    BY <1>3, Zenon DEF NextSeq
  <1>5. old \in Seq(Chunk) /\ n \in Nat /\ \A i \in 1..n : old[i][1] \in Runs /\ old[i][2] \in Nat
    BY <1>1, SentType
  <1>6. DOMAIN new = 1..(n + 1) /\ new[n + 1] = <<r, q>> /\ \A i \in 1..n : new[i] = old[i]
    BY <1>5
  <1>7. \A x \in Runs : u \in fanout'[x].to => x # r /\ u \in fanout[x].to /\ fanout'[x] = fanout[x]
    BY Zenon
  <1>8. \A i \in 1..n : \A x \in Runs : old[i][1] = x =>
           /\ old[i][2] < NextSeq(x)
           /\ u \in fanout[x].to => old[i][2] < fanout[x].seq
    BY <1>1, <1>5 DEF StreamOK, SentOK
  <1>9. Ordered(u)
    BY <1>1 DEF StreamOK
  <1>10. new = Append(old, <<r, q>>)
    OBVIOUS
  <1>11. DOMAIN old = 1..n
    BY <1>5
  <1> HIDE DEF old, new, q, n
  <1>12. SentOK(u)'
    <2> SUFFICES ASSUME NEW x \in Runs, NEW i \in 1..(n + 1), new[i][1] = x
                 PROVE  /\ new[i][2] < NextSeq(x)'
                        /\ u \in fanout'[x].to => new[i][2] < fanout'[x].seq
      BY <1>6, Zenon DEF SentOK, new
    <2>1. CASE i \in 1..n
      BY <1>4, <1>6, <1>7, <1>8, <2>1, Zenon
    <2>2. CASE i = n + 1
      <3>1. x = r /\ new[i][2] = q
        BY <1>6, <2>2
      <3>2. q < NextSeq(r)
        BY <1>2
      <3> QED BY <1>4, <3>1, <3>2, Zenon
    <2>3. i \in 1..n \/ i = n + 1
      BY <1>5
    <2> QED BY <2>1, <2>2, <2>3, Zenon
  <1>13. Ordered(u)'
    <2> SUFFICES ASSUME NEW i \in 1..(n + 1), NEW j \in 1..(n + 1), i < j, new[i][1] = new[j][1]
                 PROVE  new[i][2] < new[j][2]
      BY <1>6, Zenon DEF Ordered, new
    <2>1. i \in 1..n /\ (j \in 1..n \/ j = n + 1)
      BY <1>5
    <2>2. CASE j \in 1..n
      BY <1>6, <1>9, <1>11, <2>1, <2>2, Zenon DEF Ordered, old
    <2>3. CASE j = n + 1
      <3>1. new[j][1] = r /\ new[j][2] = q
        BY <1>6, <2>3
      <3>2. old[i][1] = r
        BY <1>6, <2>1, <3>1
      <3>3. old[i][2] < q
        BY <1>8, <2>1, <3>2, Zenon DEF q
      <3> QED BY <1>6, <2>1, <3>1, <3>3
    <2> QED BY <2>1, <2>2, <2>3
  <1>14. ASSUME Steady(u)
         PROVE  /\ r = sub[u].home /\ sub[u].first \in Nat /\ sub[u].first <= q
                /\ Reached(u, r) = q - 1 /\ Reached(u, r)' = q
    <2>1. r = sub[u].home /\ sub[u].first <= Reached(u, r) + 1
      BY <1>1, <1>14, Zenon DEF StreamOK, SteadyOK
    <2>2. Reached(u, r) = q - 1
      BY Zenon DEF Reached, q
    <2>3. Reached(u, r)' = q
      BY <1>2, <1>4, Zenon DEF Reached
    <2>4. sub[u].first \in Nat
      BY <1>1, OutputAssumption DEF TypeOK, Streams
    <2> QED BY <1>2, <2>1, <2>2, <2>3, <2>4
  <1>15. SteadyOK(u)'
    <2> SUFFICES ASSUME Steady(u) PROVE SteadyOK(u)'
      BY Zenon DEF SteadyOK
    <2>1. \A x \in Runs : u \in fanout'[x].to => x = sub[u].home
      BY <1>1, <1>7, Zenon DEF StreamOK, SteadyOK
    <2>2. sub[u].first <= q + 1
      BY <1>2, <1>14
    <2>3. u \in registry /\ order # <<>> /\ run[active] = sub[u].home
      BY <1>1, Zenon DEF StreamOK, SteadyOK
    <2> QED BY <1>3, <1>14, <2>1, <2>2, <2>3, Zenon DEF SteadyOK
  <1>16. Gapless(u)'
    <2> SUFFICES ASSUME Steady(u) PROVE Gapless(u)'
      BY Zenon DEF Gapless
    <2> DEFINE a == sub[u].first
               k == q - a
    <2>1. k \in Nat /\ a \in Int /\ (q - 1) - a + 1 = k /\ q - a + 1 = k + 1 /\ a + k = q
      BY <1>2, <1>14
    <2> HIDE DEF k
    <2>2. old = Chunks(r, a, k)
      BY <1>1, <1>14, <2>1, Zenon DEF StreamOK, Gapless, old
    <2>3. Append(Chunks(r, a, k), <<r, a + k>>) = Chunks(r, a, k + 1)
      BY <2>1, GrowChunks, Zenon
    <2>4. new = Chunks(r, a, k + 1)
      BY <1>10, <2>1, <2>2, <2>3, Zenon
    <2> QED BY <1>14, <2>1, <2>4, Zenon DEF Gapless, new
  <1>17. IdleOK(u)' /\ Registered(u)'
    <2>1. sub[u].pc # "idle"
      BY <1>1, Zenon DEF StreamOK, IdleOK
    <2> QED BY <1>1, <2>1, Zenon DEF StreamOK, IdleOK, Registered
  <1>18. StreamOK(u)'
    BY <1>12, <1>13, <1>15, <1>16, <1>17 DEF StreamOK
  <1> QED BY <1>18, OthersKept, Zenon

(* deliverChunk: a closed channel takes nothing, a full one drops.         *)
LEMMA DeliverKeeps ==
  ASSUME OutputInv, NEW r \in Runs, NEW u \in Subs, Deliver(r, u)
  PROVE  OutputInv'
  <1> DEFINE v == sub[u]
             q == fanout[r].seq
  <1>1. TypeOK /\ sub \in [Subs -> Streams] /\ v \in Streams /\ StreamOK(u) /\ RingOK(r)
    BY DEF OutputInv, TypeOK
  <1>2. /\ u \in fanout[r].to /\ fanout' = [fanout EXCEPT ![r].to = @ \ {u}]
        /\ UNCHANGED <<groupVars, chunks, exited, registry, leaving>>
    BY DEF Deliver
  <1>3. fanout \in [Runs -> [seq : 0..MaxChunks, to : SUBSET Subs]]
    BY <1>1 DEF TypeOK
  <1>4. /\ fanout' \in [Runs -> [seq : 0..MaxChunks, to : SUBSET Subs]]
        /\ fanout'[r].seq = q /\ fanout'[r].to = fanout[r].to \ {u}
        /\ \A x \in Runs : x # r => fanout'[x] = fanout[x]
    BY <1>2, <1>3
  <1>5. v.pc # "idle"
    BY <1>1, <1>2, Zenon DEF StreamOK, IdleOK
  <1>6. ASSUME NEW w \in Streams, sub' = [sub EXCEPT ![u] = w]
        PROVE  sub'[u] = w /\ TypeOK' /\ OnlyStream(u)
    <2>1. sub' \in [Subs -> Streams] /\ sub'[u] = w /\ \A x \in Subs : x # u => sub'[x] = sub[x]
      BY <1>1, <1>6
    <2>2. TypeOK'
      BY <1>1, <1>2, <1>4, <2>1 DEF TypeOK, groupVars
    <2>3. \A x \in Runs : fanout'[x].seq = fanout[x].seq /\ fanout'[x].to \subseteq fanout[x].to
      BY <1>4
    <2>4. \A y \in Subs : y # u => \A x \in Runs : y \in fanout'[x].to <=> y \in fanout[x].to
      BY <1>4
    <2>5. OnlyStream(u)
      BY <1>2, <2>1, <2>3, <2>4, Zenon DEF OnlyStream
    <2> QED BY <2>1, <2>2, <2>5
  <1>7. ASSUME NEW w \in Streams, sub' = [sub EXCEPT ![u] = w],
               w.got = v.got, w.buf = v.buf, w.pc = v.pc, w.closed = v.closed,
               w.closed = TRUE \/ w.steady = FALSE
        PROVE  OutputInv'
    <2>1. sub'[u] = w /\ TypeOK' /\ OnlyStream(u)
      BY <1>6, <1>7, Zenon
    <2>2. Sent(u)' = Sent(u) /\ ~Steady(u)'
      BY <1>7, <2>1, Zenon DEF Sent, Steady
    <2>3. IdleOK(u)' /\ Registered(u)'
      BY <1>1, <1>2, <1>5, <1>7, <2>1, Zenon DEF StreamOK, IdleOK, Registered
    <2> QED BY <2>1, <2>2, <2>3, SameStream, Zenon
  <1>8. CASE v.closed
    <2>1. sub' = sub
      BY <1>8 DEF Deliver
    <2>2. sub' = [sub EXCEPT ![u] = v]
      BY <1>1, <2>1
    <2>3. v.closed = TRUE
      BY <1>1, <1>8 DEF Streams
    <2> QED BY <1>1, <1>7, <2>2, <2>3, Zenon
  <1>9. CASE ~v.closed /\ Len(v.buf) >= SubCap
    <2> DEFINE w == [v EXCEPT !.steady = FALSE]
    <2>1. sub' = [sub EXCEPT ![u] = w]
      BY <1>9 DEF Deliver
    <2>2. /\ w \in Streams /\ w.got = v.got /\ w.buf = v.buf /\ w.pc = v.pc
          /\ w.closed = v.closed /\ w.steady = FALSE
      BY <1>1, Zenon DEF Streams
    <2> HIDE DEF w
    <2> QED BY <1>7, <2>1, <2>2, Zenon
  <1>10. CASE ~v.closed /\ ~(Len(v.buf) >= SubCap)
    <2> DEFINE c == <<r, q>>
               w == [v EXCEPT !.buf = Append(v.buf, c)]
    <2>1. sub' = [sub EXCEPT ![u] = w]
      <3>1. sub' = [sub EXCEPT ![u].buf = Append(@, <<r, fanout[r].seq>>)]
        BY <1>10 DEF Deliver
      <3> QED BY <1>1, <3>1
    <2>2. c \in Chunk
      <3>1. fanout[r].to # {}
        BY <1>2
      <3>2. q = NextSeq(r) - 1 /\ chunks[r] # <<>> /\ \E a \in Nat \ {0} : Counts(chunks[r], a)
        BY <1>1, <3>1 DEF RingOK
      <3>3. chunks[r] \in Seq(1..MaxChunks)
        BY <1>1 DEF TypeOK
      <3>4. PICK a \in Nat \ {0} : NextSeq(r) = a + Len(chunks[r])
        BY <1>1, <3>2, NextSeqType, Zenon
      <3>5. Len(chunks[r]) \in Nat \ {0}
        BY <3>2, <3>3
      <3>6. q \in 0..MaxChunks
        BY <1>3
      <3>7. q \in 1..MaxChunks
        BY <3>2, <3>4, <3>5, <3>6, OutputAssumption
      <3> QED BY <3>7 DEF Chunk
    <2> HIDE DEF c
    <2>3. v.got \in Seq(Chunk) /\ v.buf \in Seq(Chunk)
      BY <1>1 DEF Streams
    <2>4. Append(v.buf, c) \in Seq(Chunk)
      BY <2>2, <2>3
    <2>5. /\ w \in Streams /\ w.got = v.got /\ w.buf = Append(v.buf, c) /\ w.pc = v.pc
          /\ w.closed = v.closed /\ w.steady = v.steady /\ w.home = v.home /\ w.first = v.first
      BY <1>1, <2>4, Zenon DEF Streams
    <2> HIDE DEF w
    <2>6. sub'[u] = w /\ TypeOK' /\ OnlyStream(u)
      BY <1>6, <2>1, <2>5, Zenon
    <2>7. Sent(u)' = Append(Sent(u), c)
      <3>1. v.got \o Append(v.buf, c) = Append(v.got \o v.buf, c)
        <4> DEFINE g == v.got
                   b == v.buf
        <4>1. g \in Seq(Chunk) /\ b \in Seq(Chunk)
          BY <2>3
        <4> HIDE DEF g, b
        <4>2. g \o Append(b, c) = Append(g \o b, c)
          BY <2>2, <4>1, ConcatAppend
        <4> QED BY <4>2 DEF g, b
      <3> QED BY <2>5, <2>6, <3>1, Zenon DEF Sent
    <2>8. Steady(u)' <=> Steady(u)
      BY <2>5, <2>6, Zenon DEF Steady
    <2>9. u \notin fanout'[r].to
      BY <1>4
    <2> QED BY <1>2, <1>4, <2>5, <2>6, <2>7, <2>8, <2>9, SendKeeps, Zenon DEF c
  <1> QED BY <1>8, <1>9, <1>10

-----------------------------------------------------------------------------
(* The replay is the end of the ring, from the position it begins at.      *)
LEMMA ReplayIs ==
  ASSUME OutputInv, NEW r \in Runs, NEW f \in Nat
  PROVE  /\ FirstFrom(r, f) \in Nat \ {0} /\ FirstFrom(r, f) <= NextSeq(r)
         /\ Replay(r, f) = Interval(FirstFrom(r, f), NextSeq(r) - FirstFrom(r, f))
  <1> DEFINE c == chunks[r]
             b0 == FirstFrom(r, f)
             next == NextSeq(r)
  <1>1. TypeOK /\ RingOK(r)
    BY DEF OutputInv
  <1>2. c \in Seq(1..MaxChunks) /\ MaxChunks \in Nat /\ next \in Nat \ {0}
    BY <1>1, NextSeqType, OutputAssumption DEF TypeOK
  <1>3. PICK a \in Nat \ {0} : Counts(c, a)
    BY <1>1 DEF RingOK
  <1>4. c # <<>> => next = a + Len(c) /\ Head(c) = a /\ Len(c) \in Nat \ {0}
    <2>1. c # <<>> => next = a + Len(c)
      BY <1>1, <1>3, NextSeqType
    <2>2. c # <<>> => Head(c) = c[1] /\ 1 \in DOMAIN c /\ Len(c) \in Nat \ {0}
      BY <1>2
    <2>3. c # <<>> => c[1] = a
      <3>1. a + 1 - 1 = a
        OBVIOUS
      <3> QED BY <1>3, <2>2, <3>1, Zenon DEF Counts
    <2> QED BY <2>1, <2>2, <2>3
  <1>5. c = <<>> => next = 1 /\ Len(c) = 0
    BY <1>1, NextSeqType
  <1>6. b0 = IF c = <<>> \/ f >= next THEN next ELSE IF f > Head(c) THEN f ELSE Head(c)
    BY DEF FirstFrom
  <1>7. Replay(r, f) = Filter(c, f..MaxChunks)
    BY DEF Replay
  <1> HIDE DEF c, b0, next
  <1>8. b0 \in Nat \ {0} /\ b0 <= next
    BY <1>2, <1>4, <1>6
  <1> DEFINE b == IF f > a THEN f ELSE a
  <1>9. b \in Nat /\ b \in {a, f} /\ b >= a /\ b >= f
    OBVIOUS
  <1>10. Filter(c, f..MaxChunks) = Interval(b, a + Len(c) - b)
    <2> HIDE DEF b
    <2>1. a \in Nat
      OBVIOUS
    <2> QED BY <1>2, <1>3, <1>9, <2>1, FilterInterval
  <1>11. Interval(b, a + Len(c) - b) = Interval(b0, next - b0)
    <2>1. CASE c = <<>> \/ f >= next
      <3>1. a + Len(c) - b <= 0 /\ a + Len(c) - b \in Int /\ next - b0 = 0
        BY <1>2, <1>4, <1>5, <1>6, <2>1
      <3>2. \A x, n \in Int : n <= 0 => Interval(x, n) = <<>>
        BY DEF Interval
      <3> HIDE DEF b
      <3>3. b \in Int /\ b0 \in Int /\ 0 \in Int /\ 0 <= 0
        BY <1>8, <1>9
      <3> QED BY <3>1, <3>2, <3>3, Zenon
    <2>2. CASE c # <<>> /\ ~(f >= next)
      <3>1. b0 = b /\ a + Len(c) - b = next - b0
        BY <1>2, <1>4, <1>6, <2>2
      <3> HIDE DEF b
      <3> QED BY <3>1
    <2> QED BY <2>1, <2>2
  <1> QED BY <1>7, <1>8, <1>10, <1>11, Zenon DEF c, b0, next

(* SnapshotAndSubscribe: the stream has the replay, and is in the registry *)
(* for what follows it.                                                    *)
LEMMA AttachKeeps ==
  ASSUME OutputInv, NEW u \in Subs, NEW f \in Froms, Attach(u, f)
  PROVE  OutputInv'
  <1>1. TypeOK /\ GroupInv /\ StreamOK(u) /\ sub \in [Subs -> Streams]
    BY DEF OutputInv, TypeOK
  <1>2. /\ sub[u].pc = "idle" /\ order # <<>> /\ registry' = registry \cup {u}
        /\ UNCHANGED <<groupVars, chunks, fanout, exited, leaving>>
    BY DEF Attach
  <1>4. PICK r \in Runs : run[active] = r
    <2>1. active \in Sessions /\ run[active] # 0
      BY <1>1, <1>2, Zenon DEF GroupInv
    <2>2. run \in [Sessions -> 0..MaxRuns] /\ MaxRuns \in Nat
      BY <1>1, OutputAssumption DEF TypeOK
    <2>3. run[active] \in Runs
      BY <2>1, <2>2 DEF Runs
    <2> QED BY <2>3
  <1> DEFINE a == FirstFrom(r, f)
             n == NextSeq(r) - a
             seqs == Replay(r, f)
             got == [i \in DOMAIN seqs |-> <<r, seqs[i]>>]
             w == [NoStream EXCEPT !.pc = "reading", !.got = got,
                     !.steady = TRUE, !.home = r, !.first = a]
  <1>3. sub' = [sub EXCEPT ![u] = w]
    BY <1>4 DEF Attach, Attached
  <1>5. f \in Nat
    BY OutputAssumption
  <1>6. a \in Nat \ {0} /\ a <= NextSeq(r) /\ seqs = Interval(a, n)
    BY <1>4, <1>5, ReplayIs, Zenon
  <1>7. NextSeq(r) \in Nat \ {0} /\ NextSeq(r) <= MaxChunks + 1 /\ MaxChunks \in Nat
    BY <1>1, <1>4, NextSeqType, OutputAssumption
  <1> HIDE DEF a, seqs
  <1>8. n \in Nat /\ a + n = NextSeq(r) /\ a \in 0..(MaxChunks + 1)
    BY <1>6, <1>7
  <1> HIDE DEF n
  <1>9. got = Chunks(r, a, n)
    <2>1. DOMAIN seqs = 1..n /\ \A i \in 1..n : seqs[i] = a + i - 1
      BY <1>6 DEF Interval
    <2> QED BY <2>1, Zenon DEF Chunks
  <1> HIDE DEF got
  <1>10. /\ got \in Seq(Chunk) /\ DOMAIN got = 1..n
         /\ \A i \in 1..n : got[i] = <<r, a + i - 1>>
    <2>1. \A i \in 1..n : a + i - 1 \in 1..MaxChunks
      BY <1>6, <1>7, <1>8
    <2>2. \A i \in 1..n : <<r, a + i - 1>> \in Chunk
      BY <1>4, <2>1, Zenon DEF Chunk
    <2>3. DOMAIN got = 1..n /\ \A i \in 1..n : got[i] = <<r, a + i - 1>>
      BY <1>9, Zenon DEF Chunks
    <2>4. got = [i \in 1..n |-> got[i]]
      BY <1>9, <2>3, Zenon DEF Chunks
    <2>5. \A i \in 1..n : got[i] \in Chunk
      BY <2>2, <2>3, Zenon
    <2>6. got \in Seq(Chunk)
      BY <1>8, <2>4, <2>5
    <2> QED BY <2>3, <2>6
  <1>11. r \in 0..MaxRuns /\ <<>> \in Seq(Chunk)
    BY <1>4, OutputAssumption DEF Runs
  <1>12. /\ w \in Streams /\ w.pc = "reading" /\ w.closed = FALSE /\ w.buf = <<>> /\ w.got = got
         /\ w.steady = TRUE /\ w.home = r /\ w.first = a
    BY <1>8, <1>10, <1>11, Zenon DEF NoStream, Streams
  <1> HIDE DEF w
  <1>13. sub' \in [Subs -> Streams] /\ sub'[u] = w /\ \A x \in Subs : x # u => sub'[x] = sub[x]
    BY <1>1, <1>3, <1>12
  <1>14. TypeOK'
    BY <1>1, <1>2, <1>13 DEF TypeOK, groupVars
  <1>15. OnlyStream(u)
    <2>1. \A v \in Subs : v # u => (v \in registry' <=> v \in registry)
      BY <1>2
    <2> QED BY <1>2, <1>13, <2>1, Zenon DEF OnlyStream
  <1>16. Sent(u)' = got
    <2>1. Sent(u)' = got \o <<>>
      BY <1>12, <1>13, Zenon DEF Sent
    <2> QED BY <1>10, <2>1, ConcatEmptySeq
  <1>17. \A x \in Runs : u \notin fanout'[x].to
    BY <1>1, <1>2, Zenon DEF StreamOK, IdleOK
  <1>18. \A x \in Runs : NextSeq(x)' = NextSeq(x)
    BY <1>2, Zenon DEF NextSeq
  <1>19. IdleOK(u)' /\ Registered(u)'
    <2>1. u \in registry' /\ w.pc # "idle" /\ w.pc # "done"
      BY <1>2, <1>12
    <2> QED BY <1>13, <2>1, Zenon DEF IdleOK, Registered
  <1>20. SentOK(u)'
    <2> SUFFICES ASSUME NEW x \in Runs, NEW i \in 1..n, got[i][1] = x
                 PROVE  got[i][2] < NextSeq(x)
      BY <1>10, <1>16, <1>17, <1>18, Zenon DEF SentOK
    <2>1. x = r /\ got[i][2] = a + i - 1
      BY <1>10
    <2>2. a + i - 1 < NextSeq(r)
      BY <1>6, <1>7, <1>8
    <2> QED BY <2>1, <2>2
  <1>21. Ordered(u)'
    <2> SUFFICES ASSUME NEW i \in 1..n, NEW j \in 1..n, i < j PROVE got[i][2] < got[j][2]
      BY <1>10, <1>16, Zenon DEF Ordered
    <2>1. got[i][2] = a + i - 1 /\ got[j][2] = a + j - 1
      BY <1>10
    <2> QED BY <1>6, <1>8, <2>1
  <1>22. Reached(u, r)' = NextSeq(r) - 1
    BY <1>4, <1>17, <1>18, Zenon DEF Reached
  <1>23. SteadyOK(u)'
    <2>1. a <= (NextSeq(r) - 1) + 1
      BY <1>6, <1>7
    <2>2. u \in registry' /\ order' # <<>> /\ run'[active'] = r
      BY <1>2, <1>4 DEF groupVars
    <2> QED BY <1>12, <1>13, <1>17, <1>22, <2>1, <2>2, Zenon DEF SteadyOK
  <1>24. Gapless(u)'
    <2>1. n = (NextSeq(r) - 1) - a + 1
      BY <1>6, <1>7, <1>8
    <2> QED BY <1>9, <1>12, <1>13, <1>16, <1>22, <2>1, Zenon DEF Gapless
  <1>25. StreamOK(u)'
    BY <1>19, <1>20, <1>21, <1>23, <1>24 DEF StreamOK
  <1> QED BY <1>14, <1>15, <1>25, OthersKept, Zenon

-----------------------------------------------------------------------------
(* The exit of a shell is recorded, and nothing else; a stutter.           *)
LEMMA RestKeeps ==
  ASSUME OutputInv, exited' \subseteq Runs,
         UNCHANGED <<groupVars, chunks, fanout, registry, leaving, sub>>
  PROVE  OutputInv'
  <1>1. /\ run' = run /\ order' = order /\ active' = active /\ launched' = launched
        /\ chunks' = chunks /\ fanout' = fanout /\ registry' = registry /\ leaving' = leaving
        /\ sub' = sub
    BY DEF groupVars
  <1>2. TypeOK' /\ GroupInv'
    BY <1>1 DEF OutputInv, TypeOK, GroupInv
  <1>3. (\A r \in Runs : RingOK(r)') /\ \A u \in Subs : SameReach(u)
    BY SameRings
  <1>4. ASSUME NEW u \in Subs PROVE StreamOK(u)'
    <2>1. TypeOK /\ StreamOK(u)
      BY Zenon DEF OutputInv
    <2>2. Sent(u)' = Sent(u) /\ SameGroup(u)
      BY <1>1, Zenon DEF Sent, SameGroup, Steady
    <2>3. IdleOK(u)' /\ Registered(u)'
      BY <1>1, <2>1, Zenon DEF StreamOK, IdleOK, Registered
    <2>4. Steady(u) => sub[u].home \in Runs
      BY HomeIsRun, Zenon
    <2> QED BY <1>3, <2>1, <2>2, <2>3, <2>4, StreamKept, Zenon
  <1> QED BY <1>2, <1>3, <1>4, Zenon DEF OutputInv

(* Every step keeps the invariant.                                         *)
LEMMA NextKeepsOutput == OutputInv /\ [Next]_vars => OutputInv'
  <1> SUFFICES ASSUME OutputInv, [Next]_vars PROVE OutputInv'
    OBVIOUS
  <1>1. ASSUME NEW s \in Sessions, Install(s) \/ SetActiveSession(s) \/ CloseWidgetSession(s)
        PROVE  OutputInv'
    BY <1>1, InstallKeeps, SetActiveKeeps, CloseWidgetKeeps, Zenon
  <1>2. ASSUME CloseSession PROVE OutputInv'
    BY <1>2, CloseSessionKeeps, Zenon
  <1>3. ASSUME NEW r \in Runs, WaitForExit(r) PROVE OutputInv'
    <2>1. exited \subseteq Runs
      BY DEF OutputInv, TypeOK
    <2> QED BY <1>3, <2>1, RestKeeps DEF WaitForExit
  <1>4. ASSUME NEW r \in Runs, ConsumeOutput(r) \/ Reader(r) PROVE OutputInv'
    BY <1>4, ConsumeKeeps, DeliverKeeps, Zenon DEF Reader
  <1>5. ASSUME NEW u \in Subs, CloseSubscriber(u) \/ Stream(u) \/ ClientGone(u) PROVE OutputInv'
    BY <1>5, StopKeeps, ReadChunkKeeps, Zenon DEF Stream
  <1>6. ASSUME NEW u \in Subs, NEW f \in Froms, Attach(u, f) PROVE OutputInv'
    BY <1>6, AttachKeeps, Zenon
  <1>7. ASSUME UNCHANGED vars PROVE OutputInv'
    <2>1. exited' \subseteq Runs
      BY <1>7 DEF OutputInv, TypeOK, vars
    <2> QED BY <1>7, <2>1, RestKeeps DEF vars, groupVars
  <1> QED BY <1>1, <1>2, <1>3, <1>4, <1>5, <1>6, <1>7, Zenon DEF Next

LEMMA InitKeepsOutput == Init => OutputInv
  <1> SUFFICES ASSUME Init PROVE OutputInv
    OBVIOUS
  <1>1. /\ run = [s \in Sessions |-> 0] /\ order = <<>> /\ active = None /\ launched = 0
        /\ chunks = [r \in Runs |-> <<>>] /\ fanout = [r \in Runs |-> Idle] /\ exited = {}
        /\ registry = {} /\ leaving = {} /\ sub = [u \in Subs |-> NoStream]
    BY DEF Init
  <1>2. MaxRuns \in Nat /\ MaxChunks \in Nat
    BY OutputAssumption
  <1>3. TypeOK
    <2>1. Idle \in [seq : 0..MaxChunks, to : SUBSET Subs]
      BY <1>2 DEF Idle
    <2>2. NoStream \in Streams
      BY <1>2 DEF NoStream, Streams
    <2>3. fanout \in [Runs -> [seq : 0..MaxChunks, to : SUBSET Subs]] /\ sub \in [Subs -> Streams]
      BY <1>1, <2>1, <2>2, Zenon
    <2>4. run \in [Sessions -> 0..MaxRuns] /\ launched \in 0..MaxRuns /\ order \in Seq(Sessions)
      BY <1>1, <1>2
    <2>5. chunks \in [Runs -> Seq(1..MaxChunks)]
      BY <1>1
    <2> QED BY <1>1, <2>3, <2>4, <2>5 DEF TypeOK
  <1>4. GroupInv
    <2>1. Range(order) = {}
      <3>1. DOMAIN order = {}
        BY <1>1
      <3> QED BY <3>1, Zenon DEF Range
    <2>2. \A s \in Sessions : run[s] = 0 /\ run[s] <= launched
      BY <1>1
    <2> QED BY <1>1, <2>1, <2>2, Zenon DEF GroupInv
  <1>5. ASSUME NEW r \in Runs PROVE RingOK(r)
    <2>1. chunks[r] = <<>> /\ fanout[r].to = {}
      BY <1>1 DEF Idle
    <2>2. Counts(chunks[r], 1) /\ 1 \in Nat \ {0}
      BY <2>1 DEF Counts
    <2> QED BY <2>1, <2>2, Zenon DEF RingOK
  <1>6. ASSUME NEW u \in Subs PROVE StreamOK(u)
    <2>1. sub[u] = NoStream
      BY <1>1
    <2>2. sub[u].pc = "idle" /\ sub[u].got = <<>> /\ sub[u].buf = <<>>
      BY <2>1 DEF NoStream
    <2>3. DOMAIN Sent(u) = {}
      BY <2>2 DEF Sent
    <2>4. SentOK(u) /\ Ordered(u)
      BY <2>3, Zenon DEF SentOK, Ordered
    <2>5. SteadyOK(u) /\ Gapless(u)
      BY <2>2 DEF Steady, SteadyOK, Gapless
    <2>6. \A r \in Runs : u \notin fanout[r].to
      BY <1>1 DEF Idle
    <2>7. IdleOK(u) /\ Registered(u)
      BY <1>1, <2>1, <2>2, <2>6 DEF IdleOK, Registered
    <2> QED BY <2>4, <2>5, <2>7 DEF StreamOK
  <1> QED BY <1>3, <1>4, <1>5, <1>6, Zenon DEF OutputInv

(* What a stream is sent is what its runs wrote, in order and without a    *)
(* gap it did not overflow into, however deliveries, focus changes, closes *)
(* and attachments interleave; and the registry knows who is sent it.      *)
THEOREM StreamsAreExactAlways == Spec => []StreamsAreExact
  <1>1. Init => OutputInv
    BY InitKeepsOutput
  <1>2. OutputInv /\ [Next]_vars => OutputInv'
    BY NextKeepsOutput
  <1>3. OutputInv => StreamsAreExact
    BY InvIsExact
  <1> QED BY <1>1, <1>2, <1>3, PTL DEF Spec

(* A channel that is closed gets nothing more, whatever list of            *)
(* subscribers a reader took before the close.                             *)
THEOREM NoSendOnClosedAlways == Spec => NoSendOnClosed
  <1> DEFINE A == \A u \in Subs : sub[u].closed => Len(sub[u]'.buf) <= Len(sub[u].buf)
  <1>1. ASSUME TypeOK, Next PROVE A
    <2> SUFFICES ASSUME NEW u \in Subs, sub[u].closed PROVE Len(sub'[u].buf) <= Len(sub[u].buf)
      OBVIOUS
    <2>1. sub \in [Subs -> Streams] /\ sub[u] \in Streams
      BY <1>1 DEF TypeOK
    <2>2. sub[u].buf \in Seq(Chunk) /\ Len(sub[u].buf) \in Nat
      BY <2>1 DEF Streams
    <2>3. ASSUME sub'[u].buf = sub[u].buf PROVE Len(sub'[u].buf) <= Len(sub[u].buf)
      BY <2>2, <2>3
    <2>4. ASSUME NEW us, sub' = Unsettled(us) PROVE sub'[u].buf = sub[u].buf
      BY <1>1, <2>4, UnsettledFields, Zenon
    <2>5. CASE \E s \in Sessions : Install(s) \/ SetActiveSession(s) \/ CloseWidgetSession(s)
      <3>1. sub' = Unsettled(registry) \/ sub' = sub
        BY <2>5, Zenon DEF Install, SetActiveSession, CloseWidgetSession
      <3> QED BY <2>3, <2>4, <3>1
    <2>6. CASE CloseSession
      BY <2>3, <2>4, <2>6 DEF CloseSession
    <2>7. ASSUME NEW r \in Runs, WaitForExit(r) \/ ConsumeOutput(r) PROVE sub' = sub
      BY <2>7 DEF WaitForExit, ConsumeOutput
    <2>8. ASSUME NEW r \in Runs, NEW v \in Subs, Deliver(r, v) PROVE sub'[u].buf = sub[u].buf
      <3>1. CASE v = u
        BY <2>8, <3>1, Zenon DEF Deliver
      <3>2. CASE v # u
        BY <2>1, <2>8, <3>2 DEF Deliver
      <3> QED BY <3>1, <3>2
    <2>9. ASSUME NEW v \in Subs, CloseSubscriber(v) \/ ReadClosed(v) \/ Unsubscribe(v) \/ ClientGone(v)
          PROVE  sub'[u].buf = sub[u].buf
      <3>1. CASE CloseSubscriber(v)
        BY <2>1, <3>1 DEF CloseSubscriber, Streams
      <3>2. CASE ReadClosed(v) \/ ClientGone(v)
        <4>1. sub' = [sub EXCEPT ![v].pc = "unsubscribe"]
          BY <3>2 DEF ReadClosed, ClientGone
        <4> QED BY <2>1, <4>1 DEF Streams
      <3>3. CASE Unsubscribe(v)
        BY <2>1, <3>3 DEF Unsubscribe, Streams
      <3> QED BY <2>9, <3>1, <3>2, <3>3
    <2>10. ASSUME NEW v \in Subs, ReadChunk(v) PROVE Len(sub'[u].buf) <= Len(sub[u].buf)
      <3>1. CASE v = u
        <4>1. sub'[u].buf = Tail(sub[u].buf) /\ sub[u].buf # <<>>
          BY <2>1, <2>10, <3>1 DEF ReadChunk, Streams
        <4> QED BY <2>2, <4>1
      <3>2. CASE v # u
        BY <2>1, <2>2, <2>10, <3>2 DEF ReadChunk
      <3> QED BY <3>1, <3>2
    <2>11. ASSUME NEW v \in Subs, NEW f \in Froms, Attach(v, f) PROVE Len(sub'[u].buf) <= Len(sub[u].buf)
      <3>1. CASE v = u
        <4>1. sub'[u].buf = <<>>
          BY <2>1, <2>11, <3>1 DEF Attach, Attached, NoStream
        <4> QED BY <2>2, <4>1
      <3>2. CASE v # u
        BY <2>1, <2>2, <2>11, <3>2 DEF Attach, Attached
      <3> QED BY <3>1, <3>2
    <2> QED BY <1>1, <2>3, <2>5, <2>6, <2>7, <2>8, <2>9, <2>10, <2>11, Zenon DEF Next, Reader, Stream
  <1>2. ASSUME OutputInv, [Next]_vars PROVE [A]_vars
    BY <1>1, <1>2 DEF OutputInv
  <1>3. Init => OutputInv
    BY InitKeepsOutput
  <1>4. OutputInv /\ [Next]_vars => OutputInv'
    BY NextKeepsOutput
  <1> QED BY <1>2, <1>3, <1>4, PTL DEF Spec, NoSendOnClosed
=============================================================================
