--------------------------- MODULE DatapathProofs ---------------------------
(* Proofs about Datapath, for every number of buffers and every capacity of *)
(* the channels, of the leases and of the health reports.                   *)
EXTENDS Datapath, SequenceTheorems, FiniteSetTheorems, TLAPS

-----------------------------------------------------------------------------
(* The inductive invariant.                                                 *)

Session == [closed : BOOLEAN, dtlsConnected : BOOLEAN, dtlsClosed : BOOLEAN,
            tlsSocket : BOOLEAN, dtlsSocket : BOOLEAN, device : BOOLEAN, peer : BOOLEAN]
UserTunnel == [dialer : {"idle", "made", "done"}, stored : BOOLEAN, open : BOOLEAN,
               flow : BOOLEAN]

\* A channel has a buffer once.
Once(q) == \A i, j \in 1..Len(q) : q[i] = q[j] /\ q[i] \in Buffers => i = j

\* With the places A and the pool P every buffer has one owner.
OneOwner(A, P) ==
    /\ \A b \in Buffers : P[b] # 0 => P[b] = 1 /\ \A p \in Places : b \notin Range(A[p])
    /\ \A b \in Buffers : \A p, q \in Places : b \in Range(A[p]) /\ b \in Range(A[q]) => p = q
    /\ \A p \in Places : Once(A[p])
    /\ P[TlsDpd] = 0 /\ P[DtlsDpd] = 0

BuffersInv(A, P) ==
    /\ A \in [Places -> Seq(Objects)] /\ P \in [Objects -> 0..2]
    /\ \A w \in Workers : Len(A[w]) <= 1
    /\ \A q \in Channels : Len(A[q]) <= Cap
    /\ OneOwner(A, P)

\* What the daemon will have heard once every report was read.
Newest(reports, heard) == IF reports = <<>> THEN heard ELSE reports[Len(reports)]

\* Unless a reconciliation is due, good news is true.
RoutesInv == pc["routes"] # "sync" /\ Newest(health, shown) = "ok" => routes = Wanted

IInv ==
    /\ load \in Loads /\ s \in Session /\ pc \in [Workers -> Step] /\ user \in UserTunnel
    /\ answers \in 0..Cap
    /\ BuffersInv(at, pool)
    /\ RoutesTypeOK /\ RoutesInv

-----------------------------------------------------------------------------
(* Buffers and the sequences that hold them.                                *)

\* The buffers and the two payloads of the DPD timer are different objects.
LEMMA ObjectFacts ==
    /\ Buffers \subseteq Objects /\ TlsDpd \in Objects /\ DtlsDpd \in Objects
    /\ TlsDpd \notin Buffers /\ DtlsDpd \notin Buffers
    /\ \A b \in Objects : b \in Buffers \/ b = TlsDpd \/ b = DtlsDpd
BY DatapathAssumption DEF Buffers, Objects, TlsDpd, DtlsDpd

\* No object and one object.
LEMMA FewHeld ==
    /\ <<>> \in Seq(Objects) /\ Range(<<>>) = {} /\ Once(<<>>) /\ Len(<<>>) = 0
    /\ \A b \in Objects : /\ <<b>> \in Seq(Objects) /\ Range(<<b>>) = {b} /\ Once(<<b>>)
                          /\ Len(<<b>>) = 1
<1>1. <<>> \in Seq(Objects) /\ Len(<<>>) = 0 /\ Once(<<>>)
  BY DEF Once
<1>2. Range(<<>>) = {}
  <2>1. Range(<<>>) = {<<>>[i] : i \in 1..Len(<<>>)}
    BY <1>1, RangeEquality
  <2> QED
    BY <1>1, <2>1
<1>3. ASSUME NEW b \in Objects
      PROVE <<b>> \in Seq(Objects) /\ Range(<<b>>) = {b} /\ Once(<<b>>) /\ Len(<<b>>) = 1
  <2> DEFINE q == <<b>>
  <2>1. q \in Seq(Objects) /\ Len(q) = 1 /\ q[1] = b
    OBVIOUS
  <2> HIDE DEF q
  <2>2. Range(q) = {q[i] : i \in 1..Len(q)}
    BY <2>1, RangeEquality
  <2>3. \A i \in 1..Len(q) : i = 1
    BY <2>1
  <2>4. 1 \in 1..Len(q)
    BY <2>1
  <2>5. Range(q) = {b} /\ Once(q)
    BY <2>1, <2>2, <2>3, <2>4 DEF Once
  <2> QED
    BY <2>1, <2>5 DEF q
<1> QED
  BY <1>1, <1>2, <1>3

\* Taking the first one.
LEMMA TakeFirst ==
    ASSUME NEW q \in Seq(Objects), q # <<>>, Once(q)
    PROVE  /\ Head(q) \in Objects /\ Head(q) \in Range(q) /\ Tail(q) \in Seq(Objects)
           /\ Range(Tail(q)) \subseteq Range(q) /\ Once(Tail(q))
           /\ Head(q) \in Buffers => Head(q) \notin Range(Tail(q))
           /\ Len(Tail(q)) = Len(q) - 1 /\ Len(q) \in Nat
<1> DEFINE t == Tail(q)
<1>1. /\ Head(q) \in Objects /\ t \in Seq(Objects) /\ Len(t) = Len(q) - 1
      /\ \A i \in 1..Len(t) : t[i] = q[i + 1]
  BY HeadTailProperties
<1>2. Len(q) \in Nat \ {0} /\ Head(q) = q[1]
  BY EmptySeq
<1>3. Range(q) = {q[i] : i \in 1..Len(q)} /\ Range(t) = {t[i] : i \in 1..Len(t)}
  BY <1>1, RangeEquality
<1>n. PICK n \in Nat : n = Len(q) /\ n # 0
  BY <1>2
<1> HIDE DEF t
<1>4. /\ 1 \in 1..n /\ \A i \in 1..(n - 1) : i + 1 \in 1..n /\ i + 1 # 1
      /\ \A i, j \in 1..(n - 1) : i + 1 = j + 1 => i = j
  BY <1>n
<1>5. Len(t) = n - 1
  BY <1>1, <1>n
<1>6. Head(q) \in Range(q) /\ Range(t) \subseteq Range(q)
  BY <1>1, <1>2, <1>3, <1>4, <1>5, <1>n
<1>7. Once(t)
  BY <1>1, <1>4, <1>5, <1>n DEF Once
<1>8. Head(q) \in Buffers => Head(q) \notin Range(t)
  BY <1>1, <1>2, <1>3, <1>4, <1>5, <1>n DEF Once
<1> QED
  BY <1>1, <1>2, <1>6, <1>7, <1>8 DEF t

\* Adding at most one that is not there.
LEMMA AddOne ==
    ASSUME NEW a \in Seq(Objects), NEW b \in Seq(Objects), Once(a), Len(b) <= 1,
           \A x \in Buffers : ~(x \in Range(a) /\ x \in Range(b))
    PROVE  /\ a \o b \in Seq(Objects) /\ Range(a \o b) = Range(a) \cup Range(b) /\ Once(a \o b)
           /\ Len(a \o b) <= Len(a) + 1 /\ Len(a) \in Nat
<1> DEFINE c == a \o b
<1>n. PICK n \in Nat : n = Len(a)
  BY LenProperties
<1>m. PICK m \in Nat : m = Len(b) /\ m <= 1
  BY LenProperties
<1>1. /\ c \in Seq(Objects) /\ Len(c) = n + m
      /\ \A i \in 1..(n + m) : c[i] = IF i <= n THEN a[i] ELSE b[i - n]
  BY <1>n, <1>m, ConcatProperties
<1>2. Range(c) = Range(a) \cup Range(b)
  BY RangeConcatenation
<1>3. Range(a) = {a[i] : i \in 1..n} /\ Range(b) = {b[i] : i \in 1..m}
  BY <1>n, <1>m, RangeEquality
<1> HIDE DEF c
<1>4. ASSUME NEW i \in 1..(n + m)
      PROVE  \/ i \in 1..n /\ c[i] = a[i] /\ c[i] \in Range(a)
             \/ i = n + 1 /\ c[i] = b[1] /\ c[i] \in Range(b)
  <2>1. CASE i <= n
    <3>1. i \in 1..n
      BY <2>1
    <3> QED
      BY <1>1, <1>3, <2>1, <3>1
  <2>2. CASE ~(i <= n)
    <3>1. i = n + 1 /\ i - n = 1 /\ 1 \in 1..m
      BY <1>m, <2>2
    <3> QED
      BY <1>1, <1>3, <2>2, <3>1
  <2> QED
    BY <2>1, <2>2
<1>5. Once(c)
  <2> SUFFICES ASSUME NEW i \in 1..(n + m), NEW j \in 1..(n + m), c[i] = c[j], c[i] \in Buffers
               PROVE  i = j
    BY <1>1 DEF Once
  <2> QED
    BY <1>4, <1>n DEF Once
<1>6. Len(c) <= n + 1
  BY <1>1, <1>m
<1> QED
  BY <1>1, <1>2, <1>5, <1>6, <1>n DEF c

-----------------------------------------------------------------------------
(* What a step does to the buffers.                                         *)

\* The places are what they are, whoever holds something.
LEMMA PlaceFacts ==
    /\ Workers \subseteq Places /\ Channels \subseteq Places
    /\ \A w \in Workers : w \notin Channels
    /\ "PayloadIn" \in Channels /\ "PayloadOutTLS" \in Channels /\ "PayloadOutDTLS" \in Channels
    /\ "PayloadOutTLS" # "PayloadOutDTLS"
BY DEF Places, Workers, Channels

\* A place that holds what it held, or few enough.
LEMMA Fitting ==
    ASSUME NEW A, NEW B, \A x \in Workers : Len(A[x]) <= 1, \A x \in Channels : Len(A[x]) <= Cap,
           \A p \in Places : \/ B[p] = A[p] \/ Len(B[p]) = 0
                             \/ (p \in Workers /\ Len(B[p]) = 1) \/ (p \in Channels /\ Len(B[p]) <= Cap)
    PROVE  (\A x \in Workers : Len(B[x]) <= 1) /\ \A x \in Channels : Len(B[x]) <= Cap
<1>1. Cap \in Nat /\ 0 <= Cap /\ 0 <= 1 /\ 1 <= 1
  BY DatapathAssumption
<1>2. ASSUME NEW x \in Workers PROVE Len(B[x]) <= 1
  <2>1. x \in Places /\ x \notin Channels
    BY PlaceFacts
  <2> QED
    BY <1>1, <2>1
<1>3. ASSUME NEW x \in Channels PROVE Len(B[x]) <= Cap
  <2>1. x \in Places /\ x \notin Workers
    BY PlaceFacts
  <2> QED
    BY <1>1, <2>1
<1> QED
  BY <1>2, <1>3

\* A worker gets a buffer from the pool.
LEMMA GetKeeps ==
    ASSUME NEW A, NEW P, BuffersInv(A, P), NEW w \in Workers, NEW b \in Objects, P[b] > 0
    PROVE  BuffersInv([A EXCEPT ![w] = <<b>>], [P EXCEPT ![b] = @ - 1])
<1> DEFINE B == [A EXCEPT ![w] = <<b>>]
           Q == [P EXCEPT ![b] = @ - 1]
<1>1. A \in [Places -> Seq(Objects)] /\ P \in [Objects -> 0..2] /\ OneOwner(A, P)
      /\ (\A x \in Workers : Len(A[x]) <= 1) /\ \A x \in Channels : Len(A[x]) <= Cap
  BY DEF BuffersInv
<1>2. P[b] # 0
  BY <1>1
<1>3. b \in Buffers /\ P[b] = 1 /\ \A p \in Places : b \notin Range(A[p])
  BY <1>1, <1>2, ObjectFacts DEF OneOwner
<1>4. Q \in [Objects -> 0..2] /\ Q[b] = 0 /\ \A x \in Objects : x # b => Q[x] = P[x]
  BY <1>1, <1>3
<1>5. /\ B \in [Places -> Seq(Objects)] /\ B[w] = <<b>>
      /\ \A p \in Places : p # w => B[p] = A[p]
  BY <1>1, FewHeld, PlaceFacts
<1>6. Range(B[w]) = {b} /\ Once(B[w]) /\ Len(B[w]) = 1
  BY <1>5, FewHeld
<1> HIDE DEF B, Q
<1>7. OneOwner(B, Q)
  <2>1. \A x \in Buffers : Q[x] # 0 => x # b /\ Q[x] = 1 /\ \A p \in Places : x \notin Range(A[p])
    BY <1>1, <1>4, ObjectFacts DEF OneOwner
  <2>2. \A x \in Buffers : Q[x] # 0 => Q[x] = 1 /\ \A p \in Places : x \notin Range(B[p])
    BY <1>5, <1>6, <2>1
  <2>3. ASSUME NEW x \in Buffers, NEW p \in Places, NEW q \in Places, x \in Range(B[p]), x \in Range(B[q])
        PROVE  p = q
    <3>1. CASE x = b
      BY <1>3, <1>5, <2>3, <3>1
    <3>2. CASE x # b
      <4>1. p # w /\ q # w
        BY <1>6, <2>3, <3>2
      <4> QED
        BY <1>1, <1>5, <2>3, <4>1 DEF OneOwner
    <3> QED
      BY <3>1, <3>2
  <2>4. \A p \in Places : Once(B[p])
    BY <1>1, <1>5, <1>6 DEF OneOwner
  <2>5. Q[TlsDpd] = 0 /\ Q[DtlsDpd] = 0
    BY <1>1, <1>3, <1>4, ObjectFacts DEF OneOwner
  <2> QED
    BY <2>2, <2>3, <2>4, <2>5 DEF OneOwner
<1>8. (\A x \in Workers : Len(B[x]) <= 1) /\ \A x \in Channels : Len(B[x]) <= Cap
  <2>1. \A p \in Places : \/ B[p] = A[p] \/ Len(B[p]) = 0
                         \/ (p \in Workers /\ Len(B[p]) = 1) \/ (p \in Channels /\ Len(B[p]) <= Cap)
    BY <1>5, <1>6
  <2> QED
    BY <1>1, <2>1, Fitting
<1> QED
  BY <1>4, <1>5, <1>7, <1>8 DEF BuffersInv, B, Q

\* What a place lets go of is put into the pool: nobody else has it.
LEMMA PutKeeps ==
    ASSUME NEW A, NEW P, BuffersInv(A, P), NEW p \in Places, NEW rest \in Seq(Objects), NEW held,
           NEW Q, Q = [b \in Objects |-> IF b \in Range(held) \cap Buffers THEN P[b] + 1 ELSE P[b]],
           Range(held) \subseteq Range(A[p]), Range(rest) \subseteq Range(A[p]), Once(rest),
           \A b \in Buffers : ~(b \in Range(held) /\ b \in Range(rest)), Len(rest) <= Len(A[p])
    PROVE  BuffersInv([A EXCEPT ![p] = rest], Q)
<1> DEFINE B == [A EXCEPT ![p] = rest]
<1>1. A \in [Places -> Seq(Objects)] /\ P \in [Objects -> 0..2] /\ OneOwner(A, P)
      /\ (\A x \in Workers : Len(A[x]) <= 1) /\ \A x \in Channels : Len(A[x]) <= Cap
  BY DEF BuffersInv
<1>2. /\ B \in [Places -> Seq(Objects)] /\ B[p] = rest
      /\ \A q \in Places : q # p => B[q] = A[q]
  BY <1>1
<1>3. \A b \in Buffers : b \in Range(held) => P[b] = 0 /\ b \in Objects
  BY <1>1, ObjectFacts DEF OneOwner
<1>4. /\ \A b \in Buffers : b \in Range(held) => Q[b] = 1
      /\ \A b \in Objects : ~(b \in Range(held) /\ b \in Buffers) => Q[b] = P[b]
  BY <1>3
<1>5. Q \in [Objects -> 0..2]
  <2>1. \A b \in Objects : (IF b \in Range(held) \cap Buffers THEN P[b] + 1 ELSE P[b]) \in 0..2
    BY <1>1, <1>3
  <2> QED
    BY <2>1
<1> HIDE DEF B
<1>6. OneOwner(B, Q)
  <2>1. ASSUME NEW b \in Buffers, Q[b] # 0
        PROVE  Q[b] = 1 /\ \A q \in Places : b \notin Range(B[q])
    <3>1. CASE b \in Range(held)
      <4>1. \A q \in Places : q # p => b \notin Range(A[q])
        BY <1>1, <3>1 DEF OneOwner
      <4> QED
        BY <1>2, <1>4, <3>1, <4>1
    <3>2. CASE b \notin Range(held)
      <4>1. Q[b] = P[b] /\ b \in Objects
        BY <1>4, <3>2, ObjectFacts
      <4>2. P[b] = 1 /\ \A q \in Places : b \notin Range(A[q])
        BY <1>1, <2>1, <4>1 DEF OneOwner
      <4> QED
        BY <1>2, <4>1, <4>2
    <3> QED
      BY <3>1, <3>2
  <2>2. \A b \in Buffers : \A x, y \in Places : b \in Range(B[x]) /\ b \in Range(B[y]) => x = y
    <3>1. \A x \in Places : Range(B[x]) \subseteq Range(A[x])
      BY <1>2
    <3> QED
      BY <1>1, <3>1 DEF OneOwner
  <2>3. \A x \in Places : Once(B[x])
    BY <1>1, <1>2 DEF OneOwner
  <2>4. Q[TlsDpd] = 0 /\ Q[DtlsDpd] = 0
    BY <1>1, <1>4, ObjectFacts DEF OneOwner
  <2> QED
    BY <2>1, <2>2, <2>3, <2>4 DEF OneOwner
<1>7. (\A x \in Workers : Len(B[x]) <= 1) /\ \A x \in Channels : Len(B[x]) <= Cap
  <2>1. \A n, m \in Nat : \A k \in Nat : n <= m /\ m <= k => n <= k
    OBVIOUS
  <2>2. Len(rest) \in Nat /\ Len(A[p]) \in Nat /\ Cap \in Nat
    BY <1>1, LenProperties, DatapathAssumption
  <2>3. ASSUME NEW x \in Workers PROVE Len(B[x]) <= 1
    <3>1. CASE x = p
      <4>1. Len(A[p]) <= 1 /\ B[x] = rest
        BY <1>1, <1>2, <3>1
      <4> QED
        BY <2>1, <2>2, <4>1
    <3>2. CASE x # p
      BY <1>1, <1>2, <3>2, PlaceFacts
    <3> QED
      BY <3>1, <3>2
  <2>4. ASSUME NEW x \in Channels PROVE Len(B[x]) <= Cap
    <3>1. CASE x = p
      <4>1. Len(A[p]) <= Cap /\ B[x] = rest
        BY <1>1, <1>2, <3>1
      <4> QED
        BY <2>1, <2>2, <4>1
    <3>2. CASE x # p
      BY <1>1, <1>2, <3>2, PlaceFacts
    <3> QED
      BY <3>1, <3>2
  <2> QED
    BY <2>3, <2>4
<1> QED
  BY <1>2, <1>5, <1>6, <1>7 DEF BuffersInv, B

\* A worker sends what it holds.
LEMMA SendKeeps ==
    ASSUME NEW A, NEW P, BuffersInv(A, P), NEW w \in Workers, NEW c \in Channels, Len(A[c]) < Cap
    PROVE  BuffersInv([A EXCEPT ![c] = @ \o A[w], ![w] = <<>>], P)
<1> DEFINE J == A[c] \o A[w]
           e == <<>>
           B == [A EXCEPT ![c] = J, ![w] = e]
<1>1. A \in [Places -> Seq(Objects)] /\ P \in [Objects -> 0..2] /\ OneOwner(A, P)
      /\ (\A x \in Workers : Len(A[x]) <= 1) /\ \A x \in Channels : Len(A[x]) <= Cap
  BY DEF BuffersInv
<1>2. w \in Places /\ c \in Places /\ w # c
  BY PlaceFacts
<1>3. A[c] \in Seq(Objects) /\ A[w] \in Seq(Objects) /\ Once(A[c]) /\ Len(A[w]) <= 1
      /\ \A x \in Buffers : ~(x \in Range(A[c]) /\ x \in Range(A[w]))
  BY <1>1, <1>2 DEF OneOwner
<1>4. /\ J \in Seq(Objects) /\ Range(J) = Range(A[c]) \cup Range(A[w]) /\ Once(J)
      /\ Len(J) <= Len(A[c]) + 1 /\ Len(A[c]) \in Nat
  BY <1>3, AddOne
<1>5. e \in Seq(Objects) /\ Range(e) = {} /\ Once(e) /\ Len(e) = 0
  BY FewHeld
<1>6. Len(J) <= Cap
  <2>1. Len(J) \in Nat /\ Cap \in Nat
    BY <1>4, LenProperties, DatapathAssumption
  <2> DEFINE a == Len(A[c])
             j == Len(J)
  <2>2. a \in Nat /\ j \in Nat /\ Cap \in Nat /\ a < Cap /\ j <= a + 1
    BY <1>4, <2>1
  <2> HIDE DEF a, j
  <2>3. j <= Cap
    BY <2>2
  <2> QED
    BY <2>3 DEF j
<1>b. [A EXCEPT ![c] = @ \o A[w], ![w] = <<>>] = B
  OBVIOUS
<1> HIDE DEF J, e
<1>7. /\ B \in [Places -> Seq(Objects)] /\ B[c] = J /\ B[w] = e
      /\ \A p \in Places : p # c /\ p # w => B[p] = A[p]
  BY <1>1, <1>2, <1>4, <1>5
<1> HIDE DEF B
<1>8. OneOwner(B, P)
  <2>1. \A b \in Buffers : P[b] # 0 => P[b] = 1 /\ \A p \in Places : b \notin Range(B[p])
    BY <1>1, <1>2, <1>4, <1>5, <1>7 DEF OneOwner
  <2>2. ASSUME NEW b \in Buffers, NEW p \in Places, NEW q \in Places,
               b \in Range(B[p]), b \in Range(B[q])
        PROVE  p = q
    <3>1. p # w /\ q # w
      BY <1>5, <1>7, <2>2
    <3>2. \A x \in Places : x # w /\ b \in Range(B[x]) =>
             b \in Range(A[x]) \/ (x = c /\ b \in Range(A[w]))
      BY <1>4, <1>7
    <3> QED
      BY <1>1, <1>2, <2>2, <3>1, <3>2 DEF OneOwner
  <2>3. \A p \in Places : Once(B[p])
    BY <1>1, <1>4, <1>5, <1>7 DEF OneOwner
  <2> QED
    BY <1>1, <2>1, <2>2, <2>3 DEF OneOwner
<1>9. (\A x \in Workers : Len(B[x]) <= 1) /\ \A x \in Channels : Len(B[x]) <= Cap
  <2>1. \A p \in Places : \/ B[p] = A[p] \/ Len(B[p]) = 0
                         \/ (p \in Workers /\ Len(B[p]) = 1) \/ (p \in Channels /\ Len(B[p]) <= Cap)
    BY <1>5, <1>6, <1>7
  <2> QED
    BY <1>1, <2>1, Fitting
<1> QED
  BY <1>1, <1>b, <1>7, <1>8, <1>9 DEF BuffersInv

\* A worker receives the first one of a channel.
LEMMA ReceiveKeeps ==
    ASSUME NEW A, NEW P, BuffersInv(A, P), NEW w \in Workers, NEW c \in Channels, A[c] # <<>>
    PROVE  BuffersInv([A EXCEPT ![c] = Tail(@), ![w] = <<Head(A[c])>>], P)
<1> DEFINE t == Tail(A[c])
           h == Head(A[c])
           g == <<h>>
           B == [A EXCEPT ![c] = t, ![w] = g]
<1>1. A \in [Places -> Seq(Objects)] /\ P \in [Objects -> 0..2] /\ OneOwner(A, P)
      /\ (\A x \in Workers : Len(A[x]) <= 1) /\ \A x \in Channels : Len(A[x]) <= Cap
  BY DEF BuffersInv
<1>2. w \in Places /\ c \in Places /\ w # c
  BY PlaceFacts
<1>3. A[c] \in Seq(Objects) /\ Once(A[c])
  BY <1>1, <1>2 DEF OneOwner
<1>4. /\ h \in Objects /\ h \in Range(A[c]) /\ t \in Seq(Objects)
      /\ Range(t) \subseteq Range(A[c]) /\ Once(t) /\ (h \in Buffers => h \notin Range(t))
      /\ Len(t) = Len(A[c]) - 1 /\ Len(A[c]) \in Nat
  BY <1>3, TakeFirst
<1>5. g \in Seq(Objects) /\ Range(g) = {h} /\ Once(g) /\ Len(g) = 1
  BY <1>4, FewHeld
<1>6. Len(t) <= Cap
  <2>1. Len(A[c]) <= Cap /\ Cap \in Nat
    BY <1>1, DatapathAssumption
  <2> DEFINE a == Len(A[c])
             j == Len(t)
  <2>2. a \in Nat /\ Cap \in Nat /\ a <= Cap /\ j = a - 1
    BY <1>4, <2>1
  <2> HIDE DEF a, j
  <2>3. j <= Cap
    BY <2>2
  <2> QED
    BY <2>3 DEF j
<1>b. [A EXCEPT ![c] = Tail(@), ![w] = <<Head(A[c])>>] = B
  OBVIOUS
<1> HIDE DEF t, h, g
<1>7. /\ B \in [Places -> Seq(Objects)] /\ B[c] = t /\ B[w] = g
      /\ \A p \in Places : p # c /\ p # w => B[p] = A[p]
  BY <1>1, <1>2, <1>4, <1>5
<1> HIDE DEF B
<1>8. OneOwner(B, P)
  <2>1. \A b \in Buffers : P[b] # 0 => P[b] = 1 /\ \A p \in Places : b \notin Range(B[p])
    BY <1>1, <1>2, <1>4, <1>5, <1>7 DEF OneOwner
  <2>2. ASSUME NEW b \in Buffers, NEW p \in Places, NEW q \in Places,
               b \in Range(B[p]), b \in Range(B[q])
        PROVE  p = q
    <3>1. \A x \in Places : x # w /\ b \in Range(B[x]) => b \in Range(A[x])
      BY <1>4, <1>7
    <3>2. b \in Range(B[w]) => b = h /\ b \in Range(A[c]) /\ b \notin Range(B[c])
      BY <1>4, <1>5, <1>7
    <3>3. CASE p = w \/ q = w
      <4>1. b = h /\ b \in Range(A[c]) /\ b \notin Range(B[c])
        BY <2>2, <3>2, <3>3
      <4>2. \A x \in Places : x # w => b \notin Range(B[x])
        BY <1>1, <1>2, <3>1, <4>1 DEF OneOwner
      <4> QED
        BY <2>2, <4>2
    <3>4. CASE p # w /\ q # w
      BY <1>1, <2>2, <3>1, <3>4 DEF OneOwner
    <3> QED
      BY <3>3, <3>4
  <2>3. \A p \in Places : Once(B[p])
    BY <1>1, <1>4, <1>5, <1>7 DEF OneOwner
  <2> QED
    BY <1>1, <2>1, <2>2, <2>3 DEF OneOwner
<1>9. (\A x \in Workers : Len(B[x]) <= 1) /\ \A x \in Channels : Len(B[x]) <= Cap
  <2>1. \A p \in Places : \/ B[p] = A[p] \/ Len(B[p]) = 0
                         \/ (p \in Workers /\ Len(B[p]) = 1) \/ (p \in Channels /\ Len(B[p]) <= Cap)
    BY <1>5, <1>6, <1>7
  <2> QED
    BY <1>1, <2>1, Fitting
<1> QED
  BY <1>1, <1>b, <1>7, <1>8, <1>9 DEF BuffersInv

\* The timer adds a payload of its own, when there is room.
LEMMA DpdKeeps ==
    ASSUME NEW A, NEW P, BuffersInv(A, P), NEW c \in Channels, NEW m \in {TlsDpd, DtlsDpd},
           Len(A[c]) < Cap
    PROVE  BuffersInv([A EXCEPT ![c] = Append(A[c], m)], P)
<1> DEFINE g == <<m>>
           J == A[c] \o g
           B == [A EXCEPT ![c] = J]
<1>1. A \in [Places -> Seq(Objects)] /\ P \in [Objects -> 0..2] /\ OneOwner(A, P)
      /\ (\A x \in Workers : Len(A[x]) <= 1) /\ \A x \in Channels : Len(A[x]) <= Cap
  BY DEF BuffersInv
<1>2. c \in Places /\ c \notin Workers /\ m \in Objects /\ m \notin Buffers
  BY PlaceFacts, ObjectFacts
<1>3. A[c] \in Seq(Objects) /\ Once(A[c])
  BY <1>1, <1>2 DEF OneOwner
<1>4. g \in Seq(Objects) /\ Range(g) = {m} /\ Len(g) = 1
  BY <1>2, FewHeld
<1>5. Append(A[c], m) = J
  BY <1>2, <1>3, AppendIsConcat
<1> HIDE DEF g
<1>6. /\ J \in Seq(Objects) /\ Range(J) = Range(A[c]) \cup {m} /\ Once(J)
      /\ Len(J) <= Len(A[c]) + 1 /\ Len(A[c]) \in Nat
  <2>1. \A x \in Buffers : ~(x \in Range(A[c]) /\ x \in Range(g))
    BY <1>2, <1>4
  <2>2. Len(g) <= 1
    BY <1>4
  <2> QED
    BY <1>3, <1>4, <2>1, <2>2, AddOne
<1>7. Len(J) <= Cap
  <2>1. Len(J) \in Nat /\ Cap \in Nat
    BY <1>6, LenProperties, DatapathAssumption
  <2> DEFINE a == Len(A[c])
             j == Len(J)
  <2>2. a \in Nat /\ j \in Nat /\ Cap \in Nat /\ a < Cap /\ j <= a + 1
    BY <1>6, <2>1
  <2> HIDE DEF a, j
  <2>3. j <= Cap
    BY <2>2
  <2> QED
    BY <2>3 DEF j
<1>b. [A EXCEPT ![c] = Append(A[c], m)] = B
  BY <1>5
<1> HIDE DEF J
<1>8. /\ B \in [Places -> Seq(Objects)] /\ B[c] = J /\ \A p \in Places : p # c => B[p] = A[p]
  BY <1>1, <1>2, <1>6
<1> HIDE DEF B
<1>9. \A b \in Buffers : \A p \in Places : b \in Range(B[p]) <=> b \in Range(A[p])
  BY <1>2, <1>6, <1>8
<1>10. OneOwner(B, P)
  <2>1. \A p \in Places : Once(B[p])
    BY <1>1, <1>6, <1>8 DEF OneOwner
  <2>2. \A b \in Buffers : P[b] # 0 => P[b] = 1 /\ \A p \in Places : b \notin Range(B[p])
    BY <1>1, <1>9 DEF OneOwner
  <2>3. \A b \in Buffers : \A p, q \in Places : b \in Range(B[p]) /\ b \in Range(B[q]) => p = q
    BY <1>1, <1>9 DEF OneOwner
  <2> QED
    BY <1>1, <2>1, <2>2, <2>3 DEF OneOwner
<1>11. (\A x \in Workers : Len(B[x]) <= 1) /\ \A x \in Channels : Len(B[x]) <= Cap
  <2>1. \A p \in Places : \/ B[p] = A[p] \/ Len(B[p]) = 0
                         \/ (p \in Workers /\ Len(B[p]) = 1) \/ (p \in Channels /\ Len(B[p]) <= Cap)
    BY <1>7, <1>8
  <2> QED
    BY <1>1, <2>1, Fitting
<1> QED
  BY <1>1, <1>b, <1>8, <1>10, <1>11 DEF BuffersInv

-----------------------------------------------------------------------------
(* The packet workers.                                                      *)

\* The sessions and user tunnels that the ends of workers leave.
LEMMA EndsTyped ==
    ASSUME NEW x \in Session
    PROVE  /\ Closed(x) \in Session /\ TlsClosed(x) \in Session /\ DtlsEnd(x) \in Session
           /\ [x EXCEPT !.device = FALSE] \in Session /\ [x EXCEPT !.peer = FALSE] \in Session
           /\ [x EXCEPT !.dtlsConnected = TRUE, !.dtlsSocket = TRUE] \in Session
<1>1. ASSUME NEW y \in Session PROVE Closed(y) \in Session
  <2> DEFINE v == (~y.closed /\ y.dtlsConnected) \/ y.dtlsClosed
             u == IF y.closed THEN y.dtlsConnected ELSE FALSE
  <2>1. y.closed \in BOOLEAN /\ y.dtlsConnected \in BOOLEAN /\ y.dtlsClosed \in BOOLEAN
    BY DEF Session
  <2>2. v \in BOOLEAN /\ u \in BOOLEAN
    BY <2>1
  <2>3. Closed(y) = [y EXCEPT !.closed = TRUE, !.dtlsClosed = v, !.dtlsConnected = u]
    BY DEF Closed
  <2> HIDE DEF u, v
  <2> QED
    BY <2>2, <2>3 DEF Session
<1>2. [x EXCEPT !.tlsSocket = FALSE] \in Session
  BY DEF Session
<1>3. TlsClosed(x) \in Session
  BY <1>1, <1>2 DEF TlsClosed
<1>4. DtlsEnd(x) \in Session
  BY DEF DtlsEnd, Session
<1>5. [x EXCEPT !.device = FALSE] \in Session /\ [x EXCEPT !.peer = FALSE] \in Session
  BY DEF Session
<1>6. [x EXCEPT !.dtlsConnected = TRUE, !.dtlsSocket = TRUE] \in Session
  BY DEF Session
<1> QED
  BY <1>1, <1>3, <1>4, <1>5, <1>6

\* The same for the user tunnel.
LEMMA TunnelTyped ==
    ASSUME NEW u \in UserTunnel
    PROVE  /\ TunnelClosed(u) \in UserTunnel /\ CloseStored(u) \in UserTunnel
           /\ [u EXCEPT !.flow = TRUE] \in UserTunnel
           /\ [u EXCEPT !.dialer = "made", !.open = TRUE] \in UserTunnel
           /\ [u EXCEPT !.dialer = "done", !.stored = TRUE] \in UserTunnel
<1>1. TunnelClosed(u) \in UserTunnel
  BY DEF TunnelClosed, UserTunnel
<1>2. CloseStored(u) \in UserTunnel
  BY <1>1 DEF CloseStored
<1> QED
  BY <1>1, <1>2 DEF UserTunnel

\* A worker moves on.
LEMMA BecomeTyped ==
    ASSUME IInv, NEW w \in Workers, NEW step \in Step, Become(w, step)
    PROVE  pc' \in [Workers -> Step] /\ (w # "routes" => pc'["routes"] = pc["routes"])
           /\ pc'[w] = step
BY DEF Become, IInv, Workers

\* A worker gets a buffer, or puts the one it holds back.
LEMMA BufferSteps ==
    ASSUME IInv, NEW w \in Workers
    PROVE  /\ GetPayloadBuffer(w) => BuffersInv(at', pool')
           /\ PutPayloadBuffer(w) => BuffersInv(at', pool')
<1>1. BuffersInv(at, pool) /\ w \in Places
  BY PlaceFacts DEF IInv
<1>2. ASSUME GetPayloadBuffer(w) PROVE BuffersInv(at', pool')
  <2>1. PICK b \in Pooled : at' = [at EXCEPT ![w] = <<b>>] /\ pool' = [pool EXCEPT ![b] = @ - 1]
    BY <1>2 DEF GetPayloadBuffer
  <2>2. b \in Objects /\ pool[b] > 0
    BY DEF Pooled
  <2> QED
    BY <1>1, <2>1, <2>2, GetKeeps
<1>3. ASSUME PutPayloadBuffer(w) PROVE BuffersInv(at', pool')
  <2> DEFINE e == <<>>
             Q == PooledWith(at[w])
  <2>1. at' = [at EXCEPT ![w] = e] /\ pool' = Q
    BY <1>3 DEF PutPayloadBuffer
  <2>2. Q = [b \in Objects |-> IF b \in Range(at[w]) \cap Buffers THEN pool[b] + 1 ELSE pool[b]]
    BY DEF PooledWith
  <2>3. e \in Seq(Objects) /\ Range(e) = {} /\ Once(e) /\ Len(e) = 0
    BY FewHeld
  <2>4. Len(at[w]) \in Nat
    BY <1>1, LenProperties DEF BuffersInv
  <2> HIDE DEF e, Q
  <2>5. Len(e) <= Len(at[w])
    BY <2>3, <2>4
  <2>6. /\ Range(at[w]) \subseteq Range(at[w]) /\ Range(e) \subseteq Range(at[w])
        /\ \A b \in Buffers : ~(b \in Range(at[w]) /\ b \in Range(e))
    BY <2>3
  <2>7. BuffersInv([at EXCEPT ![w] = e], Q)
    BY <1>1, <2>2, <2>3, <2>5, <2>6, PutKeeps
  <2> QED
    BY <2>1, <2>7
<1> QED
  BY <1>2, <1>3

\* A step of the data path.
LEMMA DataKeeps ==
    ASSUME IInv, UNCHANGED <<load, answers, routeVars>>, s' \in Session,
           pc' \in [Workers -> Step], user' \in UserTunnel, BuffersInv(at', pool'),
           pc'["routes"] = pc["routes"] \/ pc["routes"] # "sync"
    PROVE  IInv'
<1>1. RoutesTypeOK'
  BY DEF IInv, RoutesTypeOK, routeVars
<1>2. RoutesInv'
  <2>1. /\ health' = health /\ shown' = shown /\ routes' = routes /\ leases' = leases
    BY DEF routeVars
  <2>2. Wanted' = Wanted
    BY <2>1 DEF Wanted
  <2>3. Newest(health, shown)' = Newest(health, shown)
    BY <2>1 DEF Newest
  <2> QED
    BY <2>1, <2>2, <2>3 DEF IInv, RoutesInv
<1>3. load' \in Loads /\ answers' \in 0..Cap
  BY DEF IInv
<1> QED
  BY <1>1, <1>2, <1>3 DEF IInv

\* A worker that returns.
LEMMA ReturnKeeps ==
    ASSUME IInv, UNCHANGED <<load, answers, routeVars>>, NEW w \in Workers \ {"routes"},
           NEW session \in Session, NEW tunnel \in UserTunnel, Return(w, session, tunnel)
    PROVE  IInv'
<1>1. "gone" \in Step
  BY DEF Step
<1>2. s' \in Session /\ user' \in UserTunnel /\ Become(w, "gone") /\ PutPayloadBuffer(w)
  BY DEF Return
<1>3. BuffersInv(at', pool')
  BY <1>2, BufferSteps
<1>4. pc' \in [Workers -> Step] /\ pc'["routes"] = pc["routes"]
  BY <1>1, <1>2, BecomeTyped
<1> QED
  BY <1>2, <1>3, <1>4, DataKeeps

\* A worker that gets a buffer or puts one back and moves on.
LEMMA BufferKeeps ==
    ASSUME IInv, UNCHANGED <<load, answers, routeVars>>, NEW w \in Workers \ {"routes"},
           NEW step \in Step, Become(w, step), s' \in Session, user' \in UserTunnel,
           GetPayloadBuffer(w) \/ PutPayloadBuffer(w) \/ UNCHANGED <<at, pool>>
    PROVE  IInv'
<1>1. BuffersInv(at', pool')
  BY BufferSteps DEF IInv
<1>2. pc' \in [Workers -> Step] /\ pc'["routes"] = pc["routes"]
  BY BecomeTyped
<1> QED
  BY <1>1, <1>2, DataKeeps

\* A send on a channel and a receive from it.
LEMMA ChannelKeeps ==
    ASSUME IInv, UNCHANGED <<load, answers, routeVars>>, NEW w \in Workers \ {"routes"},
           NEW c \in Channels, NEW step \in Step, Send(w, c, step) \/ Receive(w, c, step)
    PROVE  IInv'
<1>1. BuffersInv(at, pool) /\ s \in Session /\ user \in UserTunnel
  BY DEF IInv
<1>2. UNCHANGED <<pool, s, user>> /\ Become(w, step)
  BY DEF Send, Receive
<1>3. BuffersInv(at', pool)
  <2>1. CASE Send(w, c, step)
    BY <1>1, <2>1, SendKeeps DEF Send
  <2>2. CASE Receive(w, c, step)
    BY <1>1, <2>2, ReceiveKeeps DEF Receive
  <2> QED
    BY <2>1, <2>2
<1>4. pc' \in [Workers -> Step] /\ pc'["routes"] = pc["routes"]
  BY <1>2, BecomeTyped
<1> QED
  BY <1>1, <1>2, <1>3, <1>4, DataKeeps

\* What the invariant says of the workers.
LEMMA WorkerFacts ==
    /\ IInv => s \in Session /\ user \in UserTunnel /\ BuffersInv(at, pool) /\ pc \in [Workers -> Step]
    /\ {"tlsR", "tlsW", "dtlsR", "dtlsW", "tun", "user", "in", "timer"} \subseteq Workers \ {"routes"}
    /\ {"in", "reply", "read", "idle", "write", "gone", "tls", "dtls", "route", "dns", "sync"} \subseteq Step
    /\ {"PayloadIn", "PayloadOutTLS", "PayloadOutDTLS"} \subseteq Channels
BY DEF IInv, Workers, Step, Channels

\* The timer sends its payloads, each when there is room.
LEMMA DpdTickKeeps ==
    ASSUME IInv, Data(DpdTick)
    PROVE  IInv'
<1> DEFINE T == "PayloadOutTLS"
           D == "PayloadOutDTLS"
           a == IF Len(at[T]) < Cap THEN Append(at[T], TlsDpd) ELSE at[T]
           b == IF s.dtlsConnected /\ Len(at[D]) < Cap THEN Append(at[D], DtlsDpd) ELSE at[D]
           A == [at EXCEPT ![T] = a]
           B == [A EXCEPT ![D] = b]
<1>1. at' = [at EXCEPT ![T] = a, ![D] = b] /\ UNCHANGED <<s, pc, pool, user>>
      /\ UNCHANGED <<load, answers, routeVars>>
  BY DEF Data, DpdTick
<1>2. T \in Channels /\ D \in Channels /\ T # D /\ T \in Places /\ D \in Places
  BY PlaceFacts
<1>3. BuffersInv(at, pool) /\ at \in [Places -> Seq(Objects)]
  BY DEF IInv, BuffersInv
<1>4. BuffersInv(A, pool)
  <2>1. CASE Len(at[T]) < Cap
    <3>1. A = [at EXCEPT ![T] = Append(at[T], TlsDpd)]
      BY <2>1
    <3> QED
      BY <1>2, <1>3, <2>1, <3>1, DpdKeeps
  <2>2. CASE ~(Len(at[T]) < Cap)
    <3>1. A = at
      BY <1>2, <1>3, <2>2
    <3> QED
      BY <1>3, <3>1
  <2> QED
    BY <2>1, <2>2
<1>5. A[D] = at[D] /\ A \in [Places -> Seq(Objects)]
  <2>1. A[D] = at[D]
    BY <1>2, <1>3
  <2> QED
    BY <1>4, <2>1 DEF BuffersInv
<1>6. at' = B
  BY <1>1, <1>2, <1>3
<1> HIDE DEF A
<1>7. BuffersInv(B, pool)
  <2>1. CASE s.dtlsConnected /\ Len(at[D]) < Cap
    <3>1. B = [A EXCEPT ![D] = Append(A[D], DtlsDpd)] /\ Len(A[D]) < Cap
      BY <1>5, <2>1
    <3> QED
      BY <1>2, <1>4, <3>1, DpdKeeps
  <2>2. CASE ~(s.dtlsConnected /\ Len(at[D]) < Cap)
    <3>1. B = A
      BY <1>2, <1>5, <2>2
    <3> QED
      BY <1>4, <3>1
  <2> QED
    BY <2>1, <2>2
<1>8. BuffersInv(at', pool')
  BY <1>1, <1>6, <1>7
<1> QED
  BY <1>1, <1>8, WorkerFacts, DataKeeps

\* A datagram leaves the channel; its buffer goes back to the pool.
LEMMA DatagramKeeps ==
    ASSUME IInv, at["PayloadOutDTLS"] # <<>>,
           at' = [at EXCEPT !["PayloadOutDTLS"] = Tail(@)],
           pool' = PooledWith(<<Head(at["PayloadOutDTLS"])>>)
    PROVE  BuffersInv(at', pool')
<1> DEFINE D == "PayloadOutDTLS"
           q == at[D]
           h == Head(q)
           t == Tail(q)
           g == <<h>>
           Q == PooledWith(g)
<1>1. D \in Channels /\ D \in Places
  BY PlaceFacts
<1>2. BuffersInv(at, pool) /\ q \in Seq(Objects) /\ Once(q) /\ q # <<>>
  BY <1>1 DEF IInv, BuffersInv, OneOwner
<1>3. /\ h \in Objects /\ h \in Range(q) /\ t \in Seq(Objects)
      /\ Range(t) \subseteq Range(q) /\ Once(t) /\ (h \in Buffers => h \notin Range(t))
      /\ Len(t) = Len(q) - 1 /\ Len(q) \in Nat
  BY <1>2, TakeFirst
<1>4. Range(g) = {h}
  BY <1>3, FewHeld
<1>5. Q = [b \in Objects |-> IF b \in Range(g) \cap Buffers THEN pool[b] + 1 ELSE pool[b]]
  BY DEF PooledWith
<1>6. at' = [at EXCEPT ![D] = t] /\ pool' = Q
  OBVIOUS
<1> HIDE DEF D, q, h, t, g, Q
<1>7. Len(t) <= Len(q)
  BY <1>3
<1>8. /\ Range(g) \subseteq Range(q) /\ \A b \in Buffers : ~(b \in Range(g) /\ b \in Range(t))
  BY <1>3, <1>4
<1>9. q = at[D]
  BY DEF q
<1>10. BuffersInv([at EXCEPT ![D] = t], Q)
  BY <1>1, <1>2, <1>3, <1>5, <1>7, <1>8, <1>9, PutKeeps
<1> QED
  BY <1>6, <1>10

\* Packets arrive.
LEMMA ArrivesKeeps ==
    ASSUME IInv, Data(Arrives)
    PROVE  IInv'
<1>0. UNCHANGED <<load, answers, routeVars>> /\ Arrives
  BY DEF Data
<1>1. CASE \E step \in {"in", "reply"} : TlsFrame(step)
  BY <1>0, <1>1, WorkerFacts, BufferKeeps DEF TlsFrame
<1>2. CASE \E step \in {"in", "reply"} : DtlsFrame(step)
  BY <1>0, <1>2, WorkerFacts, BufferKeeps DEF DtlsFrame
<1>3. ASSUME NEW w \in {"tun", "user"}, Packet(w) PROVE IInv'
  <2> DEFINE step == IF s.dtlsConnected THEN "dtls" ELSE "tls"
  <2>1. step \in Step /\ w \in Workers \ {"routes"}
    BY WorkerFacts
  <2>2. Become(w, step) /\ GetPayloadBuffer(w) /\ s' = s
        /\ user' = IF w = "user" THEN [user EXCEPT !.flow = TRUE] ELSE user
    BY <1>3 DEF Packet
  <2>3. user' \in UserTunnel /\ s' \in Session
    BY <2>2, WorkerFacts, TunnelTyped
  <2> HIDE DEF step
  <2> QED
    BY <1>0, <2>1, <2>2, <2>3, BufferKeeps
<1>4. CASE DpdTick
  BY <1>0, <1>4, DpdTickKeeps DEF Data
<1> QED
  BY <1>0, <1>1, <1>2, <1>3, <1>4 DEF Arrives

\* Sessions end, DTLS and the user tunnel come up.
LEMMA EnvironmentKeeps ==
    ASSUME IInv, Data(Environment)
    PROVE  IInv'
<1>0. UNCHANGED <<load, answers, routeVars>> /\ Environment
  BY DEF Data
<1>f. s \in Session /\ user \in UserTunnel /\ BuffersInv(at, pool) /\ pc \in [Workers -> Step]
  BY WorkerFacts
<1>1. CASE CloseSession
  BY <1>0, <1>f, <1>1, EndsTyped, DataKeeps DEF CloseSession
<1>2. CASE PeerDies
  BY <1>0, <1>f, <1>2, EndsTyped, DataKeeps DEF PeerDies
<1>3. CASE TlsReadFails
  BY <1>0, <1>f, <1>3, EndsTyped, WorkerFacts, ReturnKeeps DEF TlsReadFails
<1>4. CASE DtlsReady
  <2>1. pc' \in [Workers -> Step] /\ pc'["routes"] = pc["routes"]
    BY <1>f, <1>4 DEF DtlsReady, Workers, Step
  <2>2. s' \in Session /\ UNCHANGED <<at, pool, user>>
    BY <1>f, <1>4, EndsTyped DEF DtlsReady
  <2> QED
    BY <1>0, <1>f, <2>1, <2>2, DataKeeps
<1>5. CASE DtlsReadFails
  BY <1>0, <1>f, <1>5, EndsTyped, WorkerFacts, ReturnKeeps DEF DtlsReadFails
<1>6. CASE TunReadFails
  BY <1>0, <1>f, <1>6, EndsTyped, WorkerFacts, ReturnKeeps DEF TunReadFails
<1>7. CASE NewUserTunnel
  BY <1>0, <1>f, <1>7, TunnelTyped, WorkerFacts, BufferKeeps DEF NewUserTunnel
<1>8. CASE StoreUserTunnel
  BY <1>0, <1>f, <1>8, TunnelTyped, DataKeeps DEF StoreUserTunnel
<1> QED
  BY <1>0, <1>1, <1>2, <1>3, <1>4, <1>5, <1>6, <1>7, <1>8 DEF Environment

\* tlsChannel and its writer.
LEMMA TlsKeeps ==
    ASSUME IInv, Data(TlsReader) \/ Data(TlsWriter)
    PROVE  IInv'
<1>0. UNCHANGED <<load, answers, routeVars>> /\ (TlsReader \/ TlsWriter)
  BY DEF Data
<1>f. s \in Session /\ user \in UserTunnel /\ BuffersInv(at, pool) /\ pc \in [Workers -> Step]
  BY WorkerFacts
<1>1. CASE TlsOffer
  BY <1>0, <1>1, WorkerFacts, ChannelKeeps DEF TlsOffer
<1>2. CASE TlsOfferEnds
  BY <1>0, <1>f, <1>2, EndsTyped, WorkerFacts, ReturnKeeps DEF TlsOfferEnds
<1>3. CASE TlsReadEnds
  BY <1>0, <1>f, <1>3, EndsTyped, WorkerFacts, ReturnKeeps DEF TlsReadEnds
<1>4. CASE TlsTake
  BY <1>0, <1>4, WorkerFacts, ChannelKeeps DEF TlsTake
<1>5. CASE TlsTakeEnds
  BY <1>0, <1>f, <1>5, EndsTyped, WorkerFacts, ReturnKeeps DEF TlsTakeEnds
<1>6. CASE TlsWriteOk
  BY <1>0, <1>f, <1>6, WorkerFacts, BufferKeeps DEF TlsWriteOk
<1>7. CASE TlsWriteFails
  BY <1>0, <1>f, <1>7, EndsTyped, WorkerFacts, ReturnKeeps DEF TlsWriteFails
<1> QED
  BY <1>0, <1>1, <1>2, <1>3, <1>4, <1>5, <1>6, <1>7 DEF TlsReader, TlsWriter

\* dtlsChannel and its writer.
LEMMA DtlsKeeps ==
    ASSUME IInv, Data(DtlsReader) \/ Data(DtlsWriter)
    PROVE  IInv'
<1>0. UNCHANGED <<load, answers, routeVars>> /\ (DtlsReader \/ DtlsWriter)
  BY DEF Data
<1>f. s \in Session /\ user \in UserTunnel /\ BuffersInv(at, pool) /\ pc \in [Workers -> Step]
  BY WorkerFacts
<1>1. CASE DtlsDialFails
  BY <1>0, <1>f, <1>1, WorkerFacts, BufferKeeps DEF DtlsDialFails
<1>2. CASE DtlsOffer
  BY <1>0, <1>2, WorkerFacts, ChannelKeeps DEF DtlsOffer
<1>3. CASE DtlsOfferEnds
  BY <1>0, <1>f, <1>3, EndsTyped, WorkerFacts, ReturnKeeps DEF DtlsOfferEnds
<1>4. CASE DtlsReadEnds
  BY <1>0, <1>f, <1>4, EndsTyped, WorkerFacts, ReturnKeeps DEF DtlsReadEnds
<1>5. CASE DtlsWriteOk
  <2>1. BuffersInv(at', pool') /\ UNCHANGED <<s, pc, user>>
    BY <1>5, DatagramKeeps DEF DtlsWriteOk
  <2> QED
    BY <1>0, <1>f, <2>1, DataKeeps
<1>6. CASE DtlsWriteFails
  <2>1. BuffersInv(at', pool')
    BY <1>6, DatagramKeeps DEF DtlsWriteFails
  <2>2. s' \in Session /\ user' = user /\ Become("dtlsW", "gone")
    BY <1>f, <1>6, EndsTyped DEF DtlsWriteFails
  <2>3. pc' \in [Workers -> Step] /\ pc'["routes"] = pc["routes"]
    BY <2>2, WorkerFacts, BecomeTyped
  <2> QED
    BY <1>0, <1>f, <2>1, <2>2, <2>3, DataKeeps
<1>7. CASE DtlsTakeEnds
  BY <1>0, <1>f, <1>7, EndsTyped, WorkerFacts, ReturnKeeps DEF DtlsTakeEnds
<1> QED
  BY <1>0, <1>1, <1>2, <1>3, <1>4, <1>5, <1>6, <1>7 DEF DtlsReader, DtlsWriter

\* tunToPayloadOut and userTunToPayloadOut.
LEMMA SenderKeeps ==
    ASSUME IInv, NEW w \in {"tun", "user"}, Data(Sender(w))
    PROVE  IInv'
<1>0. UNCHANGED <<load, answers, routeVars>> /\ Sender(w)
  BY DEF Data
<1>f. /\ s \in Session /\ user \in UserTunnel /\ BuffersInv(at, pool) /\ pc \in [Workers -> Step]
      /\ w \in Workers \ {"routes"} /\ "user" \in Workers \ {"routes"}
  BY WorkerFacts
<1>1. CASE SendDtls(w) \/ SendTls(w)
  BY <1>0, <1>f, <1>1, WorkerFacts, ChannelKeeps DEF SendDtls, SendTls
<1>2. CASE FallBack(w)
  BY <1>0, <1>f, <1>2, WorkerFacts, BufferKeeps DEF FallBack
<1>3. ASSUME NEW x \in {"tun", "user"}, SenderEnds(x) PROVE IInv'
  <2> DEFINE u == IF x = "user" THEN TunnelClosed(user) ELSE user
  <2>1. u \in UserTunnel /\ Return(x, s, u) /\ x \in Workers \ {"routes"}
    BY <1>f, <1>3, TunnelTyped, WorkerFacts DEF SenderEnds
  <2> HIDE DEF u
  <2> QED
    BY <1>0, <1>f, <2>1, ReturnKeeps
<1>4. CASE SendEnds(w)
  BY <1>3, <1>4 DEF SendEnds
<1>5. CASE TunReadEnds
  BY <1>0, <1>f, <1>5, EndsTyped, WorkerFacts, ReturnKeeps DEF TunReadEnds
<1>6. CASE UserReadEnds
  BY <1>3, <1>6 DEF UserReadEnds
<1> QED
  BY <1>0, <1>1, <1>2, <1>4, <1>5, <1>6 DEF Sender

\* payloadInToTun, without the answers it hands on.
LEMMA InWorkerKeeps ==
    ASSUME IInv, Data(InWorker)
    PROVE  IInv'
<1>0. UNCHANGED <<load, answers, routeVars>> /\ InWorker
  BY DEF Data
<1>f. s \in Session /\ user \in UserTunnel /\ BuffersInv(at, pool) /\ pc \in [Workers -> Step]
  BY WorkerFacts
<1>1. CASE TakeIn
  BY <1>0, <1>1, WorkerFacts, ChannelKeeps DEF TakeIn
<1>2. CASE InReturns
  BY <1>0, <1>f, <1>2, EndsTyped, TunnelTyped, WorkerFacts, ReturnKeeps DEF InReturns
<1>3. CASE ToUser
  BY <1>0, <1>f, <1>3, WorkerFacts, BufferKeeps DEF ToUser
<1>4. CASE WriteOk
  BY <1>0, <1>f, <1>4, WorkerFacts, BufferKeeps DEF WriteOk
<1>5. ASSUME NEW step \in {"write", "dns"}, NotToUser(step) PROVE IInv'
  <2>1. user' \in UserTunnel /\ s' = s /\ UNCHANGED <<at, pool>> /\ Become("in", step)
    BY <1>f, <1>5, TunnelTyped DEF NotToUser
  <2> QED
    BY <1>0, <1>f, <2>1, WorkerFacts, BufferKeeps
<1>6. CASE TakeInEnds \/ WriteFails
  BY <1>2, <1>6 DEF TakeInEnds, WriteFails
<1> QED
  BY <1>0, <1>1, <1>3, <1>4, <1>5, <1>6 DEF InWorker

\* The timer and the route worker stop, the device is closed.
LEMMA StopsKeeps ==
    ASSUME IInv, Data(Stops)
    PROVE  IInv'
<1>0. UNCHANGED <<load, answers, routeVars>> /\ Stops
  BY DEF Data
<1>f. s \in Session /\ user \in UserTunnel /\ BuffersInv(at, pool) /\ pc \in [Workers -> Step]
  BY WorkerFacts
<1>1. CASE WorkerStops("timer")
  BY <1>0, <1>f, <1>1, WorkerFacts, BufferKeeps DEF WorkerStops
<1>2. CASE WorkerStops("routes")
  <2>1. "routes" \in Workers /\ "gone" \in Step
    BY DEF Workers, Step
  <2>2. pc' \in [Workers -> Step] /\ pc["routes"] # "sync" /\ UNCHANGED <<s, at, pool, user>>
    BY <1>2, <2>1, BecomeTyped DEF WorkerStops
  <2> QED
    BY <1>0, <1>f, <2>2, DataKeeps
<1>3. CASE CloseDevice
  BY <1>0, <1>f, <1>3, EndsTyped, DataKeeps DEF CloseDevice
<1> QED
  BY <1>0, <1>1, <1>2, <1>3 DEF Stops

-----------------------------------------------------------------------------
(* The route worker and the health reports.                                 *)

Reports == {"ok", "err"}

\* A recorded report is the newest one, and the channel does not overflow.
LEMMA RecordedFacts ==
    ASSUME NEW h \in Seq(Reports), Len(h) <= HealthCap, NEW r \in Reports
    PROVE  /\ Recorded(h, r) \in Seq(Reports) /\ Len(Recorded(h, r)) <= HealthCap
           /\ \A x : Newest(Recorded(h, r), x) = r
<1> DEFINE k == IF Len(h) < HealthCap THEN h ELSE Tail(h)
<1>1. HealthCap \in Nat \ {0} /\ Len(h) \in Nat
  BY RoutesAssumption, LenProperties
<1>2. k \in Seq(Reports) /\ Len(k) + 1 <= HealthCap /\ Len(k) \in Nat
  <2>1. CASE Len(h) < HealthCap
    <3>n. PICK n \in Nat : n = Len(h)
      BY <1>1
    <3>1. n + 1 <= HealthCap
      BY <1>1, <2>1, <3>n
    <3> QED
      BY <1>1, <2>1, <3>1, <3>n
  <2>2. CASE ~(Len(h) < HealthCap)
    <3>n. PICK n \in Nat : n = Len(h)
      BY <1>1
    <3>1. n = HealthCap /\ n # 0
      BY <1>1, <2>2, <3>n
    <3>2. h # <<>>
      BY <3>1, <3>n, EmptySeq
    <3>3. Tail(h) \in Seq(Reports) /\ Len(Tail(h)) = n - 1
      BY <3>2, <3>n, HeadTailProperties
    <3>4. n - 1 \in Nat /\ (n - 1) + 1 <= HealthCap
      BY <3>1
    <3> QED
      BY <2>2, <3>3, <3>4
  <2> QED
    BY <2>1, <2>2
<1>3. Recorded(h, r) = Append(k, r)
  BY DEF Recorded
<1> HIDE DEF k
<1>4. /\ Append(k, r) \in Seq(Reports) /\ Append(k, r) # <<>> /\ Len(Append(k, r)) = Len(k) + 1
      /\ Append(k, r)[Len(k) + 1] = r
  BY <1>2, AppendProperties
<1> QED
  BY <1>2, <1>3, <1>4 DEF Newest

\* The routes that leases ask for.
LEMMA WantedTyped ==
    ASSUME RoutesTypeOK
    PROVE  Wanted \in [Tables -> SUBSET Addrs]
<1>1. \A d \in Domains : leases[d].addrs \subseteq Addrs
  BY DEF RoutesTypeOK, Lease
<1>2. \A t \in Tables : UNION {leases[d].addrs : d \in {x \in Domains : Table(x) = t}} \subseteq Addrs
  BY <1>1
<1> QED
  BY <1>2 DEF Wanted

\* A step that touches the routes only.
LEMMA RoutesKeep ==
    ASSUME IInv, load' = load, answers' \in 0..Cap, UNCHANGED <<s, at, pool, user>>,
           pc' \in [Workers -> Step], RoutesTypeOK', RoutesInv'
    PROVE  IInv'
<1>1. BuffersInv(at', pool') /\ s' \in Session /\ user' \in UserTunnel /\ load' \in Loads
  BY DEF IInv
<1> QED
  BY <1>1 DEF IInv

\* The route worker is at another step.
LEMMA RouteWorkerTyped ==
    ASSUME IInv, NEW step \in {"idle", "sync"}, RouteWorker(step)
    PROVE  pc' \in [Workers -> Step] /\ pc'["routes"] = step /\ UNCHANGED <<s, at, pool, user>>
<1>1. "routes" \in Workers /\ step \in Step
  BY DEF Workers, Step
<1> QED
  BY <1>1, BecomeTyped DEF RouteWorker

\* A refused answer is reported as an error.
LEMMA RefuseFacts ==
    ASSUME IInv, NEW a, Refuse(a)
    PROVE  RoutesTypeOK' /\ RoutesInv'
<1>1. health \in Seq(Reports) /\ Len(health) <= HealthCap /\ RoutesTypeOK
  BY DEF IInv, RoutesTypeOK, Reports
<1>2. health' = Recorded(health, "err") /\ UNCHANGED <<leases, routes, shown>>
  BY DEF Refuse
<1>3. health' \in Seq(Reports) /\ Len(health') <= HealthCap /\ \A x : Newest(health', x) = "err"
  BY <1>1, <1>2, RecordedFacts DEF Reports
<1>4. RoutesTypeOK'
  BY <1>1, <1>2, <1>3 DEF RoutesTypeOK, Reports
<1>5. Newest(health, shown)' = "err"
  BY <1>3
<1> QED
  BY <1>4, <1>5 DEF RoutesInv

\* A granted answer makes a lease, and a reconciliation due.
LEMMA GrantFacts ==
    ASSUME IInv, NEW a \in Answer, ~Ignored(a), Grant(a), pc'["routes"] = "sync"
    PROVE  RoutesTypeOK' /\ RoutesInv'
<1> DEFINE l == [addrs |-> a.addrs, left |-> Clamp(a.ttl)]
<1>1. a.name \in Domains /\ a.addrs \subseteq Addrs /\ a.ttl \in Nat
  BY RoutesAssumption DEF Ignored, Answer
<1>2. Clamp(a.ttl) \in 0..MaxTTL
  BY <1>1, RoutesAssumption DEF Clamp
<1>3. l \in Lease
  BY <1>1, <1>2 DEF Lease
<1>4. leases' = [leases EXCEPT ![a.name] = l] /\ UNCHANGED <<routes, health, shown>>
  BY DEF Grant
<1>5. RoutesTypeOK
  BY DEF IInv
<1> HIDE DEF l
<1>6. RoutesTypeOK'
  BY <1>1, <1>3, <1>4, <1>5 DEF RoutesTypeOK
<1> QED
  BY <1>6 DEF RoutesInv

\* The same when leases expire.
LEMMA ExpireFacts ==
    ASSUME IInv, Expire, pc'["routes"] = "sync"
    PROVE  RoutesTypeOK' /\ RoutesInv'
<1>1. leases' = [d \in Domains |-> IF d \in Expired THEN NoLease ELSE leases[d]]
      /\ UNCHANGED <<routes, health, shown>> /\ RoutesTypeOK
  BY DEF Expire, IInv
<1>2. NoLease \in Lease
  BY RoutesAssumption DEF NoLease, Lease
<1>3. leases' \in [Domains -> Lease]
  BY <1>1, <1>2 DEF RoutesTypeOK
<1>4. RoutesTypeOK'
  BY <1>1, <1>3 DEF RoutesTypeOK
<1> QED
  BY <1>4 DEF RoutesInv

\* A reconciliation leaves the routes of the leases, or reports an error.
LEMMA ReconcileFacts ==
    ASSUME IInv, ReconcileOk \/ ReconcileFails
    PROVE  RoutesTypeOK' /\ RoutesInv'
<1>1. health \in Seq(Reports) /\ Len(health) <= HealthCap /\ RoutesTypeOK
  BY DEF IInv, RoutesTypeOK, Reports
<1>2. Wanted \in [Tables -> SUBSET Addrs]
  BY <1>1, WantedTyped
<1>3. CASE ReconcileOk
  <2>1. routes' = Wanted /\ health' = Recorded(health, "ok") /\ UNCHANGED <<leases, shown>>
    BY <1>3 DEF ReconcileOk
  <2>2. health' \in Seq(Reports) /\ Len(health') <= HealthCap
    BY <1>1, <2>1, RecordedFacts DEF Reports
  <2>3. RoutesTypeOK'
    BY <1>1, <1>2, <2>1, <2>2 DEF RoutesTypeOK, Reports
  <2>4. Wanted' = Wanted
    BY <2>1 DEF Wanted
  <2> QED
    BY <2>1, <2>3, <2>4 DEF RoutesInv
<1>4. CASE ReconcileFails
  <2>1. health' = Recorded(health, "err") /\ UNCHANGED <<leases, shown>>
    BY <1>4 DEF ReconcileFails
  <2>2. health' \in Seq(Reports) /\ Len(health') <= HealthCap /\ \A x : Newest(health', x) = "err"
    BY <1>1, <2>1, RecordedFacts DEF Reports
  <2>3. PICK p \in OnTheWay(routes["include"], Wanted["include"]),
             q \in OnTheWay(routes["exclude"], Wanted["exclude"]) :
             routes' = [t \in Tables |-> IF t = "include" THEN p ELSE q]
    BY <1>4 DEF ReconcileFails
  <2>4. "include" \in Tables /\ "exclude" \in Tables
    BY DEF Tables
  <2>5. p \subseteq Addrs /\ q \subseteq Addrs
    BY <1>1, <1>2, <2>3, <2>4 DEF OnTheWay, RoutesTypeOK
  <2>6. routes' \in [Tables -> SUBSET Addrs]
    BY <2>3, <2>5
  <2>7. RoutesTypeOK'
    BY <1>1, <2>1, <2>2, <2>6 DEF RoutesTypeOK, Reports
  <2>8. Newest(health, shown)' = "err"
    BY <2>2
  <2> QED
    BY <2>7, <2>8 DEF RoutesInv
<1> QED
  BY <1>3, <1>4

\* Time passes: the leases keep their addresses.
LEMMA AgeKeeps ==
    ASSUME IInv, Age, UNCHANGED <<load, answers, dataVars>>
    PROVE  IInv'
<1>1. /\ leases' = [d \in Domains |-> [leases[d] EXCEPT !.left = IF @ > 0 THEN @ - 1 ELSE 0]]
      /\ UNCHANGED <<routes, health, shown>> /\ RoutesTypeOK
  BY DEF Age, IInv
<1>2. ASSUME NEW x \in Domains PROVE leases'[x] \in Lease /\ leases'[x].addrs = leases[x].addrs
  <2> DEFINE n == IF leases[x].left > 0 THEN leases[x].left - 1 ELSE 0
  <2>1. leases[x] \in Lease /\ leases[x].left \in 0..MaxTTL /\ MaxTTL \in Nat
    BY <1>1, RoutesAssumption DEF RoutesTypeOK, Lease
  <2>2. n \in 0..MaxTTL
    BY <2>1
  <2>3. leases'[x] = [leases[x] EXCEPT !.left = n]
    BY <1>1
  <2> HIDE DEF n
  <2> QED
    BY <2>1, <2>2, <2>3 DEF Lease
<1>3. leases' \in [Domains -> Lease]
  <2>1. leases' = [d \in Domains |-> leases'[d]]
    BY <1>1
  <2> QED
    BY <1>2, <2>1
<1>4. RoutesTypeOK'
  BY <1>1, <1>3 DEF RoutesTypeOK
<1>5. Wanted' = Wanted
  <2>1. ASSUME NEW t \in Tables
        PROVE UNION {leases'[d].addrs : d \in {x \in Domains : Table(x) = t}}
                = UNION {leases[d].addrs : d \in {x \in Domains : Table(x) = t}}
    BY <1>2
  <2> QED
    BY <2>1 DEF Wanted, Table
<1>6. Newest(health, shown)' = Newest(health, shown) /\ UNCHANGED <<s, at, pool, user, pc>>
  BY <1>1 DEF Newest, dataVars
<1>7. RoutesInv'
  BY <1>1, <1>5, <1>6 DEF IInv, RoutesInv
<1>8. pc' \in [Workers -> Step] /\ answers' \in 0..Cap /\ load' = load
  BY <1>6 DEF IInv
<1> QED
  BY <1>4, <1>6, <1>7, <1>8, RoutesKeep

\* The daemon hears a report; the newest one stays the newest.
LEMMA ReportKeeps ==
    ASSUME IInv, ReportHealth, UNCHANGED <<load, answers, dataVars>>
    PROVE  IInv'
<1>1. /\ health # <<>> /\ shown' = Head(health) /\ health' = Tail(health)
      /\ UNCHANGED <<leases, routes>> /\ RoutesTypeOK
  BY DEF ReportHealth, IInv
<1>2. health \in Seq(Reports) /\ Len(health) <= HealthCap
  BY <1>1 DEF RoutesTypeOK, Reports
<1>n. PICK n \in Nat : n = Len(health) /\ n # 0
  BY <1>1, <1>2, EmptySeq
<1>3. /\ Head(health) \in Reports /\ health' \in Seq(Reports) /\ Len(health') = n - 1
      /\ Head(health) = health[1] /\ \A i \in 1..(n - 1) : health'[i] = health[i + 1]
  <2>1. /\ Head(health) \in Reports /\ Tail(health) \in Seq(Reports) /\ Len(Tail(health)) = Len(health) - 1
        /\ \A i \in 1..Len(Tail(health)) : Tail(health)[i] = health[i + 1]
    BY <1>1, <1>2, HeadTailProperties
  <2>2. Len(Tail(health)) = n - 1
    BY <1>n, <2>1
  <2>3. Head(health) = health[1]
    BY <1>1, <1>2
  <2>4. \A i \in 1..(n - 1) : Tail(health)[i] = health[i + 1]
    BY <2>1, <2>2
  <2> QED
    BY <1>1, <2>1, <2>2, <2>3, <2>4, Zenon
<1>4. Newest(health, shown)' = Newest(health, shown)
  <2>1. CASE health' = <<>>
    <3>1. n = 1
      BY <1>3, <1>n, <2>1, EmptySeq
    <3> QED
      BY <1>1, <1>3, <1>n, <2>1, <3>1 DEF Newest
  <2>2. CASE health' # <<>>
    <3>1. n - 1 \in Nat \ {0}
      BY <1>3, <2>2, EmptySeq
    <3>2. n - 1 \in 1..(n - 1) /\ (n - 1) + 1 = n
      BY <3>1
    <3>3. health'[n - 1] = health[n]
      BY <1>3, <3>2
    <3> QED
      BY <1>1, <1>3, <1>n, <2>2, <3>3 DEF Newest
  <2> QED
    BY <2>1, <2>2
<1>5. Wanted' = Wanted
  BY <1>1 DEF Wanted
<1>6. UNCHANGED <<s, at, pool, user, pc>>
  BY DEF dataVars
<1>7. RoutesInv'
  BY <1>1, <1>4, <1>5, <1>6 DEF IInv, RoutesInv
<1>8. RoutesTypeOK'
  <2>1. n - 1 <= HealthCap
    BY <1>2, <1>n, RoutesAssumption
  <2> QED
    BY <1>1, <1>3, <2>1 DEF RoutesTypeOK, Reports
<1>9. pc' \in [Workers -> Step] /\ answers' \in 0..Cap /\ load' = load
  BY <1>6 DEF IInv
<1> QED
  BY <1>6, <1>7, <1>8, <1>9, RoutesKeep

\* The route worker takes an answer, looks for expired leases, reconciles.
LEMMA RoutesWorkerKeeps ==
    ASSUME IInv, RoutesWorker
    PROVE  IInv'
<1>1. ASSUME NEW a \in Answer, TakeAnswer(a), load' = load PROVE IInv'
  <2>1. answers' \in 0..Cap
    <3>1. answers \in 0..Cap /\ answers > 0 /\ answers' = answers - 1 /\ Cap \in Nat
      BY <1>1, DatapathAssumption DEF TakeAnswer, IInv
    <3> QED
      BY <3>1
  <2>2. CASE Ignored(a) /\ RouteWorker("idle") /\ UNCHANGED routeVars
    <3>1. pc' \in [Workers -> Step] /\ pc'["routes"] = "idle" /\ UNCHANGED <<s, at, pool, user>>
      BY <2>2, RouteWorkerTyped
    <3>2. UNCHANGED <<leases, routes, health, shown>> /\ pc["routes"] # "sync"
      BY <1>1, <2>2 DEF routeVars, TakeAnswer
    <3>3. Wanted' = Wanted /\ Newest(health, shown)' = Newest(health, shown)
      BY <3>2 DEF Wanted, Newest
    <3>4. RoutesTypeOK' /\ RoutesInv'
      BY <3>2, <3>3 DEF IInv, RoutesTypeOK, RoutesInv
    <3> QED
      BY <1>1, <2>1, <3>1, <3>4, RoutesKeep
  <2>3. CASE ~Ignored(a) /\ Refuse(a) /\ RouteWorker("idle")
    <3>1. pc' \in [Workers -> Step] /\ UNCHANGED <<s, at, pool, user>>
      BY <2>3, RouteWorkerTyped
    <3> QED
      BY <1>1, <2>1, <2>3, <3>1, RefuseFacts, RoutesKeep
  <2>4. CASE ~Ignored(a) /\ Grant(a) /\ RouteWorker("sync")
    <3>1. pc' \in [Workers -> Step] /\ pc'["routes"] = "sync" /\ UNCHANGED <<s, at, pool, user>>
      BY <2>4, RouteWorkerTyped
    <3> QED
      BY <1>1, <2>1, <2>4, <3>1, GrantFacts, RoutesKeep
  <2> QED
    BY <1>1, <2>2, <2>3, <2>4 DEF TakeAnswer
<1>2. ASSUME RoutesTick, UNCHANGED <<load, answers>> PROVE IInv'
  <2>1. pc' \in [Workers -> Step] /\ pc'["routes"] = "sync" /\ UNCHANGED <<s, at, pool, user>>
    BY <1>2, RouteWorkerTyped DEF RoutesTick
  <2>2. RoutesTypeOK' /\ RoutesInv'
    BY <1>2, <2>1, ExpireFacts DEF RoutesTick
  <2>3. answers' \in 0..Cap
    BY <1>2 DEF IInv
  <2> QED
    BY <1>2, <2>1, <2>2, <2>3, RoutesKeep
<1>3. ASSUME Reconcile, UNCHANGED <<load, answers>> PROVE IInv'
  <2>1. pc' \in [Workers -> Step] /\ UNCHANGED <<s, at, pool, user>>
    BY <1>3, RouteWorkerTyped DEF Reconcile
  <2>2. RoutesTypeOK' /\ RoutesInv'
    BY <1>3, ReconcileFacts DEF Reconcile
  <2>3. answers' \in 0..Cap
    BY <1>3 DEF IInv
  <2> QED
    BY <1>3, <2>1, <2>2, <2>3, RoutesKeep
<1> QED
  BY <1>1, <1>2, <1>3 DEF RoutesWorker

\* payloadInToTun hands an answer to the route worker.
LEMMA SendAnswerKeeps ==
    ASSUME IInv, SendAnswer, UNCHANGED <<load, routeVars>>
    PROVE  IInv'
<1>1. answers' \in 0..Cap
  BY DatapathAssumption DEF SendAnswer, IInv
<1>2. pc' \in [Workers -> Step] /\ pc'["routes"] = pc["routes"] /\ UNCHANGED <<s, at, pool, user>>
  BY WorkerFacts, BecomeTyped DEF SendAnswer
<1>3. UNCHANGED <<leases, routes, health, shown>>
  BY DEF routeVars
<1>4. Wanted' = Wanted /\ Newest(health, shown)' = Newest(health, shown)
  BY <1>3 DEF Wanted, Newest
<1>5. RoutesTypeOK' /\ RoutesInv'
  BY <1>2, <1>3, <1>4 DEF IInv, RoutesTypeOK, RoutesInv
<1> QED
  BY <1>1, <1>2, <1>5, RoutesKeep

-----------------------------------------------------------------------------
(* The theorems.                                                            *)

\* The invariant holds at the start.
LEMMA InvInit ==
    ASSUME Init
    PROVE  IInv
<1> DEFINE e == <<>>
<1>1. s \in Session /\ user \in UserTunnel /\ load \in Loads
  BY DEF Init, Session, UserTunnel
<1>2. pc \in [Workers -> Step]
  BY DEF Init, Workers, Step
<1>3. answers \in 0..Cap
  BY DatapathAssumption DEF Init
<1>4. at = [p \in Places |-> e] /\ pool = [b \in Objects |-> IF b \in Buffers THEN 1 ELSE 0]
  BY DEF Init
<1>5. e \in Seq(Objects) /\ Range(e) = {} /\ Once(e) /\ Len(e) = 0
  BY FewHeld
<1> HIDE DEF e
<1>6. /\ at \in [Places -> Seq(Objects)] /\ \A p \in Places : at[p] = e
      /\ pool \in [Objects -> 0..2] /\ \A b \in Objects : pool[b] = IF b \in Buffers THEN 1 ELSE 0
  BY <1>4, <1>5
<1>7. OneOwner(at, pool)
  BY <1>5, <1>6, ObjectFacts DEF OneOwner
<1>8. BuffersInv(at, pool)
  <2>1. 0 <= Cap /\ 0 <= 1
    BY DatapathAssumption
  <2> QED
    BY <1>5, <1>6, <1>7, <2>1, PlaceFacts DEF BuffersInv
<1>9. RoutesTypeOK /\ RoutesInv
  <2> DEFINE f == <<>>
  <2>1. leases = [d \in Domains |-> NoLease] /\ routes = [t \in Tables |-> {}] /\ health = f
        /\ shown = "ok"
    BY DEF Init, RoutesInit
  <2>2. NoLease \in Lease /\ NoLease.addrs = {}
    BY RoutesAssumption DEF NoLease, Lease
  <2>3. f \in Seq({"ok", "err"}) /\ Len(f) = 0 /\ 0 <= HealthCap
    BY RoutesAssumption
  <2> HIDE DEF f
  <2>4. RoutesTypeOK
    BY <2>1, <2>2, <2>3 DEF RoutesTypeOK
  <2>5. \A d \in Domains : leases[d].addrs = {}
    BY <2>1, <2>2
  <2>6. \A t \in Tables : UNION {leases[d].addrs : d \in {x \in Domains : Table(x) = t}} = {}
    BY <2>5
  <2>7. Wanted = routes
    BY <2>1, <2>6 DEF Wanted
  <2> QED
    BY <2>4, <2>7 DEF RoutesInv
<1> QED
  BY <1>1, <1>2, <1>3, <1>8, <1>9 DEF IInv

\* Every step keeps it.
LEMMA InvNext ==
    ASSUME IInv, [Next]_vars
    PROVE  IInv'
<1>1. CASE Data(Arrives) \/ Data(Environment)
  BY <1>1, ArrivesKeeps, EnvironmentKeeps
<1>2. CASE Data(TlsReader) \/ Data(TlsWriter) \/ Data(DtlsReader) \/ Data(DtlsWriter)
  BY <1>2, TlsKeeps, DtlsKeeps
<1>3. CASE Data(Sender("tun")) \/ Data(Sender("user"))
  BY <1>3, SenderKeeps
<1>4. CASE InStep
  BY <1>4, InWorkerKeeps, SendAnswerKeeps DEF InStep
<1>5. CASE RoutesWorker
  BY <1>5, RoutesWorkerKeeps
<1>6. CASE Data(Stops)
  BY <1>6, StopsKeeps
<1>7. CASE (Age \/ ReportHealth) /\ UNCHANGED <<load, answers, dataVars>>
  BY <1>7, AgeKeeps, ReportKeeps
<1>8. CASE UNCHANGED vars
  <2>1. UNCHANGED <<load, answers, routeVars>> /\ UNCHANGED <<s, pc, at, pool, user>>
    BY <1>8 DEF vars, routeVars
  <2> QED
    BY <2>1, WorkerFacts, DataKeeps
<1> QED
  BY <1>1, <1>2, <1>3, <1>4, <1>5, <1>6, <1>7, <1>8 DEF Next

\* The invariant holds always.
LEMMA InvAlways == Spec => []IInv
<1>1. Init => IInv
  BY InvInit
<1>2. IInv /\ [Next]_vars => IInv'
  BY InvNext
<1> QED
  BY <1>1, <1>2, PTL DEF Spec

\* Every variable keeps its type: a worker holds at most one buffer and no channel exceeds
\* its capacity.
THEOREM TypeCorrect == Spec => [](TypeOK)
<1>1. IInv => TypeOK
  BY DEF IInv, TypeOK, BuffersInv, Session, UserTunnel
<1> QED
  BY <1>1, InvAlways, PTL

\* A packet buffer has one owner, on every path of the workers, and the payloads of the DPD
\* timer never get into the pool of putPayloadBuffer.
THEOREM BuffersAlwaysOwned == Spec => [](BuffersOwned)
<1>1. IInv => BuffersOwned
  <2> SUFFICES ASSUME IInv PROVE BuffersOwned
    OBVIOUS
  <2>1. OneOwner(at, pool) /\ pool \in [Objects -> 0..2]
    BY DEF IInv, BuffersInv
  <2>2. ASSUME NEW b \in Buffers PROVE Copies(b) <= 1
    <3> DEFINE H == {p \in Places : b \in Range(at[p])}
    <3>1. pool[b] \in Nat /\ b \in Objects
      BY <2>1, ObjectFacts
    <3>2. CASE H = {}
      <4>1. Cardinality(H) = 0
        BY <3>2, FS_EmptySet
      <4>2. pool[b] = 0 \/ pool[b] = 1
        BY <2>1 DEF OneOwner
      <4> QED
        BY <4>1, <4>2 DEF Copies
    <3>3. CASE H # {}
      <4>1. PICK p \in Places : b \in Range(at[p])
        BY <3>3
      <4>2. H = {p} /\ pool[b] = 0
        BY <2>1, <4>1 DEF OneOwner
      <4>3. Cardinality(H) = 1
        BY <4>2, FS_Singleton
      <4> QED
        BY <4>2, <4>3 DEF Copies
    <3> QED
      BY <3>2, <3>3
  <2> QED
    BY <2>1, <2>2 DEF BuffersOwned, OneOwner
<1> QED
  BY <1>1, InvAlways, PTL

\* While the daemon shows healthy routes and no report is on its way, the kernel has the
\* host routes of the current leases: recordNetworkHealth drops the oldest report only.
THEOREM RoutesAlwaysHealthy == Spec => [](HealthyRoutes)
<1>1. IInv => HealthyRoutes
  BY DEF IInv, RoutesInv, HealthyRoutes, Newest
<1> QED
  BY <1>1, InvAlways, PTL

=============================================================================
