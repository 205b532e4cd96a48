-------------------------- MODULE AlgorithmsProofs --------------------------
(***************************************************************************)
(* Proofs about the algorithms, for inputs of any length.  A call's result *)
(* is a fold over its input; the induction along the input is done once,   *)
(* on the recursive function by which FoldLeft is defined (FoldExists),    *)
(* and gives for each fold the values that it runs through.                *)
(***************************************************************************)
EXTENDS Algorithms, WellFoundedInduction, SequenceTheorems, FiniteSetTheorems, TLAPS

(* Induction and folds.                                                     *)

LEMMA LeastOfNat ==
  ASSUME NEW S, S \subseteq Nat, S # {}
  PROVE  \E x \in S : \A y \in S : x <= y
<1> DEFINE R == OpToRel(<, Nat)
<1>1. IsWellFoundedOn(R, Nat)
  BY NatLessThanWellFounded
<1>2. \A x, y \in Nat : y < x => <<y, x>> \in R
  BY DEF OpToRel
<1> HIDE DEF R
<1>3. \E x \in S : \A y \in S : <<y, x>> \notin R
  BY <1>1, WFMin
<1>4. \A x, y \in Nat : ~(y < x) => x <= y
  OBVIOUS
<1> QED
  BY <1>2, <1>3, <1>4

LEMMA NatSetInduction ==
  ASSUME NEW S, 0 \in S, \A n \in Nat : n \in S => n + 1 \in S
  PROVE  Nat \subseteq S
<1> SUFFICES ASSUME Nat \ S # {}
             PROVE  FALSE
  OBVIOUS
<1>1. PICK x \in Nat \ S : \A y \in Nat \ S : x <= y
  BY LeastOfNat
<1>2. x # 0 /\ x - 1 \in Nat /\ ~(x <= x - 1)
  BY <1>1
<1> QED
  BY <1>1, <1>2

LEMMA IntervalInduction ==
  ASSUME NEW m \in Nat, NEW D, 0 \in D,
         \A k \in Nat : k + 1 <= m /\ k \in D => k + 1 \in D
  PROVE  0 .. m \subseteq D
<1> DEFINE E == {k \in Nat : k <= m => k \in D}
<1>1. 0 \in E
  OBVIOUS
<1>2. ASSUME NEW k \in Nat, k \in E
      PROVE  k + 1 \in E
  BY <1>2
<1>3. Nat \subseteq E
  <2> HIDE DEF E
  <2> QED
    BY <1>1, <1>2, NatSetInduction
<1> QED
  BY <1>3

LEMMA MaxOfInterval ==
  ASSUME NEW n \in Nat, NEW T \in SUBSET (1 .. n + 1), n + 1 \in T
  PROVE  Max(T) = n + 1
<1>1. \A x \in T : (\A y \in T : x >= y) => x = n + 1
  OBVIOUS
<1>2. \A y \in T : n + 1 >= y
  OBVIOUS
<1> QED
  BY <1>1, <1>2 DEF Max

\* it is the recursive function by which FoldLeft is defined, for the first
\* n elements of s.
Iterates(it, F, base, s, n) ==
  /\ it[{}] = base
  /\ \A T \in SUBSET (1 .. n) :
       T # {} => it[T] = F[<<it[T \ {Max(T)}], s[Max(T)]>>]

LEMMA FoldExists ==
  ASSUME NEW A, NEW B, NEW F \in [A \X B -> A], NEW base \in A,
         NEW m \in Nat, NEW s \in [1 .. m -> B]
  PROVE  \E it \in [SUBSET (1 .. m) -> A] : Iterates(it, F, base, s, m)
<1> DEFINE P(n) == \E it \in [SUBSET (1 .. n) -> A] : Iterates(it, F, base, s, n)
           D == {n \in Nat : n <= m => P(n)}
<1>1. 0 \in D
  <2> DEFINE it == [T \in SUBSET (1 .. 0) |-> base]
  <2>1. it \in [SUBSET (1 .. 0) -> A] /\ Iterates(it, F, base, s, 0)
    BY 1 .. 0 = {} DEF Iterates
  <2> HIDE DEF it
  <2> QED BY <2>1
<1>2. ASSUME NEW n \in Nat, n \in D PROVE n + 1 \in D
  <2> SUFFICES ASSUME n + 1 <= m
               PROVE  P(n + 1)
    BY n + 1 \in Nat
  <2>0. P(n)
    <3> HIDE DEF P
    <3> QED
      BY <1>2
  <2>1. PICK it \in [SUBSET (1 .. n) -> A] : Iterates(it, F, base, s, n)
    BY <2>0
  <2> DEFINE new == [T \in SUBSET (1 .. n + 1) |->
                       IF n + 1 \in T THEN F[<<it[T \ {n + 1}], s[n + 1]>>] ELSE it[T]]
  <2>2. \A T \in SUBSET (1 .. n + 1) : T \ {n + 1} \in SUBSET (1 .. n)
    OBVIOUS
  <2>3. \A T \in SUBSET (1 .. n + 1) : n + 1 \notin T => T \in SUBSET (1 .. n)
    OBVIOUS
  <2>4. \A T \in SUBSET (1 .. n) : T \in SUBSET (1 .. n + 1) /\ n + 1 \notin T /\ new[T] = it[T]
    OBVIOUS
  <2>5. new \in [SUBSET (1 .. n + 1) -> A]
    <3>1. s[n + 1] \in B
      OBVIOUS
    <3> QED BY <2>1, <2>2, <2>3, <3>1
  <2>6. new[{}] = base
    BY <2>1, <2>4 DEF Iterates
  <2>7. ASSUME NEW T \in SUBSET (1 .. n + 1), T # {}
        PROVE  new[T] = F[<<new[T \ {Max(T)}], s[Max(T)]>>]
    <3>1. CASE n + 1 \in T
      <4>1. Max(T) = n + 1
        BY <3>1, MaxOfInterval
      <4>2. new[T \ {n + 1}] = it[T \ {n + 1}]
        BY <2>2, <2>4
      <4> QED BY <3>1, <4>1, <4>2
    <3>2. CASE n + 1 \notin T
      <4>1. T \in SUBSET (1 .. n)
        BY <3>2, <2>3
      <4>2. it[T] = F[<<it[T \ {Max(T)}], s[Max(T)]>>]
        BY <2>1, <2>7, <4>1 DEF Iterates
      <4>3. T \ {Max(T)} \in SUBSET (1 .. n)
        BY <4>1
      <4> HIDE DEF new
      <4> QED BY <2>4, <4>1, <4>2, <4>3
    <3> QED BY <3>1, <3>2
  <2> HIDE DEF new
  <2> QED BY <2>5, <2>6, <2>7 DEF Iterates
<1>3. Nat \subseteq D
  <2> HIDE DEF D
  <2> QED
    BY <1>1, <1>2, NatSetInduction
<1>4. P(m)
  <2> HIDE DEF P
  <2> QED
    BY <1>3
<1> QED
  BY <1>4


LEMMA MaxOfSubset ==
  ASSUME NEW n \in Nat, NEW T \in SUBSET (1 .. n), T # {}
  PROVE  Max(T) \in T
<1> DEFINE D == {d \in Nat : n - d \in T}
<1>1. D # {}
  <2>1. PICK t \in T : TRUE
    OBVIOUS
  <2> QED BY <2>1, n - t \in D
<1>2. PICK d \in D : \A e \in D : d <= e
  BY <1>1, LeastOfNat
<1>3. ASSUME NEW y \in T PROVE n - d >= y
  BY <1>2, n - y \in D
<1> QED
  BY <1>2, <1>3 DEF Max

LEMMA Prefix ==
  ASSUME NEW m \in Nat, NEW k \in 1 .. m
  PROVE  /\ Max(1 .. k) = k
         /\ (1 .. k) \ {k} = 1 .. k - 1
         /\ 1 .. k # {} /\ 1 .. k \in SUBSET (1 .. m) /\ 1 .. k - 1 \in SUBSET (1 .. m)
<1>1. PICK n \in Nat : k = n + 1
  BY k - 1 \in Nat
<1>2. Max(1 .. n + 1) = n + 1
  BY MaxOfInterval
<1>3. (1 .. k) \ {k} = 1 .. k - 1
  OBVIOUS
<1> QED
  BY <1>1, <1>2, <1>3

-----------------------------------------------------------------------------
(* Sequences put end to end.                                                *)

\* The recursive function in the definition of FlattenSeq.
Flattens(f, ss, n) ==
  \A i \in 1 .. n : f[i] = IF i = 1 THEN ss[i] ELSE f[i - 1] \o ss[i]

LEMMA FlattenExists ==
  ASSUME NEW A, NEW ss \in Seq(Seq(A))
  PROVE  \E f \in [1 .. Len(ss) -> Seq(A)] : Flattens(f, ss, Len(ss))
<1> DEFINE D == {n \in Nat : n <= Len(ss) =>
                   \E f \in [1 .. n -> Seq(A)] : Flattens(f, ss, n)}
<1>1. 0 \in D
  <2>1. [i \in 1 .. 0 |-> <<>>] \in [1 .. 0 -> Seq(A)]
    OBVIOUS
  <2>2. Flattens([i \in 1 .. 0 |-> <<>>], ss, 0)
    BY DEF Flattens
  <2> QED
    BY <2>1, <2>2
<1>2. ASSUME NEW n \in Nat, n \in D
      PROVE  n + 1 \in D
  <2> SUFFICES ASSUME n + 1 <= Len(ss)
               PROVE  \E f \in [1 .. n + 1 -> Seq(A)] : Flattens(f, ss, n + 1)
    OBVIOUS
  <2>1. PICK f \in [1 .. n -> Seq(A)] : Flattens(f, ss, n)
    BY <1>2
  <2> DEFINE g == [i \in 1 .. n + 1 |->
                     IF i = n + 1 THEN IF n = 0 THEN ss[1] ELSE f[n] \o ss[n + 1]
                     ELSE f[i]]
  <2>2. ss[n + 1] \in Seq(A)
    OBVIOUS
  <2>3. g \in [1 .. n + 1 -> Seq(A)]
    <3>1. n # 0 => f[n] \in Seq(A)
      OBVIOUS
    <3>2. \A i \in 1 .. n + 1 : i # n + 1 => f[i] \in Seq(A)
      OBVIOUS
    <3>3. \A x, y \in Seq(A) : x \o y \in Seq(A)
      OBVIOUS
    <3>4. ASSUME NEW i \in 1 .. n + 1 PROVE g[i] \in Seq(A)
      BY <2>2, <3>1, <3>2, <3>3
    <3> QED
      BY <3>4
  <2>4. Flattens(g, ss, n + 1)
    <3>1. ASSUME NEW i \in 1 .. n + 1
          PROVE  g[i] = IF i = 1 THEN ss[i] ELSE g[i - 1] \o ss[i]
      <4>1. CASE i = n + 1
        <5>1. n # 0 => i # 1 /\ n \in 1 .. n + 1 /\ g[n] = f[n] /\ i - 1 = n
          BY <4>1
        <5> QED
          BY <4>1, <5>1
      <4>2. CASE i # n + 1
        <5>1. i \in 1 .. n /\ g[i] = f[i]
          BY <4>2
        <5>2. i # 1 => i - 1 \in 1 .. n + 1 /\ i - 1 # n + 1 /\ g[i - 1] = f[i - 1]
          BY <4>2
        <5>3. f[i] = IF i = 1 THEN ss[i] ELSE f[i - 1] \o ss[i]
          BY <2>1, <5>1 DEF Flattens
        <5> HIDE DEF g
        <5> QED
          BY <5>1, <5>2, <5>3
      <4> QED
        BY <4>1, <4>2
    <3> HIDE DEF g
    <3> QED
      BY <3>1 DEF Flattens
  <2> HIDE DEF g
  <2> QED
    BY <2>3, <2>4
<1>3. Len(ss) \in D
  <2> HIDE DEF D
  <2> QED
    BY <1>1, <1>2, NatSetInduction, SMTT(60)
<1> QED
  BY <1>3

Agree(s, t, n) == \A i \in 1 .. n : s[i] = t[i]

LEMMA FlattenUnique ==
  ASSUME NEW f, NEW g, NEW ss, NEW tt, NEW n \in Nat,
         Flattens(f, ss, n), Flattens(g, tt, n), Agree(ss, tt, n)
  PROVE  Agree(f, g, n)
<1> DEFINE D == {i \in Nat : i \in 1 .. n => f[i] = g[i]}
<1>1. 0 \in D
  OBVIOUS
<1>2. ASSUME NEW i \in Nat, i \in D
      PROVE  i + 1 \in D
  <2> SUFFICES ASSUME i + 1 \in 1 .. n PROVE f[i + 1] = g[i + 1]
    OBVIOUS
  <2>1. i + 1 # 1 => i \in 1 .. n /\ f[i] = g[i]
    BY <1>2
  <2>2. (i + 1) - 1 = i
    OBVIOUS
  <2> QED
    BY <2>1, <2>2 DEF Flattens, Agree
<1>3. Nat \subseteq D
  <2> HIDE DEF D
  <2> QED
    BY <1>1, <1>2, NatSetInduction
<1> QED
  BY <1>3 DEF Agree

LEMMA FlattenIs ==
  ASSUME NEW A, NEW ss \in Seq(Seq(A)), ss # <<>>
  PROVE  \E f \in [1 .. Len(ss) -> Seq(A)] :
           Flattens(f, ss, Len(ss)) /\ FlattenSeq(ss) = f[Len(ss)]
<1> DEFINE Def(f) == f = [i \in 1 .. Len(ss) |->
                            IF i = 1 THEN ss[i] ELSE f[i - 1] \o ss[i]]
           flat == CHOOSE f : Def(f)
<1>1. FlattenSeq(ss) = flat[Len(ss)]
  BY DEF FlattenSeq
<1>2. PICK f \in [1 .. Len(ss) -> Seq(A)] : Flattens(f, ss, Len(ss))
  BY FlattenExists
<1>3. Def(f)
  BY <1>2 DEF Flattens
<1>4. Def(flat)
  <2> HIDE DEF Def
  <2> QED
    BY <1>3
<1> HIDE DEF flat
<1>5. Flattens(flat, ss, Len(ss))
  BY <1>4 DEF Flattens
<1>6. \A i \in 1 .. Len(ss) : flat[i] = f[i]
  BY <1>2, <1>5, FlattenUnique DEF Agree
<1>7. Len(ss) \in 1 .. Len(ss)
  OBVIOUS
<1> QED
  BY <1>1, <1>2, <1>6, <1>7

LEMMA FlattenAppend ==
  ASSUME NEW A, NEW ss \in Seq(Seq(A)), NEW x \in Seq(A)
  PROVE  /\ FlattenSeq(<<>>) = <<>>
         /\ FlattenSeq(ss) \in Seq(A)
         /\ FlattenSeq(Append(ss, x)) = FlattenSeq(ss) \o x
<1>1. FlattenSeq(<<>>) = <<>>
  <2>1. Len(<<>>) = 0
    OBVIOUS
  <2> QED
    BY <2>1 DEF FlattenSeq
<1>2. FlattenSeq(ss) \in Seq(A)
  <2>1. CASE ss = <<>>
    <3>1. <<>> \in Seq(A)
      OBVIOUS
    <3> QED
      BY <1>1, <2>1, <3>1
  <2>2. CASE ss # <<>>
    <3>1. Len(ss) \in 1 .. Len(ss)
      BY <2>2
    <3> QED
      BY <2>2, <3>1, FlattenIs
  <2> QED
    BY <2>1, <2>2
<1>3. PICK n \in Nat : n = Len(ss) /\ (ss = <<>> <=> n = 0)
  OBVIOUS
<1>4. PICK tt : tt = Append(ss, x)
  OBVIOUS
<1>5. /\ tt \in Seq(Seq(A)) /\ tt # <<>> /\ Len(tt) = n + 1 /\ tt[n + 1] = x
      /\ \A i \in 1 .. n : ss[i] = tt[i]
  BY <1>3, <1>4, AppendProperties
<1>6. PICK g \in [1 .. n + 1 -> Seq(A)] :
        Flattens(g, tt, n + 1) /\ FlattenSeq(tt) = g[n + 1]
  BY <1>5, FlattenIs
<1>7. /\ n = 0 => g[n + 1] = tt[n + 1]
      /\ n # 0 => g[n + 1] = g[n] \o tt[n + 1]
  <2>1. n + 1 \in 1 .. n + 1 /\ (n + 1) - 1 = n /\ (n + 1 = 1 <=> n = 0)
    OBVIOUS
  <2>2. g[n + 1] = IF n + 1 = 1 THEN tt[n + 1] ELSE g[(n + 1) - 1] \o tt[n + 1]
    BY <1>6, <2>1 DEF Flattens
  <2> QED
    BY <2>1, <2>2
<1>8. CASE ss = <<>>
  <2>1. <<>> \o x = x
    OBVIOUS
  <2> QED
    BY <1>1, <1>2, <1>3, <1>4, <1>5, <1>6, <1>7, <1>8, <2>1
<1>9. CASE ss # <<>>
  <2>1. PICK f \in [1 .. n -> Seq(A)] : Flattens(f, ss, n) /\ FlattenSeq(ss) = f[n]
    BY <1>3, <1>9, FlattenIs
  <2>2. Flattens(g, tt, n)
    <3>1. \A i \in 1 .. n : i \in 1 .. n + 1
      OBVIOUS
    <3> QED
      BY <1>6, <3>1 DEF Flattens
  <2>3. \A i \in 1 .. n : f[i] = g[i]
    <3>1. Agree(ss, tt, n)
      BY <1>5 DEF Agree
    <3>2. Agree(f, g, n)
      BY <2>1, <2>2, <3>1, FlattenUnique
    <3> QED
      BY <3>2 DEF Agree
  <2>4. n \in 1 .. n /\ n # 0
    BY <1>3, <1>9
  <2> QED
    BY <1>1, <1>2, <1>4, <1>5, <1>6, <1>7, <2>1, <2>3, <2>4
<1> QED
  BY <1>8, <1>9
-----------------------------------------------------------------------------
(* Video packets.                                                           *)

Bytes == Seq(Nat)
StreamStates == [config : Bytes, keyframe : Bytes, pending : Bytes, sent : Seq(Bytes)]
PacketSet == [config : BOOLEAN, key : BOOLEAN, data : Bytes]

LEMMA StreamStatesClosed ==
  ASSUME NEW st \in StreamStates, NEW x \in Bytes
  PROVE  /\ [st EXCEPT !.config = x] \in StreamStates
         /\ [st EXCEPT !.keyframe = x] \in StreamStates
         /\ [st EXCEPT !.pending = x] \in StreamStates
         /\ [st EXCEPT !.pending = <<>>, !.sent = Append(@, x)] \in StreamStates
         /\ st.config \in Bytes /\ st.pending \in Bytes
         /\ st.config \o x \in Bytes /\ st.pending \o x \in Bytes
<1> DEFINE Sents == Seq(Bytes)
<1>1. /\ <<>> \in Bytes
      /\ \A y \in Bytes : y \o x \in Bytes
      /\ \A ss \in Sents : Append(ss, x) \in Sents
  BY DEF Bytes
<1>2. StreamStates = [config : Bytes, keyframe : Bytes, pending : Bytes, sent : Sents]
  BY DEF StreamStates
<1> HIDE DEF Sents
<1>3. [st EXCEPT !.config = x] \in StreamStates
  BY <1>2
<1>4. [st EXCEPT !.keyframe = x] \in StreamStates
  BY <1>2
<1>5. [st EXCEPT !.pending = x] \in StreamStates
  BY <1>2
<1>6. [st EXCEPT !.pending = <<>>, !.sent = Append(@, x)] \in StreamStates
  <2>1. Append(st.sent, x) \in Sents
    BY <1>1, <1>2
  <2> QED
    BY <1>1, <1>2, <2>1
<1>7. st.config \in Bytes /\ st.pending \in Bytes
  BY <1>2
<1> QED
  BY <1>1, <1>3, <1>4, <1>5, <1>6, <1>7

LEMMA ReceiveType ==
  ASSUME NEW st \in StreamStates, NEW p \in PacketSet
  PROVE  Receive(st, p) \in StreamStates
<1>1. p.data \in Bytes
  BY DEF PacketSet
<1>2. ReadFrame(st, p) \in StreamStates
  BY <1>1, StreamStatesClosed DEF ReadFrame
<1>3. ASSUME NEW t \in StreamStates
      PROVE  Feed(t, p.data) \in StreamStates
  BY <1>1, StreamStatesClosed DEF Feed
<1> QED
  BY <1>2, <1>3 DEF Receive


ReceiveRun(run, s) ==
  /\ run[0] = NoStream
  /\ \A k \in 1 .. Len(s) : run[k] = Receive(run[k - 1], s[k])
  /\ run[Len(s)] = ReceiveAll(s)

LEMMA ReceiveRuns ==
  ASSUME NEW s \in Seq(PacketSet)
  PROVE  \E run \in [0 .. Len(s) -> StreamStates] : ReceiveRun(run, s)
<1> DEFINE F == [p \in StreamStates \X PacketSet |-> Receive(p[1], p[2])]
           Def(it) == it = [T \in SUBSET DOMAIN s |->
                              IF T = {} THEN NoStream
                              ELSE Receive(it[T \ {Max(T)}], s[Max(T)])]
           fold == CHOOSE it : Def(it)
           m == Len(s)
<1>1. DOMAIN s = 1 .. m /\ m \in Nat /\ s \in [1 .. m -> PacketSet]
  OBVIOUS
<1>2. ReceiveAll(s) = fold[DOMAIN s]
  BY DEF ReceiveAll, FoldLeft, MapThenFoldSet
<1>3. NoStream \in StreamStates
  BY DEF NoStream, StreamStates, Bytes
<1>4. Def(fold)
  <2>1. F \in [StreamStates \X PacketSet -> StreamStates]
    BY ReceiveType
  <2>2. \E it \in [SUBSET (1 .. m) -> StreamStates] : Iterates(it, F, NoStream, s, m)
    <3> HIDE DEF F, Def, m
    <3> QED
      BY <1>1, <1>3, <2>1, FoldExists
  <2>3. PICK it \in [SUBSET (1 .. m) -> StreamStates] : Iterates(it, F, NoStream, s, m)
    BY <2>2
  <2>4. ASSUME NEW T \in SUBSET (1 .. m), T # {}
        PROVE  it[T] = Receive(it[T \ {Max(T)}], s[Max(T)])
    BY <1>1, <2>3, <2>4, MaxOfSubset DEF Iterates
  <2>5. Def(it)
    BY <1>1, <2>3, <2>4 DEF Iterates
  <2> HIDE DEF Def
  <2> QED
    BY <2>5
<1> HIDE DEF fold
<1> DEFINE run == [k \in 0 .. m |-> fold[1 .. k]]
<1>5. run[0] = NoStream
  BY <1>1, <1>4, 1 .. 0 = {}
<1>6. ASSUME NEW k \in 1 .. m
      PROVE  run[k] = Receive(run[k - 1], s[k])
  <2>1. /\ Max(1 .. k) = k /\ (1 .. k) \ {k} = 1 .. k - 1
        /\ 1 .. k # {} /\ 1 .. k \in SUBSET (1 .. m)
    BY <1>1, Prefix
  <2>2. fold[1 .. k] = Receive(fold[(1 .. k) \ {Max(1 .. k)}], s[Max(1 .. k)])
    BY <1>1, <1>4, <2>1
  <2>3. k \in 0 .. m /\ k - 1 \in 0 .. m
    BY <1>1
  <2> QED
    BY <2>1, <2>2, <2>3
<1>7. run[m] = ReceiveAll(s)
  BY <1>1, <1>2
<1>8. ASSUME NEW k \in Nat, k + 1 <= m, run[k] \in StreamStates
      PROVE  run[k + 1] \in StreamStates
  <2>1. k + 1 \in 1 .. m /\ (k + 1) - 1 = k /\ s[k + 1] \in PacketSet
    BY <1>1, <1>8
  <2>2. run[k + 1] = Receive(run[k], s[k + 1])
    BY <1>6, <2>1
  <2> HIDE DEF run
  <2> QED
    BY <1>8, <2>1, <2>2, ReceiveType
<1> HIDE DEF run
<1>9. run \in [0 .. m -> StreamStates]
  <2> DEFINE D == {k \in Nat : run[k] \in StreamStates}
  <2>1. 0 \in D
    BY <1>3, <1>5
  <2>2. \A k \in Nat : k + 1 <= m /\ k \in D => k + 1 \in D
    BY <1>8
  <2>3. 0 .. m \subseteq D
    <3> HIDE DEF D, m
    <3> QED
      BY <1>1, <2>1, <2>2, IntervalInduction
  <2> QED
    BY <2>3 DEF run
<1> QED
  BY <1>5, <1>6, <1>7, <1>9 DEF ReceiveRun

\* What the encoder sends: no packet is empty, those in which no slice is
\* found are parameters, and parameters are not a key picture.
Encoded(ps) ==
  /\ ps \in Seq(PacketSet)
  /\ \A i \in DOMAIN ps : /\ ps[i].data # <<>>
                          /\ HasNoSlice(ps[i].data) => ps[i].config
                          /\ ps[i].config => ~ps[i].key

Configs(ps) == {i \in DOMAIN ps : ps[i].config}
Keys(ps) == {i \in DOMAIN ps : ps[i].key}

\* Parameters that other parameters replace before any picture.
Replaced(ps) == {i \in Configs(ps) : i + 1 \in Configs(ps)}

\* The first k packets without those dropped.
Kept(ps, dropped, k) == [i \in 1 .. k |-> IF i \in dropped THEN <<>> ELSE ps[i].data]

\* k packets have been fed, and all is sent.
NothingHeld(st, ps, k) ==
  /\ st.pending = <<>>
  /\ \E d \in SUBSET Replaced(ps) : FlattenSeq(st.sent) = FlattenSeq(Kept(ps, d, k))

\* k packets have been fed, and the last one is held.
ParametersHeld(st, ps, k) ==
  /\ k \in Configs(ps) /\ st.pending = ps[k].data
  /\ \E d \in SUBSET Replaced(ps) : FlattenSeq(st.sent) = FlattenSeq(Kept(ps, d, k - 1))

Fed(st, ps, k) == NothingHeld(st, ps, k) \/ ParametersHeld(st, ps, k)

\* c is the latest of the positions S that are at most k.
IsLatest(c, S, k) == c \in S /\ c <= k /\ \A j \in S : j <= k => j <= c

\* b is what the latest parameters of the first k packets are.
ConfigIs(b, ps, k) ==
  \/ b = <<>> /\ \A j \in Configs(ps) : j > k
  \/ \E c \in Configs(ps) : IsLatest(c, Configs(ps), k) /\ b = ps[c].data

KeyframeIs(b, ps, k) ==
  \/ \A j \in Keys(ps) : j > k
  \/ \E n \in Keys(ps) : /\ IsLatest(n, Keys(ps), k)
                         /\ \E conf \in Bytes : ConfigIs(conf, ps, n) /\ b = conf \o ps[n].data

LEMMA ReceiveEffect ==
  ASSUME NEW st \in StreamStates, NEW p \in PacketSet, p.data # <<>>
  PROVE  LET new == Receive(st, p)
         IN /\ new.config = IF p.config THEN p.data ELSE st.config
            /\ new.keyframe = IF ~p.config /\ p.key THEN st.config \o p.data ELSE st.keyframe
            /\ HasNoSlice(p.data) => new.pending = p.data /\ new.sent = st.sent
            /\ ~HasNoSlice(p.data) => /\ new.pending = <<>>
                                      /\ new.sent = Append(st.sent, st.pending \o p.data)
<1> DEFINE Sents == Seq(Bytes)
<1>1. st \in [config : Bytes, keyframe : Bytes, pending : Bytes, sent : Sents]
  BY DEF StreamStates
<1> HIDE DEF Sents
<1> DEFINE t == ReadFrame(st, p)
<1>2. /\ p.config => t = [st EXCEPT !.config = p.data]
      /\ ~p.config /\ p.key => t = [st EXCEPT !.keyframe = st.config \o p.data]
      /\ ~p.config /\ ~p.key => t = st
  BY DEF ReadFrame
<1>3. /\ HasNoSlice(p.data) => Receive(st, p) = [t EXCEPT !.pending = p.data]
      /\ ~HasNoSlice(p.data) => Receive(st, p) =
           [t EXCEPT !.pending = <<>>, !.sent = Append(@, t.pending \o p.data)]
  BY DEF Receive, Feed
<1> HIDE DEF t
<1>4. /\ t.pending = st.pending /\ t.sent = st.sent
      /\ t.config = IF p.config THEN p.data ELSE st.config
      /\ t.keyframe = IF ~p.config /\ p.key THEN st.config \o p.data ELSE st.keyframe
      /\ DOMAIN t = {"config", "keyframe", "pending", "sent"}
  BY <1>1, <1>2
<1>5. Receive(st, p).config = t.config /\ Receive(st, p).keyframe = t.keyframe
  BY <1>3, <1>4
<1>6. HasNoSlice(p.data) =>
        Receive(st, p).pending = p.data /\ Receive(st, p).sent = t.sent
  BY <1>3, <1>4
<1>7. ~HasNoSlice(p.data) =>
        /\ Receive(st, p).pending = <<>>
        /\ Receive(st, p).sent = Append(t.sent, t.pending \o p.data)
  BY <1>3, <1>4
<1> QED
  BY <1>4, <1>5, <1>6, <1>7

LEMMA KeptStep ==
  ASSUME NEW ps, Encoded(ps), NEW d, NEW k \in 1 .. Len(ps)
  PROVE  /\ FlattenSeq(Kept(ps, d, 0)) = <<>>
         /\ FlattenSeq(Kept(ps, d, k - 1)) \in Bytes
         /\ k \in d => FlattenSeq(Kept(ps, d, k)) = FlattenSeq(Kept(ps, d, k - 1))
         /\ k \notin d => FlattenSeq(Kept(ps, d, k)) =
                            FlattenSeq(Kept(ps, d, k - 1)) \o ps[k].data
<1> DEFINE Item(i) == IF i \in d THEN <<>> ELSE ps[i].data
<1>1. \A i \in 1 .. Len(ps) : Item(i) \in Bytes
  <2>1. ps \in Seq(PacketSet)
    BY DEF Encoded
  <2>2. \A p \in PacketSet : p.data \in Bytes
    BY DEF PacketSet
  <2>3. <<>> \in Bytes
    BY DEF Bytes
  <2>4. \A i \in 1 .. Len(ps) : ps[i] \in PacketSet
    BY <2>1
  <2> QED
    BY <2>2, <2>3, <2>4
<1>2. Len(ps) \in Nat
  BY DEF Encoded
<1>3. Kept(ps, d, 0) = <<>>
  BY DEF Kept
<1>4. Kept(ps, d, k - 1) = [i \in 1 .. k - 1 |-> Item(i)] /\ Kept(ps, d, k) = [i \in 1 .. k |-> Item(i)]
  BY DEF Kept
<1> HIDE DEF Item
<1>5. Kept(ps, d, k - 1) \in Seq(Bytes)
  BY <1>1, <1>2, <1>4
<1>6. Kept(ps, d, k) = Append(Kept(ps, d, k - 1), Item(k))
  <2>1. Len(Kept(ps, d, k - 1)) = k - 1
    BY <1>2, <1>4
  <2> QED
    BY <1>1, <1>2, <1>4, <1>5, <2>1
<1>7. FlattenSeq(<<>>) = <<>>
  <2>1. <<>> \in Seq(Seq(Nat)) /\ <<>> \in Seq(Nat)
    OBVIOUS
  <2> QED
    BY <2>1, FlattenAppend
<1>8. /\ FlattenSeq(Kept(ps, d, k - 1)) \in Bytes
      /\ FlattenSeq(Append(Kept(ps, d, k - 1), Item(k)))
           = FlattenSeq(Kept(ps, d, k - 1)) \o Item(k)
  BY <1>1, <1>5, FlattenAppend DEF Bytes
<1>9. \A x \in Bytes : x \o <<>> = x
  BY DEF Bytes
<1> QED
  BY <1>3, <1>6, <1>7, <1>8, <1>9 DEF Item

LEMMA KeptAgree ==
  ASSUME NEW ps, NEW d, NEW e, NEW k, \A i \in 1 .. k : i \in d <=> i \in e
  PROVE  Kept(ps, d, k) = Kept(ps, e, k)
BY DEF Kept

LEMMA BytesAssociate ==
  ASSUME NEW x \in Bytes, NEW y \in Bytes, NEW z \in Bytes
  PROVE  x \o (y \o z) = (x \o y) \o z
<1>1. (x \o y) \o z = x \o (y \o z)
  <2>1. x \in Seq(Nat) /\ y \in Seq(Nat) /\ z \in Seq(Nat)
    BY DEF Bytes
  <2> QED
    BY <2>1, ConcatAssociative, Z3T(60)
<1> QED
  BY Zenon, <1>1

LEMMA FedStep ==
  ASSUME NEW ps, Encoded(ps), NEW k \in Nat, NEW n, n = k + 1, n \in 1 .. Len(ps),
         NEW p, p = ps[n], NEW st \in StreamStates, Fed(st, ps, k)
  PROVE  Fed(Receive(st, p), ps, n)
<1>1. n - 1 = k /\ n \in DOMAIN ps /\ ps \in Seq(PacketSet)
  BY DEF Encoded
<1>2. /\ p \in PacketSet /\ p.data # <<>>
      /\ HasNoSlice(p.data) => n \in Configs(ps)
  BY <1>1 DEF Encoded, Configs
<1>3. p.data \in Bytes /\ st.sent \in Seq(Bytes) /\ st.pending \in Bytes
  BY <1>2 DEF StreamStates, PacketSet
<1>4. PICK new : new = Receive(st, p)
  OBVIOUS
<1>5. /\ HasNoSlice(p.data) => new.pending = p.data /\ new.sent = st.sent
      /\ ~HasNoSlice(p.data) => /\ new.pending = <<>>
                                /\ new.sent = Append(st.sent, st.pending \o p.data)
  BY <1>2, <1>4, ReceiveEffect
<1>6. ~HasNoSlice(p.data) =>
        FlattenSeq(new.sent) = FlattenSeq(st.sent) \o (st.pending \o p.data)
  <2>1. st.pending \o p.data \in Bytes
    BY <1>3 DEF Bytes
  <2> QED
    BY <1>3, <1>5, <2>1, FlattenAppend, ZenonT(60) DEF Bytes
<1>7. ASSUME NEW d
      PROVE  n \notin d => FlattenSeq(Kept(ps, d, n)) = FlattenSeq(Kept(ps, d, k)) \o p.data
  BY <1>1, KeptStep
<1>8. \A x \in Bytes : x \o <<>> = x /\ <<>> \o x = x
  BY DEF Bytes
<1>9. CASE NothingHeld(st, ps, k)
  <2>1. PICK d \in SUBSET Replaced(ps) : FlattenSeq(st.sent) = FlattenSeq(Kept(ps, d, k))
    BY <1>9 DEF NothingHeld
  <2>2. CASE HasNoSlice(p.data)
    <3>1. ParametersHeld(new, ps, n)
      BY <1>1, <1>2, <1>5, <2>1, <2>2 DEF ParametersHeld
    <3> QED
      BY <1>4, <3>1 DEF Fed
  <2>3. CASE ~HasNoSlice(p.data)
    <3>1. PICK e : e = d \ {n}
      OBVIOUS
    <3>2. Kept(ps, e, k) = Kept(ps, d, k)
      <4>1. \A i \in 1 .. k : i \in d <=> i \in e
        BY <3>1
      <4> QED
        BY <4>1, KeptAgree
    <3>3. st.pending = <<>>
      BY <1>9 DEF NothingHeld
    <3>4. FlattenSeq(new.sent) = FlattenSeq(Kept(ps, d, k)) \o p.data
      BY <1>3, <1>6, <1>8, <2>1, <2>3, <3>3
    <3>5. FlattenSeq(Kept(ps, e, n)) = FlattenSeq(Kept(ps, d, k)) \o p.data
      BY <1>7, <3>1, <3>2
    <3>6. e \in SUBSET Replaced(ps)
      BY <3>1
    <3>7. NothingHeld(new, ps, n)
      BY <1>5, <2>3, <3>4, <3>5, <3>6 DEF NothingHeld
    <3> QED
      BY <1>4, <3>7 DEF Fed
  <2> QED
    BY <2>2, <2>3
<1>10. CASE ParametersHeld(st, ps, k)
  <2>1. PICK d \in SUBSET Replaced(ps) : FlattenSeq(st.sent) = FlattenSeq(Kept(ps, d, k - 1))
    BY <1>10 DEF ParametersHeld
  <2>2. k \in Configs(ps) /\ k \in 1 .. Len(ps) /\ st.pending = ps[k].data
    BY <1>10 DEF Configs, Encoded, ParametersHeld
  <2>3. ASSUME NEW e
        PROVE  /\ FlattenSeq(Kept(ps, e, k - 1)) \in Bytes
               /\ k \in e => FlattenSeq(Kept(ps, e, k)) = FlattenSeq(Kept(ps, e, k - 1))
               /\ k \notin e => FlattenSeq(Kept(ps, e, k)) =
                                  FlattenSeq(Kept(ps, e, k - 1)) \o ps[k].data
    BY <2>2, KeptStep
  <2>4. ASSUME NEW e, \A i \in 1 .. k - 1 : i \in d <=> i \in e
        PROVE  Kept(ps, e, k - 1) = Kept(ps, d, k - 1)
    BY <2>4, KeptAgree
  <2>5. CASE HasNoSlice(p.data)
    <3>1. PICK e : e = d \union {k}
      OBVIOUS
    <3>2. e \in SUBSET Replaced(ps)
      BY <1>2, <2>2, <2>5, <3>1 DEF Replaced
    <3>3. Kept(ps, e, k - 1) = Kept(ps, d, k - 1)
      BY <2>2, <2>4, <3>1
    <3>4. FlattenSeq(Kept(ps, e, k)) = FlattenSeq(Kept(ps, d, k - 1))
      BY <2>3, <3>1, <3>3
    <3>5. ParametersHeld(new, ps, n)
      BY <1>1, <1>2, <1>5, <2>1, <2>5, <3>2, <3>4 DEF ParametersHeld
    <3> QED
      BY <1>4, <3>5 DEF Fed
  <2>6. CASE ~HasNoSlice(p.data)
    <3>1. PICK e : e = d \ {k, n}
      OBVIOUS
    <3>2. Kept(ps, e, k - 1) = Kept(ps, d, k - 1)
      BY <2>2, <2>4, <3>1
    <3>3. FlattenSeq(new.sent) = FlattenSeq(Kept(ps, e, k - 1)) \o (ps[k].data \o p.data)
      BY <1>6, <2>1, <2>2, <2>6, <3>2
    <3>4. FlattenSeq(Kept(ps, e, k)) = FlattenSeq(Kept(ps, e, k - 1)) \o ps[k].data
      BY <2>3, <3>1
    <3>5. FlattenSeq(Kept(ps, e, n)) = (FlattenSeq(Kept(ps, e, k - 1)) \o ps[k].data) \o p.data
      BY <1>7, <3>1, <3>4
    <3>6. FlattenSeq(Kept(ps, e, k - 1)) \in Bytes /\ ps[k].data \in Bytes
      BY <1>3, <2>2, <2>3
    <3>7. FlattenSeq(Kept(ps, e, k - 1)) \o (ps[k].data \o p.data)
            = (FlattenSeq(Kept(ps, e, k - 1)) \o ps[k].data) \o p.data
      BY ZenonT(60), <1>3, <3>6, BytesAssociate
    <3>8. FlattenSeq(new.sent) = FlattenSeq(Kept(ps, e, n))
      BY Zenon, <3>3, <3>5, <3>7
    <3>9. e \in SUBSET Replaced(ps)
      BY <3>1
    <3>10. NothingHeld(new, ps, n)
      BY <1>5, <2>6, <3>8, <3>9 DEF NothingHeld
    <3> QED
      BY <1>4, <3>10 DEF Fed
  <2> QED
    BY <2>5, <2>6
<1> QED
  BY <1>9, <1>10 DEF Fed

LEMMA LatestStep ==
  ASSUME NEW S \in SUBSET Int, NEW k \in Nat
  PROVE  /\ k + 1 \in S => IsLatest(k + 1, S, k + 1)
         /\ k + 1 \notin S => \A c : IsLatest(c, S, k) => IsLatest(c, S, k + 1)
         /\ k + 1 \notin S /\ (\A j \in S : j > k) => \A j \in S : j > k + 1
<1>1. \A j \in S : j \in Int /\ (j <= k + 1 => j <= k \/ j = k + 1)
  OBVIOUS
<1>2. \A j \in S : j > k => j = k + 1 \/ j > k + 1
  BY <1>1
<1>3. k + 1 \in S => IsLatest(k + 1, S, k + 1)
  BY DEF IsLatest
<1>4. ASSUME k + 1 \notin S, NEW c, IsLatest(c, S, k)
      PROVE  IsLatest(c, S, k + 1)
  <2>1. c \in S /\ c \in Int /\ c <= k
    BY <1>1, <1>4 DEF IsLatest
  <2>2. c <= k + 1
    BY <2>1
  <2> QED
    BY <1>1, <1>4, <2>1, <2>2 DEF IsLatest
<1> QED
  BY <1>2, <1>3, <1>4

LEMMA ConfigStep ==
  ASSUME NEW ps, Encoded(ps), NEW k \in 0 .. Len(ps) - 1, NEW b, ConfigIs(b, ps, k)
  PROVE  /\ k + 1 \in Configs(ps) => ConfigIs(ps[k + 1].data, ps, k + 1)
         /\ k + 1 \notin Configs(ps) => ConfigIs(b, ps, k + 1)
<1>1. Configs(ps) \in SUBSET Int
  BY DEF Configs, Encoded
<1>2. k \in Nat
  OBVIOUS
<1> QED
  BY <1>1, <1>2, LatestStep DEF ConfigIs

LEMMA KeyframeStep ==
  ASSUME NEW ps, Encoded(ps), NEW k \in 0 .. Len(ps) - 1, NEW b, KeyframeIs(b, ps, k),
         NEW conf \in Bytes, ConfigIs(conf, ps, k)
  PROVE  /\ k + 1 \in Keys(ps) => KeyframeIs(conf \o ps[k + 1].data, ps, k + 1)
         /\ k + 1 \notin Keys(ps) => KeyframeIs(b, ps, k + 1)
<1>1. Keys(ps) \in SUBSET Int
  BY DEF Keys, Encoded
<1>2. k \in Nat
  OBVIOUS
<1>3. k + 1 \in Keys(ps) => ConfigIs(conf, ps, k + 1)
  BY ConfigStep DEF Keys, Configs, Encoded
<1> QED
  BY <1>1, <1>2, <1>3, LatestStep DEF KeyframeIs

\* After k packets.
Received(st, ps, k) ==
  Fed(st, ps, k) /\ ConfigIs(st.config, ps, k) /\ KeyframeIs(st.keyframe, ps, k)

LEMMA ReceivedStep ==
  ASSUME NEW ps, Encoded(ps), NEW k \in 0 .. Len(ps) - 1, NEW st \in StreamStates,
         Received(st, ps, k)
  PROVE  Received(Receive(st, ps[k + 1]), ps, k + 1)
<1> DEFINE p == ps[k + 1]
<1>1. k + 1 \in DOMAIN ps
  BY DEF Encoded
<1>2. /\ p \in PacketSet /\ p.data # <<>>
      /\ p.config => ~p.key
  BY <1>1 DEF Encoded
<1>3. /\ p.config <=> k + 1 \in Configs(ps)
      /\ p.key <=> k + 1 \in Keys(ps)
  BY <1>1 DEF Configs, Keys
<1>4. st.config \in Bytes
  BY DEF StreamStates
<1>5. /\ k + 1 \in Configs(ps) => ConfigIs(p.data, ps, k + 1)
      /\ k + 1 \notin Configs(ps) => ConfigIs(st.config, ps, k + 1)
  BY ConfigStep DEF Received
<1>6. /\ k + 1 \in Keys(ps) => KeyframeIs(st.config \o p.data, ps, k + 1)
      /\ k + 1 \notin Keys(ps) => KeyframeIs(st.keyframe, ps, k + 1)
  BY <1>4, KeyframeStep DEF Received
<1>7. Fed(Receive(st, p), ps, k + 1)
  BY <1>1, FedStep DEF Received, Encoded
<1>8. ConfigIs(Receive(st, p).config, ps, k + 1)
  <2> HIDE DEF p
  <2> QED
    BY <1>2, <1>3, <1>5, ReceiveEffect
<1>9. KeyframeIs(Receive(st, p).keyframe, ps, k + 1)
  <2> HIDE DEF p
  <2> QED
    BY <1>2, <1>3, <1>6, ReceiveEffect
<1> QED
  BY <1>7, <1>8, <1>9 DEF Received

LEMMA AllReceived ==
  ASSUME NEW ps, Encoded(ps)
  PROVE  Received(ReceiveAll(ps), ps, Len(ps)) /\ ReceiveAll(ps) \in StreamStates
<1>1. ps \in Seq(PacketSet) /\ Len(ps) \in Nat
  BY DEF Encoded
<1>2. PICK run \in [0 .. Len(ps) -> StreamStates] : ReceiveRun(run, ps)
  BY <1>1, ReceiveRuns
<1> DEFINE D == {k \in Nat : Received(run[k], ps, k)}
<1>3. 0 \in D
  <2>1. \A j \in Configs(ps) \union Keys(ps) : j > 0
    BY <1>1 DEF Configs, Keys
  <2>2. Kept(ps, {}, 0) = <<>>
    BY DEF Kept
  <2>3. Fed(NoStream, ps, 0)
    BY <2>2 DEF Fed, NothingHeld, NoStream
  <2>4. ConfigIs(NoStream.config, ps, 0) /\ KeyframeIs(NoStream.keyframe, ps, 0)
    BY <2>1 DEF ConfigIs, KeyframeIs, NoStream
  <2> QED
    BY <1>2, <2>3, <2>4 DEF Received, ReceiveRun
<1>4. ASSUME NEW k \in Nat, k + 1 <= Len(ps), k \in D
      PROVE  k + 1 \in D
  <2>1. k \in 0 .. Len(ps) - 1 /\ k \in 0 .. Len(ps) /\ k + 1 \in 1 .. Len(ps) /\ (k + 1) - 1 = k
    BY <1>1, <1>4
  <2>2. run[k] \in StreamStates /\ Received(run[k], ps, k)
    BY <1>2, <1>4, <2>1
  <2>3. run[k + 1] = Receive(run[k], ps[k + 1])
    BY <1>2, <2>1 DEF ReceiveRun
  <2> QED
    BY <2>1, <2>2, <2>3, ReceivedStep
<1>5. 0 .. Len(ps) \subseteq D
  <2> HIDE DEF D
  <2> QED
    BY <1>1, <1>3, <1>4, IntervalInduction
<1>6. Len(ps) \in 0 .. Len(ps)
  BY <1>1
<1> QED
  BY <1>2, <1>5, <1>6 DEF ReceiveRun

LEMMA NewestIsLatest ==
  ASSUME NEW S \in SUBSET Int, NEW c \in S, \A j \in S : j <= c
  PROVE  (CHOOSE i \in S : \A j \in S : j <= i) = c
<1>1. \A i \in S : (\A j \in S : j <= i) => i = c
  OBVIOUS
<1> QED
  BY <1>1

\* What a call returns is the result of the algorithm it names.
AlgInv == call \in Calls /\ (returned => answer = Result(call))

LEMMA AlgInvHolds == AlgSpec => []AlgInv
<1>1. AlgInit => AlgInv
  BY DEF AlgInit, AlgInv
<1>2. AlgInv /\ [Compute]_algVars => AlgInv'
  BY DEF AlgInv, Compute, algVars
<1> QED
  BY <1>1, <1>2, PTL DEF AlgSpec

(***************************************************************************)
(* The packets of any stream, however long, as the encoder sends them: the *)
(* decoder is fed all of it, in order, but for parameters that others      *)
(* replace before any picture, and the screenshot has the last key picture *)
(* behind its parameters (ReadFrame, buildKeyframe, Feed).                 *)
(***************************************************************************)
THEOREM EveryStreamReachesDecoder ==
  ASSUME \A c \in Calls : c.of = "packets" => Encoded(c.packets)
  PROVE  AlgSpec => []ConfigReachesDecoder
<1>1. ASSUME AlgInv
      PROVE  ConfigReachesDecoder
  <2> SUFFICES ASSUME Answered("packets")
               PROVE  ConfigReachesDecoder
    BY DEF ConfigReachesDecoder
  <2> DEFINE ps == call.packets
  <2>1. /\ Encoded(ps) /\ ps \in Seq(PacketSet)
        /\ answer = ReceiveAll(ps)
    BY <1>1 DEF AlgInv, Answered, Result, Encoded
  <2> HIDE DEF ps
  <2>2. Received(answer, ps, Len(ps)) /\ answer \in StreamStates
    BY <2>1, AllReceived
  <2>3. /\ Configs(ps) = {i \in DOMAIN ps : ps[i].config}
        /\ Keys(ps) = {i \in DOMAIN ps : ps[i].key}
        /\ Configs(ps) \in SUBSET Int /\ Keys(ps) \in SUBSET Int
        /\ \A i \in Configs(ps) \union Keys(ps) : i <= Len(ps)
        /\ Len(ps) \in Nat /\ DOMAIN ps = 1 .. Len(ps)
    BY <2>1 DEF Configs, Keys
  <2> DEFINE Stream(dropped) ==
               FlattenSeq([i \in DOMAIN ps |-> IF i \in dropped THEN <<>> ELSE ps[i].data])
             Newest(S) == CHOOSE i \in S : \A j \in S : j <= i
             Config(i) == IF \A j \in Configs(ps) : j > i THEN <<>>
                          ELSE ps[Newest({j \in Configs(ps) : j <= i})].data
  <2>4. \E dropped \in SUBSET Replaced(ps) :
          FlattenSeq(answer.sent) \o answer.pending = Stream(dropped)
    <3>1. \A d : Stream(d) = FlattenSeq(Kept(ps, d, Len(ps)))
      BY <2>3 DEF Kept
    <3> HIDE DEF Stream
    <3>2. \A x \in Bytes : x \o <<>> = x
      BY DEF Bytes
    <3>3. FlattenSeq(answer.sent) \in Bytes
      BY <2>2, FlattenAppend DEF StreamStates, Bytes
    <3>4. CASE NothingHeld(answer, ps, Len(ps))
      <4>1. PICK d \in SUBSET Replaced(ps) :
              FlattenSeq(answer.sent) = FlattenSeq(Kept(ps, d, Len(ps)))
        BY <3>4 DEF NothingHeld
      <4>2. answer.pending = <<>>
        BY <3>4 DEF NothingHeld
      <4> QED
        BY <3>1, <3>2, <3>3, <4>1, <4>2
    <3>5. CASE ParametersHeld(answer, ps, Len(ps))
      <4>1. PICK d \in SUBSET Replaced(ps) :
              FlattenSeq(answer.sent) = FlattenSeq(Kept(ps, d, Len(ps) - 1))
        BY <3>5 DEF ParametersHeld
      <4>2. PICK n : n = Len(ps)
        OBVIOUS
      <4>3. n \in 1 .. Len(ps) /\ answer.pending = ps[n].data
        BY <2>3, <3>5, <4>2 DEF ParametersHeld
      <4>4. n \notin Replaced(ps)
        BY <2>3, <4>2 DEF Replaced
      <4>5. FlattenSeq(Kept(ps, d, n)) = FlattenSeq(Kept(ps, d, n - 1)) \o ps[n].data
        BY <2>1, <4>3, <4>4, KeptStep
      <4> QED
        BY <3>1, <4>1, <4>2, <4>3, <4>5
    <3> QED
      BY <2>2, <3>4, <3>5 DEF Received, Fed
  <2>5. answer.pending = <<>> \/ \E i \in Configs(ps) : ps[i].data = answer.pending
    BY <2>2 DEF Received, Fed, NothingHeld, ParametersHeld
  <2>6. Keys(ps) # {} => answer.keyframe = Config(Newest(Keys(ps))) \o ps[Newest(Keys(ps))].data
    <3> SUFFICES ASSUME Keys(ps) # {}
                 PROVE  answer.keyframe = Config(Newest(Keys(ps))) \o ps[Newest(Keys(ps))].data
      OBVIOUS
    <3>1. ~ \A j \in Keys(ps) : j > Len(ps)
      BY <2>3
    <3>2. PICK n \in Keys(ps) :
            /\ IsLatest(n, Keys(ps), Len(ps))
            /\ \E conf \in Bytes : ConfigIs(conf, ps, n) /\ answer.keyframe = conf \o ps[n].data
      BY <2>2, <3>1 DEF Received, KeyframeIs
    <3>3. PICK conf \in Bytes : ConfigIs(conf, ps, n) /\ answer.keyframe = conf \o ps[n].data
      BY <3>2
    <3>4. Newest(Keys(ps)) = n
      <4>1. \A j \in Keys(ps) : j <= n
        BY <2>3, <3>2 DEF IsLatest
      <4> QED
        BY <2>3, <4>1, NewestIsLatest
    <3>5. Config(n) = conf
      <4>1. CASE conf = <<>> /\ \A j \in Configs(ps) : j > n
        BY <4>1
      <4>2. CASE \E c \in Configs(ps) : IsLatest(c, Configs(ps), n) /\ conf = ps[c].data
        <5>1. PICK c \in Configs(ps) : IsLatest(c, Configs(ps), n) /\ conf = ps[c].data
          BY <4>2
        <5>2. PICK S : S = {j \in Configs(ps) : j <= n}
          OBVIOUS
        <5>3. S \in SUBSET Int /\ c \in S /\ \A j \in S : j <= c
          BY <2>3, <5>1, <5>2 DEF IsLatest
        <5>4. Newest(S) = c
          BY <5>3, NewestIsLatest
        <5>5. ~ \A j \in Configs(ps) : j > n
          BY <2>3, <5>2, <5>3
        <5> HIDE DEF Newest
        <5> QED
          BY <5>1, <5>2, <5>4, <5>5
      <4> QED
        BY <3>3, <4>1, <4>2 DEF ConfigIs
    <3> HIDE DEF Newest, Config
    <3> QED
      BY <3>3, <3>4, <3>5
  <2>7. Replaced(ps) = {i \in Configs(ps) : i + 1 \in Configs(ps)}
    BY DEF Replaced
  <2>8. LET configs == {i \in DOMAIN ps : ps[i].config}
            keys == {i \in DOMAIN ps : ps[i].key}
            Latest(i) == IF \A j \in configs : j > i THEN <<>>
                         ELSE ps[Newest({j \in configs : j <= i})].data
        IN /\ \E dropped \in SUBSET {i \in configs : i + 1 \in configs} :
                FlattenSeq(answer.sent) \o answer.pending = Stream(dropped)
           /\ answer.pending = <<>> \/ \E i \in configs : ps[i].data = answer.pending
           /\ keys # {} => answer.keyframe = Latest(Newest(keys)) \o ps[Newest(keys)].data
    <3> HIDE DEF Newest, Stream
    <3> QED
      BY Zenon, <2>3, <2>4, <2>5, <2>6, <2>7
  <2> QED
    BY Zenon, <2>8 DEF ConfigReachesDecoder, ps
<1> QED
  BY <1>1, AlgInvHolds, PTL
-----------------------------------------------------------------------------
(* Lists of elements.                                                       *)

Meaningful(el) == el.label \/ el.clickable

\* The positions among the first k of what could be acted on and is not in
\* the list.
Unlisted(els, listed, k) ==
  {i \in 1 .. k : Meaningful(els[i]) /\ els[i] \notin ToSet(listed)}

LEMMA ToSetAppend ==
  ASSUME NEW E, NEW s \in Seq(E), NEW e \in E
  PROVE  /\ ToSet(Append(s, e)) = ToSet(s) \union {e}
         /\ Append(s, e) \in Seq(E) /\ Len(Append(s, e)) = Len(s) + 1
<1>1. /\ Append(s, e) \in Seq(E) /\ Len(Append(s, e)) = Len(s) + 1
      /\ DOMAIN Append(s, e) = 1 .. Len(s) + 1 /\ DOMAIN s = 1 .. Len(s)
      /\ Len(s) \in Nat
      /\ \A i \in 1 .. Len(s) : Append(s, e)[i] = s[i]
      /\ Append(s, e)[Len(s) + 1] = e
  OBVIOUS
<1>2. \A i \in 1 .. Len(s) + 1 : i \in 1 .. Len(s) \/ i = Len(s) + 1
  BY <1>1
<1>3. \A i \in 1 .. Len(s) : i \in 1 .. Len(s) + 1
  BY <1>1
<1>4. Len(s) + 1 \in 1 .. Len(s) + 1
  BY <1>1
<1>5. PICK t : t = Append(s, e)
  OBVIOUS
<1>6. ToSet(t) = ToSet(s) \union {e}
  BY <1>1, <1>2, <1>3, <1>4, <1>5 DEF ToSet
<1> QED
  BY <1>1, <1>5, <1>6

LEMMA UnlistedFinite ==
  ASSUME NEW els, NEW listed, NEW k \in Nat
  PROVE  /\ IsFiniteSet(Unlisted(els, listed, k))
         /\ Cardinality(Unlisted(els, listed, k)) \in Nat
<1>1. IsFiniteSet(1 .. k)
  BY FS_Interval
<1>2. Unlisted(els, listed, k) \in SUBSET (1 .. k)
  BY DEF Unlisted
<1> QED
  BY <1>1, <1>2, FS_Subset, FS_CardinalityType

LEMMA MaxShowType ==
  ASSUME NEW show \in Int, NEW count \in Nat
  PROVE  /\ MaxShow(show, count) \in Nat /\ MaxShow(show, count) <= count
         /\ show >= 0 => MaxShow(show, count) <= show
         /\ MaxShow(show, count) # show => MaxShow(show, count) = count
BY DEF MaxShow

ListStates(E) == [listed : Seq(E), seen : Nat, stopped : BOOLEAN, limit : Nat]
ListStart(limit) == [listed |-> <<>>, seen |-> 0, stopped |-> FALSE, limit |-> limit]

LEMMA ListNextEffect ==
  ASSUME NEW E, NEW st \in ListStates(E), NEW el \in E, NEW isSummary
  PROVE  /\ st.listed \in Seq(E) /\ st.seen \in Nat /\ st.limit \in Nat /\ st.stopped \in BOOLEAN
         /\ ListNext(st, el, isSummary) \in ListStates(E)
         /\ st.stopped \/ st.seen >= st.limit =>
              ListNext(st, el, isSummary) = [st EXCEPT !.stopped = TRUE]
         /\ ~(st.stopped \/ st.seen >= st.limit) =>
              /\ ListNext(st, el, isSummary).seen = st.seen + 1
              /\ ListNext(st, el, isSummary).stopped = st.stopped
              /\ \/ /\ ~Meaningful(el)
                    /\ ListNext(st, el, isSummary).listed = st.listed
                    /\ ListNext(st, el, isSummary).limit = st.limit + 1
                 \/ /\ ListNext(st, el, isSummary).listed = Append(st.listed, el)
                    /\ ListNext(st, el, isSummary).limit = st.limit
<1> DEFINE S == Seq(E)
<1>1. st \in [listed : S, seen : Nat, stopped : BOOLEAN, limit : Nat]
  BY DEF ListStates
<1>2. \A s \in S : Append(s, el) \in S
  OBVIOUS
<1>3. ListStates(E) = [listed : S, seen : Nat, stopped : BOOLEAN, limit : Nat]
  BY DEF ListStates
<1> HIDE DEF S
<1>4. PICK new : new = ListNext(st, el, isSummary)
  OBVIOUS
<1>5. CASE st.stopped \/ st.seen >= st.limit
  <2>1. new = [st EXCEPT !.stopped = TRUE]
    BY <1>4, <1>5 DEF ListNext
  <2>2. new \in ListStates(E)
    BY <1>1, <1>3, <2>1
  <2> QED
    BY <1>1, <1>4, <1>5, <2>1, <2>2 DEF S
<1>6. CASE ~(st.stopped \/ st.seen >= st.limit) /\ Filtered(el, isSummary)
  <2>1. new = [st EXCEPT !.limit = @ + 1, !.seen = @ + 1]
    BY <1>4, <1>6 DEF ListNext
  <2>2. /\ new.listed = st.listed /\ new.seen = st.seen + 1
        /\ new.stopped = st.stopped /\ new.limit = st.limit + 1
    BY <1>1, <2>1
  <2>3. new \in ListStates(E)
    <3>1. st.seen + 1 \in Nat /\ st.limit + 1 \in Nat
      BY <1>1
    <3> QED
      BY <1>1, <1>3, <2>1, <3>1
  <2>4. ~Meaningful(el)
    BY <1>6 DEF Filtered, Meaningful
  <2> QED
    BY <1>1, <1>4, <1>6, <2>2, <2>3, <2>4 DEF S
<1>7. CASE ~(st.stopped \/ st.seen >= st.limit) /\ ~Filtered(el, isSummary)
  <2>1. new = [st EXCEPT !.listed = Append(@, el), !.seen = @ + 1]
    BY <1>4, <1>7 DEF ListNext
  <2>2. /\ new.listed = Append(st.listed, el) /\ new.seen = st.seen + 1
        /\ new.stopped = st.stopped /\ new.limit = st.limit
    BY <1>1, <2>1
  <2>3. new \in ListStates(E)
    <3>1. st.seen + 1 \in Nat /\ Append(st.listed, el) \in S
      BY <1>1, <1>2
    <3> QED
      BY <1>1, <1>3, <2>1, <3>1
  <2> QED
    BY <1>1, <1>4, <1>7, <2>2, <2>3 DEF S
<1> QED
  BY <1>5, <1>6, <1>7

LEMMA ListStartType ==
  ASSUME NEW E, NEW limit \in Nat
  PROVE  ListStart(limit) \in ListStates(E)
<1>1. <<>> \in Seq(E)
  OBVIOUS
<1> QED
  BY <1>1 DEF ListStart, ListStates


ListRun(run, s, limit, isSummary) ==
  /\ run[0] = ListStart(limit)
  /\ \A k \in 1 .. Len(s) : run[k] = ListNext(run[k - 1], s[k], isSummary)
  /\ run[Len(s)] = ListLoop(s, limit, isSummary)

LEMMA ListRuns ==
  ASSUME NEW E, NEW limit \in Nat, NEW isSummary, NEW s \in Seq(E)
  PROVE  \E run \in [0 .. Len(s) -> ListStates(E)] : ListRun(run, s, limit, isSummary)
<1> DEFINE F == [p \in ListStates(E) \X E |-> ListNext(p[1], p[2], isSummary)]
           Def(it) == it = [T \in SUBSET DOMAIN s |->
                              IF T = {} THEN ListStart(limit)
                              ELSE ListNext(it[T \ {Max(T)}], s[Max(T)], isSummary)]
           fold == CHOOSE it : Def(it)
           m == Len(s)
<1>1. DOMAIN s = 1 .. m /\ m \in Nat /\ s \in [1 .. m -> E]
  OBVIOUS
<1>2. ListLoop(s, limit, isSummary) = fold[DOMAIN s]
  BY DEF ListLoop, ListStart, FoldLeft, MapThenFoldSet
<1>3. ListStart(limit) \in ListStates(E)
  BY ListStartType
<1>4. Def(fold)
  <2>1. F \in [ListStates(E) \X E -> ListStates(E)]
    BY ListNextEffect
  <2>2. \E it \in [SUBSET (1 .. m) -> ListStates(E)] : Iterates(it, F, ListStart(limit), s, m)
    <3> HIDE DEF F, Def, m
    <3> QED
      BY <1>1, <1>3, <2>1, FoldExists
  <2>3. PICK it \in [SUBSET (1 .. m) -> ListStates(E)] : Iterates(it, F, ListStart(limit), s, m)
    BY <2>2
  <2>4. ASSUME NEW T \in SUBSET (1 .. m), T # {}
        PROVE  it[T] = ListNext(it[T \ {Max(T)}], s[Max(T)], isSummary)
    BY <1>1, <2>3, <2>4, MaxOfSubset DEF Iterates
  <2>5. Def(it)
    BY <1>1, <2>3, <2>4 DEF Iterates
  <2> HIDE DEF Def
  <2> QED
    BY <2>5
<1> HIDE DEF fold
<1> DEFINE run == [k \in 0 .. m |-> fold[1 .. k]]
<1>5. run[0] = ListStart(limit)
  BY <1>1, <1>4, 1 .. 0 = {}
<1>6. ASSUME NEW k \in 1 .. m
      PROVE  run[k] = ListNext(run[k - 1], s[k], isSummary)
  <2>1. /\ Max(1 .. k) = k /\ (1 .. k) \ {k} = 1 .. k - 1
        /\ 1 .. k # {} /\ 1 .. k \in SUBSET (1 .. m)
    BY <1>1, Prefix
  <2>2. fold[1 .. k] = ListNext(fold[(1 .. k) \ {Max(1 .. k)}], s[Max(1 .. k)], isSummary)
    BY <1>1, <1>4, <2>1
  <2>3. k \in 0 .. m /\ k - 1 \in 0 .. m
    BY <1>1
  <2> QED
    BY <2>1, <2>2, <2>3
<1>7. run[m] = ListLoop(s, limit, isSummary)
  BY <1>1, <1>2
<1>8. ASSUME NEW k \in Nat, k + 1 <= m, run[k] \in ListStates(E)
      PROVE  run[k + 1] \in ListStates(E)
  <2>1. k + 1 \in 1 .. m /\ (k + 1) - 1 = k /\ s[k + 1] \in E
    BY <1>1, <1>8
  <2>2. run[k + 1] = ListNext(run[k], s[k + 1], isSummary)
    BY <1>6, <2>1
  <2> HIDE DEF run
  <2> QED
    BY <1>8, <2>1, <2>2, ListNextEffect
<1> HIDE DEF run
<1>9. run \in [0 .. m -> ListStates(E)]
  <2> DEFINE D == {k \in Nat : run[k] \in ListStates(E)}
  <2>1. 0 \in D
    BY <1>3, <1>5
  <2>2. \A k \in Nat : k + 1 <= m /\ k \in D => k + 1 \in D
    BY <1>8
  <2>3. 0 .. m \subseteq D
    <3> HIDE DEF D, m
    <3> QED
      BY <1>1, <2>1, <2>2, IntervalInduction
  <2> QED
    BY <2>3 DEF run
<1> QED
  BY <1>5, <1>6, <1>7, <1>9 DEF ListRun

\* After k elements, of which limit lines were asked.
ListInv(st, els, limit, k) ==
  /\ st.seen <= k /\ st.seen <= st.limit
  /\ Len(st.listed) = st.seen - (st.limit - limit) /\ limit <= st.limit
  /\ \A i \in 1 .. st.seen : Meaningful(els[i]) => els[i] \in ToSet(st.listed)
  /\ st.stopped => st.seen = st.limit
  /\ ~st.stopped => st.seen = k

LEMMA ListStep ==
  ASSUME NEW E, NEW els \in Seq(E), NEW limit \in Nat, NEW isSummary,
         NEW k \in Nat, k + 1 \in 1 .. Len(els), NEW st \in ListStates(E),
         ListInv(st, els, limit, k)
  PROVE  ListInv(ListNext(st, els[k + 1], isSummary), els, limit, k + 1)
<1>1. PICK el \in E : el = els[k + 1]
  OBVIOUS
<1>2. PICK new \in ListStates(E) : new = ListNext(st, el, isSummary)
  BY ListNextEffect
<1>3. /\ st.listed \in Seq(E) /\ st.seen \in Nat /\ st.limit \in Nat /\ st.stopped \in BOOLEAN
      /\ Len(st.listed) \in Nat
  BY <1>1, ListNextEffect
<1>4. CASE st.stopped \/ st.seen >= st.limit
  <2>1. new = [st EXCEPT !.stopped = TRUE]
    BY <1>2, <1>4, ListNextEffect
  <2>2. /\ new.listed = st.listed /\ new.seen = st.seen
        /\ new.limit = st.limit /\ new.stopped = TRUE
    BY <2>1 DEF ListStates
  <2>3. st.seen = st.limit
    BY <1>3, <1>4 DEF ListInv
  <2>4. ListInv(new, els, limit, k + 1)
    BY <1>3, <2>2, <2>3 DEF ListInv
  <2> QED
    BY <1>1, <1>2, <2>4
<1>5. CASE ~(st.stopped \/ st.seen >= st.limit)
  <2>1. /\ new.seen = st.seen + 1 /\ new.stopped = st.stopped
        /\ \/ ~Meaningful(el) /\ new.listed = st.listed /\ new.limit = st.limit + 1
           \/ new.listed = Append(st.listed, el) /\ new.limit = st.limit
    BY <1>2, <1>5, ListNextEffect
  <2>2. /\ ToSet(Append(st.listed, el)) = ToSet(st.listed) \union {el}
        /\ Len(Append(st.listed, el)) = Len(st.listed) + 1
    BY <1>3, ToSetAppend
  <2>3. st.seen = k
    BY <1>5 DEF ListInv
  <2>4. \A i \in 1 .. k + 1 : i \in 1 .. k \/ i = k + 1
    OBVIOUS
  <2>5. \A i \in 1 .. new.seen : Meaningful(els[i]) => els[i] \in ToSet(new.listed)
    BY <1>1, <2>1, <2>2, <2>3, <2>4 DEF ListInv
  <2>6. Len(new.listed) = new.seen - (new.limit - limit) /\ limit <= new.limit /\ new.seen <= new.limit
    <3>1. /\ Len(st.listed) = st.seen - (st.limit - limit) /\ limit <= st.limit
          /\ st.seen < st.limit
      BY <1>3, <1>5 DEF ListInv
    <3>2. CASE new.listed = st.listed /\ new.limit = st.limit + 1
      <4>1. Len(new.listed) = Len(st.listed) /\ new.seen = st.seen + 1
        BY <2>1, <3>2
      <4>2. PICK count \in Nat : count = Len(st.listed)
        BY <1>3
      <4>3. st.seen \in Nat /\ st.limit \in Nat
        BY <1>3
      <4>4. /\ count = new.seen - (new.limit - limit) /\ limit <= new.limit
            /\ new.seen <= new.limit
        BY <3>1, <3>2, <4>1, <4>2, <4>3, SMTT(60)
      <4> QED
        BY <4>1, <4>2, <4>4
    <3>3. CASE new.listed = Append(st.listed, el) /\ new.limit = st.limit
      BY <1>3, <2>1, <2>2, <3>1, <3>3, SMTT(60)
    <3> QED
      BY <2>1, <3>2, <3>3
  <2>7. ListInv(new, els, limit, k + 1)
    BY <1>5, <2>1, <2>3, <2>5, <2>6 DEF ListInv
  <2> QED
    BY <1>1, <1>2, <2>7
<1> QED
  BY <1>4, <1>5

LEMMA ListEnds ==
  ASSUME NEW E, NEW els \in Seq(E), NEW limit \in Nat, NEW isSummary
  PROVE  /\ ListLoop(els, limit, isSummary) \in ListStates(E)
         /\ ListInv(ListLoop(els, limit, isSummary), els, limit, Len(els))
<1>1. PICK run \in [0 .. Len(els) -> ListStates(E)] : ListRun(run, els, limit, isSummary)
  BY ListRuns
<1> DEFINE D == {k \in Nat : ListInv(run[k], els, limit, k)}
<1>2. Len(els) \in Nat /\ Len(els) \in 0 .. Len(els)
  OBVIOUS
<1>3. 0 \in D
  <2>1. ListInv(ListStart(limit), els, limit, 0)
    BY DEF ListInv, ListStart
  <2> QED
    BY <1>1, <2>1 DEF ListRun
<1>4. ASSUME NEW k \in Nat, k + 1 <= Len(els), k \in D
      PROVE  k + 1 \in D
  <2>1. k \in 0 .. Len(els) /\ k + 1 \in 1 .. Len(els) /\ (k + 1) - 1 = k
    BY <1>2, <1>4
  <2>2. run[k] \in ListStates(E) /\ ListInv(run[k], els, limit, k)
    BY <1>1, <1>4, <2>1
  <2>3. run[k + 1] = ListNext(run[k], els[k + 1], isSummary)
    BY <1>1, <2>1 DEF ListRun
  <2> QED
    BY <2>1, <2>2, <2>3, ListStep
<1>5. 0 .. Len(els) \subseteq D
  <2> HIDE DEF D
  <2> QED
    BY <1>2, <1>3, <1>4, IntervalInduction
<1> QED
  BY <1>1, <1>2, <1>5 DEF ListRun

\* What the first list says of its elements.
LEMMA ListHidesNothing ==
  ASSUME NEW E, NEW els \in Seq(E), NEW show \in Int, NEW isSummary,
         NEW r, r = ElementsForLLM(els, show, isSummary)
  PROVE  /\ show >= 0 => Len(r.listed) <= show
         /\ Cardinality(Unlisted(els, r.listed, Len(els))) <= r.more
         /\ r.more > 0 => Len(r.listed) = show
<1>1. PICK n \in Nat : n = Len(els)
  OBVIOUS
<1>2. PICK limit \in Nat : limit = MaxShow(show, n)
  BY MaxShowType
<1>3. /\ limit <= n /\ (show >= 0 => limit <= show) /\ (limit # show => limit = n)
  BY <1>1, <1>2, MaxShowType
<1>4. PICK end \in ListStates(E) :
         end = ListLoop(els, limit, isSummary) /\ ListInv(end, els, limit, n)
  BY <1>1, ListEnds
<1>5. r.listed = end.listed /\ r.more = IF end.stopped THEN n - end.limit ELSE 0
  BY <1>1, <1>2, <1>4 DEF ElementsForLLM
<1>6. /\ end.seen \in Nat /\ end.limit \in Nat /\ end.stopped \in BOOLEAN
      /\ Len(end.listed) \in Nat
  BY DEF ListStates
<1>7. /\ end.seen <= n /\ end.seen <= end.limit
      /\ Len(end.listed) = end.seen - (end.limit - limit) /\ limit <= end.limit
      /\ end.stopped => end.seen = end.limit
      /\ ~end.stopped => end.seen = n
  BY <1>4 DEF ListInv
<1>8. Cardinality(Unlisted(els, r.listed, n)) <= n - end.seen
  <2>1. Unlisted(els, r.listed, n) \in SUBSET (end.seen + 1 .. n)
    <3>1. \A i \in 1 .. end.seen : Meaningful(els[i]) => els[i] \in ToSet(r.listed)
      BY <1>4, <1>5 DEF ListInv
    <3>2. \A i \in 1 .. n : i \in 1 .. end.seen \/ i \in end.seen + 1 .. n
      BY <1>6
    <3> QED
      BY <3>1, <3>2 DEF Unlisted
  <2>2. /\ IsFiniteSet(end.seen + 1 .. n)
        /\ Cardinality(end.seen + 1 .. n) = n - end.seen
    <3>1. end.seen + 1 \in Int /\ n \in Int
      BY <1>6
    <3>2. /\ IsFiniteSet(end.seen + 1 .. n)
          /\ Cardinality(end.seen + 1 .. n) =
               IF end.seen + 1 > n THEN 0 ELSE n - (end.seen + 1) + 1
      BY <3>1, FS_Interval
    <3> QED
      BY <1>6, <1>7, <3>2
  <2> QED
    BY <2>1, <2>2, FS_Subset
<1>9. n - end.seen <= r.more
  BY <1>5, <1>6, <1>7
<1>10. Cardinality(Unlisted(els, r.listed, n)) \in Nat
  BY UnlistedFinite
<1>11. Cardinality(Unlisted(els, r.listed, n)) <= r.more
  BY <1>5, <1>6, <1>8, <1>9, <1>10
<1>12. r.more > 0 => Len(r.listed) = show
  BY <1>3, <1>5, <1>6, <1>7
<1>13. show >= 0 => Len(r.listed) <= show
  BY <1>3, <1>5, <1>6, <1>7
<1> QED
  BY <1>1, <1>11, <1>12, <1>13

\* The positions among the first k with an element of X.
Hits(s, X, k) == {i \in 1 .. k : s[i] \in X}

LEMMA HitsStep ==
  ASSUME NEW s, NEW X, NEW k \in Nat
  PROVE  /\ Hits(s, X, 0) = {}
         /\ IsFiniteSet(Hits(s, X, k)) /\ Cardinality(Hits(s, X, k)) \in Nat
         /\ s[k + 1] \in X => Cardinality(Hits(s, X, k + 1)) = Cardinality(Hits(s, X, k)) + 1
         /\ s[k + 1] \notin X => Hits(s, X, k + 1) = Hits(s, X, k)
<1>1. IsFiniteSet(Hits(s, X, k)) /\ Cardinality(Hits(s, X, k)) \in Nat
  <2>1. IsFiniteSet(1 .. k)
    BY FS_Interval
  <2>2. Hits(s, X, k) \in SUBSET (1 .. k)
    BY DEF Hits
  <2> QED
    BY <2>1, <2>2, FS_Subset, FS_CardinalityType
<1>2. \A i : i \in 1 .. k + 1 <=> i \in 1 .. k \/ i = k + 1
  OBVIOUS
<1>3. k + 1 \notin Hits(s, X, k)
  BY DEF Hits
<1>4. s[k + 1] \in X => Hits(s, X, k + 1) = Hits(s, X, k) \union {k + 1}
  BY <1>2 DEF Hits
<1>5. s[k + 1] \notin X => Hits(s, X, k + 1) = Hits(s, X, k)
  BY <1>2 DEF Hits
<1>6. s[k + 1] \in X => Cardinality(Hits(s, X, k + 1)) = Cardinality(Hits(s, X, k)) + 1
  BY <1>1, <1>3, <1>4, FS_AddElement
<1>7. Hits(s, X, 0) = {}
  BY DEF Hits
<1> QED
  BY <1>1, <1>5, <1>6, <1>7

OnScreen(E, w, h) == {el \in E : ~OffScreen(el, w, h)}
SplitStates(E, w, h) == [on : Seq(OnScreen(E, w, h)), off : Nat]
SplitStart == [on |-> <<>>, off |-> 0]

LEMMA SplitStartType ==
  ASSUME NEW E, NEW w, NEW h
  PROVE  SplitStart \in SplitStates(E, w, h)
<1>1. <<>> \in Seq(OnScreen(E, w, h))
  OBVIOUS
<1> QED
  BY <1>1 DEF SplitStart, SplitStates

LEMMA SplitNextEffect ==
  ASSUME NEW E, NEW w, NEW h, NEW st \in SplitStates(E, w, h), NEW el \in E
  PROVE  /\ SplitNext(st, el, w, h) \in SplitStates(E, w, h)
         /\ ~OffScreen(el, w, h) => /\ el \in OnScreen(E, w, h)
                                    /\ SplitNext(st, el, w, h).on = Append(st.on, el)
                                    /\ SplitNext(st, el, w, h).off = st.off
         /\ OffScreen(el, w, h) =>
              /\ el \notin OnScreen(E, w, h)
              /\ SplitNext(st, el, w, h).on = st.on
              /\ SplitNext(st, el, w, h).off = IF Meaningful(el) THEN st.off + 1 ELSE st.off
<1> DEFINE S == Seq(OnScreen(E, w, h))
<1>1. st \in [on : S, off : Nat] /\ SplitStates(E, w, h) = [on : S, off : Nat]
  BY DEF SplitStates
<1>2. el \in OnScreen(E, w, h) <=> ~OffScreen(el, w, h)
  BY DEF OnScreen
<1>3. ~OffScreen(el, w, h) => Append(st.on, el) \in S
  <2>1. st.on \in S
    BY <1>1
  <2> QED
    BY <1>2, <2>1
<1>4. st.off + 1 \in Nat
  BY <1>1
<1> HIDE DEF S
<1>5. PICK new : new = SplitNext(st, el, w, h)
  OBVIOUS
<1>6. CASE ~OffScreen(el, w, h)
  <2>1. new = [st EXCEPT !.on = Append(@, el)]
    BY <1>5, <1>6 DEF SplitNext
  <2> QED
    BY <1>1, <1>2, <1>3, <1>5, <1>6, <2>1
<1>7. CASE OffScreen(el, w, h)
  <2>1. new = IF Meaningful(el) THEN [st EXCEPT !.off = @ + 1] ELSE st
    BY <1>5, <1>7 DEF SplitNext, Meaningful
  <2> QED
    BY <1>1, <1>2, <1>4, <1>5, <1>7, <2>1
<1> QED
  BY <1>6, <1>7


SplitRun(run, s, w, h) ==
  /\ run[0] = SplitStart
  /\ \A k \in 1 .. Len(s) : run[k] = SplitNext(run[k - 1], s[k], w, h)
  /\ run[Len(s)] = Split(s, w, h)

LEMMA SplitRuns ==
  ASSUME NEW E, NEW w, NEW h, NEW s \in Seq(E)
  PROVE  \E run \in [0 .. Len(s) -> SplitStates(E, w, h)] : SplitRun(run, s, w, h)
<1> DEFINE F == [p \in SplitStates(E, w, h) \X E |-> SplitNext(p[1], p[2], w, h)]
           Def(it) == it = [T \in SUBSET DOMAIN s |->
                              IF T = {} THEN SplitStart
                              ELSE SplitNext(it[T \ {Max(T)}], s[Max(T)], w, h)]
           fold == CHOOSE it : Def(it)
           m == Len(s)
<1>1. DOMAIN s = 1 .. m /\ m \in Nat /\ s \in [1 .. m -> E]
  OBVIOUS
<1>2. Split(s, w, h) = fold[DOMAIN s]
  BY DEF Split, SplitStart, FoldLeft, MapThenFoldSet
<1>3. SplitStart \in SplitStates(E, w, h)
  BY SplitStartType
<1>4. Def(fold)
  <2>1. F \in [SplitStates(E, w, h) \X E -> SplitStates(E, w, h)]
    BY SplitNextEffect
  <2>2. \E it \in [SUBSET (1 .. m) -> SplitStates(E, w, h)] : Iterates(it, F, SplitStart, s, m)
    <3> HIDE DEF F, Def, m
    <3> QED
      BY <1>1, <1>3, <2>1, FoldExists
  <2>3. PICK it \in [SUBSET (1 .. m) -> SplitStates(E, w, h)] : Iterates(it, F, SplitStart, s, m)
    BY <2>2
  <2>4. ASSUME NEW T \in SUBSET (1 .. m), T # {}
        PROVE  it[T] = SplitNext(it[T \ {Max(T)}], s[Max(T)], w, h)
    BY <1>1, <2>3, <2>4, MaxOfSubset DEF Iterates
  <2>5. Def(it)
    BY <1>1, <2>3, <2>4 DEF Iterates
  <2> HIDE DEF Def
  <2> QED
    BY <2>5
<1> HIDE DEF fold
<1> DEFINE run == [k \in 0 .. m |-> fold[1 .. k]]
<1>5. run[0] = SplitStart
  BY <1>1, <1>4, 1 .. 0 = {}
<1>6. ASSUME NEW k \in 1 .. m
      PROVE  run[k] = SplitNext(run[k - 1], s[k], w, h)
  <2>1. /\ Max(1 .. k) = k /\ (1 .. k) \ {k} = 1 .. k - 1
        /\ 1 .. k # {} /\ 1 .. k \in SUBSET (1 .. m)
    BY <1>1, Prefix
  <2>2. fold[1 .. k] = SplitNext(fold[(1 .. k) \ {Max(1 .. k)}], s[Max(1 .. k)], w, h)
    BY <1>1, <1>4, <2>1
  <2>3. k \in 0 .. m /\ k - 1 \in 0 .. m
    BY <1>1
  <2> QED
    BY <2>1, <2>2, <2>3
<1>7. run[m] = Split(s, w, h)
  BY <1>1, <1>2
<1>8. ASSUME NEW k \in Nat, k + 1 <= m, run[k] \in SplitStates(E, w, h)
      PROVE  run[k + 1] \in SplitStates(E, w, h)
  <2>1. k + 1 \in 1 .. m /\ (k + 1) - 1 = k /\ s[k + 1] \in E
    BY <1>1, <1>8
  <2>2. run[k + 1] = SplitNext(run[k], s[k + 1], w, h)
    BY <1>6, <2>1
  <2> HIDE DEF run
  <2> QED
    BY <1>8, <2>1, <2>2, SplitNextEffect
<1> HIDE DEF run
<1>9. run \in [0 .. m -> SplitStates(E, w, h)]
  <2> DEFINE D == {k \in Nat : run[k] \in SplitStates(E, w, h)}
  <2>1. 0 \in D
    BY <1>3, <1>5
  <2>2. \A k \in Nat : k + 1 <= m /\ k \in D => k + 1 \in D
    BY <1>8
  <2>3. 0 .. m \subseteq D
    <3> HIDE DEF D, m
    <3> QED
      BY <1>1, <2>1, <2>2, IntervalInduction
  <2> QED
    BY <2>3 DEF run
<1> QED
  BY <1>5, <1>6, <1>7, <1>9 DEF SplitRun

\* What is counted as off the screen.
Collapsed(E, w, h) == {el \in E : OffScreen(el, w, h) /\ Meaningful(el)}

\* After k elements: what is on the screen has been kept, as often as it
\* occurs, and the rest has been counted.
SplitInv(st, els, E, X, w, h, k) ==
  /\ Cardinality(Hits(els, X \intersect OnScreen(E, w, h), k))
       = Cardinality(Hits(st.on, X, Len(st.on)))
  /\ Cardinality(Hits(els, Collapsed(E, w, h), k)) = st.off

LEMMA SplitStep ==
  ASSUME NEW E, NEW els \in Seq(E), NEW X, NEW w, NEW h,
         NEW k \in Nat, k + 1 \in 1 .. Len(els), NEW st \in SplitStates(E, w, h),
         SplitInv(st, els, E, X, w, h, k)
  PROVE  SplitInv(SplitNext(st, els[k + 1], w, h), els, E, X, w, h, k + 1)
<1>1. PICK el \in E : el = els[k + 1]
  OBVIOUS
<1>2. PICK new \in SplitStates(E, w, h) : new = SplitNext(st, el, w, h)
  BY SplitNextEffect
<1>3. PICK Y : Y = X \intersect OnScreen(E, w, h)
  OBVIOUS
<1>4. PICK Z : Z = Collapsed(E, w, h)
  OBVIOUS
<1>5. PICK n \in Nat : n = Len(st.on)
  BY DEF SplitStates
<1>6. st.on \in Seq(OnScreen(E, w, h)) /\ st.off \in Nat
  BY DEF SplitStates
<1>7. /\ Cardinality(Hits(els, Y, k)) = Cardinality(Hits(st.on, X, n))
      /\ Cardinality(Hits(els, Z, k)) = st.off
  BY <1>3, <1>4, <1>5 DEF SplitInv
<1>8. /\ el \in Y => Cardinality(Hits(els, Y, k + 1)) = Cardinality(Hits(els, Y, k)) + 1
      /\ el \notin Y => Hits(els, Y, k + 1) = Hits(els, Y, k)
      /\ el \in Z => Cardinality(Hits(els, Z, k + 1)) = Cardinality(Hits(els, Z, k)) + 1
      /\ el \notin Z => Hits(els, Z, k + 1) = Hits(els, Z, k)
  BY <1>1, HitsStep
<1>9. CASE ~OffScreen(el, w, h)
  <2>1. el \in OnScreen(E, w, h) /\ new.on = Append(st.on, el) /\ new.off = st.off
    BY <1>2, <1>9, SplitNextEffect
  <2>2. /\ Len(new.on) = n + 1 /\ new.on[n + 1] = el
        /\ \A i \in 1 .. n : new.on[i] = st.on[i]
    BY <1>5, <1>6, <2>1, AppendProperties
  <2>3. Hits(new.on, X, n) = Hits(st.on, X, n)
    BY <2>2 DEF Hits
  <2>4. /\ el \in X => Cardinality(Hits(new.on, X, n + 1)) = Cardinality(Hits(new.on, X, n)) + 1
        /\ el \notin X => Hits(new.on, X, n + 1) = Hits(new.on, X, n)
    BY <2>2, HitsStep
  <2>5. (el \in X <=> el \in Y) /\ el \notin Z
    BY <1>3, <1>4, <1>9, <2>1 DEF Collapsed
  <2>6. Cardinality(Hits(els, Y, k + 1)) = Cardinality(Hits(new.on, X, n + 1))
    BY <1>7, <1>8, <2>3, <2>4, <2>5
  <2>7. Cardinality(Hits(els, Z, k + 1)) = new.off
    BY <1>7, <1>8, <2>1, <2>5
  <2> QED
    BY <1>1, <1>2, <1>3, <1>4, <2>2, <2>6, <2>7 DEF SplitInv
<1>10. CASE OffScreen(el, w, h)
  <2>1. /\ el \notin OnScreen(E, w, h) /\ new.on = st.on
        /\ new.off = IF Meaningful(el) THEN st.off + 1 ELSE st.off
    BY <1>2, <1>10, SplitNextEffect
  <2>2. el \notin Y /\ (el \in Z <=> Meaningful(el))
    BY <1>3, <1>4, <1>10, <2>1 DEF Collapsed
  <2>3. Cardinality(Hits(els, Y, k + 1)) = Cardinality(Hits(new.on, X, Len(new.on)))
    BY <1>5, <1>7, <1>8, <2>1, <2>2
  <2>4. Cardinality(Hits(els, Z, k + 1)) = new.off
    BY <1>7, <1>8, <2>1, <2>2
  <2> QED
    BY <1>1, <1>2, <1>3, <1>4, <2>3, <2>4 DEF SplitInv
<1> QED
  BY <1>9, <1>10

LEMMA SplitEnds ==
  ASSUME NEW E, NEW els \in Seq(E), NEW X, NEW w, NEW h
  PROVE  /\ Split(els, w, h) \in SplitStates(E, w, h)
         /\ SplitInv(Split(els, w, h), els, E, X, w, h, Len(els))
<1>1. PICK run \in [0 .. Len(els) -> SplitStates(E, w, h)] : SplitRun(run, els, w, h)
  BY SplitRuns
<1> DEFINE D == {k \in Nat : SplitInv(run[k], els, E, X, w, h, k)}
<1>2. Len(els) \in Nat /\ Len(els) \in 0 .. Len(els)
  OBVIOUS
<1>3. 0 \in D
  <2>1. \A s, Y : Hits(s, Y, 0) = {} /\ Cardinality({}) = 0
    BY HitsStep, FS_EmptySet
  <2>2. SplitStart.on = <<>> /\ SplitStart.off = 0 /\ Len(<<>>) = 0
    BY DEF SplitStart
  <2>3. SplitInv(SplitStart, els, E, X, w, h, 0)
    BY <2>1, <2>2 DEF SplitInv
  <2> QED
    BY <1>1, <2>3 DEF SplitRun
<1>4. ASSUME NEW k \in Nat, k + 1 <= Len(els), k \in D
      PROVE  k + 1 \in D
  <2>1. k \in 0 .. Len(els) /\ k + 1 \in 1 .. Len(els) /\ (k + 1) - 1 = k
    BY <1>2, <1>4
  <2>2. run[k] \in SplitStates(E, w, h) /\ SplitInv(run[k], els, E, X, w, h, k)
    BY <1>1, <1>4, <2>1
  <2>3. run[k + 1] = SplitNext(run[k], els[k + 1], w, h)
    BY <1>1, <2>1 DEF SplitRun
  <2> QED
    BY <2>1, <2>2, <2>3, SplitStep
<1>5. 0 .. Len(els) \subseteq D
  <2> HIDE DEF D
  <2> QED
    BY <1>2, <1>3, <1>4, IntervalInduction
<1> QED
  BY <1>1, <1>2, <1>5 DEF SplitRun


ViewStates(E) == [listed : Seq(E), stopped : BOOLEAN]
ViewStart == [listed |-> <<>>, stopped |-> FALSE]

LEMMA ViewStartType ==
  ASSUME NEW E
  PROVE  ViewStart \in ViewStates(E)
<1>1. <<>> \in Seq(E)
  OBVIOUS
<1> QED
  BY <1>1 DEF ViewStart, ViewStates

Full(st, limit) == st.stopped \/ Len(st.listed) >= limit

\* new is what becomes of st in a round, by what is in the list.
ViewMoves(st, new, el, isSummary, limit) ==
  /\ Full(st, limit) => new.listed = st.listed /\ new.stopped = TRUE
  /\ ~Full(st, limit) =>
       /\ new.stopped = st.stopped
       /\ \/ (Filtered(el, isSummary) \/ ~el.says) /\ new.listed = st.listed
          \/ new.listed = Append(st.listed, el)

LEMMA ViewNextEffect ==
  ASSUME NEW E, NEW st \in ViewStates(E), NEW el \in E, NEW isSummary, NEW limit \in Nat,
         NEW new, new = ViewNext(st, el, isSummary, limit)
  PROVE  new \in ViewStates(E) /\ ViewMoves(st, new, el, isSummary, limit)
<1> DEFINE S == Seq(E)
<1>1. st \in [listed : S, stopped : BOOLEAN] /\ ViewStates(E) = [listed : S, stopped : BOOLEAN]
  BY DEF ViewStates
<1>2. Append(st.listed, el) \in S
  <2>1. st.listed \in S
    BY <1>1
  <2> QED
    BY <2>1
<1> HIDE DEF S
<1>3. CASE Full(st, limit)
  <2>1. new = [st EXCEPT !.stopped = TRUE]
    BY <1>3 DEF ViewNext, Full
  <2> QED
    BY <1>1, <1>3, <2>1 DEF ViewMoves
<1>4. CASE ~Full(st, limit) /\ (Filtered(el, isSummary) \/ ~el.says)
  <2>1. new = st
    BY <1>4 DEF ViewNext, Full
  <2> QED
    BY <1>4, <2>1 DEF ViewMoves
<1>5. CASE ~Full(st, limit) /\ ~(Filtered(el, isSummary) \/ ~el.says)
  <2>1. new = [st EXCEPT !.listed = Append(@, el)]
    BY <1>5 DEF ViewNext, Full
  <2> QED
    BY <1>1, <1>2, <1>5, <2>1 DEF ViewMoves
<1> QED
  BY <1>3, <1>4, <1>5


ViewRun(run, s, limit, isSummary) ==
  /\ run[0] = ViewStart
  /\ \A k \in 1 .. Len(s) : run[k] = ViewNext(run[k - 1], s[k], isSummary, limit)
  /\ run[Len(s)] = ViewLoop(s, limit, isSummary)

LEMMA ViewRuns ==
  ASSUME NEW E, NEW limit \in Nat, NEW isSummary, NEW s \in Seq(E)
  PROVE  \E run \in [0 .. Len(s) -> ViewStates(E)] : ViewRun(run, s, limit, isSummary)
<1> DEFINE F == [p \in ViewStates(E) \X E |-> ViewNext(p[1], p[2], isSummary, limit)]
           Def(it) == it = [T \in SUBSET DOMAIN s |->
                              IF T = {} THEN ViewStart
                              ELSE ViewNext(it[T \ {Max(T)}], s[Max(T)], isSummary, limit)]
           fold == CHOOSE it : Def(it)
           m == Len(s)
<1>1. DOMAIN s = 1 .. m /\ m \in Nat /\ s \in [1 .. m -> E]
  OBVIOUS
<1>2. ViewLoop(s, limit, isSummary) = fold[DOMAIN s]
  BY DEF ViewLoop, ViewStart, FoldLeft, MapThenFoldSet
<1>3. ViewStart \in ViewStates(E)
  BY ViewStartType
<1>4. Def(fold)
  <2>1. F \in [ViewStates(E) \X E -> ViewStates(E)]
    BY ViewNextEffect
  <2>2. \E it \in [SUBSET (1 .. m) -> ViewStates(E)] : Iterates(it, F, ViewStart, s, m)
    <3> HIDE DEF F, Def, m
    <3> QED
      BY <1>1, <1>3, <2>1, FoldExists
  <2>3. PICK it \in [SUBSET (1 .. m) -> ViewStates(E)] : Iterates(it, F, ViewStart, s, m)
    BY <2>2
  <2>4. ASSUME NEW T \in SUBSET (1 .. m), T # {}
        PROVE  it[T] = ViewNext(it[T \ {Max(T)}], s[Max(T)], isSummary, limit)
    BY <1>1, <2>3, <2>4, MaxOfSubset DEF Iterates
  <2>5. Def(it)
    BY <1>1, <2>3, <2>4 DEF Iterates
  <2> HIDE DEF Def
  <2> QED
    BY <2>5
<1> HIDE DEF fold
<1> DEFINE run == [k \in 0 .. m |-> fold[1 .. k]]
<1>5. run[0] = ViewStart
  BY <1>1, <1>4, 1 .. 0 = {}
<1>6. ASSUME NEW k \in 1 .. m
      PROVE  run[k] = ViewNext(run[k - 1], s[k], isSummary, limit)
  <2>1. /\ Max(1 .. k) = k /\ (1 .. k) \ {k} = 1 .. k - 1
        /\ 1 .. k # {} /\ 1 .. k \in SUBSET (1 .. m)
    BY <1>1, Prefix
  <2>2. fold[1 .. k] = ViewNext(fold[(1 .. k) \ {Max(1 .. k)}], s[Max(1 .. k)], isSummary, limit)
    BY <1>1, <1>4, <2>1
  <2>3. k \in 0 .. m /\ k - 1 \in 0 .. m
    BY <1>1
  <2> QED
    BY <2>1, <2>2, <2>3
<1>7. run[m] = ViewLoop(s, limit, isSummary)
  BY <1>1, <1>2
<1>8. ASSUME NEW k \in Nat, k + 1 <= m, run[k] \in ViewStates(E)
      PROVE  run[k + 1] \in ViewStates(E)
  <2>1. k + 1 \in 1 .. m /\ (k + 1) - 1 = k /\ s[k + 1] \in E
    BY <1>1, <1>8
  <2>2. run[k + 1] = ViewNext(run[k], s[k + 1], isSummary, limit)
    BY <1>6, <2>1
  <2> HIDE DEF run
  <2> QED
    BY <1>8, <2>1, <2>2, ViewNextEffect
<1> HIDE DEF run
<1>9. run \in [0 .. m -> ViewStates(E)]
  <2> DEFINE D == {k \in Nat : run[k] \in ViewStates(E)}
  <2>1. 0 \in D
    BY <1>3, <1>5
  <2>2. \A k \in Nat : k + 1 <= m /\ k \in D => k + 1 \in D
    BY <1>8
  <2>3. 0 .. m \subseteq D
    <3> HIDE DEF D, m
    <3> QED
      BY <1>1, <2>1, <2>2, IntervalInduction
  <2> QED
    BY <2>3 DEF run
<1> QED
  BY <1>5, <1>6, <1>7, <1>9 DEF ViewRun

\* After k elements, of which limit lines were asked.
ViewInv(st, on, limit, k) ==
  /\ Len(st.listed) <= limit
  /\ Len(st.listed) + Cardinality(Unlisted(on, st.listed, k)) <= k
  /\ st.stopped => Len(st.listed) = limit
  /\ ~st.stopped => Unlisted(on, st.listed, k) = {}

LEMMA ViewStep ==
  ASSUME NEW E, \A el \in E : Meaningful(el) => el.says,
         NEW on \in Seq(E), NEW limit \in Nat, NEW isSummary,
         NEW k \in Nat, k + 1 \in 1 .. Len(on), NEW st \in ViewStates(E),
         ViewInv(st, on, limit, k)
  PROVE  ViewInv(ViewNext(st, on[k + 1], isSummary, limit), on, limit, k + 1)
<1>1. PICK el \in E : el = on[k + 1]
  OBVIOUS
<1>2. PICK new : new = ViewNext(st, el, isSummary, limit)
  OBVIOUS
<1>3. new \in ViewStates(E) /\ ViewMoves(st, new, el, isSummary, limit)
  BY <1>2, ViewNextEffect
<1>4. /\ st.listed \in Seq(E) /\ st.stopped \in BOOLEAN
      /\ Len(st.listed) \in Nat
  BY DEF ViewStates
<1>5. \A i : i \in 1 .. k + 1 <=> i \in 1 .. k \/ i = k + 1
  OBVIOUS
<1>6. /\ IsFiniteSet(Unlisted(on, st.listed, k))
      /\ Cardinality(Unlisted(on, st.listed, k)) \in Nat
      /\ Cardinality(Unlisted(on, new.listed, k + 1)) \in Nat
  <2>1. k + 1 \in Nat
    OBVIOUS
  <2> QED
    BY <2>1, UnlistedFinite
<1>7. CASE Full(st, limit)
  <2>1. new.listed = st.listed /\ new.stopped = TRUE
    BY <1>3, <1>7 DEF ViewMoves
  <2>2. Len(st.listed) = limit
    BY <1>4, <1>7 DEF ViewInv, Full
  <2>3. /\ IsFiniteSet(Unlisted(on, st.listed, k) \union {k + 1})
        /\ Cardinality(Unlisted(on, st.listed, k) \union {k + 1})
             <= Cardinality(Unlisted(on, st.listed, k)) + 1
    <3>1. PICK U : U = Unlisted(on, st.listed, k)
      OBVIOUS
    <3>2. IsFiniteSet(U) /\ Cardinality(U) \in Nat
      BY <1>6, <3>1
    <3>3. /\ IsFiniteSet(U \union {k + 1})
          /\ Cardinality(U \union {k + 1}) =
               IF k + 1 \in U THEN Cardinality(U) ELSE Cardinality(U) + 1
      BY <3>2, FS_AddElement
    <3>4. Cardinality(U \union {k + 1}) <= Cardinality(U) + 1
      BY <3>2, <3>3
    <3> QED
      BY <3>1, <3>3, <3>4
  <2>4. Unlisted(on, st.listed, k + 1) \in SUBSET (Unlisted(on, st.listed, k) \union {k + 1})
    BY <1>5 DEF Unlisted
  <2>5. Cardinality(Unlisted(on, st.listed, k + 1)) <= Cardinality(Unlisted(on, st.listed, k)) + 1
    <3>1. Cardinality(Unlisted(on, st.listed, k + 1))
            <= Cardinality(Unlisted(on, st.listed, k) \union {k + 1})
      BY <2>3, <2>4, FS_Subset
    <3>2. Cardinality(Unlisted(on, st.listed, k) \union {k + 1}) \in Nat
      BY <2>3, FS_CardinalityType
    <3> QED
      BY <1>6, <2>1, <2>3, <3>1, <3>2
  <2>6. ViewInv(new, on, limit, k + 1)
    BY <1>4, <1>6, <2>1, <2>2, <2>5 DEF ViewInv
  <2> QED
    BY <1>1, <1>2, <2>6
<1>8. CASE ~Full(st, limit)
  <2>1. /\ new.stopped = st.stopped
        /\ \/ (Filtered(el, isSummary) \/ ~el.says) /\ new.listed = st.listed
           \/ new.listed = Append(st.listed, el)
    BY <1>3, <1>8 DEF ViewMoves
  <2>2. Unlisted(on, st.listed, k) = {} /\ Len(st.listed) <= k /\ Len(st.listed) < limit
    <3>1. Unlisted(on, st.listed, k) = {} /\ Len(st.listed) < limit
      BY <1>4, <1>8 DEF ViewInv, Full
    <3>2. Len(st.listed) + Cardinality({}) <= k
      BY <3>1 DEF ViewInv
    <3> QED
      BY <1>4, <3>1, <3>2, FS_EmptySet
  <2>3. /\ ToSet(Append(st.listed, el)) = ToSet(st.listed) \union {el}
        /\ Len(Append(st.listed, el)) = Len(st.listed) + 1
    BY <1>4, ToSetAppend
  <2>4. Filtered(el, isSummary) \/ ~el.says => ~Meaningful(el)
    BY DEF Filtered, Meaningful
  <2>5. Unlisted(on, new.listed, k + 1) = {}
    BY <1>1, <1>5, <2>1, <2>2, <2>3, <2>4 DEF Unlisted
  <2>6. Len(new.listed) <= limit /\ Len(new.listed) <= k + 1
    <3>1. Len(new.listed) = Len(st.listed) \/ Len(new.listed) = Len(st.listed) + 1
      BY <2>1, <2>3
    <3> QED
      BY <1>4, <2>2, <3>1
  <2>7. Len(new.listed) + Cardinality({}) <= k + 1
    <3>1. Len(new.listed) \in Nat
      BY <1>3 DEF ViewStates
    <3> QED
      BY <2>6, <3>1, FS_EmptySet
  <2>8. ViewInv(new, on, limit, k + 1)
    BY <1>8, <2>1, <2>5, <2>6, <2>7 DEF ViewInv, Full
  <2> QED
    BY <1>1, <1>2, <2>8
<1> QED
  BY <1>7, <1>8

LEMMA ViewEnds ==
  ASSUME NEW E, \A el \in E : Meaningful(el) => el.says,
         NEW on \in Seq(E), NEW limit \in Nat, NEW isSummary
  PROVE  /\ ViewLoop(on, limit, isSummary) \in ViewStates(E)
         /\ ViewInv(ViewLoop(on, limit, isSummary), on, limit, Len(on))
<1>1. PICK run \in [0 .. Len(on) -> ViewStates(E)] : ViewRun(run, on, limit, isSummary)
  BY ViewRuns
<1> DEFINE D == {k \in Nat : ViewInv(run[k], on, limit, k)}
<1>2. Len(on) \in Nat /\ Len(on) \in 0 .. Len(on)
  OBVIOUS
<1>3. 0 \in D
  <2>1. Unlisted(on, <<>>, 0) = {} /\ Cardinality({}) = 0
    BY FS_EmptySet DEF Unlisted
  <2>2. ViewStart.listed = <<>> /\ ViewStart.stopped = FALSE /\ Len(<<>>) = 0
    BY DEF ViewStart
  <2>3. ViewInv(ViewStart, on, limit, 0)
    <3>1. Unlisted(on, ViewStart.listed, 0) = {} /\ Len(ViewStart.listed) = 0
      BY <2>1, <2>2
    <3> QED
      BY <2>1, <2>2, <3>1 DEF ViewInv
  <2> QED
    BY <1>1, <2>3 DEF ViewRun
<1>4. ASSUME NEW k \in Nat, k + 1 <= Len(on), k \in D
      PROVE  k + 1 \in D
  <2>1. k \in 0 .. Len(on) /\ k + 1 \in 1 .. Len(on) /\ (k + 1) - 1 = k
    BY <1>2, <1>4
  <2>2. run[k] \in ViewStates(E) /\ ViewInv(run[k], on, limit, k)
    BY <1>1, <1>4, <2>1
  <2>3. run[k + 1] = ViewNext(run[k], on[k + 1], isSummary, limit)
    BY <1>1, <2>1 DEF ViewRun
  <2> QED
    BY <2>1, <2>2, <2>3, ViewStep
<1>5. 0 .. Len(on) \subseteq D
  <2> HIDE DEF D
  <2> QED
    BY <1>2, <1>3, <1>4, IntervalInduction
<1> QED
  BY <1>1, <1>2, <1>5 DEF ViewRun

\* What the second list says of its elements.
LEMMA ViewHidesNothing ==
  ASSUME NEW E, \A el \in E : Meaningful(el) => el.says,
         NEW els \in Seq(E), NEW show \in Int, NEW isSummary, NEW w, NEW h,
         NEW r, r = ElementsForLLMWithViewport(els, show, isSummary, w, h)
  PROVE  /\ show >= 0 => Len(r.listed) <= show
         /\ Cardinality(Unlisted(els, r.listed, Len(els))) <= r.more + r.off
         /\ \A el \in ToSet(r.listed) : el.visible
         /\ (\A i \in DOMAIN els : els[i].visible) /\ w = 0 => r.off = 0
<1>1. PICK n \in Nat : n = Len(els)
  OBVIOUS
<1>2. PICK split \in SplitStates(E, w, h) : split = Split(els, w, h)
  BY SplitEnds
<1>3. PICK F : F = OnScreen(E, w, h)
  OBVIOUS
<1>4. split.on \in Seq(F) /\ split.off \in Nat /\ Len(split.on) \in Nat
  BY <1>3 DEF SplitStates
<1>5. PICK m \in Nat : m = Len(split.on)
  BY <1>4
<1>6. PICK limit \in Nat : limit = MaxShow(show, m)
  BY MaxShowType
<1>7. limit <= m /\ (show >= 0 => limit <= show)
  BY <1>6, MaxShowType
<1>8. \A el \in F : el \in E /\ ~OffScreen(el, w, h)
  BY <1>3 DEF OnScreen
<1>9. PICK end \in ViewStates(F) :
         end = ViewLoop(split.on, limit, isSummary) /\ ViewInv(end, split.on, limit, m)
  BY <1>4, <1>5, <1>8, ViewEnds
<1>10. /\ r.listed = end.listed /\ r.off = split.off
       /\ r.more = IF end.stopped THEN m - limit ELSE 0
  BY <1>2, <1>5, <1>6, <1>9 DEF ElementsForLLMWithViewport
<1>11. end.listed \in Seq(F) /\ end.stopped \in BOOLEAN /\ Len(end.listed) \in Nat
  BY DEF ViewStates
<1>12. Cardinality(Unlisted(split.on, end.listed, m)) <= r.more
  <2>1. Cardinality(Unlisted(split.on, end.listed, m)) \in Nat
    BY UnlistedFinite
  <2>2. CASE end.stopped
    BY <1>7, <1>9, <1>10, <1>11, <2>1, <2>2 DEF ViewInv
  <2>3. CASE ~end.stopped
    <3>1. Unlisted(split.on, end.listed, m) = {} /\ r.more = 0
      BY <1>9, <1>10, <2>3 DEF ViewInv
    <3> QED
      BY <3>1, FS_EmptySet
  <2> QED
    BY <2>2, <2>3
<1>13. PICK X : X = {el \in E : Meaningful(el) /\ el \notin ToSet(end.listed)}
  OBVIOUS
<1>14. PICK Z : Z = Collapsed(E, w, h)
  OBVIOUS
<1>15. /\ Cardinality(Hits(els, X \intersect F, n)) = Cardinality(Hits(split.on, X, m))
       /\ Cardinality(Hits(els, Z, n)) = split.off
  <2>1. SplitInv(split, els, E, X, w, h, n)
    BY <1>1, <1>2, SplitEnds
  <2> QED
    BY <1>3, <1>5, <1>14, <2>1 DEF SplitInv
<1>16. Hits(split.on, X, m) = Unlisted(split.on, end.listed, m)
  <2>1. \A i \in 1 .. m : split.on[i] \in E
    BY <1>4, <1>5, <1>8
  <2> QED
    BY <1>13, <2>1 DEF Hits, Unlisted
<1>17. Unlisted(els, end.listed, n) \in SUBSET (Hits(els, X \intersect F, n) \union Hits(els, Z, n))
  <2>1. \A i \in 1 .. n : els[i] \in E
    BY <1>1
  <2>2. \A el \in E : el \in F \/ OffScreen(el, w, h)
    BY <1>3 DEF OnScreen
  <2> QED
    BY <1>13, <1>14, <2>1, <2>2 DEF Hits, Unlisted, Collapsed
<1>18. Cardinality(Unlisted(els, end.listed, n)) <= r.more + r.off
  <2>1. PICK A : A = Hits(els, X \intersect F, n)
    OBVIOUS
  <2>2. PICK B : B = Hits(els, Z, n)
    OBVIOUS
  <2>3. IsFiniteSet(A) /\ IsFiniteSet(B) /\ Cardinality(A) \in Nat /\ Cardinality(B) \in Nat
    BY <2>1, <2>2, HitsStep
  <2>4. /\ IsFiniteSet(A \union B)
        /\ Cardinality(A \union B) = Cardinality(A) + Cardinality(B) - Cardinality(A \intersect B)
    BY <2>3, FS_Union
  <2>5. Cardinality(A \intersect B) \in Nat
    <3>1. IsFiniteSet(A \intersect B)
      BY <2>3, FS_Subset
    <3> QED
      BY <3>1, FS_CardinalityType
  <2>6. Cardinality(Unlisted(els, end.listed, n)) <= Cardinality(A \union B)
    BY <1>17, <2>1, <2>2, <2>4, FS_Subset
  <2>7. Cardinality(Unlisted(els, end.listed, n)) \in Nat
    BY UnlistedFinite
  <2>8. Cardinality(A) <= r.more /\ Cardinality(B) = r.off
    BY <1>10, <1>12, <1>15, <1>16, <2>1, <2>2
  <2>9. r.more \in Int
    BY <1>10, <1>11
  <2> QED
    BY <2>3, <2>4, <2>5, <2>6, <2>7, <2>8, <2>9
<1>19. \A el \in ToSet(r.listed) : el.visible
  <2>1. \A el \in ToSet(end.listed) : el \in F
    BY <1>11 DEF ToSet
  <2> QED
    BY <1>8, <1>10, <2>1 DEF OffScreen
<1>20. ASSUME \A i \in DOMAIN els : els[i].visible, w = 0
       PROVE  r.off = 0
  <2>1. \A el \in Z : ~el.visible
    BY <1>14, <1>20 DEF Collapsed, OffScreen
  <2>2. Hits(els, Z, n) = {}
    BY <1>1, <1>20, <2>1 DEF Hits
  <2> QED
    BY <1>10, <1>15, <2>2, FS_EmptySet
<1>21. show >= 0 => Len(r.listed) <= show
  BY <1>7, <1>9, <1>10, <1>11 DEF ViewInv
<1> QED
  BY <1>1, <1>10, <1>18, <1>19, <1>20, <1>21

\* A list is asked of any number of elements of E.  An element with a label
\* or that can be clicked has a line that says something.
ListCall(c, E) ==
  c.els \in Seq(E) /\ c.show \in Int /\ \A el \in E : Meaningful(el) => el.says

(***************************************************************************)
(* In a list of any screen's elements, however many and however few were   *)
(* asked for, what is not listed and could be acted on is announced by the *)
(* counts (ElementsForLLM, ElementsForLLMWithViewport).                    *)
(***************************************************************************)
THEOREM EveryListAnnouncesTheRest ==
  ASSUME NEW E, \A c \in Calls : c.of \in {"list", "viewport"} => ListCall(c, E)
  PROVE  AlgSpec => []NothingMeaningfulHidden
<1>1. ASSUME AlgInv
      PROVE  NothingMeaningfulHidden
  <2> SUFFICES ASSUME Answered("list") \/ Answered("viewport")
               PROVE  NothingMeaningfulHidden
    BY DEF NothingMeaningfulHidden
  <2> DEFINE c == call
  <2>1. ListCall(c, E)
    BY <1>1 DEF AlgInv, Answered
  <2>2. c.els \in Seq(E) /\ c.show \in Int /\ \A el \in E : Meaningful(el) => el.says
    BY <2>1 DEF ListCall
  <2>3. Unlisted(c.els, answer.listed, Len(c.els))
          = {i \in DOMAIN c.els : (c.els[i].label \/ c.els[i].clickable)
                                    /\ c.els[i] \notin ToSet(answer.listed)}
    BY <2>2 DEF Unlisted, Meaningful
  <2>4. CASE c.of = "list"
    <3>1. answer = ElementsForLLM(c.els, c.show, c.summary)
      BY <1>1, <2>4 DEF AlgInv, Answered, Result
    <3> HIDE DEF c
    <3>2. /\ c.show >= 0 => Len(answer.listed) <= c.show
          /\ Cardinality(Unlisted(c.els, answer.listed, Len(c.els))) <= answer.more
          /\ answer.more > 0 => Len(answer.listed) = c.show
      BY <2>2, <3>1, ListHidesNothing
    <3> QED
      BY <2>3, <2>4, <3>2 DEF NothingMeaningfulHidden, c
  <2>5. CASE c.of = "viewport"
    <3>1. answer = ElementsForLLMWithViewport(c.els, c.show, c.summary, c.width, c.height)
      BY <1>1, <2>5 DEF AlgInv, Answered, Result
    <3> HIDE DEF c
    <3>2. /\ c.show >= 0 => Len(answer.listed) <= c.show
          /\ Cardinality(Unlisted(c.els, answer.listed, Len(c.els))) <= answer.more + answer.off
          /\ \A el \in ToSet(answer.listed) : el.visible
          /\ (\A i \in DOMAIN c.els : c.els[i].visible) /\ c.width = 0 => answer.off = 0
      BY <2>2, <3>1, ViewHidesNothing
    <3> QED
      BY <2>3, <2>5, <3>2 DEF NothingMeaningfulHidden, c
  <2> QED
    BY <2>4, <2>5 DEF Answered
<1> QED
  BY <1>1, AlgInvHolds, PTL
-----------------------------------------------------------------------------
(* Texts.                                                                   *)

Text == Seq(Chars)
White == Controls \union {" "}
WordStates == [words : Seq(Text), open : BOOLEAN]
NoWords == [words |-> <<>>, open |-> FALSE]

LEMMA NoWordsType == NoWords \in WordStates
<1>1. <<>> \in Seq(Text)
  OBVIOUS
<1> QED
  BY <1>1 DEF NoWords, WordStates

LEMMA NextCharType ==
  ASSUME NEW ws \in WordStates, NEW c \in Chars
  PROVE  NextChar(ws, c) \in WordStates
<1> DEFINE S == Seq(Text)
<1>1. ws \in [words : S, open : BOOLEAN] /\ WordStates = [words : S, open : BOOLEAN]
  BY DEF WordStates
<1>2. PICK w : w = ws.words
  OBVIOUS
<1>3. w \in Seq(Text)
  BY <1>1, <1>2
<1>4. <<c>> \in Text /\ \A x \in Text : Append(x, c) \in Text
  BY DEF Text
<1>5. Append(w, <<c>>) \in S
  <2> HIDE DEF WordStates
  <2> QED
    BY <1>3, <1>4
<1>6. PICK v : v = [w EXCEPT ![Len(w)] = Append(@, c)]
  OBVIOUS
<1>7. v \in S
  <2>1. Len(w) \in Nat /\ DOMAIN w = 1 .. Len(w) /\ w \in [1 .. Len(w) -> Text]
    BY <1>3
  <2>2. \A i \in 1 .. Len(w) : Append(w[i], c) \in Text
    BY <1>4, <2>1
  <2>3. v \in [1 .. Len(w) -> Text]
    BY <1>6, <2>1, <2>2
  <2> QED
    BY <2>1, <2>3
<1> HIDE DEF S
<1>8. CASE c \in White
  <2>1. NextChar(ws, c) = [ws EXCEPT !.open = FALSE]
    BY <1>8 DEF NextChar, White
  <2> QED
    BY <1>1, <2>1
<1>9. CASE c \notin White /\ ws.open
  <2>1. NextChar(ws, c) = [ws EXCEPT !.words = v]
    BY <1>1, <1>2, <1>6, <1>9 DEF NextChar, White
  <2> QED
    BY <1>1, <1>7, <2>1
<1>10. CASE c \notin White /\ ~ws.open
  <2>1. NextChar(ws, c) = [words |-> Append(w, <<c>>), open |-> TRUE]
    BY <1>2, <1>10 DEF NextChar, White
  <2> QED
    BY <1>1, <1>5, <2>1
<1> QED
  BY <1>8, <1>9, <1>10

LEMMA NextCharWhite ==
  ASSUME NEW ws \in WordStates, NEW c \in White
  PROVE  /\ NextChar(ws, c).words = ws.words
         /\ NextChar(ws, c).open = FALSE
         /\ ~ws.open => NextChar(ws, c) = ws
<1> DEFINE S == Seq(Text)
<1>1. ws \in [words : S, open : BOOLEAN]
  BY DEF WordStates
<1> HIDE DEF S
<1>2. NextChar(ws, c) = [ws EXCEPT !.open = FALSE]
  BY DEF NextChar, White
<1> QED
  BY <1>1, <1>2

LEMMA NextCharInWord ==
  ASSUME NEW ws \in WordStates, NEW c, c \notin White
  PROVE  NextChar(ws, c).open = TRUE
<1> DEFINE S == Seq(Text)
<1>1. ws \in [words : S, open : BOOLEAN]
  BY DEF WordStates
<1> HIDE DEF S
<1>2. ~ws.open => NextChar(ws, c).open = TRUE
  BY DEF NextChar, White
<1>3. PICK v : v = [ws.words EXCEPT ![Len(ws.words)] = Append(@, c)]
  OBVIOUS
<1>4. ws.open => NextChar(ws, c) = [ws EXCEPT !.words = v]
  BY <1>1, <1>3 DEF NextChar, White
<1>5. ws.open => NextChar(ws, c).open = TRUE
  BY <1>1, <1>4
<1> QED
  BY <1>2, <1>5


WordsRun(run, s) ==
  /\ run[0] = NoWords
  /\ \A k \in 1 .. Len(s) : run[k] = NextChar(run[k - 1], s[k])
  /\ run[Len(s)] = WordsOf(s)

LEMMA WordsRuns ==
  ASSUME NEW s \in Seq(Chars)
  PROVE  \E run \in [0 .. Len(s) -> WordStates] : WordsRun(run, s)
<1> DEFINE F == [p \in WordStates \X Chars |-> NextChar(p[1], p[2])]
           Def(it) == it = [T \in SUBSET DOMAIN s |->
                              IF T = {} THEN NoWords
                              ELSE NextChar(it[T \ {Max(T)}], s[Max(T)])]
           fold == CHOOSE it : Def(it)
           m == Len(s)
<1>1. DOMAIN s = 1 .. m /\ m \in Nat /\ s \in [1 .. m -> Chars]
  OBVIOUS
<1>2. WordsOf(s) = fold[DOMAIN s]
  BY DEF WordsOf, NoWords, FoldLeft, MapThenFoldSet
<1>3. NoWords \in WordStates
  BY NoWordsType
<1>4. Def(fold)
  <2>1. F \in [WordStates \X Chars -> WordStates]
    BY NextCharType
  <2>2. \E it \in [SUBSET (1 .. m) -> WordStates] : Iterates(it, F, NoWords, s, m)
    <3> HIDE DEF F, Def, m
    <3> QED
      BY <1>1, <1>3, <2>1, FoldExists
  <2>3. PICK it \in [SUBSET (1 .. m) -> WordStates] : Iterates(it, F, NoWords, s, m)
    BY <2>2
  <2>4. ASSUME NEW T \in SUBSET (1 .. m), T # {}
        PROVE  it[T] = NextChar(it[T \ {Max(T)}], s[Max(T)])
    BY <1>1, <2>3, <2>4, MaxOfSubset DEF Iterates
  <2>5. Def(it)
    BY <1>1, <2>3, <2>4 DEF Iterates
  <2> HIDE DEF Def
  <2> QED
    BY <2>5
<1> HIDE DEF fold
<1> DEFINE run == [k \in 0 .. m |-> fold[1 .. k]]
<1>5. run[0] = NoWords
  BY <1>1, <1>4, 1 .. 0 = {}
<1>6. ASSUME NEW k \in 1 .. m
      PROVE  run[k] = NextChar(run[k - 1], s[k])
  <2>1. /\ Max(1 .. k) = k /\ (1 .. k) \ {k} = 1 .. k - 1
        /\ 1 .. k # {} /\ 1 .. k \in SUBSET (1 .. m)
    BY <1>1, Prefix
  <2>2. fold[1 .. k] = NextChar(fold[(1 .. k) \ {Max(1 .. k)}], s[Max(1 .. k)])
    BY <1>1, <1>4, <2>1
  <2>3. k \in 0 .. m /\ k - 1 \in 0 .. m
    BY <1>1
  <2> QED
    BY <2>1, <2>2, <2>3
<1>7. run[m] = WordsOf(s)
  BY <1>1, <1>2
<1>8. ASSUME NEW k \in Nat, k + 1 <= m, run[k] \in WordStates
      PROVE  run[k + 1] \in WordStates
  <2>1. k + 1 \in 1 .. m /\ (k + 1) - 1 = k /\ s[k + 1] \in Chars
    BY <1>1, <1>8
  <2>2. run[k + 1] = NextChar(run[k], s[k + 1])
    BY <1>6, <2>1
  <2> HIDE DEF run
  <2> QED
    BY <1>8, <2>1, <2>2, NextCharType
<1> HIDE DEF run
<1>9. run \in [0 .. m -> WordStates]
  <2> DEFINE D == {k \in Nat : run[k] \in WordStates}
  <2>1. 0 \in D
    BY <1>3, <1>5
  <2>2. \A k \in Nat : k + 1 <= m /\ k \in D => k + 1 \in D
    BY <1>8
  <2>3. 0 .. m \subseteq D
    <3> HIDE DEF D, m
    <3> QED
      BY <1>1, <2>1, <2>2, IntervalInduction
  <2> QED
    BY <2>3 DEF run
<1> QED
  BY <1>5, <1>6, <1>7, <1>9 DEF WordsRun

\* Two runs over texts that agree are the same.
LEMMA WordsRunUnique ==
  ASSUME NEW f, NEW g, NEW s, NEW t, NEW n \in Nat, f[0] = g[0], Agree(s, t, n),
         \A i \in 1 .. n : f[i] = NextChar(f[i - 1], s[i]),
         \A i \in 1 .. n : g[i] = NextChar(g[i - 1], t[i])
  PROVE  f[n] = g[n]
<1> DEFINE D == {i \in Nat : f[i] = g[i]}
<1>1. 0 \in D
  OBVIOUS
<1>2. ASSUME NEW i \in Nat, i + 1 <= n, i \in D
      PROVE  i + 1 \in D
  <2>1. i + 1 \in 1 .. n /\ (i + 1) - 1 = i
    BY <1>2
  <2>2. s[i + 1] = t[i + 1] /\ f[i] = g[i]
    BY <1>2, <2>1 DEF Agree
  <2> QED
    BY <2>1, <2>2
<1>3. 0 .. n \subseteq D
  <2> HIDE DEF D
  <2> QED
    BY <1>1, <1>2, IntervalInduction
<1> QED
  BY <1>3

LEMMA WordsOfAppend ==
  ASSUME NEW s \in Text, NEW c \in Chars
  PROVE  /\ WordsOf(<<>>) = NoWords
         /\ WordsOf(s) \in WordStates
         /\ WordsOf(Append(s, c)) = NextChar(WordsOf(s), c)
<1>1. WordsOf(<<>>) = NoWords
  <2>1. <<>> \in Seq(Chars) /\ Len(<<>>) = 0
    OBVIOUS
  <2>2. PICK run \in [0 .. 0 -> WordStates] : WordsRun(run, <<>>)
    BY <2>1, WordsRuns
  <2> QED
    BY <2>1, <2>2 DEF WordsRun
<1>2. PICK n \in Nat : n = Len(s)
  BY DEF Text
<1>3. PICK t : t = Append(s, c)
  OBVIOUS
<1>4. /\ s \in Seq(Chars) /\ t \in Seq(Chars) /\ Len(t) = n + 1 /\ t[n + 1] = c
      /\ \A i \in 1 .. n : s[i] = t[i]
  BY <1>2, <1>3, AppendProperties DEF Text
<1>5. PICK f \in [0 .. n -> WordStates] : WordsRun(f, s)
  BY <1>2, <1>4, WordsRuns
<1>6. PICK g \in [0 .. n + 1 -> WordStates] : WordsRun(g, t)
  BY <1>4, WordsRuns
<1>7. /\ f[0] = g[0]
      /\ \A i \in 1 .. n : f[i] = NextChar(f[i - 1], s[i])
      /\ f[n] = WordsOf(s)
  BY <1>2, <1>5, <1>6 DEF WordsRun
<1>8. /\ \A i \in 1 .. n + 1 : g[i] = NextChar(g[i - 1], t[i])
      /\ g[n + 1] = WordsOf(t)
  BY <1>4, <1>6 DEF WordsRun
<1>9. \A i \in 1 .. n : i \in 1 .. n + 1
  OBVIOUS
<1>10. f[n] = g[n]
  <2>1. Agree(s, t, n)
    BY <1>4 DEF Agree
  <2> QED
    BY <1>7, <1>8, <1>9, <2>1, WordsRunUnique
<1>11. n + 1 \in 1 .. n + 1 /\ (n + 1) - 1 = n /\ n \in 0 .. n
  OBVIOUS
<1>12. g[n + 1] = NextChar(g[n], c)
  BY <1>4, <1>8, <1>11
<1>13. f[n] \in WordStates
  BY <1>5, <1>11
<1> QED
  BY <1>1, <1>3, <1>7, <1>8, <1>10, <1>12, <1>13

Plain == Chars \ Controls

\* b is what has been written of a text whose words so far are ws.
CollapseInv(b, ws) ==
  /\ b \in Seq(Plain) /\ WordsOf(b) = ws
  /\ ~ws.open <=> b = <<>> \/ Last(b) = " "

LEMMA LastOfAppend ==
  ASSUME NEW E, NEW b \in Seq(E), NEW c \in E
  PROVE  /\ Append(b, c) \in Seq(E) /\ Append(b, c) # <<>> /\ Last(Append(b, c)) = c
<1>1. PICK t : t = Append(b, c)
  OBVIOUS
<1>2. t \in Seq(E) /\ Len(t) = Len(b) + 1 /\ t[Len(b) + 1] = c /\ Len(b) \in Nat
  BY <1>1, AppendProperties
<1>3. t # <<>>
  BY <1>2
<1> QED
  BY <1>1, <1>2, <1>3 DEF Last

LEMMA PlainIsText ==
  ASSUME NEW b \in Seq(Plain)
  PROVE  b \in Seq(Chars) /\ b \in Text
<1>1. \A c \in Plain : c \in Chars
  BY DEF Plain
<1>2. b \in [1 .. Len(b) -> Chars] /\ Len(b) \in Nat
  BY <1>1
<1>3. b \in Seq(Chars)
  BY <1>2
<1> QED
  BY <1>3 DEF Text

LEMMA CollapseStep ==
  ASSUME NEW b, NEW ws \in WordStates, CollapseInv(b, ws), NEW c \in Chars
  PROVE  CollapseInv(Collapsing(b, c), NextChar(ws, c))
<1>1. b \in Seq(Plain) /\ b \in Text /\ WordsOf(b) = ws
  BY PlainIsText DEF CollapseInv
<1>2. " " \in Plain /\ " " \in Chars /\ " " \in White
  BY DEF Plain, Chars, Controls, White
<1>3. CASE c \notin White
  <2>1. c \in Plain /\ c # " "
    BY <1>3 DEF Plain, White
  <2>2. Collapsing(b, c) = Append(b, c)
    BY <1>3 DEF Collapsing, White
  <2>3. WordsOf(Append(b, c)) = NextChar(ws, c)
    BY <1>1, WordsOfAppend
  <2>4. NextChar(ws, c).open = TRUE
    BY <1>3, NextCharInWord
  <2>5. Append(b, c) \in Seq(Plain) /\ Append(b, c) # <<>> /\ Last(Append(b, c)) = c
    BY <1>1, <2>1, LastOfAppend, ZenonT(60)
  <2> QED
    BY <2>1, <2>2, <2>3, <2>4, <2>5 DEF CollapseInv
<1>4. CASE c \in White /\ (b = <<>> \/ Last(b) = " ")
  <2>1. Collapsing(b, c) = b
    BY <1>4 DEF Collapsing, White
  <2>2. ~ws.open
    BY <1>4 DEF CollapseInv
  <2>3. NextChar(ws, c) = ws
    BY <1>4, <2>2, NextCharWhite
  <2> QED
    BY <2>1, <2>3
<1>5. CASE c \in White /\ ~(b = <<>> \/ Last(b) = " ")
  <2>1. PICK e : e = " "
    OBVIOUS
  <2>2. Collapsing(b, c) = Append(b, e)
    BY <1>5, <2>1 DEF Collapsing, White
  <2>3. NextChar(ws, c) = NextChar(ws, e)
    BY <1>2, <1>5, <2>1 DEF NextChar, White
  <2>4. WordsOf(Append(b, e)) = NextChar(ws, e)
    BY <1>1, <1>2, <2>1, WordsOfAppend
  <2>5. NextChar(ws, e).open = FALSE
    BY <1>2, <2>1, NextCharWhite
  <2>6. Append(b, e) \in Seq(Plain) /\ Append(b, e) # <<>> /\ Last(Append(b, e)) = e
    <3>1. e \in Plain
      BY <1>2, <2>1
    <3> QED
      BY <1>1, <3>1, LastOfAppend
  <2> QED
    BY <2>1, <2>2, <2>3, <2>4, <2>5, <2>6 DEF CollapseInv
<1> QED
  BY <1>3, <1>4, <1>5


LEMMA EmptyText == <<>> \in Text
BY DEF Text

LEMMA CollapsingType ==
  ASSUME NEW b \in Text, NEW c \in Chars
  PROVE  Collapsing(b, c) \in Text
<1>1. \A x \in Chars : Append(b, x) \in Text
  BY DEF Text
<1>2. " " \in Chars
  BY DEF Chars
<1>3. Collapsing(b, c) \in {b, Append(b, c), Append(b, " ")}
  BY DEF Collapsing
<1> QED
  BY <1>1, <1>2, <1>3

CollapseRun(run, s) ==
  /\ run[0] = <<>>
  /\ \A k \in 1 .. Len(s) : run[k] = Collapsing(run[k - 1], s[k])
  /\ run[Len(s)] = FoldLeft(Collapsing, <<>>, s)

LEMMA CollapseRuns ==
  ASSUME NEW s \in Seq(Chars)
  PROVE  \E run \in [0 .. Len(s) -> Text] : CollapseRun(run, s)
<1> DEFINE F == [p \in Text \X Chars |-> Collapsing(p[1], p[2])]
           Def(it) == it = [T \in SUBSET DOMAIN s |->
                              IF T = {} THEN <<>>
                              ELSE Collapsing(it[T \ {Max(T)}], s[Max(T)])]
           fold == CHOOSE it : Def(it)
           m == Len(s)
<1>1. DOMAIN s = 1 .. m /\ m \in Nat /\ s \in [1 .. m -> Chars]
  OBVIOUS
<1>2. FoldLeft(Collapsing, <<>>, s) = fold[DOMAIN s]
  BY DEF FoldLeft, MapThenFoldSet
<1>3. <<>> \in Text
  BY EmptyText
<1>4. Def(fold)
  <2>1. F \in [Text \X Chars -> Text]
    BY CollapsingType
  <2>2. \E it \in [SUBSET (1 .. m) -> Text] : Iterates(it, F, <<>>, s, m)
    <3> HIDE DEF F, Def, m
    <3> QED
      BY <1>1, <1>3, <2>1, FoldExists
  <2>3. PICK it \in [SUBSET (1 .. m) -> Text] : Iterates(it, F, <<>>, s, m)
    BY <2>2
  <2>4. ASSUME NEW T \in SUBSET (1 .. m), T # {}
        PROVE  it[T] = Collapsing(it[T \ {Max(T)}], s[Max(T)])
    BY <1>1, <2>3, <2>4, MaxOfSubset DEF Iterates
  <2>5. Def(it)
    BY <1>1, <2>3, <2>4 DEF Iterates
  <2> HIDE DEF Def
  <2> QED
    BY <2>5
<1> HIDE DEF fold
<1> DEFINE run == [k \in 0 .. m |-> fold[1 .. k]]
<1>5. run[0] = <<>>
  BY <1>1, <1>4, 1 .. 0 = {}
<1>6. ASSUME NEW k \in 1 .. m
      PROVE  run[k] = Collapsing(run[k - 1], s[k])
  <2>1. /\ Max(1 .. k) = k /\ (1 .. k) \ {k} = 1 .. k - 1
        /\ 1 .. k # {} /\ 1 .. k \in SUBSET (1 .. m)
    BY <1>1, Prefix
  <2>2. fold[1 .. k] = Collapsing(fold[(1 .. k) \ {Max(1 .. k)}], s[Max(1 .. k)])
    BY <1>1, <1>4, <2>1
  <2>3. k \in 0 .. m /\ k - 1 \in 0 .. m
    BY <1>1
  <2> QED
    BY <2>1, <2>2, <2>3
<1>7. run[m] = FoldLeft(Collapsing, <<>>, s)
  BY <1>1, <1>2
<1>8. ASSUME NEW k \in Nat, k + 1 <= m, run[k] \in Text
      PROVE  run[k + 1] \in Text
  <2>1. k + 1 \in 1 .. m /\ (k + 1) - 1 = k /\ s[k + 1] \in Chars
    BY <1>1, <1>8
  <2>2. run[k + 1] = Collapsing(run[k], s[k + 1])
    BY <1>6, <2>1
  <2> HIDE DEF run
  <2> QED
    BY <1>8, <2>1, <2>2, CollapsingType
<1> HIDE DEF run
<1>9. run \in [0 .. m -> Text]
  <2> DEFINE D == {k \in Nat : run[k] \in Text}
  <2>1. 0 \in D
    BY <1>3, <1>5
  <2>2. \A k \in Nat : k + 1 <= m /\ k \in D => k + 1 \in D
    BY <1>8
  <2>3. 0 .. m \subseteq D
    <3> HIDE DEF D, m
    <3> QED
      BY <1>1, <2>1, <2>2, IntervalInduction
  <2> QED
    BY <2>3 DEF run
<1> QED
  BY <1>5, <1>6, <1>7, <1>9 DEF CollapseRun

LEMMA FrontThenLast ==
  ASSUME NEW E, NEW b \in Seq(E), b # <<>>
  PROVE  Front(b) \in Seq(E) /\ b = Append(Front(b), Last(b))
<1>1. PICK n \in Nat : Len(b) = n + 1
  BY Len(b) - 1 \in Nat
<1>2. PICK t : t = Front(b)
  OBVIOUS
<1>3. PICK e \in E : e = Last(b) /\ e = b[n + 1]
  BY <1>1 DEF Last
<1>4. t \in Seq(E) /\ Len(t) = n /\ \A i \in 1 .. n : t[i] = b[i]
  BY <1>1, <1>2 DEF Front
<1>5. PICK c : c = Append(t, e)
  OBVIOUS
<1>6. c \in Seq(E) /\ Len(c) = n + 1 /\ c[n + 1] = e /\ \A i \in 1 .. n : c[i] = t[i]
  BY <1>4, <1>5, AppendProperties
<1>7. \A i \in 1 .. n + 1 : b[i] = c[i]
  BY <1>3, <1>4, <1>6
<1>8. b = c
  BY <1>1, <1>6, <1>7, SeqEqual
<1> QED
  BY <1>2, <1>3, <1>4, <1>5, <1>8

LEMMA CollapseKeepsWords ==
  ASSUME NEW s \in Text
  PROVE  CollapseWS(s) \in Seq(Plain) /\ Words(CollapseWS(s)) = Words(s)
<1>1. s \in Seq(Chars) /\ Len(s) \in Nat /\ Len(s) \in 0 .. Len(s)
  BY DEF Text
<1>2. PICK f \in [0 .. Len(s) -> WordStates] : WordsRun(f, s)
  BY <1>1, WordsRuns
<1>3. PICK g \in [0 .. Len(s) -> Text] : CollapseRun(g, s)
  BY <1>1, CollapseRuns
<1> DEFINE D == {k \in Nat : CollapseInv(g[k], f[k])}
<1>4. 0 \in D
  <2>1. CollapseInv(<<>>, NoWords)
    <3>1. <<>> \in Seq(Plain) /\ WordsOf(<<>>) = NoWords /\ NoWords.open = FALSE
      <4>1. "a" \in Chars
        BY DEF Chars
      <4>2. WordsOf(<<>>) = NoWords
        BY <4>1, EmptyText, WordsOfAppend
      <4> QED
        BY <4>2 DEF NoWords
    <3> QED
      BY <3>1 DEF CollapseInv
  <2> QED
    BY <1>2, <1>3, <2>1 DEF WordsRun, CollapseRun
<1>5. ASSUME NEW k \in Nat, k + 1 <= Len(s), k \in D
      PROVE  k + 1 \in D
  <2>1. k \in 0 .. Len(s) /\ k + 1 \in 1 .. Len(s) /\ (k + 1) - 1 = k /\ s[k + 1] \in Chars
    BY <1>1, <1>5
  <2>2. f[k] \in WordStates /\ CollapseInv(g[k], f[k])
    BY <1>2, <1>5, <2>1
  <2>3. f[k + 1] = NextChar(f[k], s[k + 1]) /\ g[k + 1] = Collapsing(g[k], s[k + 1])
    BY <1>2, <1>3, <2>1 DEF WordsRun, CollapseRun
  <2>4. CollapseInv(Collapsing(g[k], s[k + 1]), NextChar(f[k], s[k + 1]))
    BY <2>1, <2>2, CollapseStep
  <2> QED
    BY <2>3, <2>4
<1>6. 0 .. Len(s) \subseteq D
  <2> HIDE DEF D
  <2> QED
    BY <1>1, <1>4, <1>5, IntervalInduction
<1>7. PICK b : b = FoldLeft(Collapsing, <<>>, s)
  OBVIOUS
<1>8. b \in Seq(Plain) /\ WordsOf(b) = WordsOf(s)
  <2>1. CollapseInv(g[Len(s)], f[Len(s)])
    BY <1>1, <1>6
  <2>2. g[Len(s)] = b /\ f[Len(s)] = WordsOf(s)
    BY <1>2, <1>3, <1>7 DEF WordsRun, CollapseRun
  <2> QED
    BY <2>1, <2>2 DEF CollapseInv
<1>9. CollapseWS(s) = IF \A i \in DOMAIN s : s[i] \notin Controls THEN s
                      ELSE IF b # <<>> /\ Last(b) = " " THEN Front(b) ELSE b
  BY <1>7 DEF CollapseWS
<1>10. CASE \A i \in DOMAIN s : s[i] \notin Controls
  <2>1. s \in [1 .. Len(s) -> Plain]
    BY <1>1, <1>10 DEF Plain
  <2>2. s \in Seq(Plain)
    BY <1>1, <2>1
  <2> QED
    BY <1>9, <1>10, <2>2
<1>11. CASE ~(\A i \in DOMAIN s : s[i] \notin Controls) /\ ~(b # <<>> /\ Last(b) = " ")
  <2>1. CollapseWS(s) = b
    BY <1>9, <1>11
  <2> QED
    BY <1>8, <2>1 DEF Words
<1>12. CASE ~(\A i \in DOMAIN s : s[i] \notin Controls) /\ b # <<>> /\ Last(b) = " "
  <2>1. PICK t : t = Front(b)
    OBVIOUS
  <2>2. PICK e : e = Last(b)
    OBVIOUS
  <2>3. t \in Seq(Plain) /\ b = Append(t, e)
    BY <1>8, <1>12, <2>1, <2>2, FrontThenLast
  <2>4. e \in White /\ e \in Chars
    BY <1>12, <2>2 DEF White, Chars
  <2>5. WordsOf(b) = NextChar(WordsOf(t), e) /\ WordsOf(t) \in WordStates
    BY <2>3, <2>4, PlainIsText, WordsOfAppend
  <2>6. WordsOf(b).words = WordsOf(t).words
    BY <2>4, <2>5, NextCharWhite
  <2> QED
    BY <1>8, <1>9, <1>12, <2>1, <2>3, <2>6 DEF Words
<1> QED
  BY <1>10, <1>11, <1>12


Avoids(mid, n, q) == \A i \in 1 .. n : mid[i] # q

Quotes(w, mid, n, q) ==
  Body(w) = mid /\ \A c \in ToSet(w) : c = q \/ \E i \in 1 .. n : c = mid[i]

\* A value in quotes ends where the quote comes again.
LEMMA QuotedBody ==
  ASSUME NEW E, NEW q, NEW n \in Nat, NEW mid \in [1 .. n -> E],
         Avoids(mid, n, q), NEW w, w = <<q>> \o mid \o <<q>>
  PROVE  Quotes(w, mid, n, q)
<1> DEFINE F == E \union {q}
<1>1. mid \in Seq(F) /\ <<q>> \in Seq(F) /\ Len(mid) = n /\ DOMAIN mid = 1 .. n
  <2>1. mid \in [1 .. n -> F]
    OBVIOUS
  <2> QED
    BY <2>1
<1> HIDE DEF F
<1>2. /\ w \in Seq(F) /\ Len(w) = n + 2 /\ DOMAIN w = 1 .. n + 2
      /\ w[1] = q /\ w[n + 2] = q
      /\ \A i \in 1 .. n : w[i + 1] = mid[i]
  <2>1. PICK v : v = <<q>> \o mid
    OBVIOUS
  <2>2. /\ v \in Seq(F) /\ Len(v) = n + 1 /\ v[1] = q
        /\ \A i \in 1 .. n : v[i + 1] = mid[i]
    <3>1. Len(<<q>>) = 1 /\ <<q>>[1] = q
      OBVIOUS
    <3>2. \A i \in 1 .. n : i + 1 \in 1 .. 1 + n /\ i + 1 > 1 /\ (i + 1) - 1 = i
      OBVIOUS
    <3> QED
      BY <1>1, <2>1, <3>1, <3>2, ConcatProperties
  <2>3. w = v \o <<q>>
    BY <2>1
  <2>4. Len(<<q>>) = 1 /\ <<q>>[1] = q
    OBVIOUS
  <2>5. /\ w \in Seq(F) /\ Len(w) = n + 2
        /\ \A i \in 1 .. n + 1 : w[i] = v[i]
        /\ w[n + 2] = q
    <3>1. PICK x \in Seq(F) : x = <<q>>
      BY <1>1
    <3>2. w = v \o x /\ Len(x) = 1 /\ x[1] = q /\ v \in Seq(F) /\ Len(v) = n + 1
      BY <2>2, <2>3, <2>4, <3>1
    <3>3. /\ v \o x \in Seq(F) /\ Len(v \o x) = Len(v) + Len(x)
          /\ \A i \in 1 .. Len(v) + Len(x) :
               (v \o x)[i] = IF i <= Len(v) THEN v[i] ELSE x[i - Len(v)]
      BY Zenon, <3>1, <3>2, ConcatProperties
    <3>4. \A i \in 1 .. n + 2 : w[i] = IF i <= n + 1 THEN v[i] ELSE x[i - (n + 1)]
      BY <3>2, <3>3
    <3>5. n + 2 \in 1 .. n + 2 /\ ~(n + 2 <= n + 1) /\ (n + 2) - (n + 1) = 1
      OBVIOUS
    <3>6. \A i \in 1 .. n + 1 : i \in 1 .. n + 2 /\ i <= n + 1
      OBVIOUS
    <3>7. w[n + 2] = q
      BY <3>2, <3>4, <3>5
    <3>8. w \in Seq(F) /\ Len(w) = n + 2
      <4>1. Len(v) + Len(x) = n + 2
        BY <3>2
      <4> QED
        BY Zenon, <3>2, <3>3, <4>1
    <3>9. \A i \in 1 .. n + 1 : w[i] = v[i]
      BY <3>4, <3>6
    <3> QED
      BY <3>7, <3>8, <3>9
  <2>6. \A i \in 1 .. n : i + 1 \in 1 .. n + 1
    OBVIOUS
  <2>7. 1 \in 1 .. n + 1
    OBVIOUS
  <2> QED
    BY <2>2, <2>5, <2>6, <2>7
<1>3. \A i \in 1 .. n + 2 : i = 1 \/ i = n + 2 \/ (i - 1 \in 1 .. n /\ i = (i - 1) + 1)
  OBVIOUS
<1>4. {i \in DOMAIN w : i > 1 /\ w[i] = w[1]} = {n + 2}
  <2>1. n + 2 \in 1 .. n + 2 /\ n + 2 > 1
    OBVIOUS
  <2>2. \A i \in 1 .. n + 2 : i > 1 /\ w[i] = q => i = n + 2
    BY <1>2, <1>3 DEF Avoids
  <2> QED
    BY <1>2, <2>1, <2>2
<1>5. Body(w) = SubSeq(w, 2, n + 1)
  <2>1. PICK ends : ends = {i \in DOMAIN w : i > 1 /\ w[i] = w[1]}
    OBVIOUS
  <2>2. ends = {n + 2}
    BY <1>4, <2>1
  <2>3. (CHOOSE i \in ends : \A j \in ends : i <= j) = n + 2
    BY <2>2
  <2>4. Body(w) = SubSeq(w, 2, (CHOOSE i \in ends : \A j \in ends : i <= j) - 1)
    BY <2>1, <2>2 DEF Body
  <2>5. (n + 2) - 1 = n + 1
    OBVIOUS
  <2> QED
    BY Zenon, <2>3, <2>4, <2>5
<1>6. SubSeq(w, 2, n + 1) = mid
  <2>1. PICK b : b = SubSeq(w, 2, n + 1)
    OBVIOUS
  <2>2. b \in Seq(F) /\ Len(b) = n /\ \A i \in 1 .. n : b[i] = w[i + 1]
    <3>1. \A i \in 1 .. n : 2 + i - 1 = i + 1
      OBVIOUS
    <3>2. \A i \in 2 .. n + 1 : i \in 1 .. n + 2
      OBVIOUS
    <3> QED
      BY <1>2, <2>1, <3>1, <3>2, SubSeqProperties
  <2>3. b = mid
    BY <1>1, <1>2, <2>2, SeqEqual
  <2> QED
    BY <2>1, <2>3
<1>7. \A c \in ToSet(w) : c = q \/ \E i \in 1 .. n : c = mid[i]
  BY <1>2, <1>3 DEF ToSet
<1> QED
  BY <1>5, <1>6, <1>7 DEF Quotes

LEMMA JsonSymbols ==
  ASSUME NEW c \in Chars
  PROVE  /\ JsonSymbol(c) # "\"" /\ JsonSymbol(c) # "LF"
         /\ Unescaped("jsonl", JsonSymbol(c)) = c
<1>1. JsonSymbol(c) # "\"" /\ JsonSymbol(c) # "LF"
  BY DEF JsonSymbol, Chars, Controls
<1>2. \A d \in Chars : JsonSymbol(d) = JsonSymbol(c) => d = c
  BY DEF JsonSymbol, Chars, Controls
<1>3. Unescaped("jsonl", JsonSymbol(c)) = CHOOSE d \in Chars : JsonSymbol(d) = JsonSymbol(c)
  BY DEF Unescaped
<1> QED
  BY <1>1, <1>2, <1>3

YmlSymbol(c) == IF c = "'" THEN "''" ELSE c
XmlSymbol(c) == IF c \in DOMAIN XmlEntity THEN XmlEntity[c] ELSE IF c = "NUL" THEN " " ELSE c

LEMMA YmlSymbols ==
  ASSUME NEW c \in Plain
  PROVE  /\ YmlSymbol(c) # "'" /\ YmlSymbol(c) # "LF"
         /\ Unescaped("yml", YmlSymbol(c)) = c
<1>1. YmlSymbol(c) # "'" /\ YmlSymbol(c) # "LF"
  BY DEF YmlSymbol, Plain, Chars, Controls
<1>2. CASE c = "'"
  BY <1>2 DEF YmlSymbol, Unescaped
<1>3. CASE c # "'"
  <2>1. YmlSymbol(c) = c /\ c # "''"
    BY <1>3 DEF YmlSymbol, Plain, Chars, Controls
  <2> QED
    BY <1>1, <2>1 DEF Unescaped
<1> QED
  BY <1>1, <1>2, <1>3

LEMMA XmlSymbols ==
  ASSUME NEW c \in Plain
  PROVE  /\ XmlSymbol(c) # "\"" /\ XmlSymbol(c) # "LF"
         /\ Unescaped("simplexml", XmlSymbol(c)) = c
<1>1. /\ DOMAIN XmlEntity = {"&", "<", "\"", "'"}
      /\ XmlEntity["&"] = "&amp;" /\ XmlEntity["<"] = "&lt;"
      /\ XmlEntity["\""] = "&quot;" /\ XmlEntity["'"] = "&apos;"
  BY DEF XmlEntity
<1>2. XmlSymbol(c) # "\"" /\ XmlSymbol(c) # "LF"
  BY <1>1 DEF XmlSymbol, Plain, Chars, Controls
<1>3. CASE c \in DOMAIN XmlEntity
  <2>1. XmlSymbol(c) = XmlEntity[c]
    BY <1>3 DEF XmlSymbol
  <2>2. \A d \in DOMAIN XmlEntity : XmlEntity[d] = XmlEntity[c] => d = c
    BY <1>1, <1>3
  <2>3. Unescaped("simplexml", XmlEntity[c])
          = CHOOSE d \in DOMAIN XmlEntity : XmlEntity[d] = XmlEntity[c]
    BY <1>3 DEF Unescaped
  <2> QED
    BY <1>2, <1>3, <2>1, <2>2, <2>3
<1>4. CASE c \notin DOMAIN XmlEntity
  <2>1. XmlSymbol(c) = c
    BY <1>4 DEF XmlSymbol, Plain, Controls
  <2>2. \A d \in DOMAIN XmlEntity : XmlEntity[d] # c
    BY <1>1 DEF Plain, Chars, Controls
  <2>3. Unescaped("simplexml", c) = c
    BY <2>2 DEF Unescaped
  <2> QED
    BY <1>2, <2>1, <2>3
<1> QED
  BY <1>3, <1>4

\* The symbols of mid stand for the characters of t.
Encodes(format, mid, t, q) ==
  /\ mid = [i \in DOMAIN t |-> mid[i]]
  /\ \A i \in DOMAIN t : /\ mid[i] # q /\ mid[i] # "LF"
                          /\ Unescaped(format, mid[i]) = t[i]

\* A value that is written symbol by symbol, between quotes that none of the
\* symbols is, is read back as it was.
LEMMA ReadsBack ==
  ASSUME NEW format, NEW E, NEW t \in Seq(E), NEW q, q # "LF", NEW mid, NEW w,
         Encodes(format, mid, t, q), w = <<q>> \o mid \o <<q>>
  PROVE  ReadBack(format, w) = t /\ "LF" \notin ToSet(w)
<1>1. PICK n \in Nat : n = Len(t) /\ DOMAIN t = 1 .. n
  OBVIOUS
<1>2. PICK M : M = {mid[i] : i \in 1 .. n}
  OBVIOUS
<1>3. /\ mid \in [1 .. n -> M] /\ Avoids(mid, n, q)
      /\ \A i \in 1 .. n : mid[i] # "LF" /\ Unescaped(format, mid[i]) = t[i]
  BY <1>1, <1>2 DEF Encodes, Avoids
<1>4. Body(w) = mid /\ \A c \in ToSet(w) : c = q \/ \E i \in 1 .. n : c = mid[i]
  <2>1. Quotes(w, mid, n, q)
    BY <1>1, <1>3, QuotedBody
  <2> QED
    BY <2>1 DEF Quotes
<1>5. ReadBack(format, w) = [i \in 1 .. n |-> Unescaped(format, mid[i])]
  BY <1>3, <1>4 DEF ReadBack
<1>6. t = [i \in 1 .. n |-> t[i]]
  BY <1>1
<1>7. [i \in 1 .. n |-> Unescaped(format, mid[i])] = [i \in 1 .. n |-> t[i]]
  BY <1>3
<1>8. "LF" \notin ToSet(w)
  BY <1>3, <1>4
<1> QED
  BY <1>5, <1>6, <1>7, <1>8

\* flatref has quotes around the value and no escape for those in it.
LEMMA FlatHasNoFeed ==
  ASSUME NEW t \in Seq(Plain), NEW q, q # "LF"
  PROVE  "LF" \notin ToSet(<<q>> \o t \o <<q>>)
<1>1. PICK F : F = Plain \union {q}
  OBVIOUS
<1>2. "LF" \notin F
  BY <1>1 DEF Plain, Controls
<1>3. <<q>> \in Seq(F) /\ t \in Seq(F)
  <2>1. t \in [1 .. Len(t) -> F] /\ Len(t) \in Nat
    BY <1>1
  <2> QED
    BY <1>1, <2>1
<1>4. <<q>> \o t \o <<q>> \in Seq(F)
  BY <1>3
<1>5. \A w \in Seq(F) : \A c \in ToSet(w) : c \in F
  BY DEF ToSet
<1> QED
  BY <1>2, <1>4, <1>5

LEMMA WrittenReadsBack ==
  ASSUME NEW s \in Text, NEW format \in FormatRegistry, NEW w, w = Written(format, s)
  PROVE  /\ "LF" \notin ToSet(w)
         /\ format = "jsonl" => ReadBack(format, w) = s
         /\ format \in {"yml", "simplexml"} => ReadBack(format, w) = CollapseWS(s)
<1>1. PICK t \in Seq(Plain) : t = CollapseWS(s)
  BY CollapseKeepsWords
<1>2. s \in Seq(Chars)
  BY DEF Text
<1>3. CASE format = "jsonl"
  <2>1. PICK mid : mid = [i \in DOMAIN s |-> JsonSymbol(s[i])]
    OBVIOUS
  <2>2. w = <<"\"">> \o mid \o <<"\"">>
    BY <1>3, <2>1 DEF Written, WriteJSONString
  <2>3. \A i \in DOMAIN s : s[i] \in Chars
    BY <1>2
  <2>4. PICK q : q = "\""
    OBVIOUS
  <2>5. Encodes(format, mid, s, q)
    BY <1>3, <2>1, <2>3, <2>4, JsonSymbols DEF Encodes
  <2>6. q # "LF" /\ w = <<q>> \o mid \o <<q>>
    BY <2>2, <2>4
  <2>7. ReadBack(format, w) = s /\ "LF" \notin ToSet(w)
    BY <1>2, <2>5, <2>6, ReadsBack
  <2> QED
    BY <1>3, <2>7
<1>4. \A i \in DOMAIN t : t[i] \in Plain
  BY <1>1
<1>5. CASE format = "yml"
  <2>1. PICK mid : mid = [i \in DOMAIN t |-> YmlSymbol(t[i])]
    OBVIOUS
  <2>2. w = <<"'">> \o mid \o <<"'">>
    BY <1>1, <1>5, <2>1 DEF Written, YmlScalar, YmlSymbol
  <2>3. PICK q : q = "'"
    OBVIOUS
  <2>5. Encodes(format, mid, t, q)
    BY <1>5, <2>1, <1>4, <2>3, YmlSymbols DEF Encodes
  <2>6. q # "LF" /\ w = <<q>> \o mid \o <<q>>
    BY <2>2, <2>3
  <2>7. ReadBack(format, w) = t /\ "LF" \notin ToSet(w)
    BY <1>1, <2>5, <2>6, ReadsBack
  <2> QED
    BY <1>1, <1>5, <2>7
<1>6. CASE format = "simplexml"
  <2>1. PICK mid : mid = [i \in DOMAIN t |-> XmlSymbol(t[i])]
    OBVIOUS
  <2>2. w = <<"\"">> \o mid \o <<"\"">>
    BY <1>1, <1>6, <2>1 DEF Written, SimpleXMLAttr, XmlEscape, XmlSymbol
  <2>3. PICK q : q = "\""
    OBVIOUS
  <2>5. Encodes(format, mid, t, q)
    BY <1>6, <2>1, <1>4, <2>3, XmlSymbols DEF Encodes
  <2>6. q # "LF" /\ w = <<q>> \o mid \o <<q>>
    BY <2>2, <2>3
  <2>7. ReadBack(format, w) = t /\ "LF" \notin ToSet(w)
    BY <1>1, <2>5, <2>6, ReadsBack
  <2> QED
    BY <1>1, <1>6, <2>7
<1>7. CASE format = "flatref"
  <2>1. w = <<"\"">> \o t \o <<"\"">>
    BY <1>1, <1>7 DEF Written, FlatRefValue
  <2>2. "LF" \notin ToSet(w)
    BY <2>1, FlatHasNoFeed
  <2> QED
    BY <1>7, <2>2
<1> QED
  BY <1>3, <1>5, <1>6, <1>7 DEF FormatRegistry

TextCall(c) == c.text \in Text /\ c.format \in FormatRegistry

(***************************************************************************)
(* Whatever text an element has, its line gives it back in words, and in   *)
(* jsonl as it is, and is one line (writeJSONString, writeYMLNode,         *)
(* xmlEscape, CollapseWS).                                                 *)
(***************************************************************************)
THEOREM EveryTextReadsBack ==
  ASSUME \A c \in Calls : c.of = "text" => TextCall(c)
  PROVE  AlgSpec => []WrittenTextReadsBack
<1>1. ASSUME AlgInv
      PROVE  WrittenTextReadsBack
  <2> SUFFICES ASSUME Answered("text")
               PROVE  WrittenTextReadsBack
    BY DEF WrittenTextReadsBack
  <2> DEFINE s == call.text
             format == call.format
  <2>1. s \in Text /\ format \in FormatRegistry /\ answer = Written(format, s)
    BY <1>1 DEF AlgInv, Answered, TextCall, Result
  <2> HIDE DEF s, format
  <2>2. /\ "LF" \notin ToSet(answer)
        /\ format = "jsonl" => ReadBack(format, answer) = s
        /\ format \in {"yml", "simplexml"} => ReadBack(format, answer) = CollapseWS(s)
    BY <2>1, WrittenReadsBack
  <2>3. CollapseWS(s) \in Seq(Plain) /\ Words(CollapseWS(s)) = Words(s)
    BY <2>1, CollapseKeepsWords
  <2>4. ToSet(CollapseWS(s)) \intersect Controls = {}
    <3>1. \A c \in ToSet(CollapseWS(s)) : c \in Plain
      BY <2>3 DEF ToSet
    <3> QED
      BY <3>1 DEF Plain
  <2> QED
    BY <2>2, <2>3, <2>4 DEF WrittenTextReadsBack, s, format
<1> QED
  BY <1>1, AlgInvHolds, PTL
-----------------------------------------------------------------------------
(* Parts of sequences.                                                      *)

\* What is taken of the first k elements of s.
Pieces(s, I, k) == [i \in 1 .. k |-> IF i \in I THEN <<s[i]>> ELSE <<>>]
Taken(s, I, k) == FlattenSeq(Pieces(s, I, k))

LEMMA TakenStep ==
  ASSUME NEW A, NEW s \in Seq(A), NEW I, NEW k \in 1 .. Len(s)
  PROVE  /\ Taken(s, I, k - 1) \in Seq(A)
         /\ k \in I => Taken(s, I, k) = Append(Taken(s, I, k - 1), s[k])
         /\ k \notin I => Taken(s, I, k) = Taken(s, I, k - 1)
<1> DEFINE Item(i) == IF i \in I THEN <<s[i]>> ELSE <<>>
<1>1. \A i \in 1 .. Len(s) : Item(i) \in Seq(A)
  <2>1. \A i \in 1 .. Len(s) : s[i] \in A
    OBVIOUS
  <2>2. \A a \in A : <<a>> \in Seq(A)
    OBVIOUS
  <2>3. <<>> \in Seq(A)
    OBVIOUS
  <2> QED
    BY <2>1, <2>2, <2>3
<1>2. PICK n \in Nat : n = Len(s) /\ k \in 1 .. n
  OBVIOUS
<1>3. Pieces(s, I, k - 1) = [i \in 1 .. k - 1 |-> Item(i)] /\ Pieces(s, I, k) = [i \in 1 .. k |-> Item(i)]
  BY DEF Pieces
<1> HIDE DEF Item
<1> DEFINE B == Seq(A)
<1>4. Item(k) \in B
  BY <1>1
<1>5. Pieces(s, I, k - 1) \in Seq(B) /\ Len(Pieces(s, I, k - 1)) = k - 1
  <2>1. \A i \in 1 .. k - 1 : Item(i) \in B
    BY <1>1, <1>2
  <2> HIDE DEF B
  <2> QED
    BY <1>2, <1>3, <2>1
<1>6. Pieces(s, I, k) = Append(Pieces(s, I, k - 1), Item(k))
  <2> HIDE DEF B
  <2> QED
    BY <1>2, <1>3, <1>4, <1>5
<1>7. /\ FlattenSeq(Pieces(s, I, k - 1)) \in Seq(A)
      /\ FlattenSeq(Append(Pieces(s, I, k - 1), Item(k)))
           = FlattenSeq(Pieces(s, I, k - 1)) \o Item(k)
  BY <1>4, <1>5, FlattenAppend
<1>8. PICK t \in Seq(A) : t = Taken(s, I, k - 1)
  BY <1>7 DEF Taken
<1>9. Taken(s, I, k) = t \o Item(k)
  BY <1>6, <1>7, <1>8 DEF Taken
<1>10. t \o <<>> = t /\ \A a \in A : t \o <<a>> = Append(t, a)
  OBVIOUS
<1>11. s[k] \in A
  BY <1>2
<1> QED
  BY <1>8, <1>9, <1>10, <1>11 DEF Item

\* One step of taking.
Takes(s, I, k) ==
  Taken(s, I, k) = IF k \in I THEN Append(Taken(s, I, k - 1), s[k]) ELSE Taken(s, I, k - 1)

LEMMA TakenTakes ==
  ASSUME NEW A, NEW s \in Seq(A), NEW I, NEW k \in 1 .. Len(s)
  PROVE  Takes(s, I, k)
BY TakenStep DEF Takes

LEMMA TakenNone == ASSUME NEW s, NEW I PROVE Taken(s, I, 0) = <<>>
<1>1. Pieces(s, I, 0) = <<>>
  BY DEF Pieces
<1>2. <<>> \in Seq(Seq(Nat)) /\ <<>> \in Seq(Nat)
  OBVIOUS
<1> QED
  BY <1>1, <1>2, FlattenAppend DEF Taken

LEMMA ElementsAtTaken ==
  ASSUME NEW A, NEW s \in Seq(A), NEW I
  PROVE  ElementsAt(s, I) = Taken(s, I, Len(s))
<1>1. DOMAIN s = 1 .. Len(s)
  OBVIOUS
<1> QED
  BY <1>1 DEF ElementsAt, Taken, Pieces

\* A part of a sequence is no longer than the sequence.
LEMMA TakenBounds ==
  ASSUME NEW A, NEW s \in Seq(A), NEW I, NEW k \in 0 .. Len(s)
  PROVE  Taken(s, I, k) \in Seq(A) /\ Len(Taken(s, I, k)) <= k
<1> DEFINE Fits(x, j) == x \in Seq(A) /\ Len(x) <= j
<1> DEFINE D == {j \in Nat : Fits(Taken(s, I, j), j)}
<1>0. Len(s) \in Nat
  OBVIOUS
<1>1. 0 \in D
  <2>1. Fits(<<>>, 0)
    OBVIOUS
  <2> HIDE DEF Fits
  <2> QED
    BY <2>1, TakenNone
<1>2. ASSUME NEW j \in Nat, j + 1 <= Len(s), j \in D
      PROVE  j + 1 \in D
  <2>1. j + 1 \in 1 .. Len(s) /\ (j + 1) - 1 = j /\ s[j + 1] \in A
    BY <1>2
  <2>2. /\ j + 1 \in I => Taken(s, I, j + 1) = Append(Taken(s, I, j), s[j + 1])
        /\ j + 1 \notin I => Taken(s, I, j + 1) = Taken(s, I, j)
    BY <2>1, TakenStep
  <2>3. \A x \in Seq(A), a \in A :
           Len(x) <= j => /\ Append(x, a) \in Seq(A) /\ Len(Append(x, a)) <= j + 1
                          /\ Len(x) <= j + 1
    OBVIOUS
  <2>4. PICK x \in Seq(A) : x = Taken(s, I, j) /\ Len(x) <= j
    BY <1>2
  <2>5. Fits(Taken(s, I, j + 1), j + 1)
    <3>1. CASE j + 1 \in I
      <4>1. Taken(s, I, j + 1) = Append(x, s[j + 1])
        BY <2>2, <2>4, <3>1
      <4>2. Append(x, s[j + 1]) \in Seq(A) /\ Len(Append(x, s[j + 1])) <= j + 1
        BY <2>1, <2>3, <2>4
      <4> QED
        BY <4>1, <4>2
    <3>2. CASE j + 1 \notin I
      <4>1. Taken(s, I, j + 1) = x
        BY <2>2, <2>4, <3>2
      <4>2. Len(x) <= j + 1
        BY <2>4
      <4> QED
        BY <2>4, <4>1, <4>2
    <3> QED
      BY <3>1, <3>2
  <2> HIDE DEF Fits
  <2> QED
    BY <1>2, <2>5
<1>3. 0 .. Len(s) \subseteq D
  <2> HIDE DEF D
  <2> QED
    BY <1>0, <1>1, <1>2, IntervalInduction
<1> QED
  BY <1>3

LEMMA ElementsAtBounds ==
  ASSUME NEW A, NEW s \in Seq(A), NEW I
  PROVE  ElementsAt(s, I) \in Seq(A) /\ Len(ElementsAt(s, I)) <= Len(s)
<1>1. Len(s) \in 0 .. Len(s)
  OBVIOUS
<1> QED
  BY <1>1, ElementsAtTaken, TakenBounds
-----------------------------------------------------------------------------
(* Listing and tapping.                                                     *)

\* A list numbers its elements, and holds the first n of the nodes at the most.
Lists(els, nodes, n) ==
  /\ Len(els) \in Nat /\ DOMAIN els = 1 .. Len(els)
  /\ Len(els) = IF Len(nodes) > n THEN n ELSE Len(nodes)
  /\ \A k \in 1 .. Len(els) : els[k] = [index |-> k - 1, node |-> nodes[k]]

LEMMA AtMostIs ==
  ASSUME NEW A, NEW s \in Seq(A), NEW n \in Nat
  PROVE  /\ AtMost(n, s) \in Seq(A)
         /\ n > 0 => Len(AtMost(n, s)) = IF Len(s) > n THEN n ELSE Len(s)
         /\ n = 0 => AtMost(n, s) = s
         /\ \A k \in 1 .. Len(AtMost(n, s)) : k \in 1 .. Len(s) /\ AtMost(n, s)[k] = s[k]
<1>1. CASE n > 0 /\ Len(s) > n
  <2>1. PICK t : t = SubSeq(s, 1, n)
    OBVIOUS
  <2>2. t \in Seq(A) /\ Len(t) = n /\ \A k \in 1 .. n : t[k] = s[k]
    BY <1>1, <2>1
  <2>3. AtMost(n, s) = t
    BY <1>1, <2>1 DEF AtMost
  <2>4. \A k \in 1 .. n : k \in 1 .. Len(s)
    BY <1>1
  <2> QED
    BY <1>1, <2>2, <2>3, <2>4
<1>2. CASE ~(n > 0 /\ Len(s) > n)
  <2>1. AtMost(n, s) = s
    BY <1>2 DEF AtMost
  <2> QED
    BY <1>2, <2>1
<1> QED
  BY <1>1, <1>2

LEMMA IndexedIs ==
  ASSUME NEW A, NEW s \in Seq(A)
  PROVE  /\ Indexed(s) \in Seq([index : Int, node : A])
         /\ Len(Indexed(s)) = Len(s)
         /\ \A k \in 1 .. Len(s) : Indexed(s)[k] = [index |-> k - 1, node |-> s[k]]
<1>1. PICK n \in Nat : n = Len(s) /\ DOMAIN s = 1 .. n
  OBVIOUS
<1>2. \A k \in 1 .. n : [index |-> k - 1, node |-> s[k]] \in [index : Int, node : A]
  BY <1>1
<1> DEFINE E == [index : Int, node : A]
<1>3. Indexed(s) \in [1 .. n -> E]
  BY <1>1, <1>2 DEF Indexed
<1>4. Indexed(s) \in Seq(E) /\ Len(Indexed(s)) = n
  <2> HIDE DEF E
  <2> QED
    BY <1>1, <1>3
<1> QED
  BY <1>1, <1>4 DEF Indexed

LEMMA AgentLists ==
  ASSUME NEW A, NEW nodes \in Seq(A), NEW max \in 0 .. DefMaxElements
  PROVE  Lists(AtMost(max, AgentAnswer(nodes, max)), nodes,
               IF max > 0 THEN max ELSE DefMaxElements)
<1>1. PICK m \in Nat : m = (IF max > 0 THEN max ELSE DefMaxElements) /\ m > 0
  BY LimitsAssumption
<1>2. PICK some \in Seq(A) : some = AtMost(m, nodes)
  BY <1>1, AtMostIs
<1>3. /\ Len(some) = IF Len(nodes) > m THEN m ELSE Len(nodes)
      /\ \A k \in 1 .. Len(some) : k \in 1 .. Len(nodes) /\ some[k] = nodes[k]
  BY <1>1, <1>2, AtMostIs
<1> DEFINE E == [index : Int, node : A]
<1>4. PICK els \in Seq(E) : els = Indexed(some)
  BY IndexedIs
<1>5. /\ Len(els) = Len(some)
      /\ \A k \in 1 .. Len(some) : els[k] = [index |-> k - 1, node |-> some[k]]
  BY <1>4, IndexedIs
<1>6. AgentAnswer(nodes, max) = els
  BY <1>1, <1>2, <1>4 DEF AgentAnswer
<1> HIDE DEF E
<1>7. Len(els) \in Nat /\ DOMAIN els = 1 .. Len(els) /\ Len(some) \in Nat
  OBVIOUS
<1>8. AtMost(max, els) = els
  <2>1. ~(max > 0 /\ Len(els) > max)
    BY <1>1, <1>3, <1>5, <1>7
  <2> QED
    BY <2>1 DEF AtMost
<1>9. \A k \in 1 .. Len(els) : els[k] = [index |-> k - 1, node |-> nodes[k]]
  BY <1>3, <1>5
<1>10. Len(els) = IF Len(nodes) > m THEN m ELSE Len(nodes)
  BY <1>3, <1>5
<1>11. Lists(els, nodes, m)
  BY <1>7, <1>9, <1>10 DEF Lists
<1> QED
  BY <1>1, <1>6, <1>8, <1>11

\* Every reading numbers the same nodes, as far as it goes.
LEMMA ReadingsAgree ==
  ASSUME NEW A, NEW dev, dev.screen \in Seq(A), NEW m, SummaryOrFallback(dev, m).ok
  PROVE  \E nodes \in Seq(A), top \in Nat :
           /\ Len(nodes) <= Len(dev.screen)
           /\ Lists(SummaryOrFallback(dev, 0).els, nodes, top)
           /\ \A max \in 0 .. DefMaxElements : \E n \in Nat :
                n <= top /\ Lists(SummaryOrFallback(dev, max).els, nodes, n)
<1>1. DefMaxElements \in Nat /\ DefMaxElements > 0
  BY LimitsAssumption
<1>2. CASE dev.fast[1] \/ dev.fast[2]
  <2>1. PICK nodes \in Seq(A) : nodes = KeptNodes(dev.screen) /\ Len(nodes) <= Len(dev.screen)
    BY ElementsAtBounds DEF KeptNodes
  <2>2. \A max : SummaryOrFallback(dev, max).els = AtMost(max, AgentAnswer(nodes, max))
    BY <1>2, <2>1 DEF SummaryOrFallback, GetUISummary, Reading
  <2>3. ASSUME NEW max \in 0 .. DefMaxElements
        PROVE  Lists(SummaryOrFallback(dev, max).els, nodes,
                     IF max > 0 THEN max ELSE DefMaxElements)
    BY <2>2, AgentLists
  <2>4. 0 \in 0 .. DefMaxElements /\ ~(0 > 0)
    BY <1>1
  <2>5. Lists(SummaryOrFallback(dev, 0).els, nodes, DefMaxElements)
    BY <2>3, <2>4
  <2>6. ASSUME NEW max \in 0 .. DefMaxElements
        PROVE  \E n \in Nat : n <= DefMaxElements
                              /\ Lists(SummaryOrFallback(dev, max).els, nodes, n)
    <3>1. PICK n : n = IF max > 0 THEN max ELSE DefMaxElements
      OBVIOUS
    <3>2. n \in Nat /\ n <= DefMaxElements
      BY <1>1, <3>1
    <3> QED
      BY <2>3, <3>1, <3>2
  <2> QED
    BY <1>1, <2>1, <2>5, <2>6
<1>3. CASE ~(dev.fast[1] \/ dev.fast[2])
  <2>1. \A max : SummaryOrFallback(dev, max) = GetUIElementsFallbackADB(dev)
    BY <1>3 DEF SummaryOrFallback, GetUISummary, Reading, Unread
  <2>2. PICK nodes \in Seq(A) : nodes = ParsedNodes(dev.screen) /\ Len(nodes) <= Len(dev.screen)
    BY ElementsAtBounds DEF ParsedNodes
  <2>3. GetUIElementsFallbackADB(dev).els = Indexed(nodes)
    BY <2>1, <2>2 DEF GetUIElementsFallbackADB, Reading, Unread
  <2> DEFINE E == [index : Int, node : A]
  <2>4. PICK els \in Seq(E) :
          /\ els = Indexed(nodes) /\ Len(els) = Len(nodes)
          /\ \A k \in 1 .. Len(nodes) : els[k] = [index |-> k - 1, node |-> nodes[k]]
    BY IndexedIs, ZenonT(60)
  <2> HIDE DEF E
  <2>5. Len(els) \in Nat /\ DOMAIN els = 1 .. Len(els)
    OBVIOUS
  <2>6. Lists(els, nodes, Len(nodes))
    BY <2>4, <2>5 DEF Lists
  <2>7. \A max : Lists(SummaryOrFallback(dev, max).els, nodes, Len(nodes))
    BY <2>1, <2>3, <2>4, <2>6
  <2>8. Len(nodes) \in Nat /\ Len(nodes) <= Len(nodes)
    BY <2>4, <2>5
  <2> QED
    BY <2>2, <2>7, <2>8
<1> QED
  BY <1>2, <1>3

ListingCall(c, A) ==
  /\ c.dev.screen \in Seq(A)
  /\ Has(c.req, "max_elements") /\ "num" \in DOMAIN c.req.params["max_elements"]
     => c.req.params["max_elements"].num \in Int

LEMMA LimitIs ==
  ASSUME NEW A, NEW c, ListingCall(c, A)
  PROVE  ClampCollectMax(GetMaxElements(c.req)) \in 0 .. DefMaxElements
<1>1. DefMaxElements \in Nat /\ DefClientMaxElements \in Nat
  BY LimitsAssumption
<1>2. GetInt(c.req, "max_elements") \in Int
  BY DEF ListingCall, GetInt
<1>3. GetMaxElements(c.req) \in Int
  BY <1>1, <1>2 DEF GetMaxElements
<1> QED
  BY <1>1, <1>3 DEF ClampCollectMax

\* Tapping the index of the k-th element read taps the k-th.
LEMMA TapsThatOne ==
  ASSUME NEW dev, dev.there, NEW nodes, NEW top,
         Lists(SummaryOrFallback(dev, 0).els, nodes, top),
         NEW k \in 1 .. Len(SummaryOrFallback(dev, 0).els)
  PROVE  Dispatch(dev, TapElement(k - 1)).did
           = << <<"tap", ScaleToDevice(dev, nodes[k].center)>> >>
<1>1. PICK req : req = TapElement(k - 1)
  OBVIOUS
<1>2. /\ req.method = "tap_element" /\ req.valid = TRUE
      /\ Has(req, "index") /\ GetInt(req, "index") = k - 1
  BY <1>1 DEF TapElement, Request, Has, GetInt
<1>3. PICK els : els = SummaryOrFallback(dev, 0).els
  OBVIOUS
<1>4. /\ Len(els) \in Nat /\ DOMAIN els = 1 .. Len(els) /\ k \in 1 .. Len(els)
      /\ \A j \in 1 .. Len(els) : els[j] = [index |-> j - 1, node |-> nodes[j]]
  BY <1>3 DEF Lists
<1>5. els # <<>>
  BY <1>4
<1>6. IndexedBy(els, k - 1) = {k}
  BY <1>4 DEF IndexedBy
<1>7. FirstAt(els, {k}) = els[k]
  BY <1>4 DEF FirstAt
<1>8. Dispatch(dev, req) = handleTapElement(dev, req)
  BY <1>2 DEF Dispatch
<1>9. handleTapElement(dev, req) = TapFirst(dev, els, {k})
  BY <1>2, <1>3, <1>5, <1>6 DEF handleTapElement
<1>10. TapFirst(dev, els, {k}) = Tapped(dev, els[k])
  BY <1>7 DEF TapFirst
<1>11. Tapped(dev, els[k]).did = << <<"tap", ScaleToDevice(dev, nodes[k].center)>> >>
  BY <1>4 DEF Tapped, Did, Refused
<1> QED
  BY <1>1, <1>8, <1>9, <1>10, <1>11

(***************************************************************************)
(* Whatever is on the screen and whatever limit a list was asked with, an  *)
(* index that it shows taps the element that it showed, by the summary or  *)
(* the fallback over adb (handleGetUIElements, handleTapElement).          *)
(***************************************************************************)
THEOREM EveryListedIndexTaps ==
  ASSUME NEW A, \A c \in Calls : c.of = "listing" => ListingCall(c, A)
  PROVE  AlgSpec => []ListedIndexTaps
<1>1. ASSUME AlgInv, Answered("listing"), call.req.method = "get_ui_elements",
             Format(call.req) \notin Hierarchical, NEW el \in ToSet(answer.list)
      PROVE  answer.taps[el.index + 1].did
               = << <<"tap", ScaleToDevice(call.dev, el.node.center)>> >>
  <2>1. PICK dev : dev = call.dev
    OBVIOUS
  <2>2. PICK req : req = call.req
    OBVIOUS
  <2>3. dev.screen \in Seq(A) /\ ListingCall(call, A)
    BY <1>1, <2>1 DEF AlgInv, Answered, ListingCall
  <2>4. PICK max \in 0 .. DefMaxElements : max = ClampCollectMax(GetMaxElements(req))
    BY <2>2, <2>3, LimitIs
  <2>5. /\ answer.list = Dispatch(dev, req).list
        /\ answer.taps = [i \in DOMAIN dev.screen |-> Dispatch(dev, TapElement(i - 1))]
    BY <1>1, <2>1, <2>2 DEF AlgInv, Answered, Result
  <2>6. Dispatch(dev, req).list = handleGetUIElements(dev, req).list
    BY <1>1, <2>2 DEF Dispatch
  <2>7. dev.there /\ SummaryOrFallback(dev, max).ok /\ answer.list = SummaryOrFallback(dev, max).els
    <3>1. handleGetUIElements(dev, req) =
            IF ~dev.there THEN Refused("nodevice")
            ELSE IF ~SummaryOrFallback(dev, max).ok THEN Refused("device")
            ELSE Listing(SummaryOrFallback(dev, max).els)
      BY <1>1, <2>2, <2>4 DEF handleGetUIElements
    <3>2. \A code : Refused(code).list = <<>>
      BY DEF Refused
    <3>3. answer.list # <<>>
      BY <1>1 DEF ToSet
    <3>4. \A els : Listing(els).list = els
      BY DEF Listing, Refused
    <3> QED
      BY <2>5, <2>6, <3>1, <3>2, <3>3, <3>4
  <2>8. PICK nodes \in Seq(A), top \in Nat :
          /\ Len(nodes) <= Len(dev.screen)
          /\ Lists(SummaryOrFallback(dev, 0).els, nodes, top)
          /\ \A m \in 0 .. DefMaxElements : \E n \in Nat :
               n <= top /\ Lists(SummaryOrFallback(dev, m).els, nodes, n)
    BY <2>3, <2>7, ReadingsAgree
  <2>9. PICK n \in Nat : n <= top /\ Lists(answer.list, nodes, n)
    BY <2>4, <2>7, <2>8
  <2>10. PICK k \in 1 .. Len(answer.list) : el = answer.list[k]
    BY <1>1, <2>9 DEF ToSet, Lists
  <2>11. el = [index |-> k - 1, node |-> nodes[k]] /\ Len(answer.list) \in Nat
    BY <2>9, <2>10 DEF Lists
  <2>12. k \in 1 .. Len(SummaryOrFallback(dev, 0).els) /\ k \in 1 .. Len(dev.screen)
    <3>1. Len(nodes) \in Nat /\ Len(dev.screen) \in Nat
      BY <2>3
    <3> QED
      BY <2>8, <2>9, <2>10, <3>1 DEF Lists
  <2>13. Dispatch(dev, TapElement(k - 1)).did
           = << <<"tap", ScaleToDevice(dev, nodes[k].center)>> >>
    BY <2>7, <2>8, <2>12, TapsThatOne
  <2>14. DOMAIN dev.screen = 1 .. Len(dev.screen) /\ (k - 1) + 1 = k
    BY <2>3, <2>10
  <2>15. answer.taps[k] = Dispatch(dev, TapElement(k - 1))
    BY <2>5, <2>12, <2>14
  <2> QED
    BY <2>1, <2>11, <2>13, <2>14, <2>15
<1>2. AlgInv => ListedIndexTaps
  BY <1>1 DEF ListedIndexTaps
<1> QED
  BY <1>2, AlgInvHolds, PTL
-----------------------------------------------------------------------------
(* Reading the path of best classes.                                        *)

ScoreRows == {row \in Seq(Int) : row # <<>>}

LEMMA MaxOfRow ==
  ASSUME NEW n \in Nat, NEW row \in [1 .. n + 1 -> Int]
  PROVE  \E i \in 1 .. n + 1 : \A j \in 1 .. n + 1 :
           row[j] < row[i] \/ (row[j] = row[i] /\ i <= j)
<1> DEFINE Best(i, k) == \A j \in 1 .. k : row[j] < row[i] \/ (row[j] = row[i] /\ i <= j)
           D == {k \in Nat : \E i \in 1 .. k + 1 : Best(i, k + 1)}
<1>1. 0 \in D
  <2>1. Best(1, 0 + 1)
    OBVIOUS
  <2>2. 1 \in 1 .. 0 + 1
    OBVIOUS
  <2> HIDE DEF Best
  <2> QED
    BY <2>1, <2>2
<1>2. ASSUME NEW k \in Nat, k + 1 <= n, k \in D
      PROVE  k + 1 \in D
  <2>1. PICK i \in 1 .. k + 1 : Best(i, k + 1)
    BY <1>2
  <2>2. PICK top : top = k + 2
    OBVIOUS
  <2>3. /\ top = (k + 1) + 1 /\ top \in 1 .. n + 1 /\ i \in 1 .. n + 1 /\ i \in 1 .. top
        /\ \A j \in 1 .. top : j = top \/ (j \in 1 .. k + 1 /\ j <= top)
    BY <1>2, <2>2
  <2>4. row[top] \in Int /\ row[i] \in Int /\ \A j \in 1 .. k + 1 : row[j] \in Int
    BY <1>2, <2>3
  <2>5. CASE row[top] > row[i]
    <3>1. Best(top, top)
      <4> SUFFICES ASSUME NEW j \in 1 .. top
                   PROVE  row[j] < row[top] \/ (row[j] = row[top] /\ top <= j)
        OBVIOUS
      <4>1. CASE j = top
        BY <2>2, <4>1
      <4>2. CASE j \in 1 .. k + 1
        BY <2>1, <2>4, <2>5, <4>2
      <4> QED
        BY <2>3, <4>1, <4>2
    <3> HIDE DEF Best
    <3> QED
      BY <1>2, <2>3, <3>1
  <2>6. CASE ~(row[top] > row[i])
    <3>1. Best(i, top)
      <4> SUFFICES ASSUME NEW j \in 1 .. top
                   PROVE  row[j] < row[i] \/ (row[j] = row[i] /\ i <= j)
        OBVIOUS
      <4>1. CASE j = top
        BY <2>3, <2>4, <2>6, <4>1
      <4>2. CASE j \in 1 .. k + 1
        BY <2>1, <4>2
      <4> QED
        BY <2>3, <4>1, <4>2
    <3> HIDE DEF Best
    <3> QED
      BY <1>2, <2>3, <3>1
  <2> QED
    BY <2>5, <2>6
<1>3. 0 .. n \subseteq D
  <2> HIDE DEF D
  <2> QED
    BY <1>1, <1>2, IntervalInduction
<1>4. n \in D
  <2>1. n \in 0 .. n
    OBVIOUS
  <2> HIDE DEF D
  <2> QED
    BY <1>3, <2>1
<1> QED
  BY <1>4

\* c is better than every other class of the row, or before it.
IsBest(c, row) ==
  \A d \in Classes(row) : row[d + 1] < row[c + 1] \/ (row[d + 1] = row[c + 1] /\ c <= d)

LEMMA ArgMaxIs ==
  ASSUME NEW row \in ScoreRows
  PROVE  /\ ArgMax(row) \in Classes(row) /\ ArgMax(row) \in Nat /\ row[ArgMax(row) + 1] \in Int
         /\ \A c \in Classes(row) : IsBest(c, row) <=> c = ArgMax(row)
<1>1. PICK n \in Nat : n + 1 = Len(row)
  <2>1. Len(row) \in Nat /\ Len(row) > 0
    BY DEF ScoreRows
  <2> QED
    BY <2>1, Len(row) - 1 \in Nat
<1>2. row \in [1 .. n + 1 -> Int] /\ Classes(row) = 0 .. n
  BY <1>1 DEF ScoreRows, Classes
<1>3. PICK i \in 1 .. n + 1 : \A j \in 1 .. n + 1 :
           row[j] < row[i] \/ (row[j] = row[i] /\ i <= j)
  BY <1>2, MaxOfRow
<1>4. PICK b : b = i - 1
  OBVIOUS
<1>5. b \in 0 .. n /\ b + 1 = i /\ \A d \in 0 .. n : d + 1 \in 1 .. n + 1
  BY <1>4
<1>6. IsBest(b, row)
  <2> SUFFICES ASSUME NEW d \in 0 .. n
               PROVE  row[d + 1] < row[b + 1] \/ (row[d + 1] = row[b + 1] /\ b <= d)
    BY <1>2 DEF IsBest
  <2>1. row[d + 1] < row[i] \/ (row[d + 1] = row[i] /\ i <= d + 1)
    BY <1>3, <1>5
  <2> QED
    BY <1>5, <2>1
<1>7. ASSUME NEW c \in 0 .. n, IsBest(c, row)
      PROVE  c = b
  <2>1. row[c + 1] \in Int /\ row[b + 1] \in Int
    BY <1>2, <1>5
  <2>2. row[c + 1] < row[b + 1] \/ (row[c + 1] = row[b + 1] /\ b <= c)
    BY <1>2, <1>6 DEF IsBest
  <2>3. row[b + 1] < row[c + 1] \/ (row[b + 1] = row[c + 1] /\ c <= b)
    BY <1>2, <1>5, <1>7 DEF IsBest
  <2> QED
    BY <1>5, <2>1, <2>2, <2>3
<1>8. ArgMax(row) = CHOOSE c \in Classes(row) : IsBest(c, row)
  BY DEF ArgMax, IsBest
<1>9. ArgMax(row) = b
  BY <1>2, <1>5, <1>6, <1>7, <1>8
<1> QED
  BY <1>2, <1>5, <1>6, <1>7, <1>9

\* With one class considered per step it is the best one.
LEMMA TopIsBest ==
  ASSUME NEW row \in ScoreRows
  PROVE  TopN(row, 1) = {ArgMax(row)}
<1> DEFINE Better(c, d) == row[c + 1] > row[d + 1] \/ (row[c + 1] = row[d + 1] /\ c < d)
           Above(c) == {d \in Classes(row) : Better(d, c)}
<1>1. Len(row) \in Nat /\ row \in [1 .. Len(row) -> Int] /\ Classes(row) = 0 .. Len(row) - 1
  BY DEF ScoreRows, Classes
<1>2. IsFiniteSet(Classes(row))
  BY <1>1, FS_Interval
<1>3. ASSUME NEW c \in Classes(row)
      PROVE  Cardinality(Above(c)) < 1 <=> IsBest(c, row)
  <2>1. IsFiniteSet(Above(c)) /\ Cardinality(Above(c)) \in Nat
    BY <1>2, FS_Subset, FS_CardinalityType
  <2>2. Cardinality(Above(c)) < 1 <=> Above(c) = {}
    <3> HIDE DEF Above
    <3> QED
      BY <2>1, FS_EmptySet
  <2>3. \A d \in Classes(row) : d \in Int /\ row[d + 1] \in Int
    BY <1>1
  <2>4. \A d \in Classes(row) :
          ~Better(d, c) <=> row[d + 1] < row[c + 1] \/ (row[d + 1] = row[c + 1] /\ c <= d)
    BY <1>3, <2>3
  <2>5. Above(c) = {} <=> \A d \in Classes(row) : ~Better(d, c)
    OBVIOUS
  <2> QED
    BY <2>2, <2>4, <2>5 DEF IsBest
<1>4. TopN(row, 1) = {c \in Classes(row) : Cardinality(Above(c)) < 1}
  BY DEF TopN
<1> HIDE DEF Above
<1> QED
  BY <1>3, <1>4, ArgMaxIs

TextStates == [text : Seq(Nat), prev : Int]
NoText == [text |-> <<>>, prev |-> -1]

LEMMA NoTextType == NoText \in TextStates
<1>1. <<>> \in Seq(Nat)
  OBVIOUS
<1> QED
  BY <1>1 DEF NoText, TextStates

LEMMA DecodeNextType ==
  ASSUME NEW st \in TextStates, NEW row \in ScoreRows, NEW dict
  PROVE  DecodeNext(st, ArgMax(row), dict) \in TextStates
<1>1. PICK c \in Nat : c = ArgMax(row)
  BY ArgMaxIs
<1>2. PICK t \in Seq(Nat) : t = IF c <= dict THEN Append(st.text, c) ELSE st.text
  <2>1. st.text \in Seq(Nat)
    BY DEF TextStates
  <2>2. Append(st.text, c) \in Seq(Nat)
    BY <2>1
  <2> QED
    BY <2>1, <2>2
<1>3. DecodeNext(st, c, dict) \in {[st EXCEPT !.prev = -1], st, [text |-> t, prev |-> c]}
  BY <1>2 DEF DecodeNext
<1> DEFINE S == Seq(Nat)
<1>4. st \in [text : S, prev : Int] /\ t \in S
  BY DEF TextStates
<1> HIDE DEF S
<1>5. [st EXCEPT !.prev = -1] \in [text : S, prev : Int] /\ [text |-> t, prev |-> c] \in [text : S, prev : Int]
  BY <1>4
<1> QED
  BY <1>1, <1>3, <1>4, <1>5 DEF TextStates, S

DecodeRun(run, s, dict) ==
  /\ run[0] = NoText
  /\ \A k \in 1 .. Len(s) : run[k] = DecodeNext(run[k - 1], ArgMax(s[k]), dict)
  /\ run[Len(s)] = DecodeLoop(s, dict)

LEMMA DecodeRuns ==
  ASSUME NEW dict, NEW s \in Seq(ScoreRows)
  PROVE  \E run \in [0 .. Len(s) -> TextStates] : DecodeRun(run, s, dict)
<1> DEFINE F == [p \in TextStates \X ScoreRows |-> DecodeNext(p[1], ArgMax(p[2]), dict)]
           Def(it) == it = [T \in SUBSET DOMAIN s |->
                              IF T = {} THEN NoText
                              ELSE DecodeNext(it[T \ {Max(T)}], ArgMax(s[Max(T)]), dict)]
           fold == CHOOSE it : Def(it)
           m == Len(s)
<1>1. DOMAIN s = 1 .. m /\ m \in Nat /\ s \in [1 .. m -> ScoreRows]
  OBVIOUS
<1>2. DecodeLoop(s, dict) = fold[DOMAIN s]
  BY DEF DecodeLoop, NoText, FoldLeft, MapThenFoldSet
<1>3. NoText \in TextStates
  BY NoTextType
<1>4. Def(fold)
  <2>1. F \in [TextStates \X ScoreRows -> TextStates]
    BY DecodeNextType
  <2>2. \E it \in [SUBSET (1 .. m) -> TextStates] : Iterates(it, F, NoText, s, m)
    <3> HIDE DEF F, Def, m
    <3> QED
      BY <1>1, <1>3, <2>1, FoldExists
  <2>3. PICK it \in [SUBSET (1 .. m) -> TextStates] : Iterates(it, F, NoText, s, m)
    BY <2>2
  <2>4. ASSUME NEW T \in SUBSET (1 .. m), T # {}
        PROVE  it[T] = DecodeNext(it[T \ {Max(T)}], ArgMax(s[Max(T)]), dict)
    BY <1>1, <2>3, <2>4, MaxOfSubset DEF Iterates
  <2>5. Def(it)
    BY <1>1, <2>3, <2>4 DEF Iterates
  <2> HIDE DEF Def
  <2> QED
    BY <2>5
<1> HIDE DEF fold
<1> DEFINE run == [k \in 0 .. m |-> fold[1 .. k]]
<1>5. run[0] = NoText
  BY <1>1, <1>4, 1 .. 0 = {}
<1>6. ASSUME NEW k \in 1 .. m
      PROVE  run[k] = DecodeNext(run[k - 1], ArgMax(s[k]), dict)
  <2>1. /\ Max(1 .. k) = k /\ (1 .. k) \ {k} = 1 .. k - 1
        /\ 1 .. k # {} /\ 1 .. k \in SUBSET (1 .. m)
    BY <1>1, Prefix
  <2>2. fold[1 .. k] = DecodeNext(fold[(1 .. k) \ {Max(1 .. k)}], ArgMax(s[Max(1 .. k)]), dict)
    BY <1>1, <1>4, <2>1
  <2>3. k \in 0 .. m /\ k - 1 \in 0 .. m
    BY <1>1
  <2> QED
    BY <2>1, <2>2, <2>3
<1>7. run[m] = DecodeLoop(s, dict)
  BY <1>1, <1>2
<1>8. ASSUME NEW k \in Nat, k + 1 <= m, run[k] \in TextStates
      PROVE  run[k + 1] \in TextStates
  <2>1. k + 1 \in 1 .. m /\ (k + 1) - 1 = k /\ s[k + 1] \in ScoreRows
    BY <1>1, <1>8
  <2>2. run[k + 1] = DecodeNext(run[k], ArgMax(s[k + 1]), dict)
    BY <1>6, <2>1
  <2> HIDE DEF run
  <2> QED
    BY <1>8, <2>1, <2>2, DecodeNextType
<1> HIDE DEF run
<1>9. run \in [0 .. m -> TextStates]
  <2> DEFINE D == {k \in Nat : run[k] \in TextStates}
  <2>1. 0 \in D
    BY <1>3, <1>5
  <2>2. \A k \in Nat : k + 1 <= m /\ k \in D => k + 1 \in D
    BY <1>8
  <2>3. 0 .. m \subseteq D
    <3> HIDE DEF D, m
    <3> QED
      BY <1>1, <2>1, <2>2, IntervalInduction
  <2> QED
    BY <2>3 DEF run
<1> QED
  BY <1>5, <1>6, <1>7, <1>9 DEF DecodeRun

\* The characters of a path that the dictionary has.
InText(path, dict) == {i \in Characters(path) : path[i] <= dict}
LastClass(path, k) == IF k = 0 \/ path[k] = 0 THEN -1 ELSE path[k]

\* The text and the last class of the first k steps.
ReadSoFar(text, prev, path, dict, k) ==
  text = Taken(path, InText(path, dict), k) /\ prev = LastClass(path, k)

\* Which of the next step's cases it is, told from the last class.
StepReads(text, prev, path, dict, k, c) ==
  /\ LastClass(path, k + 1) = IF c = 0 THEN -1 ELSE c
  /\ c = 0 \/ c = prev => Taken(path, InText(path, dict), k + 1) = text
  /\ ~(c = 0 \/ c = prev) =>
       Taken(path, InText(path, dict), k + 1) = IF c <= dict THEN Append(text, c) ELSE text
  /\ c = prev /\ c # 0 => k # 0 /\ path[k] = c

LEMMA PathStep ==
  ASSUME NEW path \in Seq(Nat), NEW dict \in Int, NEW k \in Nat, k + 1 \in 1 .. Len(path),
         NEW c, c = path[k + 1], NEW prev, NEW text, ReadSoFar(text, prev, path, dict, k)
  PROVE  StepReads(text, prev, path, dict, k, c)
<1>0. prev = LastClass(path, k) /\ text = Taken(path, InText(path, dict), k)
  BY DEF ReadSoFar
<1>1. /\ k + 1 # 0 /\ (k + 1) - 1 = k /\ c \in Nat /\ DOMAIN path = 1 .. Len(path)
      /\ k # 0 => k \in 1 .. Len(path) /\ path[k] \in Nat
  OBVIOUS
<1>2. LastClass(path, k + 1) = IF c = 0 THEN -1 ELSE c
  BY <1>1 DEF LastClass
<1>3. c = prev /\ c # 0 => k # 0 /\ path[k] = c
  BY <1>0, <1>1 DEF LastClass
<1>4. k # 0 /\ path[k] = c => c = 0 \/ c = prev
  BY <1>0 DEF LastClass
<1>5. k + 1 \in Characters(path) <=> c # 0 /\ (k # 0 => path[k] # c)
  BY <1>1 DEF Characters
<1>6. k + 1 \in InText(path, dict) <=> ~(c = 0 \/ c = prev) /\ c <= dict
  BY <1>3, <1>4, <1>5 DEF InText
<1>7. /\ k + 1 \in InText(path, dict) => Taken(path, InText(path, dict), k + 1) = Append(text, c)
      /\ k + 1 \notin InText(path, dict) => Taken(path, InText(path, dict), k + 1) = text
  <2>1. PICK I : I = InText(path, dict)
    OBVIOUS
  <2>2. PICK j \in 1 .. Len(path) : j = k + 1 /\ j - 1 = k
    BY <1>1
  <2>3. Takes(path, I, j)
    BY <2>2, TakenTakes
  <2> QED
    BY <1>0, <2>1, <2>2, <2>3 DEF Takes
<1> QED
  BY <1>2, <1>3, <1>6, <1>7 DEF StepReads

LEMMA BestPathIs ==
  ASSUME NEW rows \in Seq(ScoreRows)
  PROVE  /\ BestPath(rows) \in Seq(Nat) /\ Len(BestPath(rows)) = Len(rows)
         /\ DOMAIN rows = 1 .. Len(rows) /\ Len(rows) \in Nat
         /\ \A t \in 1 .. Len(rows) : rows[t] \in ScoreRows /\ BestPath(rows)[t] = ArgMax(rows[t])
<1>1. DOMAIN rows = 1 .. Len(rows) /\ Len(rows) \in Nat
  OBVIOUS
<1>2. \A t \in 1 .. Len(rows) : rows[t] \in ScoreRows /\ ArgMax(rows[t]) \in Nat
  BY <1>1, ArgMaxIs
<1>3. BestPath(rows) \in [1 .. Len(rows) -> Nat]
  BY <1>1, <1>2 DEF BestPath
<1>4. BestPath(rows) \in Seq(Nat) /\ Len(BestPath(rows)) = Len(rows)
  BY <1>1, <1>3
<1> QED
  BY <1>1, <1>2, <1>4 DEF BestPath

LEMMA GreedyReads ==
  ASSUME NEW rows \in Seq(ScoreRows), NEW dict \in Int
  PROVE  DecodeFlat(rows, dict) = Collapse(BestPath(rows), dict)
<1>1. PICK path \in Seq(Nat) : path = BestPath(rows)
  BY BestPathIs
<1>2. PICK n \in Nat : n = Len(rows) /\ n = Len(path)
  BY <1>1, BestPathIs
<1>3. PICK run \in [0 .. n -> TextStates] : DecodeRun(run, rows, dict)
  BY <1>2, DecodeRuns
<1> DEFINE D == {k \in Nat : ReadSoFar(run[k].text, run[k].prev, path, dict, k)}
<1>4. 0 \in D
  <2>1. run[0].text = <<>> /\ run[0].prev = -1
    BY <1>3 DEF DecodeRun, NoText
  <2> QED
    BY <2>1, TakenNone DEF ReadSoFar, LastClass
<1>5. ASSUME NEW k \in Nat, k + 1 <= n, k \in D
      PROVE  k + 1 \in D
  <2>1. k + 1 \in 1 .. n /\ (k + 1) - 1 = k /\ k \in 0 .. n
    BY <1>5
  <2>2. PICK c \in Nat : c = path[k + 1] /\ c = ArgMax(rows[k + 1])
    BY <1>1, <1>2, <2>1, BestPathIs
  <2>3. PICK st \in TextStates : st = run[k]
    BY <2>1
  <2>4. run[k + 1] = DecodeNext(st, c, dict)
    BY <1>2, <1>3, <2>1, <2>2, <2>3 DEF DecodeRun
  <2>5. ReadSoFar(st.text, st.prev, path, dict, k)
    BY <1>5, <2>3
  <2>6. /\ LastClass(path, k + 1) = IF c = 0 THEN -1 ELSE c
        /\ c = 0 \/ c = st.prev => Taken(path, InText(path, dict), k + 1) = st.text
        /\ ~(c = 0 \/ c = st.prev) =>
             Taken(path, InText(path, dict), k + 1)
               = IF c <= dict THEN Append(st.text, c) ELSE st.text
    <3>1. StepReads(st.text, st.prev, path, dict, k, c)
      BY <1>2, <2>1, <2>2, <2>5, PathStep
    <3> QED
      BY <3>1 DEF StepReads
  <2>7. /\ DecodeNext(st, c, dict).text = IF c = 0 \/ c = st.prev THEN st.text
                                          ELSE IF c <= dict THEN Append(st.text, c) ELSE st.text
        /\ DecodeNext(st, c, dict).prev = IF c = 0 THEN -1 ELSE c
    <3> DEFINE S == Seq(Nat)
    <3>1. st \in [text : S, prev : Int]
      BY DEF TextStates
    <3> HIDE DEF S
    <3>2. /\ [st EXCEPT !.prev = -1].text = st.text /\ [st EXCEPT !.prev = -1].prev = -1
      BY <3>1
    <3> QED
      BY <3>2 DEF DecodeNext
  <2> QED
    BY <2>4, <2>6, <2>7 DEF ReadSoFar
<1>6. 0 .. n \subseteq D
  <2> HIDE DEF D
  <2> QED
    BY <1>4, <1>5, IntervalInduction
<1>7. ReadSoFar(run[n].text, run[n].prev, path, dict, n)
  BY <1>6
<1>8. DecodeFlat(rows, dict) = run[n].text
  BY <1>2, <1>3 DEF DecodeRun, DecodeFlat
<1>9. Collapse(path, dict) = Taken(path, InText(path, dict), n)
  BY <1>2, ElementsAtTaken DEF Collapse, InText
<1> QED
  BY <1>1, <1>7, <1>8, <1>9 DEF ReadSoFar

BeamSet == [prefix : Seq(Nat), score : Int, prev : Int]
BeamSets == SUBSET BeamSet
FirstBeams == {[prefix |-> <<>>, score |-> 0, prev |-> -1]}

LEMMA FirstBeamsType == FirstBeams \in BeamSets
<1>1. <<>> \in Seq(Nat)
  OBVIOUS
<1> QED
  BY <1>1 DEF FirstBeams, BeamSet, BeamSets

LEMMA ExtendType ==
  ASSUME NEW b \in BeamSet, NEW c \in Nat, NEW score \in Int
  PROVE  Extend(b, c, score) \subseteq BeamSet
<1> DEFINE S == Seq(Nat)
<1>1. b \in [prefix : S, score : Int, prev : Int] /\ Append(b.prefix, c) \in S
  <2>1. b.prefix \in Seq(Nat)
    BY DEF BeamSet
  <2> QED
    BY <2>1 DEF BeamSet
<1>2. PICK p \in S : p = Append(b.prefix, c)
  BY <1>1
<1>3. PICK sum \in Int : sum = b.score + score
  BY <1>1
<1> HIDE DEF S
<1>4. /\ [b EXCEPT !.score = sum, !.prev = -1] \in [prefix : S, score : Int, prev : Int]
      /\ [prefix |-> p, score |-> sum, prev |-> c] \in [prefix : S, score : Int, prev : Int]
  <2> DEFINE R == [prefix : S, score : Int, prev : Int]
  <2>1. [prefix |-> p, score |-> sum, prev |-> c] \in R
    BY <1>2, <1>3
  <2>2. b \in R /\ sum \in Int /\ -1 \in Int
    BY <1>1, <1>3
  <2>3. PICK y : y = [b EXCEPT !.score = sum]
    OBVIOUS
  <2>4. y \in R
    BY <2>2, <2>3
  <2>5. [y EXCEPT !.prev = -1] \in R
    BY <2>2, <2>4
  <2>6. [b EXCEPT !.score = sum, !.prev = -1] = [y EXCEPT !.prev = -1]
    BY <2>2, <2>3
  <2> QED
    BY <2>1, <2>5, <2>6
<1> QED
  BY <1>2, <1>3, <1>4 DEF Extend, BeamSet, S

LEMMA TopNType ==
  ASSUME NEW row \in ScoreRows, NEW topN, NEW c \in TopN(row, topN)
  PROVE  c \in Nat /\ row[c + 1] \in Int
<1>1. c \in 0 .. Len(row) - 1 /\ Len(row) \in Nat /\ row \in [1 .. Len(row) -> Int]
  BY DEF TopN, Classes, ScoreRows
<1> QED
  BY <1>1

LEMMA BeamStepType ==
  ASSUME NEW beams \in BeamSets, NEW row \in ScoreRows, NEW width, NEW topN
  PROVE  BeamStep(beams, row, width, topN) \in BeamSets
<1>1. \A b \in beams, c \in TopN(row, topN) : Extend(b, c, row[c + 1]) \subseteq BeamSet
  BY TopNType, ExtendType DEF BeamSets
<1> DEFINE all == UNION {Extend(b, c, row[c + 1]) : b \in beams, c \in TopN(row, topN)}
<1>2. all \subseteq BeamSet
  BY <1>1
<1>3. BeamStep(beams, row, width, topN) = Widest(Merged(all), width)
  BY DEF BeamStep
<1> HIDE DEF all
<1>4. Widest(Merged(all), width) \subseteq all
  BY DEF Widest, Merged
<1> QED
  BY <1>2, <1>3, <1>4 DEF BeamSets

BeamRun(run, s, width, topN) ==
  /\ run[0] = FirstBeams
  /\ \A k \in 1 .. Len(s) : run[k] = BeamStep(run[k - 1], s[k], width, topN)
  /\ run[Len(s)] = Beams(s, width, topN)

LEMMA BeamRuns ==
  ASSUME NEW width, NEW topN, NEW s \in Seq(ScoreRows)
  PROVE  \E run \in [0 .. Len(s) -> BeamSets] : BeamRun(run, s, width, topN)
<1> DEFINE F == [p \in BeamSets \X ScoreRows |-> BeamStep(p[1], p[2], width, topN)]
           Def(it) == it = [T \in SUBSET DOMAIN s |->
                              IF T = {} THEN FirstBeams
                              ELSE BeamStep(it[T \ {Max(T)}], s[Max(T)], width, topN)]
           fold == CHOOSE it : Def(it)
           m == Len(s)
<1>1. DOMAIN s = 1 .. m /\ m \in Nat /\ s \in [1 .. m -> ScoreRows]
  OBVIOUS
<1>2. Beams(s, width, topN) = fold[DOMAIN s]
  BY DEF Beams, FirstBeams, FoldLeft, MapThenFoldSet
<1>3. FirstBeams \in BeamSets
  BY FirstBeamsType
<1>4. Def(fold)
  <2>1. F \in [BeamSets \X ScoreRows -> BeamSets]
    BY BeamStepType
  <2>2. \E it \in [SUBSET (1 .. m) -> BeamSets] : Iterates(it, F, FirstBeams, s, m)
    <3> HIDE DEF F, Def, m
    <3> QED
      BY <1>1, <1>3, <2>1, FoldExists
  <2>3. PICK it \in [SUBSET (1 .. m) -> BeamSets] : Iterates(it, F, FirstBeams, s, m)
    BY <2>2
  <2>4. ASSUME NEW T \in SUBSET (1 .. m), T # {}
        PROVE  it[T] = BeamStep(it[T \ {Max(T)}], s[Max(T)], width, topN)
    BY <1>1, <2>3, <2>4, MaxOfSubset DEF Iterates
  <2>5. Def(it)
    BY <1>1, <2>3, <2>4 DEF Iterates
  <2> HIDE DEF Def
  <2> QED
    BY <2>5
<1> HIDE DEF fold
<1> DEFINE run == [k \in 0 .. m |-> fold[1 .. k]]
<1>5. run[0] = FirstBeams
  BY <1>1, <1>4, 1 .. 0 = {}
<1>6. ASSUME NEW k \in 1 .. m
      PROVE  run[k] = BeamStep(run[k - 1], s[k], width, topN)
  <2>1. /\ Max(1 .. k) = k /\ (1 .. k) \ {k} = 1 .. k - 1
        /\ 1 .. k # {} /\ 1 .. k \in SUBSET (1 .. m)
    BY <1>1, Prefix
  <2>2. fold[1 .. k] = BeamStep(fold[(1 .. k) \ {Max(1 .. k)}], s[Max(1 .. k)], width, topN)
    BY <1>1, <1>4, <2>1
  <2>3. k \in 0 .. m /\ k - 1 \in 0 .. m
    BY <1>1
  <2> QED
    BY <2>1, <2>2, <2>3
<1>7. run[m] = Beams(s, width, topN)
  BY <1>1, <1>2
<1>8. ASSUME NEW k \in Nat, k + 1 <= m, run[k] \in BeamSets
      PROVE  run[k + 1] \in BeamSets
  <2>1. k + 1 \in 1 .. m /\ (k + 1) - 1 = k /\ s[k + 1] \in ScoreRows
    BY <1>1, <1>8
  <2>2. run[k + 1] = BeamStep(run[k], s[k + 1], width, topN)
    BY <1>6, <2>1
  <2> HIDE DEF run
  <2> QED
    BY <1>8, <2>1, <2>2, BeamStepType
<1> HIDE DEF run
<1>9. run \in [0 .. m -> BeamSets]
  <2> DEFINE D == {k \in Nat : run[k] \in BeamSets}
  <2>1. 0 \in D
    BY <1>3, <1>5
  <2>2. \A k \in Nat : k + 1 <= m /\ k \in D => k + 1 \in D
    BY <1>8
  <2>3. 0 .. m \subseteq D
    <3> HIDE DEF D, m
    <3> QED
      BY <1>1, <2>1, <2>2, IntervalInduction
  <2> QED
    BY <2>3 DEF run
<1> QED
  BY <1>5, <1>6, <1>7, <1>9 DEF BeamRun

\* One beam with one class that it does not repeat stays one beam.
LEMMA OneBeam ==
  ASSUME NEW b \in BeamSet, NEW row \in ScoreRows, NEW width \in Nat \ {0},
         NEW c, c = ArgMax(row), c = 0 \/ c # b.prev
  PROVE  \E x \in BeamSet :
           /\ BeamStep({b}, row, width, 1) = {x}
           /\ x.prefix = IF c = 0 THEN b.prefix ELSE Append(b.prefix, c)
           /\ x.prev = IF c = 0 THEN -1 ELSE c
<1>1. c \in Nat /\ row[c + 1] \in Int /\ TopN(row, 1) = {c}
  BY ArgMaxIs, TopIsBest
<1> DEFINE S == Seq(Nat)
<1>2. b \in [prefix : S, score : Int, prev : Int]
  BY DEF BeamSet
<1> HIDE DEF S
<1>3. PICK x : x = IF c = 0 THEN [b EXCEPT !.score = @ + row[c + 1], !.prev = -1]
                   ELSE [prefix |-> Append(b.prefix, c), score |-> b.score + row[c + 1], prev |-> c]
  OBVIOUS
<1>4. Extend(b, c, row[c + 1]) = {x}
  BY <1>3 DEF Extend
<1>5. x \in BeamSet
  BY <1>1, <1>4, ExtendType
<1>6. /\ x.prefix = IF c = 0 THEN b.prefix ELSE Append(b.prefix, c)
      /\ x.prev = IF c = 0 THEN -1 ELSE c
  BY <1>2, <1>3
<1> DEFINE All(classes) == UNION {Extend(bb, cc, row[cc + 1]) : bb \in {b}, cc \in classes}
<1>7. All({c}) = {x}
  BY <1>4
<1>8. x.score \in Int
  BY <1>5 DEF BeamSet
<1>9. Merged({x}) = {x}
  BY <1>8 DEF Merged
<1>10. Widest({x}, width) = {x}
  <2>1. {y \in {x} : y.score > x.score} = {}
    BY <1>8
  <2>2. Cardinality({}) < width
    BY FS_EmptySet
  <2>3. \A z \in {x} : Cardinality({y \in {x} : y.score > z.score}) < width
    BY <2>1, <2>2
  <2> QED
    BY <2>3 DEF Widest
<1>11. BeamStep({b}, row, width, 1) = {x}
  <2>1. BeamStep({b}, row, width, 1) = Widest(Merged(All(TopN(row, 1))), width)
    BY DEF BeamStep
  <2> HIDE DEF All
  <2> QED
    BY <1>1, <1>7, <1>9, <1>10, <2>1
<1> QED
  BY <1>5, <1>6, <1>11

\* What a prefix has in the dictionary.
InDict(prefix, dict) == ElementsAt(prefix, {i \in DOMAIN prefix : prefix[i] <= dict})

LEMMA InDictAppend ==
  ASSUME NEW p \in Seq(Nat), NEW c \in Nat, NEW dict \in Int
  PROVE  /\ InDict(<<>>, dict) = <<>>
         /\ InDict(Append(p, c), dict) = IF c <= dict THEN Append(InDict(p, dict), c) ELSE InDict(p, dict)
<1> DEFINE In(q) == {i \in DOMAIN q : q[i] <= dict}
<1>1. PICK n \in Nat : n = Len(p) /\ DOMAIN p = 1 .. n
  OBVIOUS
<1>2. PICK q : q = Append(p, c)
  OBVIOUS
<1>3. /\ q \in Seq(Nat) /\ Len(q) = n + 1 /\ q[n + 1] = c /\ DOMAIN q = 1 .. n + 1
      /\ \A i \in 1 .. n : q[i] = p[i]
  BY <1>1, <1>2, AppendProperties
<1>4. \A i \in 1 .. n : i \in 1 .. n + 1
  OBVIOUS
<1>5. Pieces(q, In(q), n) = Pieces(p, In(p), n)
  <2>1. \A i \in 1 .. n : (i \in In(q) <=> i \in In(p)) /\ q[i] = p[i]
    BY <1>1, <1>3, <1>4
  <2> HIDE DEF In
  <2> QED
    BY <2>1 DEF Pieces
<1>6. Taken(q, In(q), n) = Taken(p, In(p), n)
  BY <1>5 DEF Taken
<1>7. n + 1 \in In(q) <=> c <= dict
  BY <1>3
<1>8. InDict(q, dict) = Taken(q, In(q), n + 1) /\ InDict(p, dict) = Taken(p, In(p), n)
  BY <1>1, <1>3, ElementsAtTaken DEF InDict
<1>9. InDict(<<>>, dict) = <<>>
  <2>1. <<>> \in Seq(Nat) /\ Len(<<>>) = 0
    OBVIOUS
  <2> QED
    BY <2>1, ElementsAtTaken, TakenNone DEF InDict
<1>10. Takes(q, In(q), n + 1) /\ (n + 1) - 1 = n
  <2> HIDE DEF In
  <2>1. n + 1 \in 1 .. Len(q)
    BY <1>3
  <2> QED
    BY <1>3, <2>1, TakenTakes
<1> HIDE DEF In
<1> QED
  BY <1>2, <1>3, <1>6, <1>7, <1>8, <1>9, <1>10 DEF Takes

NoRepeats(path) == \A t \in 2 .. Len(path) : ~(path[t] = path[t - 1] /\ path[t] # 0)

\* The one beam has read the path.
BeamReads(beams, path, dict, k) ==
  \E b \in BeamSet : /\ beams = {b}
                     /\ ReadSoFar(InDict(b.prefix, dict), b.prev, path, dict, k)

LEMMA BeamReadsPath ==
  ASSUME NEW rows \in Seq(ScoreRows), NEW dict \in Int, NEW width \in Nat \ {0},
         NEW path, path = BestPath(rows), NoRepeats(path)
  PROVE  BeamReads(Beams(rows, width, 1), path, dict, Len(rows))
<1>1. path \in Seq(Nat)
  BY BestPathIs
<1>2. PICK n \in Nat : n = Len(rows) /\ n = Len(path)
  BY BestPathIs
<1>3. PICK topN : topN = 1
  OBVIOUS
<1>4. PICK run \in [0 .. n -> BeamSets] : BeamRun(run, rows, width, topN)
  BY <1>2, BeamRuns
<1> DEFINE D == {k \in Nat : BeamReads(run[k], path, dict, k)}
<1>5. 0 \in D
  <2>1. PICK b : b = [prefix |-> <<>>, score |-> 0, prev |-> -1]
    OBVIOUS
  <2>2. run[0] = {b} /\ b \in BeamSet /\ b.prefix = <<>> /\ b.prev = -1
    <3>1. run[0] = {b}
      BY <1>4, <2>1 DEF BeamRun, FirstBeams
    <3>2. b \in BeamSet
      BY <2>1, FirstBeamsType DEF FirstBeams, BeamSets
    <3> QED
      BY <2>1, <3>1, <3>2
  <2>3. <<>> \in Seq(Nat) /\ 0 \in Nat
    OBVIOUS
  <2>4. InDict(b.prefix, dict) = <<>>
    BY <2>2, <2>3, InDictAppend
  <2>5. ReadSoFar(InDict(b.prefix, dict), b.prev, path, dict, 0)
    BY <2>2, <2>4, TakenNone DEF ReadSoFar, LastClass
  <2> QED
    BY <2>2, <2>5 DEF BeamReads
<1>6. ASSUME NEW k \in Nat, k + 1 <= n, k \in D
      PROVE  k + 1 \in D
  <2>1. k + 1 \in 1 .. n /\ (k + 1) - 1 = k /\ k \in 0 .. n
    BY <1>6
  <2>2. PICK c \in Nat : c = path[k + 1] /\ c = ArgMax(rows[k + 1]) /\ rows[k + 1] \in ScoreRows
    BY <1>1, <1>2, <2>1, BestPathIs
  <2>3. PICK b \in BeamSet :
          run[k] = {b} /\ ReadSoFar(InDict(b.prefix, dict), b.prev, path, dict, k)
    BY <1>6 DEF BeamReads
  <2>4. run[k + 1] = BeamStep({b}, rows[k + 1], width, 1)
    BY <1>2, <1>3, <1>4, <2>1, <2>3 DEF BeamRun
  <2>5. StepReads(InDict(b.prefix, dict), b.prev, path, dict, k, c)
    BY <1>1, <1>2, <2>1, <2>2, <2>3, PathStep
  <2>6. c = 0 \/ c # b.prev
    <3>1. c = b.prev /\ c # 0 => k # 0 /\ path[k] = c
      BY <2>5 DEF StepReads
    <3>2. k # 0 => k + 1 \in 2 .. Len(path)
      BY <1>2, <2>1
    <3> QED
      BY <2>1, <2>2, <3>1, <3>2 DEF NoRepeats
  <2>7. PICK x \in BeamSet :
          /\ run[k + 1] = {x}
          /\ x.prefix = IF c = 0 THEN b.prefix ELSE Append(b.prefix, c)
          /\ x.prev = IF c = 0 THEN -1 ELSE c
    BY <2>2, <2>3, <2>4, <2>6, OneBeam
  <2>8. PICK p \in Seq(Nat) : p = b.prefix
    BY DEF BeamSet
  <2>9. InDict(Append(p, c), dict) = IF c <= dict THEN Append(InDict(p, dict), c) ELSE InDict(p, dict)
    BY InDictAppend
  <2>10. ReadSoFar(InDict(x.prefix, dict), x.prev, path, dict, k + 1)
    BY <2>5, <2>6, <2>7, <2>8, <2>9 DEF StepReads, ReadSoFar
  <2> QED
    BY <2>7, <2>10 DEF BeamReads
<1>7. n \in D
  <2>1. n \in 0 .. n
    OBVIOUS
  <2> HIDE DEF D
  <2> QED
    BY <1>5, <1>6, <2>1, IntervalInduction
<1> QED
  BY <1>2, <1>3, <1>4, <1>7 DEF BeamRun

LEMMA BeamReturns ==
  ASSUME NEW rows \in Seq(ScoreRows), NEW dict \in Int, NEW width \in Nat \ {0},
         NoRepeats(BestPath(rows))
  PROVE  DecodeBeamFlat(rows, width, 1, dict) = {Collapse(BestPath(rows), dict)}
<1>1. PICK path \in Seq(Nat) : path = BestPath(rows) /\ Len(path) = Len(rows)
  BY BestPathIs
<1>2. PICK b \in BeamSet :
        /\ Beams(rows, width, 1) = {b}
        /\ ReadSoFar(InDict(b.prefix, dict), b.prev, path, dict, Len(rows))
  BY <1>1, BeamReadsPath DEF BeamReads
<1>3. b.score \in Int
  BY DEF BeamSet
<1>4. {x \in {b} : \A y \in {b} : y.score <= x.score} = {b}
  BY <1>3
<1>5. DecodeBeamFlat(rows, width, 1, dict) = {InDict(b.prefix, dict)}
  BY <1>2, <1>4 DEF DecodeBeamFlat, InDict
<1>6. Collapse(path, dict) = Taken(path, InText(path, dict), Len(rows))
  BY <1>1, ElementsAtTaken DEF Collapse, InText
<1> QED
  BY <1>1, <1>2, <1>5, <1>6 DEF ReadSoFar

CtcCall(c) == c.rows \in Seq(ScoreRows) /\ c.dict \in Int /\ c.width \in Nat \ {0}

(***************************************************************************)
(* For any scores of any number of classes over any number of steps:       *)
(* greedy decoding collapses the path of the best classes, and a beam that *)
(* considers one class finds the same text if no step repeats the one      *)
(* before it (DecodeFlat, DecodeBeamFlat).                                 *)
(***************************************************************************)
THEOREM EveryPathIsCollapsed ==
  ASSUME \A c \in Calls : c.of = "ctc" => CtcCall(c)
  PROVE  AlgSpec => []DecodersCollapseThePath
<1>1. ASSUME AlgInv, Answered("ctc")
      PROVE  DecodersCollapseThePath
  <2>1. PICK rows \in Seq(ScoreRows) : rows = call.rows
    BY <1>1 DEF AlgInv, Answered, CtcCall
  <2>2. PICK dict \in Int : dict = call.dict
    BY <1>1 DEF AlgInv, Answered, CtcCall
  <2>3. PICK width \in Nat \ {0} : width = call.width
    BY <1>1 DEF AlgInv, Answered, CtcCall
  <2>4. /\ answer.greedy = DecodeFlat(rows, dict)
        /\ answer.beam = DecodeBeamFlat(rows, width, call.topN, dict)
    BY <1>1, <2>1, <2>2, <2>3 DEF AlgInv, Answered, Result
  <2>5. PICK path \in Seq(Nat) : path = BestPath(rows)
    BY BestPathIs
  <2>6. answer.greedy = Collapse(path, dict)
    BY <2>4, <2>5, GreedyReads
  <2>7. call.topN = 1 /\ NoRepeats(path) => answer.beam = {Collapse(path, dict)}
    BY <2>4, <2>5, BeamReturns
  <2>8. ~(\E t \in 2 .. Len(path) : path[t] = path[t - 1] /\ path[t] # 0) => NoRepeats(path)
    BY DEF NoRepeats
  <2> QED
    BY <2>1, <2>2, <2>5, <2>6, <2>7, <2>8 DEF DecodersCollapseThePath
<1>2. AlgInv => DecodersCollapseThePath
  BY <1>1 DEF DecodersCollapseThePath
<1> QED
  BY <1>2, AlgInvHolds, PTL
-----------------------------------------------------------------------------
(* Recursive functions: the equation of a definition has a solution when    *)
(* what it says of an argument rests on the arguments of a lower rank.      *)

\* g and h are the same below the rank of s.
SameBelow(S, rank, s, g, h) == \A t \in S : rank[t] < rank[s] => g[t] = h[t]

\* The functions that satisfy the equation f[s] = G[<<s, f>>] up to rank n.
Solutions(S, A, rank, G, n) ==
  {f \in [S -> A] : \A s \in S : rank[s] < n => f[s] = G[<<s, f>>]}

LEMMA SolutionsAgree ==
  ASSUME NEW S, NEW A, NEW rank \in [S -> Nat], NEW G,
         \A s \in S : \A g, h \in [S -> A] :
           SameBelow(S, rank, s, g, h) => G[<<s, g>>] = G[<<s, h>>],
         NEW n \in Nat, NEW m \in Nat,
         NEW g \in Solutions(S, A, rank, G, n), NEW h \in Solutions(S, A, rank, G, m)
  PROVE  \A s \in S : rank[s] < n /\ rank[s] < m => g[s] = h[s]
<1> DEFINE D == {k \in Nat : \A s \in S : rank[s] < k /\ rank[s] < n /\ rank[s] < m => g[s] = h[s]}
<1>1. 0 \in D
  OBVIOUS
<1>2. ASSUME NEW k \in Nat, k \in D
      PROVE  k + 1 \in D
  <2> SUFFICES ASSUME NEW s \in S, rank[s] < k + 1, rank[s] < n, rank[s] < m
               PROVE  g[s] = h[s]
    OBVIOUS
  <2>1. SameBelow(S, rank, s, g, h)
    <3> SUFFICES ASSUME NEW t \in S, rank[t] < rank[s]
                 PROVE  g[t] = h[t]
      BY DEF SameBelow
    <3>1. rank[t] < k /\ rank[t] < n /\ rank[t] < m
      OBVIOUS
    <3> QED
      BY <1>2, <3>1
  <2>2. g \in [S -> A] /\ h \in [S -> A]
    BY DEF Solutions
  <2>3. g[s] = G[<<s, g>>] /\ h[s] = G[<<s, h>>]
    BY DEF Solutions
  <2> QED
    BY <2>1, <2>2, <2>3
<1>3. Nat \subseteq D
  <2> HIDE DEF D
  <2> QED
    BY <1>1, <1>2, NatSetInduction
<1> QED
  BY <1>3

LEMMA SolutionsExist ==
  ASSUME NEW S, NEW A, A # {}, NEW rank \in [S -> Nat], NEW G,
         \A s \in S : \A g \in [S -> A] : G[<<s, g>>] \in A,
         \A s \in S : \A g, h \in [S -> A] :
           SameBelow(S, rank, s, g, h) => G[<<s, g>>] = G[<<s, h>>]
  PROVE  \A n \in Nat : Solutions(S, A, rank, G, n) # {}
<1> DEFINE D == {n \in Nat : Solutions(S, A, rank, G, n) # {}}
<1>1. 0 \in D
  <2>1. PICK a \in A : TRUE
    OBVIOUS
  <2>2. [s \in S |-> a] \in Solutions(S, A, rank, G, 0)
    BY DEF Solutions
  <2> QED
    BY <2>2
<1>2. ASSUME NEW n \in Nat, n \in D
      PROVE  n + 1 \in D
  <2>1. PICK f : f \in Solutions(S, A, rank, G, n)
    BY <1>2
  <2>2. f \in [S -> A] /\ \A s \in S : rank[s] < n => f[s] = G[<<s, f>>]
    BY <2>1 DEF Solutions
  <2> DEFINE g == [s \in S |-> IF rank[s] = n THEN G[<<s, f>>] ELSE f[s]]
  <2>3. g \in [S -> A]
    BY <2>2
  <2>4. ASSUME NEW s \in S, rank[s] < n + 1
        PROVE  g[s] = G[<<s, g>>]
    <3>1. SameBelow(S, rank, s, f, g)
      BY <2>4 DEF SameBelow
    <3>2. g[s] = G[<<s, f>>]
      BY <2>2, <2>4
    <3> HIDE DEF g
    <3> QED
      BY <2>2, <2>3, <3>1, <3>2
  <2>5. g \in Solutions(S, A, rank, G, n + 1)
    <3> HIDE DEF g
    <3> QED
      BY <2>3, <2>4 DEF Solutions
  <2> QED
    BY <2>5
<1>3. Nat \subseteq D
  <2> HIDE DEF D
  <2> QED
    BY <1>1, <1>2, NatSetInduction
<1> QED
  BY <1>3

\* An equation that rests on lower ranks.
Ranked(S, A, rank, G) ==
  /\ A # {} /\ rank \in [S -> Nat]
  /\ \A s \in S : \A g \in [S -> A] : G[<<s, g>>] \in A
  /\ \A s \in S : \A g, h \in [S -> A] :
       SameBelow(S, rank, s, g, h) => G[<<s, g>>] = G[<<s, h>>]

LEMMA RankedRecursion ==
  ASSUME NEW S, NEW A, NEW rank, NEW G, Ranked(S, A, rank, G)
  PROVE  \E f \in [S -> A] : \A s \in S : f[s] = G[<<s, f>>]
<1> DEFINE Upto(s) == CHOOSE g : g \in Solutions(S, A, rank, G, rank[s] + 1)
           f == [s \in S |-> Upto(s)[s]]
<1>0. /\ A # {} /\ rank \in [S -> Nat]
      /\ \A s \in S : \A g \in [S -> A] : G[<<s, g>>] \in A
      /\ \A s \in S : \A g, h \in [S -> A] :
           SameBelow(S, rank, s, g, h) => G[<<s, g>>] = G[<<s, h>>]
  BY DEF Ranked
<1>5. \A n \in Nat : Solutions(S, A, rank, G, n) # {}
  BY <1>0, SolutionsExist
<1>1. ASSUME NEW s \in S
      PROVE  Upto(s) \in Solutions(S, A, rank, G, rank[s] + 1)
  <2>1. Solutions(S, A, rank, G, rank[s] + 1) # {}
    BY <1>5, <1>0, rank[s] + 1 \in Nat
  <2> QED
    BY <2>1
<1>2. ASSUME NEW s \in S
      PROVE  /\ Upto(s) \in [S -> A]
             /\ Upto(s)[s] = G[<<s, Upto(s)>>]
  <2>1. PICK g : g = Upto(s)
    OBVIOUS
  <2>2. g \in Solutions(S, A, rank, G, rank[s] + 1)
    BY <1>1, <2>1
  <2>3. rank[s] < rank[s] + 1
    BY <1>0
  <2> QED
    BY <2>1, <2>2, <2>3 DEF Solutions
<1> HIDE DEF Upto
<1>3. f \in [S -> A]
  BY <1>2
<1>4. ASSUME NEW s \in S
      PROVE  f[s] = G[<<s, f>>]
  <2>1. ASSUME NEW t \in S, rank[t] < rank[s]
        PROVE  f[t] = Upto(s)[t]
    <3>1. Upto(t) \in Solutions(S, A, rank, G, rank[t] + 1)
          /\ Upto(s) \in Solutions(S, A, rank, G, rank[s] + 1)
      BY <1>1
    <3>2. rank[t] + 1 \in Nat /\ rank[s] + 1 \in Nat /\ rank[t] < rank[t] + 1 /\ rank[t] < rank[s] + 1
      BY <1>0, <2>1
    <3>3. Upto(t)[t] = Upto(s)[t]
      BY <1>0, <3>1, <3>2, SolutionsAgree
    <3> QED
      BY <3>3
  <2>2. SameBelow(S, rank, s, f, Upto(s))
    BY <2>1 DEF SameBelow
  <2>3. f[s] = Upto(s)[s]
    OBVIOUS
  <2> HIDE DEF f
  <2> QED
    BY <1>2, <1>3, <1>0, <2>2, <2>3
<1> QED
  <2> HIDE DEF f
  <2> QED
    BY <1>3, <1>4
-----------------------------------------------------------------------------
(* Bytes.  The steps about large weights name their backend, because Zenon  *)
(* writes out a number digit by digit.                                      *)

Byte == {b \in Int : 0 <= b /\ b <= 255}

LEMMA ByteIs == Byte = 0 .. 255
<1>1. \A n \in Int : {b \in Int : 0 <= b /\ b <= n} = 0 .. n
  OBVIOUS
<1>2. PICK n \in Int : n = 255
  OBVIOUS
<1> QED
  BY <1>1, <1>2 DEF Byte

LEMMA DigitType == \A a, b \in Int : a * 256 + b \in Int
OBVIOUS

UnsignedRun(run, s) ==
  /\ run[0] = 0
  /\ \A k \in 1 .. Len(s) : run[k] = run[k - 1] * 256 + s[k]
  /\ run[Len(s)] = Unsigned(s)

LEMMA UnsignedRuns ==
  ASSUME NEW s \in Seq(Int)
  PROVE  \E run \in [0 .. Len(s) -> Int] : UnsignedRun(run, s)
<1> DEFINE F == [p \in Int \X Int |-> p[1] * 256 + p[2]]
           Def(it) == it = [T \in SUBSET DOMAIN s |->
                              IF T = {} THEN 0
                              ELSE it[T \ {Max(T)}] * 256 + s[Max(T)]]
           fold == CHOOSE it : Def(it)
           m == Len(s)
<1>1. DOMAIN s = 1 .. m /\ m \in Nat /\ s \in [1 .. m -> Int]
  OBVIOUS
<1>2. Unsigned(s) = fold[DOMAIN s]
  BY DEF Unsigned, FoldLeft, MapThenFoldSet
<1>3. 0 \in Int
  BY DigitType
<1>4. Def(fold)
  <2>1. F \in [Int \X Int -> Int]
    BY DigitType
  <2>2. \E it \in [SUBSET (1 .. m) -> Int] : Iterates(it, F, 0, s, m)
    <3> HIDE DEF F, Def, m
    <3> QED
      BY <1>1, <1>3, <2>1, FoldExists
  <2>3. PICK it \in [SUBSET (1 .. m) -> Int] : Iterates(it, F, 0, s, m)
    BY <2>2
  <2>4. ASSUME NEW T \in SUBSET (1 .. m), T # {}
        PROVE  it[T] = it[T \ {Max(T)}] * 256 + s[Max(T)]
    <3>1. Max(T) \in 1 .. m /\ T \ {Max(T)} \in SUBSET (1 .. m)
      BY <1>1, <2>4, MaxOfSubset
    <3>2. PICK a \in Int : a = it[T \ {Max(T)}]
      BY <2>3, <3>1
    <3>3. PICK b \in Int : b = s[Max(T)]
      BY <1>1, <3>1
    <3>4. it[T] = F[<<a, b>>]
      <4> HIDE DEF F
      <4> QED
        BY <2>3, <2>4, <3>2, <3>3 DEF Iterates
    <3> QED
      BY <3>2, <3>3, <3>4
  <2>5. Def(it)
    BY <1>1, <2>3, <2>4, ZenonT(60) DEF Iterates
  <2> HIDE DEF Def
  <2> QED
    BY <2>5
<1> HIDE DEF fold
<1> DEFINE run == [k \in 0 .. m |-> fold[1 .. k]]
<1>5. run[0] = 0
  BY <1>1, <1>4, 1 .. 0 = {}
<1>6. ASSUME NEW k \in 1 .. m
      PROVE  run[k] = run[k - 1] * 256 + s[k]
  <2>1. /\ Max(1 .. k) = k /\ (1 .. k) \ {k} = 1 .. k - 1
        /\ 1 .. k # {} /\ 1 .. k \in SUBSET (1 .. m)
    BY <1>1, Prefix
  <2>2. fold[1 .. k] = fold[(1 .. k) \ {Max(1 .. k)}] * 256 + s[Max(1 .. k)]
    BY <1>1, <1>4, <2>1
  <2>3. k \in 0 .. m /\ k - 1 \in 0 .. m
    BY <1>1
  <2> QED
    BY <2>1, <2>2, <2>3
<1>7. run[m] = Unsigned(s)
  BY <1>1, <1>2
<1>8. ASSUME NEW k \in Nat, k + 1 <= m, run[k] \in Int
      PROVE  run[k + 1] \in Int
  <2>1. k + 1 \in 1 .. m /\ (k + 1) - 1 = k /\ s[k + 1] \in Int
    BY <1>1, <1>8
  <2>2. run[k + 1] = run[k] * 256 + s[k + 1]
    BY <1>6, <2>1
  <2> HIDE DEF run
  <2> QED
    BY <1>8, <2>1, <2>2, DigitType
<1> HIDE DEF run
<1>9. run \in [0 .. m -> Int]
  <2> DEFINE D == {k \in Nat : run[k] \in Int}
  <2>1. 0 \in D
    BY <1>3, <1>5
  <2>2. \A k \in Nat : k + 1 <= m /\ k \in D => k + 1 \in D
    BY <1>8
  <2>3. 0 .. m \subseteq D
    <3> HIDE DEF D, m
    <3> QED
      BY <1>1, <2>1, <2>2, IntervalInduction
  <2> QED
    BY <2>3 DEF run
<1> QED
  BY <1>5, <1>6, <1>7, <1>9 DEF UnsignedRun

LEMMA UnsignedIsNat ==
  ASSUME NEW s \in Seq(Nat)
  PROVE  Unsigned(s) \in Nat
<1>1. s \in Seq(Int) /\ Len(s) \in Nat /\ \A i \in 1 .. Len(s) : s[i] \in Nat
  OBVIOUS
<1>2. PICK run \in [0 .. Len(s) -> Int] : UnsignedRun(run, s)
  BY <1>1, UnsignedRuns
<1> DEFINE D == {k \in Nat : k <= Len(s) => run[k] \in Nat}
<1>3. 0 \in D
  BY <1>2 DEF UnsignedRun
<1>4. ASSUME NEW k \in Nat, k + 1 <= Len(s), k \in D
      PROVE  k + 1 \in D
  <2>1. k + 1 \in 1 .. Len(s) /\ (k + 1) - 1 = k /\ run[k] \in Nat /\ s[k + 1] \in Nat
    BY <1>1, <1>4
  <2>2. run[k + 1] = run[k] * 256 + s[k + 1]
    BY <1>2, <2>1 DEF UnsignedRun
  <2> QED
    BY <2>1, <2>2
<1>5. 0 .. Len(s) \subseteq D
  <2> HIDE DEF D
  <2> QED
    BY <1>1, <1>3, <1>4, IntervalInduction
<1>6. run[Len(s)] \in Nat
  BY <1>1, <1>5
<1> QED
  BY <1>2, <1>6 DEF UnsignedRun

\* The value of two and of four bytes.
LEMMA UnsignedShort ==
  ASSUME NEW s \in Seq(Int)
  PROVE  /\ Len(s) = 2 => Unsigned(s) = s[1] * 256 + s[2]
         /\ Len(s) = 4 =>
              Unsigned(s) = ((s[1] * 256 + s[2]) * 256 + s[3]) * 256 + s[4]
<1>1. PICK run \in [0 .. Len(s) -> Int] : UnsignedRun(run, s)
  BY UnsignedRuns
<1>2. /\ run[0] = 0 /\ run[Len(s)] = Unsigned(s)
      /\ \A k \in 1 .. Len(s) : run[k] = run[k - 1] * 256 + s[k]
  BY <1>1 DEF UnsignedRun
<1>3. ASSUME Len(s) = 2
      PROVE  Unsigned(s) = s[1] * 256 + s[2]
  <2>1. s[1] \in Int /\ s[2] \in Int
    <3>1. \A i \in 1 .. Len(s) : s[i] \in Int
      OBVIOUS
    <3> QED
      BY <1>3, <3>1
  <2>2. run[1] = 0 * 256 + s[1] /\ run[2] = run[1] * 256 + s[2]
    BY <1>2, <1>3
  <2> QED
    BY <1>2, <1>3, <2>1, <2>2
<1>4. ASSUME Len(s) = 4
      PROVE  Unsigned(s) = ((s[1] * 256 + s[2]) * 256 + s[3]) * 256 + s[4]
  <2>1. s[1] \in Int /\ s[2] \in Int /\ s[3] \in Int /\ s[4] \in Int
    <3>1. \A i \in 1 .. Len(s) : s[i] \in Int
      OBVIOUS
    <3> QED
      BY <1>4, <3>1
  <2>2. /\ run[1] = 0 * 256 + s[1] /\ run[2] = run[1] * 256 + s[2]
        /\ run[3] = run[2] * 256 + s[3] /\ run[4] = run[3] * 256 + s[4]
    BY <1>2, <1>4
  <2> QED
    BY <1>2, <1>4, <2>1, <2>2
<1> QED
  BY <1>3, <1>4

LEMMA Div256 ==
  ASSUME NEW v \in Int
  PROVE  v \div 256 \in Int /\ v % 256 \in Byte /\ v = 256 * (v \div 256) + (v % 256)
BY DEF Byte

\* The bytes of a number, by its repeated division.
Quotients(v, q, r, t) == q = v \div 256 /\ r = q \div 256 /\ t = r \div 256

LEMMA QuotientsExist ==
  ASSUME NEW v \in Int
  PROVE  \E q, r, t \in Int : Quotients(v, q, r, t)
<1>1. PICK q \in Int : q = v \div 256
  BY Div256
<1>2. PICK r \in Int : r = q \div 256
  BY Div256
<1>3. PICK t \in Int : t = r \div 256
  BY Div256
<1> QED
  BY <1>1, <1>2, <1>3 DEF Quotients

LEMMA ByteOfIs ==
  ASSUME NEW v \in Int, NEW q \in Int, NEW r \in Int, NEW t \in Int,
         Quotients(v, q, r, t)
  PROVE  /\ ByteOf(v, 0) = v % 256
         /\ ByteOf(v, 1) = q % 256
         /\ ByteOf(v, 2) = r % 256
         /\ ByteOf(v, 3) = t % 256
<1>1. /\ ByteOf(v, 0) = (v \div (256 ^ 0)) % 256
      /\ ByteOf(v, 1) = (v \div (256 ^ 1)) % 256
      /\ ByteOf(v, 2) = (v \div (256 ^ 2)) % 256
      /\ ByteOf(v, 3) = (v \div (256 ^ 3)) % 256
  BY SMT DEF ByteOf
<1>2. 256 ^ 0 = 1 /\ 256 ^ 1 = 256 /\ 256 ^ 2 = 65536 /\ 256 ^ 3 = 16777216
  BY SMT
<1>3. /\ v \div 1 = v
      /\ v \div 65536 = (v \div 256) \div 256
      /\ v \div 16777216 = (v \div 65536) \div 256
  BY SMT
<1> QED
  BY <1>1, <1>2, <1>3, SMT DEF Quotients

LEMMA BytesAreNumbers ==
  ASSUME NEW s \in Seq(Byte)
  PROVE  s \in Seq(Nat) /\ s \in Seq(Int)
<1>1. \A i \in 1 .. Len(s) : s[i] \in Byte
  OBVIOUS
<1>2. \A i \in 1 .. Len(s) : s[i] \in Nat /\ s[i] \in Int
  BY <1>1 DEF Byte
<1>3. DOMAIN s = 1 .. Len(s) /\ Len(s) \in Nat /\ s = [i \in 1 .. Len(s) |-> s[i]]
  OBVIOUS
<1> QED
  BY <1>2, <1>3

LEMMA BigEndianType ==
  ASSUME NEW v \in Int, NEW width \in Nat
  PROVE  BigEndian(width, v) \in Seq(Byte) /\ Len(BigEndian(width, v)) = width
<1>1. ASSUME NEW k \in Nat
      PROVE  ByteOf(v, k) \in Byte
  <2>1. CASE k >= 4
    BY <2>1 DEF ByteOf, Byte
  <2>2. CASE k < 4
    <3>1. k \in {0, 1, 2, 3}
      BY <2>2
    <3>2. PICK q, r, t \in Int : Quotients(v, q, r, t)
      BY QuotientsExist
    <3>3. \A x \in Int : x % 256 \in Byte
      BY Div256
    <3>4. ByteOf(v, 0) \in Byte /\ ByteOf(v, 1) \in Byte /\ ByteOf(v, 2) \in Byte /\ ByteOf(v, 3) \in Byte
      BY <3>2, <3>3, ByteOfIs
    <3> QED
      BY <3>1, <3>4
  <2> QED
    BY <2>1, <2>2
<1>2. \A i \in 1 .. width : width - i \in Nat
  OBVIOUS
<1>3. BigEndian(width, v) \in [1 .. width -> Byte]
  BY <1>1, <1>2 DEF BigEndian
<1> QED
  BY <1>3

LEMMA ShortBytes ==
  ASSUME NEW v \in Int, NEW q \in Int, NEW r \in Int, NEW t \in Int,
         Quotients(v, q, r, t)
  PROVE  /\ BigEndian(2, v)[1] = q % 256 /\ BigEndian(2, v)[2] = v % 256
         /\ BigEndian(4, v)[1] = t % 256 /\ BigEndian(4, v)[2] = r % 256
         /\ BigEndian(4, v)[3] = q % 256 /\ BigEndian(4, v)[4] = v % 256
<1>1. \A i \in 1 .. 2 : BigEndian(2, v)[i] = ByteOf(v, 2 - i)
  BY DEF BigEndian
<1>2. \A i \in 1 .. 4 : BigEndian(4, v)[i] = ByteOf(v, 4 - i)
  BY DEF BigEndian
<1>3. /\ BigEndian(2, v)[1] = ByteOf(v, 1) /\ BigEndian(2, v)[2] = ByteOf(v, 0)
      /\ BigEndian(4, v)[1] = ByteOf(v, 3) /\ BigEndian(4, v)[2] = ByteOf(v, 2)
      /\ BigEndian(4, v)[3] = ByteOf(v, 1) /\ BigEndian(4, v)[4] = ByteOf(v, 0)
  BY <1>1, <1>2
<1> QED
  BY <1>3, ByteOfIs

U16 == {n \in Int : 0 <= n /\ n <= 65535}
I16 == {n \in Int : -32768 <= n /\ n <= 32767}
U32 == {n \in Int : 0 <= n /\ n <= 4294967295}
I32 == {n \in Int : -2147483648 <= n /\ n <= 2147483647}

LEMMA UnsignedReads ==
  /\ \A v \in U16 : Unsigned(BigEndian(2, v)) = v
  /\ \A v \in U32 : Unsigned(BigEndian(4, v)) = v
<1>1. ASSUME NEW v \in U16
      PROVE  Unsigned(BigEndian(2, v)) = v
  <2>1. v \in Int
    BY SMT DEF U16
  <2>2. PICK q, r, t \in Int : Quotients(v, q, r, t)
    BY <2>1, QuotientsExist
  <2>3. PICK b : b = BigEndian(2, v)
    OBVIOUS
  <2>4. b \in Seq(Int) /\ Len(b) = 2
    BY <2>1, <2>3, BigEndianType, BytesAreNumbers
  <2>5. Unsigned(b) = b[1] * 256 + b[2]
    BY <2>4, UnsignedShort
  <2>6. b[1] = q % 256 /\ b[2] = v % 256
    BY <2>1, <2>2, <2>3, ShortBytes
  <2>7. (q % 256) * 256 + (v % 256) = v
    BY <2>1, <2>2, SMT DEF U16, Quotients
  <2> QED
    BY <2>3, <2>5, <2>6, <2>7
<1>2. ASSUME NEW v \in U32
      PROVE  Unsigned(BigEndian(4, v)) = v
  <2>1. v \in Int
    BY SMT DEF U32
  <2>2. PICK q, r, t \in Int : Quotients(v, q, r, t)
    BY <2>1, QuotientsExist
  <2>3. PICK b : b = BigEndian(4, v)
    OBVIOUS
  <2>4. b \in Seq(Int) /\ Len(b) = 4
    BY <2>1, <2>3, BigEndianType, BytesAreNumbers
  <2>5. Unsigned(b) = ((b[1] * 256 + b[2]) * 256 + b[3]) * 256 + b[4]
    BY <2>4, UnsignedShort
  <2>6. b[1] = t % 256 /\ b[2] = r % 256 /\ b[3] = q % 256 /\ b[4] = v % 256
    BY <2>1, <2>2, <2>3, ShortBytes
  <2>7. 0 <= t /\ t <= 255
    BY <2>2, SMT DEF U32, Quotients
  <2>8. /\ t % 256 = t /\ t * 256 + (r % 256) = r
        /\ r * 256 + (q % 256) = q /\ q * 256 + (v % 256) = v
    BY <2>1, <2>2, <2>7, SMT DEF Quotients
  <2>9. (((t % 256) * 256 + (r % 256)) * 256 + (q % 256)) * 256 + (v % 256) = v
    BY <2>8
  <2> QED
    BY <2>3, <2>5, <2>6, <2>9
<1> QED
  BY <1>1, <1>2

\* The bytes of a negative number without what its sign adds to each.
Less(s) == [i \in DOMAIN s |-> s[i] - 255]

LEMMA SignedIs ==
  ASSUME NEW s \in Seq(Int), s # <<>>
  PROVE  Signed(s) = IF s[1] >= 128 THEN Unsigned(Less(s)) - 1
                     ELSE Unsigned(s)
BY DEF Signed, Less

LEMMA LessEach ==
  ASSUME NEW s \in Seq(Int)
  PROVE  /\ Less(s) \in Seq(Int) /\ Len(Less(s)) = Len(s)
         /\ \A i \in 1 .. Len(s) : Less(s)[i] = s[i] - 255
<1>1. DOMAIN s = 1 .. Len(s) /\ Len(s) \in Nat /\ \A i \in 1 .. Len(s) : s[i] - 255 \in Int
  OBVIOUS
<1>2. Less(s) \in [1 .. Len(s) -> Int]
  BY <1>1 DEF Less
<1> QED
  BY <1>1, <1>2 DEF Less

LEMMA SignedReads2 ==
  ASSUME NEW v \in I16
  PROVE  Signed(BigEndian(2, v)) = v
<1>1. v \in Int
  BY SMT DEF I16
<1>2. PICK q, r, t \in Int : Quotients(v, q, r, t)
  BY <1>1, QuotientsExist
<1>3. PICK s : s = BigEndian(2, v)
  OBVIOUS
<1>4. s \in Seq(Int) /\ Len(s) = 2 /\ s # <<>>
  <2>1. s \in Seq(Int) /\ Len(s) = 2
    BY <1>1, <1>3, BigEndianType, BytesAreNumbers
  <2>2. s = <<>> => Len(s) = 0
    OBVIOUS
  <2> QED
    BY <2>1, <2>2
<1>5. s[1] = q % 256 /\ s[2] = v % 256
  BY <1>1, <1>2, <1>3, ShortBytes
<1>6. -128 <= q /\ q <= 127
  BY <1>2, SMT DEF I16, Quotients
<1>7. q * 256 + (v % 256) = v
  BY <1>1, <1>2, SMT DEF Quotients
<1>8. CASE q >= 0
  <2>1. q % 256 = q
    BY <1>6, <1>8, SMT
  <2>2. ~(s[1] >= 128)
    BY <1>5, <1>6, <2>1
  <2>3. Unsigned(s) = s[1] * 256 + s[2]
    BY <1>4, UnsignedShort
  <2> QED
    BY <1>3, <1>4, <1>5, <1>7, <2>1, <2>2, <2>3, SignedIs, SMTT(60)
<1>9. CASE q < 0
  <2>1. q % 256 = q + 256
    BY <1>6, <1>9, SMT
  <2>2. s[1] >= 128
    BY <1>5, <1>6, <2>1
  <2>3. PICK u : u = Less(s)
    OBVIOUS
  <2>4. u \in Seq(Int) /\ Len(u) = 2 /\ u[1] = s[1] - 255 /\ u[2] = s[2] - 255
    <3>1. u \in Seq(Int) /\ Len(u) = Len(s) /\ \A i \in 1 .. Len(s) : u[i] = s[i] - 255
      <4>1. s \in Seq(Int)
        BY <1>4
      <4>2. /\ Less(s) \in Seq(Int) /\ Len(Less(s)) = Len(s)
            /\ \A i \in 1 .. Len(s) : Less(s)[i] = s[i] - 255
        BY <4>1, LessEach
      <4> QED
        BY <2>3, <4>2
    <3>2. \A i \in 1 .. 2 : i \in 1 .. Len(s)
      BY <1>4
    <3> QED
      BY <1>4, <3>1, <3>2
  <2>5. Unsigned(u) = u[1] * 256 + u[2]
    BY <2>4, UnsignedShort
  <2>6. Signed(s) = Unsigned(u) - 1
    BY <1>4, <2>2, <2>3, SignedIs
  <2>7. PICK z \in Int : z = v % 256
    BY <1>1
  <2>8. u[1] = q + 1 /\ u[2] = z - 255
    BY <1>5, <2>1, <2>4, <2>7
  <2>9. (q + 1) * 256 + (z - 255) - 1 = v
    BY <1>1, <1>7, <2>7, SMT
  <2> QED
    BY <1>3, <2>5, <2>6, <2>8, <2>9
<1> QED
  BY <1>8, <1>9

LEMMA SignedReads4 ==
  ASSUME NEW v \in I32
  PROVE  Signed(BigEndian(4, v)) = v
<1>1. v \in Int
  BY SMT DEF I32
<1>2. PICK q, r, t \in Int : Quotients(v, q, r, t)
  BY <1>1, QuotientsExist
<1>3. PICK s : s = BigEndian(4, v)
  OBVIOUS
<1>4. s \in Seq(Int) /\ Len(s) = 4 /\ s # <<>>
  <2>1. s \in Seq(Int) /\ Len(s) = 4
    BY <1>1, <1>3, BigEndianType, BytesAreNumbers
  <2>2. s = <<>> => Len(s) = 0
    OBVIOUS
  <2> QED
    BY <2>1, <2>2
<1>5. s[1] = t % 256 /\ s[2] = r % 256 /\ s[3] = q % 256 /\ s[4] = v % 256
  BY <1>1, <1>2, <1>3, ShortBytes
<1>6. -128 <= t /\ t <= 127
  BY <1>2, SMT DEF I32, Quotients
<1>7. t * 256 + (r % 256) = r /\ r * 256 + (q % 256) = q /\ q * 256 + (v % 256) = v
  BY <1>1, <1>2, SMT DEF Quotients
<1>8. CASE t >= 0
  <2>1. t % 256 = t
    BY <1>6, <1>8, SMT
  <2>2. ~(s[1] >= 128)
    BY <1>5, <1>6, <2>1
  <2>3. Unsigned(s) = ((s[1] * 256 + s[2]) * 256 + s[3]) * 256 + s[4]
    BY <1>4, UnsignedShort
  <2>4. Signed(s) = Unsigned(s)
    BY <1>4, <2>2, SignedIs
  <2>5. PICK x, y, z \in Int : x = r % 256 /\ y = q % 256 /\ z = v % 256
    BY <1>1
  <2>6. ((t * 256 + x) * 256 + y) * 256 + z = v
    BY <1>7, <2>5
  <2> QED
    BY <1>3, <1>5, <2>1, <2>3, <2>4, <2>5, <2>6
<1>9. CASE t < 0
  <2>1. t % 256 = t + 256
    BY <1>6, <1>9, SMT
  <2>2. s[1] >= 128
    BY <1>5, <1>6, <2>1
  <2>3. PICK u : u = Less(s)
    OBVIOUS
  <2>4. /\ u \in Seq(Int) /\ Len(u) = 4 /\ u[1] = s[1] - 255 /\ u[2] = s[2] - 255
        /\ u[3] = s[3] - 255 /\ u[4] = s[4] - 255
    <3>1. u \in Seq(Int) /\ Len(u) = Len(s) /\ \A i \in 1 .. Len(s) : u[i] = s[i] - 255
      <4>1. s \in Seq(Int)
        BY <1>4
      <4>2. /\ Less(s) \in Seq(Int) /\ Len(Less(s)) = Len(s)
            /\ \A i \in 1 .. Len(s) : Less(s)[i] = s[i] - 255
        BY <4>1, LessEach
      <4> QED
        BY <2>3, <4>2
    <3>2. \A i \in 1 .. 4 : i \in 1 .. Len(s)
      BY <1>4
    <3> QED
      BY <1>4, <3>1, <3>2
  <2>5. Unsigned(u) = ((u[1] * 256 + u[2]) * 256 + u[3]) * 256 + u[4]
    BY <2>4, UnsignedShort, SMTT(60)
  <2>6. Signed(s) = Unsigned(u) - 1
    BY <1>4, <2>2, <2>3, SignedIs
  <2>7. PICK x, y, z \in Int : x = r % 256 /\ y = q % 256 /\ z = v % 256
    BY <1>1
  <2>8. u[1] = t + 1 /\ u[2] = x - 255 /\ u[3] = y - 255 /\ u[4] = z - 255
    BY <1>5, <2>1, <2>4, <2>7
  <2>9. (((t + 1) * 256 + (x - 255)) * 256 + (y - 255)) * 256 + (z - 255) - 1 = v
    BY <1>1, <1>7, <2>7, SMT
  <2> QED
    BY <1>3, <2>5, <2>6, <2>8, <2>9
<1> QED
  BY <1>8, <1>9

LEMMA UnsignedZeros ==
  ASSUME NEW s \in Seq(Int), \A i \in 1 .. Len(s) : s[i] = 0
  PROVE  Unsigned(s) = 0
<1>1. PICK run \in [0 .. Len(s) -> Int] : UnsignedRun(run, s)
  BY UnsignedRuns
<1> DEFINE D == {k \in Nat : k <= Len(s) => run[k] = 0}
<1>2. 0 \in D
  BY <1>1 DEF UnsignedRun
<1>3. ASSUME NEW k \in Nat, k + 1 <= Len(s), k \in D
      PROVE  k + 1 \in D
  <2>1. k + 1 \in 1 .. Len(s) /\ (k + 1) - 1 = k /\ run[k] = 0 /\ s[k + 1] = 0
    BY <1>3
  <2>2. run[k + 1] = run[k] * 256 + s[k + 1]
    BY <1>1, <2>1 DEF UnsignedRun
  <2> QED
    BY <2>1, <2>2
<1>4. 0 .. Len(s) \subseteq D
  <2> HIDE DEF D
  <2> QED
    BY <1>2, <1>3, IntervalInduction, Len(s) \in Nat
<1>5. run[Len(s)] = 0
  BY <1>4
<1> QED
  BY <1>1, <1>5 DEF UnsignedRun

LEMMA NoPointer == Signed(BigEndian(8, -1)) = -1
<1>0. PICK v \in Int : v = -1
  OBVIOUS
<1>1. PICK s : s = BigEndian(8, v)
  OBVIOUS
<1>2. s \in Seq(Int) /\ Len(s) = 8
  BY <1>1, BigEndianType, BytesAreNumbers
<1>3. ASSUME NEW k \in 0 .. 7
      PROVE  ByteOf(v, k) = 255
  <2>1. CASE k >= 4
    BY <1>0, <2>1, SMT DEF ByteOf
  <2>2. CASE k < 4
    <3>1. Quotients(v, v, v, v) /\ v % 256 = 255
      <4>1. PICK q, r \in Int : q = v \div 256 /\ r = v % 256
        BY Div256
      <4>2. v = 256 * q + r /\ 0 <= r /\ r <= 255
        BY <4>1, Div256 DEF Byte
      <4>3. q = -1 /\ r = 255
        BY <1>0, <4>2
      <4> QED
        BY <1>0, <4>1, <4>3 DEF Quotients
    <3>2. /\ ByteOf(v, 0) = v % 256 /\ ByteOf(v, 1) = v % 256
          /\ ByteOf(v, 2) = v % 256 /\ ByteOf(v, 3) = v % 256
      BY <3>1, ByteOfIs
    <3>3. k = 0 \/ k = 1 \/ k = 2 \/ k = 3
      BY <2>2
    <3> QED
      BY <3>1, <3>2, <3>3
  <2> QED
    BY <2>1, <2>2
<1>4. \A i \in 1 .. 8 : s[i] = 255
  <2>1. \A i \in 1 .. 8 : s[i] = ByteOf(v, 8 - i)
    BY <1>1 DEF BigEndian
  <2>2. \A i \in 1 .. 8 : 8 - i \in 0 .. 7
    OBVIOUS
  <2> QED
    BY <1>3, <2>1, <2>2
<1>5. Len(Less(s)) = 8 /\ Less(s) \in Seq(Int)
  BY <1>2, LessEach
<1>6. ASSUME NEW i \in 1 .. Len(Less(s))
      PROVE  Less(s)[i] = 0
  <2>1. i \in 1 .. 8 /\ i \in 1 .. Len(s)
    BY <1>2, <1>5
  <2>2. Less(s)[i] = s[i] - 255
    BY <1>2, <2>1, LessEach
  <2> QED
    BY <1>4, <2>1, <2>2
<1>7. Unsigned(Less(s)) = 0
  BY <1>5, <1>6, UnsignedZeros
<1>8. s # <<>> /\ s[1] = 255
  <2>1. s = <<>> => Len(s) = 0
    OBVIOUS
  <2>2. 1 \in 1 .. 8
    OBVIOUS
  <2> QED
    BY <1>2, <1>4, <2>1, <2>2
<1>9. Signed(s) = Unsigned(Less(s)) - 1
  BY <1>2, <1>8, SignedIs
<1> QED
  BY <1>0, <1>1, <1>7, <1>9

\* Behind its first n bytes t goes on with p.
Holds(t, n, p) ==
  /\ t \in Seq(Byte) /\ n \in Nat /\ p \in Seq(Byte)
  /\ n + Len(p) <= Len(t) /\ \A k \in 1 .. Len(p) : t[n + k] = p[k]

LEMMA TwoParts ==
  ASSUME NEW a \in Seq(Byte), NEW b \in Seq(Byte)
  PROVE  /\ a \o b \in Seq(Byte) /\ Len(a \o b) = Len(a) + Len(b)
         /\ Holds(a \o b, 0, a) /\ Holds(a \o b, Len(a), b)
<1>1. a \o b \in Seq(Byte) /\ Len(a \o b) = Len(a) + Len(b)
  OBVIOUS
<1>2. \A k \in 1 .. Len(a) : (a \o b)[0 + k] = a[k]
  OBVIOUS
<1>3. \A k \in 1 .. Len(b) : (a \o b)[Len(a) + k] = b[k]
  OBVIOUS
<1>4. Len(a) \in Nat /\ Len(b) \in Nat
  OBVIOUS
<1> QED
  BY <1>1, <1>2, <1>3, <1>4 DEF Holds

LEMMA HoldsPart ==
  ASSUME NEW t \in Seq(Byte), NEW p \in Seq(Byte), NEW q \in Seq(Byte),
         NEW n \in Nat, NEW k \in Nat, Holds(t, n, p), Holds(p, k, q)
  PROVE  Holds(t, n + k, q)
<1>1. n + k + Len(q) <= Len(t)
  BY DEF Holds
<1>2. ASSUME NEW i \in 1 .. Len(q)
      PROVE  t[n + k + i] = q[i]
  <2>1. k + i \in 1 .. Len(p) /\ n + (k + i) = n + k + i
    BY DEF Holds
  <2>2. t[n + (k + i)] = p[k + i]
    BY <2>1 DEF Holds
  <2>3. p[k + i] = q[i]
    BY DEF Holds
  <2> QED
    BY <2>1, <2>2, <2>3
<1> QED
  BY <1>1, <1>2 DEF Holds

\* t is the parts a, b and c (and d), one behind the other.
Joined3(t, a, b, c) ==
  /\ t \in Seq(Byte) /\ Len(t) = Len(a) + Len(b) + Len(c)
  /\ Holds(t, 0, a) /\ Holds(t, Len(a), b) /\ Holds(t, Len(a) + Len(b), c)

Joined4(t, a, b, c, d) ==
  /\ t \in Seq(Byte) /\ Len(t) = Len(a) + Len(b) + Len(c) + Len(d)
  /\ Holds(t, 0, a) /\ Holds(t, Len(a), b) /\ Holds(t, Len(a) + Len(b), c)
  /\ Holds(t, Len(a) + Len(b) + Len(c), d)

LEMMA ThreeParts ==
  ASSUME NEW a \in Seq(Byte), NEW b \in Seq(Byte), NEW c \in Seq(Byte)
  PROVE  Joined3(a \o b \o c, a, b, c)
<1> DEFINE t == a \o b \o c
<1>1. PICK d : d = a \o b
  OBVIOUS
<1>2. /\ d \in Seq(Byte) /\ Len(d) = Len(a) + Len(b)
      /\ Holds(d, 0, a) /\ Holds(d, Len(a), b)
  BY <1>1, TwoParts
<1>3. /\ t \in Seq(Byte) /\ Len(t) = Len(d) + Len(c)
      /\ Holds(t, 0, d) /\ Holds(t, Len(d), c)
  BY <1>1, <1>2, TwoParts
<1>4. Len(a) \in Nat /\ Len(b) \in Nat /\ Len(c) \in Nat
  OBVIOUS
<1>5. Holds(t, 0 + 0, a) /\ Holds(t, 0 + Len(a), b)
  BY <1>2, <1>3, <1>4, HoldsPart
<1> HIDE DEF t
<1>6. Joined3(t, a, b, c)
  BY <1>2, <1>3, <1>4, <1>5 DEF Joined3
<1> QED
  BY <1>6 DEF t

LEMMA FourParts ==
  ASSUME NEW a \in Seq(Byte), NEW b \in Seq(Byte), NEW c \in Seq(Byte), NEW d \in Seq(Byte)
  PROVE  Joined4(a \o b \o c \o d, a, b, c, d)
<1> DEFINE t == a \o b \o c \o d
<1>1. PICK e : e = a \o b \o c
  OBVIOUS
<1>2. Joined3(e, a, b, c)
  BY <1>1, ThreeParts
<1>3. /\ e \in Seq(Byte) /\ Len(e) = Len(a) + Len(b) + Len(c)
      /\ Holds(e, 0, a) /\ Holds(e, Len(a), b) /\ Holds(e, Len(a) + Len(b), c)
  BY <1>2 DEF Joined3
<1>4. /\ t \in Seq(Byte) /\ Len(t) = Len(e) + Len(d)
      /\ Holds(t, 0, e) /\ Holds(t, Len(e), d)
  BY <1>1, <1>3, TwoParts
<1>5. Len(a) \in Nat /\ Len(b) \in Nat /\ Len(c) \in Nat /\ Len(d) \in Nat
      /\ Len(a) + Len(b) \in Nat
  OBVIOUS
<1> HIDE DEF t
<1>6. Holds(t, 0 + 0, a) /\ Holds(t, 0 + Len(a), b) /\ Holds(t, 0 + (Len(a) + Len(b)), c)
  BY <1>3, <1>4, <1>5, HoldsPart
<1>7. Joined4(t, a, b, c, d)
  BY <1>3, <1>4, <1>5, <1>6 DEF Joined4
<1> QED
  BY <1>7 DEF t

LEMMA HoldsCut ==
  ASSUME NEW t \in Seq(Byte), NEW p \in Seq(Byte), NEW n \in Nat, Holds(t, n, p)
  PROVE  SubSeq(t, n + 1, n + Len(p)) = p
<1>1. Len(p) \in Nat /\ p = [i \in 1 .. Len(p) |-> p[i]]
  OBVIOUS
<1>2. SubSeq(t, n + 1, n + Len(p)) = [i \in 1 .. Len(p) |-> t[n + i]]
  <2>1. (1 + (n + Len(p))) - (n + 1) = Len(p)
    BY <1>1
  <2>2. \A i \in 1 .. Len(p) : i + (n + 1) - 1 = n + i
    BY <1>1
  <2> QED
    BY <1>1, <2>1, <2>2 DEF Holds
<1> QED
  BY <1>1, <1>2 DEF Holds
-----------------------------------------------------------------------------
(* The messages of the control socket.                                      *)

Poss == [x : I32, y : I32, w : U16, h : U16]
TouchMsgs == {NewTouchMsg(action, pos) : action \in Byte, pos \in Poss}
KeycodeMsgs == {NewKeycodeMsg(action, keycode) : action \in Byte, keycode \in I32}
TextMsgs == {NewTextMsg(text) : text \in {t \in Seq(Byte) : Len(t) \in U32}}
\* What a scroll can say, in the units of 2^-12.
Scrolls == {Scroll(x) : x \in I16}
ScrollMsgs == {NewScrollMsg(pos, h, v) : pos \in Poss, h \in Scrolls, v \in Scrolls}
\* The name's length is one byte; an empty name is sent as a zero byte.
StartAppMsgs == {NewStartAppMsg(text) : text \in {t \in Seq(Byte) : 1 <= Len(t) /\ Len(t) <= 255}}
\* The messages without a payload, at both ends.
BareMsgs == {[type |-> type] : type \in {5, 6, 7, 11, 15, 17}}

\* Back, or the screen on, and the power of the display.
SwitchMsgs == {[type |-> 4, action |-> action] : action \in Byte}
                \cup {[type |-> 10, action |-> action] : action \in {0, 1}}

\* m is what the server takes off a stream that starts with it.
TakesBack(m, rest) ==
  LET s == Encode(m) \o rest
  IN /\ Encode(m) \in Seq(Byte) /\ s # <<>> /\ Len(Encode(m)) > 0
     /\ Size(s) = Len(Encode(m)) /\ ServerReads(s) = m

Frames(s, tag, body, rest) ==
  /\ s \in Seq(Byte) /\ s # <<>> /\ s[1] = tag
  /\ Len(s) = 1 + Len(body) + Len(rest) /\ Holds(s, 1, body)
  /\ Len(<<tag>> \o body) = 1 + Len(body) /\ <<tag>> \o body \in Seq(Byte)

LEMMA Framed ==
  ASSUME NEW tag \in Byte, NEW body \in Seq(Byte), NEW rest \in Seq(Byte)
  PROVE  Frames(<<tag>> \o body \o rest, tag, body, rest)
<1>1. PICK a : a = <<tag>>
  OBVIOUS
<1>2. a \in Seq(Byte) /\ Len(a) = 1 /\ a[1] = tag
  BY <1>1
<1>3. PICK s : s = a \o body \o rest
  OBVIOUS
<1>4. /\ s \in Seq(Byte) /\ Len(s) = Len(a) + Len(body) + Len(rest)
      /\ Holds(s, 0, a) /\ Holds(s, Len(a), body)
  <2>1. Joined3(s, a, body, rest)
    BY <1>2, <1>3, ThreeParts
  <2> QED
    BY <2>1 DEF Joined3
<1>5. a \o body \in Seq(Byte) /\ Len(a \o body) = Len(a) + Len(body)
  BY <1>2, TwoParts
<1>6. s[0 + 1] = a[1]
  BY <1>2, <1>4 DEF Holds
<1>7. s # <<>>
  <2>1. s = <<>> => Len(s) = 0
    OBVIOUS
  <2>2. Len(body) \in Nat /\ Len(rest) \in Nat
    OBVIOUS
  <2> QED
    BY <1>2, <1>4, <2>1, <2>2
<1>8. Frames(s, tag, body, rest)
  BY <1>1, <1>2, <1>4, <1>5, <1>6, <1>7 DEF Frames
<1> QED
  BY <1>1, <1>3, <1>8

LEMMA OneByte ==
  ASSUME NEW s \in Seq(Byte), NEW n \in Nat, NEW b \in Byte, Holds(s, n, <<b>>)
  PROVE  s[n + 1] = b
<1>1. PICK a : a = <<b>>
  OBVIOUS
<1>2. Len(a) = 1 /\ a[1] = b
  BY <1>1
<1>3. s[n + 1] = a[1]
  BY <1>1, <1>2 DEF Holds
<1> QED
  BY <1>2, <1>3

LEMMA PosParts ==
  ASSUME NEW pos \in Poss
  PROVE  \E a, b, c, d \in Seq(Byte) :
           /\ Len(a) = 4 /\ Len(b) = 4 /\ Len(c) = 2 /\ Len(d) = 2
           /\ Signed(a) = pos.x /\ Signed(b) = pos.y
           /\ Unsigned(c) = pos.w /\ Unsigned(d) = pos.h
           /\ Joined4(AppendPos(pos), a, b, c, d)
<1>1. pos.x \in I32 /\ pos.y \in I32 /\ pos.w \in U16 /\ pos.h \in U16
  BY DEF Poss
<1>2. pos.x \in Int /\ pos.y \in Int /\ pos.w \in Int /\ pos.h \in Int
  BY <1>1 DEF I32, U16
<1>3. PICK a, b, c, d : /\ a = BigEndian(4, pos.x) /\ b = BigEndian(4, pos.y)
                        /\ c = BigEndian(2, pos.w) /\ d = BigEndian(2, pos.h)
  OBVIOUS
<1>4. /\ a \in Seq(Byte) /\ b \in Seq(Byte) /\ c \in Seq(Byte) /\ d \in Seq(Byte)
      /\ Len(a) = 4 /\ Len(b) = 4 /\ Len(c) = 2 /\ Len(d) = 2
  BY <1>2, <1>3, BigEndianType
<1>5. Signed(a) = pos.x /\ Signed(b) = pos.y /\ Unsigned(c) = pos.w /\ Unsigned(d) = pos.h
  BY <1>1, <1>3, SignedReads4, UnsignedReads
<1>6. PICK p : p = a \o b \o c \o d
  OBVIOUS
<1>7. Joined4(p, a, b, c, d)
  BY <1>4, <1>6, FourParts
<1>8. p = AppendPos(pos)
  BY <1>3, <1>6 DEF AppendPos
<1> QED
  BY <1>4, <1>5, <1>7, <1>8

LEMMA PosType ==
  ASSUME NEW pos \in Poss
  PROVE  AppendPos(pos) \in Seq(Byte) /\ Len(AppendPos(pos)) = 12
<1>1. PICK a, b, c, d \in Seq(Byte) :
        /\ Len(a) = 4 /\ Len(b) = 4 /\ Len(c) = 2 /\ Len(d) = 2
        /\ Joined4(AppendPos(pos), a, b, c, d)
  BY PosParts
<1> QED
  BY <1>1 DEF Joined4

LEMMA PosIs ==
  ASSUME NEW s \in Seq(Byte), NEW n \in Nat, NEW pos \in Poss, Holds(s, n, AppendPos(pos)),
         NEW i \in Nat, i = n + 1
  PROVE  PosAt(s, i) = pos
<1>1. PICK a, b, c, d \in Seq(Byte) :
        /\ Len(a) = 4 /\ Len(b) = 4 /\ Len(c) = 2 /\ Len(d) = 2
        /\ Signed(a) = pos.x /\ Signed(b) = pos.y
        /\ Unsigned(c) = pos.w /\ Unsigned(d) = pos.h
        /\ Joined4(AppendPos(pos), a, b, c, d)
  BY PosParts
<1>2. PICK p : p = AppendPos(pos)
  OBVIOUS
<1>3. /\ p \in Seq(Byte) /\ Holds(s, n, p)
      /\ Holds(p, 0, a) /\ Holds(p, 4, b) /\ Holds(p, 8, c) /\ Holds(p, 10, d)
  BY <1>1, <1>2 DEF Joined4
<1>4. Holds(s, n + 0, a) /\ Holds(s, n + 4, b) /\ Holds(s, n + 8, c) /\ Holds(s, n + 10, d)
  BY <1>3, HoldsPart
<1>5. SubSeq(s, i, i + 3) = a
  <2>1. PICK k \in Nat : k = n + 0
    OBVIOUS
  <2>2. SubSeq(s, k + 1, k + Len(a)) = a
    BY <1>4, <2>1, HoldsCut
  <2>3. k + 1 = i /\ k + Len(a) = i + 3
    BY <1>1, <2>1
  <2> QED
    BY <2>2, <2>3
<1>6. SubSeq(s, i + 4, i + 7) = b
  <2>1. PICK k \in Nat : k = n + 4
    OBVIOUS
  <2>2. SubSeq(s, k + 1, k + Len(b)) = b
    BY <1>4, <2>1, HoldsCut
  <2>3. k + 1 = i + 4 /\ k + Len(b) = i + 7
    BY <1>1, <2>1
  <2> QED
    BY <2>2, <2>3
<1>7. SubSeq(s, i + 8, i + 9) = c
  <2>1. PICK k \in Nat : k = n + 8
    OBVIOUS
  <2>2. SubSeq(s, k + 1, k + Len(c)) = c
    BY <1>4, <2>1, HoldsCut
  <2>3. k + 1 = i + 8 /\ k + Len(c) = i + 9
    BY <1>1, <2>1
  <2> QED
    BY <2>2, <2>3
<1>8. SubSeq(s, i + 10, i + 11) = d
  <2>1. PICK k \in Nat : k = n + 10
    OBVIOUS
  <2>2. SubSeq(s, k + 1, k + Len(d)) = d
    BY <1>4, <2>1, HoldsCut
  <2>3. k + 1 = i + 10 /\ k + Len(d) = i + 11
    BY <1>1, <2>1
  <2> QED
    BY <2>2, <2>3
<1>9. PosAt(s, i) = [x |-> Signed(a), y |-> Signed(b), w |-> Unsigned(c), h |-> Unsigned(d)]
  BY <1>5, <1>6, <1>7, <1>8 DEF PosAt
<1> QED
  BY <1>1, <1>9 DEF Poss

\* The stretch of s from i to j is p.
Cut(s, i, j, p) == SubSeq(s, i, j) = p

LEMMA Field ==
  ASSUME NEW s, NEW p, NEW n, Holds(s, n, p)
  PROVE  Cut(s, n + 1, n + Len(p), p)
<1>1. s \in Seq(Byte) /\ n \in Nat /\ p \in Seq(Byte)
  BY DEF Holds
<1> QED
  BY <1>1, HoldsCut DEF Cut

LEMMA HoldsAt ==
  ASSUME NEW t, NEW p, NEW q, NEW n, NEW k, Holds(t, n, p), Holds(p, k, q)
  PROVE  Holds(t, n + k, q)
<1>1. t \in Seq(Byte) /\ n \in Nat /\ p \in Seq(Byte) /\ k \in Nat /\ q \in Seq(Byte)
  BY DEF Holds
<1> QED
  BY <1>1, HoldsPart

LEMMA ByteAt ==
  ASSUME NEW s, NEW n, NEW b, Holds(s, n, <<b>>)
  PROVE  s[n + 1] = b
<1>1. PICK a : a = <<b>>
  OBVIOUS
<1>2. Len(a) = 1 /\ a[1] = b
  BY <1>1
<1>3. s[n + 1] = a[1]
  BY <1>1, <1>2 DEF Holds
<1> QED
  BY <1>2, <1>3

LEMMA TouchTaken ==
  ASSUME NEW m \in TouchMsgs, NEW rest \in Seq(Byte)
  PROVE  TakesBack(m, rest)
<1>1. PICK action \in Byte, pos \in Poss : m = NewTouchMsg(action, pos)
  BY DEF TouchMsgs
<1>a. PICK top \in Int : top = 65535
  BY SMT
<1>b. PICK none \in Int : none = -1
  OBVIOUS
<1>2. PICK act, ptr, pxy, prs, btn :
        /\ act = <<action>> /\ ptr = BigEndian(8, none) /\ pxy = AppendPos(pos)
        /\ prs = BigEndian(2, top) /\ btn = BigEndian(4, 0)
  OBVIOUS
<1>3. /\ ptr \in Seq(Byte) /\ Len(ptr) = 8
      /\ prs \in Seq(Byte) /\ Len(prs) = 2
      /\ btn \in Seq(Byte) /\ Len(btn) = 4
  <2>1. ptr \in Seq(Byte) /\ Len(ptr) = 8
    BY <1>2, BigEndianType
  <2>2. prs \in Seq(Byte) /\ Len(prs) = 2
    BY <1>2, BigEndianType
  <2>3. btn \in Seq(Byte) /\ Len(btn) = 4
    <3>1. PICK zero \in Int : zero = 0
      OBVIOUS
    <3> QED
      BY <1>2, <3>1, BigEndianType
  <2> QED
    BY <2>1, <2>2, <2>3
<1>4. act \in Seq(Byte) /\ Len(act) = 1
  BY <1>2, SMT
<1>5. pxy \in Seq(Byte) /\ Len(pxy) = 12
  BY <1>2, PosType, SMT
<1>6. PICK body : body = act \o ptr \o pxy \o prs \o btn \o btn
  OBVIOUS
<1>7. Encode(m) = <<2>> \o body
  <2>1. FloatToU16Fixed(131072) = 65535
    BY SMT DEF FloatToU16Fixed
  <2>2. /\ m.type = 2 /\ m.action = action /\ m.pointer = none /\ m.pos = pos
        /\ m.button = 0 /\ m.buttons = 0
    BY <1>1, <1>b, SMT DEF NewTouchMsg
  <2>3. FloatToU16Fixed(m.pressure) = top
    BY <1>1, <1>a, <2>1, SMT DEF NewTouchMsg
  <2>4. Encode(m) = <<2>> \o (<<m.action>> \o BigEndian(8, m.pointer) \o AppendPos(m.pos)
                       \o BigEndian(2, FloatToU16Fixed(m.pressure))
                       \o BigEndian(4, m.button) \o BigEndian(4, m.buttons))
    BY <2>2, SMT DEF Encode
  <2> QED
    BY <1>2, <1>6, <2>2, <2>3, <2>4
<1>8. PICK front : front = act \o ptr \o pxy
  OBVIOUS
<1>9. /\ front \in Seq(Byte) /\ Len(front) = 21
      /\ Holds(front, 0, act) /\ Holds(front, 1, ptr) /\ Holds(front, 9, pxy)
  <2>1. Joined3(front, act, ptr, pxy)
    BY <1>3, <1>4, <1>5, <1>8, ThreeParts
  <2> QED
    BY <1>3, <1>4, <1>5, <2>1 DEF Joined3
<1>10. /\ body \in Seq(Byte) /\ Len(body) = 31 /\ Holds(body, 0, front)
       /\ Holds(body, 21, prs) /\ Holds(body, 23, btn) /\ Holds(body, 27, btn)
  <2>1. Joined4(body, front, prs, btn, btn)
    BY <1>3, <1>6, <1>8, <1>9, FourParts
  <2> QED
    BY <1>3, <1>9, <2>1 DEF Joined4
<1>11. PICK s : s = <<2>> \o body \o rest
  OBVIOUS
<1>12. /\ s \in Seq(Byte) /\ s # <<>> /\ s[1] = 2 /\ Holds(s, 1, body)
       /\ Len(<<2>> \o body) = 32 /\ <<2>> \o body \in Seq(Byte)
  <2>1. Frames(s, 2, body, rest)
    BY <1>10, <1>11, Framed, 2 \in Byte DEF Byte
  <2> QED
    BY <1>10, <2>1 DEF Frames
<1>13. /\ Holds(s, 1, front) /\ Holds(s, 22, prs)
       /\ Holds(s, 24, btn) /\ Holds(s, 28, btn)
  <2>1. Holds(s, 1, body)
    BY <1>12
  <2>2. Holds(body, 0, front) /\ Holds(body, 21, prs) /\ Holds(body, 23, btn) /\ Holds(body, 27, btn)
    BY <1>10
  <2>3. Holds(s, 1 + 0, front) /\ Holds(s, 1 + 21, prs)
        /\ Holds(s, 1 + 23, btn) /\ Holds(s, 1 + 27, btn)
    BY <2>1, <2>2, HoldsAt, Zenon
  <2> QED
    BY <2>3
<1>14. Holds(s, 1, act) /\ Holds(s, 2, ptr) /\ Holds(s, 10, pxy)
  <2>1. Holds(s, 1, front)
    BY <1>13
  <2>2. Holds(front, 0, act) /\ Holds(front, 1, ptr) /\ Holds(front, 9, pxy)
    BY <1>9
  <2>3. Holds(s, 1 + 0, act) /\ Holds(s, 1 + 1, ptr) /\ Holds(s, 1 + 9, pxy)
    BY <2>1, <2>2, HoldsAt, Zenon
  <2> QED
    BY <2>3
<1>15. s[2] = action
  BY <1>2, <1>12, <1>14, ByteAt
<1>16. Signed(SubSeq(s, 3, 10)) = -1
  <2>1. SubSeq(s, 3, 10) = ptr
    <3>1. Holds(s, 2, ptr) /\ Len(ptr) = 8
      BY <1>3, <1>14
    <3>2. Cut(s, 2 + 1, 2 + Len(ptr), ptr)
      BY <3>1, Field
    <3> QED
      BY <3>1, <3>2 DEF Cut
  <2> QED
    BY <1>b, <1>2, <2>1, NoPointer
<1>17. PosAt(s, 11) = pos
  BY <1>2, <1>12, <1>14, PosIs
<1>18. Pressure(Unsigned(SubSeq(s, 23, 24))) = 131072
  <2>1. SubSeq(s, 23, 24) = prs
    <3>1. Holds(s, 22, prs) /\ Len(prs) = 2
      BY <1>3, <1>13
    <3>2. Cut(s, 22 + 1, 22 + Len(prs), prs)
      BY <3>1, Field
    <3> QED
      BY <3>1, <3>2 DEF Cut
  <2>2. Unsigned(prs) = top
    <3>1. prs = BigEndian(2, top) /\ top \in U16
      BY <1>2, <1>a, SMT DEF U16
    <3> QED
      BY <1>2, <3>1, UnsignedReads
  <2> QED
    <3>1. Unsigned(SubSeq(s, 23, 24)) = top
      BY <2>1, <2>2
    <3>2. Pressure(top) = 131072
      BY <1>a, SMT DEF Pressure
    <3> QED
      BY <3>1, <3>2, SMT
<1>19. Signed(SubSeq(s, 25, 28)) = 0 /\ Signed(SubSeq(s, 29, 32)) = 0
  <2>1. SubSeq(s, 25, 28) = btn /\ SubSeq(s, 29, 32) = btn
    <3>1. Holds(s, 24, btn) /\ Holds(s, 28, btn) /\ Len(btn) = 4
      BY <1>3, <1>13
    <3>2. Cut(s, 24 + 1, 24 + Len(btn), btn) /\ Cut(s, 28 + 1, 28 + Len(btn), btn)
      BY <3>1, Field
    <3> QED
      BY <3>1, <3>2 DEF Cut
  <2>2. 0 \in I32
    BY SMT DEF I32
  <2>3. Signed(btn) = 0
    BY <1>2, <2>2, SignedReads4
  <2> QED
    BY <2>1, <2>3
<1>20. Size(s) = 32
  BY <1>12 DEF Size
<1>21. ServerReads(s) = m
  BY <1>1, <1>12, <1>15, <1>16, <1>17, <1>18, <1>19, SMT DEF ServerReads, NewTouchMsg
<1> QED
  BY <1>7, <1>11, <1>12, <1>20, <1>21 DEF TakesBack

LEMMA KeycodeTaken ==
  ASSUME NEW m \in KeycodeMsgs, NEW rest \in Seq(Byte)
  PROVE  TakesBack(m, rest)
<1>1. PICK action \in Byte, keycode \in I32 : m = NewKeycodeMsg(action, keycode)
  BY DEF KeycodeMsgs
<1>2. PICK act, key, nil :
        act = <<action>> /\ key = BigEndian(4, keycode) /\ nil = BigEndian(4, 0)
  OBVIOUS
<1>3. /\ act \in Seq(Byte) /\ Len(act) = 1
      /\ key \in Seq(Byte) /\ Len(key) = 4
      /\ nil \in Seq(Byte) /\ Len(nil) = 4
  <2>1. act \in Seq(Byte) /\ Len(act) = 1
    BY <1>2
  <2>2. key \in Seq(Byte) /\ Len(key) = 4
    <3>1. keycode \in Int
      BY SMT DEF I32
    <3> QED
      BY <1>2, <3>1, BigEndianType
  <2>3. nil \in Seq(Byte) /\ Len(nil) = 4
    <3>1. PICK zero \in Int : zero = 0
      OBVIOUS
    <3> QED
      BY <1>2, <3>1, BigEndianType
  <2> QED
    BY <2>1, <2>2, <2>3
<1>4. PICK body : body = act \o key \o nil \o nil
  OBVIOUS
<1>5. Encode(m) = <<0>> \o body
  <2>1. m.type = 0 /\ m.action = action /\ m.keycode = keycode
    BY <1>1 DEF NewKeycodeMsg
  <2>2. Encode(m) = <<0>> \o (<<m.action>> \o BigEndian(4, m.keycode)
                                 \o BigEndian(4, 0) \o BigEndian(4, 0))
    BY <2>1, SMT DEF Encode
  <2> QED
    BY <1>2, <1>4, <2>1, <2>2
<1>6. /\ body \in Seq(Byte) /\ Len(body) = 13
      /\ Holds(body, 0, act) /\ Holds(body, 1, key)
  <2>1. Joined4(body, act, key, nil, nil)
    BY <1>3, <1>4, FourParts
  <2> QED
    BY <1>3, <2>1 DEF Joined4
<1>7. PICK s : s = <<0>> \o body \o rest
  OBVIOUS
<1>8. /\ s \in Seq(Byte) /\ s # <<>> /\ s[1] = 0 /\ Holds(s, 1, body)
      /\ Len(<<0>> \o body) = 14 /\ <<0>> \o body \in Seq(Byte)
  <2>1. Frames(s, 0, body, rest)
    BY <1>6, <1>7, Framed, 0 \in Byte DEF Byte
  <2> QED
    BY <1>6, <2>1 DEF Frames
<1>9. Holds(s, 1, act) /\ Holds(s, 2, key)
  <2>1. Holds(s, 1, body)
    BY <1>8
  <2>2. Holds(body, 0, act) /\ Holds(body, 1, key)
    BY <1>6
  <2>3. Holds(s, 1 + 0, act) /\ Holds(s, 1 + 1, key)
    BY <2>1, <2>2, HoldsAt, Zenon
  <2> QED
    BY <2>3
<1>10. s[2] = action
  BY <1>2, <1>9, ByteAt
<1>11. Signed(SubSeq(s, 3, 6)) = keycode
  <2>1. Holds(s, 2, key) /\ Len(key) = 4
    BY <1>3, <1>9
  <2>2. Cut(s, 2 + 1, 2 + Len(key), key)
    BY <2>1, Field
  <2>3. SubSeq(s, 3, 6) = key
    BY <2>1, <2>2 DEF Cut
  <2> QED
    BY <1>2, <2>3, SignedReads4
<1>12. Size(s) = 14
  BY <1>8 DEF Size
<1>13. ServerReads(s) = m
  BY <1>1, <1>8, <1>10, <1>11 DEF ServerReads
<1> QED
  BY <1>5, <1>7, <1>8, <1>12, <1>13 DEF TakesBack

LEMMA TextTaken ==
  ASSUME NEW m \in TextMsgs, NEW rest \in Seq(Byte)
  PROVE  TakesBack(m, rest)
<1>1. PICK text \in {t \in Seq(Byte) : Len(t) \in U32} : m = NewTextMsg(text)
  BY DEF TextMsgs
<1>2. text \in Seq(Byte) /\ Len(text) \in U32 /\ Len(text) \in Nat
  OBVIOUS
<1>3. PICK n \in Nat : n = Len(text)
  BY <1>2
<1>4. PICK len : len = BigEndian(4, n)
  OBVIOUS
<1>5. len \in Seq(Byte) /\ Len(len) = 4
  <2>1. n \in Int
    BY <1>3
  <2> QED
    BY <1>4, <2>1, BigEndianType
<1>6. PICK body : body = len \o text
  OBVIOUS
<1>7. Encode(m) = <<1>> \o body
  <2>1. m.type = 1 /\ m.text = text
    BY <1>1 DEF NewTextMsg
  <2>2. Encode(m) = <<1>> \o (BigEndian(4, Len(m.text)) \o m.text)
    BY <2>1, SMT DEF Encode
  <2> QED
    BY <1>3, <1>4, <1>6, <2>1, <2>2
<1>8. body \in Seq(Byte) /\ Len(body) = 4 + n /\ Holds(body, 0, len) /\ Holds(body, 4, text)
  <2>1. /\ body \in Seq(Byte) /\ Len(body) = Len(len) + Len(text)
        /\ Holds(body, 0, len) /\ Holds(body, Len(len), text)
    BY <1>2, <1>5, <1>6, TwoParts
  <2> QED
    BY <1>3, <1>5, <2>1
<1>9. PICK s : s = <<1>> \o body \o rest
  OBVIOUS
<1>10. /\ s \in Seq(Byte) /\ s # <<>> /\ s[1] = 1 /\ Holds(s, 1, body)
       /\ Len(s) >= 5 /\ Len(<<1>> \o body) = 5 + n /\ <<1>> \o body \in Seq(Byte)
  <2>1. Frames(s, 1, body, rest)
    BY <1>8, <1>9, Framed, 1 \in Byte DEF Byte
  <2>2. Len(rest) \in Nat
    OBVIOUS
  <2> QED
    BY <1>8, <2>1, <2>2 DEF Frames
<1>11. Holds(s, 1, len) /\ Holds(s, 5, text)
  <2>1. Holds(s, 1, body)
    BY <1>10
  <2>2. Holds(body, 0, len) /\ Holds(body, 4, text)
    BY <1>8
  <2>3. Holds(s, 1 + 0, len) /\ Holds(s, 1 + 4, text)
    BY <2>1, <2>2, HoldsAt, Zenon
  <2> QED
    BY <2>3
<1>12. Unsigned(SubSeq(s, 2, 5)) = n
  <2>1. Holds(s, 1, len) /\ Len(len) = 4
    BY <1>5, <1>11
  <2>2. Cut(s, 1 + 1, 1 + Len(len), len)
    BY <2>1, Field
  <2>3. SubSeq(s, 2, 5) = len
    BY <2>1, <2>2 DEF Cut
  <2> QED
    BY <1>2, <1>3, <1>4, <2>3, UnsignedReads
<1>13. Size(s) = 5 + n
  BY <1>10, <1>12 DEF Size
<1>14. SubSeq(s, 6, 5 + n) = text
  <2>1. Cut(s, 5 + 1, 5 + Len(text), text)
    BY <1>11, Field
  <2> QED
    BY <1>3, <2>1 DEF Cut
<1>15. ServerReads(s) = m
  <2>1. ServerReads(s) = NewTextMsg(SubSeq(s, 6, Size(s)))
    BY <1>10, SMT DEF ServerReads
  <2> QED
    BY <1>1, <1>13, <1>14, <2>1
<1> QED
  BY <1>7, <1>9, <1>10, <1>13, <1>15 DEF TakesBack

LEMMA StartAppTaken ==
  ASSUME NEW m \in StartAppMsgs, NEW rest \in Seq(Byte)
  PROVE  TakesBack(m, rest)
<1>1. PICK text \in {t \in Seq(Byte) : 1 <= Len(t) /\ Len(t) <= 255} : m = NewStartAppMsg(text)
  BY DEF StartAppMsgs
<1>2. text \in Seq(Byte) /\ 1 <= Len(text) /\ Len(text) <= 255 /\ text # <<>>
  <2>1. text = <<>> => Len(text) = 0
    OBVIOUS
  <2> QED
    BY <2>1
<1>3. PICK n \in Nat : n = Len(text)
  BY <1>2
<1>4. n \in Byte /\ n % 256 = n
  <2>1. n \in Int /\ 1 <= n /\ n <= 255
    BY <1>2, <1>3
  <2>2. n % 256 = n
    BY <2>1, SMT
  <2> QED
    BY <2>1, <2>2, ByteIs
<1>5. PICK len : len = <<n>>
  OBVIOUS
<1>6. len \in Seq(Byte) /\ Len(len) = 1
  BY <1>4, <1>5
<1>7. PICK body : body = len \o text
  OBVIOUS
<1>8. Encode(m) = <<16>> \o body
  <2>1. m.type = 16 /\ m.text = text
    BY <1>1 DEF NewStartAppMsg
  <2>2. Encode(m) = <<16>> \o (<<Len(text) % 256>> \o text)
    BY <1>2, <2>1, SMT DEF Encode
  <2> QED
    BY <1>3, <1>4, <1>5, <1>7, <2>2
<1>9. body \in Seq(Byte) /\ Len(body) = 1 + n /\ Holds(body, 0, len) /\ Holds(body, 1, text)
  <2>1. /\ body \in Seq(Byte) /\ Len(body) = Len(len) + Len(text)
        /\ Holds(body, 0, len) /\ Holds(body, Len(len), text)
    BY <1>2, <1>6, <1>7, TwoParts
  <2> QED
    BY <1>3, <1>6, <2>1
<1>10. PICK s : s = <<16>> \o body \o rest
  OBVIOUS
<1>11. /\ s \in Seq(Byte) /\ s # <<>> /\ s[1] = 16 /\ Holds(s, 1, body)
       /\ Len(s) >= 2 /\ Len(<<16>> \o body) = 2 + n /\ <<16>> \o body \in Seq(Byte)
  <2>1. Frames(s, 16, body, rest)
    BY <1>9, <1>10, Framed, 16 \in Byte DEF Byte
  <2>2. Len(rest) \in Nat
    OBVIOUS
  <2> QED
    BY <1>9, <2>1, <2>2 DEF Frames
<1>12. Holds(s, 1, len) /\ Holds(s, 2, text)
  <2>1. Holds(s, 1, body)
    BY <1>11
  <2>2. Holds(body, 0, len) /\ Holds(body, 1, text)
    BY <1>9
  <2>3. Holds(s, 1 + 0, len) /\ Holds(s, 1 + 1, text)
    BY <2>1, <2>2, HoldsAt, Zenon
  <2> QED
    BY <2>3
<1>13. s[2] = n
  BY <1>5, <1>12, ByteAt
<1>14. Size(s) = 2 + n
  BY <1>11, <1>13 DEF Size
<1>15. SubSeq(s, 3, 2 + n) = text
  <2>1. Cut(s, 2 + 1, 2 + Len(text), text)
    BY <1>12, Field
  <2>2. SubSeq(s, 3, 2 + Len(text)) = text
    BY <2>1 DEF Cut
  <2> QED
    BY <1>3, <2>2
<1>16. ServerReads(s) = m
  <2>1. ServerReads(s) = NewStartAppMsg(SubSeq(s, 3, Size(s)))
    BY <1>11, SMT DEF ServerReads
  <2> QED
    BY <1>1, <1>14, <1>15, <2>1
<1> QED
  BY <1>8, <1>10, <1>11, <1>14, <1>16 DEF TakesBack

LEMMA BareTaken ==
  ASSUME NEW m \in BareMsgs, NEW rest \in Seq(Byte)
  PROVE  TakesBack(m, rest)
<1>1. PICK type \in {5, 6, 7, 11, 15, 17} : m = [type |-> type]
  BY DEF BareMsgs
<1>2. type \in Byte /\ type \notin {0, 1, 2, 3, 4, 10, 16}
  BY DEF Byte
<1>3. PICK body : body = <<>>
  OBVIOUS
<1>4. body \in Seq(Byte) /\ Len(body) = 0
  BY <1>3
<1>5. Encode(m) = <<type>> \o body
  <2>1. m.type = type
    BY <1>1
  <2> QED
    <3>1. /\ type # 0 /\ type # 1 /\ type # 2 /\ type # 3
          /\ type # 4 /\ type # 10 /\ type # 16
      BY <1>2
    <3>2. Encode(m) = <<m.type>> \o <<>>
      BY <2>1, <3>1, SMT DEF Encode
    <3> QED
      BY <1>3, <2>1, <3>2
<1>6. PICK s : s = <<type>> \o body \o rest
  OBVIOUS
<1>7. /\ s \in Seq(Byte) /\ s # <<>> /\ s[1] = type
      /\ Len(<<type>> \o body) = 1 /\ <<type>> \o body \in Seq(Byte)
  <2>1. Frames(s, type, body, rest)
    BY <1>2, <1>4, <1>6, Framed
  <2> QED
    BY <1>4, <2>1 DEF Frames
<1>8. Size(s) = 1
  BY <1>2, <1>7, SMT DEF Size
<1>9. ServerReads(s) = m
  BY <1>1, <1>2, <1>7, SMT DEF ServerReads
<1> QED
  BY <1>5, <1>6, <1>7, <1>8, <1>9 DEF TakesBack

LEMMA ScrollKept ==
  ASSUME NEW k \in I16
  PROVE  FloatToI16Fixed(Scroll(k)) = k
<1>1. k \in Int /\ -32768 <= k /\ k <= 32767
  BY SMT DEF I16
<1>2. CASE k = 32767
  BY <1>2, SMT DEF Scroll, FloatToI16Fixed
<1>3. CASE k # 32767 /\ k >= 0
  <2>1. PICK n \in Int : n = 2 * k
    BY <1>1
  <2>2. n \div 2 = k
    BY <1>1, <2>1, SMT
  <2>3. n >= 0 /\ n < 65534
    BY <1>1, <1>3, <2>1, SMT
  <2>4. FloatToI16Fixed(n) = Truncate(n, 2)
    BY <2>3, SMT DEF FloatToI16Fixed
  <2>5. Truncate(n, 2) = k
    BY <2>2, <2>3, SMT DEF Truncate
  <2>6. Scroll(k) = n
    BY <1>3, <2>1, SMT DEF Scroll
  <2> QED
    BY <2>4, <2>5, <2>6
<1>4. CASE k < 0
  <2>1. PICK n \in Int : n = 2 * k
    BY <1>1
  <2>2. PICK j \in Int : j = -n
    BY <2>1
  <2>3. -(j \div 2) = k
    BY <1>1, <2>1, <2>2, SMT
  <2>4. ~(n >= 0) /\ n < 65534 /\ n >= -65536
    BY <1>1, <1>4, <2>1, SMT
  <2>5. Truncate(n, 2) = k
    BY <2>2, <2>3, <2>4, SMT DEF Truncate
  <2>6. Scroll(k) = n
    BY <1>1, <1>4, <2>1, SMT DEF Scroll
  <2>7. FloatToI16Fixed(n) = k
    BY <1>1, <2>1, <2>4, <2>5, SMT DEF FloatToI16Fixed
  <2> QED
    BY <2>6, <2>7
<1> QED
  BY <1>1, <1>2, <1>3, <1>4

LEMMA ScrollTaken ==
  ASSUME NEW m \in ScrollMsgs, NEW rest \in Seq(Byte)
  PROVE  TakesBack(m, rest)
<1>1. PICK pos \in Poss, x \in I16, y \in I16 : m = NewScrollMsg(pos, Scroll(x), Scroll(y))
  BY DEF ScrollMsgs, Scrolls
<1>2. PICK pxy, hor, ver, nil :
        /\ pxy = AppendPos(pos) /\ hor = BigEndian(2, x) /\ ver = BigEndian(2, y)
        /\ nil = BigEndian(4, 0)
  OBVIOUS
<1>3. /\ pxy \in Seq(Byte) /\ Len(pxy) = 12
      /\ hor \in Seq(Byte) /\ Len(hor) = 2
      /\ ver \in Seq(Byte) /\ Len(ver) = 2
      /\ nil \in Seq(Byte) /\ Len(nil) = 4
  <2>1. pxy \in Seq(Byte) /\ Len(pxy) = 12
    BY <1>2, PosType
  <2>2. x \in Int /\ y \in Int
    BY SMT DEF I16
  <2>3. hor \in Seq(Byte) /\ Len(hor) = 2 /\ ver \in Seq(Byte) /\ Len(ver) = 2
    BY <1>2, <2>2, BigEndianType
  <2>4. nil \in Seq(Byte) /\ Len(nil) = 4
    <3>1. PICK zero \in Int : zero = 0
      OBVIOUS
    <3> QED
      BY <1>2, <3>1, BigEndianType
  <2> QED
    BY <2>1, <2>3, <2>4
<1>4. PICK body : body = pxy \o hor \o ver \o nil
  OBVIOUS
<1>5. Encode(m) = <<3>> \o body
  <2>1. /\ m.type = 3 /\ m.pos = pos /\ m.hscroll = Scroll(x) /\ m.vscroll = Scroll(y)
        /\ m.buttons = 0
    BY <1>1 DEF NewScrollMsg
  <2>2. Encode(m) = <<3>> \o (AppendPos(m.pos) \o BigEndian(2, FloatToI16Fixed(m.hscroll))
                       \o BigEndian(2, FloatToI16Fixed(m.vscroll))
                       \o BigEndian(4, m.buttons))
    BY <2>1, SMT DEF Encode
  <2>3. FloatToI16Fixed(m.hscroll) = x /\ FloatToI16Fixed(m.vscroll) = y
    BY <2>1, ScrollKept
  <2> QED
    BY <1>2, <1>4, <2>1, <2>2, <2>3
<1>6. /\ body \in Seq(Byte) /\ Len(body) = 20 /\ Holds(body, 0, pxy)
      /\ Holds(body, 12, hor) /\ Holds(body, 14, ver) /\ Holds(body, 16, nil)
  <2>1. Joined4(body, pxy, hor, ver, nil)
    BY <1>3, <1>4, FourParts
  <2> QED
    BY <1>3, <2>1 DEF Joined4
<1>7. PICK s : s = <<3>> \o body \o rest
  OBVIOUS
<1>8. /\ s \in Seq(Byte) /\ s # <<>> /\ s[1] = 3 /\ Holds(s, 1, body)
      /\ Len(<<3>> \o body) = 21 /\ <<3>> \o body \in Seq(Byte)
  <2>1. Frames(s, 3, body, rest)
    BY <1>6, <1>7, Framed, 3 \in Byte DEF Byte
  <2> QED
    BY <1>6, <2>1 DEF Frames
<1>9. /\ Holds(s, 1, pxy) /\ Holds(s, 13, hor) /\ Holds(s, 15, ver) /\ Holds(s, 17, nil)
  <2>1. Holds(s, 1, body)
    BY <1>8
  <2>2. Holds(body, 0, pxy) /\ Holds(body, 12, hor) /\ Holds(body, 14, ver) /\ Holds(body, 16, nil)
    BY <1>6
  <2>3. Holds(s, 1 + 0, pxy) /\ Holds(s, 1 + 12, hor) /\ Holds(s, 1 + 14, ver) /\ Holds(s, 1 + 16, nil)
    BY <2>1, <2>2, HoldsAt, Zenon
  <2> QED
    BY <2>3
<1>10. PosAt(s, 2) = pos
  <2>1. PICK n \in Nat, i \in Nat : n = 1 /\ i = 2
    OBVIOUS
  <2>2. i = n + 1 /\ Holds(s, n, AppendPos(pos))
    BY <1>2, <1>9, <2>1
  <2> QED
    BY <1>8, <2>1, <2>2, PosIs
<1>11. SubSeq(s, 14, 15) = hor /\ SubSeq(s, 16, 17) = ver /\ SubSeq(s, 18, 21) = nil
  <2>1. /\ Cut(s, 13 + 1, 13 + Len(hor), hor) /\ Cut(s, 15 + 1, 15 + Len(ver), ver)
        /\ Cut(s, 17 + 1, 17 + Len(nil), nil)
    BY <1>9, Field
  <2> QED
    BY <1>3, <2>1 DEF Cut
<1>12. Signed(hor) = x /\ Signed(ver) = y /\ Signed(nil) = 0
  <2>1. 0 \in I32
    BY SMT DEF I32
  <2> QED
    BY <1>2, <2>1, SignedReads2, SignedReads4
<1>13. Size(s) = 21
  BY <1>8 DEF Size
<1>14. ServerReads(s) = m
  <2>1. ServerReads(s) = [type |-> 3, pos |-> PosAt(s, 2),
                    hscroll |-> Scroll(Signed(SubSeq(s, 14, 15))),
                    vscroll |-> Scroll(Signed(SubSeq(s, 16, 17))),
                    buttons |-> Signed(SubSeq(s, 18, 21))]
    BY <1>8, SMT DEF ServerReads
  <2> QED
    BY <1>1, <1>10, <1>11, <1>12, <2>1 DEF NewScrollMsg
<1> QED
  BY <1>5, <1>7, <1>8, <1>13, <1>14 DEF TakesBack

LEMMA SwitchTaken ==
  ASSUME NEW m \in SwitchMsgs, NEW rest \in Seq(Byte)
  PROVE  TakesBack(m, rest)
<1>1. PICK type \in {4, 10}, action \in Byte :
        m = [type |-> type, action |-> action] /\ (type = 10 => action \in {0, 1})
  BY 0 \in Byte, 1 \in Byte DEF SwitchMsgs, Byte
<1>2. type \in Byte /\ (type = 4 \/ type = 10) /\ m.type = type /\ m.action = action
  BY <1>1 DEF Byte
<1>3. PICK body : body = <<action>>
  OBVIOUS
<1>4. body \in Seq(Byte) /\ Len(body) = 1
  BY <1>3
<1>5. Encode(m) = <<type>> \o body
  <2>1. CASE type = 4
    <3>1. Encode(m) = <<4>> \o <<m.action>>
      BY <1>2, <2>1, SMT DEF Encode
    <3> QED
      BY <1>2, <1>3, <2>1, <3>1
  <2>2. CASE type = 10
    <3>1. Encode(m) = <<10>> \o <<IF m.action = 1 THEN 1 ELSE 0>>
      BY <1>2, <2>2, SMT DEF Encode
    <3>2. (IF m.action = 1 THEN 1 ELSE 0) = action
      BY <1>1, <1>2, <2>2
    <3> QED
      BY <1>3, <2>2, <3>1, <3>2
  <2> QED
    BY <1>2, <2>1, <2>2
<1>6. PICK s : s = <<type>> \o body \o rest
  OBVIOUS
<1>7. /\ s \in Seq(Byte) /\ s # <<>> /\ s[1] = type /\ Holds(s, 1, body)
      /\ Len(<<type>> \o body) = 2 /\ <<type>> \o body \in Seq(Byte)
  <2>1. Frames(s, type, body, rest)
    BY <1>2, <1>4, <1>6, Framed
  <2> QED
    BY <1>4, <2>1 DEF Frames
<1>8. s[2] = action
  BY <1>3, <1>7, ByteAt
<1>9. Size(s) = 2
  BY <1>2, <1>7, SMT DEF Size
<1>10. ServerReads(s) = m
  <2>1. ServerReads(s) = [type |-> s[1], action |-> s[2]]
    BY <1>2, <1>7, SMT DEF ServerReads
  <2> QED
    BY <1>1, <1>7, <1>8, <2>1
<1> QED
  BY <1>5, <1>6, <1>7, <1>9, <1>10 DEF TakesBack

ControlMsgs == TouchMsgs \cup KeycodeMsgs \cup TextMsgs \cup ScrollMsgs \cup StartAppMsgs
                 \cup SwitchMsgs \cup BareMsgs

LEMMA EveryMessageTaken ==
  ASSUME NEW m \in ControlMsgs, NEW rest \in Seq(Byte)
  PROVE  TakesBack(m, rest)
BY TouchTaken, KeycodeTaken, TextTaken, ScrollTaken, StartAppTaken, SwitchTaken, BareTaken
   DEF ControlMsgs

LEMMA RestIs ==
  ASSUME NEW s \in Seq(Byte), NEW n \in Nat, n <= Len(s)
  PROVE  SubSeq(s, n + 1, Len(s)) \in Seq(Byte) /\ Len(SubSeq(s, n + 1, Len(s))) = Len(s) - n
<1>1. Len(s) \in Nat /\ \A i \in n + 1 .. Len(s) : s[i] \in Byte
  OBVIOUS
<1>2. n + 1 \in Int /\ Len(s) \in Int
  BY <1>1
<1>3. PICK r : r = SubSeq(s, n + 1, Len(s))
  OBVIOUS
<1>4. r \in Seq(Byte) /\ Len(r) = IF n + 1 <= Len(s) THEN Len(s) - (n + 1) + 1 ELSE 0
  BY <1>1, <1>2, <1>3, SubSeqProperties
<1>5. Len(r) = Len(s) - n
  BY <1>1, <1>4
<1> QED
  BY <1>3, <1>4, <1>5

LEMMA RestOf ==
  ASSUME NEW a \in Seq(Byte), NEW b \in Seq(Byte)
  PROVE  SubSeq(a \o b, Len(a) + 1, Len(a \o b)) = b
<1>1. PICK s : s = a \o b
  OBVIOUS
<1>2. s \in Seq(Byte) /\ Len(s) = Len(a) + Len(b) /\ Holds(s, Len(a), b)
  BY <1>1, TwoParts
<1>3. Cut(s, Len(a) + 1, Len(a) + Len(b), b)
  BY <1>2, Field
<1> QED
  BY <1>1, <1>2, <1>3 DEF Cut

LEMMA FirstPart ==
  ASSUME NEW S, NEW s \in Seq(S), NEW k \in Nat, k <= Len(s)
  PROVE  /\ SubSeq(s, 1, k) \in Seq(S)
         /\ k + 1 <= Len(s) =>
              /\ SubSeq(s, 1, k + 1) = SubSeq(s, 1, k) \o <<s[k + 1]>>
              /\ SubSeq(s, 1, k + 1) = Append(SubSeq(s, 1, k), s[k + 1])
<1>1. \A i \in 1 .. k : s[i] \in S
  OBVIOUS
<1>2. 1 \in Int /\ k \in Int
  OBVIOUS
<1>3. PICK a : a = SubSeq(s, 1, k)
  OBVIOUS
<1>4. a \in Seq(S)
  BY <1>1, <1>2, <1>3, SubSeqProperties
<1>5. ASSUME k + 1 <= Len(s)
      PROVE  /\ SubSeq(s, 1, k + 1) = a \o <<s[k + 1]>>
             /\ SubSeq(s, 1, k + 1) = Append(a, s[k + 1])
  <2>1. PICK n \in 1 .. Len(s) : n = k + 1
    BY <1>5
  <2>2. 1 \in 1 .. Len(s) /\ n \in 1 .. Len(s) /\ n - 1 = k
    BY <2>1
  <2>3. SubSeq(s, 1, n) = SubSeq(s, 1, n - 1) \o <<s[n]>>
    BY <2>2, SubSeqRecursiveSecond
  <2>4. PICK x \in S : x = s[n]
    BY <2>1
  <2>5. a \o <<x>> = Append(a, x)
    BY <1>4
  <2> QED
    BY <1>3, <2>1, <2>2, <2>3, <2>4, <2>5
<1> QED
  BY <1>3, <1>4, <1>5

Joins(a, b, c) == (a \o b) \o c = a \o (b \o c)

LEMMA Associative ==
  ASSUME NEW S, NEW a \in Seq(S), NEW b \in Seq(S), NEW c \in Seq(S)
  PROVE  Joins(a, b, c)
BY ConcatAssociative DEF Joins

\* A reader that takes one message after the other off a stream.
TakesOff(all, ss, out) ==
  \A i \in 1 .. Len(ss) : \A rest \in Seq(Byte) :
    all[ss[i] \o rest] = <<out[i]>> \o all[rest]

LEMMA ReadsInOrder ==
  ASSUME NEW A, NEW all \in [Seq(Byte) -> Seq(A)], NEW ss \in Seq(Seq(Byte)), NEW out \in Seq(A),
         Len(out) = Len(ss), TakesOff(all, ss, out), all[<<>>] = <<>>
  PROVE  all[FlattenSeq(ss)] = out
<1> DEFINE Up(k) == FlattenSeq(SubSeq(ss, 1, k))
           Good(k) == /\ Up(k) \in Seq(Byte)
                      /\ \A rest \in Seq(Byte) :
                           all[Up(k) \o rest] = SubSeq(out, 1, k) \o all[rest]
           D == {k \in Nat : k <= Len(ss) => Good(k)}
<1>0. Len(ss) \in Nat /\ Len(out) \in Nat
  OBVIOUS
<1>1. 0 \in D
  <2>1. SubSeq(ss, 1, 0) = <<>> /\ SubSeq(out, 1, 0) = <<>>
    BY SubSeqEmpty
  <2>2. ss \in Seq(Seq(Byte)) /\ <<>> \in Seq(Byte)
    OBVIOUS
  <2>3. FlattenSeq(<<>>) = <<>>
    BY <2>2, FlattenAppend
  <2>4. Up(0) = <<>>
    BY <2>1, <2>3
  <2>5. ASSUME NEW rest \in Seq(Byte)
        PROVE  all[Up(0) \o rest] = SubSeq(out, 1, 0) \o all[rest]
    <3>1. Up(0) \o rest = rest
      BY <2>4, ConcatEmptySeq
    <3>2. SubSeq(out, 1, 0) \o all[rest] = all[rest]
      BY <2>1, ConcatEmptySeq
    <3> QED
      BY <3>1, <3>2
  <2> HIDE DEF Up
  <2> QED
    BY <2>2, <2>4, <2>5
<1>2. ASSUME NEW k \in Nat, k + 1 <= Len(ss), k \in D
      PROVE  k + 1 \in D
  <2>1. k + 1 \in 1 .. Len(ss) /\ k + 1 \in 1 .. Len(out)
    BY <1>2
  <2>2. PICK e \in Seq(Byte) : e = ss[k + 1]
    BY <2>1
  <2>3. PICK m \in A : m = out[k + 1]
    BY <2>1
  <2>4. SubSeq(ss, 1, k + 1) = Append(SubSeq(ss, 1, k), e)
    <3>1. k <= Len(ss)
      BY <1>2
    <3> QED
      BY <1>2, <2>2, <3>1, FirstPart
  <2>5. SubSeq(out, 1, k + 1) = Append(SubSeq(out, 1, k), m)
    <3>1. k + 1 <= Len(out) /\ k <= Len(out)
      BY <1>0, <1>2
    <3> QED
      BY <2>3, <3>1, FirstPart
  <2>6. SubSeq(ss, 1, k) \in Seq(Seq(Byte)) /\ SubSeq(out, 1, k) \in Seq(A)
    <3>1. k <= Len(ss) /\ k <= Len(out)
      BY <1>2
    <3> QED
      BY <3>1, FirstPart
  <2>7. Up(k + 1) = Up(k) \o e
    BY <2>4, <2>6, FlattenAppend
  <2>8. Up(k) \in Seq(Byte)
        /\ \A rest \in Seq(Byte) : all[Up(k) \o rest] = SubSeq(out, 1, k) \o all[rest]
    BY <1>2, SMTT(60)
  <2>9. PICK up : up = Up(k)
    OBVIOUS
  <2>10. PICK next : next = Up(k + 1)
    OBVIOUS
  <2>11. up \in Seq(Byte) /\ next = up \o e
    BY <2>7, <2>8, <2>9, <2>10
  <2>12. next \in Seq(Byte)
    BY <2>11
  <2>13. ASSUME NEW rest \in Seq(Byte)
         PROVE  all[next \o rest] = SubSeq(out, 1, k + 1) \o all[rest]
    <3>1. PICK t : t = e \o rest
      OBVIOUS
    <3>2. t \in Seq(Byte)
      BY <3>1
    <3>3. (up \o e) \o rest = up \o (e \o rest)
      <4>1. Joins(up, e, rest)
        BY <2>11, Associative
      <4> QED
        BY <4>1 DEF Joins
    <3>4. all[t] = <<m>> \o all[rest]
      BY <2>1, <2>2, <2>3, <3>1 DEF TakesOff
    <3>5. PICK u : u = SubSeq(out, 1, k)
      OBVIOUS
    <3>6. PICK v : v = <<m>>
      OBVIOUS
    <3>7. PICK w : w = all[rest]
      OBVIOUS
    <3>8. u \in Seq(A) /\ v \in Seq(A) /\ w \in Seq(A)
      BY <2>6, <3>5, <3>6, <3>7
    <3>9. SubSeq(out, 1, k + 1) = u \o v
      <4>1. k <= Len(out) /\ k + 1 <= Len(out)
        BY <1>2
      <4> QED
        BY <2>3, <3>5, <3>6, <4>1, FirstPart
    <3>10. (u \o v) \o w = u \o (v \o w)
      <4>1. Joins(u, v, w)
        BY <3>8, Associative
      <4> QED
        BY <4>1 DEF Joins
    <3>11. all[up \o t] = u \o all[t]
      BY <2>8, <2>9, <3>2, <3>5
    <3> QED
      BY <2>11, <3>1, <3>3, <3>4, <3>6, <3>7, <3>9, <3>10, <3>11
  <2>14. Good(k + 1)
    BY <2>10, <2>12, <2>13
  <2> HIDE DEF Good
  <2> QED
    BY <2>14
<1>3. 0 .. Len(ss) \subseteq D
  <2> HIDE DEF D
  <2> QED
    BY <1>0, <1>1, <1>2, IntervalInduction
<1>4. /\ Up(Len(ss)) \in Seq(Byte)
      /\ \A rest \in Seq(Byte) : all[Up(Len(ss)) \o rest] = SubSeq(out, 1, Len(ss)) \o all[rest]
  <2>1. Len(ss) \in D
    <3> HIDE DEF D
    <3> QED
      BY <1>0, <1>3
  <2> HIDE DEF Up
  <2> QED
    BY <2>1
<1>5. SubSeq(ss, 1, Len(ss)) = ss /\ SubSeq(out, 1, Len(out)) = out
  BY SubSeqFull
<1>6. PICK flat : flat = FlattenSeq(ss)
  OBVIOUS
<1>7. Up(Len(ss)) = flat
  BY <1>5, <1>6
<1>8. flat \in Seq(Byte) /\ \A rest \in Seq(Byte) : all[flat \o rest] = out \o all[rest]
  BY <1>0, <1>4, <1>5, <1>7
<1>9. <<>> \in Seq(Byte)
  OBVIOUS
<1>10. flat \o <<>> = flat /\ out \o <<>> = out
  BY <1>8, ConcatEmptySeq
<1> QED
  BY <1>6, <1>8, <1>9, <1>10

LEMMA SizeType ==
  ASSUME NEW s \in Seq(Byte), s # <<>>
  PROVE  Size(s) \in Nat /\ Size(s) >= 1
<1>1. Len(s) \in Nat /\ \A i \in 1 .. Len(s) : s[i] \in Byte
  OBVIOUS
<1>2. Len(s) >= 1
  OBVIOUS
<1>3. PICK type : type = s[1]
  OBVIOUS
<1>4. CASE type = 1
  <2>1. CASE Len(s) < 5
    BY <1>3, <1>4, <2>1, SMT DEF Size
  <2>2. CASE ~(Len(s) < 5)
    <3>1. PICK u : u = SubSeq(s, 2, 5)
      OBVIOUS
    <3>2. \A i \in 2 .. 5 : i \in 1 .. Len(s)
      BY <1>1, <2>2
    <3>3. \A i \in 2 .. 5 : s[i] \in Byte
      BY <1>1, <3>2
    <3>4. 2 \in Int /\ 5 \in Int
      OBVIOUS
    <3>5. u \in Seq(Byte)
      BY <3>1, <3>3, <3>4, SubSeqProperties
    <3>6. Unsigned(u) \in Nat
      BY <3>5, BytesAreNumbers, UnsignedIsNat
    <3>7. Size(s) = 5 + Unsigned(u)
      BY <1>3, <1>4, <2>2, <3>1, SMT DEF Size
    <3> QED
      BY <3>6, <3>7
  <2> QED
    BY <2>1, <2>2
<1>5. CASE type = 16
  <2>1. CASE Len(s) < 2
    BY <1>3, <1>5, <2>1, SMT DEF Size
  <2>2. CASE ~(Len(s) < 2)
    <3>1. s[2] \in Byte
      BY <1>1, <2>2
    <3>2. Size(s) = 2 + s[2]
      BY <1>3, <1>5, <2>2, SMT DEF Size
    <3> QED
      BY <3>1, <3>2 DEF Byte
  <2> QED
    BY <2>1, <2>2
<1>6. CASE type # 1 /\ type # 16
  <2>1. Size(s) \in {14, 32, 21, 2, 1}
    BY <1>3, <1>6, SMT DEF Size
  <2> QED
    BY <2>1
<1> QED
  BY <1>4, <1>5, <1>6

\* What the server makes of a stream, the rest of which it reads as all says.
ServerStep(s, all) ==
  IF s = <<>> THEN <<>>
  ELSE IF Size(s) > Len(s) THEN <<[type |-> -1]>>
  ELSE <<ServerReads(s)>> \o all[SubSeq(s, Size(s) + 1, Len(s))]

ServerMsgs == {ServerReads(s) : s \in Seq(Byte)} \cup {[type |-> -1]}

LEMMA ServerReadsOn ==
  \E all \in [Seq(Byte) -> Seq(ServerMsgs)] : \A s \in Seq(Byte) :
    all[s] = ServerStep(s, all) /\ ServerReadAll(s) = all[s]
<1> DEFINE S == Seq(Byte)
           A == Seq(ServerMsgs)
           rank == [s \in S |-> Len(s)]
           G == [p \in S \X [S -> A] |-> ServerStep(p[1], p[2])]
<1>1. rank \in [S -> Nat] /\ A # {}
  <2>1. <<>> \in A
    OBVIOUS
  <2>2. \A s \in S : Len(s) \in Nat
    OBVIOUS
  <2> QED
    BY <2>1, <2>2
<1>2. ASSUME NEW s \in S, s # <<>>, ~(Size(s) > Len(s))
      PROVE  SubSeq(s, Size(s) + 1, Len(s)) \in S
             /\ Len(SubSeq(s, Size(s) + 1, Len(s))) < Len(s)
  <2>1. PICK n \in Nat : n = Size(s) /\ n >= 1
    BY <1>2, SizeType
  <2>2. n <= Len(s)
    BY <1>2, <2>1
  <2>3. PICK r : r = SubSeq(s, n + 1, Len(s))
    OBVIOUS
  <2>4. r \in S /\ Len(r) = Len(s) - n
    BY <2>2, <2>3, RestIs
  <2>5. Len(r) < Len(s)
    BY <2>1, <2>4
  <2> QED
    BY <2>1, <2>3, <2>4, <2>5
<1>3. ASSUME NEW s \in S, NEW g \in [S -> A]
      PROVE  ServerStep(s, g) \in A
  <2>1. CASE s = <<>>
    BY <2>1 DEF ServerStep
  <2>2. CASE s # <<>> /\ Size(s) > Len(s)
    <3>1. PICK e \in ServerMsgs : e = [type |-> -1]
      BY DEF ServerMsgs
    <3>2. ServerStep(s, g) = <<e>>
      BY <2>2, <3>1 DEF ServerStep
    <3> QED
      BY <3>2
  <2>3. CASE s # <<>> /\ ~(Size(s) > Len(s))
    <3>1. PICK m \in ServerMsgs : m = ServerReads(s)
      BY DEF ServerMsgs
    <3>2. PICK r \in S : r = SubSeq(s, Size(s) + 1, Len(s))
      BY <1>2, <2>3
    <3>3. ServerStep(s, g) = <<m>> \o g[r]
      BY <2>3, <3>1, <3>2 DEF ServerStep
    <3>4. PICK tail \in Seq(ServerMsgs) : tail = g[r]
      OBVIOUS
    <3>5. <<m>> \o tail \in Seq(ServerMsgs)
      OBVIOUS
    <3> QED
      BY <3>3, <3>4, <3>5
  <2> QED
    BY <2>1, <2>2, <2>3
<1>4. ASSUME NEW s \in S, NEW g \in [S -> A], NEW h \in [S -> A], SameBelow(S, rank, s, g, h)
      PROVE  ServerStep(s, g) = ServerStep(s, h)
  <2>1. CASE s # <<>> /\ ~(Size(s) > Len(s))
    <3>1. PICK r \in S : r = SubSeq(s, Size(s) + 1, Len(s)) /\ Len(r) < Len(s)
      BY <1>2, <2>1
    <3>2. g[r] = h[r]
      BY <1>4, <3>1 DEF SameBelow
    <3> QED
      BY <3>1, <3>2 DEF ServerStep
  <2>2. CASE s = <<>> \/ Size(s) > Len(s)
    BY <2>2 DEF ServerStep
  <2> QED
    BY <2>1, <2>2
<1>5. ASSUME NEW s \in S, NEW g \in [S -> A]
      PROVE  G[<<s, g>>] = ServerStep(s, g)
  OBVIOUS
<1>6. PICK f \in [S -> A] : \A s \in S : f[s] = G[<<s, f>>]
  <2>1. \A s \in S : \A g \in [S -> A] : G[<<s, g>>] \in A
    <3> HIDE DEF G, A, S
    <3> QED
      BY <1>3, <1>5
  <2>2. \A s \in S : \A g, h \in [S -> A] :
          SameBelow(S, rank, s, g, h) => G[<<s, g>>] = G[<<s, h>>]
    <3> HIDE DEF G, A, S, rank
    <3> QED
      BY <1>4, <1>5
  <2>3. Ranked(S, A, rank, G)
    <3> HIDE DEF S, A, rank, G
    <3> QED
      BY <1>1, <2>1, <2>2 DEF Ranked
  <2> HIDE DEF S, A, rank, G
  <2> QED
    BY <2>3, RankedRecursion
<1> DEFINE Def(it) == it = [s \in Seq(0 .. 255) |->
                            IF s = <<>> THEN <<>>
                            ELSE IF Size(s) > Len(s) THEN <<[type |-> -1]>>
                            ELSE <<ServerReads(s)>> \o it[SubSeq(s, Size(s) + 1, Len(s))]]
           from == CHOOSE it : Def(it)
<1>7. \A s \in S : f[s] = ServerStep(s, f)
  <2> HIDE DEF G
  <2> QED
    BY <1>5, <1>6
<1>8. Def(f)
  <2>1. f = [s \in Seq(Byte) |-> ServerStep(s, f)]
    <3> HIDE DEF A
    <3> QED
      BY <1>6, <1>7
  <2> QED
    BY <2>1, ByteIs, Zenon DEF ServerStep
<1>9. Def(from)
  <2> HIDE DEF Def
  <2> QED
    BY <1>8
<1>10. ASSUME NEW s \in S
       PROVE  ServerReadAll(s) = from[s]
  BY DEF ServerReadAll
<1> HIDE DEF from
<1>11. from = [s \in S |-> ServerStep(s, from)]
  BY <1>9, ByteIs, Zenon DEF ServerStep
<1>12. PICK all : all = from
  OBVIOUS
<1>13. all = f
  <2> DEFINE E == {n \in Nat : \A s \in S : rank[s] < n => all[s] = f[s]}
  <2>1. 0 \in E
    OBVIOUS
  <2>2. ASSUME NEW n \in Nat, n \in E
        PROVE  n + 1 \in E
    <3> SUFFICES ASSUME NEW s \in S, Len(s) < n + 1
                 PROVE  all[s] = f[s]
      OBVIOUS
    <3>1. all[s] = ServerStep(s, all) /\ f[s] = ServerStep(s, f)
      BY <1>7, <1>11, <1>12
    <3>2. CASE s # <<>> /\ ~(Size(s) > Len(s))
      <4>1. PICK r \in S : r = SubSeq(s, Size(s) + 1, Len(s)) /\ Len(r) < Len(s)
        BY <1>2, <3>2
      <4>2. all[r] = f[r]
        <5>1. rank[r] < n
          BY <4>1
        <5> QED
          BY <2>2, <5>1
      <4> QED
        BY <3>1, <4>1, <4>2 DEF ServerStep
    <3>3. CASE s = <<>> \/ Size(s) > Len(s)
      BY <3>1, <3>3 DEF ServerStep
    <3> QED
      BY <3>2, <3>3
  <2>3. Nat \subseteq E
    <3> HIDE DEF E
    <3> QED
      BY <2>1, <2>2, NatSetInduction
  <2>4. ASSUME NEW s \in S
        PROVE  all[s] = f[s]
    <3>1. Len(s) + 1 \in E /\ Len(s) < Len(s) + 1
      BY <2>3
    <3> QED
      BY <3>1
  <2>5. all = [s \in S |-> all[s]]
    BY <1>11, <1>12
  <2>6. f = [s \in S |-> f[s]]
    BY <1>6
  <2> QED
    BY <2>4, <2>5, <2>6
<1> QED
  BY <1>6, <1>7, <1>10, <1>12, <1>13

LEMMA ServerReadsAll ==
  ASSUME NEW msgs \in Seq(ControlMsgs)
  PROVE  ServerReadAll(FlattenSeq([i \in DOMAIN msgs |-> Encode(msgs[i])])) = msgs
<1>1. PICK all \in [Seq(Byte) -> Seq(ServerMsgs)] : \A s \in Seq(Byte) :
        all[s] = ServerStep(s, all) /\ ServerReadAll(s) = all[s]
  BY ServerReadsOn
<1>2. PICK ss : ss = [i \in DOMAIN msgs |-> Encode(msgs[i])]
  OBVIOUS
<1>3. DOMAIN msgs = 1 .. Len(msgs) /\ Len(msgs) \in Nat
      /\ \A i \in 1 .. Len(msgs) : msgs[i] \in ControlMsgs
  OBVIOUS
<1>4. ASSUME NEW m \in ControlMsgs, NEW rest \in Seq(Byte)
      PROVE  /\ Encode(m) \in Seq(Byte) /\ m \in ServerMsgs
             /\ all[Encode(m) \o rest] = <<m>> \o all[rest]
  <2>1. PICK s : s = Encode(m) \o rest
    OBVIOUS
  <2>2. /\ Encode(m) \in Seq(Byte) /\ s # <<>> /\ Len(Encode(m)) > 0
        /\ Size(s) = Len(Encode(m)) /\ ServerReads(s) = m
    BY <2>1, EveryMessageTaken DEF TakesBack
  <2>3. s \in Seq(Byte) /\ Len(s) = Len(Encode(m)) + Len(rest)
    BY <2>1, <2>2, TwoParts
  <2>4. SubSeq(s, Size(s) + 1, Len(s)) = rest
    BY <2>1, <2>2, RestOf
  <2>5. ~(Size(s) > Len(s))
    <3>1. Len(rest) \in Nat /\ Len(Encode(m)) \in Nat
      BY <2>2
    <3> QED
      BY <2>2, <2>3, <3>1
  <2>6. all[s] = <<ServerReads(s)>> \o all[SubSeq(s, Size(s) + 1, Len(s))]
    BY <1>1, <2>2, <2>3, <2>5 DEF ServerStep
  <2>7. m \in ServerMsgs
    BY <2>2, <2>3 DEF ServerMsgs
  <2> QED
    BY <2>1, <2>2, <2>4, <2>6, <2>7
<1>5. ss \in Seq(Seq(Byte)) /\ Len(ss) = Len(msgs) /\ \A i \in 1 .. Len(msgs) : ss[i] = Encode(msgs[i])
  <2>1. ss \in [1 .. Len(msgs) -> Seq(Byte)]
    <3>1. <<>> \in Seq(Byte)
      OBVIOUS
    <3>2. \A m \in ControlMsgs : Encode(m) \in Seq(Byte)
      BY <1>4, <3>1
    <3>3. \A i \in 1 .. Len(msgs) : Encode(msgs[i]) \in Seq(Byte)
      BY <1>3, <3>2
    <3> QED
      BY <1>2, <1>3, <3>3
  <2> QED
    BY <1>2, <1>3, <2>1
<1>6. msgs \in Seq(ServerMsgs)
  <2>1. \A i \in 1 .. Len(msgs) : msgs[i] \in ServerMsgs
    <3>1. <<>> \in Seq(Byte)
      OBVIOUS
    <3> QED
      BY <1>3, <1>4, <3>1
  <2>2. msgs = [i \in 1 .. Len(msgs) |-> msgs[i]]
    BY <1>3
  <2> QED
    BY <1>3, <2>1, <2>2
<1>7. TakesOff(all, ss, msgs)
  <2>1. \A i \in 1 .. Len(ss) : ss[i] = Encode(msgs[i]) /\ msgs[i] \in ControlMsgs
    BY <1>3, <1>5
  <2> QED
    BY <1>4, <2>1 DEF TakesOff
<1>8. all[<<>>] = <<>>
  <2>1. <<>> \in Seq(Byte)
    OBVIOUS
  <2> QED
    BY <1>1, <2>1 DEF ServerStep
<1>9. all[FlattenSeq(ss)] = msgs
  BY <1>5, <1>6, <1>7, <1>8, ReadsInOrder
<1>10. FlattenSeq(ss) \in Seq(Byte)
  <2>1. <<>> \in Seq(Byte)
    OBVIOUS
  <2> QED
    BY <1>5, <2>1, FlattenAppend
<1> QED
  BY <1>1, <1>2, <1>9, <1>10
-----------------------------------------------------------------------------
(* The messages of the server.                                              *)

LEMMA TookRest ==
  ASSUME NEW msg, NEW s \in Seq(Byte), NEW n \in Nat, n >= 1,
         NEW r, r = Took(msg, s, n), r.msg.type # -1
  PROVE  r.rest \in Seq(Byte) /\ Len(r.rest) < Len(s)
<1>1. n <= Len(s)
  BY DEF Took, DeviceErr
<1>2. r.rest = SubSeq(s, n + 1, Len(s))
  BY <1>1 DEF Took
<1>3. PICK u : u = SubSeq(s, n + 1, Len(s))
  OBVIOUS
<1>4. u \in Seq(Byte) /\ Len(u) = Len(s) - n
  BY <1>1, <1>3, RestIs
<1>5. Len(u) < Len(s)
  BY <1>4, Len(s) \in Nat
<1> QED
  BY <1>2, <1>3, <1>4, <1>5

LEMMA FieldIsNat ==
  ASSUME NEW s \in Seq(Byte), NEW i \in Nat, NEW j \in Nat, 1 <= i, j <= Len(s)
  PROVE  Unsigned(SubSeq(s, i, j)) \in Nat
<1>1. \A k \in i .. j : k \in 1 .. Len(s)
  OBVIOUS
<1>2. \A k \in i .. j : s[k] \in Byte
  BY <1>1
<1>3. i \in Int /\ j \in Int
  OBVIOUS
<1>4. PICK u : u = SubSeq(s, i, j)
  OBVIOUS
<1>5. u \in Seq(Byte)
  BY <1>2, <1>3, <1>4, SubSeqProperties
<1> QED
  BY <1>4, <1>5, BytesAreNumbers, UnsignedIsNat

LEMMA ReadShrinks ==
  ASSUME NEW s \in Seq(Byte), NEW r, r = ReadDeviceMessage(s), r.msg.type # -1
  PROVE  r.rest \in Seq(Byte) /\ Len(r.rest) < Len(s)
<1>1. r # DeviceErr
  BY DEF DeviceErr
<1>2. s # <<>>
  BY <1>1 DEF ReadDeviceMessage
<1>3. Len(s) \in Nat
  OBVIOUS
<1>4. \/ s[1] = 0 /\ Len(s) >= 5
      \/ s[1] = 1
      \/ s[1] = 2 /\ Len(s) >= 5
  BY <1>1, <1>2, SMT DEF ReadDeviceMessage
<1>5. CASE s[1] = 0 /\ Len(s) >= 5
  <2>1. PICK n \in Nat : n = Unsigned(SubSeq(s, 2, 5))
    <3>1. PICK i \in Nat, j \in Nat : i = 2 /\ j = 5
      OBVIOUS
    <3> QED
      BY <1>3, <1>5, <3>1, FieldIsNat
  <2>2. PICK text : text = SubSeq(s, 6, 5 + n)
    OBVIOUS
  <2>3. r = Took([type |-> 0, text |-> text], s, 5 + n)
    BY <1>1, <1>2, <1>5, <2>1, <2>2, SMT DEF ReadDeviceMessage
  <2>4. PICK m \in Nat : m = 5 + n /\ m >= 1
    OBVIOUS
  <2> QED
    BY <2>3, <2>4, TookRest
<1>6. CASE s[1] = 1
  <2>1. r = Took([type |-> 1, text |-> <<>>], s, 9)
    BY <1>2, <1>6, SMT DEF ReadDeviceMessage
  <2>2. PICK m \in Nat : m = 9 /\ m >= 1
    OBVIOUS
  <2> QED
    BY <2>1, <2>2, TookRest
<1>7. CASE s[1] = 2 /\ Len(s) >= 5
  <2>1. PICK n \in Nat : n = Unsigned(SubSeq(s, 4, 5))
    <3>1. PICK i \in Nat, j \in Nat : i = 4 /\ j = 5
      OBVIOUS
    <3> QED
      BY <1>3, <1>7, <3>1, FieldIsNat
  <2>2. r = Took([type |-> 2, text |-> <<>>], s, 5 + n)
    BY <1>2, <1>7, <2>1, SMT DEF ReadDeviceMessage
  <2>3. PICK m \in Nat : m = 5 + n /\ m >= 1
    OBVIOUS
  <2> QED
    BY <2>2, <2>3, TookRest
<1> QED
  BY <1>4, <1>5, <1>6, <1>7

\* What readDeviceMessages makes of a stream, the rest of which it reads as all says.
DeviceStep(s, all) ==
  LET r == ReadDeviceMessage(s)
  IN IF r.msg.type = -1 THEN <<>> ELSE <<r.msg>> \o all[r.rest]

DeviceMsgs == {ReadDeviceMessage(s).msg : s \in Seq(Byte)}

LEMMA DeviceReadsOn ==
  \E all \in [Seq(Byte) -> Seq(DeviceMsgs)] : \A s \in Seq(Byte) :
    all[s] = DeviceStep(s, all) /\ ReadAll(s) = all[s]
<1> DEFINE S == Seq(Byte)
           A == Seq(DeviceMsgs)
           rank == [s \in S |-> Len(s)]
           G == [p \in S \X [S -> A] |-> DeviceStep(p[1], p[2])]
<1>1. rank \in [S -> Nat] /\ A # {}
  <2>1. <<>> \in A
    OBVIOUS
  <2>2. \A s \in S : Len(s) \in Nat
    OBVIOUS
  <2> QED
    BY <2>1, <2>2
<1>2. ASSUME NEW s \in S
      PROVE  \E m, rest :
               /\ m \in DeviceMsgs
               /\ m.type = -1 => \A g : DeviceStep(s, g) = <<>>
               /\ m.type # -1 => /\ rest \in S /\ Len(rest) < Len(s)
                                 /\ \A g : DeviceStep(s, g) = <<m>> \o g[rest]
  <2>1. PICK r : r = ReadDeviceMessage(s)
    OBVIOUS
  <2>2. r.msg \in DeviceMsgs
    BY <2>1 DEF DeviceMsgs
  <2>3. r.msg.type # -1 => r.rest \in S /\ Len(r.rest) < Len(s)
    BY <2>1, ReadShrinks
  <2>4. \A g : DeviceStep(s, g) = IF r.msg.type = -1 THEN <<>> ELSE <<r.msg>> \o g[r.rest]
    BY <2>1 DEF DeviceStep
  <2> QED
    BY <2>2, <2>3, <2>4
<1>3. ASSUME NEW s \in S, NEW g \in [S -> A]
      PROVE  DeviceStep(s, g) \in A
  <2>1. PICK m, rest :
               /\ m \in DeviceMsgs
               /\ m.type = -1 => \A h : DeviceStep(s, h) = <<>>
               /\ m.type # -1 => /\ rest \in S /\ Len(rest) < Len(s)
                                 /\ \A h : DeviceStep(s, h) = <<m>> \o h[rest]
    BY <1>2
  <2>2. CASE m.type = -1
    <3>1. DeviceStep(s, g) = <<>>
      BY <2>1, <2>2
    <3>2. <<>> \in Seq(DeviceMsgs)
      OBVIOUS
    <3> QED
      BY <3>1, <3>2
  <2>3. CASE m.type # -1
    <3>1. PICK tail \in Seq(DeviceMsgs) : tail = g[rest]
      BY <2>1, <2>3
    <3>2. PICK first \in DeviceMsgs : first = m
      BY <2>1
    <3>3. <<first>> \o tail \in Seq(DeviceMsgs)
      OBVIOUS
    <3> QED
      BY <2>1, <2>3, <3>1, <3>2, <3>3
  <2> QED
    BY <2>2, <2>3
<1>4. ASSUME NEW s \in S, NEW g, NEW h, \A t \in S : Len(t) < Len(s) => g[t] = h[t]
      PROVE  DeviceStep(s, g) = DeviceStep(s, h)
  <2>1. PICK m, rest :
               /\ m \in DeviceMsgs
               /\ m.type = -1 => \A f : DeviceStep(s, f) = <<>>
               /\ m.type # -1 => /\ rest \in S /\ Len(rest) < Len(s)
                                 /\ \A f : DeviceStep(s, f) = <<m>> \o f[rest]
    BY <1>2
  <2>2. CASE m.type = -1
    BY <2>1, <2>2
  <2>3. CASE m.type # -1
    <3>1. g[rest] = h[rest]
      BY <1>4, <2>1, <2>3
    <3> QED
      BY <2>1, <2>3, <3>1
  <2> QED
    BY <2>2, <2>3
<1>5. ASSUME NEW s \in S, NEW g \in [S -> A]
      PROVE  G[<<s, g>>] = DeviceStep(s, g)
  OBVIOUS
<1>6. PICK f \in [S -> A] : \A s \in S : f[s] = G[<<s, f>>]
  <2>1. \A s \in S : \A g \in [S -> A] : G[<<s, g>>] \in A
    <3> HIDE DEF G, A, S
    <3> QED
      BY <1>3, <1>5
  <2>2. ASSUME NEW s \in S, NEW g \in [S -> A], NEW h \in [S -> A],
               SameBelow(S, rank, s, g, h)
        PROVE  G[<<s, g>>] = G[<<s, h>>]
    <3>1. \A t \in S : Len(t) < Len(s) => g[t] = h[t]
      BY <2>2 DEF SameBelow
    <3>2. DeviceStep(s, g) = DeviceStep(s, h)
      BY <1>4, <3>1
    <3> HIDE DEF G
    <3> QED
      BY <1>5, <3>2
  <2>3. Ranked(S, A, rank, G)
    <3> HIDE DEF S, A, rank, G
    <3> QED
      BY <1>1, <2>1, <2>2 DEF Ranked
  <2> HIDE DEF S, A, rank, G
  <2> QED
    BY <2>3, RankedRecursion
<1> DEFINE Def(it) == it = [s \in Seq(0 .. 255) |->
                            LET r == ReadDeviceMessage(s)
                            IN IF r.msg.type = -1 THEN <<>> ELSE <<r.msg>> \o it[r.rest]]
           from == CHOOSE it : Def(it)
<1>7. \A s \in S : f[s] = DeviceStep(s, f)
  <2> HIDE DEF G
  <2> QED
    BY <1>5, <1>6
<1>8. Def(f)
  <2>1. f = [s \in Seq(Byte) |-> DeviceStep(s, f)]
    <3> HIDE DEF A
    <3> QED
      BY <1>6, <1>7
  <2> QED
    BY <2>1, ByteIs, Zenon DEF DeviceStep
<1>9. Def(from)
  <2> HIDE DEF Def
  <2> QED
    BY <1>8
<1>10. ASSUME NEW s \in S
       PROVE  ReadAll(s) = from[s]
  BY DEF ReadAll
<1> HIDE DEF from
<1>11. from = [s \in S |-> DeviceStep(s, from)]
  BY <1>9, ByteIs, Zenon DEF DeviceStep
<1>12. PICK all : all = from
  OBVIOUS
<1>13. all = f
  <2> DEFINE E == {n \in Nat : \A s \in S : Len(s) < n => all[s] = f[s]}
  <2>1. 0 \in E
    OBVIOUS
  <2>2. ASSUME NEW n \in Nat, n \in E
        PROVE  n + 1 \in E
    <3> SUFFICES ASSUME NEW s \in S, Len(s) < n + 1
                 PROVE  all[s] = f[s]
      OBVIOUS
    <3>1. all[s] = DeviceStep(s, all) /\ f[s] = DeviceStep(s, f)
      BY <1>7, <1>11, <1>12
    <3>2. ASSUME NEW t \in S, Len(t) < Len(s)
          PROVE  all[t] = f[t]
      <4>1. Len(t) < n
        BY <3>2
      <4> QED
        BY <2>2, <4>1
    <3> QED
      BY <1>4, <3>1, <3>2
  <2>3. Nat \subseteq E
    <3> HIDE DEF E
    <3> QED
      BY <2>1, <2>2, NatSetInduction
  <2>4. ASSUME NEW s \in S
        PROVE  all[s] = f[s]
    <3>1. Len(s) + 1 \in E /\ Len(s) < Len(s) + 1
      BY <2>3
    <3> QED
      BY <3>1
  <2>5. all = [s \in S |-> all[s]]
    BY <1>11, <1>12
  <2>6. f = [s \in S |-> f[s]]
    BY <1>6
  <2> QED
    BY <2>4, <2>5, <2>6
<1> QED
  BY <1>6, <1>7, <1>10, <1>12, <1>13

ClipboardMsgs ==
  {[type |-> 0, text |-> text] :
     text \in {t \in Seq(Byte) : Len(t) \in U32 /\ Len(t) <= MaxClipboard}}
UhidMsgs == {[type |-> 2, text |-> text] : text \in {t \in Seq(Byte) : Len(t) \in U16}}
ServerWrites == ClipboardMsgs \cup {[type |-> 1]} \cup UhidMsgs

\* m is read off a stream that starts with it, with its type.
TakenAs(m, msg, rest) ==
  LET s == DeviceWrites(m) \o rest
  IN /\ DeviceWrites(m) \in Seq(Byte)
     /\ ReadDeviceMessage(s) = [msg |-> msg, rest |-> rest] /\ msg.type = m.type

LEMMA TookIt ==
  ASSUME NEW w \in Seq(Byte), NEW rest \in Seq(Byte), NEW msg, NEW n, n = Len(w)
  PROVE  Took(msg, w \o rest, n) = [msg |-> msg, rest |-> rest]
<1>1. PICK s : s = w \o rest
  OBVIOUS
<1>2. Len(s) = Len(w) + Len(rest) /\ Len(w) \in Nat /\ Len(rest) \in Nat
  BY <1>1
<1>3. SubSeq(s, n + 1, Len(s)) = rest
  BY <1>1, RestOf
<1>4. ~(n > Len(s))
  BY <1>2
<1> QED
  BY <1>1, <1>3, <1>4 DEF Took

LEMMA ClipboardRead ==
  ASSUME NEW m \in ClipboardMsgs, NEW rest \in Seq(Byte)
  PROVE  TakenAs(m, m, rest)
<1>1. PICK text \in {t \in Seq(Byte) : Len(t) \in U32 /\ Len(t) <= MaxClipboard} :
        m = [type |-> 0, text |-> text]
  BY DEF ClipboardMsgs
<1>2. PICK n \in Nat : n = Len(text)
  OBVIOUS
<1>3. text \in Seq(Byte) /\ n \in U32 /\ n <= MaxClipboard /\ n \in Int
  BY <1>2
<1>4. PICK tag, len : tag = <<0>> /\ len = BigEndian(4, n)
  OBVIOUS
<1>5. tag \in Seq(Byte) /\ Len(tag) = 1 /\ len \in Seq(Byte) /\ Len(len) = 4
  <2>1. 0 \in Byte
    BY DEF Byte
  <2>2. len \in Seq(Byte) /\ Len(len) = 4
    BY <1>3, <1>4, BigEndianType
  <2> QED
    BY <1>4, <2>1, <2>2
<1>6. PICK w : w = tag \o len \o text
  OBVIOUS
<1>7. DeviceWrites(m) = w
  <2>1. m.type = 0 /\ m.text = text
    BY <1>1
  <2>2. DeviceWrites(m) = <<0>> \o BigEndian(4, Len(m.text)) \o m.text
    BY <2>1, SMT DEF DeviceWrites
  <2> QED
    BY <1>2, <1>4, <1>6, <2>1, <2>2
<1>8. w \in Seq(Byte) /\ Len(w) = 5 + n /\ Holds(w, 0, tag) /\ Holds(w, 1, len) /\ Holds(w, 5, text)
  <2>1. Joined3(w, tag, len, text)
    BY <1>3, <1>5, <1>6, ThreeParts
  <2> QED
    BY <1>2, <1>5, <2>1 DEF Joined3
<1>9. PICK s : s = w \o rest
  OBVIOUS
<1>10. s \in Seq(Byte) /\ Len(s) = Len(w) + Len(rest) /\ Holds(s, 0, w)
  BY <1>8, <1>9, TwoParts
<1>11. Holds(s, 0, tag) /\ Holds(s, 1, len) /\ Holds(s, 5, text)
  <2>1. Holds(s, 0, w)
    BY <1>10
  <2>2. Holds(w, 0, tag) /\ Holds(w, 1, len) /\ Holds(w, 5, text)
    BY <1>8
  <2>3. Holds(s, 0 + 0, tag) /\ Holds(s, 0 + 1, len) /\ Holds(s, 0 + 5, text)
    BY <2>1, <2>2, HoldsAt, Zenon
  <2> QED
    BY <2>3
<1>12. s[1] = 0
  <2>1. s[0 + 1] = 0
    BY <1>4, <1>11, ByteAt, Zenon
  <2> QED
    BY <2>1
<1>13. Unsigned(SubSeq(s, 2, 5)) = n
  <2>1. Cut(s, 1 + 1, 1 + Len(len), len)
    BY <1>11, Field
  <2>2. SubSeq(s, 2, 5) = len
    BY <1>5, <2>1 DEF Cut
  <2> QED
    BY <1>3, <1>4, <2>2, UnsignedReads
<1>14. SubSeq(s, 6, 5 + n) = text
  <2>1. Cut(s, 5 + 1, 5 + Len(text), text)
    BY <1>11, Field
  <2>2. SubSeq(s, 6, 5 + Len(text)) = text
    BY <2>1 DEF Cut
  <2> QED
    BY <1>2, <2>2
<1>15. s # <<>> /\ Len(s) >= 5 /\ ~(n > MaxClipboard) /\ ~(5 + n > Len(s))
  <2>1. s = <<>> => Len(s) = 0
    OBVIOUS
  <2>2. Len(rest) \in Nat /\ MaxClipboard \in Nat
    BY ClipboardAssumption
  <2> QED
    BY <1>3, <1>8, <1>10, <2>1, <2>2
<1>16. ReadDeviceMessage(s) = Took(m, s, 5 + n)
  <2>1. ReadDeviceMessage(s) =
          LET k == Unsigned(SubSeq(s, 2, 5))
          IN IF k > MaxClipboard \/ 5 + k > Len(s) THEN DeviceErr
             ELSE Took([type |-> 0, text |-> SubSeq(s, 6, 5 + k)], s, 5 + k)
    BY <1>12, <1>15, SMT DEF ReadDeviceMessage
  <2>2. ReadDeviceMessage(s) = Took([type |-> 0, text |-> SubSeq(s, 6, 5 + n)], s, 5 + n)
    BY <1>13, <1>15, <2>1, Zenon
  <2> QED
    BY <1>1, <1>14, <2>2
<1>17. Took(m, w \o rest, 5 + n) = [msg |-> m, rest |-> rest]
  BY <1>8, TookIt, SMTT(60)
<1> QED
  BY <1>7, <1>8, <1>9, <1>16, <1>17 DEF TakenAs

LEMMA AckRead ==
  ASSUME NEW m, m = [type |-> 1], NEW rest \in Seq(Byte)
  PROVE  TakenAs(m, [type |-> 1, text |-> <<>>], rest)
<1>1. PICK tag, clip : tag = <<1>> /\ clip = BigEndian(8, 7)
  OBVIOUS
<1>2. tag \in Seq(Byte) /\ Len(tag) = 1 /\ clip \in Seq(Byte) /\ Len(clip) = 8
  <2>1. 1 \in Byte
    BY DEF Byte
  <2>2. PICK n \in Int : n = 7
    OBVIOUS
  <2>3. clip \in Seq(Byte) /\ Len(clip) = 8
    BY <1>1, <2>2, BigEndianType
  <2> QED
    BY <1>1, <2>1, <2>3
<1>3. PICK w : w = tag \o clip
  OBVIOUS
<1>4. w \in Seq(Byte) /\ Len(w) = 9 /\ Holds(w, 0, tag)
  <2>1. w \in Seq(Byte) /\ Len(w) = Len(tag) + Len(clip) /\ Holds(w, 0, tag)
    BY <1>2, <1>3, TwoParts
  <2> QED
    BY <1>2, <2>1
<1>5. DeviceWrites(m) = w
  <2>1. DeviceWrites(m) = <<1>> \o BigEndian(8, 7)
    BY SMT DEF DeviceWrites
  <2> QED
    BY <1>1, <1>3, <2>1
<1>6. PICK s : s = w \o rest
  OBVIOUS
<1>7. s[1] = 1 /\ s # <<>>
  <2>1. s \in Seq(Byte) /\ Len(s) = Len(w) + Len(rest) /\ Holds(s, 0, w)
    BY <1>4, <1>6, TwoParts
  <2>2. s = <<>> => Len(s) = 0
    OBVIOUS
  <2>3. Len(rest) \in Nat
    OBVIOUS
  <2>4. s # <<>>
    BY <1>4, <2>1, <2>2, <2>3
  <2>5. Holds(w, 0, tag) /\ Holds(s, 0, w)
    BY <1>4, <2>1
  <2>6. Holds(s, 0 + 0, tag)
    BY <2>5, HoldsAt, Zenon
  <2>7. Holds(s, 0, tag)
    BY <2>6
  <2>8. s[0 + 1] = 1
    BY <1>1, <2>7, ByteAt, Zenon
  <2> QED
    BY <2>4, <2>8
<1>8. ReadDeviceMessage(s) = Took([type |-> 1, text |-> <<>>], s, 9)
  BY <1>7, SMT DEF ReadDeviceMessage
<1>9. PICK out : out = [type |-> 1, text |-> <<>>]
  OBVIOUS
<1>10. Took(out, w \o rest, 9) = [msg |-> out, rest |-> rest]
  <2>1. PICK n \in Nat : n = Len(w)
    OBVIOUS
  <2>2. w \in Seq(Byte)
    BY <1>4
  <2>3. Took(out, w \o rest, n) = [msg |-> out, rest |-> rest]
    BY <2>1, <2>2, TookIt
  <2> QED
    BY <1>4, <2>1, <2>3
<1>11. out.type = m.type
  BY <1>9
<1> QED
  BY <1>4, <1>5, <1>6, <1>8, <1>9, <1>10, <1>11 DEF TakenAs

LEMMA UhidRead ==
  ASSUME NEW m \in UhidMsgs, NEW rest \in Seq(Byte)
  PROVE  TakenAs(m, [type |-> 2, text |-> <<>>], rest)
<1>1. PICK text \in {t \in Seq(Byte) : Len(t) \in U16} : m = [type |-> 2, text |-> text]
  BY DEF UhidMsgs
<1>2. PICK n \in Nat : n = Len(text)
  OBVIOUS
<1>3. text \in Seq(Byte) /\ n \in U16 /\ n \in Int
  BY <1>2
<1>4. PICK tag, id, len : tag = <<2>> /\ id = BigEndian(2, 3) /\ len = BigEndian(2, n)
  OBVIOUS
<1>5. /\ tag \in Seq(Byte) /\ Len(tag) = 1 /\ id \in Seq(Byte) /\ Len(id) = 2
      /\ len \in Seq(Byte) /\ Len(len) = 2
  <2>1. 2 \in Byte
    BY DEF Byte
  <2>2. len \in Seq(Byte) /\ Len(len) = 2
    BY <1>3, <1>4, BigEndianType
  <2>3. PICK k \in Int : k = 3
    OBVIOUS
  <2>4. id \in Seq(Byte) /\ Len(id) = 2
    BY <1>4, <2>3, BigEndianType
  <2> QED
    BY <1>4, <2>1, <2>2, <2>4
<1>6. PICK w : w = tag \o id \o len \o text
  OBVIOUS
<1>7. DeviceWrites(m) = w
  <2>1. m.type = 2 /\ m.text = text
    BY <1>1
  <2>2. DeviceWrites(m) = <<2>> \o BigEndian(2, 3) \o BigEndian(2, Len(m.text)) \o m.text
    BY <2>1, SMT DEF DeviceWrites
  <2> QED
    BY <1>2, <1>4, <1>6, <2>1, <2>2
<1>8. w \in Seq(Byte) /\ Len(w) = 5 + n /\ Holds(w, 0, tag) /\ Holds(w, 3, len)
  <2>1. Joined4(w, tag, id, len, text)
    BY <1>3, <1>5, <1>6, FourParts
  <2> QED
    BY <1>2, <1>5, <2>1 DEF Joined4
<1>9. PICK s : s = w \o rest
  OBVIOUS
<1>10. s \in Seq(Byte) /\ Len(s) = Len(w) + Len(rest) /\ Holds(s, 0, w)
  BY <1>8, <1>9, TwoParts
<1>11. Holds(s, 0, tag) /\ Holds(s, 3, len)
  <2>1. Holds(s, 0, w)
    BY <1>10
  <2>2. Holds(w, 0, tag) /\ Holds(w, 3, len)
    BY <1>8
  <2>3. Holds(s, 0 + 0, tag) /\ Holds(s, 0 + 3, len)
    BY <2>1, <2>2, HoldsAt, Zenon
  <2> QED
    BY <2>3
<1>12. s[1] = 2
  <2>1. s[0 + 1] = 2
    BY <1>4, <1>11, ByteAt, Zenon
  <2> QED
    BY <2>1
<1>13. Unsigned(SubSeq(s, 4, 5)) = n
  <2>1. Cut(s, 3 + 1, 3 + Len(len), len)
    BY <1>11, Field
  <2>2. SubSeq(s, 4, 5) = len
    BY <1>5, <2>1 DEF Cut
  <2> QED
    BY <1>3, <1>4, <2>2, UnsignedReads
<1>14. s # <<>> /\ Len(s) >= 5
  <2>1. s = <<>> => Len(s) = 0
    OBVIOUS
  <2>2. Len(rest) \in Nat
    OBVIOUS
  <2> QED
    BY <1>8, <1>10, <2>1, <2>2
<1>15. ReadDeviceMessage(s) = Took([type |-> 2, text |-> <<>>], s, 5 + n)
  BY <1>12, <1>13, <1>14, SMT DEF ReadDeviceMessage
<1>16. PICK out : out = [type |-> 2, text |-> <<>>]
  OBVIOUS
<1>17. Took(out, w \o rest, 5 + n) = [msg |-> out, rest |-> rest]
  BY <1>8, TookIt
<1>18. out.type = m.type
  BY <1>1, <1>16
<1> QED
  BY <1>7, <1>8, <1>9, <1>15, <1>16, <1>17, <1>18 DEF TakenAs

\* What is kept of a message of the server.
ReadAs(m) == IF m.type = 0 THEN m ELSE [type |-> m.type, text |-> <<>>]

LEMMA EveryDeviceMessageRead ==
  ASSUME NEW m \in ServerWrites, NEW rest \in Seq(Byte)
  PROVE  TakenAs(m, ReadAs(m), rest) /\ m.type \in {0, 1, 2}
<1>1. CASE m \in ClipboardMsgs
  <2>1. m.type = 0
    BY <1>1 DEF ClipboardMsgs
  <2> QED
    BY <1>1, <2>1, ClipboardRead DEF ReadAs
<1>2. CASE m = [type |-> 1]
  BY <1>2, AckRead DEF ReadAs
<1>3. CASE m \in UhidMsgs
  <2>1. m.type = 2
    BY <1>3 DEF UhidMsgs
  <2> QED
    BY <1>3, <2>1, UhidRead DEF ReadAs
<1> QED
  BY <1>1, <1>2, <1>3 DEF ServerWrites

LEMMA DeviceReadsAll ==
  ASSUME NEW msgs \in Seq(ServerWrites)
  PROVE  ReadAll(FlattenSeq([i \in DOMAIN msgs |-> DeviceWrites(msgs[i])]))
           = [i \in DOMAIN msgs |-> ReadAs(msgs[i])]
<1>1. PICK all \in [Seq(Byte) -> Seq(DeviceMsgs)] : \A s \in Seq(Byte) :
        all[s] = DeviceStep(s, all) /\ ReadAll(s) = all[s]
  BY DeviceReadsOn
<1>2. PICK ss : ss = [i \in DOMAIN msgs |-> DeviceWrites(msgs[i])]
  OBVIOUS
<1>3. DOMAIN msgs = 1 .. Len(msgs) /\ Len(msgs) \in Nat
      /\ \A i \in 1 .. Len(msgs) : msgs[i] \in ServerWrites
  OBVIOUS
<1>4. ASSUME NEW m \in ServerWrites, NEW rest \in Seq(Byte)
      PROVE  /\ DeviceWrites(m) \in Seq(Byte) /\ ReadAs(m) \in DeviceMsgs
             /\ all[DeviceWrites(m) \o rest] = <<ReadAs(m)>> \o all[rest]
  <2>1. PICK s : s = DeviceWrites(m) \o rest
    OBVIOUS
  <2>2. /\ DeviceWrites(m) \in Seq(Byte) /\ ReadAs(m).type = m.type /\ m.type \in {0, 1, 2}
        /\ ReadDeviceMessage(s) = [msg |-> ReadAs(m), rest |-> rest]
    BY <2>1, EveryDeviceMessageRead DEF TakenAs
  <2>3. s \in Seq(Byte)
    BY <2>1, <2>2, TwoParts
  <2>4. PICK r : r = ReadDeviceMessage(s)
    OBVIOUS
  <2>5. r.msg = ReadAs(m) /\ r.rest = rest /\ r.msg.type # -1
    BY <2>2, <2>4
  <2>6. all[s] = <<r.msg>> \o all[r.rest]
    BY <1>1, <2>3, <2>4, <2>5 DEF DeviceStep
  <2>7. r.msg \in DeviceMsgs
    BY <2>3, <2>4 DEF DeviceMsgs
  <2> QED
    BY <2>1, <2>2, <2>5, <2>6, <2>7
<1>5. /\ ss \in Seq(Seq(Byte)) /\ Len(ss) = Len(msgs)
      /\ \A i \in 1 .. Len(msgs) : ss[i] = DeviceWrites(msgs[i])
  <2>1. <<>> \in Seq(Byte)
    OBVIOUS
  <2>2. \A m \in ServerWrites : DeviceWrites(m) \in Seq(Byte)
    BY <1>4, <2>1
  <2>3. \A i \in 1 .. Len(msgs) : DeviceWrites(msgs[i]) \in Seq(Byte)
    BY <1>3, <2>2
  <2>4. ss \in [1 .. Len(msgs) -> Seq(Byte)]
    BY <1>2, <1>3, <2>3
  <2> QED
    BY <1>2, <1>3, <2>4
<1>6. PICK out : out = [i \in DOMAIN msgs |-> ReadAs(msgs[i])]
  OBVIOUS
<1>7. /\ out \in Seq(DeviceMsgs) /\ Len(out) = Len(msgs)
      /\ \A i \in 1 .. Len(msgs) : out[i] = ReadAs(msgs[i])
  <2>1. <<>> \in Seq(Byte)
    OBVIOUS
  <2>2. \A i \in 1 .. Len(msgs) : ReadAs(msgs[i]) \in DeviceMsgs
    BY <1>3, <1>4, <2>1
  <2>3. out \in [1 .. Len(msgs) -> DeviceMsgs]
    BY <1>3, <1>6, <2>2
  <2> QED
    BY <1>3, <1>6, <2>3
<1>8. TakesOff(all, ss, out)
  <2>1. \A i \in 1 .. Len(ss) :
          ss[i] = DeviceWrites(msgs[i]) /\ out[i] = ReadAs(msgs[i]) /\ msgs[i] \in ServerWrites
    BY <1>3, <1>5, <1>7
  <2> QED
    BY <1>4, <2>1 DEF TakesOff
<1>9. all[<<>>] = <<>>
  <2>1. <<>> \in Seq(Byte)
    OBVIOUS
  <2>2. ReadDeviceMessage(<<>>).msg.type = -1
    BY DEF ReadDeviceMessage, DeviceErr
  <2> QED
    BY <1>1, <2>1, <2>2 DEF DeviceStep
<1>10. Len(out) = Len(ss)
  BY <1>5, <1>7
<1>11. all[FlattenSeq(ss)] = out
  <2>1. ss \in Seq(Seq(Byte)) /\ out \in Seq(DeviceMsgs)
    BY <1>5, <1>7
  <2> QED
    BY <1>8, <1>9, <1>10, <2>1, ReadsInOrder, Zenon
<1>12. FlattenSeq(ss) \in Seq(Byte)
  <2>1. <<>> \in Seq(Byte)
    OBVIOUS
  <2> QED
    BY <1>5, <2>1, FlattenAppend
<1> QED
  BY <1>1, <1>2, <1>6, <1>11, <1>12

(* The two directions of the control socket, for messages of any number     *)
(* and values (ControlMessage.Encode, ReadDeviceMessage): the fields fit    *)
(* their widths, a package name has one byte of length, and a clipboard is  *)
(* no longer than the reader accepts.                                       *)
THEOREM EveryMessageIsReadBack ==
  ASSUME \A c \in Calls : /\ c.of = "control" => c.msgs \in Seq(ControlMsgs)
                          /\ c.of = "device" => c.msgs \in Seq(ServerWrites)
  PROVE  AlgSpec => []ControlStreamInSync
<1>1. ASSUME AlgInv, Answered("control")
      PROVE  ServerReadAll(answer) = call.msgs
  <2>1. /\ call.msgs \in Seq(ControlMsgs)
        /\ answer = FlattenSeq([i \in DOMAIN call.msgs |-> Encode(call.msgs[i])])
    BY <1>1 DEF AlgInv, Answered, Result
  <2>2. PICK msgs \in Seq(ControlMsgs) : msgs = call.msgs
    BY <2>1
  <2> QED
    BY <2>1, <2>2, ServerReadsAll
<1>2. ASSUME AlgInv, Answered("device")
      PROVE  [i \in DOMAIN answer |-> answer[i].type]
               = [i \in DOMAIN call.msgs |-> call.msgs[i].type]
  <2>1. /\ call.msgs \in Seq(ServerWrites)
        /\ answer = ReadAll(FlattenSeq([i \in DOMAIN call.msgs |-> DeviceWrites(call.msgs[i])]))
    BY <1>2 DEF AlgInv, Answered, Result
  <2>2. PICK msgs \in Seq(ServerWrites) : msgs = call.msgs
    BY <2>1
  <2>3. answer = [i \in DOMAIN msgs |-> ReadAs(msgs[i])]
    BY <2>1, <2>2, DeviceReadsAll
  <2>4. ASSUME NEW i \in DOMAIN msgs
        PROVE  answer[i].type = msgs[i].type
    <3>1. answer[i] = ReadAs(msgs[i])
      BY <2>3
    <3>2. ReadAs(msgs[i]).type = msgs[i].type
      BY DEF ReadAs
    <3> QED
      BY <3>1, <3>2
  <2>5. DOMAIN answer = DOMAIN msgs
    BY <2>3
  <2> QED
    BY <2>2, <2>4, <2>5
<1>3. AlgInv => ControlStreamInSync
  BY <1>1, <1>2 DEF ControlStreamInSync
<1> QED
  BY <1>3, AlgInvHolds, PTL
-----------------------------------------------------------------------------
(* Trees of elements: a dump in which every element but a root comes after  *)
(* its parent.                                                              *)

Rooted(els) ==
  /\ \A i, j \in 1 .. Len(els) : els[i].id = els[j].id => i = j
  /\ \A i \in 1 .. Len(els) : els[i].id \in Nat
  /\ \A i \in 1 .. Len(els) :
       els[i].parent = -1 \/ \E j \in 1 .. Len(els) : j < i /\ els[j].id = els[i].parent

Par(els, x) == ElementOf(els, x).parent
RankOf(els) ==
  [x \in Int |-> IF x \in IdsOf(els) THEN CHOOSE i \in 1 .. Len(els) : els[i].id = x ELSE 0]

LEMMA Domain ==
  ASSUME NEW E, NEW els \in Seq(E)
  PROVE  DOMAIN els = 1 .. Len(els) /\ Len(els) \in Nat
OBVIOUS

LEMMA ElementOfIs ==
  ASSUME NEW E, NEW els \in Seq(E), Rooted(els), NEW i \in 1 .. Len(els)
  PROVE  /\ els[i].id \in IdsOf(els) /\ els[i].id \in Int
         /\ ElementOf(els, els[i].id) = els[i]
         /\ RankOf(els)[els[i].id] = i
<1>1. DOMAIN els = 1 .. Len(els) /\ Len(els) \in Nat
  BY Domain
<1>2. els[i].id \in IdsOf(els)
  BY <1>1 DEF IdsOf
<1>3. els[i].id \in Int
  BY DEF Rooted
<1>4. \A j \in 1 .. Len(els) : els[j].id = els[i].id => j = i
  BY DEF Rooted
<1>5. (CHOOSE j \in 1 .. Len(els) : els[j].id = els[i].id) = i
  BY <1>4
<1> QED
  BY <1>1, <1>2, <1>3, <1>5 DEF ElementOf, RankOf

LEMMA ElementWith ==
  ASSUME NEW E, NEW els \in Seq(E), NEW x \in IdsOf(els)
  PROVE  \E i \in 1 .. Len(els) : els[i].id = x
BY Domain DEF IdsOf

LEMMA RankIs ==
  ASSUME NEW E, NEW els \in Seq(E), Rooted(els)
  PROVE  RankOf(els) \in [Int -> Nat] /\ -1 \notin IdsOf(els) /\ IdsOf(els) \subseteq Int
<1>1. ASSUME NEW x \in Int
      PROVE  RankOf(els)[x] \in Nat
  <2>1. CASE x \in IdsOf(els)
    <3>1. PICK i \in 1 .. Len(els) : els[i].id = x
      BY <2>1, ElementWith
    <3>2. RankOf(els)[x] = i
      BY <3>1, ElementOfIs
    <3> QED
      BY <3>2
  <2>2. CASE x \notin IdsOf(els)
    BY <2>2 DEF RankOf
  <2> QED
    BY <2>1, <2>2
<1>2. ASSUME NEW x \in IdsOf(els)
      PROVE  x \in Nat
  <2>1. PICK i \in 1 .. Len(els) : els[i].id = x
    BY ElementWith
  <2> QED
    BY <2>1 DEF Rooted
<1>3. RankOf(els) \in [Int -> Nat]
  BY <1>1 DEF RankOf
<1>4. -1 \notin Nat
  OBVIOUS
<1> QED
  BY <1>2, <1>3, <1>4

LEMMA ParentLower ==
  ASSUME NEW E, NEW els \in Seq(E), Rooted(els), NEW x \in IdsOf(els)
  PROVE  /\ Par(els, x) \in Int /\ (Par(els, x) = -1 \/ Par(els, x) \in IdsOf(els))
         /\ (Par(els, x) = -1) <=> (Par(els, x) \notin IdsOf(els))
         /\ RankOf(els)[Par(els, x)] < RankOf(els)[x]
<1>1. PICK i \in 1 .. Len(els) : els[i].id = x
  BY ElementWith
<1>2. Par(els, x) = els[i].parent /\ RankOf(els)[x] = i
  BY <1>1, ElementOfIs DEF Par
<1>3. CASE els[i].parent = -1
  <2>1. -1 \notin IdsOf(els)
    BY RankIs
  <2>2. RankOf(els)[-1] = 0
    BY <2>1 DEF RankOf
  <2>3. i > 0
    OBVIOUS
  <2> QED
    BY <1>2, <1>3, <2>1, <2>2, <2>3
<1>4. CASE els[i].parent # -1
  <2>1. PICK j \in 1 .. Len(els) : j < i /\ els[j].id = els[i].parent
    BY <1>4 DEF Rooted
  <2>2. els[j].id \in IdsOf(els) /\ els[j].id \in Int /\ RankOf(els)[els[j].id] = j
    BY ElementOfIs
  <2> QED
    BY <1>2, <1>4, <2>1, <2>2
<1> QED
  BY <1>3, <1>4

\* What holds of an element when it holds of its parent holds of all.
LEMMA DownTheTree ==
  ASSUME NEW E, NEW els \in Seq(E), Rooted(els), NEW D,
         \A x \in IdsOf(els) : (Par(els, x) = -1 \/ Par(els, x) \in D) => x \in D
  PROVE  IdsOf(els) \subseteq D
<1> DEFINE rank == RankOf(els)
           B == {k \in Nat : \A x \in IdsOf(els) : rank[x] < k => x \in D}
<1>0. rank \in [Int -> Nat] /\ IdsOf(els) \subseteq Int
  BY RankIs
<1>1. 0 \in B
  BY <1>0
<1>2. ASSUME NEW k \in Nat, k \in B
      PROVE  k + 1 \in B
  <2> SUFFICES ASSUME NEW x \in IdsOf(els), rank[x] < k + 1
               PROVE  x \in D
    OBVIOUS
  <2>1. /\ Par(els, x) \in Int /\ (Par(els, x) = -1 \/ Par(els, x) \in IdsOf(els))
        /\ rank[Par(els, x)] < rank[x]
    BY ParentLower
  <2>2. rank[Par(els, x)] < k
    BY <1>0, <2>1
  <2>3. Par(els, x) = -1 \/ Par(els, x) \in D
    BY <1>2, <2>1, <2>2
  <2> QED
    BY <2>3
<1>3. Nat \subseteq B
  <2> HIDE DEF B
  <2> QED
    BY <1>1, <1>2, NatSetInduction
<1>4. ASSUME NEW x \in IdsOf(els)
      PROVE  x \in D
  <2>1. PICK k \in Nat : k = rank[x]
    BY <1>0
  <2>2. k + 1 \in B /\ rank[x] < k + 1
    BY <1>3, <2>1
  <2> QED
    BY <2>2
<1> QED
  BY <1>4

\* A function of the elements that is got from the parent's value.
FromParent(els, T, H, B, f) ==
  \A x \in Int : f[x] = IF x \in T THEN H[<<x, f[Par(els, x)]>>] ELSE B[x]

LEMMA UpTheTree ==
  ASSUME NEW E, NEW els \in Seq(E), Rooted(els), NEW A, NEW T \in SUBSET IdsOf(els),
         NEW H \in [Int \X A -> A], NEW B \in [Int -> A]
  PROVE  \E f \in [Int -> A] : FromParent(els, T, H, B, f)
<1> DEFINE rank == RankOf(els)
           G == [p \in Int \X [Int -> A] |->
                   IF p[1] \in T THEN H[<<p[1], p[2][Par(els, p[1])]>>] ELSE B[p[1]]]
<1>1. rank \in [Int -> Nat] /\ IdsOf(els) \subseteq Int
  BY RankIs
<1>2. A # {}
  <2>1. B[0] \in A
    OBVIOUS
  <2> QED
    BY <2>1
<1>3. ASSUME NEW x \in Int, NEW g \in [Int -> A]
      PROVE  G[<<x, g>>] = IF x \in T THEN H[<<x, g[Par(els, x)]>>] ELSE B[x]
  OBVIOUS
<1>4. ASSUME NEW x \in T
      PROVE  Par(els, x) \in Int /\ rank[Par(els, x)] < rank[x] /\ x \in Int
  BY <1>1, ParentLower
<1> HIDE DEF G, rank
<1>5. ASSUME NEW x \in Int, NEW g \in [Int -> A]
      PROVE  G[<<x, g>>] \in A
  <2>1. CASE x \in T
    <3>1. g[Par(els, x)] \in A
      BY <1>4, <2>1
    <3> QED
      BY <1>3, <2>1, <3>1
  <2>2. CASE x \notin T
    BY <1>3, <2>2
  <2> QED
    BY <2>1, <2>2
<1>6. ASSUME NEW x \in Int, NEW g \in [Int -> A], NEW h \in [Int -> A],
             SameBelow(Int, rank, x, g, h)
      PROVE  G[<<x, g>>] = G[<<x, h>>]
  <2>1. CASE x \in T
    <3>1. g[Par(els, x)] = h[Par(els, x)]
      BY <1>4, <1>6, <2>1 DEF SameBelow
    <3> QED
      BY <1>3, <2>1, <3>1
  <2>2. CASE x \notin T
    BY <1>3, <2>2
  <2> QED
    BY <2>1, <2>2
<1>7. Ranked(Int, A, rank, G)
  BY <1>1, <1>2, <1>5, <1>6 DEF Ranked
<1>8. PICK f \in [Int -> A] : \A x \in Int : f[x] = G[<<x, f>>]
  <2>1. PICK S : S = Int
    OBVIOUS
  <2>2. Ranked(S, A, rank, G)
    BY <1>7, <2>1
  <2>3. \E f \in [S -> A] : \A x \in S : f[x] = G[<<x, f>>]
    BY <2>2, RankedRecursion
  <2> QED
    BY <2>1, <2>3
<1>9. FromParent(els, T, H, B, f)
  BY <1>3, <1>8 DEF FromParent
<1> QED
  BY <1>9

LEMMA AncestorsUp ==
  ASSUME NEW E, NEW els \in Seq(E), Rooted(els), NEW x \in IdsOf(els)
  PROVE  /\ Par(els, x) = -1 => AncestorsOf(els, x) = {}
         /\ Par(els, x) # -1 => AncestorsOf(els, x) = {Par(els, x)} \union AncestorsOf(els, Par(els, x))
<1> DEFINE Def(f) == f = [i \in Int |->
                            IF i \notin IdsOf(els) THEN {}
                            ELSE {ElementOf(els, i).parent} \union f[ElementOf(els, i).parent]]
           up == CHOOSE f : Def(f)
<1>1. \E f : Def(f)
  <2> DEFINE A == SUBSET Int
             T == IdsOf(els)
             H == [p \in Int \X A |-> {Par(els, p[1])} \union p[2]]
             H2 == [p \in Int \X A |-> IF p[1] \in T THEN H[p] ELSE {}]
             B == [i \in Int |-> {}]
  <2>1. H2 \in [Int \X A -> A]
    <3>1. \A i \in T : Par(els, i) \in Int
      BY ParentLower
    <3> QED
      BY <3>1
  <2>2. B \in [Int -> A] /\ T \in SUBSET IdsOf(els)
    OBVIOUS
  <2>3. PICK f \in [Int -> A] : \A i \in Int :
          f[i] = IF i \in T THEN H2[<<i, f[Par(els, i)]>>] ELSE B[i]
    <3> HIDE DEF H2, B, T, A
    <3>1. \E f \in [Int -> A] : FromParent(els, T, H2, B, f)
      BY <2>1, <2>2, UpTheTree
    <3> QED
      BY <3>1 DEF FromParent
  <2>4. ASSUME NEW i \in Int
        PROVE  f[i] = IF i \notin IdsOf(els) THEN {}
                      ELSE {ElementOf(els, i).parent} \union f[ElementOf(els, i).parent]
    <3>1. CASE i \in T
      <4>1. Par(els, i) \in Int
        BY <3>1, ParentLower
      <4>2. PICK v \in A : v = f[Par(els, i)]
        BY <4>1
      <4>3. f[i] = H2[<<i, v>>]
        BY <2>3, <3>1, <4>2
      <4>4. H2[<<i, v>>] = {Par(els, i)} \union v
        BY <3>1
      <4> QED
        BY <3>1, <4>2, <4>3, <4>4 DEF Par
    <3>2. CASE i \notin T
      BY <2>3, <3>2
    <3> QED
      BY <3>1, <3>2
  <2>5. f = [i \in Int |-> f[i]]
    OBVIOUS
  <2>6. Def(f)
    BY <2>4, <2>5
  <2> HIDE DEF Def
  <2> QED
    BY <2>6
<1>2. Def(up)
  <2> HIDE DEF Def
  <2> QED
    BY <1>1
<1>3. \A i : AncestorsOf(els, i) = up[i] \intersect IdsOf(els)
  BY DEF AncestorsOf
<1> HIDE DEF up
<1>4. \A i \in Int : up[i] = IF i \notin IdsOf(els) THEN {} ELSE {Par(els, i)} \union up[Par(els, i)]
  BY <1>2 DEF Par
<1>5. /\ x \in Int /\ -1 \in Int /\ -1 \notin IdsOf(els)
      /\ Par(els, x) = -1 \/ Par(els, x) \in IdsOf(els)
  BY RankIs, ParentLower
<1>6. up[x] = {Par(els, x)} \union up[Par(els, x)]
  BY <1>4, <1>5
<1>7. up[-1] = {}
  BY <1>4, <1>5
<1>8. ASSUME Par(els, x) = -1
      PROVE  AncestorsOf(els, x) = {}
  BY <1>3, <1>5, <1>6, <1>7, <1>8
<1>9. ASSUME Par(els, x) # -1
      PROVE  AncestorsOf(els, x) = {Par(els, x)} \union AncestorsOf(els, Par(els, x))
  BY <1>3, <1>5, <1>6, <1>9
<1> QED
  BY <1>8, <1>9

LEMMA FindAncestorUp ==
  ASSUME NEW E, NEW els \in Seq(E), Rooted(els), NEW x \in Int
  PROVE  FindAncestor(els)[x] = IF x \in Redundant(els) THEN FindAncestor(els)[Par(els, x)] ELSE x
<1> DEFINE Def(f) == f = [i \in Int |-> IF i \in Redundant(els)
                                        THEN f[ElementOf(els, i).parent] ELSE i]
           up == CHOOSE f : Def(f)
<1>0. Redundant(els) \subseteq IdsOf(els)
  BY DEF Redundant, IdsOf
<1>1. \E f : Def(f)
  <2> DEFINE T == Redundant(els)
             H == [p \in Int \X Int |-> p[2]]
             B == [i \in Int |-> i]
  <2>1. H \in [Int \X Int -> Int] /\ B \in [Int -> Int] /\ T \in SUBSET IdsOf(els)
    BY <1>0
  <2>2. PICK f \in [Int -> Int] : \A i \in Int :
          f[i] = IF i \in T THEN H[<<i, f[Par(els, i)]>>] ELSE B[i]
    <3> HIDE DEF H, B, T
    <3>1. \E f \in [Int -> Int] : FromParent(els, T, H, B, f)
      BY <2>1, UpTheTree
    <3> QED
      BY <3>1 DEF FromParent
  <2>3. ASSUME NEW i \in Int
        PROVE  f[i] = IF i \in Redundant(els) THEN f[ElementOf(els, i).parent] ELSE i
    <3>1. CASE i \in T
      <4>1. Par(els, i) \in Int
        BY <1>0, <3>1, ParentLower
      <4>2. PICK v \in Int : v = f[Par(els, i)]
        BY <4>1
      <4>3. f[i] = H[<<i, v>>]
        BY <2>2, <3>1, <4>2
      <4> QED
        BY <3>1, <4>2, <4>3 DEF Par
    <3>2. CASE i \notin T
      BY <2>2, <3>2
    <3> QED
      BY <3>1, <3>2
  <2>4. f = [i \in Int |-> f[i]]
    OBVIOUS
  <2>5. Def(f)
    BY <2>3, <2>4
  <2> HIDE DEF Def
  <2> QED
    BY <2>5
<1>2. Def(up)
  <2> HIDE DEF Def
  <2> QED
    BY <1>1
<1>3. FindAncestor(els) = up
  BY DEF FindAncestor
<1> HIDE DEF up
<1> QED
  BY <1>2, <1>3 DEF Par

LEMMA CalcDepthUp ==
  ASSUME NEW E, NEW els \in Seq(E), Rooted(els)
  PROVE  /\ CalcDepth(els)[-1] = -1
         /\ \A x \in IdsOf(els) : CalcDepth(els)[x] = CalcDepth(els)[Par(els, x)]
                                    + (IF x \in Redundant(els) THEN 0 ELSE 1)
<1> DEFINE Def(f) == f = [i \in Int |->
                            IF i < 0 THEN -1
                            ELSE IF i \notin IdsOf(els) THEN 0
                            ELSE f[ElementOf(els, i).parent]
                                   + (IF i \in Redundant(els) THEN 0 ELSE 1)]
           depth == CHOOSE f : Def(f)
<1>0. \A x \in IdsOf(els) : x \in Int /\ ~(x < 0)
  <2>1. ASSUME NEW x \in IdsOf(els)
        PROVE  x \in Nat
    <3>1. PICK i \in 1 .. Len(els) : els[i].id = x
      BY ElementWith
    <3> QED
      BY <3>1 DEF Rooted
  <2> QED
    BY <2>1
<1>1. \E f : Def(f)
  <2> DEFINE T == IdsOf(els)
             H == [p \in Int \X Int |-> p[2] + (IF p[1] \in Redundant(els) THEN 0 ELSE 1)]
             B == [i \in Int |-> IF i < 0 THEN -1 ELSE 0]
  <2>1. H \in [Int \X Int -> Int] /\ B \in [Int -> Int] /\ T \in SUBSET IdsOf(els)
    OBVIOUS
  <2>2. PICK f \in [Int -> Int] : \A i \in Int :
          f[i] = IF i \in T THEN H[<<i, f[Par(els, i)]>>] ELSE B[i]
    <3> HIDE DEF H, B, T
    <3>1. \E f \in [Int -> Int] : FromParent(els, T, H, B, f)
      BY <2>1, UpTheTree
    <3> QED
      BY <3>1 DEF FromParent
  <2>3. ASSUME NEW i \in Int
        PROVE  f[i] = IF i < 0 THEN -1
                      ELSE IF i \notin IdsOf(els) THEN 0
                      ELSE f[ElementOf(els, i).parent] + (IF i \in Redundant(els) THEN 0 ELSE 1)
    <3>1. CASE i \in T
      <4>1. Par(els, i) \in Int
        BY <3>1, ParentLower
      <4>2. PICK v \in Int : v = f[Par(els, i)]
        BY <4>1
      <4>3. f[i] = H[<<i, v>>]
        BY <2>2, <3>1, <4>2
      <4>4. H[<<i, v>>] = v + (IF i \in Redundant(els) THEN 0 ELSE 1)
        OBVIOUS
      <4> HIDE DEF H
      <4> QED
        BY <1>0, <3>1, <4>2, <4>3, <4>4 DEF Par
    <3>2. CASE i \notin T
      BY <2>2, <3>2
    <3> QED
      BY <3>1, <3>2
  <2>4. f = [i \in Int |-> f[i]]
    OBVIOUS
  <2>5. Def(f)
    BY <2>3, <2>4
  <2> HIDE DEF Def
  <2> QED
    BY <2>5
<1>2. Def(depth)
  <2> HIDE DEF Def
  <2> QED
    BY <1>1
<1>3. CalcDepth(els) = depth
  BY DEF CalcDepth
<1> HIDE DEF depth
<1>4. depth[-1] = -1
  BY <1>2
<1>5. ASSUME NEW x \in IdsOf(els)
      PROVE  depth[x] = depth[Par(els, x)] + (IF x \in Redundant(els) THEN 0 ELSE 1)
  BY <1>0, <1>2 DEF Par
<1> QED
  BY <1>3, <1>4, <1>5

LEMMA AncestorsBelow ==
  ASSUME NEW E, NEW els \in Seq(E), Rooted(els), NEW x \in IdsOf(els)
  PROVE  /\ AncestorsOf(els, x) \subseteq IdsOf(els) /\ IsFiniteSet(AncestorsOf(els, x))
         /\ \A y \in AncestorsOf(els, x) : RankOf(els)[y] < RankOf(els)[x]
<1> DEFINE Anc(y) == AncestorsOf(els, y)
           rank == RankOf(els)
           D == {y \in IdsOf(els) : /\ Anc(y) \subseteq IdsOf(els) /\ IsFiniteSet(Anc(y))
                                    /\ \A z \in Anc(y) : rank[z] < rank[y]}
<1>1. rank \in [Int -> Nat] /\ IdsOf(els) \subseteq Int
  BY RankIs
<1>2. ASSUME NEW y \in IdsOf(els), Par(els, y) = -1 \/ Par(els, y) \in D
      PROVE  y \in D
  <2>1. CASE Par(els, y) = -1
    <3>1. Anc(y) = {}
      BY <2>1, AncestorsUp
    <3> QED
      BY <3>1, FS_EmptySet
  <2>2. CASE Par(els, y) # -1
    <3>1. PICK p \in IdsOf(els) : p = Par(els, y)
      BY <2>2, ParentLower
    <3>2. rank[p] < rank[y]
      BY <3>1, ParentLower
    <3>3. PICK above : above = Anc(p)
      OBVIOUS
    <3>4. /\ above \subseteq IdsOf(els) /\ IsFiniteSet(above)
          /\ \A z \in above : rank[z] < rank[p]
      BY <1>2, <2>2, <3>1, <3>3
    <3>5. Anc(y) = {p} \union above
      BY <2>2, <3>1, <3>3, AncestorsUp
    <3>6. IsFiniteSet(above \union {p})
      BY <3>4, FS_AddElement
    <3>7. above \union {p} = {p} \union above
      OBVIOUS
    <3>8. \A z \in {p} \union above : rank[z] < rank[y]
      <4>1. PICK k \in Nat, l \in Nat : k = rank[p] /\ l = rank[y]
        BY <1>1
      <4>2. ASSUME NEW z \in above
            PROVE  rank[z] < l
        <5>1. PICK m \in Nat : m = rank[z]
          BY <1>1, <3>4
        <5> QED
          BY <3>2, <3>4, <4>1, <5>1
      <4> QED
        BY <3>2, <4>1, <4>2
    <3> HIDE DEF Anc, rank
    <3> QED
      BY <3>4, <3>5, <3>6, <3>7, <3>8
  <2> QED
    BY <2>1, <2>2
<1>3. IdsOf(els) \subseteq D
  <2> HIDE DEF D
  <2> QED
    BY <1>2, DownTheTree
<1> QED
  BY <1>3

LEMMA RedundantIs ==
  ASSUME NEW E, NEW els \in Seq(E), Rooted(els), NEW x \in Redundant(els)
  PROVE  x \in IdsOf(els) /\ Par(els, x) # -1 /\ Par(els, x) \in IdsOf(els)
<1>1. PICK i \in 1 .. Len(els) : els[i].id = x /\ els[i].parent >= 0
  BY Domain DEF Redundant
<1>2. x \in IdsOf(els) /\ Par(els, x) = els[i].parent
  BY <1>1, ElementOfIs DEF Par
<1>3. Par(els, x) # -1
  BY <1>1, <1>2
<1> QED
  BY <1>2, <1>3, ParentLower

\* The nearest ancestor that stays (findAncestor).
LEMMA FoundAncestor ==
  ASSUME NEW E, NEW els \in Seq(E), Rooted(els), NEW x \in Redundant(els)
  PROVE  LET kept == IdsOf(els) \ Redundant(els)
             up == FindAncestor(els)[x]
         IN /\ up \in kept /\ RankOf(els)[up] < RankOf(els)[x]
            /\ AncestorsOf(els, x) \intersect kept
                 = {up} \union (AncestorsOf(els, up) \intersect kept)
<1> DEFINE kept == IdsOf(els) \ Redundant(els)
           rank == RankOf(els)
           up == FindAncestor(els)
           Good(y) == /\ up[y] \in kept /\ rank[up[y]] < rank[y]
                      /\ AncestorsOf(els, y) \intersect kept
                           = {up[y]} \union (AncestorsOf(els, up[y]) \intersect kept)
           D == {y \in IdsOf(els) : y \in Redundant(els) => Good(y)}
<1>1. rank \in [Int -> Nat] /\ IdsOf(els) \subseteq Int
  BY RankIs
<1>2. ASSUME NEW y \in IdsOf(els), Par(els, y) = -1 \/ Par(els, y) \in D
      PROVE  y \in D
  <2> SUFFICES ASSUME y \in Redundant(els)
               PROVE  Good(y)
    OBVIOUS
  <2>1. PICK p \in IdsOf(els) : p = Par(els, y) /\ p # -1
    BY RedundantIs
  <2>2. rank[p] < rank[y] /\ p \in Int /\ y \in Int
    BY <1>1, <2>1, ParentLower
  <2>3. AncestorsOf(els, y) = {p} \union AncestorsOf(els, p)
    BY <2>1, AncestorsUp
  <2>4. up[y] = up[p]
    BY <2>1, <2>2, FindAncestorUp
  <2>5. CASE p \in Redundant(els)
    <3>1. Good(p)
      BY <1>2, <2>1, <2>5
    <3>2. {p} \intersect kept = {}
      BY <2>5
    <3>3. rank[up[p]] < rank[y]
      <4>1. PICK k \in Nat, l \in Nat, m \in Nat : k = rank[p] /\ l = rank[y] /\ m = rank[up[p]]
        BY <1>1, <2>2, <3>1
      <4> QED
        BY <2>2, <3>1, <4>1
    <3> HIDE DEF kept, up, rank
    <3> QED
      BY <2>3, <2>4, <3>1, <3>2, <3>3
  <2>6. CASE p \notin Redundant(els)
    <3>1. up[p] = p
      BY <2>2, <2>6, FindAncestorUp
    <3>2. p \in kept
      BY <2>6
    <3> HIDE DEF kept, up, rank
    <3> QED
      BY <2>2, <2>3, <2>4, <3>1, <3>2
  <2> QED
    BY <2>5, <2>6
<1>3. IdsOf(els) \subseteq D
  <2> HIDE DEF D
  <2> QED
    BY <1>2, DownTheTree
<1>4. x \in IdsOf(els)
  BY RedundantIs
<1>5. Good(x)
  BY <1>3, <1>4
<1> QED
  BY <1>5
-----------------------------------------------------------------------------
(* What compaction makes of an element's parent and depth.                  *)

Keeps(els) == IdsOf(els) \ Redundant(els)
KeptAbove(els, x) == AncestorsOf(els, x) \intersect Keeps(els)
NewParent(els, x) ==
  IF Par(els, x) \in Redundant(els) THEN FindAncestor(els)[Par(els, x)] ELSE Par(els, x)

LEMMA KeptAboveUp ==
  ASSUME NEW E, NEW els \in Seq(E), Rooted(els), NEW x \in IdsOf(els)
  PROVE  /\ IsFiniteSet(KeptAbove(els, x)) /\ x \notin KeptAbove(els, x)
         /\ Par(els, x) = -1 => KeptAbove(els, x) = {}
         /\ Par(els, x) \in Redundant(els) => KeptAbove(els, x) = KeptAbove(els, Par(els, x))
         /\ Par(els, x) \in Keeps(els) =>
              KeptAbove(els, x) = {Par(els, x)} \union KeptAbove(els, Par(els, x))
<1>1. /\ IsFiniteSet(AncestorsOf(els, x))
      /\ \A y \in AncestorsOf(els, x) : RankOf(els)[y] < RankOf(els)[x]
  BY AncestorsBelow
<1>2. IsFiniteSet(KeptAbove(els, x))
  <2>1. KeptAbove(els, x) \in SUBSET AncestorsOf(els, x)
    BY DEF KeptAbove
  <2> QED
    BY <1>1, <2>1, FS_Subset
<1>3. x \notin KeptAbove(els, x)
  <2>1. PICK k \in Nat : k = RankOf(els)[x]
    BY RankIs
  <2>2. ~(k < k)
    OBVIOUS
  <2> QED
    BY <1>1, <2>1, <2>2 DEF KeptAbove
<1>4. -1 \notin IdsOf(els) /\ Redundant(els) \subseteq IdsOf(els)
  BY RankIs DEF Redundant, IdsOf
<1>5. /\ Par(els, x) = -1 => AncestorsOf(els, x) = {}
      /\ Par(els, x) # -1 => AncestorsOf(els, x) = {Par(els, x)} \union AncestorsOf(els, Par(els, x))
  BY AncestorsUp
<1>6. Par(els, x) \in Redundant(els) \/ Par(els, x) \in Keeps(els) => Par(els, x) # -1
  BY <1>4 DEF Keeps
<1>7. Par(els, x) \in Redundant(els) => Par(els, x) \notin Keeps(els)
  BY DEF Keeps
<1> QED
  BY <1>2, <1>3, <1>5, <1>6, <1>7 DEF KeptAbove

LEMMA NewParentIs ==
  ASSUME NEW E, NEW els \in Seq(E), Rooted(els), NEW x \in IdsOf(els)
  PROVE  LET p == NewParent(els, x)
         IN /\ p = -1 => KeptAbove(els, x) = {}
            /\ p # -1 => /\ p \in Keeps(els) /\ RankOf(els)[p] < RankOf(els)[x]
                         /\ KeptAbove(els, x) = {p} \union KeptAbove(els, p)
<1>1. /\ Par(els, x) = -1 \/ Par(els, x) \in IdsOf(els)
      /\ RankOf(els)[Par(els, x)] < RankOf(els)[x]
  BY ParentLower
<1>2. RankOf(els) \in [Int -> Nat] /\ -1 \notin IdsOf(els) /\ IdsOf(els) \subseteq Int
  BY RankIs
<1>3. Redundant(els) \subseteq IdsOf(els)
  BY DEF Redundant, IdsOf
<1>4. CASE Par(els, x) = -1
  <2>1. NewParent(els, x) = -1
    BY <1>2, <1>3, <1>4 DEF NewParent
  <2>2. KeptAbove(els, x) = {}
    BY <1>4, KeptAboveUp
  <2> QED
    BY <2>1, <2>2
<1>5. CASE Par(els, x) \in Keeps(els)
  <2>1. NewParent(els, x) = Par(els, x)
    BY <1>5 DEF NewParent, Keeps
  <2>2. KeptAbove(els, x) = {Par(els, x)} \union KeptAbove(els, Par(els, x))
    BY <1>5, KeptAboveUp
  <2>3. Par(els, x) # -1
    BY <1>2, <1>5 DEF Keeps
  <2> QED
    BY <1>1, <1>5, <2>1, <2>2, <2>3
<1>6. CASE Par(els, x) \in Redundant(els)
  <2>1. PICK y \in Redundant(els) : y = Par(els, x)
    BY <1>6
  <2>2. NewParent(els, x) = FindAncestor(els)[y]
    BY <2>1 DEF NewParent
  <2>3. PICK p : p = FindAncestor(els)[y]
    OBVIOUS
  <2>4. /\ p \in IdsOf(els) \ Redundant(els) /\ RankOf(els)[p] < RankOf(els)[y]
        /\ AncestorsOf(els, y) \intersect (IdsOf(els) \ Redundant(els))
             = {p} \union (AncestorsOf(els, p) \intersect (IdsOf(els) \ Redundant(els)))
    BY <2>3, FoundAncestor
  <2>5. KeptAbove(els, y) = {p} \union KeptAbove(els, p) /\ p \in Keeps(els)
    BY <2>4 DEF KeptAbove, Keeps
  <2>6. KeptAbove(els, x) = KeptAbove(els, y)
    BY <2>1, KeptAboveUp
  <2>7. p # -1
    BY <1>2, <2>4
  <2>8. RankOf(els)[p] < RankOf(els)[x]
    <3>1. p \in Int /\ y \in Int /\ x \in Int
      BY <1>2, <1>3, <2>4
    <3>2. PICK k \in Nat, l \in Nat, m \in Nat :
             k = RankOf(els)[p] /\ l = RankOf(els)[y] /\ m = RankOf(els)[x]
      BY <1>2, <3>1
    <3> QED
      BY <1>1, <2>1, <2>4, <3>2
  <2> QED
    BY <2>2, <2>3, <2>5, <2>6, <2>7, <2>8
<1> QED
  BY <1>1, <1>4, <1>5, <1>6 DEF Keeps

\* calcDepth counts the ancestors that stay.
LEMMA DepthIs ==
  ASSUME NEW E, NEW els \in Seq(E), Rooted(els), NEW x \in Keeps(els)
  PROVE  CalcDepth(els)[x] = Cardinality(KeptAbove(els, x))
<1> DEFINE Above(y) == Cardinality(KeptAbove(els, y))
           Good(y) == CalcDepth(els)[y] = Above(y) - (IF y \in Redundant(els) THEN 1 ELSE 0)
           D == {y \in IdsOf(els) : Good(y)}
<1>1. ASSUME NEW y \in IdsOf(els), Par(els, y) = -1 \/ Par(els, y) \in D
      PROVE  Good(y)
  <2>1. CalcDepth(els)[y] = CalcDepth(els)[Par(els, y)] + (IF y \in Redundant(els) THEN 0 ELSE 1)
    BY CalcDepthUp
  <2>2. CASE Par(els, y) = -1
    <3>1. KeptAbove(els, y) = {}
      BY <2>2, KeptAboveUp
    <3>2. Above(y) = 0
      BY <3>1, FS_EmptySet
    <3>3. y \notin Redundant(els)
      BY <2>2, RedundantIs
    <3>4. CalcDepth(els)[-1] = -1
      BY CalcDepthUp
    <3> HIDE DEF Above
    <3> QED
      BY <2>1, <2>2, <3>2, <3>3, <3>4
  <2>3. CASE Par(els, y) # -1
    <3>1. PICK p \in IdsOf(els) : p = Par(els, y)
      BY <2>3, ParentLower
    <3>2. IsFiniteSet(KeptAbove(els, p)) /\ p \notin KeptAbove(els, p)
      BY KeptAboveUp
    <3>3. PICK n \in Nat : n = Above(p)
      BY <3>2, FS_CardinalityType
    <3>4. Good(p)
      BY <1>1, <2>3, <3>1
    <3>5. Above(y) = IF p \in Redundant(els) THEN n ELSE n + 1
      <4>1. CASE p \in Redundant(els)
        <5>1. KeptAbove(els, y) = KeptAbove(els, p)
          BY <3>1, <4>1, KeptAboveUp
        <5> QED
          BY <3>3, <4>1, <5>1
      <4>2. CASE p \notin Redundant(els)
        <5>1. KeptAbove(els, y) = {p} \union KeptAbove(els, p)
          BY <3>1, <4>2, KeptAboveUp DEF Keeps
        <5>2. PICK above : above = KeptAbove(els, p)
          OBVIOUS
        <5>3. {p} \union above = above \union {p}
          OBVIOUS
        <5>4. Cardinality(above \union {p}) = Cardinality(above) + 1
          BY <3>2, <5>2, FS_AddElement
        <5> QED
          BY <3>3, <4>2, <5>1, <5>2, <5>3, <5>4
      <4> QED
        BY <4>1, <4>2
    <3> HIDE DEF Above
    <3> QED
      BY <2>1, <3>1, <3>3, <3>4, <3>5
  <2> HIDE DEF Good
  <2> QED
    BY <2>2, <2>3
<1>2. IdsOf(els) \subseteq D
  <2> HIDE DEF Good
  <2>1. \A y \in IdsOf(els) : (Par(els, y) = -1 \/ Par(els, y) \in D) => y \in D
    BY <1>1
  <2> HIDE DEF D
  <2> QED
    BY <2>1, DownTheTree
<1>3. x \in IdsOf(els) /\ x \notin Redundant(els)
  BY DEF Keeps
<1>4. Good(x)
  <2> HIDE DEF Good
  <2> QED
    BY <1>2, <1>3
<1>5. Above(x) \in Nat
  <2>1. IsFiniteSet(KeptAbove(els, x))
    BY <1>3, KeptAboveUp
  <2> QED
    BY <2>1, FS_CardinalityType
<1> QED
  BY <1>3, <1>4, <1>5

\* A dump gives each element the number of its ancestors as its depth.
Depths(els) ==
  \A i \in 1 .. Len(els) :
    /\ els[i].parent = -1 => els[i].depth = 0
    /\ \A j \in 1 .. Len(els) : els[j].id = els[i].parent => els[i].depth = els[j].depth + 1

LEMMA DepthsCount ==
  ASSUME NEW E, NEW els \in Seq(E), Rooted(els), Depths(els), NEW i \in 1 .. Len(els)
  PROVE  els[i].depth = Cardinality(AncestorsOf(els, els[i].id))
<1> DEFINE Above(y) == Cardinality(AncestorsOf(els, y))
           D == {y \in IdsOf(els) : ElementOf(els, y).depth = Above(y)}
<1>1. ASSUME NEW y \in IdsOf(els), Par(els, y) = -1 \/ Par(els, y) \in D
      PROVE  ElementOf(els, y).depth = Above(y)
  <2>1. PICK k \in 1 .. Len(els) : els[k].id = y
    BY ElementWith
  <2>2. ElementOf(els, y) = els[k] /\ Par(els, y) = els[k].parent
    BY <2>1, ElementOfIs DEF Par
  <2>3. CASE Par(els, y) = -1
    <3>1. Above(y) = 0
      BY <2>3, AncestorsUp, FS_EmptySet
    <3>2. els[k].depth = 0
      BY <2>2, <2>3 DEF Depths
    <3> QED
      BY <2>2, <3>1, <3>2
  <2>4. CASE Par(els, y) # -1
    <3>1. PICK p \in IdsOf(els) : p = Par(els, y)
      BY <2>4, ParentLower
    <3>2. PICK j \in 1 .. Len(els) : els[j].id = p
      BY ElementWith
    <3>3. ElementOf(els, p) = els[j]
      BY <3>2, ElementOfIs
    <3>4. els[k].depth = els[j].depth + 1
      BY <2>2, <3>1, <3>2 DEF Depths
    <3>5. els[j].depth = Above(p)
      BY <1>1, <2>4, <3>1, <3>3
    <3>6. PICK above : above = AncestorsOf(els, p)
      OBVIOUS
    <3>7. IsFiniteSet(above) /\ p \notin above
      <4>1. PICK r \in Nat : r = RankOf(els)[p]
        BY RankIs
      <4>2. ~(r < r)
        OBVIOUS
      <4> QED
        BY <3>6, <4>1, <4>2, AncestorsBelow
    <3>8. AncestorsOf(els, y) = {p} \union above
      BY <2>4, <3>1, <3>6, AncestorsUp
    <3>9. {p} \union above = above \union {p}
      OBVIOUS
    <3>10. Cardinality(above \union {p}) = Cardinality(above) + 1
      BY <3>7, FS_AddElement
    <3> QED
      BY <2>2, <3>4, <3>5, <3>6, <3>8, <3>9, <3>10
  <2> QED
    BY <2>3, <2>4
<1>2. IdsOf(els) \subseteq D
  <2> HIDE DEF Above
  <2>1. \A y \in IdsOf(els) : (Par(els, y) = -1 \/ Par(els, y) \in D) => y \in D
    BY <1>1
  <2> HIDE DEF D
  <2> QED
    BY <2>1, DownTheTree
<1>3. els[i].id \in IdsOf(els) /\ ElementOf(els, els[i].id) = els[i]
  BY ElementOfIs
<1> QED
  BY <1>2, <1>3

\* t is what s has at the indices in I up to k, and f says where.
Picks(s, I, k, t, f) ==
  /\ f \in [1 .. Len(t) -> I \intersect 1 .. k]
  /\ \A j \in 1 .. Len(t) : t[j] = s[f[j]]
  /\ \A i, j \in 1 .. Len(t) : i < j => f[i] < f[j]
  /\ \A i \in I \intersect 1 .. k : \E j \in 1 .. Len(t) : f[j] = i

LEMMA TakenPicks ==
  ASSUME NEW A, NEW s \in Seq(A), NEW I
  PROVE  \E f : Picks(s, I, Len(s), ElementsAt(s, I), f)
<1> DEFINE D == {k \in Nat : \E f : Picks(s, I, k, Taken(s, I, k), f)}
<1>0. Len(s) \in Nat
  OBVIOUS
<1>1. 0 \in D
  <2>1. PICK f : f = [j \in {} |-> 0]
    OBVIOUS
  <2>2. Len(<<>>) = 0 /\ 1 .. 0 = {}
    OBVIOUS
  <2>3. f \in [{} -> I \intersect 1 .. 0]
    BY <2>1
  <2>4. Picks(s, I, 0, <<>>, f)
    BY <2>2, <2>3 DEF Picks
  <2> QED
    BY <2>4, TakenNone
<1>2. ASSUME NEW k \in Nat, k + 1 <= Len(s), k \in D
      PROVE  k + 1 \in D
  <2>1. k + 1 \in 1 .. Len(s) /\ (k + 1) - 1 = k /\ s[k + 1] \in A
    BY <1>2
  <2>2. PICK t : t = Taken(s, I, k)
    OBVIOUS
  <2>3. /\ t \in Seq(A)
        /\ k + 1 \in I => Taken(s, I, k + 1) = Append(t, s[k + 1])
        /\ k + 1 \notin I => Taken(s, I, k + 1) = t
    BY <2>1, <2>2, TakenStep
  <2>4. PICK f : Picks(s, I, k, t, f)
    BY <1>2, <2>2
  <2>5. CASE k + 1 \notin I
    <3>1. I \intersect 1 .. (k + 1) = I \intersect 1 .. k
      BY <2>5
    <3>2. Picks(s, I, k + 1, t, f)
      BY <2>4, <3>1 DEF Picks
    <3> QED
      BY <2>3, <2>5, <3>2
  <2>6. CASE k + 1 \in I
    <3>1. PICK n \in Nat : n = Len(t)
      BY <2>3
    <3>2. PICK g : g = [j \in 1 .. n + 1 |-> IF j <= n THEN f[j] ELSE k + 1]
      OBVIOUS
    <3>3. PICK u \in Seq(A) : u = Append(t, s[k + 1])
      <4>1. PICK a \in A : a = s[k + 1]
        BY <2>1
      <4>2. Append(t, a) \in Seq(A)
        BY <2>3
      <4> QED
        BY <4>1, <4>2
    <3>4. Len(u) = n + 1 /\ u[n + 1] = s[k + 1] /\ \A j \in 1 .. n : u[j] = t[j]
      BY <2>1, <2>3, <3>1, <3>3
    <3>5. /\ f \in [1 .. n -> I \intersect 1 .. k]
          /\ \A j \in 1 .. n : t[j] = s[f[j]]
          /\ \A i, j \in 1 .. n : i < j => f[i] < f[j]
          /\ \A i \in I \intersect 1 .. k : \E j \in 1 .. n : f[j] = i
      BY <2>4, <3>1 DEF Picks
    <3>6. \A j \in 1 .. n : g[j] = f[j] /\ f[j] \in I /\ f[j] \in 1 .. k
      BY <3>2, <3>5
    <3>7. g[n + 1] = k + 1 /\ \A j \in 1 .. n + 1 : j \in 1 .. n \/ j = n + 1
      BY <3>2
    <3>8. g \in [1 .. n + 1 -> I \intersect 1 .. (k + 1)]
      <4>1. ASSUME NEW j \in 1 .. n + 1
            PROVE  g[j] \in I /\ g[j] \in 1 .. (k + 1)
        BY <2>6, <3>6, <3>7
      <4> QED
        BY <3>2, <4>1
    <3>9. \A j \in 1 .. n + 1 : u[j] = s[g[j]]
      BY <3>4, <3>5, <3>6, <3>7
    <3>10. \A i, j \in 1 .. n + 1 : i < j => g[i] < g[j]
      <4> SUFFICES ASSUME NEW i \in 1 .. n + 1, NEW j \in 1 .. n + 1, i < j
                   PROVE  g[i] < g[j]
        OBVIOUS
      <4>1. i \in 1 .. n
        OBVIOUS
      <4>2. CASE j \in 1 .. n
        BY <3>5, <3>6, <4>1, <4>2
      <4>3. CASE j = n + 1
        BY <3>6, <3>7, <4>1, <4>3
      <4> QED
        BY <3>7, <4>2, <4>3
    <3>11. \A i \in I \intersect 1 .. (k + 1) : \E j \in 1 .. n + 1 : g[j] = i
      <4> SUFFICES ASSUME NEW i \in I, i \in 1 .. (k + 1)
                   PROVE  \E j \in 1 .. n + 1 : g[j] = i
        OBVIOUS
      <4>1. n + 1 \in 1 .. n + 1 /\ \A j \in 1 .. n : j \in 1 .. n + 1
        OBVIOUS
      <4>2. CASE i \in 1 .. k
        BY <3>5, <3>6, <4>1, <4>2
      <4>3. CASE i = k + 1
        BY <3>7, <4>1, <4>3
      <4> QED
        BY <4>2, <4>3
    <3>12. Picks(s, I, k + 1, u, g)
      BY <3>4, <3>8, <3>9, <3>10, <3>11 DEF Picks
    <3>13. u = Taken(s, I, k + 1) /\ k + 1 \in Nat
      BY <2>3, <2>6, <3>3
    <3> QED
      BY <3>12, <3>13
  <2> QED
    BY <2>5, <2>6
<1>3. 0 .. Len(s) \subseteq D
  <2> HIDE DEF D
  <2> QED
    BY <1>0, <1>1, <1>2, IntervalInduction
<1>4. Len(s) \in 0 .. Len(s)
  BY <1>0
<1>5. Len(s) \in D
  <2> HIDE DEF D
  <2> QED
    BY <1>3, <1>4
<1> QED
  BY <1>5, ElementsAtTaken

LEMMA TakenAll ==
  ASSUME NEW A, NEW s \in Seq(A), NEW I, 1 .. Len(s) \subseteq I
  PROVE  ElementsAt(s, I) = s
<1> DEFINE Same(t, k) == t \in Seq(A) /\ Len(t) = k /\ \A j \in 1 .. k : t[j] = s[j]
           D == {k \in Nat : Same(Taken(s, I, k), k)}
<1>0. Len(s) \in Nat
  OBVIOUS
<1>1. 0 \in D
  <2>1. Same(<<>>, 0)
    OBVIOUS
  <2> HIDE DEF Same
  <2> QED
    BY <2>1, TakenNone
<1>2. ASSUME NEW k \in Nat, k + 1 <= Len(s), k \in D
      PROVE  k + 1 \in D
  <2>1. k + 1 \in 1 .. Len(s) /\ (k + 1) - 1 = k
    BY <1>2
  <2>2. PICK a \in A : a = s[k + 1]
    BY <2>1
  <2>3. PICK t : t = Taken(s, I, k)
    OBVIOUS
  <2>4. Same(t, k)
    BY <1>2, <2>3
  <2>5. Taken(s, I, k + 1) = Append(t, a)
    BY <2>1, <2>2, <2>3, TakenStep
  <2>6. PICK u \in Seq(A) : u = Append(t, a)
    <3>1. t \in Seq(A)
      BY <2>4
    <3>2. Append(t, a) \in Seq(A)
      BY <3>1
    <3> QED
      BY <3>2
  <2>7. Len(u) = k + 1 /\ u[k + 1] = a /\ \A j \in 1 .. k : u[j] = t[j]
    BY <2>4, <2>6
  <2>8. \A j \in 1 .. k + 1 : j \in 1 .. k \/ j = k + 1
    OBVIOUS
  <2>9. Same(u, k + 1)
    BY <2>2, <2>4, <2>7, <2>8
  <2>10. u = Taken(s, I, k + 1) /\ k + 1 \in Nat
    BY <2>5, <2>6
  <2> HIDE DEF Same
  <2> QED
    BY <2>9, <2>10
<1>3. 0 .. Len(s) \subseteq D
  <2> HIDE DEF D
  <2> QED
    BY <1>0, <1>1, <1>2, IntervalInduction
<1>4. Len(s) \in D
  <2>1. Len(s) \in 0 .. Len(s)
    BY <1>0
  <2> HIDE DEF D
  <2> QED
    BY <1>3, <2>1
<1>5. PICK t : t = Taken(s, I, Len(s))
  OBVIOUS
<1>6. t \in Seq(A) /\ Len(t) = Len(s) /\ \A j \in 1 .. Len(s) : t[j] = s[j]
  BY <1>4, <1>5
<1>7. t = s
  BY <1>6
<1> QED
  BY <1>5, <1>7, ElementsAtTaken

\* The elements of a dump, as compaction sees them.
DumpEl == [id : Nat, parent : Int, depth : Int, layout : BOOLEAN, plain : BOOLEAN]
KeptAt(els) == {i \in DOMAIN els : els[i].id \in Keeps(els)}
FlatLine(els, el) ==
  [id |-> el.id, parent |-> NewParent(els, el.id), depth |-> Cardinality(KeptAbove(els, el.id))]

LEMMA CompactIs ==
  ASSUME NEW els \in Seq(DumpEl), Rooted(els), Depths(els)
  PROVE  Flat(CompactElements(els)) =
           [j \in 1 .. Len(ElementsAt(els, KeptAt(els))) |->
              FlatLine(els, ElementsAt(els, KeptAt(els))[j])]
<1>0. DOMAIN els = 1 .. Len(els) /\ Len(els) \in Nat
  BY Domain
<1>1. CASE Len(els) <= 1 \/ Redundant(els) = {}
  <2>1. Redundant(els) = {}
    <3> SUFFICES ASSUME NEW x \in Redundant(els), Len(els) <= 1
                 PROVE  FALSE
      BY <1>1
    <3>1. x \in IdsOf(els) /\ Par(els, x) \in IdsOf(els)
      BY RedundantIs
    <3>2. PICK i \in 1 .. Len(els), j \in 1 .. Len(els) : els[i].id = x /\ els[j].id = Par(els, x)
      BY <3>1, ElementWith
    <3>3. i = j
      BY <1>0
    <3>4. x = Par(els, x)
      BY <3>2, <3>3
    <3>5. RankOf(els)[x] < RankOf(els)[x]
      BY <3>1, <3>4, ParentLower
    <3>6. PICK k \in Nat : k = RankOf(els)[x]
      BY <3>1, RankIs
    <3> QED
      BY <3>5, <3>6
  <2>2. Keeps(els) = IdsOf(els)
    BY <2>1 DEF Keeps
  <2>3. 1 .. Len(els) \subseteq KeptAt(els)
    BY <1>0, <2>2 DEF KeptAt, IdsOf
  <2>4. ElementsAt(els, KeptAt(els)) = els
    BY <2>3, TakenAll
  <2>5. Flat(CompactElements(els)) =
          [i \in 1 .. Len(els) |-> [id |-> els[i].id, parent |-> els[i].parent, depth |-> els[i].depth]]
    BY <1>0, <1>1 DEF Flat, CompactElements
  <2>6. ASSUME NEW i \in 1 .. Len(els)
        PROVE  FlatLine(els, els[i])
                 = [id |-> els[i].id, parent |-> els[i].parent, depth |-> els[i].depth]
    <3>1. els[i].id \in IdsOf(els) /\ Par(els, els[i].id) = els[i].parent
      BY ElementOfIs DEF Par
    <3>2. NewParent(els, els[i].id) = els[i].parent
      BY <2>1, <3>1 DEF NewParent
    <3>3. KeptAbove(els, els[i].id) = AncestorsOf(els, els[i].id)
      BY <2>2, <3>1, AncestorsBelow DEF KeptAbove
    <3>4. els[i].depth = Cardinality(AncestorsOf(els, els[i].id))
      BY DepthsCount
    <3> QED
      BY <3>2, <3>3, <3>4 DEF FlatLine
  <2> QED
    BY <2>4, <2>5, <2>6
<1>2. CASE ~(Len(els) <= 1 \/ Redundant(els) = {})
  <2> DEFINE Moved(el) == [el EXCEPT !.parent = IF @ \in Redundant(els)
                                                THEN FindAncestor(els)[@] ELSE @,
                                     !.depth  = CalcDepth(els)[el.id]]
  <2>1. {i \in DOMAIN els : els[i].id \notin Redundant(els)} = KeptAt(els)
    BY DEF KeptAt, Keeps, IdsOf
  <2>2. PICK old : old = ElementsAt(els, KeptAt(els))
    OBVIOUS
  <2>3. CompactElements(els) = [i \in DOMAIN old |-> Moved(old[i])]
    BY <1>2, <2>1, <2>2 DEF CompactElements
  <2>4. old \in Seq(DumpEl)
    BY <2>2, ElementsAtBounds
  <2>5. DOMAIN old = 1 .. Len(old)
    BY <2>4
  <2>6. PICK f : Picks(els, KeptAt(els), Len(els), old, f)
    BY <2>2, TakenPicks
  <2>7. ASSUME NEW j \in 1 .. Len(old)
        PROVE  [id |-> Moved(old[j]).id, parent |-> Moved(old[j]).parent, depth |-> Moved(old[j]).depth]
                 = FlatLine(els, old[j])
    <3>1. PICK i \in 1 .. Len(els) : i \in KeptAt(els) /\ old[j] = els[i]
      BY <2>6 DEF Picks
    <3>2. PICK el \in DumpEl : el = old[j]
      BY <2>4
    <3>3. el.id \in Keeps(els) /\ Par(els, el.id) = el.parent
      BY <3>1, <3>2, ElementOfIs DEF KeptAt, Par
    <3>4. Moved(el).id = el.id /\ Moved(el).depth = CalcDepth(els)[el.id]
          /\ Moved(el).parent = IF el.parent \in Redundant(els)
                                THEN FindAncestor(els)[el.parent] ELSE el.parent
      BY DEF DumpEl
    <3>5. Moved(el).parent = NewParent(els, el.id)
      BY <3>3, <3>4 DEF NewParent
    <3>6. Moved(el).depth = Cardinality(KeptAbove(els, el.id))
      BY <3>3, <3>4, DepthIs
    <3> HIDE DEF Moved
    <3> QED
      BY <3>2, <3>4, <3>5, <3>6 DEF FlatLine
  <2> HIDE DEF Moved
  <2> QED
    BY <2>2, <2>3, <2>5, <2>7 DEF Flat
<1> QED
  BY <1>1, <1>2

\* The result of a compaction is a dump of the same kind, and an element's
\* ancestors in it are those that stay.
LEMMA CompactedRooted ==
  ASSUME NEW els \in Seq(DumpEl), Rooted(els), Depths(els)
  PROVE  LET out == Flat(CompactElements(els))
         IN /\ \E A : out \in Seq(A)
            /\ Rooted(out) /\ IdsOf(out) = Keeps(els)
            /\ \A x \in Keeps(els) : /\ Par(out, x) = NewParent(els, x)
                                     /\ ElementOf(out, x).depth = Cardinality(KeptAbove(els, x))
<1>1. PICK out, old : out = Flat(CompactElements(els)) /\ old = ElementsAt(els, KeptAt(els))
  OBVIOUS
<1>2. old \in Seq(DumpEl)
  BY <1>1, ElementsAtBounds
<1>3. PICK n \in Nat : n = Len(old)
  BY <1>2
<1>4. out = [j \in 1 .. n |-> FlatLine(els, old[j])]
  BY <1>1, <1>3, CompactIs
<1>5. PICK A : A = {out[j] : j \in 1 .. n}
  OBVIOUS
<1>6. out \in Seq(A) /\ Len(out) = n
  <2>1. \A j \in 1 .. n : out[j] \in A
    BY <1>5
  <2>2. out = [j \in 1 .. n |-> out[j]]
    BY <1>4
  <2> QED
    BY <2>1, <2>2
<1>7. PICK f : Picks(els, KeptAt(els), Len(els), old, f)
  BY <1>1, TakenPicks
<1>8. /\ \A j \in 1 .. n : f[j] \in KeptAt(els) /\ f[j] \in 1 .. Len(els) /\ old[j] = els[f[j]]
      /\ \A i, j \in 1 .. n : i < j => f[i] < f[j]
      /\ \A i \in KeptAt(els) \intersect 1 .. Len(els) : \E j \in 1 .. n : f[j] = i
  BY <1>3, <1>7 DEF Picks
<1>9. ASSUME NEW j \in 1 .. n
      PROVE  /\ out[j].id = els[f[j]].id /\ out[j].id \in Keeps(els) /\ out[j].id \in Nat
             /\ out[j].parent = NewParent(els, out[j].id)
             /\ out[j].depth = Cardinality(KeptAbove(els, out[j].id))
             /\ RankOf(els)[out[j].id] = f[j]
  <2>1. out[j] = FlatLine(els, els[f[j]])
    BY <1>4, <1>8
  <2>2. els[f[j]].id \in Keeps(els)
    BY <1>8 DEF KeptAt
  <2>3. els[f[j]].id \in Nat /\ RankOf(els)[els[f[j]].id] = f[j]
    BY <1>8, ElementOfIs DEF Rooted
  <2> QED
    BY <2>1, <2>2, <2>3 DEF FlatLine
<1>10. ASSUME NEW x \in Keeps(els)
       PROVE  \E j \in 1 .. n : out[j].id = x
  <2>1. x \in IdsOf(els)
    BY DEF Keeps
  <2>2. PICK i \in 1 .. Len(els) : els[i].id = x
    BY <2>1, ElementWith
  <2>3. i \in KeptAt(els)
    BY <2>2, Domain DEF KeptAt
  <2>4. PICK j \in 1 .. n : f[j] = i
    BY <1>8, <2>3
  <2> QED
    BY <1>9, <2>2, <2>4
<1>11. ASSUME NEW i \in 1 .. n, NEW j \in 1 .. n, ~(i < j)
       PROVE  ~(f[i] < f[j])
  <2>1. PICK a \in Nat, b \in Nat : a = f[i] /\ b = f[j]
    BY <1>8
  <2>2. CASE i = j
    BY <2>1, <2>2
  <2>3. CASE j < i
    BY <1>8, <2>1, <2>3
  <2> QED
    BY <1>11, <2>2, <2>3
<1>12. Rooted(out)
  <2>1. ASSUME NEW i \in 1 .. n, NEW j \in 1 .. n, out[i].id = out[j].id
        PROVE  i = j
    <3>1. f[i] = f[j]
      BY <1>9, <2>1
    <3>2. PICK a \in Nat : a = f[i]
      BY <1>8
    <3>3. ~(i < j) /\ ~(j < i)
      BY <1>8, <3>1, <3>2
    <3> QED
      BY <3>3
  <2>2. ASSUME NEW j \in 1 .. n
        PROVE  out[j].parent = -1 \/ \E i \in 1 .. n : i < j /\ out[i].id = out[j].parent
    <3>1. PICK x \in IdsOf(els) : x = out[j].id
      BY <1>9 DEF Keeps
    <3>2. PICK p : p = NewParent(els, x)
      OBVIOUS
    <3>3. out[j].parent = p
      BY <1>9, <3>1, <3>2
    <3>4. CASE p # -1
      <4>1. p \in Keeps(els) /\ RankOf(els)[p] < RankOf(els)[x]
        BY <3>2, <3>4, NewParentIs
      <4>2. PICK i \in 1 .. n : out[i].id = p
        BY <1>10, <4>1
      <4>3. f[i] < f[j]
        BY <1>9, <3>1, <4>1, <4>2
      <4>4. i < j
        BY <1>11, <4>3
      <4> QED
        BY <3>3, <4>2, <4>4
    <3> QED
      BY <3>3, <3>4
  <2>3. \A j \in 1 .. n : out[j].id \in Nat
    BY <1>9
  <2> QED
    BY <1>6, <2>1, <2>2, <2>3 DEF Rooted
<1>13. IdsOf(out) = Keeps(els)
  <2>1. DOMAIN out = 1 .. n
    BY <1>4
  <2>2. \A j \in 1 .. n : out[j].id \in Keeps(els)
    BY <1>9
  <2> QED
    BY <1>10, <2>1, <2>2 DEF IdsOf
<1>14. ASSUME NEW x \in Keeps(els)
       PROVE  /\ Par(out, x) = NewParent(els, x)
              /\ ElementOf(out, x).depth = Cardinality(KeptAbove(els, x))
  <2>1. PICK j \in 1 .. n : out[j].id = x
    BY <1>10
  <2>2. ElementOf(out, x) = out[j]
    BY <1>6, <1>12, <2>1, ElementOfIs
  <2> QED
    BY <1>9, <2>1, <2>2 DEF Par
<1> QED
  BY <1>1, <1>6, <1>12, <1>13, <1>14

LEMMA CompactedAncestors ==
  ASSUME NEW els \in Seq(DumpEl), Rooted(els), Depths(els), NEW x \in Keeps(els)
  PROVE  AncestorsOf(Flat(CompactElements(els)), x) = KeptAbove(els, x)
<1>1. PICK out : out = Flat(CompactElements(els))
  OBVIOUS
<1>2. PICK A : out \in Seq(A)
  BY <1>1, CompactedRooted
<1>3. Rooted(out) /\ IdsOf(out) = Keeps(els)
  BY <1>1, CompactedRooted
<1> DEFINE D == {y \in IdsOf(out) : AncestorsOf(out, y) = KeptAbove(els, y)}
<1>4. ASSUME NEW y \in IdsOf(out), Par(out, y) = -1 \/ Par(out, y) \in D
      PROVE  y \in D
  <2>1. y \in Keeps(els) /\ y \in IdsOf(els)
    BY <1>3 DEF Keeps
  <2>2. PICK p : p = Par(out, y)
    OBVIOUS
  <2>3. p = NewParent(els, y)
    BY <1>1, <2>1, <2>2, CompactedRooted
  <2>4. /\ p = -1 => KeptAbove(els, y) = {}
        /\ p # -1 => KeptAbove(els, y) = {p} \union KeptAbove(els, p)
    BY <2>1, <2>3, NewParentIs
  <2>5. /\ p = -1 => AncestorsOf(out, y) = {}
        /\ p # -1 => AncestorsOf(out, y) = {p} \union AncestorsOf(out, p)
    BY <1>2, <1>3, <2>2, AncestorsUp
  <2>6. p # -1 => AncestorsOf(out, p) = KeptAbove(els, p)
    BY <1>4, <2>2
  <2> QED
    BY <2>4, <2>5, <2>6
<1>5. IdsOf(out) \subseteq D
  <2>1. \A y \in IdsOf(out) : (Par(out, y) = -1 \/ Par(out, y) \in D) => y \in D
    BY <1>4
  <2> HIDE DEF D
  <2> QED
    BY <1>2, <1>3, <2>1, DownTheTree
<1> QED
  BY <1>1, <1>3, <1>5

\* What CompactionKeepsTree says of a dump and its lines.
TreeKept(els, out) ==
  LET kept == IdsOf(els) \ Redundant(els)
      old == ElementsAt(els, {i \in DOMAIN els : els[i].id \in kept})
  IN /\ [i \in DOMAIN out |-> out[i].id] = [i \in DOMAIN old |-> old[i].id]
     /\ \A id \in kept :
          /\ AncestorsOf(out, id) = AncestorsOf(els, id) \intersect kept
          /\ \A el \in ToSet(out) :
               el.id = id => el.depth = Cardinality(AncestorsOf(out, id))

LEMMA CompactionKeeps ==
  ASSUME NEW els \in Seq(DumpEl), Rooted(els), Depths(els)
  PROVE  TreeKept(els, Flat(CompactElements(els)))
<1>1. PICK out, old : out = Flat(CompactElements(els)) /\ old = ElementsAt(els, KeptAt(els))
  OBVIOUS
<1>2. old \in Seq(DumpEl)
  BY <1>1, ElementsAtBounds
<1>3. DOMAIN old = 1 .. Len(old)
  BY <1>2
<1>4. out = [j \in 1 .. Len(old) |-> FlatLine(els, old[j])]
  BY <1>1, CompactIs
<1>5. [i \in DOMAIN out |-> out[i].id] = [i \in DOMAIN old |-> old[i].id]
  <2>1. DOMAIN out = DOMAIN old
    BY <1>3, <1>4
  <2>2. \A j \in DOMAIN old : out[j].id = old[j].id
    BY <1>3, <1>4 DEF FlatLine
  <2> QED
    BY <2>1, <2>2
<1>6. ASSUME NEW id \in Keeps(els)
      PROVE  AncestorsOf(out, id) = AncestorsOf(els, id) \intersect Keeps(els)
  BY <1>1, CompactedAncestors DEF KeptAbove
<1>7. ASSUME NEW id \in Keeps(els), NEW el \in ToSet(out), el.id = id
      PROVE  el.depth = Cardinality(AncestorsOf(out, id))
  <2>1. PICK j \in 1 .. Len(old) : el = out[j]
    BY <1>4 DEF ToSet
  <2>2. el = FlatLine(els, old[j])
    BY <1>4, <2>1
  <2>3. el.id = old[j].id /\ el.depth = Cardinality(KeptAbove(els, old[j].id))
    BY <2>2 DEF FlatLine
  <2>4. AncestorsOf(out, id) = KeptAbove(els, id)
    BY <1>1, CompactedAncestors
  <2> QED
    BY <1>7, <2>3, <2>4
<1>8. KeptAt(els) = {i \in DOMAIN els : els[i].id \in Keeps(els)}
  BY DEF KeptAt
<1>9. Keeps(els) = IdsOf(els) \ Redundant(els)
  BY DEF Keeps
<1> QED
  BY <1>1, <1>5, <1>6, <1>7, <1>8, <1>9 DEF TreeKept

(* Compaction of dumps of any size and shape (CompactElements): those in    *)
(* which every element but a root follows its parent and the depths count   *)
(* the ancestors, as the agent writes them; the elements that are dropped   *)
(* may be nested to any depth.                                              *)
THEOREM EveryCompactionKeepsTree ==
  ASSUME \A c \in Calls : c.of = "compact" =>
           c.els \in Seq(DumpEl) /\ Rooted(c.els) /\ Depths(c.els)
  PROVE  AlgSpec => []CompactionKeepsTree
<1>1. ASSUME AlgInv, Answered("compact")
      PROVE  CompactionKeepsTree
  <2>1. /\ call.els \in Seq(DumpEl) /\ Rooted(call.els) /\ Depths(call.els)
        /\ answer = Flat(CompactElements(call.els))
    BY <1>1 DEF AlgInv, Answered, Result
  <2>2. TreeKept(call.els, answer)
    BY <2>1, CompactionKeeps
  <2> QED
    BY <2>2 DEF CompactionKeepsTree, TreeKept
<1>2. AlgInv => CompactionKeepsTree
  BY <1>1 DEF CompactionKeepsTree
<1> QED
  BY <1>2, AlgInvHolds, PTL
-----------------------------------------------------------------------------
(* The dump of one window, whose first element is its root; the tree that   *)
(* buildTree makes of it, with orphans below the root, in terms of indices. *)

Window(els) ==
  /\ Len(els) >= 1 /\ els[1].parent < 0
  /\ \A i \in 1 .. Len(els) : els[i].parent \in Int
  /\ \A i, j \in 1 .. Len(els) : els[i].id = els[j].id => i = j
  /\ \A i \in 2 .. Len(els) :
       /\ els[i].parent >= 0
       /\ \A j \in 1 .. Len(els) : els[j].id = els[i].parent => j < i

Links(els) ==
  [i \in 1 .. Len(els) |-> [id |-> i, parent |-> IF i = 1 THEN -1 ELSE LinkedTo(els, i)]]
Over(els, i) == AncestorsOf(Links(els), i)

LEMMA RootIsFirst ==
  ASSUME NEW E, NEW els \in Seq(E), Window(els)
  PROVE  FirstRoot(els) = 1 /\ 1 \in 1 .. Len(els)
<1>1. DOMAIN els = 1 .. Len(els) /\ Len(els) \in Nat
  BY Domain
<1>2. 1 \in 1 .. Len(els)
  BY <1>1 DEF Window
<1>3. ASSUME NEW i \in 1 .. Len(els), els[i].parent < 0
      PROVE  i = 1
  <2> SUFFICES ASSUME i # 1
               PROVE  FALSE
    OBVIOUS
  <2>1. i \in 2 .. Len(els)
    BY <1>1
  <2>2. els[i].parent >= 0
    BY <2>1 DEF Window
  <2>3. els[i].parent \in Int
    BY DEF Window
  <2> QED
    BY <1>3, <2>2, <2>3
<1>4. {i \in DOMAIN els : els[i].parent < 0} = {1}
  BY <1>1, <1>2, <1>3 DEF Window
<1>5. (CHOOSE i \in {1} : \A j \in {1} : i <= j) = 1
  OBVIOUS
<1> QED
  BY <1>2, <1>4, <1>5 DEF FirstRoot

LEMMA LinkedLower ==
  ASSUME NEW E, NEW els \in Seq(E), Window(els), NEW i \in 2 .. Len(els)
  PROVE  /\ LinkedTo(els, i) \in 1 .. Len(els) /\ LinkedTo(els, i) < i
         /\ els[LinkedTo(els, i)].id = IF els[i].parent \in IdsOf(els) THEN els[i].parent
                                       ELSE els[1].id
<1>1. DOMAIN els = 1 .. Len(els) /\ Len(els) \in Nat
  BY Domain
<1>2. CASE els[i].parent \in IdsOf(els)
  <2>1. PICK j \in 1 .. Len(els) : els[j].id = els[i].parent
    BY <1>2, ElementWith
  <2>2. PICK l : l = CHOOSE k \in DOMAIN els : els[k].id = els[i].parent
    OBVIOUS
  <2>3. l \in 1 .. Len(els) /\ els[l].id = els[i].parent
    BY <1>1, <2>1, <2>2
  <2>4. l < i
    BY <2>3 DEF Window
  <2> QED
    BY <1>2, <2>2, <2>3, <2>4 DEF LinkedTo
<1>3. CASE els[i].parent \notin IdsOf(els)
  <2>1. LinkedTo(els, i) = 1
    BY <1>3, RootIsFirst DEF LinkedTo
  <2>2. 1 < i /\ 1 \in 1 .. Len(els)
    BY <1>1
  <2> QED
    BY <1>3, <2>1, <2>2
<1> QED
  BY <1>2, <1>3

LEMMA ChildrenAre ==
  ASSUME NEW E, NEW els \in Seq(E), Window(els), NEW i
  PROVE  ChildrenOf(els, i) = {j \in 2 .. Len(els) : LinkedTo(els, j) = i}
<1>1. DOMAIN els = 1 .. Len(els) /\ Len(els) \in Nat
  BY Domain
<1>2. ASSUME NEW j \in 1 .. Len(els)
      PROVE  els[j].parent >= 0 <=> j \in 2 .. Len(els)
  <2>1. CASE j = 1
    <3>1. els[1].parent < 0 /\ els[1].parent \in Int
      BY <2>1 DEF Window
    <3>2. ~(els[1].parent >= 0)
      BY <3>1
    <3> QED
      BY <2>1, <3>2
  <2>2. CASE j # 1
    <3>1. j \in 2 .. Len(els)
      BY <1>1, <2>2
    <3> QED
      BY <3>1 DEF Window
  <2> QED
    BY <2>1, <2>2
<1>3. \A j \in 2 .. Len(els) : j \in 1 .. Len(els)
  BY <1>1
<1> QED
  BY <1>1, <1>2, <1>3 DEF ChildrenOf

LEMMA LinkedRooted ==
  ASSUME NEW E, NEW els \in Seq(E), Window(els)
  PROVE  /\ Links(els) \in Seq([id : Int, parent : Int]) /\ Rooted(Links(els))
         /\ IdsOf(Links(els)) = 1 .. Len(els)
         /\ \A i \in 1 .. Len(els) : Par(Links(els), i) = IF i = 1 THEN -1 ELSE LinkedTo(els, i)
<1>1. PICK n \in Nat : n = Len(els)
  BY Domain
<1>2. PICK t : t = Links(els)
  OBVIOUS
<1>3. ASSUME NEW i \in 1 .. n
      PROVE  /\ t[i].id = i /\ t[i].parent = (IF i = 1 THEN -1 ELSE LinkedTo(els, i))
             /\ t[i] \in [id : Int, parent : Int]
             /\ t[i].parent = -1 \/ \E j \in 1 .. n : j < i /\ j = t[i].parent
  <2>1. t[i] = [id |-> i, parent |-> IF i = 1 THEN -1 ELSE LinkedTo(els, i)]
    BY <1>1, <1>2 DEF Links
  <2>2. i # 1 => LinkedTo(els, i) \in 1 .. n /\ LinkedTo(els, i) < i
    <3>1. i # 1 => i \in 2 .. n
      OBVIOUS
    <3> QED
      BY <1>1, <3>1, LinkedLower
  <2>3. PICK p \in Int : p = IF i = 1 THEN -1 ELSE LinkedTo(els, i)
    BY <2>2
  <2> QED
    BY <2>1, <2>2, <2>3
<1>4. t = [i \in 1 .. n |-> t[i]]
  BY <1>1, <1>2 DEF Links
<1>5. t \in Seq([id : Int, parent : Int]) /\ Len(t) = n
  <2>1. PICK P : P = [id : Int, parent : Int]
    OBVIOUS
  <2>2. \A i \in 1 .. n : t[i] \in P
    BY <1>3, <2>1
  <2>3. t \in Seq(P) /\ Len(t) = n
    BY <1>4, <2>2
  <2> QED
    BY <2>1, <2>3
<1>6. Rooted(t)
  <2>1. \A i \in 1 .. n : t[i].id \in Nat
    BY <1>3
  <2> QED
    BY <1>3, <1>5, <2>1 DEF Rooted
<1>7. IdsOf(t) = 1 .. n
  <2>1. DOMAIN t = 1 .. n
    BY <1>4
  <2> QED
    BY <1>3, <2>1 DEF IdsOf
<1>8. ASSUME NEW i \in 1 .. n
      PROVE  Par(t, i) = IF i = 1 THEN -1 ELSE LinkedTo(els, i)
  <2>1. ElementOf(t, t[i].id) = t[i]
    BY <1>5, <1>6, ElementOfIs
  <2> QED
    BY <1>3, <2>1 DEF Par
<1> QED
  BY <1>1, <1>2, <1>5, <1>6, <1>7, <1>8

LEMMA DownTheWindow ==
  ASSUME NEW E, NEW els \in Seq(E), Window(els), NEW D, 1 \in D,
         \A i \in 2 .. Len(els) : LinkedTo(els, i) \in D => i \in D
  PROVE  1 .. Len(els) \subseteq D
<1>1. PICK t \in Seq([id : Int, parent : Int]) : t = Links(els)
  BY LinkedRooted
<1>2. /\ Rooted(t) /\ IdsOf(t) = 1 .. Len(els)
      /\ \A i \in 1 .. Len(els) : Par(t, i) = IF i = 1 THEN -1 ELSE LinkedTo(els, i)
  BY <1>1, LinkedRooted
<1>3. ASSUME NEW i \in IdsOf(t), Par(t, i) = -1 \/ Par(t, i) \in D
      PROVE  i \in D
  <2>1. i \in 1 .. Len(els)
    BY <1>2
  <2>2. CASE i = 1
    BY <2>2
  <2>3. CASE i # 1
    <3>1. i \in 2 .. Len(els)
      BY <2>1, <2>3
    <3>2. LinkedTo(els, i) \in 1 .. Len(els) /\ Par(t, i) = LinkedTo(els, i)
      BY <1>2, <2>1, <2>3, <3>1, LinkedLower
    <3>3. LinkedTo(els, i) # -1
      BY <3>2
    <3> QED
      BY <1>3, <3>1, <3>2, <3>3
  <2> QED
    BY <2>2, <2>3
<1> QED
  BY <1>2, <1>3, DownTheTree

LEMMA OverIs ==
  ASSUME NEW E, NEW els \in Seq(E), Window(els)
  PROVE  /\ Over(els, 1) = {}
         /\ \A i \in 2 .. Len(els) : Over(els, i) = {LinkedTo(els, i)} \union Over(els, LinkedTo(els, i))
         /\ \A i \in 1 .. Len(els) : \A j \in Over(els, i) : j \in 1 .. Len(els) /\ j < i
<1>1. PICK t \in Seq([id : Int, parent : Int]) : t = Links(els)
  BY LinkedRooted
<1>2. /\ Rooted(t) /\ IdsOf(t) = 1 .. Len(els) /\ 1 \in 1 .. Len(els)
      /\ \A i \in 1 .. Len(els) : Par(t, i) = IF i = 1 THEN -1 ELSE LinkedTo(els, i)
  BY <1>1, LinkedRooted, RootIsFirst
<1>3. Over(els, 1) = {}
  <2>1. 1 \in IdsOf(t) /\ Par(t, 1) = -1
    BY <1>2
  <2>2. AncestorsOf(t, 1) = {}
    BY <1>2, <2>1, AncestorsUp
  <2> QED
    BY <1>1, <2>2 DEF Over
<1>4. ASSUME NEW i \in 2 .. Len(els)
      PROVE  Over(els, i) = {LinkedTo(els, i)} \union Over(els, LinkedTo(els, i))
  <2>1. i \in 1 .. Len(els) /\ i # 1
    BY Domain
  <2>2. i \in IdsOf(t) /\ Par(t, i) = LinkedTo(els, i)
    BY <1>2, <2>1
  <2>3. LinkedTo(els, i) # -1
    <3>1. LinkedTo(els, i) \in 1 .. Len(els)
      BY LinkedLower
    <3> QED
      BY <3>1
  <2>4. AncestorsOf(t, i) = {LinkedTo(els, i)} \union AncestorsOf(t, LinkedTo(els, i))
    BY <1>2, <2>2, <2>3, AncestorsUp
  <2> QED
    BY <1>1, <2>4 DEF Over
<1> DEFINE D == {i \in 1 .. Len(els) : \A j \in Over(els, i) : j \in 1 .. Len(els) /\ j < i}
<1>5. 1 \in D
  BY <1>2, <1>3
<1>6. ASSUME NEW i \in 2 .. Len(els), LinkedTo(els, i) \in D
      PROVE  i \in D
  <2>1. PICK l \in 1 .. Len(els) : l = LinkedTo(els, i) /\ l < i
    BY LinkedLower
  <2>2. i \in 1 .. Len(els)
    BY Domain
  <2>3. Over(els, i) = {l} \union Over(els, l)
    BY <1>4, <2>1
  <2>4. \A j \in Over(els, l) : j \in 1 .. Len(els) /\ j < l
    BY <1>6, <2>1
  <2>5. \A j \in Over(els, l) : j \in 1 .. Len(els) /\ j < i
    BY <2>1, <2>2, <2>4
  <2> QED
    BY <2>1, <2>2, <2>3, <2>5
<1>7. 1 .. Len(els) \subseteq D
  <2> HIDE DEF D
  <2> QED
    BY <1>5, <1>6, DownTheWindow
<1> QED
  BY <1>3, <1>4, <1>7

\* The elements at and below element i.
Sub(els, i) == {x \in 1 .. Len(els) : x = i \/ i \in Over(els, x)}

LEMMA OverClosed ==
  ASSUME NEW E, NEW els \in Seq(E), Window(els), NEW x \in 1 .. Len(els)
  PROVE  /\ \A y \in Over(els, x) : Over(els, y) \subseteq Over(els, x)
         /\ x # 1 => 1 \in Over(els, x)
         /\ \A a, b \in {x} \union Over(els, x) : a = b \/ a \in Over(els, b) \/ b \in Over(els, a)
         /\ \A y \in Over(els, x) : \E c \in ChildrenOf(els, y) : c = x \/ c \in Over(els, x)
<1> DEFINE Kids(y) == {j \in 2 .. Len(els) : LinkedTo(els, j) = y}
           Closed(i, above) ==
             /\ \A y \in above : Over(els, y) \subseteq above
             /\ i # 1 => 1 \in above
             /\ \A a, b \in {i} \union above : a = b \/ a \in Over(els, b) \/ b \in Over(els, a)
             /\ \A y \in above : \E c \in Kids(y) : c = i \/ c \in above
           D == {i \in 1 .. Len(els) : Closed(i, Over(els, i))}
<1>1. 1 \in D
  <2>1. Over(els, 1) = {} /\ 1 \in 1 .. Len(els)
    BY OverIs, RootIsFirst
  <2> QED
    BY <2>1
<1>2. ASSUME NEW i \in 2 .. Len(els), LinkedTo(els, i) \in D
      PROVE  i \in D
  <2>1. PICK l \in 1 .. Len(els) : l = LinkedTo(els, i)
    BY LinkedLower
  <2>2. PICK above : above = Over(els, l)
    OBVIOUS
  <2>3. Over(els, i) = {l} \union above
    BY <2>1, <2>2, OverIs
  <2>4. Closed(l, above)
    BY <1>2, <2>1, <2>2
  <2>5. i \in 1 .. Len(els) /\ i # 1
    BY Domain
  <2>6. \A y \in {l} \union above : Over(els, y) \subseteq {l} \union above
    BY <2>2, <2>4
  <2>7. 1 \in {l} \union above
    BY <2>4
  <2>8. \A a, b \in {i} \union ({l} \union above) : a = b \/ a \in Over(els, b) \/ b \in Over(els, a)
    BY <2>3, <2>4
  <2>9. i \in Kids(l)
    BY <2>1
  <2>10. \A y \in {l} \union above : \E c \in Kids(y) : c = i \/ c \in {l} \union above
    BY <2>4, <2>9
  <2>11. Closed(i, {l} \union above)
    BY <2>6, <2>7, <2>8, <2>10
  <2> HIDE DEF Closed
  <2> QED
    BY <2>3, <2>5, <2>11
<1>3. 1 .. Len(els) \subseteq D
  <2> HIDE DEF D
  <2> QED
    BY <1>1, <1>2, DownTheWindow
<1>4. Closed(x, Over(els, x))
  <2> HIDE DEF Closed
  <2> QED
    BY <1>3
<1>5. \A y : ChildrenOf(els, y) = Kids(y)
  BY ChildrenAre
<1> QED
  BY <1>4, <1>5

\* The elements below an element are those at and below its children.
LEMMA SubIs ==
  ASSUME NEW E, NEW els \in Seq(E), Window(els), NEW i \in 1 .. Len(els)
  PROVE  /\ i \in Sub(els, i) /\ Sub(els, i) \subseteq 1 .. Len(els)
         /\ \A c \in ChildrenOf(els, i) : Sub(els, c) \subseteq Sub(els, i) /\ i \notin Sub(els, c)
         /\ \A x \in Sub(els, i) : x = i \/ \E c \in ChildrenOf(els, i) : x \in Sub(els, c)
         /\ \A c, d \in ChildrenOf(els, i) : c # d => Sub(els, c) \intersect Sub(els, d) = {}
<1>0. \A c \in ChildrenOf(els, i) :
         /\ c \in 2 .. Len(els) /\ LinkedTo(els, c) = i /\ c \in 1 .. Len(els)
         /\ Over(els, c) = {i} \union Over(els, i) /\ i < c
  <2> TAKE c \in ChildrenOf(els, i)
  <2>1. c \in 2 .. Len(els) /\ LinkedTo(els, c) = i
    BY ChildrenAre
  <2>2. c \in 1 .. Len(els)
    BY <2>1, Domain
  <2> QED
    BY <2>1, <2>2, OverIs, LinkedLower
<1>1. ASSUME NEW c \in ChildrenOf(els, i)
      PROVE  Sub(els, c) \subseteq Sub(els, i) /\ i \notin Sub(els, c)
  <2>1. ASSUME NEW x \in Sub(els, c)
        PROVE  x \in Sub(els, i)
    <3>1. CASE x = c
      BY <1>0, <3>1 DEF Sub
    <3>2. CASE x # c
      <4>1. c \in Over(els, x) /\ x \in 1 .. Len(els)
        BY <3>2 DEF Sub
      <4>2. Over(els, c) \subseteq Over(els, x)
        BY <4>1, OverClosed
      <4> QED
        BY <1>0, <4>1, <4>2 DEF Sub
    <3> QED
      BY <3>1, <3>2
  <2>2. i \notin Sub(els, c)
    <3>1. i < c /\ c \in 1 .. Len(els) /\ i \in 1 .. Len(els)
      BY <1>0
    <3>2. c \in Over(els, i) => c < i
      BY OverIs
    <3>3. ~(c < i) /\ i # c
      BY <3>1
    <3> QED
      BY <3>2, <3>3 DEF Sub
  <2> QED
    BY <2>1, <2>2
<1>2. ASSUME NEW x \in Sub(els, i), x # i
      PROVE  \E c \in ChildrenOf(els, i) : x \in Sub(els, c)
  <2>1. x \in 1 .. Len(els) /\ i \in Over(els, x)
    BY <1>2 DEF Sub
  <2>2. PICK c \in ChildrenOf(els, i) : c = x \/ c \in Over(els, x)
    BY <2>1, OverClosed
  <2> QED
    BY <2>1, <2>2 DEF Sub
<1>3. ASSUME NEW c \in ChildrenOf(els, i), NEW d \in ChildrenOf(els, i), NEW x \in Sub(els, c),
             x \in Sub(els, d)
      PROVE  c = d
  <2>1. x \in 1 .. Len(els) /\ c \in {x} \union Over(els, x) /\ d \in {x} \union Over(els, x)
    BY <1>3 DEF Sub
  <2>2. c = d \/ c \in Over(els, d) \/ d \in Over(els, c)
    BY <2>1, OverClosed
  <2>3. ASSUME NEW a \in ChildrenOf(els, i), NEW b \in ChildrenOf(els, i), a \in Over(els, b)
        PROVE  FALSE
    <3>1. a = i \/ a \in Over(els, i)
      BY <1>0, <2>3
    <3>2. i < a /\ a \in 1 .. Len(els) /\ i \in 1 .. Len(els)
      BY <1>0
    <3>3. a \in Over(els, i) => a < i
      BY OverIs
    <3> QED
      BY <3>1, <3>2, <3>3
  <2> QED
    BY <2>2, <2>3
<1>4. i \in Sub(els, i) /\ Sub(els, i) \subseteq 1 .. Len(els)
  BY DEF Sub
<1>5. ASSUME NEW c \in ChildrenOf(els, i), NEW d \in ChildrenOf(els, i), c # d
      PROVE  Sub(els, c) \intersect Sub(els, d) = {}
  BY <1>3, <1>5
<1> QED
  BY <1>1, <1>2, <1>4, <1>5

LEMMA SubOfRoot ==
  ASSUME NEW E, NEW els \in Seq(E), Window(els)
  PROVE  Sub(els, 1) = 1 .. Len(els)
<1>1. ASSUME NEW x \in 1 .. Len(els)
      PROVE  x \in Sub(els, 1)
  BY OverClosed DEF Sub
<1> QED
  BY <1>1 DEF Sub

(* Lines that show a set of elements, p telling which line is for which;    *)
(* and the line that holds line k, the last before it that is nested less.  *)
Shown(els, t, p, S, d) ==
  /\ p \in [1 .. Len(t) -> S]
  /\ \A k \in 1 .. Len(t) : t[k].id = els[p[k]].id /\ t[k].nesting \in Nat /\ t[k].nesting >= d
  /\ \A k, m \in 1 .. Len(t) : p[k] = p[m] => k = m
  /\ \A x \in S : \E k \in 1 .. Len(t) : p[k] = x
HeldBy(els, t, p, h, k) ==
  /\ p[h] = LinkedTo(els, p[k]) /\ t[k].nesting = t[h].nesting + 1
  /\ \A m \in 1 .. Len(t) : h < m /\ m < k => t[m].nesting >= t[k].nesting
Held(els, t, p, k) == \E h \in 1 .. Len(t) : h < k /\ HeldBy(els, t, p, h, k)

\* u is t and then s.
JoinedOf(u, r, t, p, s, q) ==
  /\ Len(t) \in Nat /\ Len(s) \in Nat /\ Len(u) = Len(t) + Len(s)
  /\ DOMAIN r = 1 .. (Len(t) + Len(s)) /\ r = [k \in DOMAIN r |-> r[k]]
  /\ \A k \in 1 .. Len(t) : u[k] = t[k] /\ r[k] = p[k]
  /\ \A k \in 1 .. Len(s) : u[Len(t) + k] = s[k] /\ r[Len(t) + k] = q[k]

LEMMA JoinedExists ==
  ASSUME NEW A, NEW t \in Seq(A), NEW s \in Seq(A), NEW p, NEW q
  PROVE  t \o s \in Seq(A) /\ \E r : JoinedOf(t \o s, r, t, p, s, q)
<1>1. PICK n \in Nat, m \in Nat : n = Len(t) /\ m = Len(s)
  OBVIOUS
<1>2. PICK u \in Seq(A) : u = t \o s
  <2>1. t \o s \in Seq(A)
    OBVIOUS
  <2> QED
    BY <2>1
<1>3. /\ Len(u) = n + m
      /\ \A k \in 1 .. n : u[k] = t[k]
      /\ \A k \in 1 .. m : u[n + k] = s[k]
  BY <1>1, <1>2
<1>4. PICK r : r = [k \in 1 .. (n + m) |-> IF k <= n THEN p[k] ELSE q[k - n]]
  OBVIOUS
<1>5. /\ DOMAIN r = 1 .. (n + m) /\ r = [k \in DOMAIN r |-> r[k]]
      /\ \A k \in 1 .. n : r[k] = p[k]
  BY <1>4
<1>6. ASSUME NEW k \in 1 .. m
      PROVE  r[n + k] = q[k]
  <2>1. n + k \in 1 .. (n + m) /\ ~(n + k <= n) /\ (n + k) - n = k
    OBVIOUS
  <2> QED
    BY <1>4, <2>1
<1>7. JoinedOf(u, r, t, p, s, q)
  BY <1>1, <1>3, <1>5, <1>6 DEF JoinedOf
<1> QED
  BY <1>2, <1>7

LEMMA JoinedParts ==
  ASSUME NEW n \in Nat, NEW m \in Nat, NEW k \in 1 .. (n + m)
  PROVE  k \in 1 .. n \/ \E j \in 1 .. m : k = n + j
<1>1. CASE k <= n
  BY <1>1
<1>2. CASE ~(k <= n)
  <2>1. k - n \in 1 .. m /\ k = n + (k - n)
    BY <1>2
  <2> QED
    BY <2>1
<1> QED
  BY <1>1, <1>2

LEMMA JoinedShown ==
  ASSUME NEW els, NEW u, NEW r, NEW t, NEW p, NEW s, NEW q, JoinedOf(u, r, t, p, s, q),
         NEW S, NEW T, NEW d, Shown(els, t, p, S, d), Shown(els, s, q, T, d),
         S \intersect T = {}
  PROVE  Shown(els, u, r, S \union T, d)
<1>1. PICK n \in Nat, m \in Nat : n = Len(t) /\ m = Len(s)
  BY DEF JoinedOf
<1>2. /\ Len(u) = n + m /\ DOMAIN r = 1 .. (n + m) /\ r = [k \in DOMAIN r |-> r[k]]
      /\ \A k \in 1 .. n : u[k] = t[k] /\ r[k] = p[k]
      /\ \A k \in 1 .. m : u[n + k] = s[k] /\ r[n + k] = q[k]
  BY <1>1 DEF JoinedOf
<1>3. \A k \in 1 .. (n + m) : k \in 1 .. n \/ \E j \in 1 .. m : k = n + j
  BY JoinedParts
<1>4. /\ \A k \in 1 .. n : k \in 1 .. (n + m)
      /\ \A k \in 1 .. m : n + k \in 1 .. (n + m)
  OBVIOUS
<1>5. /\ \A k \in 1 .. n : p[k] \in S /\ t[k].id = els[p[k]].id /\ t[k].nesting \in Nat /\ t[k].nesting >= d
      /\ \A k, l \in 1 .. n : p[k] = p[l] => k = l
      /\ \A x \in S : \E k \in 1 .. n : p[k] = x
  BY <1>1 DEF Shown
<1>6. /\ \A k \in 1 .. m : q[k] \in T /\ s[k].id = els[q[k]].id /\ s[k].nesting \in Nat /\ s[k].nesting >= d
      /\ \A k, l \in 1 .. m : q[k] = q[l] => k = l
      /\ \A x \in T : \E k \in 1 .. m : q[k] = x
  BY <1>1 DEF Shown
<1>7. ASSUME NEW k \in 1 .. (n + m)
      PROVE  /\ r[k] \in S \union T /\ u[k].id = els[r[k]].id
             /\ u[k].nesting \in Nat /\ u[k].nesting >= d
  <2>1. CASE k \in 1 .. n
    BY <1>2, <1>5, <2>1
  <2>2. CASE \E j \in 1 .. m : k = n + j
    <3>1. PICK j \in 1 .. m : k = n + j
      BY <2>2
    <3>2. u[k] = s[j] /\ r[k] = q[j]
      BY <1>2, <3>1
    <3> QED
      BY <1>6, <3>2
  <2> QED
    BY <1>3, <2>1, <2>2
<1>8. r \in [1 .. (n + m) -> S \union T]
  BY <1>2, <1>7
<1>9. ASSUME NEW k \in 1 .. (n + m), NEW l \in 1 .. (n + m), r[k] = r[l]
      PROVE  k = l
  <2>1. CASE k \in 1 .. n /\ l \in 1 .. n
    BY <1>2, <1>5, <1>9, <2>1
  <2>2. CASE (\E j \in 1 .. m : k = n + j) /\ (\E j \in 1 .. m : l = n + j)
    <3>1. PICK i \in 1 .. m, j \in 1 .. m : k = n + i /\ l = n + j
      BY <2>2
    <3>2. q[i] = q[j]
      BY <1>2, <1>9, <3>1
    <3>3. i = j
      BY <1>6, <3>2
    <3> QED
      BY <3>1, <3>3
  <2>3. CASE k \in 1 .. n /\ \E j \in 1 .. m : l = n + j
    <3>1. PICK j \in 1 .. m : l = n + j
      BY <2>3
    <3>2. p[k] \in S /\ q[j] \in T /\ p[k] = q[j]
      BY <1>2, <1>5, <1>6, <1>9, <2>3, <3>1
    <3> QED
      BY <3>2
  <2>4. CASE l \in 1 .. n /\ \E j \in 1 .. m : k = n + j
    <3>1. PICK j \in 1 .. m : k = n + j
      BY <2>4
    <3>2. p[l] \in S /\ q[j] \in T /\ p[l] = q[j]
      BY <1>2, <1>5, <1>6, <1>9, <2>4, <3>1
    <3> QED
      BY <3>2
  <2> QED
    BY <1>3, <2>1, <2>2, <2>3, <2>4
<1>10. ASSUME NEW x \in S \union T
       PROVE  \E k \in 1 .. (n + m) : r[k] = x
  <2>1. CASE x \in S
    <3>1. PICK k \in 1 .. n : p[k] = x
      BY <1>5, <2>1
    <3> QED
      BY <1>2, <1>4, <3>1
  <2>2. CASE x \in T
    <3>1. PICK k \in 1 .. m : q[k] = x
      BY <1>6, <2>2
    <3> QED
      BY <1>2, <1>4, <3>1
  <2> QED
    BY <2>1, <2>2
<1> QED
  BY <1>2, <1>7, <1>8, <1>9, <1>10 DEF Shown

LEMMA HeldLeft ==
  ASSUME NEW els, NEW u, NEW r, NEW t, NEW p, NEW s, NEW q, JoinedOf(u, r, t, p, s, q),
         NEW k \in 1 .. Len(t), Held(els, t, p, k)
  PROVE  Held(els, u, r, k)
<1>1. PICK n \in Nat, m \in Nat : n = Len(t) /\ m = Len(s)
  BY DEF JoinedOf
<1>2. Len(u) = n + m /\ \A l \in 1 .. n : u[l] = t[l] /\ r[l] = p[l]
  BY <1>1 DEF JoinedOf
<1>3. PICK h \in 1 .. n : h < k /\ HeldBy(els, t, p, h, k)
  BY <1>1 DEF Held
<1>4. k \in 1 .. n
  BY <1>1
<1>5. r[h] = LinkedTo(els, r[k]) /\ u[k].nesting = u[h].nesting + 1
  BY <1>2, <1>3, <1>4 DEF HeldBy
<1>6. ASSUME NEW l \in 1 .. (n + m), h < l, l < k
      PROVE  u[l].nesting >= u[k].nesting
  <2>1. l \in 1 .. n
    BY <1>4, <1>6
  <2>2. t[l].nesting >= t[k].nesting
    BY <1>1, <1>3, <1>6, <2>1 DEF HeldBy
  <2> QED
    BY <1>2, <1>4, <2>1, <2>2
<1>7. h \in 1 .. (n + m)
  OBVIOUS
<1>8. HeldBy(els, u, r, h, k)
  BY <1>2, <1>5, <1>6 DEF HeldBy
<1> QED
  BY <1>2, <1>3, <1>7, <1>8 DEF Held

LEMMA HeldRight ==
  ASSUME NEW els, NEW u, NEW r, NEW t, NEW p, NEW s, NEW q, JoinedOf(u, r, t, p, s, q),
         NEW k \in 1 .. Len(s), Held(els, s, q, k)
  PROVE  Held(els, u, r, Len(t) + k)
<1>1. PICK n \in Nat, m \in Nat : n = Len(t) /\ m = Len(s)
  BY DEF JoinedOf
<1>2. Len(u) = n + m /\ \A l \in 1 .. m : u[n + l] = s[l] /\ r[n + l] = q[l]
  BY <1>1 DEF JoinedOf
<1>3. PICK h \in 1 .. m : h < k /\ HeldBy(els, s, q, h, k)
  BY <1>1 DEF Held
<1>4. k \in 1 .. m
  BY <1>1
<1>5. r[n + h] = LinkedTo(els, r[n + k]) /\ u[n + k].nesting = u[n + h].nesting + 1
  BY <1>2, <1>3, <1>4 DEF HeldBy
<1>6. ASSUME NEW l \in 1 .. (n + m), n + h < l, l < n + k
      PROVE  u[l].nesting >= u[n + k].nesting
  <2>1. PICK j \in 1 .. m : l = n + j
    <3>1. ~(l \in 1 .. n)
      BY <1>6
    <3> QED
      BY <3>1, JoinedParts
  <2>2. h < j /\ j < k
    BY <1>4, <1>6, <2>1
  <2>3. s[j].nesting >= s[k].nesting
    BY <1>1, <1>3, <2>2 DEF HeldBy
  <2> QED
    BY <1>2, <1>4, <2>1, <2>3
<1>7. n + h \in 1 .. (n + m) /\ n + h < n + k
  BY <1>3, <1>4
<1>8. HeldBy(els, u, r, n + h, n + k)
  BY <1>2, <1>5, <1>6 DEF HeldBy
<1> QED
  BY <1>1, <1>2, <1>7, <1>8 DEF Held

\* The lines of element i and of what is below it, and those of what is at
\* and below some of its children.
Block(els, s, p, i, d) ==
  /\ Shown(els, s, p, Sub(els, i), d) /\ Len(s) \in Nat /\ 1 <= Len(s)
  /\ p[1] = i /\ s[1].nesting = d
  /\ \A k \in 2 .. Len(s) : s[k].nesting > d /\ Held(els, s, p, k)
Under(els, C) == UNION {Sub(els, c) : c \in C}
Forest(els, t, p, i, C, d) ==
  /\ Shown(els, t, p, Under(els, C), d + 1)
  /\ \A k \in 1 .. Len(t) : \/ LinkedTo(els, p[k]) = i /\ t[k].nesting = d + 1
                            \/ Held(els, t, p, k)

LEMMA ForestGrows ==
  ASSUME NEW E, NEW els \in Seq(E), Window(els), NEW i \in 1 .. Len(els), NEW d \in Nat,
         NEW C \in SUBSET ChildrenOf(els, i), NEW j \in ChildrenOf(els, i), j \notin C,
         NEW A, NEW t \in Seq(A), NEW s \in Seq(A), NEW p, NEW q,
         Forest(els, t, p, i, C, d), Block(els, s, q, j, d + 1)
  PROVE  t \o s \in Seq(A) /\ \E r : Forest(els, t \o s, r, i, C \union {j}, d)
<1>1. PICK u, r : u \in Seq(A) /\ u = t \o s /\ JoinedOf(u, r, t, p, s, q)
  <2>1. t \o s \in Seq(A) /\ \E r : JoinedOf(t \o s, r, t, p, s, q)
    BY JoinedExists
  <2> QED
    BY <2>1
<1>2. Under(els, C) \intersect Sub(els, j) = {}
  <2>1. \A c \in C : c \in ChildrenOf(els, i) /\ c # j
    OBVIOUS
  <2>2. \A c \in C : Sub(els, c) \intersect Sub(els, j) = {}
    BY <2>1, SubIs
  <2> QED
    BY <2>2 DEF Under
<1>3. Under(els, C) \union Sub(els, j) = Under(els, C \union {j})
  BY DEF Under
<1>4. Shown(els, t, p, Under(els, C), d + 1) /\ Shown(els, s, q, Sub(els, j), d + 1)
  BY DEF Forest, Block
<1>5. Shown(els, u, r, Under(els, C \union {j}), d + 1)
  <2>1. Shown(els, u, r, Under(els, C) \union Sub(els, j), d + 1)
    BY <1>1, <1>2, <1>4, JoinedShown
  <2> QED
    BY <1>3, <2>1
<1>6. PICK n \in Nat, m \in Nat : n = Len(t) /\ m = Len(s)
  OBVIOUS
<1>7. /\ Len(u) = n + m
      /\ \A k \in 1 .. n : u[k] = t[k] /\ r[k] = p[k]
      /\ \A k \in 1 .. m : u[n + k] = s[k] /\ r[n + k] = q[k]
  BY <1>1, <1>6 DEF JoinedOf
<1>8. ASSUME NEW k \in 1 .. n
      PROVE  (LinkedTo(els, r[k]) = i /\ u[k].nesting = d + 1) \/ Held(els, u, r, k)
  <2>1. CASE LinkedTo(els, p[k]) = i /\ t[k].nesting = d + 1
    BY <1>7, <2>1
  <2>2. CASE Held(els, t, p, k)
    BY <1>1, <1>6, <2>2, HeldLeft
  <2> QED
    BY <1>6, <2>1, <2>2 DEF Forest
<1>9. ASSUME NEW k \in 1 .. m
      PROVE  (LinkedTo(els, r[n + k]) = i /\ u[n + k].nesting = d + 1) \/ Held(els, u, r, n + k)
  <2>1. CASE k = 1
    <3>1. q[1] = j /\ s[1].nesting = d + 1
      BY DEF Block
    <3>2. LinkedTo(els, j) = i
      BY ChildrenAre
    <3> QED
      BY <1>7, <2>1, <3>1, <3>2
  <2>2. CASE k # 1
    <3>1. k \in 2 .. m
      BY <2>2
    <3>2. Held(els, s, q, k)
      BY <1>6, <3>1 DEF Block
    <3> QED
      BY <1>1, <1>6, <3>2, HeldRight
  <2> QED
    BY <2>1, <2>2
<1>10. ASSUME NEW k \in 1 .. (n + m)
       PROVE  (LinkedTo(els, r[k]) = i /\ u[k].nesting = d + 1) \/ Held(els, u, r, k)
  <2>1. k \in 1 .. n \/ \E l \in 1 .. m : k = n + l
    BY JoinedParts
  <2> QED
    BY <1>8, <1>9, <2>1
<1>11. Forest(els, u, r, i, C \union {j}, d)
  BY <1>5, <1>7, <1>10 DEF Forest
<1> QED
  BY <1>1, <1>11

LEMMA BlockOf ==
  ASSUME NEW E, NEW els \in Seq(E), Window(els), NEW i \in 1 .. Len(els), NEW d \in Nat,
         NEW A, NEW t \in Seq(A), NEW line \in A, NEW p,
         line.id = els[i].id, line.nesting = d,
         Forest(els, t, p, i, ChildrenOf(els, i), d)
  PROVE  <<line>> \o t \in Seq(A) /\ \E r : Block(els, <<line>> \o t, r, i, d)
<1>1. PICK one \in Seq(A) : one = <<line>> /\ Len(one) = 1 /\ one[1] = line
  <2>1. <<line>> \in Seq(A)
    OBVIOUS
  <2> QED
    BY <2>1
<1>2. PICK f : f = [k \in 1 .. 1 |-> i]
  OBVIOUS
<1>3. PICK u, r : u \in Seq(A) /\ u = one \o t /\ JoinedOf(u, r, one, f, t, p)
  <2>1. one \o t \in Seq(A) /\ \E r : JoinedOf(one \o t, r, one, f, t, p)
    BY JoinedExists
  <2> QED
    BY <2>1
<1>4. Shown(els, one, f, {i}, d)
  <2>1. f \in [1 .. 1 -> {i}] /\ f[1] = i /\ \A k \in 1 .. 1 : k = 1
    BY <1>2
  <2>2. 1 \in 1 .. 1 /\ d >= d
    OBVIOUS
  <2> QED
    BY <1>1, <2>1, <2>2 DEF Shown
<1>5. Under(els, ChildrenOf(els, i)) \union {i} = Sub(els, i) /\ i \notin Under(els, ChildrenOf(els, i))
  BY SubIs DEF Under
<1>6. PICK m \in Nat : m = Len(t)
  OBVIOUS
<1>7. Shown(els, t, p, Under(els, ChildrenOf(els, i)), d)
  <2>1. Shown(els, t, p, Under(els, ChildrenOf(els, i)), d + 1)
    BY DEF Forest
  <2>2. \A x \in Nat : x >= d + 1 => x >= d
    OBVIOUS
  <2> QED
    BY <2>1, <2>2 DEF Shown
<1>8. Shown(els, u, r, Sub(els, i), d)
  <2>1. {i} \intersect Under(els, ChildrenOf(els, i)) = {}
    BY <1>5
  <2>2. {i} \union Under(els, ChildrenOf(els, i)) = Sub(els, i)
    BY <1>5
  <2>3. Shown(els, u, r, {i} \union Under(els, ChildrenOf(els, i)), d)
    BY <1>3, <1>4, <1>7, <2>1, JoinedShown
  <2> QED
    BY <2>2, <2>3
<1>9. /\ Len(u) = 1 + m /\ u[1] = line /\ r[1] = i
      /\ \A k \in 1 .. m : u[1 + k] = t[k] /\ r[1 + k] = p[k]
  <2>1. /\ Len(u) = 1 + m
        /\ \A k \in 1 .. 1 : u[k] = one[k] /\ r[k] = f[k]
        /\ \A k \in 1 .. m : u[1 + k] = t[k] /\ r[1 + k] = p[k]
    BY <1>1, <1>3, <1>6 DEF JoinedOf
  <2>2. 1 \in 1 .. 1
    OBVIOUS
  <2> QED
    BY <1>1, <1>2, <2>1, <2>2
<1>10. \A k \in 1 .. m : t[k].nesting \in Nat /\ t[k].nesting >= d + 1
  BY <1>6 DEF Forest, Shown
<1>11. ASSUME NEW k \in 1 .. m
       PROVE  u[1 + k].nesting > d /\ Held(els, u, r, 1 + k)
  <2>1. u[1 + k].nesting > d
    <3>1. PICK x \in Nat : x = t[k].nesting /\ x >= d + 1
      BY <1>10
    <3>2. x > d
      BY <3>1
    <3> QED
      BY <1>9, <3>1, <3>2
  <2>2. CASE LinkedTo(els, p[k]) = i /\ t[k].nesting = d + 1
    <3>1. r[1] = LinkedTo(els, r[1 + k]) /\ u[1 + k].nesting = u[1].nesting + 1
      BY <1>9, <2>2
    <3>2. ASSUME NEW l \in 1 .. (1 + m), 1 < l
          PROVE  u[l].nesting >= u[1 + k].nesting
      <4>1. l - 1 \in 1 .. m /\ l = 1 + (l - 1)
        BY <3>2
      <4>2. u[l] = t[l - 1]
        BY <1>9, <4>1
      <4> QED
        BY <1>9, <1>10, <2>2, <4>1, <4>2
    <3>3. HeldBy(els, u, r, 1, 1 + k)
      BY <1>9, <3>1, <3>2 DEF HeldBy
    <3>4. 1 \in 1 .. (1 + m) /\ 1 < 1 + k
      OBVIOUS
    <3> QED
      BY <1>9, <2>1, <3>3, <3>4 DEF Held
  <2>3. CASE Held(els, t, p, k)
    <3>1. Held(els, u, r, Len(one) + k)
      BY <1>3, <1>6, <2>3, HeldRight
    <3> QED
      BY <1>1, <2>1, <3>1
  <2> QED
    BY <1>6, <2>2, <2>3 DEF Forest
<1>12. ASSUME NEW k \in 2 .. (1 + m)
       PROVE  u[k].nesting > d /\ Held(els, u, r, k)
  <2>1. k - 1 \in 1 .. m /\ k = 1 + (k - 1)
    OBVIOUS
  <2> QED
    BY <1>11, <2>1
<1>13. Block(els, u, r, i, d)
  <2>1. 1 + m \in Nat /\ 1 <= 1 + m
    OBVIOUS
  <2> QED
    BY <1>8, <1>9, <1>12, <2>1 DEF Block
<1> QED
  BY <1>1, <1>3, <1>13

LEMMA ForestOf ==
  ASSUME NEW E, NEW els \in Seq(E), Window(els), NEW i \in 1 .. Len(els), NEW d \in Nat,
         NEW A, NEW ss \in Seq(Seq(A)), Len(ss) = Len(els),
         \A j \in ChildrenOf(els, i) : \E q : Block(els, ss[j], q, j, d + 1),
         \A j \in 1 .. Len(els) : j \notin ChildrenOf(els, i) => ss[j] = <<>>
  PROVE  /\ FlattenSeq(ss) \in Seq(A)
         /\ \E p : Forest(els, FlattenSeq(ss), p, i, ChildrenOf(els, i), d)
<1> DEFINE Upto(k) == FlattenSeq(SubSeq(ss, 1, k))
           Some(k) == {j \in ChildrenOf(els, i) : j <= k}
           Good(t, k) == t \in Seq(A) /\ \E p : Forest(els, t, p, i, Some(k), d)
           D == {k \in Nat : k <= Len(ss) => Good(Upto(k), k)}
<1>0. Len(ss) \in Nat /\ \A j \in ChildrenOf(els, i) : j \in 2 .. Len(els)
  BY ChildrenAre
<1>1. 0 \in D
  <2>1. SubSeq(ss, 1, 0) = <<>>
    BY SubSeqEmpty
  <2>2. <<>> \in Seq(A)
    OBVIOUS
  <2>3. FlattenSeq(<<>>) = <<>>
    BY <2>2, FlattenAppend
  <2>4. Upto(0) = <<>>
    BY <2>1, <2>3
  <2>5. Some(0) = {}
    BY <1>0
  <2>6. Under(els, {}) = {}
    BY DEF Under
  <2>7. PICK p : p = [k \in {} |-> 0]
    OBVIOUS
  <2>8. Len(<<>>) = 0 /\ 1 .. 0 = {}
    OBVIOUS
  <2>9. p \in [{} -> {}]
    BY <2>7
  <2>10. Shown(els, <<>>, p, {}, d + 1)
    BY <2>8, <2>9 DEF Shown
  <2>11. Forest(els, <<>>, p, i, {}, d)
    BY <2>6, <2>8, <2>10 DEF Forest
  <2>12. Good(<<>>, 0)
    BY <2>2, <2>5, <2>11
  <2> HIDE DEF Upto, Good
  <2> QED
    BY <2>4, <2>12
<1>2. ASSUME NEW k \in Nat, k + 1 <= Len(ss), k \in D
      PROVE  k + 1 \in D
  <2>1. k + 1 \in 1 .. Len(ss) /\ k + 1 \in 1 .. Len(els) /\ k <= Len(ss)
    BY <1>0, <1>2
  <2>2. PICK s \in Seq(A) : s = ss[k + 1]
    BY <2>1
  <2>3. PICK t : t = Upto(k)
    OBVIOUS
  <2>4. Good(t, k)
    BY <1>2, <2>1, <2>3
  <2>5. Upto(k + 1) = t \o s
    <3>1. SubSeq(ss, 1, k + 1) = Append(SubSeq(ss, 1, k), s)
      BY <2>1, <2>2, FirstPart
    <3>2. SubSeq(ss, 1, k) \in Seq(Seq(A))
      BY <2>1, FirstPart
    <3> QED
      BY <2>3, <3>1, <3>2, FlattenAppend
  <2>6. PICK p : Forest(els, t, p, i, Some(k), d)
    BY <2>4
  <2>7. t \in Seq(A)
    BY <2>4
  <2>8. CASE k + 1 \in ChildrenOf(els, i)
    <3>1. Some(k + 1) = Some(k) \union {k + 1}
      BY <1>0, <2>8
    <3>2. Some(k) \in SUBSET ChildrenOf(els, i) /\ k + 1 \notin Some(k)
      OBVIOUS
    <3>3. PICK q : Block(els, s, q, k + 1, d + 1)
      BY <2>2, <2>8
    <3> HIDE DEF Some
    <3>4. t \o s \in Seq(A) /\ \E r : Forest(els, t \o s, r, i, Some(k) \union {k + 1}, d)
      BY <2>6, <2>7, <2>8, <3>2, <3>3, ForestGrows
    <3>5. Good(t \o s, k + 1)
      BY <3>1, <3>4
    <3>6. PICK u : u = t \o s
      OBVIOUS
    <3>7. Upto(k + 1) = u /\ Good(u, k + 1)
      BY <2>5, <3>5, <3>6
    <3> HIDE DEF Good, Upto
    <3> QED
      BY <3>7
  <2>9. CASE k + 1 \notin ChildrenOf(els, i)
    <3>1. Some(k + 1) = Some(k)
      BY <1>0, <2>9
    <3>2. s = <<>>
      BY <2>1, <2>2, <2>9
    <3>3. t \o s = t
      BY <2>7, <3>2, ConcatEmptySeq
    <3> HIDE DEF Some
    <3>4. Good(t, k + 1)
      BY <2>6, <2>7, <3>1
    <3> HIDE DEF Good, Upto
    <3> QED
      BY <2>5, <3>3, <3>4, SMTT(60)
  <2> QED
    BY <2>8, <2>9
<1>3. 0 .. Len(ss) \subseteq D
  <2> HIDE DEF D
  <2> QED
    BY <1>0, <1>1, <1>2, IntervalInduction
<1>4. Good(Upto(Len(ss)), Len(ss))
  <2>1. Len(ss) \in 0 .. Len(ss) /\ Len(ss) <= Len(ss)
    BY <1>0
  <2> HIDE DEF Good, Upto
  <2> QED
    BY <1>0, <1>3, <2>1
<1>5. Upto(Len(ss)) = FlattenSeq(ss)
  <2>1. SubSeq(ss, 1, Len(ss)) = ss
    OBVIOUS
  <2> QED
    BY <2>1
<1>6. Some(Len(ss)) = ChildrenOf(els, i)
  BY <1>0
<1> HIDE DEF Upto, Some
<1> QED
  BY <1>4, <1>5, <1>6

\* The lines of the elements, in terms of those of their children.
LinesOf(els) == [id : IdsOf(els), nesting : Nat]
Parts(els, g, i, d) ==
  [j \in DOMAIN els |-> IF j \in ChildrenOf(els, i) THEN g[j][d + 1] ELSE <<>>]
LinesOfOne(els, g, i) ==
  [d \in Nat |-> <<[id |-> els[i].id, nesting |-> d]>> \o FlattenSeq(Parts(els, g, i, d))]

LEMMA LinesOfOneType ==
  ASSUME NEW E, NEW els \in Seq(E), NEW i \in 1 .. Len(els),
         NEW g \in [1 .. Len(els) -> [Nat -> Seq(LinesOf(els))]]
  PROVE  LinesOfOne(els, g, i) \in [Nat -> Seq(LinesOf(els))]
<1>1. PICK A : A = LinesOf(els)
  OBVIOUS
<1>2. ASSUME NEW d \in Nat
      PROVE  <<[id |-> els[i].id, nesting |-> d]>> \o FlattenSeq(Parts(els, g, i, d)) \in Seq(A)
  <2>1. PICK line \in A : line = [id |-> els[i].id, nesting |-> d]
    <3>1. els[i].id \in IdsOf(els)
      BY Domain DEF IdsOf
    <3> QED
      BY <1>1, <3>1 DEF LinesOf
  <2>2. ASSUME NEW j \in 1 .. Len(els)
        PROVE  Parts(els, g, i, d)[j] \in Seq(A)
    <3>1. j \in DOMAIN els
      BY Domain
    <3>2. g[j][d + 1] \in Seq(A)
      <4>1. PICK row \in [Nat -> Seq(A)] : row = g[j]
        BY <1>1
      <4>2. row[d + 1] \in Seq(A)
        <5>1. d + 1 \in Nat
          OBVIOUS
        <5> QED
          BY <5>1
      <4> QED
        BY <4>1, <4>2
    <3>3. <<>> \in Seq(A)
      OBVIOUS
    <3> QED
      BY <3>1, <3>2, <3>3 DEF Parts
  <2>3. PICK ss \in Seq(Seq(A)) : ss = Parts(els, g, i, d)
    <3>1. PICK B : B = Seq(A)
      OBVIOUS
    <3>2. Parts(els, g, i, d) = [j \in 1 .. Len(els) |-> Parts(els, g, i, d)[j]]
      BY Domain DEF Parts
    <3>3. \A j \in 1 .. Len(els) : Parts(els, g, i, d)[j] \in B
      BY <2>2, <3>1
    <3>4. Parts(els, g, i, d) \in Seq(B)
      BY <3>2, <3>3, Domain
    <3> QED
      BY <3>1, <3>4
  <2>4. PICK t \in Seq(A) : t = FlattenSeq(ss)
    <3>1. <<>> \in Seq(A)
      OBVIOUS
    <3> QED
      BY <3>1, FlattenAppend
  <2>5. <<line>> \o t \in Seq(A)
    OBVIOUS
  <2> QED
    BY <2>1, <2>3, <2>4, <2>5
<1>3. LinesOfOne(els, g, i) \in [Nat -> Seq(A)]
  BY <1>2 DEF LinesOfOne
<1> QED
  BY <1>1, <1>3

LEMMA LinesExist ==
  ASSUME NEW E, NEW els \in Seq(E), Window(els)
  PROVE  \E lines \in [1 .. Len(els) -> [Nat -> Seq(LinesOf(els))]] :
           \A i \in 1 .. Len(els) : lines[i] = LinesOfOne(els, lines, i)
<1> DEFINE S == 1 .. Len(els)
           A == [Nat -> Seq(LinesOf(els))]
           rank == [i \in S |-> Len(els) - i]
           G == [p \in S \X [S -> A] |-> LinesOfOne(els, p[2], p[1])]
<1>1. rank \in [S -> Nat] /\ A # {}
  <2>1. \A i \in S : Len(els) - i \in Nat
    BY Domain
  <2>2. [d \in Nat |-> <<>>] \in A
    <3>1. <<>> \in Seq(LinesOf(els))
      OBVIOUS
    <3> QED
      BY <3>1
  <2> QED
    BY <2>1, <2>2
<1>2. ASSUME NEW i \in S, NEW g \in [S -> A]
      PROVE  G[<<i, g>>] = LinesOfOne(els, g, i)
  OBVIOUS
<1>3. ASSUME NEW i \in S, NEW g \in [S -> A]
      PROVE  G[<<i, g>>] \in A
  <2>1. LinesOfOne(els, g, i) \in A
    BY LinesOfOneType
  <2> HIDE DEF G, A
  <2> QED
    BY <1>2, <2>1
<1>4. ASSUME NEW i \in S, NEW g \in [S -> A], NEW h \in [S -> A], SameBelow(S, rank, i, g, h)
      PROVE  G[<<i, g>>] = G[<<i, h>>]
  <2>1. ASSUME NEW d \in Nat
        PROVE  Parts(els, g, i, d) = Parts(els, h, i, d)
    <3>1. ASSUME NEW j \in ChildrenOf(els, i)
          PROVE  g[j] = h[j]
      <4>1. j \in 2 .. Len(els) /\ LinkedTo(els, j) = i
        BY ChildrenAre
      <4>2. j \in S /\ i < j /\ Len(els) \in Nat
        BY <4>1, LinkedLower, Domain
      <4>3. rank[j] < rank[i]
        BY <4>2
      <4> HIDE DEF rank, A
      <4> QED
        BY <1>4, <4>2, <4>3 DEF SameBelow
    <3> HIDE DEF A
    <3> QED
      BY <3>1 DEF Parts
  <2>2. LinesOfOne(els, g, i) = LinesOfOne(els, h, i)
    <3> HIDE DEF A
    <3> QED
      BY <2>1 DEF LinesOfOne
  <2> HIDE DEF G, A
  <2> QED
    BY <1>2, <2>2
<1>5. Ranked(S, A, rank, G)
  <2> HIDE DEF S, A, rank, G
  <2> QED
    BY <1>1, <1>3, <1>4 DEF Ranked
<1>6. PICK f \in [S -> A] : \A i \in S : f[i] = G[<<i, f>>]
  <2> HIDE DEF S, A, rank, G
  <2> QED
    BY <1>5, RankedRecursion
<1>7. \A i \in S : f[i] = LinesOfOne(els, f, i)
  <2> HIDE DEF G
  <2> QED
    BY <1>2, <1>6
<1> QED
  BY <1>6, <1>7

LEMMA NestedIs ==
  ASSUME NEW E, NEW els \in Seq(E), Window(els)
  PROVE  \E lines : /\ Nested(els) = lines[1][0]
                    /\ \A i \in 1 .. Len(els) : lines[i] = LinesOfOne(els, lines, i)
<1> DEFINE Def(f) == f = [i \in DOMAIN els |->
                            [d \in Nat |->
                               <<[id |-> els[i].id, nesting |-> d]>>
                                 \o FlattenSeq([j \in DOMAIN els |->
                                                  IF j \in ChildrenOf(els, i)
                                                  THEN f[j][d + 1] ELSE <<>>])]]
           lines == CHOOSE f : Def(f)
<1>0. DOMAIN els = 1 .. Len(els)
  BY Domain
<1>1. ASSUME NEW f
      PROVE  Def(f) <=> f = [i \in 1 .. Len(els) |-> LinesOfOne(els, f, i)]
  BY <1>0, Zenon DEF LinesOfOne, Parts
<1>2. \E f : Def(f)
  <2>1. PICK f \in [1 .. Len(els) -> [Nat -> Seq(LinesOf(els))]] :
          \A i \in 1 .. Len(els) : f[i] = LinesOfOne(els, f, i)
    BY LinesExist
  <2>2. f = [i \in 1 .. Len(els) |-> LinesOfOne(els, f, i)]
    BY <2>1
  <2> HIDE DEF Def
  <2> QED
    BY <1>1, <2>2
<1>3. Def(lines)
  <2> HIDE DEF Def
  <2> QED
    BY <1>2
<1>4. els # <<>>
  BY DEF Window
<1>5. Nested(els) = lines[1][0]
  BY <1>4, RootIsFirst DEF Nested
<1> HIDE DEF Def, lines
<1>6. lines = [i \in 1 .. Len(els) |-> LinesOfOne(els, lines, i)]
  BY <1>1, <1>3
<1> QED
  BY <1>5, <1>6

LEMMA BlocksOfAll ==
  ASSUME NEW E, NEW els \in Seq(E), Window(els), NEW lines,
         \A i \in 1 .. Len(els) : lines[i] = LinesOfOne(els, lines, i)
  PROVE  \A i \in 1 .. Len(els) : \A d \in Nat :
           /\ lines[i][d] \in Seq(LinesOf(els))
           /\ \E p : Block(els, lines[i][d], p, i, d)
<1> DEFINE A == LinesOf(els)
           Good(i) == \A d \in Nat : /\ lines[i][d] \in Seq(A)
                                     /\ \E p : Block(els, lines[i][d], p, i, d)
           D == {k \in Nat : \A i \in 1 .. Len(els) : Len(els) - i < k => Good(i)}
<1>0. Len(els) \in Nat /\ DOMAIN els = 1 .. Len(els)
  BY Domain
<1>1. ASSUME NEW i \in 1 .. Len(els), \A j \in ChildrenOf(els, i) : Good(j), NEW d \in Nat
      PROVE  /\ lines[i][d] \in Seq(A)
             /\ \E p : Block(els, lines[i][d], p, i, d)
  <2>1. \A j \in ChildrenOf(els, i) : /\ lines[j][d + 1] \in Seq(A)
                                      /\ \E p : Block(els, lines[j][d + 1], p, j, d + 1)
    <3>1. d + 1 \in Nat
      OBVIOUS
    <3> HIDE DEF A
    <3> QED
      BY <1>1, <3>1
  <2>2. PICK ss : ss = Parts(els, lines, i, d)
    OBVIOUS
  <2>3. ASSUME NEW j \in 1 .. Len(els)
        PROVE  /\ ss[j] \in Seq(A)
               /\ j \in ChildrenOf(els, i) => ss[j] = lines[j][d + 1]
               /\ j \notin ChildrenOf(els, i) => ss[j] = <<>>
    <3>1. ss[j] = IF j \in ChildrenOf(els, i) THEN lines[j][d + 1] ELSE <<>>
      BY <1>0, <2>2 DEF Parts
    <3>2. <<>> \in Seq(A)
      OBVIOUS
    <3> HIDE DEF A
    <3> QED
      BY <2>1, <3>1, <3>2
  <2>4. ss \in Seq(Seq(A)) /\ Len(ss) = Len(els)
    <3>1. PICK B : B = Seq(A)
      OBVIOUS
    <3>2. ss = [j \in 1 .. Len(els) |-> ss[j]]
      BY <1>0, <2>2 DEF Parts
    <3>3. \A j \in 1 .. Len(els) : ss[j] \in B
      BY <2>3, <3>1
    <3>4. ss \in Seq(B) /\ Len(ss) = Len(els)
      BY <1>0, <3>2, <3>3
    <3> QED
      BY <3>1, <3>4
  <2>5. \A j \in ChildrenOf(els, i) : \E q : Block(els, ss[j], q, j, d + 1)
    <3>1. \A j \in ChildrenOf(els, i) : j \in 1 .. Len(els)
      BY <1>0 DEF ChildrenOf
    <3> QED
      BY <2>1, <2>3, <3>1
  <2>6. \A j \in 1 .. Len(els) : j \notin ChildrenOf(els, i) => ss[j] = <<>>
    BY <2>3
  <2>7. PICK t : t = FlattenSeq(ss)
    OBVIOUS
  <2>8. t \in Seq(A) /\ \E p : Forest(els, t, p, i, ChildrenOf(els, i), d)
    <3> HIDE DEF A
    <3> QED
      BY <2>4, <2>5, <2>6, <2>7, ForestOf
  <2>9. PICK p : Forest(els, t, p, i, ChildrenOf(els, i), d)
    BY <2>8
  <2>10. PICK line \in A : /\ line = [id |-> els[i].id, nesting |-> d]
                           /\ line.id = els[i].id /\ line.nesting = d
    <3>1. els[i].id \in IdsOf(els)
      BY <1>0 DEF IdsOf
    <3>2. PICK line : line = [id |-> els[i].id, nesting |-> d]
      OBVIOUS
    <3>3. line \in A /\ line.id = els[i].id /\ line.nesting = d
      BY <3>1, <3>2 DEF LinesOf
    <3> HIDE DEF A
    <3> QED
      BY <3>2, <3>3
  <2>11. <<line>> \o t \in Seq(A) /\ \E r : Block(els, <<line>> \o t, r, i, d)
    <3> HIDE DEF A
    <3> QED
      BY <2>8, <2>9, <2>10, BlockOf
  <2>12. lines[i][d] = <<line>> \o t
    BY <2>2, <2>7, <2>10 DEF LinesOfOne
  <2> HIDE DEF A
  <2> QED
    BY <2>11, <2>12
<1> HIDE DEF Good
<1>2. 0 \in D
  <2>1. \A i \in 1 .. Len(els) : ~(Len(els) - i < 0)
    BY <1>0
  <2> QED
    BY <2>1
<1>3. ASSUME NEW k \in Nat, k \in D
      PROVE  k + 1 \in D
  <2> SUFFICES ASSUME NEW i \in 1 .. Len(els), Len(els) - i < k + 1
               PROVE  Good(i)
    OBVIOUS
  <2>1. ASSUME NEW j \in ChildrenOf(els, i)
        PROVE  Good(j)
    <3>1. j \in 2 .. Len(els) /\ LinkedTo(els, j) = i
      BY ChildrenAre
    <3>2. j \in 1 .. Len(els) /\ i < j
      BY <1>0, <3>1, LinkedLower
    <3>3. Len(els) - j < k
      BY <1>0, <3>2
    <3> QED
      BY <1>3, <3>2, <3>3
  <2> QED
    BY <1>1, <2>1 DEF Good
<1>4. Nat \subseteq D
  <2> HIDE DEF D
  <2> QED
    BY <1>2, <1>3, NatSetInduction
<1>5. ASSUME NEW i \in 1 .. Len(els)
      PROVE  Good(i)
  <2>1. PICK k \in Nat : k = Len(els) + 1
    BY <1>0
  <2>2. Len(els) - i < k
    BY <1>0, <2>1
  <2> QED
    BY <1>4, <2>2
<1> QED
  BY <1>5 DEF Good

\* As many lines as elements, when each line is for one and each element has one.
OneEach(p, n, m) ==
  /\ p \in [1 .. n -> 1 .. m]
  /\ \A k, l \in 1 .. n : p[k] = p[l] => k = l
  /\ \A x \in 1 .. m : \E k \in 1 .. n : p[k] = x

LEMMA AsManyLines ==
  ASSUME NEW n \in Nat, NEW m \in Nat, NEW p, OneEach(p, n, m)
  PROVE  n = m
<1>1. p \in Injection(1 .. n, 1 .. m)
  BY DEF OneEach, Injection, IsInjective
<1>2. p \in Surjection(1 .. n, 1 .. m)
  BY DEF OneEach, Surjection
<1>3. ExistsBijection(1 .. n, 1 .. m)
  BY <1>1, <1>2 DEF ExistsBijection, Bijection
<1>4. Cardinality(1 .. m) = n
  BY <1>3, FS_CountingElements
<1>5. Cardinality(1 .. m) = m
  <2>1. PICK a \in Int : a = 1
    OBVIOUS
  <2>2. Cardinality(a .. m) = IF a > m THEN 0 ELSE m - a + 1
    BY FS_Interval
  <2> QED
    BY <2>1, <2>2
<1> QED
  BY <1>4, <1>5

\* What TreeShowsEveryElement says of a dump and its lines.
TreeShown(els, lines) ==
  LET Above(i) == {j \in 1 .. (i - 1) : lines[j].nesting < lines[i].nesting}
      Holder(i) == CHOOSE j \in Above(i) : \A k \in Above(i) : k <= j
      root == els[FirstRoot(els)].id
  IN /\ Len(lines) = Len(els)
     /\ {lines[i].id : i \in DOMAIN lines} = IdsOf(els)
     /\ \A i \in DOMAIN lines :
          LET parent == ElementOf(els, lines[i].id).parent
          IN IF i = 1 THEN lines[i].id = root /\ lines[i].nesting = 0
             ELSE /\ lines[i].nesting = lines[Holder(i)].nesting + 1
                  /\ lines[Holder(i)].id = IF parent \in IdsOf(els) THEN parent ELSE root

LEMMA NestedShows ==
  ASSUME NEW E, NEW els \in Seq(E), Window(els)
  PROVE  TreeShown(els, Nested(els))
<1>1. PICK lines : /\ Nested(els) = lines[1][0]
                   /\ \A i \in 1 .. Len(els) : lines[i] = LinesOfOne(els, lines, i)
  BY NestedIs
<1>2. PICK s : s = Nested(els)
  OBVIOUS
<1>3. 1 \in 1 .. Len(els) /\ 0 \in Nat /\ FirstRoot(els) = 1
  BY RootIsFirst
<1>4. s \in Seq(LinesOf(els)) /\ \E p : Block(els, s, p, 1, 0)
  BY <1>1, <1>2, <1>3, BlocksOfAll
<1>5. PICK p : Block(els, s, p, 1, 0)
  BY <1>4
<1>6. PICK n \in Nat, m \in Nat : n = Len(s) /\ m = Len(els) /\ DOMAIN els = 1 .. m /\ DOMAIN s = 1 .. n
  BY <1>4, Domain
<1>7. /\ p \in [1 .. n -> 1 .. m]
      /\ \A k \in 1 .. n : s[k].id = els[p[k]].id /\ s[k].nesting \in Nat
      /\ \A k, l \in 1 .. n : p[k] = p[l] => k = l
      /\ \A x \in 1 .. m : \E k \in 1 .. n : p[k] = x
      /\ p[1] = 1 /\ s[1].nesting = 0 /\ 1 <= n
      /\ \A k \in 2 .. n : Held(els, s, p, k)
  <2>1. Sub(els, 1) = 1 .. m
    BY <1>6, SubOfRoot
  <2> QED
    BY <1>5, <1>6, <2>1 DEF Block, Shown
<1>8. n = m
  <2>1. OneEach(p, n, m)
    BY <1>7 DEF OneEach
  <2> QED
    BY <2>1, AsManyLines
<1>9. {s[i].id : i \in DOMAIN s} = IdsOf(els)
  <2>1. \A k \in 1 .. n : s[k].id \in IdsOf(els)
    BY <1>6, <1>7 DEF IdsOf
  <2>2. \A x \in 1 .. m : \E k \in 1 .. n : s[k].id = els[x].id
    BY <1>7
  <2> QED
    BY <1>6, <2>1, <2>2, ZenonT(60) DEF IdsOf
<1> DEFINE Above(i) == {j \in 1 .. (i - 1) : s[j].nesting < s[i].nesting}
           Holder(i) == CHOOSE j \in Above(i) : \A k \in Above(i) : k <= j
<1>10. ASSUME NEW i \in 2 .. n
       PROVE  LET parent == ElementOf(els, s[i].id).parent
              IN /\ s[i].nesting = s[Holder(i)].nesting + 1
                 /\ s[Holder(i)].id = IF parent \in IdsOf(els) THEN parent ELSE els[1].id
  <2>0. i \in 1 .. n
    OBVIOUS
  <2>1. PICK h \in 1 .. n : h < i /\ HeldBy(els, s, p, h, i)
    BY <1>6, <1>7 DEF Held
  <2>2. PICK a \in Nat, b \in Nat : a = s[i].nesting /\ b = s[h].nesting /\ a = b + 1
    BY <1>7, <2>0, <2>1 DEF HeldBy
  <2>3. h \in Above(i)
    BY <2>1, <2>2
  <2>4. ASSUME NEW j \in Above(i)
        PROVE  j <= h
    <3>1. j \in 1 .. n /\ j < i /\ s[j].nesting < s[i].nesting
      OBVIOUS
    <3>2. PICK c \in Nat : c = s[j].nesting
      BY <1>7, <3>1
    <3>3. ~(c >= a)
      BY <2>2, <3>1, <3>2
    <3>4. ~(h < j)
      BY <1>6, <2>1, <2>2, <3>1, <3>2, <3>3 DEF HeldBy
    <3> QED
      BY <3>1, <3>4
  <2>5. Holder(i) = h
    <3>1. \A j \in Above(i) : j \in Nat
      OBVIOUS
    <3>2. \A j \in Above(i) : (\A k \in Above(i) : k <= j) => j = h
      BY <2>3, <2>4, <3>1
    <3> HIDE DEF Above
    <3> QED
      BY <2>3, <2>4, <3>2
  <2>6. p[i] \in 2 .. m
    <3>1. p[i] \in 1 .. m /\ p[i] # 1
      BY <1>7, <2>0
    <3> QED
      BY <3>1
  <2>7. s[h].id = els[LinkedTo(els, p[i])].id
    BY <1>7, <2>1 DEF HeldBy
  <2>8. els[LinkedTo(els, p[i])].id
          = IF els[p[i]].parent \in IdsOf(els) THEN els[p[i]].parent ELSE els[1].id
    BY <1>6, <2>6, LinkedLower
  <2>9. ElementOf(els, s[i].id) = els[p[i]]
    <3>1. PICK x \in 1 .. m : x = p[i]
      BY <2>6
    <3>2. \A j \in 1 .. m : els[j].id = els[x].id => j = x
      BY <1>6 DEF Window
    <3>3. (CHOOSE j \in 1 .. m : els[j].id = els[x].id) = x
      BY <3>2
    <3>4. s[i].id = els[x].id
      BY <1>7, <2>0, <3>1
    <3> QED
      BY <1>6, <3>1, <3>3, <3>4 DEF ElementOf
  <2> HIDE DEF Above, Holder
  <2> QED
    BY <2>2, <2>5, <2>7, <2>8, <2>9
<1>11. s[1].id = els[1].id
  <2>1. 1 \in 1 .. n
    BY <1>7
  <2> QED
    BY <1>7, <2>1
<1>12. \A i \in 1 .. n : i = 1 \/ i \in 2 .. n
  OBVIOUS
<1>13. TreeShown(els, s)
  <2> HIDE DEF Above, Holder
  <2>1. \A i \in DOMAIN s :
          LET parent == ElementOf(els, s[i].id).parent
          IN IF i = 1 THEN s[i].id = els[1].id /\ s[i].nesting = 0
             ELSE /\ s[i].nesting = s[Holder(i)].nesting + 1
                  /\ s[Holder(i)].id = IF parent \in IdsOf(els) THEN parent ELSE els[1].id
    BY <1>6, <1>7, <1>10, <1>11, <1>12
  <2> QED
    BY <1>3, <1>6, <1>8, <1>9, <2>1 DEF TreeShown, Above, Holder
<1> QED
  BY <1>2, <1>13

(* The tree formats, for the dump of one window of any size and shape       *)
(* (buildTree, writeYMLNode, writeSimpleXMLNode): the root comes first, the *)
(* ids are unique, an element comes after its parent, and a parent that is  *)
(* not in the dump makes its element an orphan, linked to the root.         *)
THEOREM EveryTreeShowsEveryElement ==
  ASSUME \A c \in Calls : c.of = "nested" => (\E E : c.els \in Seq(E)) /\ Window(c.els)
  PROVE  AlgSpec => []TreeShowsEveryElement
<1>1. ASSUME AlgInv, Answered("nested")
      PROVE  TreeShowsEveryElement
  <2>1. /\ Window(call.els) /\ answer = Nested(call.els)
        /\ \E E : call.els \in Seq(E)
    BY <1>1 DEF AlgInv, Answered, Result
  <2>2. PICK E : call.els \in Seq(E)
    BY <2>1
  <2>3. TreeShown(call.els, answer)
    BY <2>1, <2>2, NestedShows
  <2> QED
    BY <2>3 DEF TreeShowsEveryElement, TreeShown
<1>2. AlgInv => TreeShowsEveryElement
  BY <1>1 DEF TreeShowsEveryElement
<1> QED
  BY <1>2, AlgInvHolds, PTL
=============================================================================
