------------------------ MODULE Subscriptions_proofs ------------------------
(***************************************************************************)
(* Proofs about the program around the database, for any paths, values,    *)
(* requests and handlers, and any number of operations and subscriptions.  *)
(***************************************************************************)
EXTENDS Subscriptions, LocalDBOperations_proofs, FiniteSetTheorems, SequenceTheorems,
        WellFoundedInduction

(***************************************************************************)
(* Sequences of anything: answers, events and calls hold values read from  *)
(* the database, of which nothing need be known.                           *)
(***************************************************************************)
IsSequence(s) == \E S : s \in Seq(S)

LEMMA NoneYet == IsSequence(<<>>) /\ Len(<<>>) = 0
<1>1. <<>> \in Seq({}) /\ Len(<<>>) = 0
  OBVIOUS
<1> QED BY <1>1 DEF IsSequence

LEMMA LengthOf ==
    ASSUME NEW s, IsSequence(s)
    PROVE  Len(s) \in Nat /\ DOMAIN s = 1 .. Len(s)
<1>1. PICK S : s \in Seq(S)
  BY DEF IsSequence
<1> QED BY <1>1

LEMMA Appended ==
    ASSUME NEW s, NEW e, IsSequence(s)
    PROVE  /\ IsSequence(Append(s, e))
           /\ Len(Append(s, e)) = Len(s) + 1
           /\ \A i \in 1 .. Len(s) : Append(s, e)[i] = s[i]
           /\ Append(s, e)[Len(s) + 1] = e
<1>1. PICK S : s \in Seq(S)
  BY DEF IsSequence
<1>2. s \in Seq(S \cup {e})
  BY <1>1, SeqMonotonic
<1>3. e \in S \cup {e}
  OBVIOUS
<1> QED BY <1>2, <1>3, AppendProperties DEF IsSequence

LEMMA WithoutFirst ==
    ASSUME NEW s, IsSequence(s), s # <<>>
    PROVE  /\ Len(s) \in Nat \ {0}
           /\ IsSequence(Tail(s))
           /\ Len(Tail(s)) = Len(s) - 1
           /\ \A i \in 1 .. Len(Tail(s)) : i + 1 \in 1 .. Len(s) /\ Tail(s)[i] = s[i + 1]
<1>1. PICK S : s \in Seq(S)
  BY DEF IsSequence
<1>2. /\ Tail(s) \in Seq(S)
      /\ Len(Tail(s)) = Len(s) - 1
      /\ \A i \in 1 .. Len(Tail(s)) : Tail(s)[i] = s[i + 1]
  BY <1>1, HeadTailProperties
<1>3. Len(s) \in Nat \ {0}
  BY <1>1, EmptySeq
<1>4. \A i \in 1 .. Len(Tail(s)) : i + 1 \in 1 .. Len(s)
  BY <1>2, <1>3
<1> QED BY <1>2, <1>3, <1>4 DEF IsSequence

LEMMA Joined ==
    ASSUME NEW s, NEW t, IsSequence(s), IsSequence(t)
    PROVE  /\ IsSequence(s \o t)
           /\ Len(s \o t) = Len(s) + Len(t)
           /\ \A i \in 1 .. Len(s \o t) :
                 \/ i \in 1 .. Len(s) /\ (s \o t)[i] = s[i]
                 \/ i - Len(s) \in 1 .. Len(t) /\ (s \o t)[i] = t[i - Len(s)]
<1>1. PICK S : s \in Seq(S)
  BY DEF IsSequence
<1>2. PICK T : t \in Seq(T)
  BY DEF IsSequence
<1>3. s \in Seq(S \cup T) /\ t \in Seq(S \cup T)
  BY <1>1, <1>2, SeqMonotonic
<1>4. /\ s \o t \in Seq(S \cup T)
      /\ Len(s \o t) = Len(s) + Len(t)
      /\ \A i \in 1 .. Len(s) + Len(t) :
            (s \o t)[i] = IF i <= Len(s) THEN s[i] ELSE t[i - Len(s)]
  BY <1>3, ConcatProperties
<1>5. Len(s) \in Nat /\ Len(t) \in Nat
  BY LengthOf
<1> QED BY <1>4, <1>5 DEF IsSequence

LEMMA JoinedSet ==
    ASSUME NEW S, NEW s \in Seq(S), NEW t \in Seq(S)
    PROVE  ToSet(s) \subseteq ToSet(s \o t) /\ ToSet(t) \subseteq ToSet(s \o t)
<1>1. Len(s) \in Nat /\ Len(t) \in Nat /\ DOMAIN s = 1 .. Len(s) /\ DOMAIN t = 1 .. Len(t)
  BY LenProperties
<1>2. /\ s \o t \in Seq(S)
      /\ Len(s \o t) = Len(s) + Len(t)
      /\ \A i \in 1 .. Len(s) + Len(t) :
            (s \o t)[i] = IF i <= Len(s) THEN s[i] ELSE t[i - Len(s)]
  BY ConcatProperties
<1>3. DOMAIN (s \o t) = 1 .. Len(s) + Len(t)
  BY <1>2, LenProperties
<1>4. ASSUME NEW i \in 1 .. Len(s)
      PROVE  i \in 1 .. Len(s) + Len(t) /\ (s \o t)[i] = s[i]
  BY <1>1, <1>2
<1>5. ASSUME NEW i \in 1 .. Len(t)
      PROVE  i + Len(s) \in 1 .. Len(s) + Len(t) /\ (s \o t)[i + Len(s)] = t[i]
  <2>1. i + Len(s) \in 1 .. Len(s) + Len(t) /\ ~(i + Len(s) <= Len(s)) /\ (i + Len(s)) - Len(s) = i
    BY <1>1
  <2> QED BY <1>2, <2>1
<1> QED BY <1>1, <1>3, <1>4, <1>5 DEF ToSet

\* RemoveAt gives a sequence of the others.
LEMMA Removed ==
    ASSUME NEW S, NEW s \in Seq(S), NEW i \in 1 .. Len(s)
    PROVE  RemoveAt(s, i) \in Seq(S)
<1>1. Len(s) \in Nat /\ i - 1 \in Int /\ i + 1 \in Int
  BY LenProperties
<1>2. /\ \A j \in 1 .. (i - 1) : s[j] \in S
      /\ \A j \in (i + 1) .. Len(s) : s[j] \in S
  BY <1>1, ElementOfSeq
<1>3. SubSeq(s, 1, i - 1) \in Seq(S) /\ SubSeq(s, i + 1, Len(s)) \in Seq(S)
  BY <1>1, <1>2, SubSeqProperties
<1> QED BY <1>3, ConcatProperties DEF RemoveAt

-----------------------------------------------------------------------------

(***************************************************************************)
(* What recursive functions on sequences give.  That there are such        *)
(* functions is shown for steps within a set T.                            *)
(***************************************************************************)
LEMMA LeastOf ==
    ASSUME NEW Q \in SUBSET Nat, Q # {}
    PROVE  \E n \in Q : \A m \in Q : n <= m
<1>1. PICK n \in Q : \A m \in Q : ~(<<m, n>> \in OpToRel(<, Nat))
  BY WFMin, NatLessThanWellFounded
<1>2. \A m \in Q : ~(m < n)
  BY <1>1 DEF OpToRel
<1> QED BY <1>2

StepsIn(T, N) == [T \X (1 .. N) -> T]

StepsFrom(T, N, c, step) ==
    {f \in [0 .. N -> T] : f[0] = c /\ \A i \in 1 .. N : f[i] = step[<<f[i - 1], i>>]}

LEMMA StepsExist ==
    ASSUME NEW T, NEW N \in Nat, NEW c \in T, NEW step \in StepsIn(T, N)
    PROVE  StepsFrom(T, N, c, step) # {}
<1> DEFINE Upto(f, n) == f[0] = c /\ \A i \in 1 .. n : f[i] = step[<<f[i - 1], i>>]
           None == {n \in 0 .. N : ~\E f \in [0 .. n -> T] : Upto(f, n)}
<1> SUFFICES ASSUME None # {} PROVE FALSE
  <2>1. N \in 0 .. N
    OBVIOUS
  <2>2. N \notin None => \E f \in [0 .. N -> T] : Upto(f, N)
    BY <2>1
  <2> HIDE DEF None
  <2> QED BY <2>2 DEF StepsFrom
<1> USE DEF StepsIn
<1>1. None \in SUBSET Nat
  OBVIOUS
<1>2. PICK n \in None : \A m \in None : n <= m
  <2> HIDE DEF None
  <2> QED BY <1>1, LeastOf
<1>3. CASE n = 0
  <2>1. [i \in 0 .. 0 |-> c] \in [0 .. 0 -> T] /\ Upto([i \in 0 .. 0 |-> c], 0)
    OBVIOUS
  <2> QED BY <1>2, <1>3, <2>1
<1>4. CASE n # 0
  <2>1. n - 1 \in 0 .. N /\ n - 1 \notin None /\ n \in 1 .. N
    <3>1. n \in 1 .. N /\ n - 1 \in 0 .. N /\ ~(n <= n - 1)
      BY <1>2, <1>4
    <3> HIDE DEF None
    <3> QED BY <1>2, <3>1
  <2>2. PICK f \in [0 .. (n - 1) -> T] : Upto(f, n - 1)
    BY <2>1
  <2> DEFINE g == [i \in 0 .. n |-> IF i < n THEN f[i] ELSE step[<<f[n - 1], n>>]]
  <2>3. f[n - 1] \in T /\ <<f[n - 1], n>> \in T \X (1 .. N)
    BY <2>1
  <2>4. g \in [0 .. n -> T]
    BY <2>1, <2>3
  <2>5. \A i \in 0 .. (n - 1) : g[i] = f[i]
    BY <2>1
  <2>6. g[n] = step[<<f[n - 1], n>>]
    BY <2>1
  <2> HIDE DEF g
  <2>7. g[0] = c
    BY <2>1, <2>2, <2>5
  <2>8. ASSUME NEW i \in 1 .. n PROVE g[i] = step[<<g[i - 1], i>>]
    <3>1. i - 1 \in 0 .. (n - 1) /\ g[i - 1] = f[i - 1]
      BY <2>1, <2>5
    <3>2. CASE i = n
      BY <2>6, <3>1, <3>2
    <3>3. CASE i # n
      <4>1. i \in 1 .. (n - 1) /\ i \in 0 .. (n - 1)
        BY <2>1, <3>3
      <4> QED BY <2>2, <2>5, <3>1, <4>1
    <3> QED BY <3>2, <3>3
  <2> QED BY <1>2, <2>4, <2>7, <2>8
<1> QED BY <1>3, <1>4

\* Where each step stays in T, so do all.
LEMMA StepsStay ==
    ASSUME NEW T, NEW N \in Nat, NEW f,
           f[0] \in T,
           \A i \in 1 .. N : f[i - 1] \in T => f[i] \in T
    PROVE  f[N] \in T
<1> DEFINE Outside == {n \in 0 .. N : f[n] \notin T}
<1> SUFFICES ASSUME Outside # {} PROVE FALSE
  OBVIOUS
<1>1. Outside \in SUBSET Nat
  OBVIOUS
<1>2. PICK n \in Outside : \A m \in Outside : n <= m
  <2> HIDE DEF Outside
  <2> QED BY <1>1, LeastOf
<1>3. n \in 1 .. N /\ n - 1 \in 0 .. N /\ ~(n <= n - 1)
  BY <1>2
<1>4. f[n - 1] \in T
  BY <1>2, <1>3
<1> QED BY <1>2, <1>3, <1>4

LEMMA KeptSteps ==
    ASSUME NEW S, NEW s \in Seq(S), NEW C
    PROVE  \E f : /\ Kept(s, C) = f[Len(s)] /\ f[0] = <<>>
                  /\ \A i \in 1 .. Len(s) :
                        f[i] = IF s[i] \in C THEN Append(f[i - 1], s[i]) ELSE f[i - 1]
<1> DEFINE T == Seq(S)
           N == Len(s)
           Then(f, i) == IF i = 0 THEN <<>>
                         ELSE IF s[i] \in C THEN Append(f[i - 1], s[i]) ELSE f[i - 1]
           P(f) == f = [i \in 0 .. N |-> Then(f, i)]
           kept == CHOOSE f : P(f)
           step == [x \in T \X (1 .. N) |->
                        IF s[x[2]] \in C THEN Append(x[1], s[x[2]]) ELSE x[1]]
<1>1. N \in Nat /\ (\A i \in 1 .. N : s[i] \in S) /\ <<>> \in T
  BY LenProperties, ElementOfSeq, EmptySeq
<1>2. Kept(s, C) = kept[N]
  BY DEF Kept
<1>3. ASSUME NEW q \in T, NEW i \in 1 .. N
      PROVE  /\ (IF s[i] \in C THEN Append(q, s[i]) ELSE q) \in T
             /\ step[<<q, i>>] = IF s[i] \in C THEN Append(q, s[i]) ELSE q
  <2>1. s[i] \in S
    BY <1>1
  <2>2. Append(q, s[i]) \in T
    BY <2>1, AppendProperties
  <2> QED BY <2>2
<1>4. step \in StepsIn(T, N)
  <2>1. ASSUME NEW x \in T \X (1 .. N) PROVE (IF s[x[2]] \in C THEN Append(x[1], s[x[2]]) ELSE x[1]) \in T
    <3>1. x[1] \in T /\ x[2] \in 1 .. N
      OBVIOUS
    <3> HIDE DEF T, N
    <3> QED BY <1>3, <3>1
  <2> QED BY <2>1 DEF StepsIn
<1> HIDE DEF T, N, step
<1>5. PICK f \in [0 .. N -> T] : f[0] = <<>> /\ \A i \in 1 .. N : f[i] = step[<<f[i - 1], i>>]
  <2>1. PICK c \in T : c = <<>>
    BY <1>1
  <2>2. N \in Nat
    BY <1>1
  <2>3. StepsFrom(T, N, c, step) # {}
    BY <1>4, <2>2, StepsExist
  <2> QED BY <2>1, <2>3 DEF StepsFrom
<1>6. P(f)
  <2>1. f[0] = Then(f, 0)
    BY <1>5
  <2>2. ASSUME NEW i \in 1 .. N PROVE f[i] = Then(f, i)
    <3>1. i # 0 /\ i - 1 \in 0 .. N
      BY <1>1
    <3>2. f[i - 1] \in T
      BY <1>5, <3>1
    <3>3. f[i] = IF s[i] \in C THEN Append(f[i - 1], s[i]) ELSE f[i - 1]
      BY <1>3, <1>5, <3>2
    <3> QED BY <3>1, <3>3
  <2>3. \A i \in 0 .. N : i = 0 \/ i \in 1 .. N
    BY <1>1
  <2>4. f = [i \in 0 .. N |-> f[i]]
    BY <1>5
  <2> HIDE DEF Then
  <2>5. \A i \in 0 .. N : f[i] = Then(f, i)
    BY <2>1, <2>2, <2>3
  <2> QED BY <2>4, <2>5
<1>7. P(kept)
  <2> HIDE DEF P
  <2> QED BY <1>6
<1> HIDE DEF kept
<1>8. \A i \in 0 .. N : kept[i] = Then(kept, i)
  BY <1>7
<1>9. 0 \in 0 .. N /\ \A i \in 1 .. N : i # 0 /\ i \in 0 .. N
  BY <1>1
<1>10. kept[0] = <<>> /\ \A i \in 1 .. N :
          kept[i] = IF s[i] \in C THEN Append(kept[i - 1], s[i]) ELSE kept[i - 1]
  BY <1>8, <1>9
<1> QED BY <1>2, <1>10 DEF N

\* The elements that are in the set, and all of them.
LEMMA KeptIs ==
    ASSUME NEW S, NEW s \in Seq(S), NEW C
    PROVE  /\ Kept(s, C) \in Seq(S \cap C)
           /\ \A i \in 1 .. Len(s) : s[i] \in C => s[i] \in ToSet(Kept(s, C))
<1> DEFINE N == Len(s)
           Holds(q, i) == \A m \in 1 .. i : s[m] \in C => s[m] \in ToSet(q)
           T == {x \in (0 .. N) \X Seq(S \cap C) : Holds(x[2], x[1])}
<1>1. PICK f : /\ Kept(s, C) = f[N] /\ f[0] = <<>>
               /\ \A i \in 1 .. N :
                     f[i] = IF s[i] \in C THEN Append(f[i - 1], s[i]) ELSE f[i - 1]
  BY KeptSteps
<1>2. N \in Nat /\ (\A i \in 1 .. N : s[i] \in S) /\ <<>> \in Seq(S \cap C)
  BY LenProperties, ElementOfSeq, EmptySeq
<1> HIDE DEF N
<1> DEFINE h == [i \in 0 .. N |-> <<i, f[i]>>]
<1>3. h[0] \in T
  <2>1. 0 \in 0 .. N /\ h[0] = <<0, <<>>>>
    BY <1>1, <1>2
  <2>2. Holds(<<>>, 0)
    OBVIOUS
  <2> QED BY <1>2, <2>1, <2>2
<1>4. ASSUME NEW i \in 1 .. N, h[i - 1] \in T PROVE h[i] \in T
  <2>1. i - 1 \in 0 .. N /\ i \in 0 .. N /\ h[i - 1] = <<i - 1, f[i - 1]>> /\ h[i] = <<i, f[i]>>
    BY <1>2
  <2>2. f[i - 1] \in Seq(S \cap C) /\ Holds(f[i - 1], i - 1)
    BY <1>4, <2>1
  <2>3. ASSUME NEW m \in 1 .. i, m # i PROVE m \in 1 .. (i - 1)
    BY <2>3, <1>2
  <2>4. CASE s[i] \in C
    <3>1. s[i] \in S \cap C /\ f[i] = Append(f[i - 1], s[i])
      BY <1>1, <1>2, <2>4
    <3>2. PICK q \in Seq(S \cap C) : q = f[i - 1]
      BY <2>2
    <3>3. /\ Append(q, s[i]) \in Seq(S \cap C)
          /\ Len(q) \in Nat /\ Len(Append(q, s[i])) = Len(q) + 1
          /\ \A j \in 1 .. Len(q) : Append(q, s[i])[j] = q[j]
          /\ Append(q, s[i])[Len(q) + 1] = s[i]
      BY <3>1, AppendProperties, LenProperties
    <3>4. DOMAIN q = 1 .. Len(q) /\ DOMAIN Append(q, s[i]) = 1 .. (Len(q) + 1)
      BY <3>3, LenProperties
    <3>5. s[i] \in ToSet(Append(q, s[i])) /\ ToSet(q) \subseteq ToSet(Append(q, s[i]))
      BY <3>3, <3>4 DEF ToSet
    <3>6. Holds(f[i], i)
      BY <2>2, <2>3, <3>1, <3>2, <3>5
    <3>7. f[i] \in Seq(S \cap C)
      BY <3>1, <3>2, <3>3
    <3> HIDE DEF Holds, h
    <3> QED BY <2>1, <3>6, <3>7
  <2>5. CASE s[i] \notin C
    <3>1. f[i] = f[i - 1]
      BY <1>1, <2>5
    <3>2. Holds(f[i], i)
      BY <2>2, <2>3, <2>5, <3>1
    <3> HIDE DEF Holds, h
    <3> QED BY <2>1, <2>2, <3>1, <3>2
  <2> QED BY <2>4, <2>5
<1>5. h[N] \in T
  <2> HIDE DEF h, T
  <2> QED BY <1>2, <1>3, <1>4, StepsStay
<1>6. f[N] \in Seq(S \cap C) /\ Holds(f[N], N)
  <2>1. h[N] = <<N, f[N]>>
    BY <1>2
  <2> HIDE DEF h, Holds
  <2> QED BY <1>5, <2>1
<1> QED BY <1>1, <1>6 DEF N

LEMMA FlattenSteps ==
    ASSUME NEW S, NEW seqs \in Seq(Seq(S))
    PROVE  \E f : /\ FlattenSeq(seqs) = f[Len(seqs)] /\ f[0] = <<>>
                  /\ \A i \in 1 .. Len(seqs) : f[i - 1] \in Seq(S) => f[i] = f[i - 1] \o seqs[i]
<1> DEFINE T == Seq(S)
           N == Len(seqs)
           Then(f, i) == IF i = 1 THEN seqs[i] ELSE f[i - 1] \o seqs[i]
           P(f) == f = [i \in 1 .. N |-> Then(f, i)]
           flat == CHOOSE f : P(f)
           step == [x \in T \X (1 .. N) |-> x[1] \o seqs[x[2]]]
<1>1. N \in Nat /\ (\A i \in 1 .. N : seqs[i] \in T) /\ <<>> \in T
  BY LenProperties, ElementOfSeq, EmptySeq
<1>2. CASE N = 0
  <2>1. seqs = <<>>
    BY <1>2, EmptySeq
  <2>2. FlattenSeq(seqs) = seqs
    BY <1>2 DEF FlattenSeq
  <2> DEFINE f == [i \in 0 .. 0 |-> <<>>]
  <2>3. f[0] = <<>> /\ FlattenSeq(seqs) = f[Len(seqs)]
    BY <1>2, <2>1, <2>2
  <2>4. \A i \in 1 .. Len(seqs) : FALSE
    BY <1>2
  <2> HIDE DEF f
  <2> QED BY <2>3, <2>4
<1>3. CASE N # 0
  <2>1. FlattenSeq(seqs) = flat[N]
    BY <1>3 DEF FlattenSeq
  <2>2. ASSUME NEW q \in T, NEW i \in 1 .. N
        PROVE  q \o seqs[i] \in T /\ step[<<q, i>>] = q \o seqs[i]
    <3>1. seqs[i] \in T
      BY <1>1
    <3>2. q \o seqs[i] \in T
      BY <3>1, ConcatProperties
    <3> QED BY <3>2
  <2>3. step \in StepsIn(T, N)
    <3>1. ASSUME NEW x \in T \X (1 .. N) PROVE x[1] \o seqs[x[2]] \in T
      <4>1. x[1] \in T /\ x[2] \in 1 .. N
        OBVIOUS
      <4> HIDE DEF T, N
      <4> QED BY <2>2, <4>1
    <3> QED BY <3>1 DEF StepsIn
  <2>4. \A q \in T : <<>> \o q = q
    BY ConcatEmptySeq
  <2> HIDE DEF T, N, step
  <2>5. PICK f \in [0 .. N -> T] : f[0] = <<>> /\ \A i \in 1 .. N : f[i] = step[<<f[i - 1], i>>]
    <3>1. PICK c \in T : c = <<>>
      BY <1>1
    <3>2. N \in Nat
      BY <1>1
    <3>3. StepsFrom(T, N, c, step) # {}
      BY <2>3, <3>2, StepsExist
    <3> QED BY <3>1, <3>3 DEF StepsFrom
  <2> DEFINE g == [i \in 1 .. N |-> f[i]]
  <2>6. P(g)
    <3>1. ASSUME NEW i \in 1 .. N PROVE f[i] = Then(g, i)
      <4>1. i - 1 \in 0 .. N /\ f[i - 1] \in T /\ f[i] = f[i - 1] \o seqs[i]
        <5>1. i - 1 \in 0 .. N
          BY <1>1
        <5>2. f[i - 1] \in T
          BY <2>5, <5>1
        <5> QED BY <2>2, <2>5, <5>1, <5>2
      <4>2. CASE i = 1
        <5>1. f[i - 1] = <<>> /\ seqs[i] \in T
          BY <1>1, <2>5, <4>2
        <5>2. f[i] = seqs[i]
          BY <2>4, <4>1, <5>1
        <5> QED BY <4>2, <5>2
      <4>3. CASE i # 1
        <5>1. i - 1 \in 1 .. N
          BY <1>1, <4>3
        <5> QED BY <4>1, <4>3, <5>1
      <4> QED BY <4>2, <4>3
    <3> HIDE DEF Then
    <3> QED BY <3>1
  <2>7. P(flat)
    <3> HIDE DEF P, g
    <3> QED BY <2>6
  <2> HIDE DEF flat, g
  <2>8. \A i \in 1 .. N : flat[i] = Then(flat, i)
    BY <2>7
  <2> DEFINE h == [i \in 0 .. N |-> IF i = 0 THEN <<>> ELSE flat[i]]
  <2>9. h[0] = <<>> /\ h[N] = flat[N]
    BY <1>1, <1>3
  <2>10. ASSUME NEW i \in 1 .. N, h[i - 1] \in T PROVE h[i] = h[i - 1] \o seqs[i]
    <3>1. h[i] = flat[i] /\ seqs[i] \in T /\ (i # 1 => h[i - 1] = flat[i - 1]) /\ (i = 1 => h[i - 1] = <<>>)
      BY <1>1
    <3>2. CASE i = 1
      BY <2>4, <2>8, <3>1, <3>2
    <3>3. CASE i # 1
      BY <2>8, <3>1, <3>3
    <3> QED BY <3>2, <3>3
  <2> HIDE DEF h
  <2> QED BY <2>1, <2>9, <2>10 DEF T, N
<1> QED BY <1>2, <1>3

\* The elements of all the sequences, and no others.
LEMMA Flattened ==
    ASSUME NEW S, NEW seqs \in Seq(Seq(S))
    PROVE  /\ FlattenSeq(seqs) \in Seq(S)
           /\ \A i \in 1 .. Len(seqs) : ToSet(seqs[i]) \subseteq ToSet(FlattenSeq(seqs))
<1> DEFINE N == Len(seqs)
           Holds(q, i) == \A m \in 1 .. i : ToSet(seqs[m]) \subseteq ToSet(q)
           T == {x \in (0 .. N) \X Seq(S) : Holds(x[2], x[1])}
<1>1. PICK f : /\ FlattenSeq(seqs) = f[N] /\ f[0] = <<>>
               /\ \A i \in 1 .. N : f[i - 1] \in Seq(S) => f[i] = f[i - 1] \o seqs[i]
  BY FlattenSteps
<1>2. N \in Nat /\ (\A i \in 1 .. N : seqs[i] \in Seq(S)) /\ <<>> \in Seq(S)
  BY LenProperties, ElementOfSeq, EmptySeq
<1> HIDE DEF N
<1> DEFINE h == [i \in 0 .. N |-> <<i, f[i]>>]
<1>3. h[0] \in T
  <2>1. 0 \in 0 .. N /\ h[0] = <<0, <<>>>>
    BY <1>1, <1>2
  <2>2. Holds(<<>>, 0)
    OBVIOUS
  <2> QED BY <1>2, <2>1, <2>2
<1>4. ASSUME NEW i \in 1 .. N, h[i - 1] \in T PROVE h[i] \in T
  <2>1. i - 1 \in 0 .. N /\ i \in 0 .. N /\ h[i - 1] = <<i - 1, f[i - 1]>> /\ h[i] = <<i, f[i]>>
    BY <1>2
  <2>2. f[i - 1] \in Seq(S) /\ Holds(f[i - 1], i - 1)
    BY <1>4, <2>1
  <2>3. ASSUME NEW m \in 1 .. i, m # i PROVE m \in 1 .. (i - 1)
    BY <2>3, <1>2
  <2>4. PICK q \in Seq(S), t \in Seq(S) : q = f[i - 1] /\ t = seqs[i]
    BY <1>2, <2>2
  <2>5. f[i] = q \o t
    BY <1>1, <2>4
  <2>6. q \o t \in Seq(S)
    BY ConcatProperties
  <2>7. ToSet(q) \subseteq ToSet(q \o t) /\ ToSet(t) \subseteq ToSet(q \o t)
    BY JoinedSet
  <2>8. Holds(f[i], i)
    BY <2>2, <2>3, <2>4, <2>5, <2>7
  <2>9. f[i] \in Seq(S)
    BY <2>5, <2>6
  <2> HIDE DEF Holds, h
  <2> QED BY <2>1, <2>8, <2>9
<1>5. h[N] \in T
  <2> HIDE DEF h, T
  <2> QED BY <1>2, <1>3, <1>4, StepsStay
<1>6. f[N] \in Seq(S) /\ Holds(f[N], N)
  <2>1. h[N] = <<N, f[N]>>
    BY <1>2
  <2> HIDE DEF h, Holds
  <2> QED BY <1>5, <2>1
<1> QED BY <1>1, <1>6 DEF N

LEMMA SequenceOfSet ==
    ASSUME NEW S, IsFiniteSet(S)
    PROVE  SetToSeq(S) \in Seq(S)
<1> DEFINE n == Cardinality(S)
           P(f) == f \in [1 .. n -> S] /\ IsInjective(f)
           q == CHOOSE f : P(f)
<1>1. n \in Nat /\ ExistsBijection(1 .. n, S)
  BY FS_CardinalityType
<1>2. \E f : P(f)
  <2>1. PICK f \in [1 .. n -> S] : \A i, j \in 1 .. n : f[i] = f[j] => i = j
    BY <1>1 DEF ExistsBijection, Bijection, Injection, IsInjective
  <2> QED BY <2>1 DEF IsInjective
<1>3. SetToSeq(S) = q
  BY DEF SetToSeq
<1>4. P(q)
  <2> HIDE DEF P
  <2> QED BY <1>2
<1> HIDE DEF q
<1> QED BY <1>1, <1>3, <1>4

-----------------------------------------------------------------------------

(***************************************************************************)
(* The inductive invariant of the types: what waits in the queue and in    *)
(* the answers is of operations done, about paths that are watched.  How   *)
(* many operations were done is bounded by how many were sent and wait no  *)
(* more.                                                                   *)
(***************************************************************************)
Subscriber == [handler : Handler, isObserver : BOOLEAN,
               id : 1 .. MaxSubscriptions, after : 0 .. MaxOperations]

Watcher == [path : Watched, subscribers : Seq(Subscriber)]

IsRead(job) == job.op = "getEntity"

\* The operations sent that are not done.
Asked == {i \in 1 .. Len(queue) : ~IsRead(queue[i])}

WatchersOK == watchers \in Seq(Watcher)

QueueOK ==
    /\ IsSequence(queue)
    /\ \A i \in 1 .. Len(queue) :
          \/ queue[i] \in Requests
          \/ /\ IsRead(queue[i])
             /\ queue[i].operation \in 1 .. Len(diffs)
             /\ queue[i].targets \in Seq(Watched)

AnsweredOK ==
    /\ IsSequence(answered)
    /\ \A i \in 1 .. Len(answered) :
          /\ answered[i].operation \in 1 .. Len(diffs)
          /\ answered[i].read \in Seq(Watched)

AreEvents(s) ==
    /\ IsSequence(s)
    /\ \A i \in 1 .. Len(s) : s[i].operation \in 1 .. Len(diffs) /\ s[i].path \in Watched

DiffsOK == diffs \in Seq(Seq(Change)) /\ rejected \subseteq 1 .. Len(diffs)

MadeOK == made \in Seq(BOOLEAN) /\ Len(made) <= MaxSubscriptions

CountsOK ==
    /\ sent \in 0 .. MaxOperations
    /\ Len(diffs) + Cardinality(Asked) <= sent

InvWatch ==
    /\ WatchersOK
    /\ QueueOK
    /\ AnsweredOK
    /\ AreEvents(tasks)
    /\ AreEvents(calls)
    /\ DiffsOK
    /\ MadeOK
    /\ CountsOK

-----------------------------------------------------------------------------

(***************************************************************************)
(* What an announcement adds.                                              *)
(***************************************************************************)
LEMMA SubscribersType ==
    ASSUME WatchersOK, NEW path
    PROVE  Subscribers(path) \in Seq(Subscriber)
<1>1. DOMAIN watchers = 1 .. Len(watchers)
  BY LenProperties DEF WatchersOK
<1>2. CASE \E i \in DOMAIN watchers : watchers[i].path = path
  <2>1. PICK i \in DOMAIN watchers :
            i = CHOOSE j \in DOMAIN watchers : watchers[j].path = path
    BY <1>2
  <2>2. watchers[i] \in Watcher
    BY <1>1, ElementOfSeq DEF WatchersOK
  <2>3. Subscribers(path) = watchers[i].subscribers
    BY <1>2, <2>1 DEF Subscribers
  <2> QED BY <2>2, <2>3 DEF Watcher
<1>3. CASE ~\E i \in DOMAIN watchers : watchers[i].path = path
  BY <1>3, EmptySeq DEF Subscribers
<1> QED BY <1>2, <1>3

EventsAt(n, path, value) ==
    {[to |-> u, path |-> path, operation |-> n, value |-> v] : u \in Subscriber, v \in {value, Undefined}}

LEMMA EventsType ==
    ASSUME WatchersOK, NEW n, NEW path, NEW value
    PROVE  Events(n, path, value) \in Seq(EventsAt(n, path, value))
<1>1. PICK all \in Seq(Subscriber) : all = IF IsHeard(diffs[n], path) THEN Subscribers(path) ELSE <<>>
  <2>1. <<>> \in Seq(Subscriber)
    BY EmptySeq
  <2> QED BY <2>1, SubscribersType
<1>2. Len(all) \in Nat /\ DOMAIN all = 1 .. Len(all) /\ \A i \in 1 .. Len(all) : all[i] \in Subscriber
  BY LenProperties, ElementOfSeq
<1> DEFINE e(i) == [to |-> all[i], path |-> path, operation |-> n,
                    value |-> IF all[i].isObserver THEN value ELSE Undefined]
<1>3. Events(n, path, value) = [i \in 1 .. Len(all) |-> e(i)]
  BY <1>1, <1>2 DEF Events
<1>4. ASSUME NEW i \in 1 .. Len(all) PROVE e(i) \in EventsAt(n, path, value)
  BY <1>2 DEF EventsAt
<1> HIDE DEF e
<1> QED BY <1>2, <1>3, <1>4

\* How far an announcement gets before it waits, if it does.
Waits(n, targets) == {i \in DOMAIN targets : NeedsRead(diffs[n], targets[i])}

Stop(n, targets) ==
    IF Waits(n, targets) = {} THEN Len(targets) + 1
    ELSE CHOOSE i \in Waits(n, targets) : \A j \in Waits(n, targets) : i <= j

FromDiff(n, targets) ==
    FlattenSeq([i \in 1 .. Stop(n, targets) - 1 |-> EventsFromDiff(n, targets[i])])

LEMMA StopIs ==
    ASSUME NEW n, NEW targets \in Seq(Watched)
    PROVE  /\ Stop(n, targets) \in 1 .. Len(targets) + 1
           /\ Stop(n, targets) > Len(targets) <=> Waits(n, targets) = {}
<1>1. Len(targets) \in Nat /\ DOMAIN targets = 1 .. Len(targets)
  BY LenProperties
<1>2. Waits(n, targets) \in SUBSET (1 .. Len(targets))
  BY <1>1 DEF Waits
<1>3. CASE Waits(n, targets) = {}
  BY <1>1, <1>3 DEF Stop
<1>4. CASE Waits(n, targets) # {}
  <2>1. \E i \in Waits(n, targets) : \A j \in Waits(n, targets) : i <= j
    BY <1>2, <1>4, LeastOf
  <2>2. Stop(n, targets) \in Waits(n, targets)
    BY <1>4, <2>1 DEF Stop
  <2> QED BY <1>1, <1>2, <1>4, <2>2
<1> QED BY <1>3, <1>4

LEMMA FromDiffIs ==
    ASSUME WatchersOK, NEW n, NEW targets \in Seq(Watched)
    PROVE  /\ IsSequence(FromDiff(n, targets))
           /\ \A i \in 1 .. Len(FromDiff(n, targets)) :
                 /\ FromDiff(n, targets)[i].operation = n
                 /\ FromDiff(n, targets)[i].path \in Watched
<1> DEFINE N == Stop(n, targets) - 1
           value(i) == IF IsHeard(diffs[n], targets[i]) /\ MatchType(diffs[n], targets[i]) # "Descendant"
                       THEN ValueInDiff(diffs[n], targets[i]) ELSE Undefined
           S == UNION {EventsAt(n, targets[i], value(i)) : i \in 1 .. N}
           parts == [i \in 1 .. N |-> EventsFromDiff(n, targets[i])]
<1>1. N \in Nat /\ \A i \in 1 .. N : targets[i] \in Watched
  BY StopIs, LenProperties, ElementOfSeq
<1>2. ASSUME NEW i \in 1 .. N PROVE EventsFromDiff(n, targets[i]) \in Seq(S)
  <2>1. EventsFromDiff(n, targets[i]) \in Seq(EventsAt(n, targets[i], value(i)))
    BY EventsType DEF EventsFromDiff
  <2>2. EventsAt(n, targets[i], value(i)) \subseteq S
    OBVIOUS
  <2> HIDE DEF value, S
  <2> QED BY <2>1, <2>2, SeqMonotonic
<1>3. ASSUME NEW e \in S PROVE e.operation = n /\ e.path \in Watched
  BY <1>1 DEF EventsAt
<1> HIDE DEF value, S, N
<1>4. parts \in Seq(Seq(S))
  BY <1>1, <1>2
<1>5. FromDiff(n, targets) \in Seq(S)
  BY <1>4, Flattened DEF FromDiff, N
<1> QED BY <1>3, <1>5, ElementOfSeq DEF IsSequence

\* The events of an announcement go after those there are; it waits in the queue
\* or is done.
LEMMA WalkIs ==
    ASSUME NEW n, NEW targets \in Seq(Watched), NEW told, Walk(n, targets, told)
    PROVE  /\ tasks' = (tasks \o told) \o FromDiff(n, targets)
           /\ \/ queue' = queue
              \/ /\ Waits(n, targets) # {}
                 /\ \E rest \in Seq(Watched) :
                        queue' = Append(queue, [op |-> "getEntity", operation |-> n, targets |-> rest])
<1> DEFINE next == Stop(n, targets)
           rest == SubSeq(targets, next, Len(targets))
<1>1. /\ tasks' = tasks \o told \o FlattenSeq([i \in 1 .. next - 1 |-> EventsFromDiff(n, targets[i])])
      /\ queue' = IF next > Len(targets) THEN queue
                  ELSE Append(queue, [op |-> "getEntity", operation |-> n, targets |-> rest])
  BY DEF Walk, Stop, Waits
<1>2. Len(targets) \in Nat /\ next \in 1 .. Len(targets) + 1
  BY StopIs, LenProperties
<1>3. \A i \in next .. Len(targets) : targets[i] \in Watched
  BY <1>2, ElementOfSeq
<1>4. rest \in Seq(Watched)
  <2> HIDE DEF next
  <2>1. next \in Int /\ Len(targets) \in Int
    BY <1>2
  <2> QED BY <1>3, <2>1, SubSeqProperties
<1>5. next > Len(targets) <=> Waits(n, targets) = {}
  BY StopIs
<1>6. tasks' = (tasks \o told) \o FromDiff(n, targets)
  BY <1>1 DEF FromDiff
<1> HIDE DEF next, rest
<1> QED BY <1>1, <1>4, <1>5, <1>6

-----------------------------------------------------------------------------

(***************************************************************************)
(* The steps, one lemma for each.                                          *)
(***************************************************************************)
LEMMA InitWatch == Init => InvWatch
<1> SUFFICES ASSUME Init PROVE InvWatch
  OBVIOUS
<1>1. /\ watchers = <<>> /\ queue = <<>> /\ answered = <<>> /\ tasks = <<>>
      /\ diffs = <<>> /\ calls = <<>> /\ rejected = {} /\ sent = 0 /\ made = <<>>
  BY DEF Init
<1>2. \A S : <<>> \in Seq(S)
  BY EmptySeq
<1>3. IsSequence(<<>>) /\ Len(<<>>) = 0
  BY NoneYet
<1>4. \A i : i \notin 1 .. 0
  OBVIOUS
<1>5. Asked = {} /\ Cardinality(Asked) = 0
  BY <1>1, <1>3, <1>4, FS_EmptySet DEF Asked
<1>6. WatchersOK /\ DiffsOK /\ MadeOK
  BY <1>1, <1>2, <1>3, BoundsAssumption DEF WatchersOK, DiffsOK, MadeOK
<1>7. QueueOK /\ AnsweredOK /\ AreEvents(tasks) /\ AreEvents(calls)
  BY <1>1, <1>3, <1>4 DEF QueueOK, AnsweredOK, AreEvents
<1>8. CountsOK
  BY <1>1, <1>3, <1>5, BoundsAssumption DEF CountsOK
<1> QED BY <1>6, <1>7, <1>8 DEF InvWatch

LEMMA DiffsLength == ASSUME DiffsOK PROVE Len(diffs) \in Nat
  BY LenProperties DEF DiffsOK

LEMMA AskedIs ==
    ASSUME QueueOK
    PROVE  /\ Len(queue) \in Nat
           /\ IsFiniteSet(Asked)
           /\ Cardinality(Asked) \in Nat
<1>1. Len(queue) \in Nat
  BY LengthOf DEF QueueOK
<1>2. Asked \in SUBSET (1 .. Len(queue))
  BY DEF Asked
<1>3. IsFiniteSet(1 .. Len(queue))
  BY <1>1, FS_Interval
<1> QED BY <1>1, <1>2, <1>3, FS_Subset, FS_CardinalityType

\* A job at the end is one more if it is an operation.
LEMMA AskedMore ==
    ASSUME QueueOK, NEW job, queue' = Append(queue, job)
    PROVE  /\ IsRead(job) => Cardinality(Asked') = Cardinality(Asked)
           /\ ~IsRead(job) => Cardinality(Asked') = Cardinality(Asked) + 1
<1>1. /\ Len(queue) \in Nat /\ IsFiniteSet(Asked) /\ Cardinality(Asked) \in Nat
  BY AskedIs
<1>2. /\ Len(queue') = Len(queue) + 1
      /\ \A i \in 1 .. Len(queue) : queue'[i] = queue[i]
      /\ queue'[Len(queue) + 1] = job
  BY Appended DEF QueueOK
<1>3. /\ IsRead(job) => Asked' = Asked
      /\ ~IsRead(job) => Asked' = Asked \cup {Len(queue) + 1}
  <2>1. 1 .. Len(queue') = (1 .. Len(queue)) \cup {Len(queue) + 1}
    BY <1>1, <1>2
  <2>2. ASSUME NEW i \in 1 .. Len(queue) PROVE i \in Asked' <=> i \in Asked
    BY <1>2, <2>1 DEF Asked, IsRead
  <2>3. Len(queue) + 1 \in Asked' <=> ~IsRead(job)
    BY <1>2, <2>1 DEF Asked, IsRead
  <2>4. Len(queue) + 1 \notin Asked
    BY <1>1 DEF Asked
  <2>5. Asked \subseteq 1 .. Len(queue) /\ Asked' \subseteq 1 .. Len(queue')
    BY DEF Asked
  <2> QED BY <2>1, <2>2, <2>3, <2>4, <2>5
<1>4. Len(queue) + 1 \notin Asked
  BY <1>1 DEF Asked
<1>5. CASE IsRead(job)
  BY <1>3, <1>5
<1>6. CASE ~IsRead(job)
  <2>1. PICK x \in {Len(queue) + 1} : TRUE
    OBVIOUS
  <2>2. Cardinality(Asked \cup {x}) = Cardinality(Asked) + 1
    BY <1>1, <1>4, <2>1, FS_AddElement
  <2> QED BY <1>3, <1>6, <2>1, <2>2
<1> QED BY <1>5, <1>6

\* The first one gone, it is one less if it was an operation.
LEMMA AskedLess ==
    ASSUME QueueOK, queue # <<>>, queue' = Tail(queue)
    PROVE  /\ IsRead(queue[1]) => Cardinality(Asked') = Cardinality(Asked)
           /\ ~IsRead(queue[1]) => Cardinality(Asked') = Cardinality(Asked) - 1
<1>1. /\ IsFiniteSet(Asked) /\ Cardinality(Asked) \in Nat
  BY AskedIs
<1>2. /\ Len(queue) \in Nat \ {0}
      /\ Len(queue') = Len(queue) - 1
      /\ \A i \in 1 .. Len(queue') : i + 1 \in 1 .. Len(queue) /\ queue'[i] = queue[i + 1]
  BY WithoutFirst DEF QueueOK
<1> DEFINE f == [i \in Asked' |-> i + 1]
<1>3. Asked' \in SUBSET (1 .. Len(queue'))
  BY DEF Asked
<1>4. IsFiniteSet(Asked')
  <2>1. Len(queue') \in Int /\ IsFiniteSet(1 .. Len(queue'))
    BY <1>2, FS_Interval
  <2> QED BY <1>3, <2>1, FS_Subset
<1>5. \A j \in Asked \ {1} : j - 1 \in Asked' /\ j = (j - 1) + 1
  <2> SUFFICES ASSUME NEW j \in Asked \ {1} PROVE j - 1 \in Asked' /\ j = (j - 1) + 1
    OBVIOUS
  <2>1. j \in 1 .. Len(queue) /\ ~IsRead(queue[j]) /\ j # 1
    BY DEF Asked
  <2>2. j - 1 \in 1 .. Len(queue') /\ (j - 1) + 1 = j
    BY <1>2, <2>1
  <2>3. queue'[j - 1] = queue[j]
    BY <1>2, <2>2
  <2> QED BY <2>1, <2>2, <2>3 DEF Asked, IsRead
<1>6. \A i \in Asked' : i + 1 \in Asked \ {1}
  <2> SUFFICES ASSUME NEW i \in Asked' PROVE i + 1 \in Asked \ {1}
    OBVIOUS
  <2>1. i \in 1 .. Len(queue') /\ ~IsRead(queue'[i])
    BY DEF Asked
  <2>2. i + 1 \in 1 .. Len(queue) /\ queue'[i] = queue[i + 1] /\ i + 1 # 1
    BY <1>2, <2>1
  <2> QED BY <2>1, <2>2 DEF Asked, IsRead
<1>7. ExistsBijection(Asked', Asked \ {1})
  <2>1. f \in [Asked' -> Asked \ {1}]
    BY <1>6
  <2>2. \A i, j \in Asked' : f[i] = f[j] => i = j
    BY <1>2, <1>3
  <2>3. \A j \in Asked \ {1} : \E i \in Asked' : f[i] = j
    BY <1>5
  <2> HIDE DEF f
  <2>4. f \in Bijection(Asked', Asked \ {1})
    BY <2>1, <2>2, <2>3 DEF Bijection, Injection, Surjection, IsInjective
  <2> QED BY <2>4 DEF ExistsBijection
<1>8. Cardinality(Asked') = Cardinality(Asked \ {1})
  <2>1. IsFiniteSet(Asked \ {1})
    BY <1>1, FS_RemoveElement
  <2> QED BY <1>4, <1>7, <2>1, FS_Bijection
<1>9. 1 \in Asked <=> ~IsRead(queue[1])
  BY <1>2 DEF Asked
<1>10. CASE 1 \in Asked
  <2>1. Cardinality(Asked \ {1}) = Cardinality(Asked) - 1
    BY <1>1, <1>10, FS_RemoveElement
  <2> QED BY <1>8, <1>9, <1>10, <2>1
<1>11. CASE 1 \notin Asked
  <2>1. Asked \ {1} = Asked
    BY <1>11
  <2> QED BY <1>8, <1>9, <1>11, <2>1
<1> QED BY <1>10, <1>11

LEMMA RequestsAreNoReads == \A r \in Requests : ~IsRead(r) /\ r.op # "none"
  BY RequestsAssumption DEF IsRead

\* The operation that is run is the first in the queue.
LEMMA NowIs ==
    ASSUME QueueOK, Now.op # "none"
    PROVE  queue # <<>> /\ Now = queue[1] /\ 1 \in 1 .. Len(queue)
<1>1. queue # <<>> /\ Now = queue[1]
  BY DEF Now
<1>2. Len(queue) \in Nat \ {0}
  BY <1>1, WithoutFirst DEF QueueOK
<1> QED BY <1>1, <1>2

LEMMA QueueGrows ==
    ASSUME QueueOK, NEW job, queue' = Append(queue, job), diffs' = diffs,
           \/ job \in Requests
           \/ /\ IsRead(job)
              /\ job.operation \in 1 .. Len(diffs)
              /\ job.targets \in Seq(Watched)
    PROVE  QueueOK'
<1>1. /\ IsSequence(queue') /\ Len(queue) \in Nat
      /\ Len(queue') = Len(queue) + 1
      /\ \A i \in 1 .. Len(queue) : queue'[i] = queue[i]
      /\ queue'[Len(queue) + 1] = job
  BY Appended, LengthOf DEF QueueOK
<1>2. \A i \in 1 .. Len(queue') : i \in 1 .. Len(queue) \/ i = Len(queue) + 1
  BY <1>1
<1> QED BY <1>1, <1>2 DEF QueueOK, IsRead

\* One job is done; the diffs may have become more.
LEMMA QueueShrinks ==
    ASSUME QueueOK, queue # <<>>, queue' = Tail(queue),
           1 .. Len(diffs) \subseteq 1 .. Len(diffs')
    PROVE  QueueOK'
<1>1. /\ IsSequence(queue')
      /\ \A i \in 1 .. Len(queue') : i + 1 \in 1 .. Len(queue) /\ queue'[i] = queue[i + 1]
  BY WithoutFirst DEF QueueOK
<1> QED BY <1>1 DEF QueueOK, IsRead

LEMMA SendWatch == ASSUME InvWatch, Send PROVE InvWatch'
<1>1. PICK o \in Requests : queue' = Append(queue, o)
  BY DEF Send
<1>2. /\ sent < MaxOperations /\ sent' = sent + 1
      /\ UNCHANGED <<watchers, answered, tasks, diffs, calls, rejected, made>>
  BY DEF Send
<1>3. QueueOK'
  BY <1>1, <1>2, QueueGrows DEF InvWatch
<1>4. CountsOK'
  <2>1. Cardinality(Asked') = Cardinality(Asked) + 1 /\ Cardinality(Asked) \in Nat
    BY <1>1, AskedIs, AskedMore, RequestsAreNoReads DEF InvWatch
  <2>2. Len(diffs) \in Nat /\ Len(diffs') = Len(diffs)
    BY <1>2, DiffsLength DEF InvWatch
  <2> QED BY <1>2, <2>1, <2>2, BoundsAssumption DEF InvWatch, CountsOK
<1>5. WatchersOK' /\ AnsweredOK' /\ AreEvents(tasks)' /\ AreEvents(calls)' /\ DiffsOK' /\ MadeOK'
  BY <1>2 DEF InvWatch, WatchersOK, AnsweredOK, AreEvents, DiffsOK, MadeOK
<1> QED BY <1>3, <1>4, <1>5 DEF InvWatch

LEMMA AnswersWatch ==
    ASSUME InvWatch, NEW order \in Seq(Change), Answers(order),
           queue # <<>>, queue[1] \in Requests
    PROVE  InvWatch'
<1>1. /\ queue' = Tail(queue)
      /\ diffs' = Append(diffs, order)
      /\ answered' = Append(answered, [operation |-> Len(diffs) + 1, read |-> <<>>])
      /\ UNCHANGED <<watchers, tasks, calls, rejected, sent, made>>
  BY DEF Answers
<1>2. /\ diffs' \in Seq(Seq(Change)) /\ Len(diffs) \in Nat /\ Len(diffs') = Len(diffs) + 1
  BY <1>1, AppendProperties, DiffsLength DEF InvWatch, DiffsOK
<1>3. 1 .. Len(diffs) \subseteq 1 .. Len(diffs') /\ Len(diffs) + 1 \in 1 .. Len(diffs')
  BY <1>2
<1>4. QueueOK'
  BY <1>1, <1>3, QueueShrinks DEF InvWatch
<1>5. AnsweredOK'
  <2>1. /\ IsSequence(answered') /\ Len(answered) \in Nat
        /\ Len(answered') = Len(answered) + 1
        /\ \A i \in 1 .. Len(answered) : answered'[i] = answered[i]
        /\ answered'[Len(answered) + 1] = [operation |-> Len(diffs) + 1, read |-> <<>>]
    BY <1>1, Appended, LengthOf DEF InvWatch, AnsweredOK
  <2>2. \A i \in 1 .. Len(answered') : i \in 1 .. Len(answered) \/ i = Len(answered) + 1
    BY <2>1
  <2>3. <<>> \in Seq(Watched)
    BY EmptySeq
  <2>4. ASSUME NEW i \in 1 .. Len(answered')
        PROVE  answered'[i].operation \in 1 .. Len(diffs') /\ answered'[i].read \in Seq(Watched)
    <3>1. CASE i \in 1 .. Len(answered)
      <4>1. answered[i].operation \in 1 .. Len(diffs) /\ answered[i].read \in Seq(Watched)
        BY <3>1 DEF InvWatch, AnsweredOK
      <4> QED BY <1>3, <2>1, <3>1, <4>1
    <3>2. CASE i = Len(answered) + 1
      <4>1. answered'[i].operation = Len(diffs) + 1 /\ answered'[i].read = <<>>
        BY <2>1, <3>2
      <4> QED BY <1>3, <2>3, <4>1
    <3> QED BY <2>2, <3>1, <3>2
  <2> QED BY <2>1, <2>4 DEF AnsweredOK
<1>6. CountsOK'
  <2>1. Cardinality(Asked') = Cardinality(Asked) - 1 /\ Cardinality(Asked) \in Nat
    BY <1>1, AskedIs, AskedLess, RequestsAreNoReads DEF InvWatch
  <2> QED BY <1>1, <1>2, <2>1 DEF InvWatch, CountsOK
<1>7. WatchersOK' /\ AreEvents(tasks)' /\ AreEvents(calls)' /\ DiffsOK' /\ MadeOK'
  BY <1>1, <1>2, <1>3 DEF InvWatch, WatchersOK, AreEvents, DiffsOK, MadeOK
<1> QED BY <1>4, <1>5, <1>6, <1>7 DEF InvWatch

\* A job that is done without a diff: a transaction that throws, and a read.
LEMMA DoneWatch ==
    ASSUME InvWatch, queue # <<>>, queue' = Tail(queue), AnsweredOK',
           UNCHANGED <<watchers, tasks, diffs, calls, rejected, sent, made>>
    PROVE  InvWatch'
<1>1. QueueOK'
  BY QueueShrinks DEF InvWatch
<1>2. CountsOK'
  <2>1. /\ Cardinality(Asked) \in Nat
        /\ Cardinality(Asked') = Cardinality(Asked) \/ Cardinality(Asked') = Cardinality(Asked) - 1
    BY AskedIs, AskedLess DEF InvWatch
  <2>2. Len(diffs) \in Nat
    BY DiffsLength DEF InvWatch
  <2> QED BY <2>1, <2>2 DEF InvWatch, CountsOK
<1>3. WatchersOK' /\ AreEvents(tasks)' /\ AreEvents(calls)' /\ DiffsOK' /\ MadeOK'
  BY DEF InvWatch, WatchersOK, AreEvents, DiffsOK, MadeOK
<1> QED BY <1>1, <1>2, <1>3 DEF InvWatch

LEMMA ReadWatch == ASSUME InvWatch, Read PROVE InvWatch'
<1>1. queue # <<>> /\ Now = queue[1] /\ 1 \in 1 .. Len(queue)
  BY NowIs DEF InvWatch, Read
<1>2. IsRead(queue[1])
  BY <1>1 DEF Read, IsRead
<1>3. Now.operation \in 1 .. Len(diffs) /\ Now.targets \in Seq(Watched)
  BY <1>1, <1>2, RequestsAreNoReads DEF InvWatch, QueueOK
<1>4. /\ queue' = Tail(queue)
      /\ UNCHANGED <<watchers, tasks, diffs, calls, rejected, sent, made>>
  BY DEF Read
<1>5. PICK a : /\ answered' = Append(answered, a)
               /\ a.operation = Now.operation /\ a.read = Now.targets
  BY DEF Read
<1>6. AnsweredOK'
  <2>1. /\ IsSequence(answered') /\ Len(answered) \in Nat
        /\ Len(answered') = Len(answered) + 1
        /\ \A i \in 1 .. Len(answered) : answered'[i] = answered[i]
        /\ answered'[Len(answered) + 1] = a
    BY <1>5, Appended, LengthOf DEF InvWatch, AnsweredOK
  <2>2. \A i \in 1 .. Len(answered') : i \in 1 .. Len(answered) \/ i = Len(answered) + 1
    BY <2>1
  <2> QED BY <1>3, <1>4, <1>5, <2>1, <2>2 DEF InvWatch, AnsweredOK
<1> QED BY <1>1, <1>4, <1>6, DoneWatch

-----------------------------------------------------------------------------

(***************************************************************************)
(* The operations of the database.  What the program asks for are steps    *)
(* LocalDBOperations has, so that what is proved of it holds beside the    *)
(* subscriptions as well; and their diffs are sequences of changes.        *)
(***************************************************************************)
LEMMA RequestIs ==
    ASSUME NEW r \in Requests
    PROVE  /\ r.op = "commitLocalTransaction" => r.entries \in Entries
           /\ r.op = "commitSerializedRemoteEntries" => r.batch \in Batches
           /\ r.op = "discardLocalEntryKeys" => r.keys \in SUBSET Key
  BY RequestsAssumption

LEMMA EntriesType ==
    ASSUME NEW entries \in Entries
    PROVE  entries \in Seq(Change)
<1>1. Cardinality(Key) \in Nat
  BY FiniteAssumption, FS_CardinalityType
<1>2. PICK n \in 1 .. Cardinality(Key) : entries \in [1 .. n -> Change]
  BY DEF Entries
<1>3. n \in Nat
  BY <1>1, <1>2
<1> QED BY <1>2, <1>3

LEMMA AssignmentsType ==
    ASSUME NEW entries \in Entries
    PROVE  \E keys \in SUBSET Key : Assignments(entries) \in [keys -> Data]
<1> DEFINE keys == {entries[i].key : i \in DOMAIN entries}
           first(k) == CHOOSE i \in DOMAIN entries : entries[i].key = k
<1>1. \A i \in DOMAIN entries : entries[i] \in Change
  BY EntriesType, LenProperties, ElementOfSeq
<1>2. keys \in SUBSET Key
  BY <1>1 DEF Change
<1>3. ASSUME NEW k \in keys PROVE entries[first(k)].value \in Data
  <2>1. first(k) \in DOMAIN entries
    OBVIOUS
  <2> HIDE DEF first
  <2> QED BY <1>1, <2>1 DEF Change
<1>4. Assignments(entries) = [k \in keys |-> entries[first(k)].value]
  BY DEF Assignments
<1> HIDE DEF keys, first
<1> QED BY <1>2, <1>3, <1>4

LEMMA ChangesOfKeysFinite ==
    ASSUME NEW C \in SUBSET Change, \A c, d \in C : c.key = d.key => c = d
    PROVE  IsFiniteSet(C)
<1> DEFINE f == [c \in C |-> c.key]
<1>1. f \in Injection(C, Key)
  <2>1. f \in [C -> Key]
    BY DEF Change
  <2>2. \A c, d \in C : f[c] = f[d] => c = d
    OBVIOUS
  <2> HIDE DEF f
  <2> QED BY <2>1, <2>2 DEF Injection, IsInjective
<1> QED BY <1>1, FiniteAssumption, FS_Injection DEF ExistsInjection

LEMMA UnsetType ==
    ASSUME NEW keys \in SUBSET Key
    PROVE  SetToSeq(Unset(keys)) \in Seq(Change)
<1>1. Unset(keys) \in SUBSET Change
  BY DEF Unset, Change, Data
<1>2. \A c, d \in Unset(keys) : c.key = d.key => c = d
  BY DEF Unset
<1> QED BY <1>1, <1>2, ChangesOfKeysFinite, SequenceOfSet, SeqMonotonic

LEMMA RemoteDiff ==
    ASSUME TypeOKStore, NEW batch \in Batches, CommitRemoteEntries(batch)
    PROVE  SetToSeq(Unset(diff'.cleared)) \o SetToSeq(diff'.changed) \in Seq(Change)
<1>1. batch \in Answer /\ IsBatch(batch)
  BY BatchesAssumption
<1>2. diff'.cleared \in SUBSET Key /\ diff'.changed \in SUBSET Change
  BY <1>1, CommitRemoteEntriesType DEF TypeOKStore
<1>3. PICK revs \in SUBSET batch.revs :
          diff'.changed = {[key |-> r.key, value |-> r.value] : r \in revs}
  <2>1. PICK accepted \in SUBSET batch.revs :
            diff'.changed = {[key |-> r.key, value |-> r.value] : r \in Shown(accepted)}
    BY DEF CommitRemoteEntries
  <2>2. Shown(accepted) \in SUBSET batch.revs
    BY DEF Shown
  <2> QED BY <2>1, <2>2
<1>4. \A c, d \in diff'.changed : c.key = d.key => c = d
  BY <1>1, <1>3 DEF IsBatch
<1>5. SetToSeq(diff'.changed) \in Seq(Change)
  <2>1. PICK changes \in SUBSET Change : changes = diff'.changed
    BY <1>2
  <2>2. IsFiniteSet(changes)
    BY <1>4, <2>1, ChangesOfKeysFinite
  <2> QED BY <2>1, <2>2, SequenceOfSet, SeqMonotonic
<1>6. SetToSeq(Unset(diff'.cleared)) \in Seq(Change)
  BY <1>2, UnsetType
<1> QED BY <1>5, <1>6, ConcatProperties

LEMMA DiscardDiff ==
    ASSUME TypeOKStore, NEW keys \in SUBSET Key, DiscardLocalEntryKeys(keys)
    PROVE  SetToSeq(diff'.changed) \in Seq(Change)
<1>1. diff'.changed \in SUBSET Change
  BY DiscardLocalEntryKeysType DEF TypeOKStore
<1>2. \A c, d \in diff'.changed : c.key = d.key => c = d
  <2>1. PICK purged, rolled : /\ purged \cap rolled = {}
                              /\ diff'.changed = {[key |-> k, value |-> Undefined] : k \in purged}
                                    \cup {[key |-> k, value |-> remote[k].value] : k \in rolled}
    BY DEF DiscardLocalEntryKeys
  <2> QED BY <2>1
<1>3. PICK changes \in SUBSET Change : changes = diff'.changed
  BY <1>1
<1>4. IsFiniteSet(changes)
  BY <1>2, <1>3, ChangesOfKeysFinite
<1> QED BY <1>3, <1>4, SequenceOfSet, SeqMonotonic

\* The steps of the program are steps of the database, and complete, or leave it
\* as it is.
LEMMA StoreStep ==
    ASSUME InvWatch, [Next]_allVars
    PROVE  UNCHANGED storeVars \/ (NextStore /\ diff'.origin # "failed")
<1>1. CASE CommitTransaction
  <2>1. queue # <<>> /\ Now = queue[1] /\ 1 \in 1 .. Len(queue)
    BY <1>1, NowIs DEF InvWatch, CommitTransaction
  <2>2. Now \in Requests /\ Now.op = "commitLocalTransaction"
    BY <1>1, <2>1 DEF CommitTransaction, InvWatch, QueueOK, IsRead
  <2>3. PICK keys \in SUBSET Key : Assignments(Now.entries) \in [keys -> Data]
    BY <2>2, RequestIs, AssignmentsType
  <2>4. CASE Assignable(Assignments(Now.entries))
    <3>1. CommitLocalEntries(Assignments(Now.entries))
      BY <1>1, <2>4 DEF CommitTransaction
    <3>2. diff'.origin # "failed"
      BY <3>1 DEF CommitLocalEntries
    <3> QED BY <2>3, <2>4, <3>1, <3>2 DEF NextStore
  <2>5. CASE ~Assignable(Assignments(Now.entries))
    BY <1>1, <2>5 DEF CommitTransaction, storeVars
  <2> QED BY <2>4, <2>5
<1>2. CASE CommitRemote
  <2>1. queue # <<>> /\ Now = queue[1] /\ 1 \in 1 .. Len(queue)
    BY <1>2, NowIs DEF InvWatch, CommitRemote
  <2>2. Now \in Requests /\ Now.op = "commitSerializedRemoteEntries"
    BY <1>2, <2>1 DEF CommitRemote, InvWatch, QueueOK, IsRead
  <2>3. Now.batch \in Batches
    BY <2>2, RequestIs
  <2>4. diff'.origin # "failed"
    BY <1>2 DEF CommitRemote, CommitRemoteEntries
  <2> QED BY <1>2, <2>3, <2>4 DEF CommitRemote, NextStore
<1>3. CASE Discard
  <2>1. queue # <<>> /\ Now = queue[1] /\ 1 \in 1 .. Len(queue)
    BY <1>3, NowIs DEF InvWatch, Discard
  <2>2. Now \in Requests /\ Now.op = "discardLocalEntryKeys"
    BY <1>3, <2>1 DEF Discard, InvWatch, QueueOK, IsRead
  <2>3. Now.keys \in SUBSET Key
    BY <2>2, RequestIs
  <2>4. diff'.origin # "failed"
    BY <1>3 DEF Discard, DiscardLocalEntryKeys
  <2> QED BY <1>3, <2>3, <2>4 DEF Discard, NextStore
<1>4. CASE Send \/ Read \/ AnnounceChanges \/ CallHandlers \/ Watch \/ UNCHANGED allVars
  BY <1>4 DEF Send, Read, AnnounceChanges, CallHandlers, Watch, allVars
<1> QED BY <1>1, <1>2, <1>3, <1>4 DEF Next, Execute

LEMMA CommitTransactionWatch == ASSUME InvWatch, CommitTransaction PROVE InvWatch'
<1>1. queue # <<>> /\ Now = queue[1] /\ 1 \in 1 .. Len(queue)
  BY NowIs DEF InvWatch, CommitTransaction
<1>2. queue[1] \in Requests /\ Now.op = "commitLocalTransaction"
  BY <1>1 DEF CommitTransaction, InvWatch, QueueOK, IsRead
<1>3. CASE Assignable(Assignments(Now.entries))
  <2>1. Now.entries \in Seq(Change)
    BY <1>1, <1>2, RequestIs, EntriesType
  <2>2. PICK changes : changes = diff'.changed
    OBVIOUS
  <2>3. Answers(Kept(Now.entries, changes))
    BY <1>3, <2>2 DEF CommitTransaction
  <2>4. Kept(Now.entries, changes) \in Seq(Change)
    <3>1. Kept(Now.entries, changes) \in Seq(Change \cap changes)
      BY <2>1, KeptIs
    <3> QED BY <3>1, SeqMonotonic
  <2> QED BY <1>1, <1>2, <2>3, <2>4, AnswersWatch
<1>4. CASE ~Assignable(Assignments(Now.entries))
  <2>1. /\ queue' = Tail(queue)
        /\ UNCHANGED <<watchers, answered, tasks, diffs, calls, rejected, sent, made>>
    BY <1>4 DEF CommitTransaction
  <2>2. AnsweredOK'
    BY <2>1 DEF InvWatch, AnsweredOK
  <2> QED BY <1>1, <2>1, <2>2, DoneWatch
<1> QED BY <1>3, <1>4

LEMMA CommitRemoteWatch == ASSUME InvWatch, TypeOKStore, CommitRemote PROVE InvWatch'
<1>1. queue # <<>> /\ Now = queue[1] /\ 1 \in 1 .. Len(queue)
  BY NowIs DEF InvWatch, CommitRemote
<1>2. queue[1] \in Requests /\ Now.op = "commitSerializedRemoteEntries"
  BY <1>1 DEF CommitRemote, InvWatch, QueueOK, IsRead
<1>3. Now.batch \in Batches
  BY <1>1, <1>2, RequestIs
<1>4. PICK order : order = SetToSeq(Unset(diff'.cleared)) \o SetToSeq(diff'.changed)
  OBVIOUS
<1>5. order \in Seq(Change)
  BY <1>3, <1>4, RemoteDiff DEF CommitRemote
<1>6. Answers(order)
  BY <1>4 DEF CommitRemote
<1> QED BY <1>1, <1>2, <1>5, <1>6, AnswersWatch

LEMMA DiscardWatch == ASSUME InvWatch, TypeOKStore, Discard PROVE InvWatch'
<1>1. queue # <<>> /\ Now = queue[1] /\ 1 \in 1 .. Len(queue)
  BY NowIs DEF InvWatch, Discard
<1>2. queue[1] \in Requests /\ Now.op = "discardLocalEntryKeys"
  BY <1>1 DEF Discard, InvWatch, QueueOK, IsRead
<1>3. Now.keys \in SUBSET Key
  BY <1>1, <1>2, RequestIs
<1>4. PICK order : order = SetToSeq(diff'.changed)
  OBVIOUS
<1>5. order \in Seq(Change)
  BY <1>3, <1>4, DiscardDiff DEF Discard
<1>6. Answers(order)
  BY <1>4 DEF Discard
<1> QED BY <1>1, <1>2, <1>5, <1>6, AnswersWatch

-----------------------------------------------------------------------------

(***************************************************************************)
(* The announcements, and the subscriptions.                               *)
(***************************************************************************)
LEMMA JoinedEvents ==
    ASSUME NEW s, NEW t, AreEvents(s), AreEvents(t)
    PROVE  AreEvents(s \o t)
<1>1. /\ IsSequence(s \o t)
      /\ \A i \in 1 .. Len(s \o t) :
            \/ i \in 1 .. Len(s) /\ (s \o t)[i] = s[i]
            \/ i - Len(s) \in 1 .. Len(t) /\ (s \o t)[i] = t[i - Len(s)]
  BY Joined DEF AreEvents
<1>2. PICK all : all = s \o t
  OBVIOUS
<1>3. ASSUME NEW i \in 1 .. Len(all)
      PROVE  all[i].operation \in 1 .. Len(diffs) /\ all[i].path \in Watched
  <2>1. CASE i \in 1 .. Len(s) /\ all[i] = s[i]
    BY <2>1 DEF AreEvents
  <2>2. CASE i - Len(s) \in 1 .. Len(t) /\ all[i] = t[i - Len(s)]
    BY <2>2 DEF AreEvents
  <2> QED BY <1>1, <1>2, <2>1, <2>2
<1>4. IsSequence(all)
  BY <1>1, <1>2
<1>5. AreEvents(all)
  BY <1>3, <1>4 DEF AreEvents
<1> QED BY <1>2, <1>5

LEMMA WalkWatch ==
    ASSUME InvWatch, UNCHANGED <<diffs, sent>>,
           NEW n \in 1 .. Len(diffs), NEW targets \in Seq(Watched),
           NEW told, AreEvents(told), Walk(n, targets, told)
    PROVE  AreEvents(tasks)' /\ QueueOK' /\ CountsOK'
<1>1. tasks' = (tasks \o told) \o FromDiff(n, targets)
  BY WalkIs
<1>2. AreEvents(tasks)'
  <2>1. PICK q : q = FromDiff(n, targets)
    OBVIOUS
  <2>2. AreEvents(q)
    BY <2>1, FromDiffIs DEF InvWatch, AreEvents
  <2>3. PICK all : all = (tasks \o told) \o q
    OBVIOUS
  <2>4. AreEvents(all)
    <3>1. PICK first : first = tasks \o told
      OBVIOUS
    <3>2. AreEvents(first)
      BY <3>1, JoinedEvents DEF InvWatch
    <3> QED BY <2>2, <2>3, <3>1, <3>2, JoinedEvents
  <2> QED BY <1>1, <2>1, <2>3, <2>4 DEF AreEvents
<1>3. /\ Len(diffs) \in Nat /\ Cardinality(Asked) \in Nat
  BY DiffsLength, AskedIs DEF InvWatch
<1>4. CASE queue' = queue
  <2>1. QueueOK'
    BY <1>4 DEF InvWatch, QueueOK, IsRead
  <2>2. Asked' = Asked
    BY <1>4 DEF Asked, IsRead
  <2>3. CountsOK'
    BY <2>2 DEF InvWatch, CountsOK
  <2> QED BY <1>2, <2>1, <2>3
<1>5. ASSUME NEW rest \in Seq(Watched),
             queue' = Append(queue, [op |-> "getEntity", operation |-> n, targets |-> rest])
      PROVE  QueueOK' /\ CountsOK'
  <2>1. PICK job : job = [op |-> "getEntity", operation |-> n, targets |-> rest]
    OBVIOUS
  <2>2. IsRead(job) /\ job.operation = n /\ job.targets = rest
    BY <2>1 DEF IsRead
  <2>3. queue' = Append(queue, job)
    BY <1>5, <2>1
  <2>4. QueueOK'
    BY <2>2, <2>3, QueueGrows DEF InvWatch
  <2>5. Cardinality(Asked') = Cardinality(Asked)
    BY <2>2, <2>3, AskedMore DEF InvWatch
  <2>6. CountsOK'
    BY <2>5 DEF InvWatch, CountsOK
  <2> QED BY <2>4, <2>6
<1>6. \/ queue' = queue
      \/ \E rest \in Seq(Watched) :
            queue' = Append(queue, [op |-> "getEntity", operation |-> n, targets |-> rest])
  BY WalkIs
<1> QED BY <1>2, <1>4, <1>5, <1>6

\* The paths an announcement starts with.
Paths == [i \in DOMAIN watchers |-> watchers[i].path]

LEMMA PathsType == ASSUME WatchersOK PROVE Paths \in Seq(Watched)
<1>1. /\ Len(watchers) \in Nat /\ DOMAIN watchers = 1 .. Len(watchers)
      /\ \A i \in 1 .. Len(watchers) : watchers[i] \in Watcher
  BY LenProperties, ElementOfSeq DEF WatchersOK
<1> DEFINE path(i) == watchers[i].path
<1>2. Paths = [i \in 1 .. Len(watchers) |-> path(i)]
  BY <1>1 DEF Paths
<1>3. \A i \in 1 .. Len(watchers) : path(i) \in Watched
  BY <1>1 DEF Watcher
<1> HIDE DEF path
<1> QED BY <1>1, <1>2, <1>3

LEMMA AnnounceChangesWatch == ASSUME InvWatch, AnnounceChanges PROVE InvWatch'
<1>1. /\ answered # <<>> /\ answered' = Tail(answered)
      /\ UNCHANGED <<watchers, diffs, calls, sent, made>>
  BY DEF AnnounceChanges
<1>2. PICK a : a = answered[1]
  OBVIOUS
<1>3. /\ IsSequence(answered') /\ Len(answered) \in Nat \ {0}
      /\ \A i \in 1 .. Len(answered') : i + 1 \in 1 .. Len(answered) /\ answered'[i] = answered[i + 1]
  BY <1>1, WithoutFirst DEF InvWatch, AnsweredOK
<1>4. a.operation \in 1 .. Len(diffs) /\ a.read \in Seq(Watched)
  BY <1>2, <1>3 DEF InvWatch, AnsweredOK
<1>5. AnsweredOK'
  BY <1>1, <1>3 DEF InvWatch, AnsweredOK
<1>6. AreEvents(calls)' /\ WatchersOK' /\ MadeOK'
  BY <1>1 DEF InvWatch, AreEvents, WatchersOK, MadeOK
<1>7. CASE a.read = <<>>
  <2>1. Walk(a.operation, Paths, <<>>) /\ rejected' = rejected
    BY <1>2, <1>7 DEF AnnounceChanges, Paths
  <2>2. AreEvents(<<>>)
    BY NoneYet DEF AreEvents
  <2>3. AreEvents(tasks)' /\ QueueOK' /\ CountsOK'
    BY <1>1, <1>4, <2>1, <2>2, PathsType, WalkWatch DEF InvWatch
  <2>4. DiffsOK'
    BY <1>1, <2>1 DEF InvWatch, DiffsOK
  <2> QED BY <1>5, <1>6, <2>3, <2>4 DEF InvWatch
<1>8. CASE a.read # <<>> /\ a.throws
  <2>1. rejected' = rejected \cup {a.operation} /\ UNCHANGED <<tasks, queue>>
    BY <1>2, <1>8 DEF AnnounceChanges
  <2>2. DiffsOK'
    BY <1>1, <1>4, <2>1 DEF InvWatch, DiffsOK
  <2>3. AreEvents(tasks)' /\ QueueOK' /\ CountsOK'
    BY <1>1, <2>1 DEF InvWatch, AreEvents, QueueOK, IsRead, CountsOK, Asked
  <2> QED BY <1>5, <1>6, <2>2, <2>3 DEF InvWatch
<1>9. CASE a.read # <<>> /\ ~a.throws
  <2>1. PICK told : told = Events(a.operation, a.read[1], a.value)
    OBVIOUS
  <2>2. Walk(a.operation, Tail(a.read), told) /\ rejected' = rejected
    BY <1>2, <1>9, <2>1 DEF AnnounceChanges
  <2>3. a.read[1] \in Watched /\ Tail(a.read) \in Seq(Watched)
    <3>1. Len(a.read) \in Nat \ {0}
      BY <1>4, <1>9, EmptySeq
    <3>2. 1 \in 1 .. Len(a.read)
      BY <3>1
    <3> QED BY <1>4, <1>9, <3>2, ElementOfSeq, HeadTailProperties
  <2>4. AreEvents(told)
    <3>1. PICK n, path, value : n = a.operation /\ path = a.read[1] /\ value = a.value
      OBVIOUS
    <3>2. told \in Seq(EventsAt(n, path, value))
      BY <2>1, <3>1, EventsType DEF InvWatch
    <3>3. \A e \in EventsAt(n, path, value) : e.operation = n /\ e.path = path
      BY DEF EventsAt
    <3> QED BY <1>4, <2>3, <3>1, <3>2, <3>3, ElementOfSeq DEF AreEvents, IsSequence
  <2>5. AreEvents(tasks)' /\ QueueOK' /\ CountsOK'
    BY <1>1, <1>4, <2>2, <2>3, <2>4, WalkWatch
  <2>6. DiffsOK'
    BY <1>1, <2>2 DEF InvWatch, DiffsOK
  <2> QED BY <1>5, <1>6, <2>5, <2>6 DEF InvWatch
<1> QED BY <1>7, <1>8, <1>9

LEMMA CallHandlersWatch == ASSUME InvWatch, CallHandlers PROVE InvWatch'
<1>1. /\ tasks' = <<>> /\ calls' = calls \o tasks
      /\ UNCHANGED <<watchers, queue, answered, diffs, rejected, sent, made>>
  BY DEF CallHandlers
<1>2. PICK all : all = calls \o tasks
  OBVIOUS
<1>3. AreEvents(all)
  BY <1>2, JoinedEvents DEF InvWatch
<1>4. AreEvents(calls)'
  BY <1>1, <1>2, <1>3 DEF AreEvents
<1>5. AreEvents(tasks)'
  BY <1>1, NoneYet DEF AreEvents
<1>6. WatchersOK' /\ QueueOK' /\ AnsweredOK' /\ DiffsOK' /\ MadeOK' /\ CountsOK'
  BY <1>1 DEF InvWatch, WatchersOK, QueueOK, IsRead, AnsweredOK, DiffsOK, MadeOK, CountsOK, Asked
<1> QED BY <1>4, <1>5, <1>6 DEF InvWatch

LEMMA WithoutType ==
    ASSUME NEW S, NEW subscribers \in Seq(S), NEW handler
    PROVE  Without(subscribers, handler) \in Seq(S)
<1> DEFINE its == {i \in DOMAIN subscribers : subscribers[i].handler = handler}
<1>1. Len(subscribers) \in Nat /\ DOMAIN subscribers = 1 .. Len(subscribers)
  BY LenProperties
<1>2. its \in SUBSET (1 .. Len(subscribers))
  BY <1>1
<1>3. CASE its = {}
  BY <1>3 DEF Without
<1>4. CASE its # {}
  <2>1. Without(subscribers, handler)
            = RemoveAt(subscribers, CHOOSE i \in its : \A j \in its : i <= j)
    BY <1>4 DEF Without
  <2> HIDE DEF its
  <2>2. \E i \in its : \A j \in its : i <= j
    BY <1>1, <1>2, <1>4, LeastOf
  <2>3. PICK i \in 1 .. Len(subscribers) : i = CHOOSE k \in its : \A j \in its : k <= j
    BY <1>2, <2>2
  <2> QED BY <2>1, <2>3, Removed
<1> QED BY <1>3, <1>4

LEMMA UnsubscribeType ==
    ASSUME WatchersOK, NEW handler, Unsubscribe(handler)
    PROVE  WatchersOK'
<1>1. /\ Len(watchers) \in Nat /\ DOMAIN watchers = 1 .. Len(watchers)
      /\ \A i \in 1 .. Len(watchers) : watchers[i] \in Watcher
  BY LenProperties, ElementOfSeq DEF WatchersOK
<1> DEFINE then(i) == [watchers[i] EXCEPT !.subscribers = Without(@, handler)]
<1>2. watchers' = [i \in 1 .. Len(watchers) |-> then(i)]
  BY <1>1 DEF Unsubscribe
<1>3. ASSUME NEW i \in 1 .. Len(watchers) PROVE then(i) \in Watcher
  <2>1. watchers[i] \in Watcher /\ Without(watchers[i].subscribers, handler) \in Seq(Subscriber)
    BY <1>1, WithoutType DEF Watcher
  <2> QED BY <2>1 DEF Watcher
<1> HIDE DEF then
<1> QED BY <1>1, <1>2, <1>3 DEF WatchersOK

LEMMA SubscribeType ==
    ASSUME InvWatch, NEW path \in Watched, NEW handler \in Handler, NEW isObserver \in BOOLEAN,
           NEW id \in 1 .. MaxSubscriptions, SubscribeOrObserve(path, handler, isObserver, id)
    PROVE  WatchersOK'
<1>1. /\ Len(watchers) \in Nat /\ DOMAIN watchers = 1 .. Len(watchers)
      /\ \A i \in 1 .. Len(watchers) : watchers[i] \in Watcher
  BY LenProperties, ElementOfSeq DEF InvWatch, WatchersOK
<1>2. Len(diffs) \in 0 .. MaxOperations
  BY DiffsLength, AskedIs, BoundsAssumption DEF InvWatch, CountsOK
<1>3. PICK new \in Subscriber :
          new = [handler |-> handler, isObserver |-> isObserver, id |-> id, after |-> Len(diffs)]
  BY <1>2 DEF Subscriber
<1>4. CASE \E i \in DOMAIN watchers : watchers[i].path = path
  <2> DEFINE then(i) == IF watchers[i].path = path
                        THEN [watchers[i] EXCEPT !.subscribers = Append(@, new)] ELSE watchers[i]
  <2>1. watchers' = [i \in 1 .. Len(watchers) |-> then(i)]
    BY <1>1, <1>3, <1>4 DEF SubscribeOrObserve
  <2>2. ASSUME NEW i \in 1 .. Len(watchers) PROVE then(i) \in Watcher
    <3>1. watchers[i] \in Watcher /\ watchers[i].subscribers \in Seq(Subscriber)
      BY <1>1 DEF Watcher
    <3>2. Append(watchers[i].subscribers, new) \in Seq(Subscriber)
      BY <3>1, AppendProperties
    <3> QED BY <3>1, <3>2 DEF Watcher
  <2> HIDE DEF then
  <2> QED BY <1>1, <2>1, <2>2 DEF WatchersOK
<1>5. CASE ~\E i \in DOMAIN watchers : watchers[i].path = path
  <2>1. PICK w : w = [path |-> path, subscribers |-> <<new>>]
    OBVIOUS
  <2>2. watchers' = Append(watchers, w)
    BY <1>3, <1>5, <2>1 DEF SubscribeOrObserve
  <2>3. <<new>> \in Seq(Subscriber)
    OBVIOUS
  <2>4. w \in Watcher
    BY <2>1, <2>3 DEF Watcher
  <2> QED BY <2>2, <2>4, AppendProperties DEF InvWatch, WatchersOK
<1> QED BY <1>4, <1>5

LEMMA WatchWatch == ASSUME InvWatch, Watch PROVE InvWatch'
<1>1. UNCHANGED <<queue, answered, tasks, diffs, calls, rejected, sent>>
  BY DEF Watch
<1>2. QueueOK' /\ AnsweredOK' /\ AreEvents(tasks)' /\ AreEvents(calls)' /\ DiffsOK' /\ CountsOK'
  BY <1>1 DEF InvWatch, QueueOK, IsRead, AnsweredOK, AreEvents, DiffsOK, CountsOK, Asked
<1>3. ASSUME Len(made) < MaxSubscriptions,
             NEW path \in Watched, NEW handler \in Handler, NEW isObserver \in BOOLEAN,
             SubscribeOrObserve(path, handler, isObserver, Len(made) + 1),
             made' = Append(made, isObserver)
      PROVE  WatchersOK' /\ MadeOK'
  <2>1. Len(made) + 1 \in 1 .. MaxSubscriptions /\ Len(made) \in Nat
    BY <1>3, LenProperties, BoundsAssumption DEF InvWatch, MadeOK
  <2>2. made' \in Seq(BOOLEAN) /\ Len(made') = Len(made) + 1
    BY <1>3, AppendProperties DEF InvWatch, MadeOK
  <2>3. MadeOK'
    BY <2>1, <2>2, BoundsAssumption DEF MadeOK
  <2>4. WatchersOK'
    BY <1>3, <2>1, SubscribeType
  <2> QED BY <2>3, <2>4
<1>4. ASSUME NEW handler, Unsubscribe(handler), made' = made
      PROVE  WatchersOK' /\ MadeOK'
  BY <1>4, UnsubscribeType DEF InvWatch, MadeOK
<1>5. WatchersOK' /\ MadeOK'
  BY <1>3, <1>4 DEF Watch
<1> QED BY <1>2, <1>5 DEF InvWatch

LEMMA NextWatch ==
    ASSUME InvWatch, TypeOKStore, [Next]_allVars
    PROVE  InvWatch'
<1>1. CASE UNCHANGED allVars
  BY <1>1 DEF allVars, watchVars, InvWatch, WatchersOK, QueueOK, IsRead, AnsweredOK, AreEvents,
              DiffsOK, MadeOK, CountsOK, Asked
<1> QED BY <1>1, SendWatch, CommitTransactionWatch, CommitRemoteWatch, DiscardWatch, ReadWatch,
           AnnounceChangesWatch, CallHandlersWatch, WatchWatch DEF Next, Execute

-----------------------------------------------------------------------------

InvAll == InvStore /\ InvWatch

LEMMA InitAll == Init => InvAll
  BY InitStoreInv, InitWatch DEF Init, InvAll

LEMMA NextAll == InvAll /\ [Next]_allVars => InvAll'
<1> SUFFICES ASSUME InvAll, [Next]_allVars PROVE InvAll'
  OBVIOUS
<1>1. InvStore'
  BY StoreStep, CompletedOperationInv, InvStoreUnchanged DEF InvAll
<1>2. InvWatch'
  BY NextWatch DEF InvAll, InvStore
<1> QED BY <1>1, <1>2 DEF InvAll

LEMMA AllTyped == InvAll => TypeOK
<1> SUFFICES ASSUME InvAll PROVE TypeOK
  OBVIOUS
<1>1. TypeOKStore
  BY DEF InvAll, InvStore
<1>2. ASSUME NEW i \in DOMAIN watchers
      PROVE  /\ watchers[i].path \in Watched
             /\ \A s \in ToSet(watchers[i].subscribers) : s \in Subscriber
  <2>1. watchers[i] \in Watcher
    BY LenProperties, ElementOfSeq DEF InvAll, InvWatch, WatchersOK
  <2>2. PICK subscribers \in Seq(Subscriber) : subscribers = watchers[i].subscribers
    BY <2>1 DEF Watcher
  <2>3. \A s \in ToSet(subscribers) : s \in Subscriber
    BY LenProperties, ElementOfSeq DEF ToSet
  <2> QED BY <2>1, <2>2, <2>3 DEF Watcher
<1>3. Len(diffs) \in Nat /\ DOMAIN diffs = 1 .. Len(diffs) /\ rejected \subseteq DOMAIN diffs
  BY LenProperties DEF InvAll, InvWatch, DiffsOK
<1>4. ASSUME NEW i \in DOMAIN diffs PROVE ToSet(diffs[i]) \subseteq Change
  <2>1. PICK changes \in Seq(Change) : changes = diffs[i]
    BY <1>3, ElementOfSeq DEF InvAll, InvWatch, DiffsOK
  <2>2. \A c \in ToSet(changes) : c \in Change
    BY LenProperties, ElementOfSeq DEF ToSet
  <2> QED BY <2>1, <2>2
<1>5. \A i \in DOMAIN calls : calls[i].operation \in DOMAIN diffs /\ calls[i].path \in Watched
  <2>1. DOMAIN calls = 1 .. Len(calls)
    BY LengthOf DEF InvAll, InvWatch, AreEvents
  <2> QED BY <1>3, <2>1 DEF InvAll, InvWatch, AreEvents
<1>6. made \in UNION {[1 .. n -> BOOLEAN] : n \in 0 .. MaxSubscriptions}
  <2>1. /\ made \in [1 .. Len(made) -> BOOLEAN]
        /\ Len(made) \in 0 .. MaxSubscriptions
    BY LenProperties, BoundsAssumption DEF InvAll, InvWatch, MadeOK
  <2> QED BY <2>1
<1>7. sent \in 0 .. MaxOperations
  BY DEF InvAll, InvWatch, CountsOK
<1> QED BY <1>1, <1>2, <1>3, <1>4, <1>5, <1>6, <1>7 DEF TypeOK, Subscriber

\* Type correctness, for any requests, handlers and watched paths: what is
\* announced are changes of keys, and a handler is called about an operation that
\* was done and a path that is watched, however answers, reads and subscriptions
\* interleave (announceChanges of LocalDB.ts).
THEOREM SubscriptionsTypeCorrect == Spec => []TypeOK
<1> QED BY InitAll, NextAll, AllTyped, PTL DEF Spec

\* With subscriptions, reads for observers and calls of handlers between them,
\* the operations are still those of LocalDBOperations, one after another: what
\* is proved of it, as that leaves never nest, holds of a database with
\* subscribers.
THEOREM SubscriptionsKeepTheStore == Spec => SpecStore
<1>1. Init => InitStore
  BY DEF Init
<1>2. InvAll /\ [Next]_allVars => [NextStore]_storeVars
  BY StoreStep DEF InvAll
<1> QED BY <1>1, <1>2, InitAll, NextAll, PTL DEF Spec, SpecStore

-----------------------------------------------------------------------------

(***************************************************************************)
(* The order of events while nobody observes: no announcement waits, so    *)
(* that the answers are all of operations just done, in their order; what  *)
(* has been announced is not after what is answered, nor what was called   *)
(* after what is to be called.                                             *)
(***************************************************************************)
NobodyObserved == TRUE \notin ToSet(made)

InOrder(s) == \A i, j \in 1 .. Len(s) : i < j => s[i].operation <= s[j].operation

NotAfter(s, t) == \A i \in 1 .. Len(s), j \in 1 .. Len(t) : s[i].operation <= t[j].operation

NoObservers == \A i \in 1 .. Len(watchers) : \A j \in 1 .. Len(watchers[i].subscribers) :
                  ~watchers[i].subscribers[j].isObserver

NoReads ==
    /\ \A i \in 1 .. Len(queue) : ~IsRead(queue[i])
    /\ \A i \in 1 .. Len(answered) : answered[i].read = <<>>

EventsOrdered ==
    /\ InOrder(answered) /\ InOrder(tasks) /\ InOrder(calls)
    /\ NotAfter(calls, tasks) /\ NotAfter(calls, answered) /\ NotAfter(tasks, answered)

InvOrder == NobodyObserved => NoObservers /\ NoReads /\ EventsOrdered

HasOperations(s) == IsSequence(s) /\ \A i \in 1 .. Len(s) : s[i].operation \in Nat

LEMMA JoinedOrder ==
    ASSUME NEW s, NEW t, HasOperations(s), HasOperations(t),
           InOrder(s), InOrder(t), NotAfter(s, t)
    PROVE  InOrder(s \o t)
<1>1. PICK all : all = s \o t
  OBVIOUS
<1>2. /\ Len(s) \in Nat /\ Len(t) \in Nat /\ Len(all) = Len(s) + Len(t)
      /\ \A i \in 1 .. Len(all) :
            \/ i \in 1 .. Len(s) /\ all[i] = s[i]
            \/ i - Len(s) \in 1 .. Len(t) /\ all[i] = t[i - Len(s)]
  BY <1>1, Joined, LengthOf DEF HasOperations
<1>3. ASSUME NEW i \in 1 .. Len(all), NEW j \in 1 .. Len(all), i < j
      PROVE  all[i].operation <= all[j].operation
  <2>1. CASE i \in 1 .. Len(s) /\ all[i] = s[i] /\ j \in 1 .. Len(s) /\ all[j] = s[j]
    BY <1>3, <2>1 DEF InOrder
  <2>2. CASE i \in 1 .. Len(s) /\ all[i] = s[i] /\ j - Len(s) \in 1 .. Len(t) /\ all[j] = t[j - Len(s)]
    BY <2>2 DEF NotAfter
  <2>3. CASE /\ i - Len(s) \in 1 .. Len(t) /\ all[i] = t[i - Len(s)]
             /\ j - Len(s) \in 1 .. Len(t) /\ all[j] = t[j - Len(s)]
    <3>1. i - Len(s) < j - Len(s)
      <4>1. i \in Int /\ j \in Int /\ Len(s) \in Int
        BY <1>2
      <4> QED BY <1>3, <4>1
    <3> QED BY <2>3, <3>1 DEF InOrder
  <2>4. ~(i - Len(s) \in 1 .. Len(t) /\ j \in 1 .. Len(s))
    BY <1>2, <1>3
  <2> QED BY <1>2, <2>1, <2>2, <2>3, <2>4
<1> QED BY <1>1, <1>3 DEF InOrder

LEMMA JoinedNotAfter ==
    ASSUME NEW s, NEW t, NEW u, HasOperations(s), HasOperations(t),
           NotAfter(s, u), NotAfter(t, u)
    PROVE  NotAfter(s \o t, u)
<1>1. PICK all : all = s \o t
  OBVIOUS
<1>2. \A i \in 1 .. Len(all) :
            \/ i \in 1 .. Len(s) /\ all[i] = s[i]
            \/ i - Len(s) \in 1 .. Len(t) /\ all[i] = t[i - Len(s)]
  BY <1>1, Joined DEF HasOperations
<1> QED BY <1>1, <1>2 DEF NotAfter

LEMMA OperationsAre ==
    ASSUME InvWatch
    PROVE  /\ HasOperations(tasks) /\ HasOperations(calls) /\ HasOperations(answered)
           /\ Len(diffs) \in Nat
           /\ \A i \in 1 .. Len(tasks) : tasks[i].operation <= Len(diffs)
           /\ \A i \in 1 .. Len(calls) : calls[i].operation <= Len(diffs)
           /\ \A i \in 1 .. Len(answered) : answered[i].operation <= Len(diffs)
<1>1. Len(diffs) \in Nat
  BY DiffsLength DEF InvWatch
<1>2. \A n \in 1 .. Len(diffs) : n \in Nat /\ n <= Len(diffs)
  BY <1>1
<1> QED BY <1>1, <1>2 DEF InvWatch, AreEvents, AnsweredOK, HasOperations

LEMMA InitOrder == Init => InvOrder
<1> SUFFICES ASSUME Init PROVE InvOrder
  OBVIOUS
<1>1. Len(<<>>) = 0 /\ \A i : i \notin 1 .. 0
  BY NoneYet
<1> QED BY <1>1 DEF Init, InvOrder, NoObservers, NoReads, EventsOrdered, InOrder, NotAfter

\* Nobody observed after a step only if nobody had before.
LEMMA NobodyBefore ==
    ASSUME InvWatch, [Next]_allVars, NobodyObserved'
    PROVE  /\ NobodyObserved
           /\ Watch => made' = made \/ made' = Append(made, FALSE)
<1>1. made' = made \/ \E isObserver \in BOOLEAN : made' = Append(made, isObserver)
  BY DEF Next, Execute, Send, CommitTransaction, CommitRemote, Discard, Answers, Read,
         AnnounceChanges, CallHandlers, Watch, allVars, watchVars
<1>2. CASE made' = made
  BY <1>2 DEF NobodyObserved
<1>3. ASSUME NEW isObserver \in BOOLEAN, made' = Append(made, isObserver)
      PROVE  NobodyObserved /\ made' = Append(made, FALSE)
  <2>1. /\ Len(made) \in Nat /\ DOMAIN made = 1 .. Len(made)
        /\ made' \in Seq(BOOLEAN) /\ Len(made') = Len(made) + 1
        /\ \A i \in 1 .. Len(made) : made'[i] = made[i]
        /\ made'[Len(made) + 1] = isObserver
    BY <1>3, LenProperties, AppendProperties DEF InvWatch, MadeOK
  <2>2. DOMAIN made' = 1 .. Len(made) + 1
    BY <2>1, LenProperties
  <2>3. \A i \in 1 .. Len(made) : i \in 1 .. Len(made) + 1
    BY <2>1
  <2>4. Len(made) + 1 \in 1 .. Len(made) + 1
    BY <2>1
  <2>5. NobodyObserved
    BY <2>1, <2>2, <2>3 DEF NobodyObserved, ToSet
  <2>6. isObserver = FALSE
    BY <2>1, <2>2, <2>4 DEF NobodyObserved, ToSet
  <2> QED BY <1>3, <2>5, <2>6
<1> QED BY <1>1, <1>2, <1>3

\* A diff that is answered is the latest.
LEMMA AnswersOrder ==
    ASSUME InvWatch, NoObservers, NoReads, EventsOrdered, NEW order, Answers(order), queue # <<>>
    PROVE  NoObservers' /\ NoReads' /\ EventsOrdered'
<1>1. /\ queue' = Tail(queue)
      /\ answered' = Append(answered, [operation |-> Len(diffs) + 1, read |-> <<>>])
      /\ UNCHANGED <<watchers, tasks, calls, made>>
  BY DEF Answers
<1>2. /\ IsSequence(answered') /\ Len(answered) \in Nat
      /\ Len(answered') = Len(answered) + 1
      /\ \A i \in 1 .. Len(answered) : answered'[i] = answered[i]
      /\ answered'[Len(answered) + 1] = [operation |-> Len(diffs) + 1, read |-> <<>>]
  BY <1>1, Appended, LengthOf DEF InvWatch, AnsweredOK
<1>3. /\ \A i \in 1 .. Len(answered') : i \in 1 .. Len(answered) \/ i = Len(answered) + 1
      /\ answered'[Len(answered) + 1].operation = Len(diffs) + 1
      /\ answered'[Len(answered) + 1].read = <<>>
  BY <1>2
<1>4. NoObservers'
  BY <1>1 DEF NoObservers
<1>5. NoReads'
  <2>1. \A i \in 1 .. Len(queue') : i + 1 \in 1 .. Len(queue) /\ queue'[i] = queue[i + 1]
    BY <1>1, WithoutFirst DEF InvWatch, QueueOK
  <2> QED BY <1>2, <1>3, <2>1 DEF NoReads, IsRead
<1>6. ASSUME NEW s, HasOperations(s), NotAfter(s, answered),
             \A i \in 1 .. Len(s) : s[i].operation <= Len(diffs)
      PROVE  \A i \in 1 .. Len(s), j \in 1 .. Len(answered') : s[i].operation <= answered'[j].operation
  <2> SUFFICES ASSUME NEW i \in 1 .. Len(s), NEW j \in 1 .. Len(answered')
               PROVE  s[i].operation <= answered'[j].operation
    OBVIOUS
  <2>1. CASE j \in 1 .. Len(answered)
    BY <1>2, <1>6, <2>1 DEF NotAfter
  <2>2. CASE j = Len(answered) + 1
    BY <1>3, <1>6, <2>2, OperationsAre DEF HasOperations
  <2> QED BY <1>3, <2>1, <2>2
<1>7. NotAfter(calls, answered)'
  BY <1>1, <1>6, OperationsAre DEF EventsOrdered, NotAfter
<1>8. NotAfter(tasks, answered)'
  BY <1>1, <1>6, OperationsAre DEF EventsOrdered, NotAfter
<1>9. InOrder(answered)'
  <2> SUFFICES ASSUME NEW i \in 1 .. Len(answered'), NEW j \in 1 .. Len(answered'), i < j
               PROVE  answered'[i].operation <= answered'[j].operation
    BY DEF InOrder
  <2>1. i \in 1 .. Len(answered)
    BY <1>2
  <2>2. CASE j \in 1 .. Len(answered)
    BY <1>2, <2>1, <2>2 DEF EventsOrdered, InOrder
  <2>3. CASE j = Len(answered) + 1
    BY <1>2, <1>3, <2>1, <2>3, OperationsAre DEF HasOperations
  <2> QED BY <1>3, <2>2, <2>3
<1>10. InOrder(tasks)' /\ InOrder(calls)' /\ NotAfter(calls, tasks)'
  BY <1>1 DEF EventsOrdered, InOrder, NotAfter
<1> QED BY <1>4, <1>5, <1>7, <1>8, <1>9, <1>10 DEF EventsOrdered

\* Nothing is announced or answered.
LEMMA SameEvents ==
    ASSUME EventsOrdered, UNCHANGED <<answered, tasks, calls>>
    PROVE  EventsOrdered'
  BY DEF EventsOrdered, InOrder, NotAfter

\* One after another, and one announced.
LEMMA NotAfterJoined ==
    ASSUME NEW s, NEW t, NEW u, HasOperations(t), HasOperations(u),
           NotAfter(s, t), NotAfter(s, u)
    PROVE  NotAfter(s, t \o u)
<1>1. PICK all : all = t \o u
  OBVIOUS
<1>2. \A i \in 1 .. Len(all) :
            \/ i \in 1 .. Len(t) /\ all[i] = t[i]
            \/ i - Len(t) \in 1 .. Len(u) /\ all[i] = u[i - Len(t)]
  BY <1>1, Joined DEF HasOperations
<1> QED BY <1>1, <1>2 DEF NotAfter

LEMMA SendOrder ==
    ASSUME InvWatch, NoObservers, NoReads, EventsOrdered, Send
    PROVE  NoObservers' /\ NoReads' /\ EventsOrdered'
<1>1. PICK o \in Requests : queue' = Append(queue, o)
  BY DEF Send
<1>2. UNCHANGED <<watchers, answered, tasks, calls>>
  BY DEF Send
<1>3. /\ Len(queue) \in Nat
      /\ Len(queue') = Len(queue) + 1
      /\ \A i \in 1 .. Len(queue) : queue'[i] = queue[i]
      /\ queue'[Len(queue) + 1] = o
  BY <1>1, Appended, LengthOf DEF InvWatch, QueueOK
<1>4. \A i \in 1 .. Len(queue') : i \in 1 .. Len(queue) \/ i = Len(queue) + 1
  BY <1>3
<1>5. NoReads'
  BY <1>2, <1>3, <1>4, RequestsAreNoReads DEF NoReads, IsRead
<1>6. NoObservers'
  BY <1>2 DEF NoObservers
<1> QED BY <1>2, <1>5, <1>6, SameEvents

\* A job is taken from the queue and nothing is answered.
LEMMA RefusedOrder ==
    ASSUME InvWatch, NoObservers, NoReads, EventsOrdered,
           queue # <<>>, queue' = Tail(queue), UNCHANGED <<watchers, answered, tasks, calls>>
    PROVE  NoObservers' /\ NoReads' /\ EventsOrdered'
<1>1. \A i \in 1 .. Len(queue') : i + 1 \in 1 .. Len(queue) /\ queue'[i] = queue[i + 1]
  BY WithoutFirst DEF InvWatch, QueueOK
<1>2. NoReads'
  BY <1>1 DEF NoReads, IsRead
<1>3. NoObservers'
  BY DEF NoObservers
<1> QED BY <1>2, <1>3, SameEvents

LEMMA ExecuteOrder ==
    ASSUME InvWatch, NoObservers, NoReads, EventsOrdered, Execute
    PROVE  NoObservers' /\ NoReads' /\ EventsOrdered'
<1>1. CASE CommitTransaction
  <2>1. queue # <<>>
    BY <1>1, NowIs DEF InvWatch, CommitTransaction
  <2>2. \/ \E order : Answers(order)
        \/ queue' = Tail(queue) /\ UNCHANGED <<watchers, answered, tasks, calls>>
    BY <1>1 DEF CommitTransaction
  <2> QED BY <2>1, <2>2, AnswersOrder, RefusedOrder
<1>2. CASE CommitRemote
  <2>1. queue # <<>>
    BY <1>2, NowIs DEF InvWatch, CommitRemote
  <2>2. \E order : Answers(order)
    BY <1>2 DEF CommitRemote
  <2> QED BY <2>1, <2>2, AnswersOrder
<1>3. CASE Discard
  <2>1. queue # <<>>
    BY <1>3, NowIs DEF InvWatch, Discard
  <2>2. \E order : Answers(order)
    BY <1>3 DEF Discard
  <2> QED BY <2>1, <2>2, AnswersOrder
<1>4. ~Read
  <2> SUFFICES ASSUME Read PROVE FALSE
    OBVIOUS
  <2>1. Now.op = "getEntity"
    BY DEF Read
  <2>2. Now = queue[1] /\ 1 \in 1 .. Len(queue)
    BY <2>1, NowIs DEF InvWatch
  <2> QED BY <2>1, <2>2 DEF NoReads, IsRead
<1> QED BY <1>1, <1>2, <1>3, <1>4 DEF Execute

\* Where nobody observes, an announcement waits for nothing.
LEMMA NobodyWaits ==
    ASSUME WatchersOK, NoObservers, NEW n, NEW targets
    PROVE  Waits(n, targets) = {}
<1>1. ASSUME NEW path, IsObserved(path) PROVE FALSE
  <2>1. /\ DOMAIN watchers = 1 .. Len(watchers)
        /\ \A i \in 1 .. Len(watchers) : watchers[i].subscribers \in Seq(Subscriber)
    <3>1. /\ DOMAIN watchers = 1 .. Len(watchers)
          /\ \A i \in 1 .. Len(watchers) : watchers[i] \in Watcher
      BY LenProperties, ElementOfSeq DEF WatchersOK
    <3> QED BY <3>1 DEF Watcher
  <2>2. CASE \E i \in DOMAIN watchers : watchers[i].path = path
    <3>1. PICK i \in DOMAIN watchers :
              i = CHOOSE j \in DOMAIN watchers : watchers[j].path = path
      BY <2>2
    <3>2. Subscribers(path) = watchers[i].subscribers
      BY <2>2, <3>1 DEF Subscribers
    <3>3. DOMAIN watchers[i].subscribers = 1 .. Len(watchers[i].subscribers)
      BY <2>1, <3>1, LenProperties
    <3> QED BY <1>1, <2>1, <3>1, <3>2, <3>3 DEF IsObserved, NoObservers
  <2>3. CASE ~\E i \in DOMAIN watchers : watchers[i].path = path
    <3>1. Subscribers(path) = <<>> /\ DOMAIN Subscribers(path) = 1 .. 0
      BY <2>3, NoneYet, LengthOf DEF Subscribers
    <3> QED BY <1>1, <3>1 DEF IsObserved
  <2> QED BY <2>2, <2>3
<1> QED BY <1>1 DEF Waits, NeedsRead

LEMMA AnnounceChangesOrder ==
    ASSUME InvWatch, NoObservers, NoReads, EventsOrdered, AnnounceChanges
    PROVE  NoObservers' /\ NoReads' /\ EventsOrdered'
<1>1. /\ answered # <<>> /\ answered' = Tail(answered)
      /\ UNCHANGED <<watchers, calls>>
  BY DEF AnnounceChanges
<1>2. PICK n : n = answered[1].operation
  OBVIOUS
<1>3. /\ IsSequence(answered') /\ Len(answered) \in Nat \ {0}
      /\ \A i \in 1 .. Len(answered') : i + 1 \in 1 .. Len(answered) /\ answered'[i] = answered[i + 1]
  BY <1>1, WithoutFirst DEF InvWatch, AnsweredOK
<1>4. 1 \in 1 .. Len(answered) /\ answered[1].read = <<>>
  BY <1>3 DEF NoReads
<1>5. n \in Nat
  BY <1>2, <1>4, OperationsAre DEF HasOperations
<1>6. Walk(n, Paths, <<>>)
  BY <1>2, <1>4 DEF AnnounceChanges, Paths
<1>7. PICK new : new = FromDiff(n, Paths)
  OBVIOUS
<1>8. queue' = queue /\ tasks' = (tasks \o <<>>) \o new
  BY <1>6, <1>7, PathsType, WalkIs, NobodyWaits DEF InvWatch
<1>9. HasOperations(new) /\ \A i \in 1 .. Len(new) : new[i].operation = n
  BY <1>5, <1>7, PathsType, FromDiffIs DEF InvWatch, HasOperations
<1>10. tasks' = tasks \o new
  <2>1. PICK S : tasks \in Seq(S)
    BY DEF InvWatch, AreEvents, IsSequence
  <2>2. tasks \o <<>> = tasks
    BY <2>1, ConcatEmptySeq
  <2> QED BY <1>8, <2>2
<1>11. HasOperations(tasks) /\ HasOperations(calls)
  BY OperationsAre
<1>12. NotAfter(tasks, new) /\ NotAfter(calls, new)
  BY <1>2, <1>4, <1>9 DEF EventsOrdered, NotAfter
<1>13. InOrder(new)
  BY <1>5, <1>9 DEF InOrder
<1>14. InOrder(tasks)' /\ NotAfter(calls, tasks)'
  <2>1. InOrder(tasks \o new) /\ NotAfter(calls, tasks \o new)
    BY <1>9, <1>11, <1>12, <1>13, JoinedOrder, NotAfterJoined DEF EventsOrdered
  <2> QED BY <1>1, <1>10, <2>1 DEF InOrder, NotAfter
<1>15. PICK rest : rest = answered'
  OBVIOUS
<1>16. \A i \in 1 .. Len(rest) : i + 1 \in 1 .. Len(answered) /\ rest[i] = answered[i + 1]
  BY <1>3, <1>15
<1>17. NotAfter(tasks, rest) /\ NotAfter(calls, rest)
  BY <1>16 DEF EventsOrdered, NotAfter
<1>18. NotAfter(new, rest)
  <2>1. \A i \in 1 .. Len(rest) : n <= rest[i].operation
    <3> SUFFICES ASSUME NEW i \in 1 .. Len(rest) PROVE n <= rest[i].operation
      OBVIOUS
    <3>1. 1 < i + 1
      OBVIOUS
    <3> QED BY <1>2, <1>4, <1>16, <3>1 DEF EventsOrdered, InOrder
  <2> QED BY <1>9, <2>1 DEF NotAfter
<1>19. NotAfter(tasks, answered)' /\ NotAfter(calls, answered)'
  <2>1. NotAfter(tasks \o new, rest)
    BY <1>9, <1>11, <1>17, <1>18, JoinedNotAfter
  <2> QED BY <1>1, <1>10, <1>15, <1>17, <2>1 DEF NotAfter
<1>20. InOrder(answered)'
  <2> SUFFICES ASSUME NEW i \in 1 .. Len(rest), NEW j \in 1 .. Len(rest), i < j
               PROVE  rest[i].operation <= rest[j].operation
    BY <1>15 DEF InOrder
  <2>1. i + 1 < j + 1
    OBVIOUS
  <2> QED BY <1>16, <2>1 DEF EventsOrdered, InOrder
<1>21. InOrder(calls)'
  BY <1>1 DEF EventsOrdered, InOrder
<1>22. EventsOrdered'
  BY <1>14, <1>19, <1>20, <1>21 DEF EventsOrdered
<1>23. NoReads'
  BY <1>8, <1>15, <1>16 DEF NoReads, IsRead
<1>24. NoObservers'
  BY <1>1 DEF NoObservers
<1> QED BY <1>22, <1>23, <1>24

LEMMA CallHandlersOrder ==
    ASSUME InvWatch, NoObservers, NoReads, EventsOrdered, CallHandlers
    PROVE  NoObservers' /\ NoReads' /\ EventsOrdered'
<1>1. /\ tasks' = <<>> /\ calls' = calls \o tasks
      /\ UNCHANGED <<watchers, queue, answered>>
  BY DEF CallHandlers
<1>2. HasOperations(tasks) /\ HasOperations(calls)
  BY OperationsAre
<1>3. InOrder(calls \o tasks) /\ NotAfter(calls \o tasks, answered)
  BY <1>2, JoinedOrder, JoinedNotAfter DEF EventsOrdered
<1>4. InOrder(calls)' /\ NotAfter(calls, answered)' /\ InOrder(answered)'
  BY <1>1, <1>3 DEF EventsOrdered, InOrder, NotAfter
<1>5. Len(tasks') = 0 /\ \A i : i \notin 1 .. 0
  BY <1>1, NoneYet
<1>6. InOrder(tasks)' /\ NotAfter(calls, tasks)' /\ NotAfter(tasks, answered)'
  BY <1>5 DEF InOrder, NotAfter
<1>7. NoReads' /\ NoObservers'
  BY <1>1 DEF NoReads, IsRead, NoObservers
<1> QED BY <1>4, <1>6, <1>7 DEF EventsOrdered

\* Subscribers that do not observe.
Unobserving == {s \in Subscriber : ~s.isObserver}

LEMMA WatchOrder ==
    ASSUME InvWatch, NoObservers, NoReads, EventsOrdered, Watch,
           made' = made \/ made' = Append(made, FALSE)
    PROVE  NoObservers' /\ NoReads' /\ EventsOrdered'
<1>1. UNCHANGED <<queue, answered, tasks, calls>>
  BY DEF Watch
<1>2. NoReads'
  BY <1>1 DEF NoReads, IsRead
<1>3. /\ Len(watchers) \in Nat /\ DOMAIN watchers = 1 .. Len(watchers)
      /\ \A i \in 1 .. Len(watchers) : watchers[i] \in Watcher
  BY LenProperties, ElementOfSeq DEF InvWatch, WatchersOK
<1>4. \A i \in 1 .. Len(watchers) : watchers[i].subscribers \in Seq(Unobserving)
  <2> SUFFICES ASSUME NEW i \in 1 .. Len(watchers) PROVE watchers[i].subscribers \in Seq(Unobserving)
    OBVIOUS
  <2>1. PICK s \in Seq(Subscriber) : s = watchers[i].subscribers
    BY <1>3 DEF Watcher
  <2>2. /\ s = [j \in 1 .. Len(s) |-> s[j]] /\ Len(s) \in Nat
        /\ \A j \in 1 .. Len(s) : s[j] \in Subscriber
    BY LenProperties, ElementOfSeq
  <2>3. \A j \in 1 .. Len(s) : s[j] \in Unobserving
    BY <2>1, <2>2 DEF NoObservers, Unobserving
  <2>4. s \in Seq(Unobserving)
    BY <2>2, <2>3
  <2> QED BY <2>1, <2>4
<1>5. ASSUME NEW path \in Watched, NEW handler \in Handler, NEW id,
             SubscribeOrObserve(path, handler, FALSE, id)
      PROVE  NoObservers'
  <2>1. PICK new : new = [handler |-> handler, isObserver |-> FALSE, id |-> id, after |-> Len(diffs)]
    OBVIOUS
  <2>2. new.isObserver = FALSE
    BY <2>1
  <2>3. CASE \E i \in DOMAIN watchers : watchers[i].path = path
    <3>1. watchers' = [i \in 1 .. Len(watchers) |->
                        IF watchers[i].path = path
                        THEN [watchers[i] EXCEPT !.subscribers = Append(@, new)] ELSE watchers[i]]
      BY <1>3, <1>5, <2>1, <2>3 DEF SubscribeOrObserve
    <3>2. Len(watchers') = Len(watchers)
      BY <1>3, <3>1
    <3>3. ASSUME NEW i \in 1 .. Len(watchers)
          PROVE  \A j \in 1 .. Len(watchers'[i].subscribers) : ~watchers'[i].subscribers[j].isObserver
      <4>1. PICK s \in Seq(Unobserving) : s = watchers[i].subscribers
        BY <1>4
      <4>2. \A j \in 1 .. Len(s) : ~s[j].isObserver
        BY ElementOfSeq DEF Unobserving
      <4>3. CASE watchers[i].path = path
        <5>1. watchers'[i].subscribers = Append(s, new)
          BY <1>3, <3>1, <4>1, <4>3 DEF Watcher
        <5>2. IsSequence(s) /\ Len(s) \in Nat
          BY LenProperties DEF IsSequence
        <5>3. PICK t : t = Append(s, new)
          OBVIOUS
        <5>4. /\ Len(t) = Len(s) + 1
              /\ \A j \in 1 .. Len(s) : t[j] = s[j]
              /\ t[Len(s) + 1] = new
          BY <5>2, <5>3, Appended
        <5>5. \A j \in 1 .. Len(t) : j \in 1 .. Len(s) \/ j = Len(s) + 1
          BY <5>2, <5>4
        <5>6. \A j \in 1 .. Len(t) : ~t[j].isObserver
          BY <2>2, <4>2, <5>4, <5>5
        <5> QED BY <5>1, <5>3, <5>6
      <4>4. CASE watchers[i].path # path
        BY <3>1, <4>1, <4>2, <4>4
      <4> QED BY <4>3, <4>4
    <3> QED BY <3>2, <3>3 DEF NoObservers
  <2>4. CASE ~\E i \in DOMAIN watchers : watchers[i].path = path
    <3>1. PICK w : w = [path |-> path, subscribers |-> <<new>>]
      OBVIOUS
    <3>2. watchers' = Append(watchers, w)
      BY <1>5, <2>1, <2>4, <3>1 DEF SubscribeOrObserve
    <3>3. IsSequence(watchers)
      BY DEF InvWatch, WatchersOK, IsSequence
    <3>4. /\ Len(watchers') = Len(watchers) + 1
          /\ \A i \in 1 .. Len(watchers) : watchers'[i] = watchers[i]
          /\ watchers'[Len(watchers) + 1] = w
      BY <3>2, <3>3, Appended
    <3>5. \A i \in 1 .. Len(watchers') : i \in 1 .. Len(watchers) \/ i = Len(watchers) + 1
      BY <1>3, <3>4
    <3>6. \A j \in 1 .. Len(w.subscribers) : ~w.subscribers[j].isObserver
      BY <2>2, <3>1
    <3>7. \A i \in 1 .. Len(watchers') : \A j \in 1 .. Len(watchers'[i].subscribers) :
              ~watchers'[i].subscribers[j].isObserver
      BY <3>4, <3>5, <3>6 DEF NoObservers
    <3> QED BY <3>7 DEF NoObservers
  <2> QED BY <2>3, <2>4
<1>6. ASSUME NEW handler, Unsubscribe(handler)
      PROVE  NoObservers'
  <2>1. watchers' = [i \in 1 .. Len(watchers) |->
                        [watchers[i] EXCEPT !.subscribers = Without(@, handler)]]
    BY <1>3, <1>6 DEF Unsubscribe
  <2>2. Len(watchers') = Len(watchers)
    BY <1>3, <2>1
  <2>3. ASSUME NEW i \in 1 .. Len(watchers)
        PROVE  \A j \in 1 .. Len(watchers'[i].subscribers) : ~watchers'[i].subscribers[j].isObserver
    <3>1. PICK s : s = Without(watchers[i].subscribers, handler)
      OBVIOUS
    <3>2. s \in Seq(Unobserving)
      BY <1>4, <3>1, WithoutType
    <3>3. watchers'[i].subscribers = s
      BY <1>3, <2>1, <3>1 DEF Watcher
    <3>4. \A j \in 1 .. Len(s) : ~s[j].isObserver
      BY <3>2, ElementOfSeq DEF Unobserving
    <3> QED BY <3>3, <3>4
  <2> QED BY <2>2, <2>3 DEF NoObservers
<1>7. NoObservers'
  <2>1. ASSUME NEW path \in Watched, NEW handler \in Handler, NEW isObserver \in BOOLEAN,
               SubscribeOrObserve(path, handler, isObserver, Len(made) + 1),
               made' = Append(made, isObserver)
        PROVE  NoObservers'
    <3>1. Len(made) \in Nat /\ IsSequence(made)
      BY LenProperties DEF InvWatch, MadeOK, IsSequence
    <3>2. /\ Append(made, isObserver)[Len(made) + 1] = isObserver
          /\ Append(made, FALSE)[Len(made) + 1] = FALSE
          /\ Len(Append(made, isObserver)) = Len(made) + 1
      BY <3>1, Appended
    <3>3. Len(made) + 1 # Len(made)
      BY <3>1
    <3>4. made' # made
      BY <2>1, <3>2, <3>3
    <3>5. isObserver = FALSE
      BY <2>1, <3>2, <3>4
    <3> QED BY <1>5, <2>1, <3>5
  <2> QED BY <1>6, <2>1 DEF Watch
<1> QED BY <1>1, <1>2, <1>7, SameEvents

LEMMA NextOrder == InvAll /\ InvOrder /\ [Next]_allVars => InvOrder'
<1> SUFFICES ASSUME InvAll, InvOrder, [Next]_allVars, NobodyObserved'
             PROVE  NoObservers' /\ NoReads' /\ EventsOrdered'
  BY DEF InvOrder
<1>1. InvWatch
  BY DEF InvAll
<1>2. NobodyObserved /\ (Watch => made' = made \/ made' = Append(made, FALSE))
  BY <1>1, NobodyBefore
<1>3. NoObservers /\ NoReads /\ EventsOrdered
  BY <1>2 DEF InvOrder
<1>4. CASE UNCHANGED allVars
  BY <1>3, <1>4, SameEvents DEF allVars, watchVars, NoObservers, NoReads, IsRead
<1> QED BY <1>1, <1>2, <1>3, <1>4, SendOrder, ExecuteOrder, AnnounceChangesOrder, CallHandlersOrder,
           WatchOrder DEF Next

\* As long as nobody observed, handlers are called in the order of the commits,
\* for any number of operations and subscriptions: announceChanges awaits
\* nothing for a subscriber (LocalDB.ts), answers come in the order of the
\* dispatcher, and the event loop keeps it.
THEOREM EventsInOrder == Spec => []OrderedWithoutObservers
<1>1. InvAll /\ InvOrder => OrderedWithoutObservers
  <2> SUFFICES ASSUME InvAll, InvOrder, NobodyObserved
               PROVE  \A i, j \in DOMAIN calls : i < j => calls[i].operation <= calls[j].operation
    BY DEF OrderedWithoutObservers, NobodyObserved
  <2>1. DOMAIN calls = 1 .. Len(calls)
    BY LengthOf DEF InvAll, InvWatch, AreEvents
  <2> QED BY <2>1 DEF InvOrder, EventsOrdered, InOrder
<1> QED BY <1>1, InitAll, InitOrder, NextAll, NextOrder, PTL DEF Spec

-----------------------------------------------------------------------------

(***************************************************************************)
(* Observers end with the present value.  Of every announcement under way  *)
(* it is known from which place to which it has still to tell: a later one *)
(* of the same key is behind it at each of these, so that whoever was told *)
(* an old value is told again, and the branches that were read too early   *)
(* are read again.  First the order of the paths.                          *)
(***************************************************************************)
LEMMA PathsAre ==
    ASSUME NEW p \in Key \cup Watched, NEW q \in Key \cup Watched
    PROVE  \E S : p \in Seq(S) /\ q \in Seq(S)
<1>1. p \in Seq(ToSet(p)) /\ q \in Seq(ToSet(q))
  BY PathAssumption
<1>2. p \in Seq(ToSet(p) \cup ToSet(q)) /\ q \in Seq(ToSet(p) \cup ToSet(q))
  BY <1>1, SeqMonotonic
<1> QED BY <1>2

LEMMA PrefixIs ==
    ASSUME NEW p \in Key \cup Watched, NEW q \in Key \cup Watched
    PROVE  /\ Len(p) \in Nat /\ Len(q) \in Nat
           /\ IsPrefix(p, q) <=> Len(p) <= Len(q) /\ \A i \in 1 .. Len(p) : p[i] = q[i]
           /\ p = q <=> Len(p) = Len(q) /\ \A i \in 1 .. Len(p) : p[i] = q[i]
<1>1. PICK S : p \in Seq(S) /\ q \in Seq(S)
  BY PathsAre
<1>2. Len(p) \in Nat /\ Len(q) \in Nat
  BY <1>1, LenProperties
<1>3. p = q <=> Len(p) = Len(q) /\ \A i \in 1 .. Len(p) : p[i] = q[i]
  BY <1>1, SeqEqual
<1>4. ASSUME Len(p) <= Len(q)
      PROVE  SubSeq(p, 1, Len(p)) = SubSeq(q, 1, Len(p)) <=> \A i \in 1 .. Len(p) : p[i] = q[i]
  <2>1. PICK n \in Nat : n = Len(p)
    BY <1>2
  <2>2. /\ \A i \in 1 .. n : p[i] \in S
        /\ \A i \in 1 .. n : q[i] \in S
    BY <1>1, <1>2, <1>4, <2>1, ElementOfSeq
  <2>3. /\ SubSeq(p, 1, n) \in Seq(S) /\ Len(SubSeq(p, 1, n)) = n
        /\ \A i \in 1 .. n : SubSeq(p, 1, n)[i] = p[i]
    <3>1. /\ SubSeq(p, 1, n) \in Seq(S)
          /\ Len(SubSeq(p, 1, n)) = IF 1 <= n THEN n - 1 + 1 ELSE 0
          /\ \A i \in 1 .. n - 1 + 1 : SubSeq(p, 1, n)[i] = p[1 + i - 1]
      BY <2>2, SubSeqProperties
    <3>2. n - 1 + 1 = n /\ (~(1 <= n) => n = 0) /\ \A i \in 1 .. n : 1 + i - 1 = i
      OBVIOUS
    <3> QED BY <3>1, <3>2
  <2>4. /\ SubSeq(q, 1, n) \in Seq(S) /\ Len(SubSeq(q, 1, n)) = n
        /\ \A i \in 1 .. n : SubSeq(q, 1, n)[i] = q[i]
    <3>1. /\ SubSeq(q, 1, n) \in Seq(S)
          /\ Len(SubSeq(q, 1, n)) = IF 1 <= n THEN n - 1 + 1 ELSE 0
          /\ \A i \in 1 .. n - 1 + 1 : SubSeq(q, 1, n)[i] = q[1 + i - 1]
      BY <2>2, SubSeqProperties
    <3>2. n - 1 + 1 = n /\ (~(1 <= n) => n = 0) /\ \A i \in 1 .. n : 1 + i - 1 = i
      OBVIOUS
    <3> QED BY <3>1, <3>2
  <2>5. SubSeq(p, 1, n) = SubSeq(q, 1, n) <=> \A i \in 1 .. n : SubSeq(p, 1, n)[i] = SubSeq(q, 1, n)[i]
    BY <2>3, <2>4, SeqEqual
  <2> QED BY <2>1, <2>3, <2>4, <2>5
<1> QED BY <1>2, <1>3, <1>4 DEF IsPrefix

\* A path is not above itself, what is above what is above it is above it, and of two
\* paths above a third one is above the other.
LEMMA PathOrder ==
    ASSUME NEW p \in Key \cup Watched, NEW q \in Key \cup Watched, NEW r \in Key \cup Watched
    PROVE  /\ IsPrefix(p, p)
           /\ IsPrefix(p, q) /\ IsStrictPrefix(q, r) => IsStrictPrefix(p, r)
           /\ ~(IsPrefix(p, q) /\ IsStrictPrefix(q, p))
           /\ IsPrefix(p, r) /\ IsPrefix(q, r) => p = q \/ IsStrictPrefix(p, q) \/ IsStrictPrefix(q, p)
<1>1. /\ Len(p) \in Nat /\ Len(q) \in Nat /\ Len(r) \in Nat
      /\ IsPrefix(p, p) <=> Len(p) <= Len(p) /\ \A i \in 1 .. Len(p) : p[i] = p[i]
      /\ IsPrefix(p, q) <=> Len(p) <= Len(q) /\ \A i \in 1 .. Len(p) : p[i] = q[i]
      /\ p = q <=> Len(p) = Len(q) /\ \A i \in 1 .. Len(p) : p[i] = q[i]
      /\ IsPrefix(q, p) <=> Len(q) <= Len(p) /\ \A i \in 1 .. Len(q) : q[i] = p[i]
      /\ IsPrefix(q, r) <=> Len(q) <= Len(r) /\ \A i \in 1 .. Len(q) : q[i] = r[i]
      /\ q = r <=> Len(q) = Len(r) /\ \A i \in 1 .. Len(q) : q[i] = r[i]
      /\ IsPrefix(p, r) <=> Len(p) <= Len(r) /\ \A i \in 1 .. Len(p) : p[i] = r[i]
      /\ p = r <=> Len(p) = Len(r) /\ \A i \in 1 .. Len(p) : p[i] = r[i]
  BY PrefixIs
<1> HIDE DEF IsPrefix
<1>2. IsPrefix(p, p)
  BY <1>1
<1>3. IsPrefix(p, q) /\ IsStrictPrefix(q, r) => IsStrictPrefix(p, r)
  BY <1>1 DEF IsStrictPrefix
<1>4. ~(IsPrefix(p, q) /\ IsStrictPrefix(q, p))
  BY <1>1 DEF IsStrictPrefix
<1>5. IsPrefix(p, r) /\ IsPrefix(q, r) => p = q \/ IsStrictPrefix(p, q) \/ IsStrictPrefix(q, p)
  <2> SUFFICES ASSUME IsPrefix(p, r), IsPrefix(q, r), p # q
               PROVE  IsPrefix(p, q) \/ IsPrefix(q, p)
    BY DEF IsStrictPrefix
  <2>1. CASE Len(p) <= Len(q)
    BY <1>1, <2>1
  <2>2. CASE Len(q) <= Len(p)
    BY <1>1, <2>2
  <2> QED BY <1>1, <2>1, <2>2
<1> QED BY <1>2, <1>3, <1>4, <1>5

\* How a key can relate to a path, where no key is above another one.
NoneAbove == \A k, l \in Key : ~IsStrictPrefix(k, l)

LEMMA NoHeritage == ASSUME Heritage = {} PROVE NoneAbove
<1>1. ASSUME NEW k \in Key, NEW l \in Key, IsStrictPrefix(k, l) PROVE FALSE
  <2>1. <<k, l>> \in Key \X Key /\ <<k, l>>[1] = k /\ <<k, l>>[2] = l
    OBVIOUS
  <2>2. <<k, l>> \in Heritage
    BY <1>1, <2>1, PathAssumption
  <2> QED BY <2>2
<1> QED BY <1>1 DEF NoneAbove

LEMMA OneLeaf ==
    ASSUME NoneAbove, NEW p \in Key \cup Watched, NEW k \in Key, IsPrefix(k, p), NEW l \in Key
    PROVE  (IsPrefix(l, p) => l = k) /\ ~IsStrictPrefix(p, l)
  BY PathOrder DEF NoneAbove

LEMMA RelationshipIs ==
    ASSUME NEW k \in Key, NEW p \in Key \cup Watched
    PROVE  /\ IsPrefix(k, p) => Relationship(k, p) \in {"Equal", "Ancestor"}
           /\ IsStrictPrefix(p, k) => Relationship(k, p) = "Descendant"
           /\ ~IsPrefix(k, p) /\ ~IsStrictPrefix(p, k) => Relationship(k, p) = "None"
<1>1. IsPrefix(p, p) /\ ~(IsPrefix(k, p) /\ IsStrictPrefix(p, k))
  BY PathOrder
<1>2. CASE k = p
  BY <1>1, <1>2 DEF Relationship
<1>3. CASE k # p /\ IsPrefix(k, p)
  BY <1>1, <1>3 DEF Relationship, IsStrictPrefix
<1>4. CASE ~IsPrefix(k, p) /\ IsStrictPrefix(p, k)
  BY <1>1, <1>4 DEF Relationship, IsStrictPrefix
<1>5. CASE ~IsPrefix(k, p) /\ ~IsStrictPrefix(p, k)
  <2>1. k # p /\ ~IsStrictPrefix(k, p)
    BY <1>1, <1>5 DEF IsStrictPrefix
  <2> QED BY <1>5, <2>1 DEF Relationship
<1> QED BY <1>1, <1>2, <1>3, <1>4, <1>5

-----------------------------------------------------------------------------

(***************************************************************************)
(* The program is undisturbed: every observer stayed, no read failed, and  *)
(* nothing but single changes were made.                                   *)
(***************************************************************************)
Singles == \A n \in 1 .. Len(diffs) : Len(diffs[n]) <= 1

Undisturbed == ObserversStay /\ rejected = {} /\ Singles

Changed(n, k) == n \in 1 .. Len(diffs) /\ diffs[n] # <<>> /\ diffs[n][1].key = k

\* The value that operation n tells at the path p in the leaf k.
ValueIn(n, k, p) == Inside(diffs[n][1].value, SubSeq(p, Len(k) + 1, Len(p)))

LEMMA ChangeIs ==
    ASSUME DiffsOK, Singles, NEW n \in 1 .. Len(diffs)
    PROVE  /\ diffs[n] # <<>> => /\ Len(diffs[n]) = 1 /\ DOMAIN diffs[n] = {1}
                                 /\ diffs[n][1] \in Change /\ diffs[n][1].key \in Key
           /\ diffs[n] = <<>> \/ \E k \in Key : Changed(n, k)
<1>1. diffs[n] \in Seq(Change) /\ Len(diffs[n]) <= 1
  BY ElementOfSeq DEF DiffsOK, Singles
<1>2. ASSUME diffs[n] # <<>>
      PROVE  /\ Len(diffs[n]) = 1 /\ DOMAIN diffs[n] = {1}
             /\ diffs[n][1] \in Change
  <2>1. Len(diffs[n]) = 1
    <3>1. Len(diffs[n]) \in Nat
      BY <1>1, LenProperties
    <3>2. Len(diffs[n]) # 0
      BY <1>1, <1>2, EmptySeq
    <3>3. PICK m \in Nat : m = Len(diffs[n])
      BY <3>1
    <3>4. m <= 1 /\ m # 0
      BY <1>1, <3>2, <3>3
    <3>5. m = 1
      BY <3>4
    <3> QED BY <3>3, <3>5
  <2>2. DOMAIN diffs[n] = 1 .. 1 /\ 1 \in 1 .. 1 /\ \A i \in 1 .. 1 : i = 1
    BY <1>1, <2>1, LenProperties
  <2> QED BY <1>1, <2>1, <2>2, ElementOfSeq
<1>3. diffs[n] # <<>> => diffs[n][1].key \in Key
  BY <1>2 DEF Change
<1> QED BY <1>2, <1>3 DEF Changed

LEMMA MatchIs ==
    ASSUME DiffsOK, Singles, NEW p \in Watched, NEW n, NEW k \in Key, Changed(n, k)
    PROVE  /\ MatchType(diffs[n], p) = Relationship(k, p)
           /\ Relationship(k, p) # "None" => FirstMatch(diffs[n], p) = diffs[n][1]
<1>1. n \in 1 .. Len(diffs) /\ diffs[n] # <<>> /\ diffs[n][1].key = k
  BY DEF Changed
<1>2. PICK d : d = diffs[n]
  OBVIOUS
<1>3. d # <<>> /\ Len(d) = 1 /\ DOMAIN d = {1} /\ d[1].key = k
  BY <1>1, <1>2, ChangeIs
<1> DEFINE stops == {i \in DOMAIN d : Relationship(d[i].key, p) \in {"Equal", "Ancestor"}}
<1>4. LastLooked(d, p) = 1
  <2>1. LastLooked(d, p) = IF stops = {} THEN Len(d) ELSE CHOOSE i \in stops : \A j \in stops : i <= j
    BY DEF LastLooked
  <2>2. CASE stops = {}
    BY <1>3, <2>1, <2>2
  <2>3. CASE stops # {}
    <3>1. stops = {1}
      BY <1>3, <2>3
    <3> HIDE DEF stops
    <3> QED BY <2>1, <2>3, <3>1
  <2> QED BY <2>2, <2>3
<1>5. MatchType(d, p) = Relationship(k, p)
  BY <1>3, <1>4 DEF MatchType
<1>6. ASSUME Relationship(k, p) # "None" PROVE FirstMatch(d, p) = d[1]
  <2>1. Relates(d[1], p)
    BY <1>3, <1>6 DEF Relates
  <2>2. Matching(d, p) = {1}
    <3>1. \A i \in 1 .. 1 : i = 1
      OBVIOUS
    <3> QED BY <1>4, <2>1, <3>1 DEF Matching
  <2>3. 1 = CHOOSE i \in {1} : \A j \in {1} : i <= j
    OBVIOUS
  <2> QED BY <2>2, <2>3 DEF FirstMatch
<1> QED BY <1>2, <1>5, <1>6

\* Who is told of a single change, and what, depends on its key only.
LEMMA HeardIs ==
    ASSUME DiffsOK, Singles, NEW p \in Watched, NEW n, NEW k \in Key, Changed(n, k)
    PROVE  /\ IsPrefix(k, p) => /\ IsHeard(diffs[n], p) /\ MatchType(diffs[n], p) # "Descendant"
                                /\ ValueInDiff(diffs[n], p) = ValueIn(n, k, p)
           /\ IsStrictPrefix(p, k) => MatchType(diffs[n], p) = "Descendant"
           /\ MatchType(diffs[n], p) = "Descendant" => IsHeard(diffs[n], p) /\ IsStrictPrefix(p, k)
           /\ IsHeard(diffs[n], p) => IsPrefix(k, p) \/ IsStrictPrefix(p, k)
<1>1. /\ IsPrefix(k, p) => Relationship(k, p) \in {"Equal", "Ancestor"}
      /\ IsStrictPrefix(p, k) => Relationship(k, p) = "Descendant"
      /\ ~IsPrefix(k, p) /\ ~IsStrictPrefix(p, k) => Relationship(k, p) = "None"
  BY RelationshipIs
<1>2. /\ MatchType(diffs[n], p) = Relationship(k, p)
      /\ Relationship(k, p) # "None" => FirstMatch(diffs[n], p) = diffs[n][1]
  BY MatchIs
<1>3. diffs[n][1].key = k
  BY DEF Changed
<1>4. FirstMatch(diffs[n], p) = diffs[n][1] => ValueInDiff(diffs[n], p) = ValueIn(n, k, p)
  BY <1>3 DEF ValueInDiff, ValueIn
<1> QED BY <1>1, <1>2, <1>4 DEF IsHeard

LEMMA UnheardIs ==
    ASSUME DiffsOK, Singles, NEW p, NEW n \in 1 .. Len(diffs), IsHeard(diffs[n], p)
    PROVE  \E k \in Key : Changed(n, k)
<1>1. diffs[n] # <<>>
  BY DEF IsHeard, MatchType
<1> QED BY <1>1, ChangeIs

-----------------------------------------------------------------------------

(***************************************************************************)
(* What an operation that answers a single change does to what readers see,*)
(* while no answer of the server has a head entry.                         *)
(***************************************************************************)
NoHeads == \A batch \in Batches : batch.head = 0

LEMMA AllOfSet ==
    ASSUME NEW S, IsFiniteSet(S)
    PROVE  ToSet(SetToSeq(S)) = S
<1> DEFINE n == Cardinality(S)
           P(f) == f \in [1 .. n -> S] /\ IsInjective(f)
           q == CHOOSE f : P(f)
<1>1. n \in Nat /\ ExistsBijection(1 .. n, S)
  BY FS_CardinalityType
<1>2. \E f : P(f)
  <2>1. PICK f \in [1 .. n -> S] : \A i, j \in 1 .. n : f[i] = f[j] => i = j
    BY <1>1 DEF ExistsBijection, Bijection, Injection, IsInjective
  <2> QED BY <2>1 DEF IsInjective
<1>3. SetToSeq(S) = q
  BY DEF SetToSeq
<1>4. P(q)
  <2> HIDE DEF P
  <2> QED BY <1>2
<1> HIDE DEF q
<1>5. q \in Injection(1 .. n, S)
  BY <1>4 DEF Injection
<1>6. IsFiniteSet(1 .. n) /\ Cardinality(1 .. n) = n
  <2> HIDE DEF n
  <2> QED BY <1>1, FS_Interval
<1>7. q \in Surjection(1 .. n, S)
  <2> HIDE DEF P
  <2>1. Cardinality(1 .. n) = Cardinality(S)
    BY <1>6
  <2> HIDE DEF n
  <2> QED BY <1>5, <2>1, FS_Injection
<1>8. DOMAIN q = 1 .. n /\ (\A i \in 1 .. n : q[i] \in S) /\ \A x \in S : \E i \in 1 .. n : q[i] = x
  BY <1>4, <1>7 DEF Surjection
<1> HIDE DEF n
<1> QED BY <1>3, <1>8 DEF ToSet

\* A reader sees what the change says, and what it saw before at other keys.
Follows(order) ==
    /\ \A c \in ToSet(order) : View(c.key)' = c.value
    /\ \A k \in Key : View(k)' # View(k) => \E c \in ToSet(order) : c.key = k

LEMMA FollowsChanges ==
    ASSUME NEW order, ToSet(order) = diff'.changed, diff'.cleared = {},
           ChangesMatchView', \A k \in Key : View(k)' # View(k) => k \in DiffKeys(diff')
    PROVE  Follows(order)
<1>1. \A c \in diff'.changed : View(c.key)' = c.value
  BY DEF ChangesMatchView
<1>2. \A k \in DiffKeys(diff') : \E c \in diff'.changed : c.key = k
  BY DEF DiffKeys
<1> QED BY <1>1, <1>2 DEF Follows

LEMMA FollowsDiscard ==
    ASSUME TypeOKStore, NEW keys \in SUBSET Key, DiscardLocalEntryKeys(keys)
    PROVE  Follows(SetToSeq(diff'.changed))
<1>1. diff'.changed \in SUBSET Change
  BY DiscardLocalEntryKeysType DEF TypeOKStore
<1>2. \A c, d \in diff'.changed : c.key = d.key => c = d
  <2>1. PICK purged, rolled : /\ purged \cap rolled = {}
                              /\ diff'.changed = {[key |-> k, value |-> Undefined] : k \in purged}
                                    \cup {[key |-> k, value |-> remote[k].value] : k \in rolled}
    BY DEF DiscardLocalEntryKeys
  <2> QED BY <2>1
<1>3. PICK changes \in SUBSET Change : changes = diff'.changed
  BY <1>1
<1>4. IsFiniteSet(changes)
  BY <1>2, <1>3, ChangesOfKeysFinite
<1>5. ToSet(SetToSeq(diff'.changed)) = diff'.changed
  BY <1>3, <1>4, AllOfSet
<1>6. diff'.cleared = {}
  BY DEF DiscardLocalEntryKeys
<1>7. PICK order : order = SetToSeq(diff'.changed)
  OBVIOUS
<1>8. Follows(order)
  BY <1>5, <1>6, <1>7, DiscardLocalEntryKeysDiff, FollowsChanges
<1> QED BY <1>7, <1>8

LEMMA FollowsRemote ==
    ASSUME TypeOKStore, NEW batch \in Batches, batch.head = 0, CommitRemoteEntries(batch)
    PROVE  Follows(SetToSeq(Unset(diff'.cleared)) \o SetToSeq(diff'.changed))
<1>1. batch \in Answer /\ IsBatch(batch)
  BY BatchesAssumption
<1>2. diff'.cleared \in SUBSET Key /\ diff'.changed \in SUBSET Change
  BY <1>1, CommitRemoteEntriesType DEF TypeOKStore
<1>3. PICK revs \in SUBSET batch.revs :
          diff'.changed = {[key |-> r.key, value |-> r.value] : r \in revs}
  <2>1. PICK accepted \in SUBSET batch.revs :
            diff'.changed = {[key |-> r.key, value |-> r.value] : r \in Shown(accepted)}
    BY DEF CommitRemoteEntries
  <2>2. Shown(accepted) \in SUBSET batch.revs
    BY DEF Shown
  <2> QED BY <2>1, <2>2
<1>4. \A c, d \in diff'.changed : c.key = d.key => c = d
  BY <1>1, <1>3 DEF IsBatch
<1>5. PICK changes \in SUBSET Change : changes = diff'.changed
  BY <1>2
<1>6. IsFiniteSet(changes)
  BY <1>4, <1>5, ChangesOfKeysFinite
<1>7. SetToSeq(changes) \in Seq(Change) /\ ToSet(SetToSeq(changes)) = changes
  BY <1>6, SequenceOfSet, SeqMonotonic, AllOfSet
<1>8. diff'.cleared = {}
  BY DEF CommitRemoteEntries, Cleared, Resets
<1>9. SetToSeq(Unset({})) \in Seq(Change) /\ ToSet(SetToSeq(Unset({}))) = {}
  <2>1. Unset({}) = {} /\ IsFiniteSet({})
    BY FS_EmptySet DEF Unset
  <2> QED BY <2>1, AllOfSet, UnsetType
<1>10. PICK first, rest : first = SetToSeq(Unset({})) /\ rest = SetToSeq(changes)
  OBVIOUS
<1>11. first \in Seq(Change) /\ rest \in Seq(Change) /\ ToSet(first) = {} /\ ToSet(rest) = changes
  BY <1>7, <1>9, <1>10
<1>12. first = <<>>
  <2>1. DOMAIN first = 1 .. Len(first) /\ Len(first) \in Nat
    BY <1>11, LenProperties
  <2>2. 1 \notin DOMAIN first
    BY <1>11 DEF ToSet
  <2>3. Len(first) = 0
    BY <2>1, <2>2
  <2> QED BY <1>11, <2>3, EmptySeq
<1>13. first \o rest = rest
  BY <1>11, <1>12, ConcatEmptySeq
<1>14. Follows(rest)
  BY <1>1, <1>5, <1>8, <1>11, CommitRemoteEntriesDiff, FollowsChanges
<1> QED BY <1>5, <1>8, <1>10, <1>13, <1>14

LEMMA FollowsLocal ==
    ASSUME TypeOKStore, NEW entries \in Entries, CommitLocalEntries(Assignments(entries))
    PROVE  Follows(Kept(entries, diff'.changed))
<1> DEFINE new == Assignments(entries)
           kept == {k \in DOMAIN new : local[k] = Absent \/ local[k].value # new[k]}
<1>1. entries \in Seq(Change)
  BY EntriesType
<1>2. DOMAIN entries = 1 .. Len(entries) /\ \A i \in 1 .. Len(entries) : entries[i] \in Change
  BY <1>1, LenProperties, ElementOfSeq
<1>3. diff'.cleared = {} /\ diff'.changed = {[key |-> k, value |-> new[k]] : k \in kept}
  BY DEF CommitLocalEntries
<1>4. ASSUME NEW k \in DOMAIN new PROVE \E i \in 1 .. Len(entries) : entries[i] = [key |-> k, value |-> new[k]]
  <2>1. k \in {entries[i].key : i \in DOMAIN entries}
    BY DEF Assignments
  <2>2. PICK i : i = CHOOSE j \in DOMAIN entries : entries[j].key = k
    OBVIOUS
  <2>3. i \in DOMAIN entries /\ entries[i].key = k
    BY <2>1, <2>2
  <2>4. new[k] = entries[i].value
    BY <2>1, <2>2 DEF Assignments
  <2>5. entries[i] \in Change
    BY <1>2, <2>3
  <2>6. entries[i] = [key |-> entries[i].key, value |-> entries[i].value]
    BY <2>5 DEF Change
  <2> QED BY <1>2, <2>3, <2>4, <2>6
<1>5. PICK changes : changes = diff'.changed
  OBVIOUS
<1>6. /\ Kept(entries, changes) \in Seq(Change \cap changes)
      /\ \A i \in 1 .. Len(entries) : entries[i] \in changes => entries[i] \in ToSet(Kept(entries, changes))
  BY <1>1, KeptIs
<1>7. changes \subseteq ToSet(Kept(entries, changes))
  <2>1. ASSUME NEW c \in changes PROVE \E i \in 1 .. Len(entries) : entries[i] = c
    BY <1>3, <1>4, <1>5
  <2> QED BY <1>6, <2>1
<1>8. ToSet(Kept(entries, changes)) \subseteq changes
  <2>1. PICK s \in Seq(Change \cap changes) : s = Kept(entries, changes)
    BY <1>6
  <2>2. ToSet(s) \subseteq changes
    BY LenProperties, ElementOfSeq DEF ToSet
  <2> QED BY <2>1, <2>2
<1>9. PICK keys \in SUBSET Key : new \in [keys -> Data]
  BY AssignmentsType
<1>10. ChangesMatchView' /\ \A k \in Key : View(k)' # View(k) => k \in DiffKeys(diff')
  BY <1>9, CommitLocalEntriesDiff
<1>11. PICK order : order = Kept(entries, changes)
  OBVIOUS
<1>12. Follows(order)
  BY <1>3, <1>5, <1>7, <1>8, <1>10, <1>11, FollowsChanges
<1> QED BY <1>5, <1>11, <1>12

-----------------------------------------------------------------------------

(***************************************************************************)
(* What a read returns, by what readers see of the keys.                   *)
(***************************************************************************)
IsBranch(p) == \A k \in Key : ~IsPrefix(k, p)

Present(p) == {k \in Key : IsStrictPrefix(p, k) /\ View(k) # Undefined}

LEMMA Unstored ==
    ASSUME LookupCoversStores, isOpen, NEW k \in Key, k \notin lookup
    PROVE  View(k) = Undefined
  BY DEF LookupCoversStores, AllKeys, Stored, View

LEMMA EntityInLeaf ==
    ASSUME TypeOKStore, LookupCoversStores, isOpen, NoneAbove,
           NEW p \in Watched, NEW k \in Key, IsPrefix(k, p)
    PROVE  Entity(p) = Inside(View(k), SubSeq(p, Len(k) + 1, Len(p)))
<1>1. \A l \in Key : (IsPrefix(l, p) => l = k) /\ ~IsStrictPrefix(p, l)
  BY OneLeaf
<1>2. lookup \subseteq Key
  BY DEF TypeOKStore
<1>3. CASE k \in lookup
  <2>1. k = CHOOSE l \in lookup : IsPrefix(l, p)
    BY <1>1, <1>2, <1>3
  <2> QED BY <1>3, <2>1 DEF Entity
<1>4. CASE k \notin lookup
  <2>1. ~\E l \in lookup : IsPrefix(l, p)
    BY <1>1, <1>2, <1>4
  <2>2. \A l \in Below(p) : View(l) = Undefined
    BY <1>1, <1>2 DEF Below
  <2>3. Entity(p) = Undefined
    BY <2>1, <2>2 DEF Entity
  <2>4. View(k) = Undefined
    BY <1>4, Unstored
  <2> QED BY <2>3, <2>4 DEF Inside
<1> QED BY <1>3, <1>4

LEMMA EntityOfBranch ==
    ASSUME TypeOKStore, LookupCoversStores, isOpen, NEW p \in Watched, IsBranch(p)
    PROVE  Entity(p) = IF Present(p) = {} THEN Undefined ELSE [k \in Present(p) |-> View(k)]
<1>1. lookup \subseteq Key
  BY DEF TypeOKStore
<1>2. ~\E k \in lookup : IsPrefix(k, p)
  BY <1>1 DEF IsBranch
<1>3. {k \in Below(p) : View(k) # Undefined} = Present(p)
  BY <1>1, Unstored DEF Below, Present
<1>4. (\A k \in Below(p) : View(k) = Undefined) <=> Present(p) = {}
  BY <1>3
<1> QED BY <1>2, <1>3, <1>4 DEF Entity

-----------------------------------------------------------------------------

(***************************************************************************)
(* Who subscribes where.  A place is an index of watchers.                 *)
(***************************************************************************)
Places == 1 .. Len(watchers)

SubscribersAt(a) == ToSet(watchers[a].subscribers)

NamesOK ==
    /\ \A a, b \in Places : watchers[a].path = watchers[b].path => a = b
    /\ \A a \in Places : \A s \in SubscribersAt(a) : s.id \in 1 .. Len(made) /\ s.isObserver = made[s.id]
    /\ \A a, b \in Places : \A s \in SubscribersAt(a), t \in SubscribersAt(b) : s.id = t.id => a = b

LEMMA SetOfSequence ==
    ASSUME NEW S, NEW s \in Seq(S)
    PROVE  /\ s \in Seq(ToSet(s)) /\ ToSet(s) \subseteq S
           /\ ToSet(s) = {s[i] : i \in 1 .. Len(s)}
<1>1. DOMAIN s = 1 .. Len(s) /\ Len(s) \in Nat /\ s = [i \in 1 .. Len(s) |-> s[i]]
  BY LenProperties
<1>2. ToSet(s) = {s[i] : i \in 1 .. Len(s)}
  BY <1>1 DEF ToSet
<1>3. \A i \in 1 .. Len(s) : s[i] \in ToSet(s)
  BY <1>2
<1>4. \A i \in 1 .. Len(s) : s[i] \in S
  BY ElementOfSeq
<1> HIDE DEF ToSet
<1>5. s \in Seq(ToSet(s))
  BY <1>1, <1>3
<1> QED BY <1>2, <1>4, <1>5

LEMMA WatchersAre ==
    ASSUME WatchersOK
    PROVE  /\ Len(watchers) \in Nat /\ DOMAIN watchers = Places
           /\ \A a \in Places : /\ watchers[a] \in Watcher /\ watchers[a].path \in Watched
                                /\ watchers[a].subscribers \in Seq(Subscriber)
                                /\ SubscribersAt(a) \subseteq Subscriber
<1>1. Len(watchers) \in Nat /\ DOMAIN watchers = Places /\ \A a \in Places : watchers[a] \in Watcher
  BY LenProperties, ElementOfSeq DEF WatchersOK, Places
<1>2. \A a \in Places : watchers[a].path \in Watched /\ watchers[a].subscribers \in Seq(Subscriber)
  BY <1>1 DEF Watcher
<1>3. \A a \in Places : SubscribersAt(a) \subseteq Subscriber
  BY <1>2, SetOfSequence DEF SubscribersAt
<1> QED BY <1>1, <1>2, <1>3

\* What is watched changes at one place at most: somebody joins there, or some leave.
Rewatched(at, joined) ==
    /\ Len(watchers') \in {Len(watchers), Len(watchers) + 1}
    /\ \A a \in Places :
          /\ watchers'[a].path = watchers[a].path
          /\ SubscribersAt(a)' \subseteq SubscribersAt(a) \cup {s \in joined : a = at}
    /\ \A a \in Places' : a \notin Places =>
          /\ a = at /\ SubscribersAt(a)' \subseteq joined
          /\ \A b \in Places : watchers[b].path # watchers'[a].path

LEMMA SubscribedIs ==
    ASSUME WatchersOK, NamesOK,
           NEW path, NEW handler, NEW isObserver, NEW id,
           SubscribeOrObserve(path, handler, isObserver, id)
    PROVE  \E at : Rewatched(at, {[handler |-> handler, isObserver |-> isObserver, id |-> id,
                                   after |-> Len(diffs)]})
<1>1. /\ Len(watchers) \in Nat /\ DOMAIN watchers = Places
      /\ \A a \in Places : watchers[a] \in Watcher /\ watchers[a].subscribers \in Seq(Subscriber)
  BY WatchersAre
<1>2. PICK new : new = [handler |-> handler, isObserver |-> isObserver, id |-> id, after |-> Len(diffs)]
  OBVIOUS
<1>3. CASE \E at \in Places : watchers[at].path = path
  <2>1. PICK at \in Places : watchers[at].path = path
    BY <1>3
  <2>2. watchers' = [a \in Places |->
                        IF watchers[a].path = path
                        THEN [watchers[a] EXCEPT !.subscribers = Append(@, new)] ELSE watchers[a]]
    BY <1>1, <1>2, <2>1 DEF SubscribeOrObserve
  <2>3. Len(watchers') = Len(watchers) /\ Places' = Places
    BY <1>1, <2>2 DEF Places
  <2>4. ASSUME NEW a \in Places
        PROVE  /\ watchers'[a].path = watchers[a].path
               /\ SubscribersAt(a)' \subseteq SubscribersAt(a) \cup {s \in {new} : a = at}
    <3>1. CASE watchers[a].path # path
      BY <2>2, <3>1 DEF SubscribersAt
    <3>2. CASE watchers[a].path = path
      <4>1. a = at
        BY <2>1, <3>2 DEF NamesOK
      <4>2. watchers'[a] = [watchers[a] EXCEPT !.subscribers = Append(@, new)]
        BY <2>2, <3>2
      <4>3. PICK s \in Seq(Subscriber) : s = watchers[a].subscribers
        BY <1>1
      <4>4. watchers'[a].path = watchers[a].path /\ watchers'[a].subscribers = Append(s, new)
        BY <1>1, <4>2, <4>3 DEF Watcher
      <4>5. s \in Seq(ToSet(s) \cup {new}) /\ new \in ToSet(s) \cup {new}
        BY SetOfSequence, SeqMonotonic
      <4>6. ToSet(Append(s, new)) \subseteq ToSet(s) \cup {new}
        BY <4>5, AppendProperties, SetOfSequence
      <4> QED BY <4>1, <4>3, <4>4, <4>6 DEF SubscribersAt
    <3> QED BY <3>1, <3>2
  <2>5. Rewatched(at, {new})
    BY <2>3, <2>4 DEF Rewatched
  <2> QED BY <1>2, <2>5
<1>4. CASE ~\E at \in Places : watchers[at].path = path
  <2>1. PICK w : w = [path |-> path, subscribers |-> <<new>>]
    OBVIOUS
  <2>2. watchers' = Append(watchers, w)
    BY <1>1, <1>2, <1>4, <2>1 DEF SubscribeOrObserve
  <2>3. IsSequence(watchers)
    BY DEF WatchersOK, IsSequence
  <2>4. /\ Len(watchers') = Len(watchers) + 1
        /\ \A a \in Places : watchers'[a] = watchers[a]
        /\ watchers'[Len(watchers) + 1] = w
    BY <2>2, <2>3, Appended DEF Places
  <2>5. \A a \in Places' : a \in Places \/ a = Len(watchers) + 1
    BY <1>1, <2>4 DEF Places
  <2>7. \A a \in Places : SubscribersAt(a)' \subseteq SubscribersAt(a)
    BY <2>4 DEF SubscribersAt
  <2>8. Rewatched(Len(watchers) + 1, {new})
    <3>1. \A a \in Places' : a \notin Places =>
            /\ a = Len(watchers) + 1 /\ SubscribersAt(a)' \subseteq {new}
            /\ \A b \in Places : watchers[b].path # watchers'[a].path
      <4> SUFFICES ASSUME NEW a \in Places', a \notin Places
                   PROVE  /\ a = Len(watchers) + 1 /\ SubscribersAt(a)' \subseteq {new}
                          /\ \A b \in Places : watchers[b].path # watchers'[a].path
        OBVIOUS
      <4>1. a = Len(watchers) + 1
        BY <2>5
      <4>2. watchers'[a] = w
        BY <2>4, <4>1
      <4>3. SubscribersAt(a)' \subseteq {new}
        <5>1. ToSet(<<new>>) \subseteq {new}
          <6>1. <<new>> \in Seq({new})
            OBVIOUS
          <6> QED BY <6>1, SetOfSequence
        <5> QED BY <2>1, <4>2, <5>1 DEF SubscribersAt
      <4> QED BY <1>4, <2>1, <4>1, <4>2, <4>3
    <3> QED BY <2>4, <2>7, <3>1 DEF Rewatched
  <2> QED BY <1>2, <2>8
<1> QED BY <1>3, <1>4

LEMMA UnsubscribedIs ==
    ASSUME WatchersOK, NEW handler, Unsubscribe(handler)
    PROVE  Rewatched(0, {})
<1>1. /\ Len(watchers) \in Nat /\ DOMAIN watchers = Places
      /\ \A a \in Places : watchers[a] \in Watcher /\ watchers[a].subscribers \in Seq(Subscriber)
  BY WatchersAre
<1>2. watchers' = [a \in Places |-> [watchers[a] EXCEPT !.subscribers = Without(@, handler)]]
  BY <1>1 DEF Unsubscribe
<1>3. Len(watchers') = Len(watchers) /\ Places' = Places
  BY <1>1, <1>2 DEF Places
<1>4. ASSUME NEW a \in Places
      PROVE  watchers'[a].path = watchers[a].path /\ SubscribersAt(a)' \subseteq SubscribersAt(a)
  <2>1. PICK s \in Seq(Subscriber) : s = watchers[a].subscribers
    BY <1>1
  <2>2. watchers'[a].path = watchers[a].path /\ watchers'[a].subscribers = Without(s, handler)
    BY <1>1, <1>2, <2>1 DEF Watcher
  <2>3. ToSet(Without(s, handler)) \subseteq ToSet(s)
    BY SetOfSequence, WithoutType
  <2> QED BY <2>1, <2>2, <2>3 DEF SubscribersAt
<1> QED BY <1>3, <1>4 DEF Rewatched

LEMMA WatchIs ==
    ASSUME InvWatch, NamesOK, Watch
    PROVE  \E at, joined :
              /\ Rewatched(at, joined)
              /\ \/ joined = {} /\ made' = made
                 \/ \E new : /\ joined = {new} /\ new.id = Len(made) + 1
                             /\ made' = Append(made, new.isObserver)
<1>1. ASSUME NEW path \in Watched, NEW handler \in Handler, NEW isObserver \in BOOLEAN,
             SubscribeOrObserve(path, handler, isObserver, Len(made) + 1),
             made' = Append(made, isObserver)
      PROVE  \E at, joined, new : /\ Rewatched(at, joined)
                                  /\ joined = {new} /\ new.id = Len(made) + 1
                                  /\ made' = Append(made, new.isObserver)
  <2>1. PICK new : new = [handler |-> handler, isObserver |-> isObserver, id |-> Len(made) + 1,
                          after |-> Len(diffs)]
    OBVIOUS
  <2>2. PICK id : id = Len(made) + 1
    OBVIOUS
  <2>3. \E at : Rewatched(at, {new})
    BY <1>1, <2>1, <2>2, SubscribedIs DEF InvWatch
  <2>4. PICK at : Rewatched(at, {new})
    BY <2>3
  <2>5. new.id = Len(made) + 1 /\ made' = Append(made, new.isObserver)
    BY <1>1, <2>1
  <2> QED BY <2>4, <2>5
<1>2. ASSUME NEW handler, Unsubscribe(handler), made' = made
      PROVE  Rewatched(0, {}) /\ made' = made
  BY <1>2, UnsubscribedIs DEF InvWatch
<1> QED BY <1>1, <1>2 DEF Watch

LEMMA WatchNames == ASSUME InvWatch, NamesOK, Watch PROVE NamesOK'
<1>1. PICK at, joined :
              /\ Rewatched(at, joined)
              /\ \/ joined = {} /\ made' = made
                 \/ \E new : /\ joined = {new} /\ new.id = Len(made) + 1
                             /\ made' = Append(made, new.isObserver)
  BY WatchIs
<1>2. /\ Len(watchers) \in Nat
      /\ \A a \in Places' : a \in Places \/ (a \notin Places /\ a = at /\ SubscribersAt(a)' \subseteq joined)
      /\ \A a \in Places : /\ watchers'[a].path = watchers[a].path
                           /\ SubscribersAt(a)' \subseteq SubscribersAt(a) \cup {s \in joined : a = at}
      /\ \A a \in Places' : a \notin Places => \A b \in Places : watchers[b].path # watchers'[a].path
  BY <1>1, WatchersAre DEF Rewatched, InvWatch
<1>3. Len(made) \in Nat /\ IsSequence(made)
  BY LenProperties DEF InvWatch, MadeOK, IsSequence
<1>4. 1 .. Len(made) \subseteq 1 .. Len(made') /\ \A i \in 1 .. Len(made) : made'[i] = made[i]
  BY <1>1, <1>3, Appended
<1>5. \A new \in joined : /\ new.id = Len(made) + 1 /\ new.id \in 1 .. Len(made')
                          /\ new.isObserver = made'[new.id] /\ new.id \notin 1 .. Len(made)
  <2> SUFFICES ASSUME NEW new \in joined
               PROVE  /\ new.id = Len(made) + 1 /\ new.id \in 1 .. Len(made')
                      /\ new.isObserver = made'[new.id] /\ new.id \notin 1 .. Len(made)
    OBVIOUS
  <2>1. new.id = Len(made) + 1 /\ made' = Append(made, new.isObserver)
    BY <1>1
  <2> QED BY <1>3, <2>1, Appended
<1>6. \A a, b \in Places' : watchers'[a].path = watchers'[b].path => a = b
  BY <1>2 DEF NamesOK
<1>7. \A a \in Places' : \A s \in SubscribersAt(a)' :
          \/ s \in joined /\ a = at
          \/ a \in Places /\ s \in SubscribersAt(a)
  BY <1>2
<1>8. \A a \in Places' : \A s \in SubscribersAt(a)' : s.id \in 1 .. Len(made') /\ s.isObserver = made'[s.id]
  BY <1>4, <1>5, <1>7 DEF NamesOK
<1>9. \A a, b \in Places' : \A s \in SubscribersAt(a)', t \in SubscribersAt(b)' : s.id = t.id => a = b
  BY <1>5, <1>7 DEF NamesOK
<1> QED BY <1>6, <1>8, <1>9 DEF NamesOK

-----------------------------------------------------------------------------

(***************************************************************************)
(* What an announcement tells at a place, and where it waits.              *)
(***************************************************************************)
Observed(a) == \E s \in SubscribersAt(a) : s.isObserver

Heard(n, a) == IsHeard(diffs[n], watchers[a].path)

Halts(n) == {a \in Places : Observed(a) /\ MatchType(diffs[n], watchers[a].path) = "Descendant"}

ToldFromDiff(n, a) ==
    IF Heard(n, a) /\ MatchType(diffs[n], watchers[a].path) # "Descendant"
    THEN ValueInDiff(diffs[n], watchers[a].path) ELSE Undefined

\* The events that may be told at the place a.
Tells(n, a, value) ==
    {e \in EventsAt(n, watchers[a].path, value) :
        e.to \in SubscribersAt(a) /\ Heard(n, a) /\ (e.to.isObserver => e.value = value)}

ToldBy(events) == {e.to : e \in ToSet(events)}

LEMMA SubscribersOf ==
    ASSUME WatchersOK, NamesOK, NEW a \in Places
    PROVE  /\ Subscribers(watchers[a].path) = watchers[a].subscribers
           /\ IsObserved(watchers[a].path) <=> Observed(a)
<1>1. DOMAIN watchers = Places /\ watchers[a].subscribers \in Seq(Subscriber)
  BY WatchersAre
<1>2. a = CHOOSE i \in DOMAIN watchers : watchers[i].path = watchers[a].path
  BY <1>1 DEF NamesOK
<1>3. Subscribers(watchers[a].path) = watchers[a].subscribers
  BY <1>1, <1>2 DEF Subscribers
<1> QED BY <1>3 DEF IsObserved, Observed, SubscribersAt, ToSet

LEMMA EventsAre ==
    ASSUME WatchersOK, NamesOK, NEW n, NEW a \in Places, NEW value
    PROVE  /\ Events(n, watchers[a].path, value) \in Seq(Tells(n, a, value))
           /\ Heard(n, a) => SubscribersAt(a) \subseteq ToldBy(Events(n, watchers[a].path, value))
<1>1. PICK p : p = watchers[a].path
  OBVIOUS
<1>2. PICK all \in Seq(Subscriber) : all = IF Heard(n, a) THEN watchers[a].subscribers ELSE <<>>
  BY WatchersAre, EmptySeq
<1>3. Len(all) \in Nat /\ DOMAIN all = 1 .. Len(all) /\ \A i \in 1 .. Len(all) : all[i] \in Subscriber
  BY LenProperties, ElementOfSeq
<1> DEFINE e(i) == [to |-> all[i], path |-> p, operation |-> n,
                    value |-> IF all[i].isObserver THEN value ELSE Undefined]
<1>4. Events(n, p, value) = [i \in 1 .. Len(all) |-> e(i)]
  BY <1>1, <1>2, <1>3, SubscribersOf DEF Events, Heard
<1>5. Heard(n, a) => ToSet(all) = SubscribersAt(a)
  BY <1>2 DEF SubscribersAt
<1>6. ASSUME NEW i \in 1 .. Len(all) PROVE e(i) \in Tells(n, a, value) /\ e(i).to = all[i]
  <2>1. all # <<>>
    BY <1>3
  <2>2. Heard(n, a)
    BY <1>2, <2>1
  <2>3. all[i] \in SubscribersAt(a) /\ all[i] \in Subscriber
    BY <1>3, <1>5, <2>2 DEF ToSet
  <2>4. e(i) \in EventsAt(n, p, value)
    BY <2>3 DEF EventsAt
  <2> QED BY <1>1, <2>2, <2>3, <2>4 DEF Tells
<1> HIDE DEF e
<1>7. Events(n, p, value) \in Seq(Tells(n, a, value))
  BY <1>3, <1>4, <1>6
<1>8. ASSUME Heard(n, a), NEW s \in SubscribersAt(a)
      PROVE  s \in ToldBy(Events(n, p, value))
  <2>1. PICK i \in 1 .. Len(all) : all[i] = s
    BY <1>3, <1>5, <1>8 DEF ToSet
  <2>2. e(i) \in ToSet(Events(n, p, value)) /\ e(i).to = s
    BY <1>3, <1>4, <1>6, <2>1 DEF ToSet
  <2> QED BY <2>2 DEF ToldBy
<1> QED BY <1>1, <1>7, <1>8

\* The targets are the paths of the places after a, one after the other.
RunsFrom(targets, a) ==
    \A i \in 1 .. Len(targets) : a + i \in Places /\ targets[i] = watchers[a + i].path

Telling(n, a, d) == UNION {Tells(n, w, ToldFromDiff(n, w)) : w \in (a + 1) .. (d - 1)}

LEMMA StopLeast ==
    ASSUME NEW n, NEW targets \in Seq(Watched)
    PROVE  /\ Stop(n, targets) <= Len(targets) => Stop(n, targets) \in Waits(n, targets)
           /\ \A i \in 1 .. Len(targets) : i < Stop(n, targets) => i \notin Waits(n, targets)
<1>1. Len(targets) \in Nat /\ DOMAIN targets = 1 .. Len(targets)
  BY LenProperties
<1>2. Waits(n, targets) \in SUBSET (1 .. Len(targets))
  BY <1>1 DEF Waits
<1>3. CASE Waits(n, targets) = {}
  BY <1>1, <1>3 DEF Stop
<1>4. CASE Waits(n, targets) # {}
  <2>1. \E i \in Waits(n, targets) : \A j \in Waits(n, targets) : i <= j
    BY <1>2, <1>4, LeastOf
  <2>2. /\ Stop(n, targets) \in Waits(n, targets)
        /\ \A j \in Waits(n, targets) : Stop(n, targets) <= j
    BY <1>4, <2>1 DEF Stop
  <2>3. \A j \in Waits(n, targets) : ~(j < Stop(n, targets))
    BY <1>2, <2>2
  <2> QED BY <2>2, <2>3
<1> QED BY <1>3, <1>4

LEMMA FromDiffTells ==
    ASSUME WatchersOK, NamesOK, NEW n, NEW targets \in Seq(Watched),
           NEW a \in Nat, NEW d \in Nat, RunsFrom(targets, a), d = a + Stop(n, targets)
    PROVE  /\ FromDiff(n, targets) \in Seq(Telling(n, a, d))
           /\ \A w \in (a + 1) .. (d - 1) : Heard(n, w) => SubscribersAt(w) \subseteq ToldBy(FromDiff(n, targets))
<1> DEFINE N == Stop(n, targets) - 1
           S == Telling(n, a, d)
           parts == [i \in 1 .. N |-> EventsFromDiff(n, targets[i])]
<1>1. /\ N \in Nat /\ N <= Len(targets) /\ Len(targets) \in Nat
      /\ Stop(n, targets) \in Nat /\ d - 1 = a + N
  <2>1. Len(targets) \in Nat
    BY LenProperties
  <2>2. PICK stop \in 1 .. Len(targets) + 1 : stop = Stop(n, targets)
    BY StopIs
  <2> QED BY <2>1, <2>2
<1>2. ASSUME NEW i \in 1 .. N
      PROVE  /\ a + i \in Places /\ a + i \in (a + 1) .. (d - 1)
             /\ EventsFromDiff(n, targets[i])
                  = Events(n, watchers[a + i].path, ToldFromDiff(n, a + i))
             /\ EventsFromDiff(n, targets[i]) \in Seq(S)
  <2>1. i \in 1 .. Len(targets) /\ a + i \in (a + 1) .. (d - 1)
    BY <1>1
  <2>2. a + i \in Places /\ targets[i] = watchers[a + i].path
    BY <2>1 DEF RunsFrom
  <2>3. EventsFromDiff(n, targets[i]) = Events(n, watchers[a + i].path, ToldFromDiff(n, a + i))
    BY <2>2 DEF EventsFromDiff, ToldFromDiff, Heard
  <2>4. Tells(n, a + i, ToldFromDiff(n, a + i)) \subseteq S
    BY <2>1 DEF Telling
  <2>5. PICK value : value = ToldFromDiff(n, a + i)
    OBVIOUS
  <2>6. PICK events : events = Events(n, watchers[a + i].path, value)
    OBVIOUS
  <2>7. events \in Seq(Tells(n, a + i, value))
    BY <2>2, <2>6, EventsAre
  <2> HIDE DEF S
  <2>8. events \in Seq(S)
    BY <2>4, <2>5, <2>7, SeqMonotonic
  <2> QED BY <2>1, <2>2, <2>3, <2>5, <2>6, <2>8
<1> HIDE DEF S, N
<1>3. parts \in Seq(Seq(S)) /\ Len(parts) = N /\ \A i \in 1 .. N : parts[i] = EventsFromDiff(n, targets[i])
  BY <1>1, <1>2
<1>4. FromDiff(n, targets) = FlattenSeq(parts)
  BY DEF FromDiff, N
<1> HIDE DEF parts
<1>5. /\ FlattenSeq(parts) \in Seq(S)
      /\ \A i \in 1 .. N : ToSet(EventsFromDiff(n, targets[i])) \subseteq ToSet(FlattenSeq(parts))
  BY <1>3, Flattened
<1>6. ASSUME NEW w \in (a + 1) .. (d - 1), Heard(n, w), NEW s \in SubscribersAt(w)
      PROVE  s \in ToldBy(FlattenSeq(parts))
  <2>1. PICK i \in 1 .. N : w = a + i
    <3>1. w - a \in 1 .. N /\ w = a + (w - a)
      BY <1>1
    <3> QED BY <3>1
  <2>2. PICK value : value = ToldFromDiff(n, w)
    OBVIOUS
  <2>3. w \in Places /\ EventsFromDiff(n, targets[i]) = Events(n, watchers[w].path, value)
    <3>1. /\ a + i \in Places
          /\ EventsFromDiff(n, targets[i]) = Events(n, watchers[a + i].path, ToldFromDiff(n, a + i))
      BY <1>2
    <3> QED BY <2>1, <2>2, <3>1
  <2>4. s \in ToldBy(Events(n, watchers[w].path, value))
    BY <1>6, <2>3, EventsAre
  <2>5. ToldBy(EventsFromDiff(n, targets[i])) \subseteq ToldBy(FlattenSeq(parts))
    BY <1>5 DEF ToldBy
  <2> QED BY <2>3, <2>4, <2>5
<1> QED BY <1>4, <1>5, <1>6 DEF S

\* An announcement tells everybody up to the first place where it waits, the place d;
\* it is done when there is none.
LEMMA WalksTo ==
    ASSUME WatchersOK, NamesOK, NEW n, NEW targets \in Seq(Watched),
           NEW a \in Nat, RunsFrom(targets, a), NEW told, Walk(n, targets, told)
    PROVE  \E d \in (a + 1) .. (a + Len(targets) + 1) :
              /\ \A w \in (a + 1) .. (d - 1) : w \in Places /\ w \notin Halts(n)
              /\ \/ d = a + Len(targets) + 1 /\ queue' = queue
                 \/ /\ d # a + Len(targets) + 1 /\ d \in Halts(n)
                    /\ \E rest \in Seq(Watched) :
                          /\ queue' = Append(queue, [op |-> "getEntity", operation |-> n, targets |-> rest])
                          /\ Len(rest) = a + Len(targets) + 1 - d
                          /\ RunsFrom(rest, d - 1)
              /\ \E fd \in Seq(Telling(n, a, d)) :
                    /\ tasks' = (tasks \o told) \o fd
                    /\ \A w \in (a + 1) .. (d - 1) : Heard(n, w) => SubscribersAt(w) \subseteq ToldBy(fd)
<1>1. Len(targets) \in Nat /\ DOMAIN targets = 1 .. Len(targets)
  BY LenProperties
<1>2. PICK stop \in 1 .. Len(targets) + 1 : stop = Stop(n, targets)
  BY StopIs
<1>3. PICK d \in Nat : d = a + stop
  BY <1>1
<1>4. d \in (a + 1) .. (a + Len(targets) + 1)
  BY <1>1, <1>2, <1>3
<1>5. \A i \in 1 .. Len(targets) : i \in Waits(n, targets) <=> a + i \in Halts(n)
  <2> SUFFICES ASSUME NEW i \in 1 .. Len(targets)
               PROVE  i \in Waits(n, targets) <=> a + i \in Halts(n)
    OBVIOUS
  <2>1. a + i \in Places /\ targets[i] = watchers[a + i].path
    BY DEF RunsFrom
  <2>2. IsObserved(targets[i]) <=> Observed(a + i)
    BY <2>1, SubscribersOf
  <2> QED BY <1>1, <2>1, <2>2 DEF Waits, NeedsRead, Halts
<1>6. ASSUME NEW w \in (a + 1) .. (d - 1) PROVE w \in Places /\ w \notin Halts(n)
  <2>1. PICK i \in 1 .. Len(targets) : w = a + i /\ i < stop
    <3>1. w - a \in 1 .. Len(targets) /\ w = a + (w - a) /\ w - a < stop
      BY <1>1, <1>2, <1>3
    <3> QED BY <3>1
  <2>2. i \notin Waits(n, targets)
    BY <1>2, <2>1, StopLeast
  <2> QED BY <1>5, <2>1, <2>2 DEF RunsFrom
<1>7. /\ FromDiff(n, targets) \in Seq(Telling(n, a, d))
      /\ \A w \in (a + 1) .. (d - 1) : Heard(n, w) => SubscribersAt(w) \subseteq ToldBy(FromDiff(n, targets))
  BY <1>2, <1>3, FromDiffTells
<1> DEFINE rest == SubSeq(targets, stop, Len(targets))
<1>8. /\ tasks' = tasks \o told \o FlattenSeq([i \in 1 .. stop - 1 |-> EventsFromDiff(n, targets[i])])
      /\ queue' = IF stop > Len(targets) THEN queue
                  ELSE Append(queue, [op |-> "getEntity", operation |-> n, targets |-> rest])
  BY <1>2 DEF Walk, Stop, Waits
<1>9. tasks' = (tasks \o told) \o FromDiff(n, targets)
  BY <1>2, <1>8 DEF FromDiff
<1>10. CASE stop > Len(targets)
  <2>1. d = a + Len(targets) + 1 /\ queue' = queue
    <3>1. queue' = queue
      BY <1>8, <1>10
    <3>2. stop = Len(targets) + 1
      BY <1>1, <1>2, <1>10
    <3> QED BY <1>1, <1>3, <3>1, <3>2
  <2> QED BY <1>4, <1>6, <1>7, <1>9, <2>1
<1>11. CASE stop <= Len(targets)
  <2>1. queue' = Append(queue, [op |-> "getEntity", operation |-> n, targets |-> rest])
    <3>1. ~(stop > Len(targets))
      BY <1>1, <1>11
    <3> QED BY <1>8, <3>1
  <2>2. d # a + Len(targets) + 1
    BY <1>1, <1>3, <1>11
  <2>3. d \in Halts(n)
    <3>1. stop \in Waits(n, targets) /\ stop \in 1 .. Len(targets)
      BY <1>1, <1>2, <1>11, StopLeast
    <3> QED BY <1>3, <1>5, <3>1
  <2>4. /\ rest \in Seq(Watched)
        /\ Len(rest) = IF stop <= Len(targets) THEN Len(targets) - stop + 1 ELSE 0
        /\ \A i \in 1 .. Len(targets) - stop + 1 : rest[i] = targets[stop + i - 1]
    <3>1. \A i \in stop .. Len(targets) : targets[i] \in Watched
      BY <1>1, ElementOfSeq
    <3>2. stop \in Int /\ Len(targets) \in Int
      BY <1>1
    <3> QED BY <3>1, <3>2, SubSeqProperties
  <2>5. Len(rest) = a + Len(targets) + 1 - d
    BY <1>1, <1>3, <1>11, <2>4
  <2>6. RunsFrom(rest, d - 1)
    <3> SUFFICES ASSUME NEW i \in 1 .. Len(rest)
                 PROVE  (d - 1) + i \in Places /\ rest[i] = watchers[(d - 1) + i].path
      BY DEF RunsFrom
    <3>1. /\ stop + i - 1 \in 1 .. Len(targets) /\ a + (stop + i - 1) = (d - 1) + i
          /\ i \in 1 .. Len(targets) - stop + 1
      BY <1>1, <1>3, <1>11, <2>4
    <3>2. a + (stop + i - 1) \in Places /\ targets[stop + i - 1] = watchers[a + (stop + i - 1)].path
      BY <3>1 DEF RunsFrom
    <3> QED BY <2>4, <3>1, <3>2
  <2> HIDE DEF rest
  <2> QED BY <1>4, <1>6, <1>7, <1>9, <2>1, <2>2, <2>3, <2>4, <2>5, <2>6
<1>12. stop > Len(targets) \/ stop <= Len(targets)
  BY <1>1
<1> QED BY <1>10, <1>11, <1>12

-----------------------------------------------------------------------------

(***************************************************************************)
(* The line of what is under way: the answers not taken up, and behind     *)
(* them the queue.  A job in it is an operation sent (0), an announcement  *)
(* that is to start (with nothing left), or one that waits at the first of *)
(* the paths it has left.                                                  *)
(***************************************************************************)
Count == Len(answered) + Len(queue)

Jobs == 1 .. Count

Job(operation, left) == [operation |-> operation, left |-> left]

JobInQueue(x) == IF IsRead(x) THEN Job(x.operation, x.targets) ELSE Job(0, <<>>)

JobAt(i) ==
    IF i <= Len(answered) THEN Job(answered[i].operation, answered[i].read)
    ELSE JobInQueue(queue[i - Len(answered)])

\* The places that a job has still to announce at: those after From, up to Until.  It has
\* told nothing at From yet, where it waits or has just read.
From(x) == IF x.left = <<>> THEN 0
           ELSE CHOOSE a \in Places : watchers[a].path = x.left[1]

Until(x) == IF x.left = <<>> THEN Len(watchers) ELSE From(x) + Len(x.left) - 1

\* Steps keep the jobs of the domain of f, in their order, and add none but x.
Carries(f, x) ==
    /\ DOMAIN f \subseteq Jobs
    /\ \A i \in DOMAIN f : f[i] \in Jobs' /\ JobAt(f[i])' = JobAt(i)
    /\ \A i, j \in DOMAIN f : i < j => f[i] < f[j]
    /\ \A j \in Jobs' : (\E i \in DOMAIN f : f[i] = j) \/ JobAt(j)' = x

\* Nothing changes its side of the line.
KeepsSide(f) == \A i \in DOMAIN f : i <= Len(answered) <=> f[i] <= Len(answered')

LEMMA CountIs ==
    ASSUME InvWatch
    PROVE  Len(answered) \in Nat /\ Len(queue) \in Nat /\ Count \in Nat
  BY LengthOf DEF InvWatch, AnsweredOK, QueueOK, Count

LEMMA SendCarries ==
    ASSUME InvWatch, Send
    PROVE  \E f : /\ Carries(f, Job(0, <<>>)) /\ KeepsSide(f) /\ DOMAIN f = Jobs
<1>1. PICK o \in Requests : queue' = Append(queue, o)
  BY DEF Send
<1>2. answered' = answered
  BY DEF Send
<1>3. /\ Len(answered) \in Nat /\ Len(queue) \in Nat
      /\ Len(queue') = Len(queue) + 1
      /\ \A i \in 1 .. Len(queue) : queue'[i] = queue[i]
      /\ queue'[Len(queue) + 1] = o
  BY <1>1, CountIs, Appended DEF InvWatch, QueueOK
<1>4. PICK f : f = [i \in Jobs |-> i]
  OBVIOUS
<1>5. ASSUME NEW i \in Jobs PROVE i \in Jobs' /\ JobAt(i)' = JobAt(i)
  <2>1. i \in Jobs' /\ (~(i <= Len(answered)) => i - Len(answered) \in 1 .. Len(queue))
    BY <1>2, <1>3 DEF Jobs, Count
  <2>2. CASE i <= Len(answered)
    BY <1>2, <2>1, <2>2 DEF JobAt
  <2>3. CASE ~(i <= Len(answered))
    <3>1. queue'[i - Len(answered)] = queue[i - Len(answered)]
      BY <1>3, <2>1, <2>3
    <3> QED BY <1>2, <2>1, <2>3, <3>1 DEF JobAt, JobInQueue, IsRead
  <2> QED BY <2>2, <2>3
<1>6. ASSUME NEW j \in Jobs', j \notin Jobs PROVE JobAt(j)' = Job(0, <<>>)
  <2>1. ~(j <= Len(answered)) /\ j - Len(answered) = Len(queue) + 1
    BY <1>2, <1>3, <1>6 DEF Jobs, Count
  <2>2. queue'[j - Len(answered)] = o
    BY <1>3, <2>1
  <2>3. ~IsRead(o)
    BY RequestsAreNoReads
  <2> QED BY <1>2, <2>1, <2>2, <2>3 DEF JobAt, JobInQueue, IsRead
<1>7. Carries(f, Job(0, <<>>))
  BY <1>4, <1>5, <1>6 DEF Carries
<1>8. KeepsSide(f)
  BY <1>2, <1>4 DEF KeepsSide
<1> QED BY <1>4, <1>7, <1>8

\* The place of the operation that is run next.
Turn == Len(answered) + 1

LEMMA TurnIs ==
    ASSUME InvWatch, queue # <<>>
    PROVE  /\ Turn \in Jobs /\ JobAt(Turn) = JobInQueue(queue[1])
           /\ queue[1] \in Requests => JobAt(Turn) = Job(0, <<>>)
<1>1. Len(answered) \in Nat /\ Len(queue) \in Nat \ {0}
  BY CountIs, WithoutFirst DEF InvWatch, QueueOK
<1>2. Turn \in Jobs /\ ~(Turn <= Len(answered)) /\ Turn - Len(answered) = 1
  BY <1>1 DEF Turn, Jobs, Count
<1>3. JobAt(Turn) = JobInQueue(queue[1])
  BY <1>2 DEF JobAt
<1> QED BY <1>2, <1>3, RequestsAreNoReads DEF JobInQueue

\* A transaction that throws leaves the line.
LEMMA RefusedCarries ==
    ASSUME InvWatch, queue # <<>>, queue' = Tail(queue), answered' = answered, NEW x
    PROVE  \E f : /\ Carries(f, x) /\ KeepsSide(f) /\ DOMAIN f = Jobs \ {Turn}
<1>1. /\ Len(answered) \in Nat /\ Len(queue) \in Nat \ {0}
      /\ Len(queue') = Len(queue) - 1
      /\ \A i \in 1 .. Len(queue') : i + 1 \in 1 .. Len(queue) /\ queue'[i] = queue[i + 1]
  BY CountIs, WithoutFirst DEF InvWatch, QueueOK
<1>2. PICK f : f = [i \in Jobs \ {Turn} |-> IF i < Turn THEN i ELSE i - 1]
  OBVIOUS
<1>3. ASSUME NEW i \in Jobs, i < Turn
      PROVE  i \in Jobs' /\ i <= Len(answered) /\ JobAt(i)' = JobAt(i)
  <2>1. i \in Jobs' /\ i <= Len(answered)
    BY <1>1, <1>3 DEF Jobs, Count, Turn
  <2> QED BY <2>1 DEF JobAt
<1>4. ASSUME NEW i \in Jobs, i > Turn
      PROVE  i - 1 \in Jobs' /\ ~(i <= Len(answered)) /\ ~(i - 1 <= Len(answered)) /\ JobAt(i - 1)' = JobAt(i)
  <2>1. /\ i - 1 \in Jobs' /\ ~(i <= Len(answered)) /\ ~(i - 1 <= Len(answered))
        /\ (i - 1) - Len(answered) \in 1 .. Len(queue')
        /\ ((i - 1) - Len(answered)) + 1 = i - Len(answered)
    BY <1>1, <1>4 DEF Jobs, Count, Turn
  <2>2. PICK m : m = (i - 1) - Len(answered)
    OBVIOUS
  <2>3. queue'[m] = queue[i - Len(answered)]
    BY <1>1, <2>1, <2>2
  <2>4. JobAt(i - 1)' = JobInQueue(queue[i - Len(answered)])
    BY <2>1, <2>2, <2>3 DEF JobAt, JobInQueue, IsRead
  <2> QED BY <2>1, <2>4 DEF JobAt
<1>5. \A i \in Jobs \ {Turn} : i \in Int /\ (i < Turn \/ i > Turn)
  BY <1>1 DEF Jobs, Count, Turn
<1>6. ASSUME NEW i \in DOMAIN f
      PROVE  f[i] \in Jobs' /\ JobAt(f[i])' = JobAt(i) /\ (i <= Len(answered) <=> f[i] <= Len(answered))
  <2>1. CASE i < Turn
    BY <1>2, <1>3, <2>1
  <2>2. CASE i > Turn
    <3>1. ~(i < Turn)
      BY <1>1, <1>2, <2>2 DEF Jobs, Count, Turn
    <3>2. f[i] = i - 1
      BY <1>2, <3>1
    <3> QED BY <1>2, <1>4, <2>2, <3>2
  <2> QED BY <1>2, <1>5, <2>1, <2>2
<1>7. \A i, j \in DOMAIN f : i < j => f[i] < f[j]
  BY <1>1, <1>2, <1>5 DEF Turn
<1>8. ASSUME NEW j \in Jobs' PROVE \E i \in DOMAIN f : f[i] = j
  <2>1. CASE j < Turn
    <3>1. j \in Jobs \ {Turn}
      BY <1>1, <2>1 DEF Jobs, Count, Turn
    <3> QED BY <1>2, <2>1, <3>1
  <2>2. CASE ~(j < Turn)
    <3>1. j + 1 \in Jobs \ {Turn} /\ ~(j + 1 < Turn) /\ (j + 1) - 1 = j
      BY <1>1, <2>2 DEF Jobs, Count, Turn
    <3> QED BY <1>2, <3>1
  <2> QED BY <2>1, <2>2
<1>9. Carries(f, x)
  BY <1>2, <1>6, <1>7, <1>8 DEF Carries
<1>10. KeepsSide(f)
  BY <1>6 DEF KeepsSide
<1> QED BY <1>2, <1>9, <1>10

\* The operation in the place c is run, and answered.
Answered(answer, c) ==
    /\ queue # <<>> /\ queue' = Tail(queue)
    /\ answered' = Append(answered, answer) /\ c = Turn

\* Nothing else moves.
LEMMA AnsweredCarries ==
    ASSUME InvWatch, NEW answer, NEW c, Answered(answer, c)
    PROVE  /\ Jobs' = Jobs /\ Len(answered') = c
           /\ JobAt(c)' = Job(answer.operation, answer.read)
           /\ \A i \in Jobs \ {c} :
                 JobAt(i)' = JobAt(i) /\ (i <= Len(answered) <=> i <= Len(answered'))
<1>1. /\ Len(answered) \in Nat /\ Len(queue) \in Nat \ {0}
      /\ Len(queue') = Len(queue) - 1
      /\ \A i \in 1 .. Len(queue') : i + 1 \in 1 .. Len(queue) /\ queue'[i] = queue[i + 1]
      /\ Len(answered') = Len(answered) + 1
      /\ \A i \in 1 .. Len(answered) : answered'[i] = answered[i]
      /\ answered'[Len(answered) + 1] = answer
      /\ c = Turn
  BY CountIs, WithoutFirst, Appended DEF InvWatch, QueueOK, AnsweredOK, Answered
<1>2. Jobs' = Jobs /\ Len(answered') = c
  BY <1>1 DEF Jobs, Count, Turn
<1>3. JobAt(c)' = Job(answer.operation, answer.read)
  BY <1>1, <1>2 DEF JobAt, Turn
<1>4. ASSUME NEW i \in Jobs \ {c}
      PROVE  JobAt(i)' = JobAt(i) /\ (i <= Len(answered) <=> i <= Len(answered'))
  <2>1. CASE i <= Len(answered)
    <3>1. i \in 1 .. Len(answered) /\ i <= Len(answered')
      BY <1>1, <2>1 DEF Jobs, Count
    <3> QED BY <1>1, <2>1, <3>1 DEF JobAt
  <2>2. CASE ~(i <= Len(answered))
    <3>1. /\ ~(i <= Len(answered'))
          /\ i - Len(answered') \in 1 .. Len(queue')
          /\ (i - Len(answered')) + 1 = i - Len(answered)
      BY <1>1, <2>2 DEF Jobs, Count, Turn
    <3>2. PICK m : m = i - Len(answered')
      OBVIOUS
    <3>3. queue'[m] = queue[i - Len(answered)]
      BY <1>1, <3>1, <3>2
    <3>4. JobAt(i)' = JobInQueue(queue[i - Len(answered)])
      BY <3>1, <3>2, <3>3 DEF JobAt, JobInQueue, IsRead
    <3> QED BY <2>2, <3>1, <3>4 DEF JobAt
  <2> QED BY <2>1, <2>2
<1> QED BY <1>2, <1>3, <1>4

\* The first answer is taken up; what it is about goes to the end, where it waits.
LEMMA AnnouncedCarries ==
    ASSUME InvWatch, answered # <<>>, answered' = Tail(answered), NEW n, NEW rest,
           \/ queue' = queue
           \/ queue' = Append(queue, [op |-> "getEntity", operation |-> n, targets |-> rest])
    PROVE  /\ 1 \in Jobs /\ JobAt(1) = Job(answered[1].operation, answered[1].read)
           /\ \E f : /\ Carries(f, Job(n, rest)) /\ KeepsSide(f) /\ DOMAIN f = Jobs \ {1}
                     /\ queue' # queue =>
                           \E j \in Jobs' : /\ JobAt(j)' = Job(n, rest) /\ ~(j <= Len(answered'))
                                            /\ \A i \in DOMAIN f : f[i] < j
<1>1. /\ Len(queue) \in Nat /\ Len(answered) \in Nat \ {0}
      /\ Len(answered') = Len(answered) - 1
      /\ \A i \in 1 .. Len(answered') : i + 1 \in 1 .. Len(answered) /\ answered'[i] = answered[i + 1]
  BY CountIs, WithoutFirst DEF InvWatch, AnsweredOK
<1>2. PICK job : job = [op |-> "getEntity", operation |-> n, targets |-> rest]
  OBVIOUS
<1>3. JobInQueue(job) = Job(n, rest)
  BY <1>2 DEF JobInQueue, IsRead
<1>4. /\ Len(queue') \in {Len(queue), Len(queue) + 1}
      /\ \A i \in 1 .. Len(queue) : queue'[i] = queue[i]
      /\ queue' = queue => Len(queue') = Len(queue)
      /\ queue' # queue => Len(queue') = Len(queue) + 1
      /\ Len(queue') = Len(queue) + 1 => queue'[Len(queue) + 1] = job
  <2>1. CASE queue' = queue
    BY <1>1, <2>1
  <2>2. CASE queue' = Append(queue, job)
    <3>1. /\ Len(queue') = Len(queue) + 1
          /\ \A i \in 1 .. Len(queue) : queue'[i] = queue[i]
          /\ queue'[Len(queue) + 1] = job
      BY <2>2, Appended DEF InvWatch, QueueOK
    <3> QED BY <1>1, <3>1
  <2> QED BY <1>2, <2>1, <2>2
<1>5. 1 \in Jobs /\ JobAt(1) = Job(answered[1].operation, answered[1].read)
  BY <1>1 DEF Jobs, Count, JobAt
<1>6. PICK f : f = [i \in Jobs \ {1} |-> i - 1]
  OBVIOUS
<1>7. ASSUME NEW i \in Jobs \ {1}
      PROVE  /\ i - 1 \in Jobs' /\ JobAt(i - 1)' = JobAt(i)
             /\ i <= Len(answered) <=> i - 1 <= Len(answered')
  <2>1. i - 1 \in Jobs' /\ (i <= Len(answered) <=> i - 1 <= Len(answered'))
    BY <1>1, <1>4 DEF Jobs, Count
  <2>2. CASE i <= Len(answered)
    <3>1. i - 1 \in 1 .. Len(answered') /\ (i - 1) + 1 = i
      BY <1>1, <2>1, <2>2 DEF Jobs, Count
    <3>2. PICK m : m = i - 1
      OBVIOUS
    <3>3. answered'[m] = answered[i]
      BY <1>1, <3>1, <3>2
    <3>4. JobAt(i - 1)' = Job(answered[i].operation, answered[i].read)
      BY <2>1, <2>2, <3>2, <3>3 DEF JobAt
    <3> QED BY <2>1, <2>2, <3>4 DEF JobAt
  <2>3. CASE ~(i <= Len(answered))
    <3>1. i - Len(answered) \in 1 .. Len(queue) /\ (i - 1) - Len(answered') = i - Len(answered)
      BY <1>1, <2>3 DEF Jobs, Count
    <3>2. queue'[i - Len(answered)] = queue[i - Len(answered)]
      BY <1>4, <3>1
    <3>3. JobAt(i - 1)' = JobInQueue(queue[i - Len(answered)])
      BY <2>1, <2>3, <3>1, <3>2 DEF JobAt, JobInQueue, IsRead
    <3> QED BY <2>1, <2>3, <3>3 DEF JobAt
  <2> QED BY <2>1, <2>2, <2>3
<1>8. \A i \in DOMAIN f : f[i] = i - 1 /\ i \in Jobs \ {1} /\ i \in Int
  BY <1>1, <1>6 DEF Jobs, Count
<1>9. ASSUME NEW j \in Jobs', j + 1 \notin Jobs
      PROVE  /\ queue' # queue /\ JobAt(j)' = Job(n, rest) /\ ~(j <= Len(answered'))
             /\ \A i \in DOMAIN f : f[i] < j
  <2>1. /\ Len(queue') = Len(queue) + 1 /\ ~(j <= Len(answered'))
        /\ j - Len(answered') = Len(queue) + 1
    BY <1>1, <1>4, <1>9 DEF Jobs, Count
  <2>2. queue'[j - Len(answered')] = job
    BY <1>4, <2>1
  <2>3. JobAt(j)' = Job(n, rest)
    BY <1>3, <2>1, <2>2 DEF JobAt, JobInQueue, IsRead
  <2>4. \A i \in Jobs \ {1} : i - 1 < j
    BY <1>1, <2>1 DEF Jobs, Count
  <2>5. queue' # queue
    BY <1>1, <1>4, <2>1
  <2> QED BY <1>8, <2>1, <2>3, <2>4, <2>5
<1>10. Carries(f, Job(n, rest))
  <2>1. \A i \in DOMAIN f : f[i] \in Jobs' /\ JobAt(f[i])' = JobAt(i)
    <3> SUFFICES ASSUME NEW i \in DOMAIN f PROVE f[i] \in Jobs' /\ JobAt(f[i])' = JobAt(i)
      OBVIOUS
    <3>1. f[i] = i - 1 /\ i \in Jobs \ {1}
      BY <1>8
    <3> QED BY <1>7, <3>1
  <2>2. \A i, j \in DOMAIN f : i < j => f[i] < f[j]
    BY <1>8
  <2>3. ASSUME NEW j \in Jobs' PROVE (\E i \in DOMAIN f : f[i] = j) \/ JobAt(j)' = Job(n, rest)
    <3>1. CASE j + 1 \in Jobs
      <4>1. j + 1 \in Jobs \ {1} /\ (j + 1) - 1 = j
        BY <1>1, <3>1 DEF Jobs
      <4> QED BY <1>6, <4>1
    <3>2. CASE j + 1 \notin Jobs
      BY <1>9, <3>2
    <3> QED BY <3>1, <3>2
  <2>4. DOMAIN f \subseteq Jobs
    BY <1>6
  <2> QED BY <2>1, <2>2, <2>3, <2>4 DEF Carries
<1>11. KeepsSide(f)
  BY <1>7, <1>8 DEF KeepsSide
<1>12. ASSUME queue' # queue
       PROVE  \E j \in Jobs' : /\ JobAt(j)' = Job(n, rest) /\ ~(j <= Len(answered'))
                               /\ \A i \in DOMAIN f : f[i] < j
  <2>1. Count \in Jobs' /\ Count + 1 \notin Jobs
    BY <1>1, <1>4, <1>12 DEF Jobs, Count
  <2>2. PICK j : j = Count
    OBVIOUS
  <2> QED BY <1>9, <2>1, <2>2
<1>13. DOMAIN f = Jobs \ {1}
  BY <1>6
<1> QED BY <1>5, <1>10, <1>11, <1>12, <1>13

\* Nothing is added to or taken from the line.
LEMMA UntouchedCarries ==
    ASSUME UNCHANGED <<answered, queue>>
    PROVE  Jobs' = Jobs /\ \A i \in Jobs : JobAt(i)' = JobAt(i)
  BY DEF Jobs, Count, JobAt, JobInQueue, IsRead

-----------------------------------------------------------------------------

(***************************************************************************)
(* What is true of the jobs under way, and of what was told, while the     *)
(* program is undisturbed.                                                 *)
(***************************************************************************)
ChangedBelow(n, a) == \E k \in Key : Changed(n, k) /\ IsStrictPrefix(watchers[a].path, k)

\* A job that waits does at a place that is observed, for a change below it; what it has
\* left are the places from there, one after the other.
JobOK(x) ==
    /\ x.operation \in 0 .. Len(diffs) /\ x.left \in Seq(Watched)
    /\ x.left # <<>> => /\ From(x) \in Places /\ RunsFrom(x.left, From(x) - 1)
                        /\ Observed(From(x)) /\ ChangedBelow(x.operation, From(x))

JobsOK ==
    \A i \in Jobs : /\ JobOK(JobAt(i))
                    /\ JobAt(i).left = <<>> /\ i > Len(answered) => JobAt(i).operation = 0

\* The job j comes wherever the job i comes, and after it.
Trails(j, i) ==
    /\ From(JobAt(j)) <= From(JobAt(i)) /\ Until(JobAt(i)) <= Until(JobAt(j))
    /\ From(JobAt(j)) = From(JobAt(i)) => i < j

IsTrailed(i, m) == \E j \in Jobs : JobAt(j).operation = m /\ Trails(j, i)

\* A later change of the same key is announced later, everywhere.
LaterTrails ==
    \A k \in Key : \A n, m : n < m /\ Changed(n, k) /\ Changed(m, k) =>
        \A i \in Jobs : JobAt(i).operation = n => IsTrailed(i, m)

\* The operation is still to be announced at the place.
IsToCome(n, a) ==
    \E i \in Jobs : JobAt(i).operation = n /\ From(JobAt(i)) < a /\ a <= Until(JobAt(i))

LatestIsSeen ==
    \A k \in Key : \A n :
        Changed(n, k) /\ (\A m : Changed(m, k) => m <= n) => View(k) = diffs[n][1].value

\* The handlers called, and to be called.
Told == calls \o tasks

LastTo(j, id) ==
    /\ j \in 1 .. Len(Told) /\ Told[j].to.id = id
    /\ \A l \in 1 .. Len(Told) : Told[l].to.id = id => l <= j

\* What an observer in the leaf k heard last is the value of a change of k, and the later
\* changes of k are still to come.
LastInLeaf(e, a, k) ==
    /\ Changed(e.operation, k) /\ e.value = ValueIn(e.operation, k, watchers[a].path)
    /\ \A m : e.operation < m /\ Changed(m, k) => IsToCome(m, a)

LeavesTold ==
    \A a \in Places : \A s \in SubscribersAt(a), k \in Key :
        s.isObserver /\ IsPrefix(k, watchers[a].path) =>
            \A j : LastTo(j, s.id) => LastInLeaf(Told[j], a, k)

\* A read of the place is still to be made for an announcement.
IsToRead(a) ==
    \E i \in Jobs : /\ ChangedBelow(JobAt(i).operation, a)
                    /\ From(JobAt(i)) < a \/ (From(JobAt(i)) = a /\ i > Len(answered))
                    /\ a <= Until(JobAt(i))

\* An answer brings what was read at the place.
Brings(i, a) == i \in 1 .. Len(answered) /\ answered[i].read # <<>> /\ From(JobAt(i)) = a

\* If no read is to be made at a branch, the last answer that brings its value brings the
\* present one; if none does, the observers know that.
BranchRead(a) ==
    IsBranch(watchers[a].path) /\ ~IsToRead(a) =>
        \A i : Brings(i, a) /\ (\A j : Brings(j, a) => j <= i) =>
            answered[i].value = Entity(watchers[a].path)

BranchTold(a) ==
    IsBranch(watchers[a].path) /\ ~IsToRead(a) /\ (\A i : ~Brings(i, a)) =>
        \A s \in SubscribersAt(a) : s.isObserver =>
            \A j : LastTo(j, s.id) => Told[j].value = Entity(watchers[a].path)

BranchesTold == \A a \in Places : BranchRead(a) /\ BranchTold(a)

Settling == JobsOK /\ LaterTrails /\ LatestIsSeen /\ LeavesTold /\ BranchesTold

-----------------------------------------------------------------------------

(***************************************************************************)
(* Where nobody subscribes or leaves, and no diff is lost.                 *)
(***************************************************************************)
Extended ==
    /\ watchers' = watchers
    /\ 1 .. Len(diffs) \subseteq 1 .. Len(diffs')
    /\ \A n \in 1 .. Len(diffs) : diffs'[n] = diffs[n]

LEMMA SameWay ==
    ASSUME Extended
    PROVE  /\ Places' = Places
           /\ \A a : SubscribersAt(a)' = SubscribersAt(a) /\ Observed(a)' = Observed(a)
           /\ \A x : From(x)' = From(x) /\ Until(x)' = Until(x)
           /\ \A n, k : Changed(n, k) => Changed(n, k)'
           /\ \A n \in 1 .. Len(diffs) : \A k : Changed(n, k)' => Changed(n, k)
           /\ \A n, a : ChangedBelow(n, a) => ChangedBelow(n, a)'
           /\ \A n \in 1 .. Len(diffs) : \A k, p : ValueIn(n, k, p)' = ValueIn(n, k, p)
<1>1. watchers' = watchers
  BY DEF Extended
<1>2. Places' = Places
  BY <1>1 DEF Places
<1>3. \A a : SubscribersAt(a)' = SubscribersAt(a) /\ Observed(a)' = Observed(a)
  BY <1>1 DEF SubscribersAt, Observed
<1>4. \A x : From(x)' = From(x) /\ Until(x)' = Until(x)
  BY <1>1 DEF From, Until, Places
<1>5. \A n, k : Changed(n, k) => Changed(n, k)'
  BY DEF Extended, Changed
<1>6. \A n \in 1 .. Len(diffs) : \A k : Changed(n, k)' => Changed(n, k)
  BY DEF Extended, Changed
<1>7. \A n, a : ChangedBelow(n, a) => ChangedBelow(n, a)'
  BY <1>1, <1>5 DEF ChangedBelow
<1>8. \A n \in 1 .. Len(diffs) : \A k, p : ValueIn(n, k, p)' = ValueIn(n, k, p)
  BY DEF Extended, ValueIn
<1> QED BY <1>2, <1>3, <1>4, <1>5, <1>6, <1>7, <1>8

LEMMA FromIs ==
    ASSUME WatchersOK, NamesOK, NEW x, JobOK(x)
    PROVE  /\ From(x) \in Nat /\ Until(x) \in Nat /\ Until(x) <= Len(watchers)
           /\ x.left = <<>> => From(x) = 0 /\ Until(x) = Len(watchers)
           /\ x.left # <<>> => /\ From(x) \in Places /\ From(x) <= Until(x)
                               /\ Until(x) = From(x) + Len(x.left) - 1
<1>1. Len(watchers) \in Nat
  BY WatchersAre
<1>2. CASE x.left = <<>>
  BY <1>1, <1>2 DEF From, Until
<1>3. CASE x.left # <<>>
  <2>1. From(x) \in Places /\ RunsFrom(x.left, From(x) - 1) /\ x.left \in Seq(Watched)
    BY <1>3 DEF JobOK
  <2>2. Len(x.left) \in Nat \ {0}
    BY <1>3, <2>1, EmptySeq, LenProperties
  <2>3. (From(x) - 1) + Len(x.left) \in Places
    BY <2>1, <2>2 DEF RunsFrom
  <2>4. Until(x) = From(x) + Len(x.left) - 1
    BY <1>3 DEF Until
  <2> HIDE DEF From, Until
  <2> QED BY <1>1, <1>3, <2>1, <2>2, <2>3, <2>4 DEF Places
<1> QED BY <1>2, <1>3

LEMMA JobStays ==
    ASSUME InvWatch, Extended, Len(diffs') \in Nat, NEW x, JobOK(x)
    PROVE  JobOK(x)'
<1>1. Len(diffs) \in Nat /\ Len(diffs) <= Len(diffs')
  <2>1. Len(diffs) \in Nat
    BY DiffsLength DEF InvWatch
  <2> QED BY <2>1 DEF Extended
<1>2. x.operation \in 0 .. Len(diffs')
  BY <1>1 DEF JobOK
<1>3. ASSUME x.left # <<>>
      PROVE  /\ From(x)' \in Places' /\ RunsFrom(x.left, From(x) - 1)'
             /\ Observed(From(x))' /\ ChangedBelow(x.operation, From(x))'
  <2>1. /\ From(x) \in Places /\ RunsFrom(x.left, From(x) - 1)
        /\ Observed(From(x)) /\ ChangedBelow(x.operation, From(x))
    BY <1>3 DEF JobOK
  <2>2. PICK a : a = From(x)
    OBVIOUS
  <2>3. a \in Places' /\ RunsFrom(x.left, a - 1)' /\ Observed(a)' /\ ChangedBelow(x.operation, a)'
    BY <2>1, <2>2, SameWay DEF Extended, RunsFrom
  <2>4. From(x)' = a
    BY <2>2, SameWay
  <2> QED BY <2>3, <2>4
<1> QED BY <1>2, <1>3 DEF JobOK

\* A job that stays has the same way to go.
LEMMA WayStays ==
    ASSUME Extended, NEW i, NEW j, JobAt(j)' = JobAt(i)
    PROVE  /\ From(JobAt(j))' = From(JobAt(i)) /\ Until(JobAt(j))' = Until(JobAt(i))
           /\ (JobAt(j).operation)' = JobAt(i).operation
           /\ \A a : ChangedBelow(JobAt(i).operation, a) => ChangedBelow(JobAt(j).operation, a)'
<1>1. /\ From(JobAt(j))' = From(JobAt(i)) /\ Until(JobAt(j))' = Until(JobAt(i))
      /\ (JobAt(j).operation)' = JobAt(i).operation
  BY DEF From, Until, Places, Extended
<1>2. PICK n : n = JobAt(i).operation
  OBVIOUS
<1>3. \A a : ChangedBelow(n, a) => ChangedBelow(n, a)'
  BY SameWay
<1>4. \A a : ChangedBelow(n, a)' => ChangedBelow(JobAt(j).operation, a)'
  BY <1>1, <1>2 DEF ChangedBelow
<1> QED BY <1>1, <1>2, <1>3, <1>4

\* The announcements under way stay, as they are and in their order, where at most
\* operations come and go.
StaysInLine(f) ==
    /\ Carries(f, Job(0, <<>>))
    /\ \A i \in Jobs : JobAt(i).operation # 0 => i \in DOMAIN f
    /\ \A i \in DOMAIN f : f[i] > Len(answered') => i > Len(answered)

LEMMA JobsStay ==
    ASSUME InvWatch, JobsOK, Extended, Len(diffs') \in Nat, NEW f, StaysInLine(f)
    PROVE  JobsOK'
<1>1. /\ \A i \in DOMAIN f : i \in Jobs /\ f[i] \in Jobs' /\ JobAt(f[i])' = JobAt(i)
      /\ \A j \in Jobs' : (\E i \in DOMAIN f : f[i] = j) \/ JobAt(j)' = Job(0, <<>>)
      /\ \A i \in DOMAIN f : f[i] > Len(answered') => i > Len(answered)
  BY DEF StaysInLine, Carries
<1>2. ASSUME NEW j \in Jobs'
      PROVE  /\ JobOK(JobAt(j))'
             /\ (JobAt(j).left = <<>> /\ j > Len(answered))' => (JobAt(j).operation)' = 0
  <2>1. CASE JobAt(j)' = Job(0, <<>>)
    <3>1. (JobAt(j).operation)' = 0 /\ (JobAt(j).left)' = <<>>
      BY <2>1 DEF Job
    <3>2. 0 \in 0 .. Len(diffs') /\ <<>> \in Seq(Watched)
      BY EmptySeq
    <3> QED BY <3>1, <3>2 DEF JobOK
  <2>2. CASE \E i \in DOMAIN f : f[i] = j
    <3>1. PICK i \in DOMAIN f : f[i] = j
      BY <2>2
    <3>2. i \in Jobs /\ JobAt(j)' = JobAt(i) /\ (j > Len(answered') => i > Len(answered))
      BY <1>1, <3>1
    <3>3. PICK x : x = JobAt(i)
      OBVIOUS
    <3>4. JobOK(x)'
      BY <3>2, <3>3, JobStays DEF JobsOK
    <3>5. JobOK(JobAt(j))'
      BY <3>2, <3>3, <3>4 DEF JobOK
    <3> QED BY <3>2, <3>5 DEF JobsOK
  <2> QED BY <1>1, <2>1, <2>2
<1> QED BY <1>2 DEF JobsOK

LEMMA ToComeStays ==
    ASSUME Extended, NEW f, StaysInLine(f), NEW n, n # 0, NEW a, IsToCome(n, a)
    PROVE  IsToCome(n, a)'
<1>1. PICK i \in Jobs : JobAt(i).operation = n /\ From(JobAt(i)) < a /\ a <= Until(JobAt(i))
  BY DEF IsToCome
<1>2. PICK j : j = f[i]
  OBVIOUS
<1>3. j \in Jobs' /\ JobAt(j)' = JobAt(i)
  BY <1>1, <1>2 DEF StaysInLine, Carries
<1>4. (JobAt(j).operation)' = n /\ (From(JobAt(j)) < a)' /\ (a <= Until(JobAt(j)))'
  BY <1>1, <1>3, WayStays
<1> QED BY <1>3, <1>4 DEF IsToCome

LEMMA LaterTrailsStays ==
    ASSUME LaterTrails, Extended, diffs' = diffs, NEW f, StaysInLine(f)
    PROVE  LaterTrails'
<1>1. /\ \A i \in DOMAIN f : i \in Jobs /\ f[i] \in Jobs' /\ JobAt(f[i])' = JobAt(i)
      /\ \A j \in Jobs' : (\E i \in DOMAIN f : f[i] = j) \/ JobAt(j)' = Job(0, <<>>)
      /\ \A i, j \in DOMAIN f : i < j => f[i] < f[j]
      /\ \A i \in Jobs : JobAt(i).operation # 0 => i \in DOMAIN f
  BY DEF StaysInLine, Carries
<1>2. ASSUME NEW k \in Key, NEW n, NEW m, n < m, Changed(n, k)', Changed(m, k)',
             NEW p \in Jobs', (JobAt(p).operation)' = n
      PROVE  IsTrailed(p, m)'
  <2>1. Changed(n, k) /\ Changed(m, k) /\ n # 0 /\ m # 0
    BY <1>2 DEF Changed
  <2>2. JobAt(p)' # Job(0, <<>>)
    BY <1>2, <2>1 DEF Job
  <2>3. PICK i \in DOMAIN f : f[i] = p
    BY <1>1, <2>2
  <2>4. i \in Jobs /\ JobAt(p)' = JobAt(i)
    BY <1>1, <2>3
  <2>5. JobAt(i).operation = n /\ From(JobAt(p))' = From(JobAt(i)) /\ Until(JobAt(p))' = Until(JobAt(i))
    BY <1>2, <2>4, WayStays
  <2>6. PICK j \in Jobs : JobAt(j).operation = m /\ Trails(j, i)
    BY <1>2, <2>1, <2>4, <2>5 DEF LaterTrails, IsTrailed
  <2>7. PICK q : q = f[j]
    OBVIOUS
  <2>8. j \in DOMAIN f /\ q \in Jobs' /\ JobAt(q)' = JobAt(j) /\ (i < j => p < q)
    BY <1>1, <2>1, <2>3, <2>6, <2>7
  <2>9. (JobAt(q).operation)' = m /\ From(JobAt(q))' = From(JobAt(j)) /\ Until(JobAt(q))' = Until(JobAt(j))
    BY <2>6, <2>8, WayStays
  <2>10. Trails(q, p)'
    BY <2>5, <2>6, <2>8, <2>9 DEF Trails
  <2> QED BY <2>8, <2>9, <2>10 DEF IsTrailed
<1> QED BY <1>2 DEF LaterTrails

\* What was told stays told.
LEMMA LeavesToldStays ==
    ASSUME LeavesTold, Extended, Told' = Told, AreEvents(Told),
           \A n \in 1 .. Len(diffs) : \A a : IsToCome(n, a) => IsToCome(n, a)',
           \A n \in 1 .. Len(diffs'), a \in Places : n \notin 1 .. Len(diffs) => IsToCome(n, a)'
    PROVE  LeavesTold'
<1>1. ASSUME NEW a \in Places', NEW s \in SubscribersAt(a)', NEW k \in Key,
             s.isObserver, IsPrefix(k, watchers'[a].path), NEW j, LastTo(j, s.id)'
      PROVE  LastInLeaf(Told[j], a, k)'
  <2>1. a \in Places /\ s \in SubscribersAt(a) /\ watchers'[a].path = watchers[a].path
    BY SameWay DEF Extended
  <2>2. LastTo(j, s.id)
    BY <1>1 DEF LastTo
  <2>3. LastInLeaf(Told[j], a, k)
    BY <1>1, <2>1, <2>2 DEF LeavesTold
  <2>4. PICK e : e = Told[j]
    OBVIOUS
  <2>5. e.operation \in 1 .. Len(diffs)
    BY <2>2, <2>4 DEF LastTo, AreEvents
  <2>6. Changed(e.operation, k) /\ e.value = ValueIn(e.operation, k, watchers[a].path)
    BY <2>3, <2>4 DEF LastInLeaf
  <2>7. PICK n, q : n = e.operation /\ q = watchers[a].path
    OBVIOUS
  <2>8. Changed(n, k)' /\ ValueIn(n, k, q)' = ValueIn(n, k, q)
    BY <2>5, <2>6, <2>7, SameWay
  <2>9. ASSUME NEW m, n < m, Changed(m, k)' PROVE IsToCome(m, a)'
    <3>1. m \in 1 .. Len(diffs')
      BY <2>9 DEF Changed
    <3>2. CASE m \in 1 .. Len(diffs)
      <4>1. Changed(m, k)
        BY <2>9, <3>2, SameWay
      <4>2. IsToCome(m, a)
        BY <2>3, <2>4, <2>7, <2>9, <4>1 DEF LastInLeaf
      <4> QED BY <3>2, <4>2
    <3>3. CASE m \notin 1 .. Len(diffs)
      BY <2>1, <3>1, <3>3
    <3> QED BY <3>2, <3>3
  <2>10. e.value = ValueIn(n, k, watchers[a].path)'
    BY <2>1, <2>6, <2>7, <2>8 DEF ValueIn
  <2>11. LastInLeaf(e, a, k)'
    BY <2>7, <2>8, <2>9, <2>10 DEF LastInLeaf
  <2>12. (Told[j])' = e
    BY <2>4
  <2> QED BY <2>11, <2>12 DEF LastInLeaf
<1> QED BY <1>1 DEF LeavesTold

\* A branch of which no reader sees more or less, and of which the same is known.
LEMMA BranchStays ==
    ASSUME Extended, Told' = Told, NEW a \in Places,
           \A i : Brings(i, a)' <=> Brings(i, a),
           \A i \in 1 .. Len(answered) : i \in 1 .. Len(answered') => answered'[i] = answered[i],
           IsBranch(watchers[a].path) /\ ~IsToRead(a)' =>
                ~IsToRead(a) /\ Entity(watchers[a].path)' = Entity(watchers[a].path)
    PROVE  (BranchRead(a) => BranchRead(a)') /\ (BranchTold(a) => BranchTold(a)')
<1>1. watchers' = watchers /\ SubscribersAt(a)' = SubscribersAt(a)
  BY SameWay DEF Extended
<1>2. PICK p : p = watchers[a].path
  OBVIOUS
<1>3. (watchers[a].path)' = p /\ (IsBranch(watchers[a].path)' <=> IsBranch(p))
      /\ Entity(watchers[a].path)' = Entity(p)'
  BY <1>1, <1>2 DEF IsBranch, Entity, Below
<1>4. \A j, id : LastTo(j, id)' <=> LastTo(j, id)
  BY DEF LastTo
<1>5. ASSUME BranchRead(a) PROVE BranchRead(a)'
  <2> SUFFICES ASSUME IsBranch(p), ~IsToRead(a)', NEW i, Brings(i, a)',
                      \A j : Brings(j, a)' => j <= i
               PROVE  (answered[i].value)' = Entity(p)'
    BY <1>3 DEF BranchRead
  <2>1. Brings(i, a) /\ answered'[i] = answered[i]
    BY DEF Brings
  <2>2. answered[i].value = Entity(p)
    BY <1>2, <1>5, <2>1 DEF BranchRead
  <2> QED BY <1>2, <2>1, <2>2, <1>3
<1>6. ASSUME BranchTold(a) PROVE BranchTold(a)'
  <2> SUFFICES ASSUME IsBranch(p), ~IsToRead(a)', \A i : ~Brings(i, a)',
                      NEW s \in SubscribersAt(a), s.isObserver, NEW j, LastTo(j, s.id)'
               PROVE  (Told[j].value)' = Entity(p)'
    BY <1>1, <1>3 DEF BranchTold
  <2>1. LastTo(j, s.id) /\ \A i : ~Brings(i, a)
    BY <1>4
  <2>2. Told[j].value = Entity(p)
    BY <1>2, <1>6, <2>1 DEF BranchTold
  <2> QED BY <1>2, <2>2, <1>3
<1> QED BY <1>5, <1>6

-----------------------------------------------------------------------------

LEMMA CalmBefore ==
    ASSUME InvWatch, Extended, made' = made, rejected \subseteq rejected', Undisturbed'
    PROVE  Undisturbed
<1>1. ObserversStay
  BY DEF Undisturbed, ObserversStay, Subscriptions, Extended
<1>2. rejected = {}
  BY DEF Undisturbed
<1>3. Singles
  BY DEF Undisturbed, Singles, Extended
<1> QED BY <1>1, <1>2, <1>3 DEF Undisturbed

LEMMA SameStore ==
    ASSUME UNCHANGED storeVars
    PROVE  (\A p : Entity(p)' = Entity(p)) /\ \A k : View(k)' = View(k)
  BY DEF storeVars, Entity, Below, View

\* Nothing is read or told, and no announcement moves.
LEMMA IdleSettles ==
    ASSUME InvWatch, JobsOK, LaterTrails, LatestIsSeen, LeavesTold, Extended,
           UNCHANGED <<storeVars, diffs>>, Told' = Told, AreEvents(Told), NEW f, StaysInLine(f)
    PROVE  JobsOK' /\ LaterTrails' /\ LatestIsSeen' /\ LeavesTold'
<1>1. Len(diffs') \in Nat /\ Len(diffs') = Len(diffs)
  BY DiffsLength DEF InvWatch
<1>2. JobsOK' /\ LaterTrails'
  BY <1>1, JobsStay, LaterTrailsStays
<1>3. LatestIsSeen'
  <2>1. \A k : View(k)' = View(k)
    BY SameStore
  <2> QED BY <2>1 DEF LatestIsSeen, Changed
<1>4. LeavesTold'
  <2>1. \A n \in 1 .. Len(diffs) : \A a : IsToCome(n, a) => IsToCome(n, a)'
    <3> SUFFICES ASSUME NEW n \in 1 .. Len(diffs), NEW a, IsToCome(n, a) PROVE IsToCome(n, a)'
      OBVIOUS
    <3>1. n # 0
      OBVIOUS
    <3> QED BY <3>1, ToComeStays
  <2> QED BY <1>1, <2>1, LeavesToldStays
<1> QED BY <1>2, <1>3, <1>4

LEMMA IdleBranches ==
    ASSUME InvWatch, BranchesTold, Extended, Told' = Told,
           UNCHANGED <<storeVars, answered>>, NEW f, StaysInLine(f),
           \A i \in DOMAIN f : i > Len(answered) => f[i] > Len(answered')
    PROVE  BranchesTold'
<1>1. ASSUME NEW a, IsToRead(a) PROVE IsToRead(a)'
  <2>1. PICK i \in Jobs : /\ ChangedBelow(JobAt(i).operation, a)
                          /\ From(JobAt(i)) < a \/ (From(JobAt(i)) = a /\ i > Len(answered))
                          /\ a <= Until(JobAt(i))
    BY <1>1 DEF IsToRead
  <2>2. JobAt(i).operation # 0
    BY <2>1 DEF ChangedBelow, Changed
  <2>3. PICK j : j = f[i]
    OBVIOUS
  <2>4. i \in DOMAIN f /\ j \in Jobs' /\ JobAt(j)' = JobAt(i) /\ (i > Len(answered) => j > Len(answered'))
    BY <2>1, <2>2, <2>3 DEF StaysInLine, Carries
  <2>5. /\ ChangedBelow(JobAt(j).operation, a)'
        /\ From(JobAt(j))' = From(JobAt(i)) /\ Until(JobAt(j))' = Until(JobAt(i))
    BY <2>1, <2>4, WayStays
  <2> QED BY <2>1, <2>4, <2>5 DEF IsToRead
<1>2. \A i, a : Brings(i, a)' <=> Brings(i, a)
  <2> SUFFICES ASSUME NEW i, NEW a PROVE Brings(i, a)' <=> Brings(i, a)
    OBVIOUS
  <2>1. CASE i \in 1 .. Len(answered)
    <3>1. JobAt(i)' = JobAt(i)
      BY <2>1, CountIs DEF JobAt
    <3>2. From(JobAt(i))' = From(JobAt(i))
      BY <3>1, WayStays
    <3> QED BY <3>2 DEF Brings
  <2>2. CASE i \notin 1 .. Len(answered)
    BY <2>2 DEF Brings
  <2> QED BY <2>1, <2>2
<1>3. ASSUME NEW a \in Places PROVE BranchRead(a)' /\ BranchTold(a)'
  <2>1. PICK p : p = watchers[a].path
    OBVIOUS
  <2>2. Entity(p)' = Entity(p) /\ Entity(watchers[a].path)' = Entity(p)'
    BY <2>1, SameStore DEF Extended, Entity, Below
  <2> QED BY <1>1, <1>2, <2>1, <2>2, BranchStays DEF BranchesTold
<1>4. Places' = Places
  BY SameWay
<1> QED BY <1>3, <1>4 DEF BranchesTold

LEMMA ToldAre == ASSUME InvWatch PROVE AreEvents(Told)
<1>1. PICK all : all = calls \o tasks
  OBVIOUS
<1>2. AreEvents(all)
  BY <1>1, JoinedEvents DEF InvWatch
<1> QED BY <1>1, <1>2 DEF Told, AreEvents

LEMMA SendSettles == ASSUME InvWatch, Settling, Send PROVE Settling'
<1>1. UNCHANGED <<storeVars, diffs, answered, watchers, calls, tasks>>
  BY DEF Send
<1>2. Extended /\ Told' = Told
  BY <1>1 DEF Extended, Told
<1>3. PICK f : Carries(f, Job(0, <<>>)) /\ KeepsSide(f) /\ DOMAIN f = Jobs
  BY SendCarries
<1>4. /\ \A i \in DOMAIN f : i <= Len(answered) <=> f[i] <= Len(answered')
      /\ \A i \in DOMAIN f : i \in Jobs /\ f[i] \in Jobs'
  BY <1>3 DEF KeepsSide, Carries
<1>5. /\ Len(answered) \in Nat /\ Len(answered') \in Nat
      /\ \A i \in DOMAIN f : i \in Int /\ f[i] \in Int
  BY <1>1, <1>4, CountIs DEF Jobs
<1>6. \A i \in DOMAIN f : i > Len(answered) <=> f[i] > Len(answered')
  BY <1>4, <1>5
<1>7. StaysInLine(f)
  BY <1>3, <1>6 DEF StaysInLine
<1> QED BY <1>1, <1>2, <1>6, <1>7, IdleSettles, IdleBranches, ToldAre DEF Settling

LEMMA RefusedSettles ==
    ASSUME InvWatch, Settling, queue # <<>>, queue[1] \in Requests, queue' = Tail(queue),
           UNCHANGED <<storeVars, diffs, answered, watchers, calls, tasks>>
    PROVE  Settling'
<1>1. Extended /\ Told' = Told
  BY DEF Extended, Told
<1>2. PICK f : Carries(f, Job(0, <<>>)) /\ KeepsSide(f) /\ DOMAIN f = Jobs \ {Turn}
  BY RefusedCarries
<1>3. /\ \A i \in DOMAIN f : i <= Len(answered) <=> f[i] <= Len(answered')
      /\ \A i \in DOMAIN f : i \in Jobs /\ f[i] \in Jobs'
  BY <1>2 DEF KeepsSide, Carries
<1>4. /\ Len(answered) \in Nat /\ Len(answered') \in Nat
      /\ \A i \in DOMAIN f : i \in Int /\ f[i] \in Int
  BY <1>3, CountIs DEF Jobs
<1>5. \A i \in DOMAIN f : i > Len(answered) <=> f[i] > Len(answered')
  BY <1>3, <1>4
<1>6. JobAt(Turn).operation = 0
  BY TurnIs DEF Job
<1>7. StaysInLine(f)
  BY <1>2, <1>5, <1>6 DEF StaysInLine
<1> QED BY <1>1, <1>5, <1>7, IdleSettles, IdleBranches, ToldAre DEF Settling

LEMMA Untouched ==
    ASSUME InvWatch, Settling, UNCHANGED <<storeVars, diffs, answered, queue, watchers>>, Told' = Told
    PROVE  Settling'
<1>1. Extended
  BY DEF Extended
<1>2. PICK f : f = [i \in Jobs |-> i]
  OBVIOUS
<1>3. Jobs' = Jobs /\ \A i \in Jobs : JobAt(i)' = JobAt(i)
  BY UntouchedCarries
<1>4. StaysInLine(f) /\ \A i \in DOMAIN f : i > Len(answered) => f[i] > Len(answered')
  BY <1>2, <1>3 DEF StaysInLine, Carries
<1> QED BY <1>1, <1>4, IdleSettles, IdleBranches, ToldAre DEF Settling

LEMMA CallHandlersTold == ASSUME InvWatch, CallHandlers PROVE Told' = Told
<1>1. tasks' = <<>> /\ calls' = calls \o tasks
  BY DEF CallHandlers
<1>2. PICK S : Told \in Seq(S)
  BY ToldAre DEF AreEvents, IsSequence
<1>3. Told \o <<>> = Told
  BY <1>2, ConcatEmptySeq
<1> QED BY <1>1, <1>3 DEF Told

LEMMA ReadSettles == ASSUME InvWatch, NamesOK, Settling, Read PROVE Settling'
<1>1. queue # <<>> /\ Now = queue[1] /\ IsRead(queue[1]) /\ queue' = Tail(queue)
  BY NowIs DEF InvWatch, Read, IsRead
<1>2. UNCHANGED <<storeVars, diffs, watchers, calls, tasks>>
  BY DEF Read
<1>3. Extended /\ Told' = Told
  BY <1>2 DEF Extended, Told
<1>4. PICK answer : /\ answered' = Append(answered, answer)
                    /\ answer.operation = queue[1].operation /\ answer.read = queue[1].targets
                    /\ answer.value = Entity(queue[1].targets[1])
  <2>1. PICK answer : answer = [operation |-> Now.operation, read |-> Now.targets,
             value |-> Entity(Now.targets[1]), throws |-> BranchReadThrows(Below(Now.targets[1]))]
    OBVIOUS
  <2>2. answered' = Append(answered, answer)
    BY <2>1 DEF Read
  <2>3. /\ answer.operation = Now.operation /\ answer.read = Now.targets
        /\ answer.value = Entity(Now.targets[1])
    BY <2>1
  <2> QED BY <1>1, <2>2, <2>3
<1>5. PICK c : c = Turn
  OBVIOUS
<1>6. /\ Jobs' = Jobs /\ Len(answered') = c
      /\ JobAt(c)' = Job(answer.operation, answer.read)
      /\ \A i \in Jobs \ {c} : JobAt(i)' = JobAt(i) /\ (i <= Len(answered) <=> i <= Len(answered'))
  <2>1. Answered(answer, c)
    BY <1>1, <1>4, <1>5 DEF Answered
  <2> QED BY <2>1, AnsweredCarries
<1>7. c \in Jobs /\ JobAt(c) = Job(answer.operation, answer.read)
  BY <1>1, <1>4, <1>5, TurnIs DEF JobInQueue
<1>8. /\ Len(answered) \in Nat /\ c = Len(answered) + 1
      /\ \A i \in Jobs : i \in Int /\ JobAt(i)' = JobAt(i)
  BY <1>5, <1>6, <1>7, CountIs DEF Jobs, Turn
<1>9. PICK f : f = [i \in Jobs |-> i]
  OBVIOUS
<1>10. StaysInLine(f)
  BY <1>6, <1>8, <1>9 DEF StaysInLine, Carries
<1>11. JobsOK' /\ LaterTrails' /\ LatestIsSeen' /\ LeavesTold'
  BY <1>2, <1>3, <1>10, IdleSettles, ToldAre DEF Settling
<1>12. /\ IsSequence(answered') /\ \A i \in 1 .. Len(answered) : answered'[i] = answered[i]
       /\ answered'[c] = answer
  BY <1>4, <1>8, Appended DEF InvWatch, AnsweredOK
<1>13. answer.read # <<>> /\ JobOK(JobAt(c))
  <2>1. answer.operation \in 1 .. Len(diffs)
    <3>1. 1 \in 1 .. Len(queue)
      BY <1>1, NowIs DEF InvWatch, Read
    <3> QED BY <1>1, <1>4, <3>1, RequestsAreNoReads DEF InvWatch, QueueOK
  <2>2. JobAt(c).operation # 0 /\ c > Len(answered) /\ JobAt(c).left = answer.read
    BY <1>7, <1>8, <2>1 DEF Job
  <2> QED BY <1>7, <2>2 DEF Settling, JobsOK
<1>14. PICK b : b = From(JobAt(c))
  OBVIOUS
<1>15. b \in Places /\ answer.read[1] = watchers[b].path
  <2>1. JobAt(c).left = answer.read
    BY <1>7 DEF Job
  <2>2. b \in Places /\ RunsFrom(answer.read, b - 1) /\ answer.read \in Seq(Watched)
    BY <1>13, <1>14, <2>1 DEF JobOK
  <2>3. 1 \in 1 .. Len(answer.read) /\ (b - 1) + 1 = b
    <3>1. Len(answer.read) \in Nat \ {0}
      BY <1>13, <2>2, EmptySeq, LenProperties
    <3> QED BY <2>2, <3>1 DEF Places
  <2> QED BY <2>2, <2>3 DEF RunsFrom
<1>16. \A i \in Jobs : From(JobAt(i))' = From(JobAt(i)) /\ Until(JobAt(i))' = Until(JobAt(i))
  BY <1>3, <1>8, WayStays
<1>17. ASSUME NEW a \in Places PROVE BranchRead(a)' /\ BranchTold(a)'
  <2>1. PICK p : p = watchers[a].path
    OBVIOUS
  <2>2. Entity(p)' = Entity(p) /\ Entity(watchers[a].path)' = Entity(p)'
    BY <1>2, <2>1, SameStore DEF Entity, Below
  <2>3. CASE a = b
    <3>1. Brings(c, a)'
      BY <1>6, <1>7, <1>8, <1>12, <1>13, <1>14, <1>16, <2>3 DEF Brings
    <3>2. BranchTold(a)'
      BY <3>1 DEF BranchTold
    <3>3. ASSUME NEW i, Brings(i, a)', \A j : Brings(j, a)' => j <= i PROVE i = c
      <4>1. i \in 1 .. Len(answered') /\ c <= i
        BY <3>1, <3>3 DEF Brings
      <4> QED BY <1>6, <1>8, <4>1
    <3>4. answer.value = Entity(p)
      BY <1>4, <1>15, <2>1, <2>3
    <3>5. BranchRead(a)'
      <4> SUFFICES ASSUME NEW i, Brings(i, a)', \A j : Brings(j, a)' => j <= i
                   PROVE  (answered[i].value)' = Entity(watchers[a].path)'
        BY DEF BranchRead
      <4> QED BY <1>12, <2>2, <3>3, <3>4
    <3> QED BY <3>2, <3>5
  <2>4. CASE a # b
    <3>1. \A i : Brings(i, a)' <=> Brings(i, a)
      <4> SUFFICES ASSUME NEW i PROVE Brings(i, a)' <=> Brings(i, a)
        OBVIOUS
      <4>1. CASE i \in 1 .. Len(answered)
        <5>1. i \in Jobs /\ i \in 1 .. Len(answered')
          BY <1>6, <1>8, <4>1, CountIs DEF Jobs, Count
        <5> QED BY <1>12, <1>16, <4>1, <5>1 DEF Brings
      <4>2. CASE i \notin 1 .. Len(answered)
        <5>1. i \in 1 .. Len(answered') => i = c
          BY <1>6, <1>8, <4>2
        <5>2. ~(From(JobAt(c))' = a)
          BY <1>7, <1>14, <1>16, <2>4
        <5> QED BY <4>2, <5>1, <5>2 DEF Brings
      <4> QED BY <4>1, <4>2
    <3>2. ASSUME IsToRead(a) PROVE IsToRead(a)'
      <4>1. PICK i \in Jobs : /\ ChangedBelow(JobAt(i).operation, a)
                              /\ From(JobAt(i)) < a \/ (From(JobAt(i)) = a /\ i > Len(answered))
                              /\ a <= Until(JobAt(i))
        BY <3>2 DEF IsToRead
      <4>2. From(JobAt(i)) = a /\ i > Len(answered) => i > Len(answered')
        <5>1. From(JobAt(i)) = a => i # c
          BY <1>14, <2>4
        <5> QED BY <1>6, <1>8, <5>1
      <4>3. ChangedBelow(JobAt(i).operation, a)'
        BY <1>3, <1>8, <4>1, WayStays
      <4> QED BY <1>6, <1>16, <4>1, <4>2, <4>3 DEF IsToRead
    <3> QED BY <1>3, <1>12, <2>1, <2>2, <3>1, <3>2, BranchStays DEF Settling, BranchesTold
  <2> QED BY <2>3, <2>4
<1>18. Places' = Places
  BY <1>3, SameWay
<1>19. BranchesTold'
  BY <1>17, <1>18 DEF BranchesTold
<1> QED BY <1>11, <1>19 DEF Settling

-----------------------------------------------------------------------------

LEMMA EntityOfBranchThen ==
    ASSUME NEW p \in Watched, IsBranch(p)
    PROVE  (TypeOKStore /\ LookupCoversStores /\ isOpen)' =>
               (Entity(p) = IF Present(p) = {} THEN Undefined ELSE [k \in Present(p) |-> View(k)])'
<1>1. TypeOKStore /\ LookupCoversStores /\ isOpen =>
          (Entity(p) = IF Present(p) = {} THEN Undefined ELSE [k \in Present(p) |-> View(k)])
  BY EntityOfBranch
<1> QED BY <1>1, PTL

\* A branch is as its keys are seen.
LEMMA BranchSeen ==
    ASSUME InvStore, isOpen, InvStore', isOpen', NEW p \in Watched, IsBranch(p),
           \A k \in Key : IsStrictPrefix(p, k) => View(k)' = View(k)
    PROVE  Entity(p)' = Entity(p)
<1>1. Present(p)' = Present(p) /\ \A k \in Present(p) : View(k)' = View(k)
  BY DEF Present
<1>2. Entity(p) = IF Present(p) = {} THEN Undefined ELSE [k \in Present(p) |-> View(k)]
  BY EntityOfBranch DEF InvStore
<1>3. Entity(p)' = IF Present(p)' = {} THEN Undefined ELSE [k \in Present(p)' |-> View(k)']
  BY EntityOfBranchThen DEF InvStore
<1>4. [k \in Present(p)' |-> View(k)'] = [k \in Present(p) |-> View(k)]
  BY <1>1
<1> QED BY <1>1, <1>2, <1>3, <1>4

LEMMA AnswersSettle ==
    ASSUME InvAll, InvAll', isOpen, isOpen', NamesOK, Settling,
           NEW order \in Seq(Change), Answers(order), Follows(order), Singles',
           queue # <<>>, queue[1] \in Requests
    PROVE  Settling'
<1>1. PICK c, n : c = Turn /\ n = Len(diffs) + 1
  OBVIOUS
<1>2. PICK answer : answer = [operation |-> n, read |-> <<>>]
  OBVIOUS
<1>3. /\ diffs' = Append(diffs, order) /\ Answered(answer, c)
      /\ UNCHANGED <<watchers, tasks, calls>>
  BY <1>1, <1>2 DEF Answers, Answered
<1>4. /\ Jobs' = Jobs /\ Len(answered') = c
      /\ JobAt(c)' = Job(answer.operation, answer.read)
      /\ \A i \in Jobs \ {c} : JobAt(i)' = JobAt(i) /\ (i <= Len(answered) <=> i <= Len(answered'))
  BY <1>3, AnsweredCarries DEF InvAll
<1>5. c \in Jobs /\ JobAt(c) = Job(0, <<>>) /\ JobAt(c)' = Job(n, <<>>)
  BY <1>1, <1>2, <1>4, TurnIs DEF InvAll
<1>6. /\ Len(answered) \in Nat /\ c = Len(answered) + 1 /\ \A i \in Jobs : i \in Int
      /\ Len(diffs) \in Nat /\ n \in Nat /\ Len(diffs') = n /\ diffs'[n] = order
      /\ \A i \in 1 .. Len(diffs) : diffs'[i] = diffs[i]
      /\ \A i \in 1 .. Len(diffs') : i \in 1 .. Len(diffs) \/ i = n
  <2>1. Len(diffs) \in Nat /\ Len(answered) \in Nat
    BY CountIs, DiffsLength DEF InvAll, InvWatch
  <2>2. IsSequence(diffs)
    BY DEF InvAll, InvWatch, DiffsOK, IsSequence
  <2>3. Len(diffs') = n /\ diffs'[n] = order /\ \A i \in 1 .. Len(diffs) : diffs'[i] = diffs[i]
    BY <1>1, <1>3, <2>2, Appended
  <2>4. \A i \in 1 .. n : i \in 1 .. Len(diffs) \/ i = n
    BY <1>1, <2>1
  <2> QED BY <1>1, <2>1, <2>3, <2>4 DEF Turn, Jobs
<1>7. Extended /\ Told' = Told
  <2>1. 1 .. Len(diffs) \subseteq 1 .. Len(diffs')
    BY <1>1, <1>6
  <2> QED BY <1>3, <1>6, <2>1 DEF Extended, Told
<1>8. /\ \A i \in Jobs : i # c => From(JobAt(i))' = From(JobAt(i)) /\ Until(JobAt(i))' = Until(JobAt(i))
      /\ From(JobAt(c))' = 0 /\ Until(JobAt(c))' = Len(watchers)
      /\ (JobAt(c).operation)' = n /\ JobAt(c).operation = 0
  <2>1. \A i \in Jobs : i # c => From(JobAt(i))' = From(JobAt(i)) /\ Until(JobAt(i))' = Until(JobAt(i))
    BY <1>4, <1>7, WayStays
  <2>2. From(JobAt(c))' = 0 /\ Until(JobAt(c))' = Len(watchers)
    BY <1>3, <1>5 DEF From, Until, Job
  <2> QED BY <1>5, <2>1, <2>2 DEF Job
<1>9. JobsOK'
  <2>1. ASSUME NEW j \in Jobs'
        PROVE  /\ JobOK(JobAt(j))'
               /\ (JobAt(j).left = <<>> /\ j > Len(answered))' => (JobAt(j).operation)' = 0
    <3>1. CASE j = c
      <4>1. (JobAt(j).operation)' = n /\ (JobAt(j).left)' = <<>> /\ ~(j > Len(answered'))
        BY <1>4, <1>5, <1>6, <3>1 DEF Job
      <4>2. n \in 0 .. Len(diffs') /\ <<>> \in Seq(Watched)
        BY <1>6, EmptySeq
      <4> QED BY <4>1, <4>2 DEF JobOK
    <3>2. CASE j # c
      <4>1. j \in Jobs /\ JobAt(j)' = JobAt(j) /\ (j > Len(answered') => j > Len(answered))
        BY <1>4, <1>6, <3>2
      <4>2. PICK x : x = JobAt(j)
        OBVIOUS
      <4>3. JobOK(x)'
        BY <1>6, <1>7, <4>1, <4>2, JobStays DEF InvAll, Settling, JobsOK
      <4>4. JobOK(JobAt(j))'
        BY <4>1, <4>2, <4>3 DEF JobOK
      <4> QED BY <4>1, <4>4 DEF Settling, JobsOK
    <3> QED BY <3>1, <3>2
  <2> QED BY <2>1 DEF JobsOK
<1>10. LaterTrails'
  <2>1. ASSUME NEW k \in Key, NEW l, NEW m, l < m, Changed(l, k)', Changed(m, k)',
               NEW p \in Jobs', (JobAt(p).operation)' = l
        PROVE  IsTrailed(p, m)'
    <3>1. l \in 1 .. Len(diffs) /\ l # 0 /\ l # n /\ (m \in 1 .. Len(diffs) \/ m = n) /\ m # 0
      BY <1>1, <1>6, <2>1 DEF Changed
    <3>2. p \in Jobs /\ p # c /\ JobAt(p)' = JobAt(p) /\ JobAt(p).operation = l
      BY <1>4, <1>8, <2>1, <3>1
    <3>3. CASE m = n
      <4>1. /\ From(JobAt(p)) \in Nat /\ Until(JobAt(p)) <= Len(watchers)
            /\ From(JobAt(p)) = 0 => JobAt(p).left = <<>>
        <5>1. PICK x : x = JobAt(p)
          OBVIOUS
        <5>2. JobOK(x)
          BY <3>2, <5>1 DEF Settling, JobsOK
        <5>3. From(x) \in Nat /\ Until(x) <= Len(watchers) /\ (x.left # <<>> => From(x) \in Places)
          BY <5>2, FromIs DEF InvAll, InvWatch
        <5>4. 0 \notin Places
          BY DEF Places
        <5> QED BY <5>1, <5>3, <5>4
      <4>2. From(JobAt(p)) = 0 => p < c
        <5>1. From(JobAt(p)) = 0 => ~(p > Len(answered))
          BY <3>1, <3>2, <4>1 DEF Settling, JobsOK
        <5> QED BY <1>6, <3>2, <5>1
      <4>3. Trails(c, p)'
        BY <1>8, <3>2, <4>1, <4>2 DEF Trails
      <4> QED BY <1>4, <1>5, <1>8, <3>3, <4>3 DEF IsTrailed
    <3>4. CASE m \in 1 .. Len(diffs)
      <4>1. Changed(l, k) /\ Changed(m, k)
        BY <1>7, <2>1, <3>1, <3>4, SameWay
      <4>2. IsTrailed(p, m)
        BY <2>1, <3>2, <4>1 DEF Settling, LaterTrails
      <4>3. PICK j \in Jobs : JobAt(j).operation = m /\ Trails(j, p)
        BY <4>2 DEF IsTrailed
      <4>4. j # c /\ JobAt(j)' = JobAt(j)
        BY <1>4, <1>8, <3>1, <4>3
      <4>5. Trails(j, p)' /\ (JobAt(j).operation)' = m
        BY <1>8, <3>2, <4>3, <4>4 DEF Trails
      <4> QED BY <1>4, <4>5 DEF IsTrailed
    <3> QED BY <3>1, <3>3, <3>4
  <2> QED BY <2>1 DEF LaterTrails
<1>11. \A m \in 1 .. Len(diffs) : \A a : IsToCome(m, a) => IsToCome(m, a)'
  <2> SUFFICES ASSUME NEW m \in 1 .. Len(diffs), NEW a, IsToCome(m, a) PROVE IsToCome(m, a)'
    OBVIOUS
  <2>1. PICK i \in Jobs : JobAt(i).operation = m /\ From(JobAt(i)) < a /\ a <= Until(JobAt(i))
    BY DEF IsToCome
  <2>2. i # c
    BY <1>8, <2>1
  <2> QED BY <1>4, <1>8, <2>1, <2>2 DEF IsToCome
<1>12. \A m \in 1 .. Len(diffs'), a \in Places : m \notin 1 .. Len(diffs) => IsToCome(m, a)'
  <2> SUFFICES ASSUME NEW a \in Places PROVE IsToCome(n, a)'
    BY <1>6
  <2>1. 0 < a /\ a <= Len(watchers)
    BY DEF Places
  <2> QED BY <1>4, <1>5, <1>8, <2>1 DEF IsToCome
<1>13. LeavesTold'
  BY <1>7, <1>11, <1>12, ToldAre, LeavesToldStays DEF InvAll, Settling
<1>14. \A k \in Key : View(k)' # View(k) => Changed(n, k)'
  <2> SUFFICES ASSUME NEW k \in Key, View(k)' # View(k) PROVE Changed(n, k)'
    OBVIOUS
  <2>1. PICK e \in ToSet(order) : e.key = k
    BY DEF Follows
  <2>2. PICK i \in 1 .. Len(order) : order[i] = e
    BY SetOfSequence
  <2>3. Len(order) <= 1
    <3>1. n \in 1 .. Len(diffs') /\ diffs'[n] = order
      BY <1>1, <1>6
    <3>2. Len(diffs'[n]) <= 1
      BY <3>1 DEF Singles
    <3> QED BY <3>1, <3>2
  <2>4. Len(order) \in Nat
    BY LenProperties
  <2>5. i = 1 /\ Len(order) # 0
    BY <2>3, <2>4
  <2>6. order # <<>> /\ order[1].key = k
    BY <2>1, <2>2, <2>5, NoneYet
  <2>7. n \in 1 .. Len(diffs') /\ diffs'[n] = order
    BY <1>1, <1>6
  <2> QED BY <2>6, <2>7 DEF Changed
<1>15. LatestIsSeen'
  <2>1. ASSUME NEW k \in Key, NEW m, Changed(m, k)', \A l : Changed(l, k)' => l <= m
        PROVE  View(k)' = (diffs[m][1].value)'
    <3>1. CASE m = n
      <4>1. order # <<>> /\ order[1].key = k
        BY <1>6, <2>1, <3>1 DEF Changed
      <4>2. order[1] \in ToSet(order)
        <5>1. Len(order) \in Nat \ {0}
          BY <4>1, EmptySeq, LenProperties
        <5>2. 1 \in 1 .. Len(order)
          BY <5>1
        <5> QED BY <5>2, SetOfSequence
      <4> QED BY <1>6, <3>1, <4>1, <4>2 DEF Follows
    <3>2. CASE m # n
      <4>1. m \in 1 .. Len(diffs)
        BY <1>6, <2>1, <3>2 DEF Changed
      <4>2. ~(n <= m)
        BY <1>1, <1>6, <4>1
      <4>3. View(k)' = View(k)
        BY <1>14, <2>1, <4>2
      <4>4. Changed(m, k) /\ \A l : Changed(l, k) => l <= m
        BY <1>7, <2>1, <4>1, SameWay
      <4> QED BY <1>6, <4>1, <4>3, <4>4 DEF Settling, LatestIsSeen
    <3> QED BY <3>1, <3>2
  <2> QED BY <2>1 DEF LatestIsSeen
<1>16. ASSUME NEW a \in Places PROVE BranchRead(a)' /\ BranchTold(a)'
  <2>1. PICK p : p = watchers[a].path
    OBVIOUS
  <2>2. p \in Watched /\ Entity(watchers[a].path)' = Entity(p)'
    BY <1>3, <2>1, WatchersAre DEF InvAll, InvWatch, Entity, Below
  <2>3. \A i \in 1 .. Len(answered) : i \in 1 .. Len(answered') /\ answered'[i] = answered[i]
    BY <1>3, <1>4, <1>6, Appended DEF InvAll, InvWatch, AnsweredOK, Answered
  <2>4. answered'[c] = answer
    BY <1>3, <1>6, Appended DEF InvAll, InvWatch, AnsweredOK, Answered
  <2>5. \A i : Brings(i, a)' <=> Brings(i, a)
    <3> SUFFICES ASSUME NEW i PROVE Brings(i, a)' <=> Brings(i, a)
      OBVIOUS
    <3>1. CASE i \in 1 .. Len(answered)
      <4>1. i \in Jobs /\ i # c
        BY <1>6, <3>1, CountIs DEF Jobs, Count, InvAll
      <4> QED BY <1>8, <2>3, <3>1, <4>1 DEF Brings
    <3>2. CASE i \notin 1 .. Len(answered)
      <4>1. i \in 1 .. Len(answered') => i = c
        BY <1>4, <1>6, <3>2
      <4> QED BY <1>2, <2>4, <3>2, <4>1 DEF Brings
    <3> QED BY <3>1, <3>2
  <2>6. ASSUME IsToRead(a) PROVE IsToRead(a)'
    <3>1. PICK i \in Jobs : /\ ChangedBelow(JobAt(i).operation, a)
                            /\ From(JobAt(i)) < a \/ (From(JobAt(i)) = a /\ i > Len(answered))
                            /\ a <= Until(JobAt(i))
      BY <2>6 DEF IsToRead
    <3>2. i # c
      BY <1>8, <3>1 DEF ChangedBelow, Changed
    <3>3. i > Len(answered) => i > Len(answered')
      BY <1>4, <1>6, <3>2
    <3>4. ChangedBelow(JobAt(i).operation, a)'
      BY <1>4, <1>7, <3>1, <3>2, WayStays
    <3> QED BY <1>4, <1>8, <3>1, <3>2, <3>3, <3>4 DEF IsToRead
  <2>7. ASSUME IsBranch(p), ~IsToRead(a)' PROVE Entity(p)' = Entity(p)
    <3>1. ASSUME NEW k \in Key, IsStrictPrefix(p, k) PROVE View(k)' = View(k)
      <4> SUFFICES ASSUME Changed(n, k)' PROVE FALSE
        BY <1>14
      <4>1. ChangedBelow(JobAt(c).operation, a)'
        BY <1>3, <1>8, <2>1, <3>1 DEF ChangedBelow
      <4>2. 0 < a /\ a <= Len(watchers)
        BY DEF Places
      <4>3. IsToRead(a)'
        BY <1>4, <1>5, <1>8, <4>1, <4>2 DEF IsToRead
      <4> QED BY <2>7, <4>3
    <3> QED BY <2>2, <2>7, <3>1, BranchSeen DEF InvAll
  <2> QED BY <1>7, <2>1, <2>2, <2>3, <2>5, <2>6, <2>7, BranchStays DEF Settling, BranchesTold
<1>17. BranchesTold'
  <2>1. Places' = Places
    BY <1>7, SameWay
  <2> QED BY <1>16, <2>1 DEF BranchesTold
<1> QED BY <1>9, <1>10, <1>13, <1>15, <1>17 DEF Settling

-----------------------------------------------------------------------------

(***************************************************************************)
(* An announcement tells, and goes on.                                     *)
(***************************************************************************)
LEMMA ToldGrows ==
    ASSUME InvWatch, NEW told, NEW fd, IsSequence(told), IsSequence(fd),
           calls' = calls, tasks' = (tasks \o told) \o fd
    PROVE  Told' = Told \o (told \o fd)
<1>1. PICK A, B, C, D : calls \in Seq(A) /\ tasks \in Seq(B) /\ told \in Seq(C) /\ fd \in Seq(D)
  BY DEF InvWatch, AreEvents, IsSequence
<1>2. PICK S : S = A \cup B \cup C \cup D
  OBVIOUS
<1>3. A \subseteq S /\ B \subseteq S /\ C \subseteq S /\ D \subseteq S
  BY <1>2
<1>4. calls \in Seq(S) /\ tasks \in Seq(S) /\ told \in Seq(S) /\ fd \in Seq(S)
  BY <1>1, <1>3, SeqMonotonic
<1>5. PICK c \in Seq(S), t \in Seq(S) : c = calls /\ t = tasks
  BY <1>4
<1>6. PICK new \in Seq(S) : new = told \o fd
  BY <1>4, ConcatProperties
<1>7. (t \o told) \o fd = t \o new
  BY <1>4, <1>6, ConcatAssociative
<1>8. (c \o t) \o new = c \o (t \o new)
  BY ConcatAssociative
<1> QED BY <1>5, <1>6, <1>7, <1>8 DEF Told

IsLast(j, id, s) ==
    /\ j \in 1 .. Len(s) /\ s[j].to.id = id
    /\ \A l \in 1 .. Len(s) : s[l].to.id = id => l <= j

IsJoined(all, s, t) == all = s \o t

LEMMA LastOfJoined ==
    ASSUME NEW s, NEW t, NEW all, IsSequence(s), IsSequence(t), IsJoined(all, s, t),
           NEW id, NEW j, IsLast(j, id, all)
    PROVE  \/ IsLast(j, id, s) /\ all[j] = s[j] /\ \A e \in ToSet(t) : e.to.id # id
           \/ all[j] \in ToSet(t)
<1>1. /\ Len(s) \in Nat /\ Len(t) \in Nat /\ DOMAIN t = 1 .. Len(t)
      /\ Len(all) = Len(s) + Len(t)
      /\ \A i \in 1 .. Len(all) :
            \/ i \in 1 .. Len(s) /\ all[i] = s[i]
            \/ i - Len(s) \in 1 .. Len(t) /\ all[i] = t[i - Len(s)]
  BY Joined, LengthOf DEF IsJoined
<1>2. ASSUME NEW i \in 1 .. Len(s) PROVE i \in 1 .. Len(all) /\ all[i] = s[i]
  <2>1. i \in 1 .. Len(all) /\ i - Len(s) \notin 1 .. Len(t)
    BY <1>1
  <2> QED BY <1>1, <2>1
<1>3. ASSUME NEW i \in 1 .. Len(t)
      PROVE  Len(s) + i \in 1 .. Len(all) /\ all[Len(s) + i] = t[i] /\ Len(s) + i > Len(s)
  <2>1. Len(s) + i \in 1 .. Len(all) /\ Len(s) + i \notin 1 .. Len(s) /\ (Len(s) + i) - Len(s) = i
    BY <1>1
  <2> QED BY <1>1, <2>1
<1>4. CASE j \in 1 .. Len(s)
  <2>1. IsLast(j, id, s) /\ all[j] = s[j]
    BY <1>2, <1>4 DEF IsLast
  <2>2. ASSUME NEW i \in 1 .. Len(t), t[i].to.id = id PROVE FALSE
    <3>1. Len(s) + i \in 1 .. Len(all) /\ all[Len(s) + i] = t[i] /\ Len(s) + i > Len(s)
      BY <1>3
    <3>2. Len(s) + i <= j
      BY <2>2, <3>1 DEF IsLast
    <3> QED BY <1>1, <1>4, <3>1, <3>2
  <2> QED BY <1>1, <2>1, <2>2 DEF ToSet
<1>5. CASE j \notin 1 .. Len(s)
  <2>1. j - Len(s) \in 1 .. Len(t) /\ all[j] = t[j - Len(s)]
    BY <1>1, <1>5 DEF IsLast
  <2> QED BY <1>1, <2>1 DEF ToSet
<1> QED BY <1>4, <1>5

\* What the announcement of operation n may tell at the place w, if it takes up the value
\* read at the place a and stops at the place d.
ToldThere(n, a, w, value) == IF w = a THEN value ELSE ToldFromDiff(n, w)

\* Who hears of it hears it last, and who does not has heard the same last.
Hears(n, a, d, value) ==
    \A j, id : LastTo(j, id)' =>
        \/ /\ LastTo(j, id) /\ (Told[j])' = Told[j]
           /\ \A w \in Places \cap (a .. (d - 1)) : \A s \in SubscribersAt(w) : Heard(n, w) => s.id # id
        \/ \E w \in Places \cap (a .. (d - 1)) : (Told[j])' \in Tells(n, w, ToldThere(n, a, w, value))

LEMMA HearsIs ==
    ASSUME InvWatch, calls' = calls, NEW n, NEW a \in Nat, NEW d \in Nat, a < d, NEW value,
           \A w \in (a + 1) .. (d - 1) : w \in Places,
           NEW told, NEW fd, tasks' = (tasks \o told) \o fd,
           fd \in Seq(Telling(n, a, d)),
           \A w \in (a + 1) .. (d - 1) : Heard(n, w) => SubscribersAt(w) \subseteq ToldBy(fd),
           \/ a \notin Places /\ told = <<>>
           \/ a \in Places /\ told \in Seq(Tells(n, a, value))
              /\ (Heard(n, a) => SubscribersAt(a) \subseteq ToldBy(told))
    PROVE  Hears(n, a, d, value)
<1> DEFINE S == UNION {Tells(n, w, ToldThere(n, a, w, value)) : w \in Places \cap (a .. (d - 1))}
<1>1. \A w \in (a + 1) .. (d - 1) : w \in Places \cap (a .. (d - 1)) /\ w # a
  OBVIOUS
<1>2. Telling(n, a, d) \subseteq S
  BY <1>1 DEF Telling, ToldThere
<1>3. a \in a .. (d - 1)
  OBVIOUS
<1>4. a \in Places => Tells(n, a, value) \subseteq S
  BY <1>3 DEF ToldThere
<1>5. fd \in Seq(S)
  <2> HIDE DEF S
  <2> QED BY <1>2, SeqMonotonic
<1>6. told \in Seq(S)
  <2> HIDE DEF S
  <2> QED BY <1>4, SeqMonotonic, EmptySeq
<1> HIDE DEF S
<1>7. PICK new : new = told \o fd
  OBVIOUS
<1>8. new \in Seq(S) /\ ToSet(told) \subseteq ToSet(new) /\ ToSet(fd) \subseteq ToSet(new)
  BY <1>5, <1>6, <1>7, JoinedSet, ConcatProperties
<1>9. ToSet(new) \subseteq S
  BY <1>8, SetOfSequence
<1>10. ASSUME NEW w \in Places \cap (a .. (d - 1)), Heard(n, w)
       PROVE  SubscribersAt(w) \subseteq ToldBy(new)
  <2>1. ToldBy(told) \subseteq ToldBy(new) /\ ToldBy(fd) \subseteq ToldBy(new)
    BY <1>8 DEF ToldBy
  <2>2. w = a \/ w \in (a + 1) .. (d - 1)
    OBVIOUS
  <2> QED BY <1>10, <2>1, <2>2
<1>11. PICK all : all = Told'
  OBVIOUS
<1>12. IsJoined(all, Told, new) /\ IsSequence(new) /\ IsSequence(Told)
  <2>1. IsSequence(told) /\ IsSequence(fd) /\ IsSequence(new)
    BY <1>5, <1>6, <1>8 DEF IsSequence
  <2>2. all = Told \o new
    BY <1>7, <1>11, <2>1, ToldGrows
  <2> QED BY <2>1, <2>2, ToldAre DEF IsJoined, AreEvents
<1>13. ASSUME NEW j, NEW id, LastTo(j, id)'
       PROVE  \/ /\ LastTo(j, id) /\ (Told[j])' = Told[j]
                 /\ \A w \in Places \cap (a .. (d - 1)) : \A s \in SubscribersAt(w) : Heard(n, w) => s.id # id
              \/ \E w \in Places \cap (a .. (d - 1)) : (Told[j])' \in Tells(n, w, ToldThere(n, a, w, value))
  <2>1. IsLast(j, id, all) /\ (Told[j])' = all[j]
    BY <1>11, <1>13 DEF LastTo, IsLast
  <2>2. CASE IsLast(j, id, Told) /\ all[j] = Told[j] /\ \A e \in ToSet(new) : e.to.id # id
    <3>1. LastTo(j, id)
      BY <2>2 DEF LastTo, IsLast
    <3>2. \A w \in Places \cap (a .. (d - 1)) : \A s \in SubscribersAt(w) : Heard(n, w) => s.id # id
      BY <1>10, <2>2 DEF ToldBy
    <3> QED BY <2>1, <2>2, <3>1, <3>2
  <2>3. CASE all[j] \in ToSet(new)
    <3>1. all[j] \in S
      BY <1>9, <2>3
    <3>2. \E w \in Places \cap (a .. (d - 1)) : all[j] \in Tells(n, w, ToldThere(n, a, w, value))
      BY <3>1 DEF S
    <3> QED BY <2>1, <3>2
  <2> QED BY <1>12, <2>1, <2>2, <2>3, LastOfJoined
<1> QED BY <1>13 DEF Hears

-----------------------------------------------------------------------------

\* The announcement of operation n, under way from the place a up to the place u, goes on to
\* the place d.  It waits there, as the job x, if that is one of those it was under way to.
GoesOn(n, a, d, u, x) ==
    /\ n \in 1 .. Len(diffs) /\ a \in Nat /\ u \in Nat /\ u <= Len(watchers)
    /\ d \in (a + 1) .. (u + 1)
    /\ \A w \in (a + 1) .. (d - 1) : w \in Places /\ w \notin Halts(n)
    /\ \/ d = u + 1 /\ x = Job(0, <<>>)
       \/ /\ d # u + 1 /\ d \in Halts(n)
          /\ x.operation = n /\ x.left # <<>> /\ x.left \in Seq(Watched)
          /\ RunsFrom(x.left, d - 1) /\ From(x) = d /\ Until(x) = u

\* The others come one place forward.
MovesUp(f, d, u, x) ==
    /\ Carries(f, x) /\ KeepsSide(f) /\ DOMAIN f = Jobs \ {1}
    /\ d # u + 1 => \E j \in Jobs' : /\ JobAt(j)' = x /\ ~(j <= Len(answered'))
                                     /\ \A i \in DOMAIN f : f[i] < j

\* What the first answer is about.
IsFirst(n, a, u) ==
    /\ 1 \in Jobs /\ JobAt(1).operation = n /\ From(JobAt(1)) = a /\ Until(JobAt(1)) = u

LEMMA RestIs ==
    ASSUME WatchersOK, NamesOK, NEW rest \in Seq(Watched), NEW d \in Places, NEW u \in Nat,
           Len(rest) = u + 1 - d, d <= u, RunsFrom(rest, d - 1), NEW n
    PROVE  /\ Job(n, rest).operation = n /\ Job(n, rest).left = rest /\ rest # <<>>
           /\ From(Job(n, rest)) = d /\ Until(Job(n, rest)) = u
<1>1. d \in Nat /\ Len(rest) \in Nat \ {0} /\ 1 \in 1 .. Len(rest) /\ (d - 1) + 1 = d
  BY DEF Places
<1>2. rest # <<>>
  BY <1>1, EmptySeq
<1>3. rest[1] = watchers[d].path
  BY <1>1 DEF RunsFrom
<1>4. Job(n, rest).operation = n /\ Job(n, rest).left = rest
  BY DEF Job
<1>5. d = CHOOSE a \in Places : watchers[a].path = rest[1]
  BY <1>3 DEF NamesOK
<1>6. From(Job(n, rest)) = d
  BY <1>2, <1>4, <1>5 DEF From
<1>7. Until(Job(n, rest)) = d + Len(rest) - 1
  BY <1>2, <1>4, <1>6 DEF Until
<1> QED BY <1>1, <1>2, <1>4, <1>6, <1>7

LEMMA MovesUpIs ==
    ASSUME InvWatch, answered # <<>>, answered' = Tail(answered), NEW n, NEW rest,
           NEW d, NEW u, NEW x,
           \/ d = u + 1 /\ queue' = queue /\ x = Job(0, <<>>)
           \/ d # u + 1 /\ x = Job(n, rest)
              /\ queue' = Append(queue, [op |-> "getEntity", operation |-> n, targets |-> rest])
    PROVE  \E f : MovesUp(f, d, u, x)
<1>1. CASE d = u + 1 /\ queue' = queue /\ x = Job(0, <<>>)
  <2>1. PICK f : Carries(f, Job(0, <<>>)) /\ KeepsSide(f) /\ DOMAIN f = Jobs \ {1}
    BY <1>1, AnnouncedCarries
  <2> QED BY <1>1, <2>1 DEF MovesUp
<1>2. CASE d # u + 1 /\ x = Job(n, rest)
           /\ queue' = Append(queue, [op |-> "getEntity", operation |-> n, targets |-> rest])
  <2>1. queue' # queue
    <3>1. PICK job : job = [op |-> "getEntity", operation |-> n, targets |-> rest]
      OBVIOUS
    <3>2. Len(queue') = Len(queue) + 1 /\ Len(queue) \in Nat
      BY <1>2, <3>1, Appended, CountIs DEF InvWatch, QueueOK
    <3> QED BY <3>2
  <2>2. PICK f : /\ Carries(f, Job(n, rest)) /\ KeepsSide(f) /\ DOMAIN f = Jobs \ {1}
                 /\ queue' # queue =>
                       \E j \in Jobs' : /\ JobAt(j)' = Job(n, rest) /\ ~(j <= Len(answered'))
                                        /\ \A i \in DOMAIN f : f[i] < j
    BY <1>2, AnnouncedCarries
  <2> QED BY <1>2, <2>1, <2>2 DEF MovesUp
<1> QED BY <1>1, <1>2

LEMMA PathsRun == ASSUME WatchersOK PROVE Len(Paths) = Len(watchers) /\ RunsFrom(Paths, 0)
<1>1. Len(watchers) \in Nat /\ DOMAIN watchers = 1 .. Len(watchers) /\ Paths \in Seq(Watched)
  BY WatchersAre, PathsType DEF Places
<1>2. DOMAIN Paths = 1 .. Len(watchers) /\ \A i \in 1 .. Len(watchers) : Paths[i] = watchers[i].path
  BY <1>1 DEF Paths
<1>3. Len(Paths) = Len(watchers)
  <2>1. Len(Paths) \in Nat /\ DOMAIN Paths = 1 .. Len(Paths)
    BY <1>1, LenProperties
  <2> HIDE DEF Paths
  <2> QED BY <1>1, <1>2, <2>1
<1> HIDE DEF Paths
<1>4. \A i \in 1 .. Len(watchers) : 0 + i = i
  BY <1>1
<1> QED BY <1>2, <1>3, <1>4 DEF RunsFrom, Places

LEMMA WalkGoes ==
    ASSUME InvWatch, NamesOK, NEW n \in 1 .. Len(diffs), NEW targets \in Seq(Watched),
           NEW a \in Nat, NEW u \in Nat, u = a + Len(targets), u <= Len(watchers),
           RunsFrom(targets, a), NEW told, Walk(n, targets, told),
           answered # <<>>, answered' = Tail(answered), calls' = calls, NEW value,
           \/ a \notin Places /\ told = <<>>
           \/ a \in Places /\ told \in Seq(Tells(n, a, value))
              /\ (Heard(n, a) => SubscribersAt(a) \subseteq ToldBy(told))
    PROVE  \E d, x, f : GoesOn(n, a, d, u, x) /\ MovesUp(f, d, u, x) /\ Hears(n, a, d, value)
<1>1. PICK d \in (a + 1) .. (a + Len(targets) + 1) :
              /\ \A w \in (a + 1) .. (d - 1) : w \in Places /\ w \notin Halts(n)
              /\ \/ d = a + Len(targets) + 1 /\ queue' = queue
                 \/ /\ d # a + Len(targets) + 1 /\ d \in Halts(n)
                    /\ \E rest \in Seq(Watched) :
                          /\ queue' = Append(queue, [op |-> "getEntity", operation |-> n, targets |-> rest])
                          /\ Len(rest) = a + Len(targets) + 1 - d
                          /\ RunsFrom(rest, d - 1)
              /\ \E fd \in Seq(Telling(n, a, d)) :
                    /\ tasks' = (tasks \o told) \o fd
                    /\ \A w \in (a + 1) .. (d - 1) : Heard(n, w) => SubscribersAt(w) \subseteq ToldBy(fd)
  BY WalksTo DEF InvWatch
<1>2. Len(targets) \in Nat
  BY LenProperties
<1>3. d \in Nat /\ a < d /\ d \in (a + 1) .. (u + 1) /\ a + Len(targets) + 1 = u + 1
  BY <1>2
<1>4. Hears(n, a, d, value)
  <2>1. PICK fd \in Seq(Telling(n, a, d)) :
                    /\ tasks' = (tasks \o told) \o fd
                    /\ \A w \in (a + 1) .. (d - 1) : Heard(n, w) => SubscribersAt(w) \subseteq ToldBy(fd)
    BY <1>1
  <2> QED BY <1>1, <1>3, <2>1, HearsIs
<1>5. CASE d = u + 1 /\ queue' = queue
  <2>1. PICK x : x = Job(0, <<>>)
    OBVIOUS
  <2>2. GoesOn(n, a, d, u, x)
    BY <1>1, <1>3, <1>5, <2>1 DEF GoesOn
  <2>3. \E f : MovesUp(f, d, u, x)
    BY <1>5, <2>1, MovesUpIs
  <2> QED BY <1>4, <2>2, <2>3
<1>6. CASE d # u + 1
  <2>1. PICK rest \in Seq(Watched) :
            /\ queue' = Append(queue, [op |-> "getEntity", operation |-> n, targets |-> rest])
            /\ Len(rest) = u + 1 - d /\ RunsFrom(rest, d - 1)
    BY <1>1, <1>3, <1>6
  <2>2. PICK x : x = Job(n, rest)
    OBVIOUS
  <2>3. d \in Halts(n) /\ d \in Places /\ d <= u
    BY <1>1, <1>3, <1>6 DEF Halts
  <2>4. x.operation = n /\ x.left = rest /\ rest # <<>> /\ From(x) = d /\ Until(x) = u
    BY <2>1, <2>2, <2>3, RestIs DEF InvWatch
  <2>5. GoesOn(n, a, d, u, x)
    BY <1>1, <1>3, <1>6, <2>1, <2>3, <2>4 DEF GoesOn
  <2>6. \E f : MovesUp(f, d, u, x)
    BY <1>6, <2>1, <2>2, MovesUpIs
  <2> QED BY <1>4, <2>5, <2>6
<1> QED BY <1>1, <1>3, <1>5, <1>6

\* What an announcement does that does not throw.
LEMMA AnnounceIs ==
    ASSUME InvWatch, NamesOK, JobsOK, Singles, AnnounceChanges, rejected' = {}
    PROVE  \E n, a, d, u, x, f, value :
              /\ IsFirst(n, a, u) /\ GoesOn(n, a, d, u, x) /\ MovesUp(f, d, u, x)
              /\ Hears(n, a, d, value)
              /\ a \in Places => answered[1].read # <<>> /\ value = answered[1].value
<1>1. answered # <<>> /\ answered' = Tail(answered) /\ calls' = calls
  BY DEF AnnounceChanges
<1>2. PICK n, read : n = answered[1].operation /\ read = answered[1].read
  OBVIOUS
<1>3. 1 \in 1 .. Len(answered) /\ n \in 1 .. Len(diffs) /\ read \in Seq(Watched)
  <2>1. Len(answered) \in Nat \ {0}
    BY <1>1, WithoutFirst DEF InvWatch, AnsweredOK
  <2>2. 1 \in 1 .. Len(answered)
    BY <2>1
  <2> QED BY <1>2, <2>2 DEF InvWatch, AnsweredOK
<1>4. 1 \in Jobs /\ JobAt(1) = Job(n, read)
  BY <1>2, <1>3, CountIs DEF Jobs, Count, JobAt
<1>5. JobAt(1).operation = n /\ JobAt(1).left = read
  BY <1>4 DEF Job
<1>6. Len(watchers) \in Nat
  BY WatchersAre DEF InvWatch
<1>7. CASE read = <<>>
  <2>1. Walk(n, Paths, <<>>)
    BY <1>2, <1>7 DEF AnnounceChanges, Paths
  <2>2. Paths \in Seq(Watched) /\ RunsFrom(Paths, 0) /\ Len(watchers) = 0 + Len(Paths)
    BY <1>6, PathsRun, PathsType DEF InvWatch
  <2>3. 0 \notin Places
    BY DEF Places
  <2>4. IsFirst(n, 0, Len(watchers))
    BY <1>4, <1>5, <1>7 DEF IsFirst, From, Until
  <2>5. PICK u, targets, told : u = Len(watchers) /\ targets = Paths /\ told = <<>>
    OBVIOUS
  <2>6. \E d, x, f : GoesOn(n, 0, d, u, x) /\ MovesUp(f, d, u, x) /\ Hears(n, 0, d, 0)
    <3>1. /\ u \in Nat /\ u = 0 + Len(targets) /\ u <= Len(watchers)
          /\ targets \in Seq(Watched) /\ RunsFrom(targets, 0) /\ Walk(n, targets, told)
      BY <1>6, <2>1, <2>2, <2>5
    <3> QED BY <1>1, <1>3, <2>3, <2>5, <3>1, WalkGoes
  <2> QED BY <2>3, <2>4, <2>5, <2>6
<1>8. CASE read # <<>>
  <2>1. PICK value, told : value = answered[1].value /\ told = Events(n, read[1], value)
    OBVIOUS
  <2>2. ~answered[1].throws
    BY <1>2, <1>8 DEF AnnounceChanges
  <2>3. Walk(n, Tail(read), told)
    BY <1>2, <1>8, <2>1, <2>2 DEF AnnounceChanges
  <2>4. JobOK(JobAt(1))
    BY <1>4 DEF JobsOK
  <2>5. PICK a, u : a = From(JobAt(1)) /\ u = Until(JobAt(1))
    OBVIOUS
  <2>6. /\ a \in Places /\ RunsFrom(read, a - 1) /\ ChangedBelow(n, a)
        /\ u \in Nat /\ u <= Len(watchers) /\ u = a + Len(read) - 1
    <3>1. PICK y : y = JobAt(1)
      OBVIOUS
    <3>2. /\ From(y) \in Places /\ RunsFrom(read, From(y) - 1) /\ ChangedBelow(n, From(y))
      BY <1>5, <1>8, <2>4, <3>1 DEF JobOK
    <3>3. Until(y) \in Nat /\ Until(y) <= Len(watchers) /\ Until(y) = From(y) + Len(y.left) - 1
      BY <1>5, <1>8, <2>4, <3>1, FromIs DEF InvWatch
    <3> QED BY <1>5, <2>5, <3>1, <3>2, <3>3
  <2>7. Len(read) \in Nat \ {0} /\ Tail(read) \in Seq(Watched) /\ Len(Tail(read)) = Len(read) - 1
        /\ \A i \in 1 .. Len(Tail(read)) : Tail(read)[i] = read[i + 1]
    BY <1>3, <1>8, EmptySeq, HeadTailProperties
  <2>8. PICK targets \in Seq(Watched) : targets = Tail(read)
    BY <2>7
  <2>9. a \in Nat /\ u = a + Len(targets)
    BY <2>6, <2>7, <2>8 DEF Places
  <2>10. RunsFrom(targets, a)
    <3> SUFFICES ASSUME NEW i \in 1 .. Len(targets)
                 PROVE  a + i \in Places /\ targets[i] = watchers[a + i].path
      BY DEF RunsFrom
    <3>1. i + 1 \in 1 .. Len(read) /\ (a - 1) + (i + 1) = a + i
      BY <2>7, <2>8, <2>9
    <3>2. a + i \in Places /\ read[i + 1] = watchers[a + i].path
      BY <2>6, <3>1 DEF RunsFrom
    <3> QED BY <2>7, <2>8, <3>2
  <2>11. read[1] = watchers[a].path
    <3>1. 1 \in 1 .. Len(read) /\ (a - 1) + 1 = a
      BY <2>7, <2>9
    <3> QED BY <2>6, <3>1 DEF RunsFrom
  <2>12. told \in Seq(Tells(n, a, value)) /\ (Heard(n, a) => SubscribersAt(a) \subseteq ToldBy(told))
    BY <2>1, <2>6, <2>11, EventsAre DEF InvWatch
  <2>13. \E d, x, f : GoesOn(n, a, d, u, x) /\ MovesUp(f, d, u, x) /\ Hears(n, a, d, value)
    BY <1>1, <1>3, <2>3, <2>6, <2>8, <2>9, <2>10, <2>12, WalkGoes
  <2>14. IsFirst(n, a, u)
    BY <1>4, <1>5, <2>5 DEF IsFirst
  <2> QED BY <1>2, <1>8, <2>1, <2>13, <2>14
<1> QED BY <1>7, <1>8

-----------------------------------------------------------------------------

\* The job i is the job q then.
Same(i, q) ==
    /\ i \in Jobs /\ q \in Jobs' /\ JobAt(q)' = JobAt(i)
    /\ (JobAt(q).operation)' = JobAt(i).operation
    /\ From(JobAt(q))' = From(JobAt(i)) /\ Until(JobAt(q))' = Until(JobAt(i))
    /\ q <= Len(answered') <=> i <= Len(answered)
    /\ \A a : ChangedBelow(JobAt(i).operation, a) => ChangedBelow(JobAt(q).operation, a)'

\* A job there is then is one there was, or the announcement that waits again.
Onward(n, d, u, f, q) ==
    /\ q \in Jobs' /\ (JobAt(q).operation)' = n
    /\ From(JobAt(q))' = d /\ Until(JobAt(q))' = u /\ ~(q <= Len(answered'))
    /\ \A i \in Jobs : i # 1 => f[i] < q

LEMMA Behind ==
    ASSUME Extended, NEW f, NEW d, NEW u, NEW x, MovesUp(f, d, u, x)
    PROVE  /\ \A i \in Jobs : i # 1 => \E q : q = f[i] /\ Same(i, q)
           /\ \A q \in Jobs' : (\E i \in Jobs : i # 1 /\ q = f[i] /\ Same(i, q)) \/ JobAt(q)' = x
           /\ \A i, j \in Jobs : i # 1 /\ j # 1 /\ i < j => f[i] < f[j]
<1>1. /\ DOMAIN f = Jobs \ {1}
      /\ \A i \in DOMAIN f : f[i] \in Jobs' /\ JobAt(f[i])' = JobAt(i)
      /\ \A i, j \in DOMAIN f : i < j => f[i] < f[j]
      /\ \A j \in Jobs' : (\E i \in DOMAIN f : f[i] = j) \/ JobAt(j)' = x
      /\ \A i \in DOMAIN f : i <= Len(answered) <=> f[i] <= Len(answered')
  BY DEF MovesUp, Carries, KeepsSide
<1>2. ASSUME NEW i \in Jobs, i # 1 PROVE \E q : q = f[i] /\ Same(i, q)
  <2>1. PICK q : q = f[i]
    OBVIOUS
  <2>2. q \in Jobs' /\ JobAt(q)' = JobAt(i) /\ (i <= Len(answered) <=> q <= Len(answered'))
    BY <1>1, <1>2, <2>1
  <2>3. /\ From(JobAt(q))' = From(JobAt(i)) /\ Until(JobAt(q))' = Until(JobAt(i))
        /\ (JobAt(q).operation)' = JobAt(i).operation
        /\ \A a : ChangedBelow(JobAt(i).operation, a) => ChangedBelow(JobAt(q).operation, a)'
    BY <2>2, WayStays
  <2>4. Same(i, q)
    BY <2>2, <2>3 DEF Same
  <2> QED BY <2>1, <2>4
<1>3. ASSUME NEW q \in Jobs', JobAt(q)' # x PROVE \E i \in Jobs : i # 1 /\ q = f[i] /\ Same(i, q)
  <2>1. PICK i \in DOMAIN f : f[i] = q
    BY <1>1, <1>3
  <2> QED BY <1>1, <1>2, <2>1
<1> QED BY <1>1, <1>2, <1>3

LEMMA Ahead ==
    ASSUME Extended, NEW n, NEW a, NEW d, NEW u, NEW x, NEW f,
           GoesOn(n, a, d, u, x), MovesUp(f, d, u, x), d # u + 1
    PROVE  \E q : Onward(n, d, u, f, q)
<1>1. PICK q \in Jobs' : /\ JobAt(q)' = x /\ ~(q <= Len(answered')) /\ \A i \in DOMAIN f : f[i] < q
  BY DEF MovesUp
<1>2. DOMAIN f = Jobs \ {1}
  BY DEF MovesUp
<1>3. x.operation = n /\ From(x) = d /\ Until(x) = u
  BY DEF GoesOn
<1>4. From(x)' = d /\ Until(x)' = u
  BY <1>3, SameWay
<1>5. From(JobAt(q))' = d /\ Until(JobAt(q))' = u
  BY <1>1, <1>4 DEF From, Until
<1>6. Onward(n, d, u, f, q)
  BY <1>1, <1>2, <1>3, <1>5 DEF Onward
<1> QED BY <1>6

\* An operation is about one key.
LEMMA OneKey ==
    ASSUME NEW n, NEW k, NEW l, Changed(n, k), Changed(n, l)
    PROVE  k = l
  BY DEF Changed

\* An announcement waits at an observed place above the key.
LEMMA HaltsAt ==
    ASSUME InvWatch, Singles, NEW n, NEW w \in Places
    PROVE  /\ w \in Halts(n) /\ n \in 1 .. Len(diffs) => Observed(w) /\ ChangedBelow(n, w)
           /\ Observed(w) /\ ChangedBelow(n, w) => w \in Halts(n)
           /\ ChangedBelow(n, w) => Heard(n, w)
           /\ n \in 1 .. Len(diffs) /\ Heard(n, w) =>
                 \E k \in Key : Changed(n, k) /\ (IsPrefix(k, watchers[w].path) \/ IsStrictPrefix(watchers[w].path, k))
<1>1. PICK p : p = watchers[w].path
  OBVIOUS
<1>2. p \in Watched /\ DiffsOK
  BY <1>1, WatchersAre DEF InvWatch
<1>3. ASSUME NEW k \in Key, Changed(n, k), IsStrictPrefix(p, k)
      PROVE  MatchType(diffs[n], p) = "Descendant" /\ IsHeard(diffs[n], p)
  BY <1>2, <1>3, HeardIs
<1>4. ASSUME n \in 1 .. Len(diffs), IsHeard(diffs[n], p)
      PROVE  \E k \in Key : /\ Changed(n, k) /\ (IsPrefix(k, p) \/ IsStrictPrefix(p, k))
                            /\ MatchType(diffs[n], p) = "Descendant" => IsStrictPrefix(p, k)
  <2>1. PICK k \in Key : Changed(n, k)
    BY <1>2, <1>4, UnheardIs
  <2> QED BY <1>2, <1>4, <2>1, HeardIs
<1>5. MatchType(diffs[n], p) = "Descendant" => IsHeard(diffs[n], p)
  BY DEF IsHeard
<1> QED BY <1>1, <1>3, <1>4, <1>5 DEF Halts, ChangedBelow, Heard

LEMMA AnnounceJobs ==
    ASSUME InvWatch, Singles, JobsOK, Extended, diffs' = diffs, NEW n, NEW a, NEW d, NEW u, NEW x, NEW f,
           GoesOn(n, a, d, u, x), MovesUp(f, d, u, x)
    PROVE  JobsOK'
<1>1. Len(diffs) \in Nat /\ Len(diffs') = Len(diffs)
  BY DiffsLength DEF InvWatch
<1>2. JobOK(x) /\ (x.left = <<>> => x.operation = 0)
  <2>1. CASE x = Job(0, <<>>)
    <3>1. x.operation = 0 /\ x.left = <<>>
      BY <2>1 DEF Job
    <3>2. 0 \in 0 .. Len(diffs) /\ <<>> \in Seq(Watched)
      BY <1>1, EmptySeq
    <3> QED BY <3>1, <3>2 DEF JobOK
  <2>2. CASE x # Job(0, <<>>)
    <3>1. /\ d \in Halts(n) /\ n \in 1 .. Len(diffs)
          /\ x.operation = n /\ x.left # <<>> /\ x.left \in Seq(Watched)
          /\ RunsFrom(x.left, d - 1) /\ From(x) = d
      BY <2>2 DEF GoesOn
    <3>2. d \in Places
      BY <3>1 DEF Halts
    <3>3. Observed(d) /\ ChangedBelow(n, d)
      BY <3>1, <3>2, HaltsAt
    <3>4. n \in 0 .. Len(diffs)
      BY <1>1, <3>1
    <3> QED BY <3>1, <3>2, <3>3, <3>4 DEF JobOK
  <2> QED BY <2>1, <2>2
<1>3. JobOK(x)'
  BY <1>1, <1>2, JobStays
<1>4. ASSUME NEW q \in Jobs'
      PROVE  /\ JobOK(JobAt(q))'
             /\ (JobAt(q).left = <<>> /\ q > Len(answered))' => (JobAt(q).operation)' = 0
  <2>1. CASE JobAt(q)' = x
    BY <1>2, <1>3, <2>1 DEF JobOK
  <2>2. CASE \E i \in Jobs : i # 1 /\ q = f[i] /\ Same(i, q)
    <3>1. PICK i \in Jobs : Same(i, q)
      BY <2>2
    <3>2. PICK y : y = JobAt(i)
      OBVIOUS
    <3>3. JobOK(y)'
      BY <1>1, <3>2, JobStays DEF JobsOK
    <3>4. JobAt(q)' = y /\ (q <= Len(answered') <=> i <= Len(answered))
      BY <3>1, <3>2 DEF Same
    <3>5. JobOK(JobAt(q))'
      BY <3>3, <3>4 DEF JobOK
    <3>6. q > Len(answered') => i > Len(answered)
      <4>1. q \in Int /\ i \in Int /\ Len(answered) \in Int /\ Len(answered') \in Int
        <5>1. Len(answered') \in Nat
          BY <3>1
        <5> QED BY <5>1, CountIs DEF Jobs
      <4> QED BY <3>4, <4>1
    <3> QED BY <3>2, <3>4, <3>5, <3>6 DEF JobsOK
  <2> QED BY <2>1, <2>2, Behind
<1> QED BY <1>4 DEF JobsOK

LEMMA AnnounceTrails ==
    ASSUME InvWatch, NamesOK, Singles, JobsOK, LaterTrails, Extended, diffs' = diffs,
           NEW n, NEW a, NEW d, NEW u, NEW x, NEW f,
           IsFirst(n, a, u), GoesOn(n, a, d, u, x), MovesUp(f, d, u, x)
    PROVE  LaterTrails'
<1>1. /\ n \in 1 .. Len(diffs) /\ a \in Nat /\ u \in Nat /\ d \in (a + 1) .. (u + 1)
      /\ \A w \in (a + 1) .. (d - 1) : w \notin Halts(n)
  BY DEF GoesOn
<1>2. 1 \in Jobs /\ JobAt(1).operation = n /\ From(JobAt(1)) = a /\ Until(JobAt(1)) = u
  BY DEF IsFirst
<1>3. \A i \in Jobs : i \in Nat /\ i >= 1
  BY DEF Jobs
<1>4. ASSUME NEW k \in Key, NEW l, NEW m, l < m, Changed(l, k)', Changed(m, k)',
             NEW p \in Jobs', (JobAt(p).operation)' = l
      PROVE  IsTrailed(p, m)'
  <2>1. Changed(l, k) /\ Changed(m, k) /\ l # 0 /\ m # 0 /\ l # m
    BY <1>4 DEF Changed
  <2>2. CASE \E i \in Jobs : i # 1 /\ p = f[i] /\ Same(i, p)
    <3>1. PICK i \in Jobs : i # 1 /\ p = f[i] /\ Same(i, p)
      BY <2>2
    <3>2. JobAt(i).operation = l /\ From(JobAt(p))' = From(JobAt(i)) /\ Until(JobAt(p))' = Until(JobAt(i))
      BY <1>4, <3>1 DEF Same
    <3>3. PICK j \in Jobs : JobAt(j).operation = m /\ Trails(j, i)
      BY <1>4, <2>1, <3>2 DEF LaterTrails, IsTrailed
    <3>4. CASE j # 1
      <4>1. PICK q : q = f[j] /\ Same(j, q)
        BY <3>4, Behind
      <4>2. i < j => p < q
        BY <3>1, <3>4, <4>1, Behind
      <4>3. Trails(q, p)'
        BY <3>2, <3>3, <4>1, <4>2 DEF Trails, Same
      <4> QED BY <3>3, <4>1, <4>3 DEF IsTrailed, Same
    <3>5. CASE j = 1
      <4>1. PICK b, v : b = From(JobAt(i)) /\ v = Until(JobAt(i))
        OBVIOUS
      <4>2. m = n /\ a <= b /\ v <= u /\ a # b
        BY <1>2, <1>3, <3>1, <3>3, <3>5, <4>1 DEF Trails
      <4>3. b \in Nat /\ v \in Nat /\ (b # 0 => b \in Places /\ b <= v /\ Observed(b) /\ ChangedBelow(l, b))
        <5>1. PICK y : y = JobAt(i)
          OBVIOUS
        <5>2. JobOK(y)
          BY <5>1 DEF JobsOK
        <5>3. /\ From(y) \in Nat /\ Until(y) \in Nat
              /\ y.left = <<>> => From(y) = 0
              /\ y.left # <<>> => From(y) <= Until(y)
          BY <5>2, FromIs DEF InvWatch
        <5>4. y.left # <<>> => From(y) \in Places /\ Observed(From(y)) /\ ChangedBelow(y.operation, From(y))
          BY <5>2 DEF JobOK
        <5> QED BY <3>2, <4>1, <5>1, <5>3, <5>4
      <4>4. b \in Places /\ b <= v /\ b > a /\ b <= u /\ Observed(b) /\ ChangedBelow(l, b)
        BY <1>1, <4>2, <4>3
      <4>5. ChangedBelow(n, b)
        <5>1. PICK kk \in Key : Changed(l, kk) /\ IsStrictPrefix(watchers[b].path, kk)
          BY <4>4 DEF ChangedBelow
        <5>2. kk = k
          BY <2>1, <5>1, OneKey
        <5> QED BY <2>1, <4>2, <5>1, <5>2 DEF ChangedBelow
      <4>6. b \in Halts(n)
        BY <4>4, <4>5, HaltsAt
      <4>7. ~(b \in (a + 1) .. (d - 1))
        BY <1>1, <4>6
      <4>8. d <= b /\ d # u + 1
        BY <1>1, <4>3, <4>4, <4>7
      <4>9. PICK q : Onward(n, d, u, f, q)
        BY <4>8, Ahead
      <4>10. p < q
        BY <3>1, <4>9 DEF Onward
      <4>11. Trails(q, p)'
        BY <3>2, <4>1, <4>2, <4>8, <4>9, <4>10 DEF Trails, Onward
      <4> QED BY <4>2, <4>9, <4>11 DEF IsTrailed, Onward
    <3> QED BY <3>4, <3>5
  <2>3. CASE JobAt(p)' = x
    <3>1. x.operation = l
      BY <1>4, <2>3
    <3>2. x # Job(0, <<>>)
      BY <2>1, <3>1 DEF Job
    <3>3. n = l /\ From(x) = d /\ Until(x) = u
      BY <3>1, <3>2 DEF GoesOn
    <3>4. PICK j \in Jobs : JobAt(j).operation = m /\ Trails(j, 1)
      BY <1>2, <1>4, <2>1, <3>3 DEF LaterTrails, IsTrailed
    <3>5. j # 1
      BY <1>2, <2>1, <3>3, <3>4
    <3>6. PICK q : q = f[j] /\ Same(j, q)
      BY <3>5, Behind
    <3>7. PICK b : b = From(JobAt(j))
      OBVIOUS
    <3>8. b \in Nat /\ b <= a /\ u <= Until(JobAt(j))
      <4>1. PICK y : y = JobAt(j)
        OBVIOUS
      <4>2. From(y) \in Nat
        BY <4>1, FromIs DEF InvWatch, JobsOK
      <4> QED BY <1>2, <3>4, <3>7, <4>1, <4>2 DEF Trails
    <3>9. b <= d /\ b # d
      BY <1>1, <3>8
    <3>10. From(JobAt(p))' = d /\ Until(JobAt(p))' = u
      <4>1. From(x)' = d /\ Until(x)' = u
        BY <3>3, SameWay
      <4> QED BY <2>3, <4>1 DEF From, Until
    <3>11. Trails(q, p)'
      BY <3>6, <3>7, <3>8, <3>9, <3>10 DEF Trails, Same
    <3> QED BY <3>4, <3>6, <3>11 DEF IsTrailed, Same
  <2> QED BY <2>2, <2>3, Behind
<1> QED BY <1>4 DEF LaterTrails

\* What is still to come stays so, but for the places where it was told.
LEMMA AnnounceToCome ==
    ASSUME Extended, NEW n, NEW a, NEW d, NEW u, NEW x, NEW f,
           IsFirst(n, a, u), GoesOn(n, a, d, u, x), MovesUp(f, d, u, x),
           NEW m, NEW w \in Places, IsToCome(m, w)
    PROVE  \/ IsToCome(m, w)'
           \/ m = n /\ w \in (a + 1) .. (d - 1)
           \/ m = n /\ w = d /\ d \in Halts(n)
<1>1. PICK i \in Jobs : JobAt(i).operation = m /\ From(JobAt(i)) < w /\ w <= Until(JobAt(i))
  BY DEF IsToCome
<1>2. CASE i # 1
  <2>1. PICK q : Same(i, q)
    BY <1>2, Behind
  <2> QED BY <1>1, <2>1 DEF IsToCome, Same
<1>3. CASE i = 1
  <2>1. m = n /\ a < w /\ w <= u
    BY <1>1, <1>3 DEF IsFirst
  <2>2. a \in Nat /\ u \in Nat /\ d \in (a + 1) .. (u + 1) /\ (d # u + 1 => d \in Halts(n))
    BY DEF GoesOn
  <2>3. w \in Nat
    BY DEF Places
  <2>4. CASE d < w
    <3>1. d # u + 1
      BY <2>1, <2>2, <2>3, <2>4
    <3>2. PICK q : Onward(n, d, u, f, q)
      BY <3>1, Ahead
    <3> QED BY <2>1, <2>4, <3>2 DEF IsToCome, Onward
  <2>5. CASE w = d
    <3>1. d # u + 1
      BY <2>1, <2>2, <2>5
    <3> QED BY <2>1, <2>2, <2>5, <3>1
  <2>6. CASE w < d
    BY <2>1, <2>2, <2>3, <2>6
  <2> QED BY <2>2, <2>3, <2>4, <2>5, <2>6
<1> QED BY <1>2, <1>3

\* Whom an event goes to, and what it says.
LEMMA EventTold ==
    ASSUME NamesOK, NEW n, NEW w \in Places, NEW v \in Places, NEW value, NEW e \in Tells(n, w, value),
           NEW s \in SubscribersAt(v), e.to.id = s.id
    PROVE  w = v /\ e.operation = n /\ Heard(n, w) /\ (s.isObserver => e.value = value)
<1>1. e.to \in SubscribersAt(w) /\ Heard(n, w) /\ (e.to.isObserver => e.value = value)
  BY DEF Tells
<1>2. e.operation = n
  BY DEF Tells, EventsAt
<1>3. w = v /\ e.to.isObserver = s.isObserver
  BY <1>1 DEF NamesOK
<1> QED BY <1>1, <1>2, <1>3

LEMMA AnnounceLeaves ==
    ASSUME InvWatch, NamesOK, Singles, NoneAbove, JobsOK, LaterTrails, LeavesTold, Extended, diffs' = diffs,
           NEW n, NEW a, NEW d, NEW u, NEW x, NEW f, NEW value,
           IsFirst(n, a, u), GoesOn(n, a, d, u, x), MovesUp(f, d, u, x), Hears(n, a, d, value),
           a \in Places => answered[1].read # <<>>
    PROVE  LeavesTold'
<1>1. /\ n \in 1 .. Len(diffs) /\ a \in Nat /\ u \in Nat /\ d \in (a + 1) .. (u + 1)
  BY DEF GoesOn
<1>2. 1 \in Jobs /\ JobAt(1).operation = n /\ From(JobAt(1)) = a /\ Until(JobAt(1)) = u
  BY DEF IsFirst
<1>3. ASSUME NEW w \in Places, NEW s \in SubscribersAt(w), NEW k \in Key,
             s.isObserver, IsPrefix(k, watchers[w].path), NEW j, LastTo(j, s.id)'
      PROVE  LastInLeaf(Told[j], w, k)'
  <2>1. PICK e, p : e = (Told[j])' /\ p = watchers[w].path
    OBVIOUS
  <2>2. p \in Watched /\ DiffsOK
    BY <2>1, WatchersAre DEF InvWatch
  <2>3. \A l \in Key : IsPrefix(l, p) \/ IsStrictPrefix(p, l) => l = k /\ ~IsStrictPrefix(p, l)
    BY <1>3, <2>1, <2>2, OneLeaf
  <2>4. SUFFICES /\ Changed(e.operation, k) /\ e.value = ValueIn(e.operation, k, p)
                 /\ \A m : e.operation < m /\ Changed(m, k) => IsToCome(m, w)'
    <3>1. \A m, l : Changed(m, l)' <=> Changed(m, l)
      BY DEF Changed
    <3>2. \A m, l : ValueIn(m, l, p)' = ValueIn(m, l, p)
      BY DEF ValueIn
    <3>3. (watchers[w].path)' = p
      BY <2>1 DEF Extended
    <3>4. LastInLeaf(e, w, k)'
      BY <2>4, <3>1, <3>2, <3>3 DEF LastInLeaf, ValueIn
    <3> QED BY <2>1, <3>4 DEF LastInLeaf
  <2>5. CASE /\ LastTo(j, s.id) /\ (Told[j])' = Told[j]
             /\ \A v \in Places \cap (a .. (d - 1)) : \A t \in SubscribersAt(v) : Heard(n, v) => t.id # s.id
    <3>1. LastInLeaf(e, w, k)
      BY <1>3, <2>1, <2>5 DEF LeavesTold
    <3>2. ASSUME NEW m, e.operation < m, Changed(m, k) PROVE IsToCome(m, w)'
      <4>1. IsToCome(m, w)
        BY <3>1, <3>2 DEF LastInLeaf
      <4>2. ASSUME m = n PROVE Heard(n, w) /\ w \notin Halts(n)
        BY <1>3, <2>1, <2>2, <3>2, <4>2, HeardIs DEF Heard, Halts
      <4>3. ASSUME m = n, w \in (a + 1) .. (d - 1) PROVE FALSE
        <5>1. w \in Places \cap (a .. (d - 1))
          BY <1>1, <4>3
        <5> QED BY <1>3, <2>5, <4>2, <4>3, <5>1
      <4> QED BY <4>1, <4>2, <4>3, AnnounceToCome
    <3> QED BY <2>1, <3>1, <3>2 DEF LastInLeaf
  <2>6. CASE \E v \in Places \cap (a .. (d - 1)) : (Told[j])' \in Tells(n, v, ToldThere(n, a, v, value))
    <3>1. PICK v \in Places \cap (a .. (d - 1)) : e \in Tells(n, v, ToldThere(n, a, v, value))
      BY <2>1, <2>6
    <3>2. e.to.id = s.id
      BY <1>3, <2>1 DEF LastTo
    <3>3. v = w /\ e.operation = n /\ Heard(n, w) /\ e.value = ToldThere(n, a, w, value)
      <4>1. PICK says : says = ToldThere(n, a, v, value)
        OBVIOUS
      <4>2. v \in Places /\ e \in Tells(n, v, says)
        BY <3>1, <4>1
      <4>3. v = w /\ e.operation = n /\ Heard(n, v) /\ (s.isObserver => e.value = says)
        BY <3>2, <4>2, EventTold
      <4> QED BY <1>3, <4>1, <4>3
    <3>4. Changed(n, k)
      <4>1. PICK l \in Key : Changed(n, l) /\ (IsPrefix(l, p) \/ IsStrictPrefix(p, l))
        BY <1>1, <1>3, <2>1, <3>3, HaltsAt
      <4> QED BY <2>3, <4>1
    <3>5. w # a
      <4> SUFFICES ASSUME w = a PROVE FALSE
        OBVIOUS
      <4>1. ChangedBelow(n, a)
        <5>1. JobAt(1).left # <<>>
          BY <1>2 DEF From, Places
        <5> QED BY <1>2, <5>1 DEF JobsOK, JobOK
      <4> QED BY <2>1, <2>3, <4>1 DEF ChangedBelow
    <3>6. e.value = ValueIn(n, k, p)
      <4>1. /\ IsHeard(diffs[n], p) /\ MatchType(diffs[n], p) # "Descendant"
            /\ ValueInDiff(diffs[n], p) = ValueIn(n, k, p)
        BY <1>3, <2>1, <2>2, <3>4, HeardIs
      <4> QED BY <2>1, <3>3, <3>5, <4>1 DEF ToldThere, ToldFromDiff, Heard
    <3>7. ASSUME NEW m, n < m, Changed(m, k) PROVE IsToCome(m, w)'
      <4>1. PICK i \in Jobs : JobAt(i).operation = m /\ Trails(i, 1)
        BY <1>2, <3>4, <3>7 DEF LaterTrails, IsTrailed
      <4>2. m # n
        BY <1>1, <3>7
      <4>3. i # 1
        BY <1>2, <4>1, <4>2
      <4>4. PICK q : Same(i, q)
        BY <4>3, Behind
      <4>5. PICK b, c : b = From(JobAt(i)) /\ c = Until(JobAt(i))
        OBVIOUS
      <4>6. b \in Nat /\ c \in Nat /\ b <= a /\ u <= c
        <5>1. PICK y : y = JobAt(i)
          OBVIOUS
        <5>2. From(y) \in Nat /\ Until(y) \in Nat
          BY <5>1, FromIs DEF InvWatch, JobsOK
        <5> QED BY <1>2, <4>1, <4>5, <5>1, <5>2 DEF Trails
      <4>7. b < w /\ w <= c
        BY <1>1, <3>1, <3>3, <3>5, <4>6
      <4> QED BY <4>1, <4>4, <4>5, <4>7 DEF IsToCome, Same
    <3> QED BY <3>3, <3>4, <3>6, <3>7
  <2> QED BY <1>3, <2>5, <2>6 DEF Hears
<1>4. ASSUME NEW w \in Places', NEW s \in SubscribersAt(w)', NEW k \in Key,
             s.isObserver, IsPrefix(k, watchers'[w].path), NEW j, LastTo(j, s.id)'
      PROVE  LastInLeaf(Told[j], w, k)'
  <2>1. w \in Places /\ s \in SubscribersAt(w) /\ watchers'[w].path = watchers[w].path
    BY SameWay DEF Extended
  <2> QED BY <1>3, <1>4, <2>1
<1> QED BY <1>4 DEF LeavesTold

\* No announcement passes an observed branch that is still to be read for it.
LEMMA AnnounceReads ==
    ASSUME InvWatch, Singles, Extended, answered # <<>>,
           NEW n, NEW a, NEW d, NEW u, NEW x, NEW f,
           IsFirst(n, a, u), GoesOn(n, a, d, u, x), MovesUp(f, d, u, x),
           NEW w \in Places, Observed(w), IsToRead(w), Len(answered') \in Nat
    PROVE  IsToRead(w)'
<1>1. PICK i \in Jobs : /\ ChangedBelow(JobAt(i).operation, w)
                        /\ From(JobAt(i)) < w \/ (From(JobAt(i)) = w /\ i > Len(answered))
                        /\ w <= Until(JobAt(i))
  BY DEF IsToRead
<1>2. Len(answered) \in Nat \ {0} /\ \A j \in Jobs : j \in Int
  BY CountIs, WithoutFirst DEF InvWatch, AnsweredOK, Jobs
<1>3. CASE i # 1
  <2>1. PICK q : Same(i, q)
    BY <1>3, Behind
  <2>2. i > Len(answered) => q > Len(answered')
    <3>1. q \in Int
      BY <2>1 DEF Same, Jobs
    <3> QED BY <1>2, <2>1, <3>1 DEF Same
  <2> QED BY <1>1, <2>1, <2>2 DEF IsToRead, Same
<1>4. CASE i = 1
  <2>1. ChangedBelow(n, w) /\ a < w /\ w <= u
    BY <1>1, <1>2, <1>4 DEF IsFirst
  <2>2. w \in Halts(n) /\ w \in Nat
    BY <2>1, HaltsAt DEF Places
  <2>3. /\ a \in Nat /\ u \in Nat /\ d \in (a + 1) .. (u + 1)
        /\ \A v \in (a + 1) .. (d - 1) : v \notin Halts(n)
    BY DEF GoesOn
  <2>4. ~(w \in (a + 1) .. (d - 1))
    BY <2>2, <2>3
  <2>5. d <= w /\ d # u + 1
    BY <2>1, <2>2, <2>3, <2>4
  <2>6. PICK q : Onward(n, d, u, f, q)
    BY <2>5, Ahead
  <2>7. d < w \/ (d = w /\ q > Len(answered'))
    <3>1. q \in Int
      BY <2>6 DEF Onward, Jobs
    <3> QED BY <2>2, <2>3, <2>5, <2>6, <3>1 DEF Onward
  <2>8. ChangedBelow(JobAt(q).operation, w)'
    <3>1. ChangedBelow(n, w)'
      BY <2>1, SameWay
    <3> QED BY <2>6, <3>1 DEF ChangedBelow, Onward
  <2> QED BY <2>1, <2>6, <2>7, <2>8 DEF IsToRead, Onward
<1> QED BY <1>3, <1>4

\* The answers but the first bring the same.
LEMMA AnnounceBrings ==
    ASSUME InvWatch, Extended, answered # <<>>, answered' = Tail(answered), NEW w
    PROVE  /\ Len(answered) \in Nat \ {0} /\ Len(answered') = Len(answered) - 1
           /\ \A i : Brings(i, w)' => Brings(i + 1, w) /\ answered'[i] = answered[i + 1]
           /\ \A i : Brings(i, w) => i \in 1 .. Len(answered) /\ (i = 1 \/ Brings(i - 1, w)')
<1>1. /\ Len(answered) \in Nat \ {0} /\ Len(answered') = Len(answered) - 1
      /\ \A i \in 1 .. Len(answered') : i + 1 \in 1 .. Len(answered) /\ answered'[i] = answered[i + 1]
  BY WithoutFirst DEF InvWatch, AnsweredOK
<1>2. ASSUME NEW i \in 1 .. Len(answered'), NEW j, j = i + 1
      PROVE  /\ j \in 1 .. Len(answered) /\ answered'[i] = answered[j]
             /\ Brings(i, w)' <=> Brings(j, w)
  <2>1. j \in 1 .. Len(answered) /\ answered'[i] = answered[j]
    BY <1>1, <1>2
  <2>2. JobAt(i)' = JobAt(j)
    BY <2>1 DEF JobAt
  <2>3. From(JobAt(i))' = From(JobAt(j))
    BY <2>2, WayStays
  <2> QED BY <2>1, <2>3 DEF Brings
<1>3. ASSUME NEW i, Brings(i, w)' PROVE Brings(i + 1, w) /\ answered'[i] = answered[i + 1]
  <2>1. i \in 1 .. Len(answered')
    BY <1>3 DEF Brings
  <2> QED BY <1>2, <1>3, <2>1
<1>4. ASSUME NEW i, Brings(i, w) PROVE i \in 1 .. Len(answered) /\ (i = 1 \/ Brings(i - 1, w)')
  <2>1. i \in 1 .. Len(answered)
    BY <1>4 DEF Brings
  <2>2. CASE i # 1
    <3>1. PICK j : j = i - 1
      OBVIOUS
    <3>2. j \in 1 .. Len(answered') /\ i = j + 1
      BY <1>1, <2>1, <2>2, <3>1
    <3>3. Brings(j, w)'
      BY <1>2, <1>4, <3>2
    <3> QED BY <2>1, <3>1, <3>3 DEF Brings
  <2> QED BY <2>1, <2>2
<1> QED BY <1>1, <1>3, <1>4

LEMMA AnnounceBranches ==
    ASSUME InvWatch, NamesOK, Singles, JobsOK, JobsOK', BranchesTold, Extended,
           UNCHANGED <<storeVars, diffs>>, answered # <<>>, answered' = Tail(answered),
           NEW n, NEW a, NEW d, NEW u, NEW x, NEW f, NEW value,
           IsFirst(n, a, u), GoesOn(n, a, d, u, x), MovesUp(f, d, u, x), Hears(n, a, d, value),
           a \in Places => answered[1].read # <<>> /\ value = answered[1].value
    PROVE  BranchesTold'
<1>1. n \in 1 .. Len(diffs) /\ a \in Nat /\ u \in Nat /\ d \in (a + 1) .. (u + 1)
      /\ \A v \in (a + 1) .. (d - 1) : v \notin Halts(n)
  BY DEF GoesOn
<1>2. 1 \in Jobs /\ JobAt(1).operation = n /\ From(JobAt(1)) = a /\ Until(JobAt(1)) = u
  BY DEF IsFirst
<1>3. Len(answered) \in Nat \ {0} /\ Len(answered') = Len(answered) - 1 /\ Len(answered') \in Nat
  <2>1. Len(answered) \in Nat \ {0} /\ Len(answered') = Len(answered) - 1
    BY AnnounceBrings
  <2> QED BY <2>1
<1>4. ASSUME NEW w \in Places PROVE BranchRead(w)' /\ BranchTold(w)'
  <2>1. PICK p : p = watchers[w].path
    OBVIOUS
  <2>2. /\ (watchers[w].path)' = p /\ (IsBranch(watchers[w].path)' <=> IsBranch(p))
        /\ Entity(watchers[w].path)' = Entity(p)
    <3>1. (watchers[w].path)' = p
      BY <2>1 DEF Extended
    <3>2. Entity(p)' = Entity(p)
      BY SameStore
    <3> QED BY <3>1, <3>2 DEF IsBranch, Entity, Below
  <2>3. SubscribersAt(w)' = SubscribersAt(w) /\ Observed(w)' = Observed(w)
    BY SameWay
  <2>4. /\ \A i : Brings(i, w)' => Brings(i + 1, w) /\ answered'[i] = answered[i + 1]
        /\ \A i : Brings(i, w) => i \in 1 .. Len(answered) /\ (i = 1 \/ Brings(i - 1, w)')
    BY AnnounceBrings
  <2>5. CASE ~Observed(w)
    <3>1. BranchTold(w)'
      BY <2>3, <2>5 DEF BranchTold, Observed
    <3>2. \A i : ~Brings(i, w)'
      <4> SUFFICES ASSUME NEW i, Brings(i, w)' PROVE FALSE
        OBVIOUS
      <4>1. PICK j : j = i + 1
        OBVIOUS
      <4>2. j \in 1 .. Len(answered) /\ answered[j].read # <<>> /\ From(JobAt(j)) = w
        BY <2>4, <4>1 DEF Brings
      <4>3. j \in Jobs /\ JobAt(j).left # <<>>
        BY <4>2, CountIs DEF Jobs, Count, JobAt, Job
      <4> QED BY <2>5, <4>2, <4>3 DEF JobsOK, JobOK
    <3> QED BY <3>1, <3>2 DEF BranchRead
  <2>6. CASE Observed(w)
    <3>1. ASSUME ~IsToRead(w)' PROVE ~IsToRead(w)
      BY <1>3, <2>6, <3>1, AnnounceReads
    <3>2. BranchRead(w)'
      <4> SUFFICES ASSUME IsBranch(p), ~IsToRead(w)', NEW i, Brings(i, w)', \A j : Brings(j, w)' => j <= i
                   PROVE  (answered[i].value)' = Entity(p)
        BY <2>2 DEF BranchRead
      <4>1. PICK l : l = i + 1
        OBVIOUS
      <4>2. Brings(l, w) /\ answered'[i] = answered[l] /\ i \in 1 .. Len(answered')
        BY <2>4, <4>1 DEF Brings
      <4>3. ASSUME NEW j, Brings(j, w) PROVE j <= l
        <5>1. j \in 1 .. Len(answered) /\ (j = 1 \/ j - 1 <= i)
          BY <2>4, <4>3
        <5> QED BY <1>3, <4>1, <4>2, <5>1
      <4>4. answered[l].value = Entity(p)
        BY <2>1, <3>1, <4>2, <4>3 DEF BranchesTold, BranchRead
      <4> QED BY <4>2, <4>4
    <3>3. BranchTold(w)'
      <4> SUFFICES ASSUME IsBranch(p), ~IsToRead(w)', \A i : ~Brings(i, w)',
                          NEW s \in SubscribersAt(w), s.isObserver, NEW j, LastTo(j, s.id)'
                   PROVE  (Told[j])'.value = Entity(p)
        BY <2>2, <2>3 DEF BranchTold
      <4>1. \A i : Brings(i, w) => i = 1
        BY <2>4
      <4>2. PICK e : e = (Told[j])'
        OBVIOUS
      <4>3. e.to.id = s.id
        BY <4>2 DEF LastTo
      <4>4. CASE Brings(1, w)
        <5>1. w = a /\ value = answered[1].value
          BY <1>2, <4>4 DEF Brings
        <5>2. value = Entity(p)
          <6>1. \A i : Brings(i, w) => i <= 1
            BY <4>1
          <6> QED BY <2>1, <3>1, <4>4, <5>1, <6>1 DEF BranchesTold, BranchRead
        <5>3. w \in Places \cap (a .. (d - 1))
          BY <1>1, <5>1
        <5>4. Heard(n, w)
          <6>1. JobAt(1).left # <<>>
            BY <1>2, <5>1 DEF From, Places
          <6>2. ChangedBelow(n, w)
            BY <1>2, <5>1, <6>1 DEF JobsOK, JobOK
          <6> QED BY <6>2, HaltsAt
        <5>5. PICK v \in Places \cap (a .. (d - 1)) : e \in Tells(n, v, ToldThere(n, a, v, value))
          BY <4>2, <5>3, <5>4 DEF Hears
        <5>6. PICK says : says = ToldThere(n, a, v, value)
          OBVIOUS
        <5>7. v = w /\ e.value = says
          <6>1. v \in Places /\ e \in Tells(n, v, says)
            BY <5>5, <5>6
          <6>2. v = w /\ e.operation = n /\ Heard(n, v) /\ (s.isObserver => e.value = says)
            BY <4>3, <6>1, EventTold
          <6> QED BY <6>2
        <5> QED BY <4>2, <5>1, <5>2, <5>6, <5>7 DEF ToldThere
      <4>5. CASE ~Brings(1, w)
        <5>1. \A i : ~Brings(i, w)
          BY <4>1, <4>5
        <5>2. ASSUME NEW v \in Places \cap (a .. (d - 1)), e \in Tells(n, v, ToldThere(n, a, v, value))
              PROVE  FALSE
          <6>1. PICK says : says = ToldThere(n, a, v, value)
            OBVIOUS
          <6>2. v = w /\ Heard(n, w)
            <7>1. v \in Places /\ e \in Tells(n, v, says)
              BY <5>2, <6>1
            <7>2. v = w /\ e.operation = n /\ Heard(n, v) /\ (s.isObserver => e.value = says)
              BY <4>3, <7>1, EventTold
            <7> QED BY <7>2
          <6>3. w # a
            <7> SUFFICES ASSUME w = a PROVE FALSE
              OBVIOUS
            <7>1. 1 \in 1 .. Len(answered) /\ answered[1].read # <<>>
              BY <1>3
            <7> QED BY <1>2, <4>5, <7>1 DEF Brings
          <6>4. PICK k \in Key : Changed(n, k) /\ (IsPrefix(k, p) \/ IsStrictPrefix(p, k))
            BY <1>1, <2>1, <6>2, HaltsAt
          <6>5. ChangedBelow(n, w)
            BY <2>1, <6>4 DEF ChangedBelow, IsBranch
          <6>6. w \in Halts(n)
            BY <2>6, <6>5, HaltsAt
          <6>7. w \in (a + 1) .. (d - 1)
            BY <1>1, <6>2, <6>3
          <6> QED BY <1>1, <6>6, <6>7
        <5>3. LastTo(j, s.id) /\ e = Told[j]
          BY <4>2, <5>2 DEF Hears
        <5> QED BY <2>1, <3>1, <4>2, <5>1, <5>3 DEF BranchesTold, BranchTold
      <4> QED BY <4>4, <4>5
    <3> QED BY <3>2, <3>3
  <2> QED BY <2>5, <2>6
<1>5. Places' = Places
  BY SameWay
<1> QED BY <1>4, <1>5 DEF BranchesTold

LEMMA AnnounceSettles ==
    ASSUME InvWatch, NamesOK, Singles, NoneAbove, Settling, AnnounceChanges, rejected' = {}
    PROVE  Settling'
<1>1. /\ UNCHANGED <<storeVars, watchers, diffs>> /\ answered # <<>> /\ answered' = Tail(answered)
  BY DEF AnnounceChanges
<1>2. Extended
  BY <1>1 DEF Extended
<1>3. JobsOK /\ LaterTrails /\ LatestIsSeen /\ LeavesTold /\ BranchesTold
  BY DEF Settling
<1>4. PICK n, a, d, u, x, f, value :
              /\ IsFirst(n, a, u) /\ GoesOn(n, a, d, u, x) /\ MovesUp(f, d, u, x)
              /\ Hears(n, a, d, value)
              /\ a \in Places => answered[1].read # <<>> /\ value = answered[1].value
  BY <1>3, AnnounceIs
<1>5. JobsOK'
  BY <1>1, <1>2, <1>3, <1>4, AnnounceJobs
<1>6. LaterTrails'
  BY <1>1, <1>2, <1>3, <1>4, AnnounceTrails
<1>7. LatestIsSeen'
  BY <1>1, <1>3, SameStore DEF LatestIsSeen, Changed
<1>8. LeavesTold'
  BY <1>1, <1>2, <1>3, <1>4, AnnounceLeaves
<1>9. BranchesTold'
  BY <1>1, <1>2, <1>3, <1>4, <1>5, AnnounceBranches
<1> QED BY <1>5, <1>6, <1>7, <1>8, <1>9 DEF Settling

-----------------------------------------------------------------------------

\* Only those who subscribed before were told of anything.
ToldAreMade == \A j, id : LastTo(j, id) => id \in 1 .. Len(made)

\* Observers stay, and who joins is not one of those there were.
Stay ==
    /\ Len(watchers) \in Nat /\ Len(watchers') \in Nat /\ Len(watchers) <= Len(watchers')
    /\ \A b \in Places : /\ b \in Places' /\ watchers'[b].path = watchers[b].path
                         /\ Observed(b) => Observed(b)'
    /\ \A b \in Places' : \A s \in SubscribersAt(b)' :
          s.id \in 1 .. Len(made) => b \in Places /\ s \in SubscribersAt(b)

LEMMA ObserversAre ==
    ASSUME InvWatch, NamesOK
    PROVE  ObserversStay <=> \A id \in 1 .. Len(made) : made[id] =>
                \E b \in Places : \E s \in SubscribersAt(b) : s.isObserver /\ s.id = id
<1>1. DOMAIN made = 1 .. Len(made)
  BY LenProperties DEF InvWatch, MadeOK
<1>2. \A s : s \in Subscriptions <=> \E b \in Places : s \in SubscribersAt(b)
  <2>1. DOMAIN watchers = Places
    BY WatchersAre DEF InvWatch
  <2> QED BY <2>1 DEF Subscriptions, SubscribersAt
<1>3. \A b \in Places : \A s \in SubscribersAt(b) : s.id \in 1 .. Len(made) /\ s.isObserver = made[s.id]
  BY DEF NamesOK
<1> QED BY <1>1, <1>2, <1>3 DEF ObserversStay

LEMMA ObserversAreThen ==
    (InvWatch /\ NamesOK)' =>
        (ObserversStay <=> \A id \in 1 .. Len(made) : made[id] =>
                \E b \in Places : \E s \in SubscribersAt(b) : s.isObserver /\ s.id = id)'
<1>1. InvWatch /\ NamesOK =>
        (ObserversStay <=> \A id \in 1 .. Len(made) : made[id] =>
                \E b \in Places : \E s \in SubscribersAt(b) : s.isObserver /\ s.id = id)
  BY ObserversAre
<1> QED BY <1>1, PTL

LEMMA WatchStays ==
    ASSUME InvWatch, InvWatch', NamesOK, NamesOK', Watch, ObserversStay'
    PROVE  Stay /\ ObserversStay /\ 1 .. Len(made) \subseteq 1 .. Len(made')
<1>1. PICK at, joined :
              /\ Rewatched(at, joined)
              /\ \/ joined = {} /\ made' = made
                 \/ \E new : /\ joined = {new} /\ new.id = Len(made) + 1
                             /\ made' = Append(made, new.isObserver)
  BY WatchIs
<1>2. /\ Len(watchers) \in Nat /\ Len(watchers') \in {Len(watchers), Len(watchers) + 1}
      /\ \A b \in Places : /\ watchers'[b].path = watchers[b].path
                           /\ SubscribersAt(b)' \subseteq SubscribersAt(b) \cup {s \in joined : b = at}
      /\ \A b \in Places' : b \notin Places => SubscribersAt(b)' \subseteq joined
  BY <1>1, WatchersAre DEF Rewatched, InvWatch
<1>3. /\ Len(watchers') \in Nat /\ Len(watchers) <= Len(watchers')
      /\ \A b \in Places : b \in Places'
  BY <1>2 DEF Places
<1>4. Len(made) \in Nat /\ IsSequence(made)
  BY LenProperties DEF InvWatch, MadeOK, IsSequence
<1>5. /\ 1 .. Len(made) \subseteq 1 .. Len(made') /\ \A i \in 1 .. Len(made) : made'[i] = made[i]
      /\ \A s \in joined : s.id \notin 1 .. Len(made)
  <2>1. CASE joined = {} /\ made' = made
    BY <2>1
  <2>2. CASE joined # {}
    <3>1. PICK new : /\ joined = {new} /\ new.id = Len(made) + 1
                     /\ made' = Append(made, new.isObserver)
      BY <1>1, <2>2
    <3>2. Len(made') = Len(made) + 1 /\ \A i \in 1 .. Len(made) : made'[i] = made[i]
      BY <1>4, <3>1, Appended
    <3> QED BY <1>4, <3>1, <3>2
  <2> QED BY <1>1, <2>1, <2>2
<1>6. \A b \in Places' : \A s \in SubscribersAt(b)' :
          s.id \in 1 .. Len(made) => b \in Places /\ s \in SubscribersAt(b)
  BY <1>2, <1>5
<1>7. ASSUME NEW id \in 1 .. Len(made), made[id]
      PROVE  \E b \in Places : \E s \in SubscribersAt(b) : s \in SubscribersAt(b)' /\ s.isObserver /\ s.id = id
  <2>1. id \in 1 .. Len(made') /\ made'[id]
    BY <1>5, <1>7
  <2>2. PICK b \in Places' : \E s \in SubscribersAt(b)' : s.isObserver /\ s.id = id
    BY <2>1, ObserversAreThen
  <2> QED BY <1>6, <2>2
<1>8. ObserversStay
  BY <1>7, ObserversAre
<1>9. ASSUME NEW b \in Places, Observed(b) PROVE Observed(b)'
  <2>1. PICK s \in SubscribersAt(b) : s.isObserver
    BY <1>9 DEF Observed
  <2>2. s.id \in 1 .. Len(made) /\ made[s.id]
    BY <2>1 DEF NamesOK
  <2>3. PICK c \in Places : \E t \in SubscribersAt(c) : t \in SubscribersAt(c)' /\ t.isObserver /\ t.id = s.id
    BY <1>7, <2>2
  <2>4. PICK t \in SubscribersAt(c) : t \in SubscribersAt(c)' /\ t.isObserver /\ t.id = s.id
    BY <2>3
  <2>5. c = b
    BY <2>4 DEF NamesOK
  <2> QED BY <2>4, <2>5 DEF Observed
<1> QED BY <1>2, <1>3, <1>5, <1>6, <1>8, <1>9 DEF Stay

-----------------------------------------------------------------------------

\* Where a job is under way to when somebody joined or some left: as before, but that an
\* announcement that is to start goes to whoever joined.
KeepsWay(x) ==
    /\ JobOK(x)' /\ From(x)' = From(x) /\ From(x) \in Nat
    /\ Until(x) \in Nat /\ Until(x)' \in Nat /\ Until(x) <= Until(x)'
    /\ x.left = <<>> => From(x) = 0 /\ Until(x)' = Len(watchers')
    /\ x.left # <<>> => /\ From(x) \in Places /\ Until(x)' = Until(x) /\ Until(x) <= Len(watchers')

LEMMA WatchKeepsWay ==
    ASSUME InvWatch, InvWatch', NamesOK, NamesOK', Stay, diffs' = diffs, NEW x, JobOK(x)
    PROVE  KeepsWay(x)
<1>1. /\ Len(watchers) \in Nat /\ Len(watchers') \in Nat /\ Len(watchers) <= Len(watchers')
      /\ \A b \in Places : /\ b \in Places' /\ watchers'[b].path = watchers[b].path
                           /\ Observed(b) => Observed(b)'
  BY DEF Stay
<1>2. /\ From(x) \in Nat /\ Until(x) \in Nat /\ Until(x) <= Len(watchers)
      /\ x.left = <<>> => From(x) = 0 /\ Until(x) = Len(watchers)
      /\ x.left # <<>> => From(x) \in Places /\ Until(x) = From(x) + Len(x.left) - 1
  BY FromIs DEF InvWatch
<1>3. CASE x.left = <<>>
  <2>1. From(x)' = 0 /\ Until(x)' = Len(watchers')
    BY <1>3 DEF From, Until
  <2>2. JobOK(x)'
    BY <1>3 DEF JobOK
  <2> HIDE DEF From, Until
  <2> QED BY <1>1, <1>2, <1>3, <2>1, <2>2 DEF KeepsWay
<1>4. CASE x.left # <<>>
  <2>1. PICK a \in Places : a = From(x)
    BY <1>2, <1>4
  <2>2. RunsFrom(x.left, a - 1) /\ Observed(a) /\ ChangedBelow(x.operation, a) /\ x.left \in Seq(Watched)
    BY <1>4, <2>1 DEF JobOK
  <2>3. RunsFrom(x.left, a - 1)' /\ Observed(a)' /\ ChangedBelow(x.operation, a)'
    <3>1. RunsFrom(x.left, a - 1)'
      BY <1>1, <2>2 DEF RunsFrom
    <3>2. ChangedBelow(x.operation, a)'
      BY <1>1, <2>2 DEF ChangedBelow, Changed
    <3> QED BY <1>1, <2>2, <3>1, <3>2
  <2>4. watchers'[a].path = x.left[1] /\ a \in Places'
    <3>1. 1 \in 1 .. Len(x.left)
      <4>1. Len(x.left) \in Nat \ {0}
        BY <1>4, <2>2, EmptySeq, LenProperties
      <4> QED BY <4>1
    <3>2. (a - 1) + 1 = a
      BY <1>1 DEF Places
    <3>3. x.left[1] = watchers[a].path
      BY <2>2, <3>1, <3>2 DEF RunsFrom
    <3> QED BY <1>1, <3>3
  <2>5. From(x)' = a
    <3>1. \A b \in Places' : watchers'[b].path = x.left[1] => b = a
      BY <2>4 DEF NamesOK
    <3>2. (CHOOSE b \in Places' : watchers'[b].path = x.left[1]) = a
      BY <2>4, <3>1
    <3> QED BY <1>4, <3>2 DEF From
  <2>6. Until(x)' = Until(x)
    <3>1. Until(x)' = From(x)' + Len(x.left) - 1
      BY <1>4 DEF Until
    <3> HIDE DEF Until
    <3> QED BY <1>2, <1>4, <2>1, <2>5, <3>1
  <2>7. JobOK(x)'
    <3>1. x.operation \in 0 .. Len(diffs)'
      BY DEF JobOK
    <3>2. From(x)' \in Places' /\ RunsFrom(x.left, From(x) - 1)' /\ Observed(From(x))' /\ ChangedBelow(x.operation, From(x))'
      <4>1. RunsFrom(x.left, From(x) - 1)'
        BY <2>3, <2>5 DEF RunsFrom
      <4>2. Observed(From(x))'
        BY <2>3, <2>5 DEF Observed
      <4>3. ChangedBelow(x.operation, From(x))'
        BY <2>3, <2>5 DEF ChangedBelow
      <4> QED BY <2>4, <2>5, <4>1, <4>2, <4>3
    <3> QED BY <2>2, <3>1, <3>2 DEF JobOK
  <2>8. Until(x) <= Len(watchers')
    BY <1>1, <1>2
  <2> HIDE DEF From, Until
  <2> QED BY <1>1, <1>2, <1>4, <2>1, <2>5, <2>6, <2>7, <2>8 DEF KeepsWay
<1> QED BY <1>3, <1>4

\* The job i is x, before and after.
Keeps(i, x) ==
    /\ x = JobAt(i) /\ KeepsWay(x) /\ JobAt(i)' = x
    /\ (JobAt(i).operation)' = JobAt(i).operation
    /\ From(JobAt(i))' = From(x)' /\ Until(JobAt(i))' = Until(x)'
    /\ JobOK(JobAt(i))'

LEMMA WatchTrails ==
    ASSUME NEW i, NEW j, NEW x, NEW y, Keeps(i, x), Keeps(j, y), Trails(j, i), \A a \in Places : a > 0
    PROVE  Trails(j, i)'
<1>2. KeepsWay(x) /\ KeepsWay(y)
  BY DEF Keeps
<1>3. /\ From(JobAt(i))' = From(x)' /\ Until(JobAt(i))' = Until(x)'
      /\ From(JobAt(j))' = From(y)' /\ Until(JobAt(j))' = Until(y)'
  BY DEF Keeps
<1>4. From(y) <= From(x) /\ Until(x) <= Until(y) /\ (From(y) = From(x) => i < j)
  BY DEF Trails, Keeps
<1>5. From(y)' <= From(x)' /\ (From(y)' = From(x)' => i < j)
  BY <1>2, <1>4 DEF KeepsWay
<1>6. Until(x)' <= Until(y)'
  <2>1. CASE x.left = <<>>
    <3>1. y.left = <<>>
      BY <1>2, <1>4, <2>1 DEF KeepsWay
    <3>2. Until(x)' = Until(y)'
      BY <1>2, <2>1, <3>1 DEF KeepsWay
    <3> QED BY <1>2, <3>2 DEF KeepsWay
  <2>2. CASE x.left # <<>>
    BY <1>2, <1>4, <2>2 DEF KeepsWay
  <2> QED BY <2>1, <2>2
<1> QED BY <1>3, <1>5, <1>6 DEF Trails

LEMMA WatchSettles ==
    ASSUME InvWatch, InvWatch', NamesOK, NamesOK', Settling, ToldAreMade, Watch, Stay
    PROVE  Settling'
<1>1. /\ UNCHANGED <<storeVars, diffs>> /\ answered' = answered /\ queue' = queue /\ Told' = Told
      /\ diffs' = diffs
  BY DEF Watch, Told
<1>2. Jobs' = Jobs /\ Len(answered') = Len(answered) /\ \A i \in Jobs : JobAt(i)' = JobAt(i)
  BY <1>1, UntouchedCarries
<1>3. \A i \in Jobs : \E x : Keeps(i, x)
  <2> SUFFICES ASSUME NEW i \in Jobs PROVE \E x : Keeps(i, x)
    OBVIOUS
  <2>1. PICK x : x = JobAt(i)
    OBVIOUS
  <2>2. KeepsWay(x)
    BY <1>1, <2>1, WatchKeepsWay DEF Settling, JobsOK
  <2>3. JobAt(i)' = x
    BY <1>2, <2>1
  <2>4. From(JobAt(i))' = From(x)' /\ Until(JobAt(i))' = Until(x)'
    BY <2>3 DEF From, Until, Places
  <2>5. JobOK(x)'
    BY <2>2 DEF KeepsWay
  <2>6. JobOK(JobAt(i))'
    BY <2>3, <2>5 DEF JobOK
  <2> QED BY <2>1, <2>2, <2>3, <2>4, <2>6 DEF Keeps
<1>4. /\ Len(watchers) \in Nat
      /\ \A b \in Places : b > 0 /\ b \in Places' /\ watchers'[b].path = watchers[b].path
      /\ \A b \in Places' : \A s \in SubscribersAt(b)' :
            s.id \in 1 .. Len(made) => b \in Places /\ s \in SubscribersAt(b)
  BY DEF Stay, Places
<1>5. \A i \in Jobs : /\ From(JobAt(i))' = From(JobAt(i)) /\ (JobAt(i).operation)' = JobAt(i).operation
                      /\ From(JobAt(i)) \in Nat
                      /\ Until(JobAt(i)) \in Nat /\ Until(JobAt(i))' \in Nat
                      /\ Until(JobAt(i)) <= Until(JobAt(i))'
                      /\ JobAt(i).left # <<>> => From(JobAt(i)) \in Places
  BY <1>3 DEF Keeps, KeepsWay
<1>6. JobsOK'
  <2> SUFFICES ASSUME NEW i \in Jobs'
               PROVE  /\ JobOK(JobAt(i))'
                      /\ (JobAt(i).left = <<>> /\ i > Len(answered))' => (JobAt(i).operation)' = 0
    BY DEF JobsOK
  <2>1. JobOK(JobAt(i))'
    BY <1>2, <1>3 DEF Keeps
  <2>2. (JobAt(i).left = <<>> /\ i > Len(answered))' => (JobAt(i).operation)' = 0
    BY <1>2 DEF Settling, JobsOK
  <2> QED BY <2>1, <2>2
<1>7. \A n, k : Changed(n, k)' <=> Changed(n, k)
  BY <1>1 DEF Changed
<1>8. LaterTrails'
  <2> SUFFICES ASSUME NEW k \in Key, NEW n, NEW m, n < m, Changed(n, k)', Changed(m, k)',
                      NEW i \in Jobs', (JobAt(i).operation)' = n
               PROVE  IsTrailed(i, m)'
    BY DEF LaterTrails
  <2>1. i \in Jobs /\ JobAt(i).operation = n
    BY <1>2, <1>5
  <2>2. PICK j \in Jobs : JobAt(j).operation = m /\ Trails(j, i)
    BY <1>7, <2>1 DEF Settling, LaterTrails, IsTrailed
  <2>3. PICK x, y : Keeps(i, x) /\ Keeps(j, y)
    BY <1>3, <2>1
  <2>4. Trails(j, i)'
    BY <1>4, <2>2, <2>3, WatchTrails
  <2> QED BY <1>2, <1>5, <2>2, <2>4 DEF IsTrailed
<1>9. LatestIsSeen'
  <2>1. \A k : View(k)' = View(k)
    BY <1>1, SameStore
  <2> QED BY <1>1, <1>7, <2>1 DEF Settling, LatestIsSeen
<1>10. \A n : \A a \in Places : IsToCome(n, a) => IsToCome(n, a)'
  <2> SUFFICES ASSUME NEW n, NEW a \in Places, IsToCome(n, a) PROVE IsToCome(n, a)'
    OBVIOUS
  <2>1. PICK i \in Jobs : JobAt(i).operation = n /\ From(JobAt(i)) < a /\ a <= Until(JobAt(i))
    BY DEF IsToCome
  <2>2. a <= Until(JobAt(i))'
    BY <1>5, <2>1 DEF Places
  <2> QED BY <1>2, <1>5, <2>1, <2>2 DEF IsToCome
<1>11. LeavesTold'
  <2> SUFFICES ASSUME NEW a \in Places', NEW s \in SubscribersAt(a)', NEW k \in Key,
                      s.isObserver, IsPrefix(k, watchers'[a].path), NEW j, LastTo(j, s.id)'
               PROVE  LastInLeaf(Told[j], a, k)'
    BY DEF LeavesTold
  <2>1. LastTo(j, s.id)
    BY <1>1 DEF LastTo
  <2>2. a \in Places /\ s \in SubscribersAt(a) /\ watchers'[a].path = watchers[a].path
    BY <1>4, <2>1 DEF ToldAreMade
  <2>3. PICK e : e = Told[j]
    OBVIOUS
  <2>4. LastInLeaf(e, a, k)
    BY <2>1, <2>2, <2>3 DEF Settling, LeavesTold
  <2>5. LastInLeaf(e, a, k)'
    <3>1. ValueIn(e.operation, k, watchers[a].path)' = ValueIn(e.operation, k, watchers[a].path)
      BY <1>1, <2>2 DEF ValueIn
    <3> QED BY <1>7, <1>10, <2>2, <2>4, <3>1 DEF LastInLeaf
  <2>6. (Told[j])' = e
    BY <1>1, <2>3
  <2> QED BY <2>5, <2>6 DEF LastInLeaf
<1>12. BranchesTold'
  <2> SUFFICES ASSUME NEW a \in Places' PROVE BranchRead(a)' /\ BranchTold(a)'
    BY DEF BranchesTold
  <2>1. \A i : Brings(i, a)' => a \in Places /\ Brings(i, a) /\ answered'[i] = answered[i]
    <3> SUFFICES ASSUME NEW i, Brings(i, a)' PROVE a \in Places /\ Brings(i, a)
      BY <1>1
    <3>1. i \in 1 .. Len(answered) /\ answered[i].read # <<>> /\ From(JobAt(i))' = a
      BY <1>1 DEF Brings
    <3>2. i \in Jobs /\ JobAt(i).left = answered[i].read
      <4>1. Len(answered) \in Nat /\ Count \in Nat /\ Len(queue) \in Nat
        BY CountIs
      <4>2. i \in Jobs /\ i <= Len(answered)
        BY <3>1, <4>1 DEF Jobs, Count
      <4> QED BY <4>2 DEF JobAt, Job
    <3>3. From(JobAt(i)) = a /\ a \in Places
      BY <1>5, <3>1, <3>2
    <3> QED BY <3>1, <3>3 DEF Brings
  <2>2. ASSUME a \in Places, ~IsToRead(a)' PROVE ~IsToRead(a)
    <3> SUFFICES ASSUME IsToRead(a) PROVE IsToRead(a)'
      BY <2>2
    <3>1. PICK i \in Jobs : /\ ChangedBelow(JobAt(i).operation, a)
                            /\ From(JobAt(i)) < a \/ (From(JobAt(i)) = a /\ i > Len(answered))
                            /\ a <= Until(JobAt(i))
      BY DEF IsToRead
    <3>2. a <= Until(JobAt(i))'
      BY <1>5, <2>2, <3>1 DEF Places
    <3>3. ChangedBelow(JobAt(i).operation, a)'
      BY <1>4, <1>5, <1>7, <2>2, <3>1 DEF ChangedBelow
    <3>4. (From(JobAt(i)) < a \/ (From(JobAt(i)) = a /\ i > Len(answered)))'
      BY <1>2, <1>5, <3>1
    <3> QED BY <1>2, <3>2, <3>3, <3>4 DEF IsToRead
  <2>3. ASSUME a \in Places
        PROVE  /\ watchers'[a].path = watchers[a].path
               /\ Entity(watchers[a].path)' = Entity(watchers[a].path)
               /\ \A i : Brings(i, a) => Brings(i, a)'
    <3>1. watchers'[a].path = watchers[a].path
      BY <1>4, <2>3
    <3>2. PICK p : p = watchers[a].path
      OBVIOUS
    <3>3. Entity(p)' = Entity(p)
      BY <1>1, SameStore
    <3>4. Entity(watchers[a].path)' = Entity(p)'
      BY <3>1, <3>2 DEF Entity, Below
    <3>5. ASSUME NEW i, Brings(i, a) PROVE Brings(i, a)'
      <4>1. i \in 1 .. Len(answered) /\ answered[i].read # <<>> /\ From(JobAt(i)) = a
        BY <3>5 DEF Brings
      <4>2. i \in Jobs
        <5>1. Len(answered) \in Nat /\ Count \in Nat /\ Len(queue) \in Nat
          BY CountIs
        <5> QED BY <4>1, <5>1 DEF Jobs, Count
      <4> QED BY <1>1, <1>5, <4>1, <4>2 DEF Brings
    <3> QED BY <3>1, <3>2, <3>3, <3>4, <3>5
  <2>4. BranchRead(a)'
    <3> SUFFICES ASSUME IsBranch(watchers'[a].path), ~IsToRead(a)', NEW i, Brings(i, a)',
                        \A j : Brings(j, a)' => j <= i
                 PROVE  answered'[i].value = Entity(watchers[a].path)'
      BY DEF BranchRead, IsBranch
    <3>1. a \in Places /\ Brings(i, a) /\ answered'[i] = answered[i]
      BY <2>1
    <3>2. \A j : Brings(j, a) => j <= i
      BY <2>3, <3>1
    <3>3. answered[i].value = Entity(watchers[a].path)
      BY <2>2, <2>3, <3>1, <3>2 DEF Settling, BranchesTold, BranchRead
    <3> QED BY <2>3, <3>1, <3>3
  <2>5. BranchTold(a)'
    <3> SUFFICES ASSUME IsBranch(watchers'[a].path), ~IsToRead(a)', \A i : ~Brings(i, a)',
                        NEW s \in SubscribersAt(a)', s.isObserver, NEW j, LastTo(j, s.id)'
                 PROVE  (Told[j].value)' = Entity(watchers[a].path)'
      BY DEF BranchTold, IsBranch
    <3>1. LastTo(j, s.id)
      BY <1>1 DEF LastTo
    <3>2. a \in Places /\ s \in SubscribersAt(a)
      BY <1>4, <3>1 DEF ToldAreMade
    <3>3. \A i : ~Brings(i, a)
      BY <2>3, <3>2
    <3>4. Told[j].value = Entity(watchers[a].path)
      BY <2>2, <2>3, <3>1, <3>2, <3>3 DEF Settling, BranchesTold, BranchTold
    <3> QED BY <1>1, <2>3, <3>2, <3>4
  <2> QED BY <2>4, <2>5
<1> QED BY <1>6, <1>8, <1>9, <1>11, <1>12 DEF Settling

-----------------------------------------------------------------------------

LEMMA WatchTold ==
    ASSUME ToldAreMade, Watch, 1 .. Len(made) \subseteq 1 .. Len(made')
    PROVE  ToldAreMade'
<1>1. Told' = Told
  BY DEF Watch, Told
<1>2. \A j, id : LastTo(j, id)' => LastTo(j, id)
  BY <1>1 DEF LastTo
<1> QED BY <1>2 DEF ToldAreMade

LEMMA SameTold ==
    ASSUME ToldAreMade, Told' = Told, made' = made
    PROVE  ToldAreMade'
  BY DEF ToldAreMade, LastTo

LEMMA AnnounceTold ==
    ASSUME InvWatch, NamesOK, JobsOK, Singles, ToldAreMade, AnnounceChanges, rejected' = {}
    PROVE  ToldAreMade'
<1>1. PICK n, a, d, u, x, f, value :
              /\ IsFirst(n, a, u) /\ GoesOn(n, a, d, u, x) /\ MovesUp(f, d, u, x)
              /\ Hears(n, a, d, value)
              /\ a \in Places => answered[1].read # <<>> /\ value = answered[1].value
  BY AnnounceIs
<1>2. ASSUME NEW j, NEW id, LastTo(j, id)' PROVE id \in 1 .. Len(made')
  <2>1. made' = made
    BY DEF AnnounceChanges
  <2>2. CASE LastTo(j, id)
    BY <2>1, <2>2 DEF ToldAreMade
  <2>3. CASE ~LastTo(j, id)
    <3>1. PICK w \in Places : (Told[j])' \in Tells(n, w, ToldThere(n, a, w, value))
      BY <1>1, <1>2, <2>3 DEF Hears
    <3>2. PICK e : e = (Told[j])'
      OBVIOUS
    <3>3. e.to \in SubscribersAt(w)
      BY <3>1, <3>2 DEF Tells
    <3>4. e.to.id = id
      BY <1>2, <3>2 DEF LastTo
    <3> QED BY <2>1, <3>3, <3>4 DEF NamesOK
  <2> QED BY <2>2, <2>3
<1> QED BY <1>2 DEF ToldAreMade

-----------------------------------------------------------------------------

\* What the next operation of the queue does, if it is no read.
Done(order) ==
    /\ order \in Seq(Change) /\ Answers(order) /\ Follows(order)
    /\ queue # <<>> /\ queue[1] \in Requests

Refused ==
    /\ queue # <<>> /\ queue[1] \in Requests /\ queue' = Tail(queue)
    /\ UNCHANGED <<storeVars, watchers, answered, tasks, diffs, calls, rejected, sent, made>>

LEMMA CommitTransactionDone ==
    ASSUME InvAll, CommitTransaction
    PROVE  Refused \/ \E order : Done(order)
<1>1. queue # <<>> /\ Now = queue[1] /\ 1 \in 1 .. Len(queue)
  BY NowIs DEF InvAll, InvWatch, CommitTransaction
<1>2. queue[1] \in Requests /\ Now.op = "commitLocalTransaction"
  BY <1>1 DEF CommitTransaction, InvAll, InvWatch, QueueOK, IsRead
<1>3. PICK entries \in Entries : entries = Now.entries
  BY <1>1, <1>2, RequestIs
<1>4. CASE Assignable(Assignments(Now.entries))
  <2>1. PICK order : order = Kept(entries, diff'.changed)
    OBVIOUS
  <2>2. CommitLocalEntries(Assignments(entries)) /\ Answers(order)
    BY <1>3, <1>4, <2>1 DEF CommitTransaction
  <2>3. Follows(order)
    BY <2>1, <2>2, FollowsLocal DEF InvAll, InvStore
  <2>4. order \in Seq(Change)
    <3>1. entries \in Seq(Change)
      BY EntriesType
    <3>2. PICK changes : changes = diff'.changed
      OBVIOUS
    <3>3. Kept(entries, changes) \in Seq(Change \cap changes)
      BY <3>1, KeptIs
    <3> QED BY <2>1, <3>2, <3>3, SeqMonotonic
  <2> QED BY <1>1, <1>2, <2>2, <2>3, <2>4 DEF Done
<1>5. CASE ~Assignable(Assignments(Now.entries))
  BY <1>1, <1>2, <1>5 DEF CommitTransaction, Refused
<1> QED BY <1>4, <1>5

LEMMA CommitRemoteDone ==
    ASSUME InvAll, NoHeads, CommitRemote
    PROVE  \E order : Done(order)
<1>1. queue # <<>> /\ Now = queue[1] /\ 1 \in 1 .. Len(queue)
  BY NowIs DEF InvAll, InvWatch, CommitRemote
<1>2. queue[1] \in Requests /\ Now.op = "commitSerializedRemoteEntries"
  BY <1>1 DEF CommitRemote, InvAll, InvWatch, QueueOK, IsRead
<1>3. PICK batch \in Batches : batch = Now.batch
  BY <1>1, <1>2, RequestIs
<1>4. PICK order : order = SetToSeq(Unset(diff'.cleared)) \o SetToSeq(diff'.changed)
  OBVIOUS
<1>5. CommitRemoteEntries(batch) /\ Answers(order) /\ TypeOKStore
  BY <1>3, <1>4 DEF CommitRemote, InvAll, InvStore
<1>6. order \in Seq(Change)
  BY <1>4, <1>5, RemoteDiff
<1>7. Follows(order)
  BY <1>4, <1>5, FollowsRemote DEF NoHeads
<1> QED BY <1>1, <1>2, <1>5, <1>6, <1>7 DEF Done

LEMMA DiscardDone ==
    ASSUME InvAll, Discard
    PROVE  \E order : Done(order)
<1>1. queue # <<>> /\ Now = queue[1] /\ 1 \in 1 .. Len(queue)
  BY NowIs DEF InvAll, InvWatch, Discard
<1>2. queue[1] \in Requests /\ Now.op = "discardLocalEntryKeys"
  BY <1>1 DEF Discard, InvAll, InvWatch, QueueOK, IsRead
<1>3. PICK keys \in SUBSET Key : keys = Now.keys
  BY <1>1, <1>2, RequestIs
<1>4. PICK order : order = SetToSeq(diff'.changed)
  OBVIOUS
<1>5. DiscardLocalEntryKeys(keys) /\ Answers(order) /\ TypeOKStore
  BY <1>3, <1>4 DEF Discard, InvAll, InvStore
<1>6. order \in Seq(Change)
  BY <1>4, <1>5, DiscardDiff
<1>7. Follows(order)
  BY <1>4, <1>5, FollowsDiscard
<1> QED BY <1>1, <1>2, <1>5, <1>6, <1>7 DEF Done

LEMMA DoneSettles ==
    ASSUME InvAll, InvAll', isOpen, isOpen', NamesOK, NEW order, Done(order), Undisturbed',
           Undisturbed => Settling /\ ToldAreMade
    PROVE  Settling' /\ ToldAreMade'
<1>1. /\ watchers' = watchers /\ made' = made /\ rejected' = rejected /\ Told' = Told
      /\ diffs' = Append(diffs, order)
  BY DEF Done, Answers, Told
<1>2. Extended
  <2>1. /\ Len(diffs') = Len(diffs) + 1 /\ Len(diffs) \in Nat
        /\ \A n \in 1 .. Len(diffs) : diffs'[n] = diffs[n]
    BY <1>1, Appended, DiffsLength DEF InvAll, InvWatch, DiffsOK, IsSequence
  <2> QED BY <1>1, <2>1 DEF Extended
<1>3. Settling /\ ToldAreMade
  BY <1>1, <1>2, CalmBefore DEF InvAll
<1>4. Settling'
  BY <1>3, AnswersSettle DEF Done, Undisturbed
<1> QED BY <1>1, <1>3, <1>4, SameTold

-----------------------------------------------------------------------------

InvSettle == isOpen /\ NamesOK /\ (Undisturbed => Settling /\ ToldAreMade)

LEMMA InitSettle == Init => InvSettle
<1> SUFFICES ASSUME Init PROVE InvSettle
  OBVIOUS
<1>1. isOpen
  BY DEF Init, InitStore
<1>2. /\ Len(watchers) = 0 /\ Len(answered) = 0 /\ Len(queue) = 0 /\ Len(diffs) = 0
      /\ Len(Told) = 0
  BY DEF Init, Told
<1>3. \A i : i \notin 1 .. 0
  OBVIOUS
<1>4. \A i : i \notin Places /\ i \notin Jobs /\ i \notin 1 .. Len(diffs) /\ i \notin 1 .. Len(Told)
  BY <1>2, <1>3 DEF Places, Jobs, Count
<1>5. NamesOK
  BY <1>4 DEF NamesOK
<1>6. ToldAreMade
  BY <1>4 DEF ToldAreMade, LastTo
<1>7. Settling
  BY <1>4 DEF Settling, JobsOK, LaterTrails, LatestIsSeen, LeavesTold, BranchesTold, Changed
<1> QED BY <1>1, <1>5, <1>6, <1>7 DEF InvSettle

LEMMA NextSettle ==
    ASSUME NoneAbove, NoHeads, InvAll, InvAll', InvSettle, [Next]_allVars
    PROVE  InvSettle'
<1>1. isOpen /\ NamesOK /\ (Undisturbed => Settling /\ ToldAreMade)
  BY DEF InvSettle
<1>2. isOpen'
  BY <1>1 DEF Next, Execute, Send, CommitTransaction, CommitRemote, Discard, Read, AnnounceChanges,
              CallHandlers, Watch, CommitLocalEntries, CommitRemoteEntries, DiscardLocalEntryKeys,
              storeVars, allVars
<1>3. Watch \/ (watchers' = watchers /\ made' = made)
  BY DEF Next, Execute, Send, CommitTransaction, CommitRemote, Discard, Read, AnnounceChanges,
         CallHandlers, Answers, allVars, watchVars
<1>4. NamesOK'
  <2>1. CASE Watch
    BY <1>1, <2>1, WatchNames DEF InvAll
  <2>2. CASE watchers' = watchers /\ made' = made
    BY <1>1, <2>2 DEF NamesOK, Places, SubscribersAt
  <2> QED BY <1>3, <2>1, <2>2
<1>5. ASSUME Undisturbed' PROVE Settling' /\ ToldAreMade'
  <2>1. CASE Watch
    <3>1. Stay /\ ObserversStay /\ 1 .. Len(made) \subseteq 1 .. Len(made')
      BY <1>1, <1>4, <1>5, <2>1, WatchStays DEF InvAll, Undisturbed
    <3>2. Undisturbed
      BY <1>5, <2>1, <3>1 DEF Undisturbed, Singles, Watch
    <3> QED BY <1>1, <1>4, <2>1, <3>1, <3>2, WatchSettles, WatchTold DEF InvAll
  <2>2. ASSUME watchers' = watchers, diffs' = diffs, made' = made, rejected \subseteq rejected'
        PROVE  Settling /\ ToldAreMade /\ Singles
    <3>1. Extended
      BY <2>2 DEF Extended
    <3>2. Undisturbed
      BY <1>5, <2>2, <3>1, CalmBefore DEF InvAll
    <3> QED BY <1>1, <3>2 DEF Undisturbed
  <2>3. CASE Refused
    <3>1. Settling /\ ToldAreMade
      BY <2>2, <2>3 DEF Refused
    <3>2. Told' = Told /\ made' = made
      BY <2>3 DEF Refused, Told
    <3> QED BY <2>3, <3>1, <3>2, RefusedSettles, SameTold DEF Refused, InvAll
  <2>4. CASE \E order : Done(order)
    BY <1>1, <1>2, <1>5, <2>4, DoneSettles
  <2>5. CASE Read
    <3>1. Settling /\ ToldAreMade
      BY <2>2, <2>5 DEF Read
    <3>2. Told' = Told /\ made' = made
      BY <2>5 DEF Read, Told
    <3> QED BY <1>1, <2>5, <3>1, <3>2, ReadSettles, SameTold DEF InvAll
  <2>6. CASE Send
    <3>1. Settling /\ ToldAreMade
      BY <2>2, <2>6 DEF Send
    <3>2. Told' = Told /\ made' = made
      BY <2>6 DEF Send, Told
    <3> QED BY <2>6, <3>1, <3>2, SendSettles, SameTold DEF InvAll
  <2>7. CASE AnnounceChanges
    <3>1. rejected' = {} /\ rejected \subseteq rejected'
      BY <1>5, <2>7 DEF Undisturbed, AnnounceChanges
    <3>2. Settling /\ ToldAreMade /\ Singles
      BY <2>2, <2>7, <3>1 DEF AnnounceChanges
    <3> QED BY <1>1, <2>7, <3>1, <3>2, AnnounceSettles, AnnounceTold DEF InvAll, Settling
  <2>8. CASE CallHandlers
    <3>1. Settling /\ ToldAreMade
      BY <2>2, <2>8 DEF CallHandlers
    <3>2. Told' = Told /\ made' = made
      BY <2>8, CallHandlersTold DEF CallHandlers, InvAll
    <3>3. UNCHANGED <<storeVars, diffs, answered, queue, watchers>>
      BY <2>8 DEF CallHandlers
    <3> QED BY <3>1, <3>2, <3>3, Untouched, SameTold DEF InvAll
  <2>9. CASE UNCHANGED allVars
    <3>1. UNCHANGED <<storeVars, watchers, queue, answered, tasks, diffs, calls, rejected, sent, made>>
      BY <2>9 DEF allVars, watchVars
    <3>2. Settling /\ ToldAreMade
      BY <2>2, <3>1
    <3>3. Told' = Told /\ made' = made
      BY <3>1 DEF Told
    <3> QED BY <3>1, <3>2, <3>3, Untouched, SameTold DEF InvAll
  <2> QED BY <2>1, <2>3, <2>4, <2>5, <2>6, <2>7, <2>8, <2>9,
             CommitTransactionDone, CommitRemoteDone, DiscardDone DEF Next, Execute
<1> QED BY <1>2, <1>4, <1>5 DEF InvSettle

-----------------------------------------------------------------------------

LEMMA GreatestOf ==
    ASSUME NEW N \in Nat, NEW S, S \subseteq 1 .. N, S # {}
    PROVE  \E j \in S : \A k \in S : k <= j
<1> DEFINE T == {n \in Nat : N - n \in S}
<1>1. T # {}
  <2>1. PICK k \in S : k \in 1 .. N
    OBVIOUS
  <2>2. N - k \in Nat /\ N - (N - k) = k
    BY <2>1
  <2>3. N - k \in T
    BY <2>2
  <2> QED BY <2>3
<1>2. PICK n \in T : \A m \in T : n <= m
  <2>1. T \subseteq Nat
    OBVIOUS
  <2> HIDE DEF T
  <2> QED BY <1>1, <2>1, LeastOf
<1>3. ASSUME NEW k \in S PROVE k <= N - n
  <2>1. k \in 1 .. N /\ N - k \in Nat /\ N - (N - k) = k
    OBVIOUS
  <2>2. N - k \in T
    BY <2>1
  <2>3. n <= N - k /\ n \in Nat
    BY <1>2, <2>2
  <2> QED BY <2>1, <2>3
<1> QED BY <1>2, <1>3

\* Once all is done, nothing is to come, and the last that was told is told.
LEMMA AllTold ==
    ASSUME InvAll, NoneAbove, isOpen, Singles, Settling, Quiet,
           NEW a \in Places, NEW s \in SubscribersAt(a), s.isObserver,
           NEW j, LastTo(j, s.id)
    PROVE  Told[j].value = Entity(watchers[a].path)
<1>1. Len(answered) = 0 /\ Count = 0 /\ Jobs = {}
  BY DEF Quiet, Count, Jobs
<1>2. watchers[a].path \in Watched
  BY WatchersAre DEF InvAll, InvWatch
<1>3. PICK e : e = Told[j]
  OBVIOUS
<1>4. CASE \E k \in Key : IsPrefix(k, watchers[a].path)
  <2>1. PICK k \in Key : IsPrefix(k, watchers[a].path)
    BY <1>4
  <2>2. LastInLeaf(e, a, k)
    BY <1>3, <2>1 DEF Settling, LeavesTold
  <2>3. \A m : ~(e.operation < m /\ Changed(m, k))
    BY <1>1, <2>2 DEF LastInLeaf, IsToCome
  <2>4. PICK n \in 1 .. Len(diffs) : n = e.operation /\ Changed(n, k)
    BY <2>2 DEF LastInLeaf, Changed
  <2>5. \A m : Changed(m, k) => m <= n
    <3>1. Len(diffs) \in Nat
      BY DiffsLength DEF InvAll, InvWatch
    <3> QED BY <2>3, <2>4, <3>1 DEF Changed
  <2>6. View(k) = diffs[n][1].value
    BY <2>4, <2>5 DEF Settling, LatestIsSeen
  <2>7. Entity(watchers[a].path) = Inside(View(k), SubSeq(watchers[a].path, Len(k) + 1, Len(watchers[a].path)))
    BY <1>2, <2>1, EntityInLeaf DEF InvAll, InvStore
  <2> QED BY <1>3, <2>2, <2>4, <2>6, <2>7 DEF LastInLeaf, ValueIn
<1>5. CASE IsBranch(watchers[a].path)
  <2>1. ~IsToRead(a) /\ \A i : ~Brings(i, a)
    <3>1. \A i : i \notin 1 .. 0
      OBVIOUS
    <3> QED BY <1>1, <3>1 DEF IsToRead, Brings
  <2> QED BY <1>5, <2>1 DEF Settling, BranchesTold, BranchTold
<1> QED BY <1>4, <1>5 DEF IsBranch

LEMMA ObserversSettled == ASSUME NoneAbove, InvAll, InvSettle PROVE ObserversSettle
<1> SUFFICES ASSUME Quiet, rejected = {}, ObserversStay, \A n \in DOMAIN diffs : Len(diffs[n]) <= 1,
                    NEW a \in DOMAIN watchers, NEW s \in ToSet(watchers[a].subscribers),
                    s.isObserver, CallsTo(s.id) # {}
             PROVE  calls[CHOOSE j \in CallsTo(s.id) : \A k \in CallsTo(s.id) : k <= j].value
                        = Entity(watchers[a].path)
  BY DEF ObserversSettle
<1>1. a \in Places /\ s \in SubscribersAt(a)
  BY WatchersAre DEF InvAll, InvWatch, SubscribersAt
<1>2. isOpen /\ Singles /\ Settling
  <2>1. DOMAIN diffs = 1 .. Len(diffs)
    BY LenProperties DEF InvAll, InvWatch, DiffsOK
  <2> QED BY <2>1 DEF InvSettle, Undisturbed, Singles
<1>3. Told = calls
  <2>1. PICK S : calls \in Seq(S)
    BY DEF InvAll, InvWatch, AreEvents, IsSequence
  <2> QED BY <2>1, ConcatEmptySeq DEF Quiet, Told
<1>4. Len(calls) \in Nat /\ DOMAIN calls = 1 .. Len(calls)
  BY LengthOf DEF InvAll, InvWatch, AreEvents
<1>5. PICK its : its = CallsTo(s.id)
  OBVIOUS
<1>6. its \subseteq 1 .. Len(calls) /\ its # {} /\ its = {i \in 1 .. Len(calls) : calls[i].to.id = s.id}
  BY <1>4, <1>5 DEF CallsTo
<1>7. PICK last : last = CHOOSE j \in its : \A k \in its : k <= j
  OBVIOUS
<1>8. last \in its /\ \A k \in its : k <= last
  BY <1>4, <1>6, <1>7, GreatestOf
<1>9. LastTo(last, s.id)
  BY <1>3, <1>6, <1>8 DEF LastTo
<1>10. Told[last].value = Entity(watchers[a].path)
  BY <1>1, <1>2, <1>9, AllTold
<1> QED BY <1>3, <1>5, <1>7, <1>10

\* Where no key is above another one and no answer of the server has a head entry: while
\* every observer stayed, no read failed and each operation changed one key, what an
\* observer was told last is, once all is done, what a read returns; for any number of
\* keys, paths, operations and observers, whatever an announcement waits for, and whatever
\* is announced, subscribed to or unsubscribed from meanwhile.
THEOREM ObserversEndUpToDate ==
    ASSUME Heritage = {}, NoHeads
    PROVE  Spec => []ObserversSettle
<1>1. NoneAbove
  BY NoHeritage
<1>2. InvAll /\ InvAll' /\ InvSettle /\ [Next]_allVars => InvSettle'
  BY <1>1, NextSettle
<1>3. InvAll /\ InvSettle => ObserversSettle
  BY <1>1, ObserversSettled
<1> QED BY <1>2, <1>3, InitAll, NextAll, InitSettle, PTL DEF Spec
=============================================================================
