-------------------------- MODULE CodexTurnsProofs --------------------------
(***************************************************************************)
(* Proofs about CodexTurns, for any size of the queue and any number of    *)
(* commands: types, that a command whose result says ok was carried out or *)
(* queued, that none is carried out twice and the queued ones in order,    *)
(* that no queued prompt is forgotten, and that the adapter knows which    *)
(* turn is active once it has read what App Server wrote.                  *)
(***************************************************************************)
EXTENDS CodexTurns, FiniteSetTheorems, SequenceTheorems, TLAPS

-----------------------------------------------------------------------------
(* Sequences.                                                              *)

(* The set of elements of a sequence.                                      *)
LEMMA Elements ==
  ASSUME NEW S, NEW s \in Seq(S)
  PROVE  /\ Len(s) \in Nat /\ DOMAIN s = 1..Len(s)
         /\ \A i \in 1..Len(s) : s[i] \in S
         /\ s = <<>> <=> Len(s) = 0
         /\ ToSet(s) = {s[i] : i \in 1..Len(s)} /\ ToSet(s) \subseteq S
  BY DEF ToSet

(* What Append adds.                                                       *)
LEMMA Appended ==
  ASSUME NEW S, NEW s \in Seq(S), NEW e \in S
  PROVE  /\ Append(s, e) \in Seq(S) /\ Append(s, e) # <<>>
         /\ Len(Append(s, e)) = Len(s) + 1
         /\ \A i \in 1..Len(s) : Append(s, e)[i] = s[i]
         /\ Append(s, e)[Len(s) + 1] = e
         /\ ToSet(Append(s, e)) = ToSet(s) \cup {e}
<1>1. /\ Append(s, e) \in Seq(S) /\ Append(s, e) # <<>>
      /\ Len(Append(s, e)) = Len(s) + 1
      /\ \A i \in 1..Len(s) : Append(s, e)[i] = s[i]
      /\ Append(s, e)[Len(s) + 1] = e
  BY AppendProperties
<1>2. ToSet(Append(s, e)) = {Append(s, e)[i] : i \in 1..Len(s) + 1}
      /\ ToSet(s) = {s[i] : i \in 1..Len(s)} /\ Len(s) \in Nat
  BY <1>1, Elements
<1>3. 1..Len(s) + 1 = 1..Len(s) \cup {Len(s) + 1}
  BY <1>2
<1> QED
  BY <1>1, <1>2, <1>3

(* What Tail takes away.                                                   *)
LEMMA Taken ==
  ASSUME NEW S, NEW s \in Seq(S), s # <<>>
  PROVE  /\ Head(s) = s[1] /\ s[1] \in S /\ Len(s) \in Nat \ {0}
         /\ Tail(s) \in Seq(S) /\ Len(Tail(s)) = Len(s) - 1
         /\ \A i \in 1..Len(s) - 1 : Tail(s)[i] = s[i + 1]
         /\ ToSet(s) = ToSet(Tail(s)) \cup {s[1]}
<1>1. /\ Len(s) \in Nat \ {0} /\ Tail(s) \in Seq(S) /\ Len(Tail(s)) = Len(s) - 1
      /\ \A i \in 1..Len(s) - 1 : Tail(s)[i] = s[i + 1]
  BY HeadTailProperties, Elements
<1>2. Head(s) = s[1] /\ s[1] \in S
  BY <1>1
<1>3. ToSet(Tail(s)) = {Tail(s)[i] : i \in 1..Len(s) - 1} /\ ToSet(s) = {s[i] : i \in 1..Len(s)}
  BY <1>1, Elements
<1>4. ToSet(Tail(s)) \cup {s[1]} \subseteq ToSet(s)
  BY <1>1, <1>3
<1>5. ASSUME NEW i \in 1..Len(s)
      PROVE  s[i] \in ToSet(Tail(s)) \cup {s[1]}
  <2>1. i = 1 \/ i - 1 \in 1..Len(s) - 1
    BY <1>1
  <2>2. i - 1 \in 1..Len(s) - 1 => Tail(s)[i - 1] = s[i]
    BY <1>1
  <2> QED
    BY <2>1, <2>2, <1>3
<1> QED
  BY <1>1, <1>2, <1>3, <1>4, <1>5

(* What RemoveAt takes away.                                               *)
LEMMA Removed ==
  ASSUME NEW S, NEW s \in Seq(S), NEW k \in 1..Len(s)
  PROVE  /\ RemoveAt(s, k) \in Seq(S) /\ Len(RemoveAt(s, k)) = Len(s) - 1
         /\ \A i \in 1..Len(s) - 1 : RemoveAt(s, k)[i] = s[IF i < k THEN i ELSE i + 1]
         /\ ToSet(s) = ToSet(RemoveAt(s, k)) \cup {s[k]}
<1> DEFINE front == SubSeq(s, 1, k - 1)
           back  == SubSeq(s, k + 1, Len(s))
<1>0. Len(s) \in Nat /\ \A i \in 1..Len(s) : s[i] \in S
  BY Elements
<1>1. /\ front \in Seq(S) /\ Len(front) = k - 1
      /\ \A i \in 1..k - 1 : front[i] = s[i]
  <2>1. 1 \in Int /\ k - 1 \in Int /\ \A i \in 1..k - 1 : s[i] \in S
    BY <1>0
  <2>2. /\ front \in Seq(S) /\ Len(front) = (IF 1 <= k - 1 THEN k - 1 - 1 + 1 ELSE 0)
        /\ \A i \in 1..k - 1 - 1 + 1 : front[i] = s[1 + i - 1]
    BY <2>1, SubSeqProperties
  <2> HIDE DEF front
  <2> QED
    BY <2>2
<1>2. /\ back \in Seq(S) /\ Len(back) = Len(s) - k
      /\ \A i \in 1..Len(s) - k : back[i] = s[k + i]
  <2>1. k + 1 \in Int /\ Len(s) \in Int /\ \A i \in k + 1..Len(s) : s[i] \in S
    BY <1>0
  <2>2. /\ back \in Seq(S)
        /\ Len(back) = (IF k + 1 <= Len(s) THEN Len(s) - (k + 1) + 1 ELSE 0)
        /\ \A i \in 1..Len(s) - (k + 1) + 1 : back[i] = s[k + 1 + i - 1]
    BY <2>1, SubSeqProperties
  <2> HIDE DEF back
  <2> QED
    BY <2>2, <1>0
<1>3. RemoveAt(s, k) = front \o back
  BY DEF RemoveAt
<1> HIDE DEF front, back
<1>4. /\ front \o back \in Seq(S) /\ Len(front \o back) = Len(front) + Len(back)
      /\ \A i \in 1..Len(front) + Len(back) :
           (front \o back)[i] = IF i <= Len(front) THEN front[i] ELSE back[i - Len(front)]
  BY <1>1, <1>2, ConcatProperties
<1>5. /\ RemoveAt(s, k) \in Seq(S) /\ Len(RemoveAt(s, k)) = Len(s) - 1
      /\ \A i \in 1..Len(s) - 1 : RemoveAt(s, k)[i] = s[IF i < k THEN i ELSE i + 1]
  <2>1. RemoveAt(s, k) \in Seq(S) /\ Len(RemoveAt(s, k)) = Len(s) - 1
    BY <1>0, <1>1, <1>2, <1>3, <1>4
  <2>2. ASSUME NEW i \in 1..Len(s) - 1
        PROVE  RemoveAt(s, k)[i] = s[IF i < k THEN i ELSE i + 1]
    <3>1. i \in 1..Len(front) + Len(back)
      BY <1>0, <1>1, <1>2
    <3>2. CASE i < k
      <4>1. i <= Len(front) /\ i \in 1..k - 1
        BY <1>1, <3>2
      <4> QED
        BY <4>1, <3>1, <3>2, <1>1, <1>3, <1>4
    <3>3. CASE ~(i < k)
      <4>1. ~(i <= Len(front)) /\ i - Len(front) \in 1..Len(s) - k /\ k + (i - Len(front)) = i + 1
        BY <1>0, <1>1, <3>3
      <4>2. back[i - Len(front)] = s[i + 1]
        BY <4>1, <1>2
      <4> QED
        BY <4>1, <4>2, <3>1, <3>3, <1>3, <1>4
    <3> QED
      BY <3>2, <3>3
  <2> QED
    BY <2>1, <2>2
<1>6. /\ ToSet(RemoveAt(s, k)) = {RemoveAt(s, k)[i] : i \in 1..Len(s) - 1}
      /\ ToSet(s) = {s[i] : i \in 1..Len(s)}
  BY <1>5, Elements
<1>7. ToSet(RemoveAt(s, k)) \cup {s[k]} \subseteq ToSet(s)
  BY <1>0, <1>5, <1>6
<1>8. ASSUME NEW i \in 1..Len(s)
      PROVE  s[i] \in ToSet(RemoveAt(s, k)) \cup {s[k]}
  <2>1. CASE i < k
    BY <2>1, <1>0, <1>5, <1>6
  <2>2. CASE i > k
    <3>1. i - 1 \in 1..Len(s) - 1 /\ ~(i - 1 < k) /\ i - 1 + 1 = i
      BY <2>2, <1>0
    <3>2. RemoveAt(s, k)[i - 1] = s[i]
      BY <3>1, <1>5
    <3> QED
      BY <3>1, <3>2, <1>6
  <2> QED
    BY <2>1, <2>2, <1>0
<1> QED
  BY <1>5, <1>6, <1>7, <1>8

(* The empty sequence.                                                     *)
LEMMA Nothing == \A S : <<>> \in Seq(S) /\ Len(<<>>) = 0 /\ ToSet(<<>>) = {}
  BY DEF ToSet

(* A sequence of numbers, of which 0 stands for none.                      *)
Named(s) == ToSet(s) \ {0}

(* Command a is another than b, and came before it if both were queued.    *)
Before(a, b, E) == a # b /\ (a \in E /\ b \in E => a < b)

Precede(A, B, E) == \A a \in A, b \in B : Before(a, b, E)

Sorted(s, E) ==
  \A i, j \in 1..Len(s) : i < j /\ s[i] # 0 /\ s[j] # 0 => Before(s[i], s[j], E)

(* A sorted sequence stays sorted without its first element, ...           *)
LEMMA SortedTail ==
  ASSUME NEW E, NEW s \in Seq(Nat), s # <<>>, Sorted(s, E)
  PROVE  /\ Sorted(Tail(s), E)
         /\ Named(s) = Named(Tail(s)) \cup ({s[1]} \ {0})
         /\ Precede({s[1]} \ {0}, Named(Tail(s)), E)
<1>1. /\ Len(s) \in Nat \ {0} /\ Tail(s) \in Seq(Nat) /\ Len(Tail(s)) = Len(s) - 1
      /\ \A i \in 1..Len(s) - 1 : Tail(s)[i] = s[i + 1]
      /\ ToSet(s) = ToSet(Tail(s)) \cup {s[1]}
  BY Taken
<1>2. \A i \in 1..Len(s) - 1 : i + 1 \in 1..Len(s) /\ 1 < i + 1 /\ 1 \in 1..Len(s)
  BY <1>1
<1>3. Sorted(Tail(s), E)
  <2> SUFFICES ASSUME NEW i \in 1..Len(s) - 1, NEW j \in 1..Len(s) - 1, i < j,
                      Tail(s)[i] # 0, Tail(s)[j] # 0
               PROVE  Before(Tail(s)[i], Tail(s)[j], E)
    BY <1>1 DEF Sorted
  <2>1. i + 1 < j + 1 /\ s[i + 1] # 0 /\ s[j + 1] # 0
    BY <1>1
  <2> QED
    BY <2>1, <1>1, <1>2 DEF Sorted
<1>4. Precede({s[1]} \ {0}, Named(Tail(s)), E)
  <2> SUFFICES ASSUME s[1] # 0, NEW b \in Named(Tail(s))
               PROVE  Before(s[1], b, E)
    BY DEF Precede
  <2>1. ToSet(Tail(s)) = {Tail(s)[i] : i \in 1..Len(Tail(s))}
    BY <1>1, Elements
  <2>2. PICK i \in 1..Len(s) - 1 : b = s[i + 1]
    BY <1>1, <2>1 DEF Named
  <2> QED
    BY <2>2, <1>2 DEF Sorted, Named
<1> QED
  BY <1>1, <1>3, <1>4 DEF Named

(* ... with one more that comes after all, ...                             *)
LEMMA SortedAppend ==
  ASSUME NEW E, NEW s \in Seq(Nat), Sorted(s, E), NEW c \in Nat, Precede(Named(s), {c} \ {0}, E)
  PROVE  Sorted(Append(s, c), E) /\ Named(Append(s, c)) = Named(s) \cup ({c} \ {0})
<1>1. /\ Len(Append(s, c)) = Len(s) + 1 /\ Len(s) \in Nat
      /\ \A i \in 1..Len(s) : Append(s, c)[i] = s[i]
      /\ Append(s, c)[Len(s) + 1] = c
      /\ ToSet(Append(s, c)) = ToSet(s) \cup {c}
      /\ ToSet(s) = {s[i] : i \in 1..Len(s)}
  BY Appended, Elements
<1>2. ASSUME NEW i \in 1..Len(s) + 1, NEW j \in 1..Len(s) + 1, i < j,
             Append(s, c)[i] # 0, Append(s, c)[j] # 0
      PROVE  Before(Append(s, c)[i], Append(s, c)[j], E)
  <2>1. i \in 1..Len(s) /\ Append(s, c)[i] = s[i] /\ s[i] \in Named(s)
    BY <1>1, <1>2 DEF Named
  <2>2. CASE j \in 1..Len(s)
    BY <2>1, <2>2, <1>1, <1>2 DEF Sorted
  <2>3. CASE j = Len(s) + 1
    BY <2>1, <2>3, <1>1, <1>2 DEF Precede
  <2> QED
    BY <2>2, <2>3, <1>1
<1> QED
  BY <1>1, <1>2 DEF Sorted, Named

(* ... and without any one of its elements.                                *)
LEMMA SortedRemove ==
  ASSUME NEW E, NEW s \in Seq(Nat), NEW k \in 1..Len(s), Sorted(s, E)
  PROVE  /\ Sorted(RemoveAt(s, k), E)
         /\ Named(s) = Named(RemoveAt(s, k)) \cup ({s[k]} \ {0})
         /\ s[k] \notin Named(RemoveAt(s, k))
<1>1. /\ Len(RemoveAt(s, k)) = Len(s) - 1 /\ RemoveAt(s, k) \in Seq(Nat)
      /\ \A i \in 1..Len(s) - 1 : RemoveAt(s, k)[i] = s[IF i < k THEN i ELSE i + 1]
      /\ ToSet(s) = ToSet(RemoveAt(s, k)) \cup {s[k]}
      /\ Len(s) \in Nat
  BY Removed, Elements
<1> DEFINE at(i) == IF i < k THEN i ELSE i + 1
<1>2. ASSUME NEW i \in 1..Len(s) - 1
      PROVE  at(i) \in 1..Len(s) /\ at(i) # k /\ RemoveAt(s, k)[i] = s[at(i)]
  BY <1>1
<1>3. \A i, j \in 1..Len(s) - 1 : i < j => at(i) < at(j)
  BY <1>1
<1> HIDE DEF at
<1>4. Sorted(RemoveAt(s, k), E)
  BY <1>1, <1>2, <1>3 DEF Sorted
<1>5. ASSUME NEW i \in 1..Len(s) - 1, s[k] # 0
      PROVE  RemoveAt(s, k)[i] # s[k]
  <2>1. s[at(i)] # 0 => Before(s[at(i)], s[k], E) \/ Before(s[k], s[at(i)], E)
    <3>1. at(i) < k \/ k < at(i)
      BY <1>1, <1>2
    <3> QED
      BY <3>1, <1>2, <1>5 DEF Sorted
  <2> QED
    BY <2>1, <1>2, <1>5 DEF Before
<1>6. s[k] \notin Named(RemoveAt(s, k))
  <2>1. ToSet(RemoveAt(s, k)) = {RemoveAt(s, k)[i] : i \in 1..Len(s) - 1}
    <3> DEFINE r == RemoveAt(s, k)
    <3>1. r \in Seq(Nat) /\ Len(r) = Len(s) - 1
      BY <1>1
    <3> HIDE DEF r
    <3>2. ToSet(r) = {r[i] : i \in 1..Len(r)}
      BY <3>1, Elements
    <3> QED
      BY <3>1, <3>2 DEF r
  <2> QED
    BY <1>5, <2>1 DEF Named
<1> QED
  BY <1>1, <1>4, <1>6 DEF Named

(* What each element of a sequence stands for.                             *)
Column(s, t) == [i \in 1..Len(s) |-> t[s[i]]]

(* A column is a sequence as long as what it is a column of.               *)
LEMMA Columned ==
  ASSUME NEW S, NEW s \in Seq(S), NEW t \in [S -> Nat]
  PROVE  /\ Column(s, t) \in Seq(Nat) /\ Len(Column(s, t)) = Len(s)
         /\ \A i \in 1..Len(s) : Column(s, t)[i] = t[s[i]]
<1>1. Len(s) \in Nat /\ \A i \in 1..Len(s) : t[s[i]] \in Nat
  BY Elements
<1> QED
  BY <1>1 DEF Column

(* What a column names.                                                    *)
LEMMA Columns ==
  ASSUME NEW S, NEW s \in Seq(S), NEW t \in [S -> Nat]
  PROVE  /\ Named(Column(s, t)) = {t[e] : e \in ToSet(s)} \ {0}
         /\ s # <<>> => Column(s, t) # <<>> /\ Column(s, t)[1] = t[s[1]]
<1>1. Len(s) \in Nat /\ (s = <<>> <=> Len(s) = 0)
  BY Elements
<1>2. /\ Column(s, t) \in Seq(Nat) /\ Len(Column(s, t)) = Len(s)
      /\ \A i \in 1..Len(s) : Column(s, t)[i] = t[s[i]]
  BY Columned
<1>3. ToSet(Column(s, t)) = {Column(s, t)[i] : i \in 1..Len(s)}
      /\ ToSet(s) = {s[i] : i \in 1..Len(s)}
  <2> DEFINE r == Column(s, t)
  <2>1. r \in Seq(Nat) /\ Len(r) = Len(s)
    BY <1>2
  <2> HIDE DEF r
  <2>2. ToSet(r) = {r[i] : i \in 1..Len(r)}
    BY <2>1, Elements
  <2>3. ToSet(s) = {s[i] : i \in 1..Len(s)}
    BY Elements
  <2> QED
    BY <2>1, <2>2, <2>3 DEF r
<1>4. ToSet(Column(s, t)) = {t[e] : e \in ToSet(s)}
  <2> DEFINE r == Column(s, t)
  <2>1. ToSet(r) = {r[i] : i \in 1..Len(s)} /\ \A i \in 1..Len(s) : r[i] = t[s[i]]
    BY <1>2, <1>3
  <2> HIDE DEF r
  <2>2. \A x \in ToSet(r) : \E e \in ToSet(s) : x = t[e]
    BY <1>3, <2>1
  <2>3. \A e \in ToSet(s) : t[e] \in ToSet(r)
    BY <1>3, <2>1
  <2>4. ToSet(r) = {t[e] : e \in ToSet(s)}
    BY <2>2, <2>3
  <2> QED
    BY <2>4 DEF r
<1>5. s # <<>> => Column(s, t) # <<>> /\ Column(s, t)[1] = t[s[1]]
  BY <1>1, <1>2, Elements
<1> QED
  BY <1>4, <1>5 DEF Named

(* The column of what Append makes, ...                                    *)
LEMMA ColumnAppend ==
  ASSUME NEW S, NEW s \in Seq(S), NEW t \in [S -> Nat], NEW e \in S
  PROVE  Column(Append(s, e), t) = Append(Column(s, t), t[e])
<1>1. /\ Append(s, e) \in Seq(S) /\ Len(Append(s, e)) = Len(s) + 1 /\ Len(s) \in Nat
      /\ \A i \in 1..Len(s) : Append(s, e)[i] = s[i]
      /\ Append(s, e)[Len(s) + 1] = e
  BY Appended, Elements
<1>2. /\ Column(Append(s, e), t) \in Seq(Nat) /\ Len(Column(Append(s, e), t)) = Len(s) + 1
      /\ \A i \in 1..Len(s) + 1 : Column(Append(s, e), t)[i] = t[Append(s, e)[i]]
  <2> DEFINE r == Append(s, e)
  <2>1. r \in Seq(S)
    BY <1>1
  <2> HIDE DEF r
  <2>2. /\ Column(r, t) \in Seq(Nat) /\ Len(Column(r, t)) = Len(r)
        /\ \A i \in 1..Len(r) : Column(r, t)[i] = t[r[i]]
    BY <2>1, Columned
  <2> QED
    BY <2>2, <1>1 DEF r
<1>3. /\ Column(s, t) \in Seq(Nat) /\ Len(Column(s, t)) = Len(s)
      /\ \A i \in 1..Len(s) : Column(s, t)[i] = t[s[i]]
  BY Columned
<1>4. t[e] \in Nat
  OBVIOUS
<1>5. /\ Append(Column(s, t), t[e]) \in Seq(Nat)
      /\ Len(Append(Column(s, t), t[e])) = Len(s) + 1
      /\ \A i \in 1..Len(s) : Append(Column(s, t), t[e])[i] = t[s[i]]
      /\ Append(Column(s, t), t[e])[Len(s) + 1] = t[e]
  BY <1>3, <1>4, AppendProperties
<1>6. \A i \in 1..Len(s) + 1 : Column(Append(s, e), t)[i] = Append(Column(s, t), t[e])[i]
  <2> SUFFICES ASSUME NEW i \in 1..Len(s) + 1
               PROVE  Column(Append(s, e), t)[i] = Append(Column(s, t), t[e])[i]
    OBVIOUS
  <2>1. i \in 1..Len(s) \/ i = Len(s) + 1
    BY <1>1
  <2> QED
    BY <2>1, <1>1, <1>2, <1>5
<1> QED
  BY <1>2, <1>5, <1>6, SeqEqual

(* ... of a tail, ...                                                      *)
LEMMA ColumnTail ==
  ASSUME NEW S, NEW s \in Seq(S), NEW t \in [S -> Nat], s # <<>>
  PROVE  Column(Tail(s), t) = Tail(Column(s, t))
<1>1. /\ Tail(s) \in Seq(S) /\ Len(Tail(s)) = Len(s) - 1 /\ Len(s) \in Nat \ {0}
      /\ \A i \in 1..Len(s) - 1 : Tail(s)[i] = s[i + 1]
  BY Taken
<1>2. /\ Column(Tail(s), t) \in Seq(Nat) /\ Len(Column(Tail(s), t)) = Len(s) - 1
      /\ \A i \in 1..Len(s) - 1 : Column(Tail(s), t)[i] = t[Tail(s)[i]]
  <2> DEFINE r == Tail(s)
  <2>1. r \in Seq(S)
    BY <1>1
  <2> HIDE DEF r
  <2>2. /\ Column(r, t) \in Seq(Nat) /\ Len(Column(r, t)) = Len(r)
        /\ \A i \in 1..Len(r) : Column(r, t)[i] = t[r[i]]
    BY <2>1, Columned
  <2> QED
    BY <2>2, <1>1 DEF r
<1>3. /\ Column(s, t) \in Seq(Nat) /\ Len(Column(s, t)) = Len(s) /\ Column(s, t) # <<>>
      /\ \A i \in 1..Len(s) : Column(s, t)[i] = t[s[i]]
  BY Columned
<1>4. /\ Tail(Column(s, t)) \in Seq(Nat) /\ Len(Tail(Column(s, t))) = Len(s) - 1
      /\ \A i \in 1..Len(s) - 1 : Tail(Column(s, t))[i] = Column(s, t)[i + 1]
  BY <1>3, Taken
<1>5. \A i \in 1..Len(s) - 1 : Column(Tail(s), t)[i] = Tail(Column(s, t))[i]
  <2> SUFFICES ASSUME NEW i \in 1..Len(s) - 1
               PROVE  Column(Tail(s), t)[i] = Tail(Column(s, t))[i]
    OBVIOUS
  <2>1. i + 1 \in 1..Len(s)
    BY <1>1
  <2> QED
    BY <2>1, <1>1, <1>2, <1>3, <1>4
<1> QED
  BY <1>2, <1>4, <1>5, SeqEqual

(* ... and of what is left by RemoveAt.                                    *)
LEMMA ColumnRemove ==
  ASSUME NEW S, NEW s \in Seq(S), NEW t \in [S -> Nat], NEW k \in 1..Len(s)
  PROVE  Column(RemoveAt(s, k), t) = RemoveAt(Column(s, t), k)
<1>1. /\ RemoveAt(s, k) \in Seq(S) /\ Len(RemoveAt(s, k)) = Len(s) - 1 /\ Len(s) \in Nat
      /\ \A i \in 1..Len(s) - 1 : RemoveAt(s, k)[i] = s[IF i < k THEN i ELSE i + 1]
  BY Removed, Elements
<1>2. /\ Column(RemoveAt(s, k), t) \in Seq(Nat) /\ Len(Column(RemoveAt(s, k), t)) = Len(s) - 1
      /\ \A i \in 1..Len(s) - 1 : Column(RemoveAt(s, k), t)[i] = t[RemoveAt(s, k)[i]]
  <2> DEFINE r == RemoveAt(s, k)
  <2>1. r \in Seq(S)
    BY <1>1
  <2> HIDE DEF r
  <2>2. /\ Column(r, t) \in Seq(Nat) /\ Len(Column(r, t)) = Len(r)
        /\ \A i \in 1..Len(r) : Column(r, t)[i] = t[r[i]]
    BY <2>1, Columned
  <2> QED
    BY <2>2, <1>1 DEF r
<1>3. /\ Column(s, t) \in Seq(Nat) /\ Len(Column(s, t)) = Len(s)
      /\ \A i \in 1..Len(s) : Column(s, t)[i] = t[s[i]]
  BY Columned
<1>4. /\ RemoveAt(Column(s, t), k) \in Seq(Nat) /\ Len(RemoveAt(Column(s, t), k)) = Len(s) - 1
      /\ \A i \in 1..Len(s) - 1 :
           RemoveAt(Column(s, t), k)[i] = Column(s, t)[IF i < k THEN i ELSE i + 1]
  BY <1>3, Removed
<1>5. \A i \in 1..Len(s) - 1 : Column(RemoveAt(s, k), t)[i] = RemoveAt(Column(s, t), k)[i]
  <2> SUFFICES ASSUME NEW i \in 1..Len(s) - 1
               PROVE  Column(RemoveAt(s, k), t)[i] = RemoveAt(Column(s, t), k)[i]
    OBVIOUS
  <2> DEFINE at == IF i < k THEN i ELSE i + 1
  <2>1. at \in 1..Len(s)
    BY <1>1
  <2>2. Column(RemoveAt(s, k), t)[i] = t[s[at]]
    BY <1>1, <1>2
  <2>3. RemoveAt(Column(s, t), k)[i] = Column(s, t)[at]
    BY <1>4
  <2> HIDE DEF at
  <2> QED
    BY <2>1, <2>2, <2>3, <1>3
<1> QED
  BY <1>2, <1>4, <1>5, SeqEqual

(* The last line about a turn in s tells that t is active, if a was.       *)
TurnLine(line) == line.kind \in {"turn/started", "turn/completed"}
Says(line)     == IF line.kind = "turn/started" THEN line.n ELSE 0

Tells(s, a, t) ==
  /\ (\A i \in 1..Len(s) : ~TurnLine(s[i])) => t = a
  /\ \A i \in 1..Len(s) :
       TurnLine(s[i]) /\ (\A j \in i + 1..Len(s) : ~TurnLine(s[j])) => t = Says(s[i])

(* Lines that tell the turn, with one more written, ...                    *)
LEMMA TellsMore ==
  ASSUME NEW s \in Seq(Lines), NEW l \in Lines, NEW a, NEW t, NEW u, Tells(s, a, t),
         IF TurnLine(l) THEN u = Says(l) ELSE u = t
  PROVE  Tells(Append(s, l), a, u)
<1>1. /\ Len(Append(s, l)) = Len(s) + 1 /\ Len(s) \in Nat
      /\ \A i \in 1..Len(s) : Append(s, l)[i] = s[i]
      /\ Append(s, l)[Len(s) + 1] = l
  BY Appended, Elements
<1>2. Len(s) + 1 \in 1..Len(s) + 1 /\ 1..Len(s) \subseteq 1..Len(s) + 1
  BY <1>1
<1>3. ASSUME \A i \in 1..Len(s) + 1 : ~TurnLine(Append(s, l)[i])
      PROVE  u = a
  <2>1. ~TurnLine(l) /\ \A i \in 1..Len(s) : ~TurnLine(s[i])
    BY <1>1, <1>2, <1>3
  <2> QED
    BY <2>1 DEF Tells
<1>4. ASSUME NEW i \in 1..Len(s) + 1, TurnLine(Append(s, l)[i]),
             \A j \in i + 1..Len(s) + 1 : ~TurnLine(Append(s, l)[j])
      PROVE  u = Says(Append(s, l)[i])
  <2>1. CASE i = Len(s) + 1
    BY <2>1, <1>1, <1>4
  <2>2. CASE i \in 1..Len(s)
    <3>1. Len(s) + 1 \in i + 1..Len(s) + 1
      BY <2>2, <1>1
    <3>2. ~TurnLine(l) /\ TurnLine(s[i])
      BY <3>1, <2>2, <1>1, <1>4
    <3>3. ASSUME NEW j \in i + 1..Len(s)
          PROVE  ~TurnLine(s[j])
      <4>1. j \in 1..Len(s) /\ j \in i + 1..Len(s) + 1
        BY <2>2, <1>1
      <4> QED
        BY <4>1, <1>1, <1>4
    <3> QED
      BY <3>2, <3>3, <2>2, <1>1 DEF Tells
  <2> QED
    BY <2>1, <2>2, <1>1
<1> QED
  BY <1>1, <1>3, <1>4 DEF Tells

(* ... and with the first one read.                                        *)
LEMMA TellsLess ==
  ASSUME NEW s \in Seq(Lines), s # <<>>, NEW a, NEW b, NEW t, Tells(s, a, t),
         IF TurnLine(s[1]) THEN b = Says(s[1]) ELSE b = a
  PROVE  Tells(Tail(s), b, t)
<1>1. /\ Len(Tail(s)) = Len(s) - 1 /\ Len(s) \in Nat \ {0}
      /\ \A i \in 1..Len(s) - 1 : Tail(s)[i] = s[i + 1]
  BY Taken
<1>2. ASSUME \A i \in 1..Len(s) - 1 : ~TurnLine(Tail(s)[i])
      PROVE  t = b
  <2>1. ASSUME NEW j \in 2..Len(s)
        PROVE  ~TurnLine(s[j])
    <3>1. j - 1 \in 1..Len(s) - 1 /\ j - 1 + 1 = j
      BY <1>1
    <3>2. ~TurnLine(Tail(s)[j - 1]) /\ Tail(s)[j - 1] = s[j - 1 + 1]
      BY <3>1, <1>1, <1>2
    <3> QED
      BY <3>1, <3>2
  <2>2. 1 \in 1..Len(s) /\ 1 + 1 = 2 /\ \A j \in 1..Len(s) : j = 1 \/ j \in 2..Len(s)
    BY <1>1
  <2> QED
    BY <2>1, <2>2 DEF Tells
<1>3. ASSUME NEW i \in 1..Len(s) - 1, TurnLine(Tail(s)[i]),
             \A j \in i + 1..Len(s) - 1 : ~TurnLine(Tail(s)[j])
      PROVE  t = Says(Tail(s)[i])
  <2>1. i + 1 \in 1..Len(s) /\ Tail(s)[i] = s[i + 1]
    BY <1>1
  <2>2. ASSUME NEW j \in (i + 1) + 1..Len(s)
        PROVE  ~TurnLine(s[j])
    <3>1. j - 1 \in i + 1..Len(s) - 1 /\ j - 1 \in 1..Len(s) - 1 /\ j - 1 + 1 = j
      BY <1>1
    <3>2. ~TurnLine(Tail(s)[j - 1]) /\ Tail(s)[j - 1] = s[j - 1 + 1]
      BY <3>1, <1>1, <1>3
    <3> QED
      BY <3>1, <3>2
  <2> QED
    BY <2>1, <2>2, <1>3 DEF Tells
<1> QED
  BY <1>1, <1>2, <1>3 DEF Tells

-----------------------------------------------------------------------------
(* What the operations of the adapter come to.                             *)

Entry(m, c)   == [id |-> nextId, method |-> m, command |-> c]
Message(m, c) == [id |-> nextId, method |-> m, command |-> c, turn |-> active]

(* A request was written, or could not be; or a turn is about to start.    *)
Opened(m, c, due) ==
  /\ nextId' = nextId + 1 /\ tasks' = due
  /\ table' = Append(table, Entry(m, c)) /\ stdin' = Append(stdin, Message(m, c))

Refused(c, due) ==
  /\ nextId' = nextId + 1 /\ tasks' = Append(due, Task("reject", c))
  /\ UNCHANGED <<table, stdin>>

Begun(c, due) ==
  /\ loaded /\ tasks' = Append(due, Task("start", c))
  /\ UNCHANGED <<nextId, table, stdin>>

(* What a request changes, whether it is sent or refused.                  *)
LEMMA Requests ==
  ASSUME NEW m, NEW c, NEW due, request(m, c, due)
  PROVE  Opened(m, c, due) \/ Refused(c, due)
BY DEF request, FreshId, Opened, Refused, Entry, Message

(* startTurn begins the turn, or asks for its thread first.                *)
LEMMA StartsTurn ==
  ASSUME NEW c, NEW due, startTurn(c, due)
  PROVE  Begun(c, due) \/ (~loaded /\ request("thread/resume", c, due))
BY DEF startTurn, Begun, requests

(* New entries, messages and tasks have their types.                       *)
LEMMA NewRecords ==
  ASSUME TypeOK, NEW m \in Methods, NEW c \in Nat
  PROVE  /\ Entry(m, c) \in Entries /\ Message(m, c) \in Messages
         /\ Task("reject", c) \in Tasks /\ Task("start", c) \in Tasks
BY DEF TypeOK, Entry, Message, Task, Entries, Messages, Tasks

(* The task that a settled entry leaves.                                   *)
LEMMA SettledTask ==
  ASSUME NEW e \in Entries, NEW ok \in BOOLEAN
  PROVE  /\ Settled(e, ok) \in Tasks /\ Settled(e, ok).command = e.command
         /\ Settled(e, ok).do =
              IF ~ok THEN "reject"
              ELSE IF e.method = "thread/resume" THEN "resumed" ELSE "resolve"
BY DEF Settled, Task, Tasks, Entries

(* When the agent loses its App Server every entry becomes a rejection.    *)
LEMMA AllRejected ==
  ASSUME NEW s \in Seq(Entries)
  PROVE  /\ RejectAll(s) \in Seq(Tasks)
         /\ \A k \in ToSet(RejectAll(s)) : k.do = "reject" /\ \E e \in ToSet(s) : k.command = e.command
         /\ \A e \in ToSet(s) : \E k \in ToSet(RejectAll(s)) : k.command = e.command
<1>1. /\ Len(s) \in Nat /\ DOMAIN s = 1..Len(s) /\ \A i \in 1..Len(s) : s[i] \in Entries
      /\ ToSet(s) = {s[i] : i \in 1..Len(s)}
  BY Elements
<1>2. \A i \in 1..Len(s) :
        /\ Settled(s[i], FALSE) \in Tasks
        /\ Settled(s[i], FALSE).do = "reject" /\ Settled(s[i], FALSE).command = s[i].command
  BY <1>1, SettledTask
<1>3. /\ RejectAll(s) \in Seq(Tasks) /\ Len(RejectAll(s)) = Len(s)
      /\ \A i \in 1..Len(s) : RejectAll(s)[i] = Settled(s[i], FALSE)
  <2> DEFINE task(i) == Settled(s[i], FALSE)
  <2>1. RejectAll(s) = [i \in 1..Len(s) |-> task(i)]
    BY <1>1 DEF RejectAll
  <2>2. \A i \in 1..Len(s) : task(i) \in Tasks
    BY <1>2
  <2> HIDE DEF task
  <2>3. /\ RejectAll(s) \in Seq(Tasks) /\ Len(RejectAll(s)) = Len(s)
        /\ \A i \in 1..Len(s) : RejectAll(s)[i] = task(i)
    BY <2>1, <2>2, <1>1
  <2> QED
    BY <2>3 DEF task
<1> DEFINE r == RejectAll(s)
<1>4. /\ r \in Seq(Tasks) /\ Len(r) = Len(s)
      /\ \A i \in 1..Len(s) : r[i].do = "reject" /\ r[i].command = s[i].command
  BY <1>2, <1>3
<1> HIDE DEF r
<1>5. ToSet(r) = {r[i] : i \in 1..Len(s)}
  BY <1>4, Elements
<1>6. \A k \in ToSet(r) : k.do = "reject" /\ \E e \in ToSet(s) : k.command = e.command
  BY <1>1, <1>4, <1>5
<1>7. \A e \in ToSet(s) : \E k \in ToSet(r) : k.command = e.command
  BY <1>1, <1>4, <1>5
<1> QED
  BY <1>4, <1>6, <1>7 DEF r

(* The line that is read is the first.                                     *)
LEMMA Read ==
  ASSUME TypeOK, NEW kind, Reads(kind)
  PROVE  /\ stdout # <<>> /\ stdout[1] = Head(stdout) /\ stdout[1] \in Lines /\ stdout[1].kind = kind
         /\ stdout' = Tail(stdout) /\ stdout' \in Seq(Lines)
         /\ ToSet(stdout) = ToSet(stdout') \cup {stdout[1]}
         /\ UNCHANGED <<phase, child, draining, unhandled, received, enqueued, results,
                        server, turn, turns, done>>
<1>1. stdout \in Seq(Lines) /\ stdout # <<>> /\ stdout' = Tail(stdout) /\ Head(stdout).kind = kind
  BY DEF TypeOK, Reads
<1>2. /\ stdout[1] = Head(stdout) /\ stdout[1] \in Lines /\ Tail(stdout) \in Seq(Lines)
      /\ ToSet(stdout) = ToSet(Tail(stdout)) \cup {stdout[1]}
  BY <1>1, Taken
<1>3. UNCHANGED <<phase, child, draining, unhandled, received, enqueued, results,
                  server, turn, turns, done>>
  BY DEF Reads, service
<1> QED
  BY <1>1, <1>2, <1>3

(* What App Server may do: it takes the first message, ...                 *)
LEMMA Taking ==
  ASSUME TypeOK, Served
  PROVE  /\ server = "runs" /\ stdin # <<>> /\ Head(stdin) = stdin[1] /\ stdin[1] \in Messages
         /\ stdin' = Tail(stdin) /\ stdin' \in Seq(Messages)
         /\ ToSet(stdin) = ToSet(stdin') \cup {stdin[1]}
         /\ UNCHANGED <<phase, child, active, loaded, queue, enqueued, nextId, table, tasks,
                        draining, unhandled, received, results, server>>
<1>1. server = "runs" /\ stdin \in Seq(Messages) /\ stdin # <<>> /\ stdin' = Tail(stdin)
  BY DEF TypeOK, Served
<1>2. /\ stdin[1] = Head(stdin) /\ stdin[1] \in Messages /\ Tail(stdin) \in Seq(Messages)
      /\ ToSet(stdin) = ToSet(Tail(stdin)) \cup {stdin[1]}
  BY <1>1, Taken
<1>3. UNCHANGED <<phase, child, active, loaded, queue, enqueued, nextId, table, tasks,
                  draining, unhandled, received, results, server>>
  BY DEF Served, adapter, loop
<1> QED
  BY <1>1, <1>2, <1>3

(* ... and writes lines.                                                   *)
LEMMA Pairs ==
  ASSUME NEW S, NEW s \in Seq(S), NEW a \in S, NEW b \in S
  PROVE  s \o <<a, b>> = Append(Append(s, a), b)
<1>1. <<a, b>> \in Seq(S) /\ Len(<<a, b>>) = 2
  OBVIOUS
<1>2. /\ s \o <<a, b>> \in Seq(S) /\ Len(s \o <<a, b>>) = Len(s) + 2 /\ Len(s) \in Nat
      /\ \A i \in 1..Len(s) + 2 : (s \o <<a, b>>)[i] =
           IF i <= Len(s) THEN s[i] ELSE <<a, b>>[i - Len(s)]
  BY <1>1, ConcatProperties, Elements
<1>3. /\ Append(s, a) \in Seq(S) /\ Len(Append(s, a)) = Len(s) + 1
      /\ \A i \in 1..Len(s) : Append(s, a)[i] = s[i]
      /\ Append(s, a)[Len(s) + 1] = a
  BY AppendProperties
<1> DEFINE t == Append(s, a)
<1>4. t \in Seq(S) /\ Len(t) = Len(s) + 1 /\ (\A i \in 1..Len(s) : t[i] = s[i]) /\ t[Len(s) + 1] = a
  BY <1>3
<1> HIDE DEF t
<1>5. /\ Append(t, b) \in Seq(S) /\ Len(Append(t, b)) = Len(t) + 1
      /\ \A i \in 1..Len(t) : Append(t, b)[i] = t[i]
      /\ Append(t, b)[Len(t) + 1] = b
  BY <1>4, AppendProperties
<1>6. ASSUME NEW i \in 1..Len(s) + 2
      PROVE  (s \o <<a, b>>)[i] = Append(t, b)[i]
  <2>1. CASE i \in 1..Len(s)
    BY <2>1, <1>2, <1>4, <1>5
  <2>2. CASE i = Len(s) + 1
    <3>1. (s \o <<a, b>>)[i] = a
      BY <2>2, <1>2
    <3> QED
      BY <3>1, <2>2, <1>2, <1>4, <1>5
  <2>3. CASE i = Len(s) + 2
    <3>1. (s \o <<a, b>>)[i] = b
      BY <2>3, <1>2
    <3> QED
      BY <3>1, <2>3, <1>2, <1>4, <1>5
  <2>4. i \in 1..Len(s) \/ i = Len(s) + 1 \/ i = Len(s) + 2
    <3>1. Len(s) \in Nat
      BY <1>2
    <3> QED
      BY <3>1
  <2> QED
    BY <2>1, <2>2, <2>3, <2>4
<1>7. Len(s \o <<a, b>>) = Len(Append(t, b))
  BY <1>2, <1>4, <1>5
<1>8. s \o <<a, b>> = Append(t, b)
  BY <1>2, <1>5, <1>6, <1>7, SeqEqual
<1> QED
  BY <1>8 DEF t

-----------------------------------------------------------------------------
(* Types.                                                                  *)

RequestTypes ==
  /\ nextId \in Nat /\ table \in Seq(Entries) /\ stdin \in Seq(Messages) /\ tasks \in Seq(Tasks)

(* A request keeps the types of what it changes, ...                       *)
LEMMA RequestTyped ==
  ASSUME TypeOK, NEW m \in Methods, NEW c \in Nat, NEW due \in Seq(Tasks), request(m, c, due)
  PROVE  RequestTypes'
<1>1. /\ Entry(m, c) \in Entries /\ Message(m, c) \in Messages /\ Task("reject", c) \in Tasks
      /\ nextId \in Nat /\ table \in Seq(Entries) /\ stdin \in Seq(Messages)
  BY NewRecords DEF TypeOK
<1>2. Append(table, Entry(m, c)) \in Seq(Entries) /\ Append(stdin, Message(m, c)) \in Seq(Messages)
      /\ Append(due, Task("reject", c)) \in Seq(Tasks)
  BY <1>1, AppendProperties
<1>3. nextId + 1 \in Nat
  BY <1>1
<1>4. Opened(m, c, due) \/ Refused(c, due)
  BY Requests
<1> QED
  BY <1>1, <1>2, <1>3, <1>4 DEF Opened, Refused, RequestTypes

(* ... and so does the start of a turn.                                    *)
LEMMA StartTyped ==
  ASSUME TypeOK, NEW c \in Nat, NEW due \in Seq(Tasks), startTurn(c, due)
  PROVE  RequestTypes'
<1>1. Task("start", c) \in Tasks /\ "thread/resume" \in Methods
  BY DEF Task, Tasks, Methods
<1>2. Append(due, Task("start", c)) \in Seq(Tasks)
  BY <1>1, AppendProperties
<1> QED
  BY <1>1, <1>2, StartsTurn, RequestTyped DEF Begun, RequestTypes, TypeOK

(* What Newest keeps of a sequence.                                        *)
LEMMA NewestTyped ==
  ASSUME NEW S, NEW s \in Seq(S), NEW n \in Nat \ {0}
  PROVE  /\ Newest(s, n) \in Seq(S)
         /\ Len(Newest(s, n)) = IF Len(s) <= n THEN Len(s) ELSE n
         /\ \A i \in 1..Len(Newest(s, n)) : Newest(s, n)[i] = s[Len(s) - Len(Newest(s, n)) + i]
<1>0. Len(s) \in Nat /\ \A i \in 1..Len(s) : s[i] \in S
  BY Elements
<1>1. CASE Len(s) <= n
  BY <1>0, <1>1 DEF Newest
<1>2. CASE ~(Len(s) <= n)
  <2> DEFINE m == Len(s) - n + 1
  <2>1. m \in 1..Len(s) /\ Len(s) - m + 1 = n /\ m <= Len(s) /\ Newest(s, n) = SubSeq(s, m, Len(s))
    BY <1>0, <1>2 DEF Newest
  <2>2. m \in Int /\ Len(s) \in Int /\ \A i \in m..Len(s) : s[i] \in S
    BY <1>0, <2>1
  <2> HIDE DEF m
  <2>3. /\ SubSeq(s, m, Len(s)) \in Seq(S) /\ Len(SubSeq(s, m, Len(s))) = n
        /\ \A i \in 1..n : SubSeq(s, m, Len(s))[i] = s[m + i - 1]
    BY <2>1, <2>2, SubSeqProperties
  <2>4. \A i \in 1..n : m + i - 1 = Len(s) - n + i
    BY <1>0 DEF m
  <2> QED
    BY <1>2, <2>1, <2>3, <2>4
<1> QED
  BY <1>1, <1>2

(* The four requests and what a command does besides.                      *)
LEMMA Arriving ==
  ASSUME TypeOK, Arrives
  PROVE  /\ received \in Nat /\ ThisCommand = received + 1 /\ received' = ThisCommand
         /\ tasks = <<>> /\ phase # "down"
         /\ UNCHANGED <<phase, child, active, loaded, unhandled, server, turn, turns, done, stdout>>
BY DEF TypeOK, Arrives, Idle, ThisCommand, service

(* A result that is put keeps its type.                                    *)
LEMMA PutTyped ==
  ASSUME NEW f, f \in [DOMAIN f -> BOOLEAN], DOMAIN f \subseteq Nat, NEW c \in Nat, NEW b \in BOOLEAN
  PROVE  /\ DOMAIN Put(f, c, b) = DOMAIN f \cup {c} /\ DOMAIN Put(f, c, b) \subseteq Nat
         /\ Put(f, c, b) \in [DOMAIN Put(f, c, b) -> BOOLEAN]
         /\ Put(f, c, b)[c] = b /\ \A d \in DOMAIN f \ {c} : Put(f, c, b)[d] = f[d]
BY DEF Put

(* A command arrives and becomes a request, or the start of a turn.        *)
LEMMA ArrivalTyped ==
  ASSUME TypeOK, Arrives, RequestTypes', draining' \in BOOLEAN, UNCHANGED <<queue, enqueued>>,
         results' \in [DOMAIN results' -> BOOLEAN], DOMAIN results' \subseteq Nat
  PROVE  TypeOK'
<1>1. received' \in Nat
  BY Arriving
<1> QED
  BY <1>1, Arriving DEF TypeOK, RequestTypes

(* The types after a command, ...                                          *)
LEMMA CommandTyped ==
  ASSUME TypeOK, CommandStep
  PROVE  TypeOK'
<1>0. Methods = {"thread/resume", "turn/start", "turn/steer", "turn/interrupt"}
  BY DEF Methods
<1>1. tasks \in Seq(Tasks) /\ results \in [DOMAIN results -> BOOLEAN] /\ DOMAIN results \subseteq Nat
  BY DEF TypeOK
<1>2. ASSUME Arrives
      PROVE  /\ ThisCommand \in Nat
             /\ \A b \in BOOLEAN : LET f == Put(results, ThisCommand, b)
                                   IN  f \in [DOMAIN f -> BOOLEAN] /\ DOMAIN f \subseteq Nat
  <2>1. ThisCommand \in Nat
    BY <1>2, Arriving
  <2> QED
    BY <2>1, <1>1, PutTyped
<1>3. CASE Interrupt
  <2>1. draining' \in BOOLEAN /\ UNCHANGED <<queue, enqueued>> /\ Arrives
    BY <1>3 DEF Interrupt, Drain
  <2>2. \/ results' = Put(results, ThisCommand, FALSE) /\ UNCHANGED <<requests, tasks>>
        \/ request("turn/interrupt", ThisCommand, tasks) /\ UNCHANGED results
    BY <1>3 DEF Interrupt
  <2>3. RequestTypes'
    <3>1. CASE UNCHANGED <<requests, tasks>>
      BY <3>1 DEF RequestTypes, requests, TypeOK
    <3>2. CASE request("turn/interrupt", ThisCommand, tasks)
      BY <3>2, <1>0, <1>1, <1>2, <2>1, RequestTyped
    <3> QED
      BY <3>1, <3>2, <2>2
  <2>4. results' \in [DOMAIN results' -> BOOLEAN] /\ DOMAIN results' \subseteq Nat
    BY <2>1, <2>2, <1>1, <1>2
  <2> QED
    BY <2>1, <2>3, <2>4, ArrivalTyped
<1>4. CASE Prompt
  <2>1. draining' \in BOOLEAN /\ UNCHANGED <<queue, enqueued, results>> /\ Arrives
        /\ startTurn(ThisCommand, tasks)
    BY <1>4 DEF Prompt, Drain
  <2>2. RequestTypes'
    BY <2>1, <1>1, <1>2, StartTyped
  <2> QED
    BY <2>1, <2>2, <1>1, ArrivalTyped
<1>5. CASE Steer
  <2>1. draining' \in BOOLEAN /\ UNCHANGED <<queue, enqueued, results>> /\ Arrives
        /\ request("turn/steer", ThisCommand, tasks)
    BY <1>5 DEF Steer, Drain
  <2>2. RequestTypes'
    BY <2>1, <1>0, <1>1, <1>2, RequestTyped
  <2> QED
    BY <2>1, <2>2, <1>1, ArrivalTyped
<1>6. CASE Enqueue
  <2>1. /\ draining' \in BOOLEAN /\ UNCHANGED <<requests, tasks>> /\ Arrives
        /\ queue' = Newest(Append(queue, ThisCommand), MaxQueued)
        /\ enqueued' = enqueued \cup {ThisCommand} /\ results' = Put(results, ThisCommand, TRUE)
    BY <1>6 DEF Enqueue, Drain, Longer
  <2>2. Append(queue, ThisCommand) \in Seq(Nat)
    BY <2>1, <1>2, AppendProperties DEF TypeOK
  <2>3. queue' \in Seq(Nat) /\ Len(queue') <= MaxQueued
    <3> DEFINE q == Append(queue, ThisCommand)
    <3>1. q \in Seq(Nat) /\ Len(q) \in Nat /\ MaxQueued \in Nat \ {0}
      BY <2>2, Elements, QueueAssumption
    <3>2. queue' = Newest(q, MaxQueued)
      BY <2>1
    <3> HIDE DEF q
    <3>3. Newest(q, MaxQueued) \in Seq(Nat)
          /\ Len(Newest(q, MaxQueued)) = IF Len(q) <= MaxQueued THEN Len(q) ELSE MaxQueued
      BY <3>1, NewestTyped
    <3> QED
      BY <3>1, <3>2, <3>3
  <2>4. results' \in [DOMAIN results' -> BOOLEAN] /\ DOMAIN results' \subseteq Nat
    BY <2>1, <1>2
  <2>5. enqueued' \subseteq Nat /\ received' \in Nat
    BY <2>1, <1>2, Arriving DEF TypeOK
  <2> QED
    BY <2>1, <2>3, <2>4, <2>5, Arriving DEF TypeOK, requests
<1> QED
  BY <1>3, <1>4, <1>5, <1>6 DEF CommandStep

(* ... after a task, ...                                                   *)
LEMMA TaskTyped ==
  ASSUME TypeOK, RunTask
  PROVE  TypeOK'
<1> DEFINE k == tasks[1]
<1>1. /\ k \in Tasks /\ Head(tasks) = k /\ Tail(tasks) \in Seq(Tasks)
      /\ UNCHANGED <<phase, child, active, queue, enqueued, received, server, turn, turns, done, stdout>>
      /\ draining' \in BOOLEAN
  BY Taken DEF TypeOK, RunTask, service, Drain
<1>2. k.command \in Nat /\ "turn/start" \in Methods
  BY <1>1 DEF Tasks, Methods
<1>3. \/ k.do = "resumed" /\ loaded' = TRUE /\ tasks' = Append(Tail(tasks), Task("start", k.command))
         /\ UNCHANGED <<requests, results, unhandled>>
      \/ k.do = "start" /\ request("turn/start", k.command, Tail(tasks))
         /\ UNCHANGED <<loaded, results, unhandled>>
      \/ /\ k.do \in {"resolve", "reject"} /\ tasks' = Tail(tasks) /\ UNCHANGED <<loaded, requests>>
         /\ results' = results \/ results' = Put(results, k.command, k.do = "resolve")
         /\ unhandled' \in BOOLEAN
  BY <1>1 DEF RunTask, Tasks, TypeOK
<1>4. RequestTypes'
  <2>1. Task("start", k.command) \in Tasks
    BY <1>2 DEF Task, Tasks
  <2>2. Append(Tail(tasks), Task("start", k.command)) \in Seq(Tasks)
    BY <1>1, <2>1, AppendProperties
  <2> QED
    BY <1>1, <1>2, <1>3, <2>2, RequestTyped DEF TypeOK, RequestTypes, requests
<1>5. results' \in [DOMAIN results' -> BOOLEAN] /\ DOMAIN results' \subseteq Nat
      /\ unhandled' \in BOOLEAN /\ loaded' \in BOOLEAN
  BY <1>2, <1>3 DEF TypeOK, Put
<1> QED
  BY <1>1, <1>4, <1>5 DEF TypeOK, RequestTypes

(* ... and after a line that is read.                                      *)
LEMMA LineTyped ==
  ASSUME TypeOK, HandleLine
  PROVE  TypeOK'
<1>1. CASE HandleReply
  <2>1. Reads("reply") /\ UNCHANGED <<active, loaded, queue, nextId, stdin>>
    BY <1>1 DEF HandleReply
  <2>2. \/ UNCHANGED <<table, tasks>>
        \/ \E i \in 1..Len(table) : /\ table' = RemoveAt(table, i)
                                    /\ tasks' = Append(tasks, Settled(table[i], Head(stdout).ok))
    <3>1. DOMAIN table = 1..Len(table)
      BY Elements DEF TypeOK
    <3> QED
      BY <3>1, <1>1 DEF HandleReply, Asked
  <2>3. Head(stdout).ok \in BOOLEAN
    BY <2>1, Read DEF Lines
  <2>4. ASSUME NEW i \in 1..Len(table)
        PROVE  RemoveAt(table, i) \in Seq(Entries)
               /\ Append(tasks, Settled(table[i], Head(stdout).ok)) \in Seq(Tasks)
    <3>1. table[i] \in Entries /\ RemoveAt(table, i) \in Seq(Entries)
      BY Elements, Removed DEF TypeOK
    <3>2. Settled(table[i], Head(stdout).ok) \in Tasks
      BY <3>1, <2>3, SettledTask
    <3> QED
      BY <3>1, <3>2, AppendProperties DEF TypeOK
  <2>5. RequestTypes'
    BY <2>1, <2>2, <2>4 DEF RequestTypes, TypeOK
  <2> QED
    BY <2>1, <2>5, Read DEF TypeOK, RequestTypes
<1>2. CASE HandleThreadStarted
  <2>1. Reads("thread/started") /\ loaded' = TRUE /\ UNCHANGED <<active, queue, requests, tasks>>
    BY <1>2 DEF HandleThreadStarted
  <2> QED
    BY <2>1, Read DEF TypeOK, requests
<1>3. CASE HandleTurnStarted
  <2>1. Reads("turn/started") /\ active' = Head(stdout).n /\ UNCHANGED <<loaded, queue, requests, tasks>>
    BY <1>3 DEF HandleTurnStarted
  <2>2. Head(stdout).n \in Nat
    BY <2>1, Read DEF Lines
  <2> QED
    BY <2>1, <2>2, Read DEF TypeOK, requests
<1>4. CASE HandleTurnCompleted
  <2>1. Reads("turn/completed") /\ active' = 0 /\ loaded' = loaded
        /\ \/ UNCHANGED <<requests, tasks, queue>>
           \/ queue # <<>> /\ startTurn(queue[1], tasks) /\ queue' = Tail(queue)
    BY <1>4 DEF HandleTurnCompleted
  <2>2. queue # <<>> => queue[1] \in Nat /\ Tail(queue) \in Seq(Nat) /\ Len(Tail(queue)) <= MaxQueued
    <3> SUFFICES ASSUME queue # <<>>
                 PROVE  queue[1] \in Nat /\ Tail(queue) \in Seq(Nat) /\ Len(Tail(queue)) <= MaxQueued
      OBVIOUS
    <3>1. queue[1] \in Nat /\ Tail(queue) \in Seq(Nat) /\ Len(Tail(queue)) = Len(queue) - 1
          /\ Len(queue) \in Nat
      BY Taken DEF TypeOK
    <3> QED
      BY <3>1, QueueAssumption DEF TypeOK
  <2>3. RequestTypes'
    BY <2>1, <2>2, StartTyped DEF RequestTypes, TypeOK, requests
  <2>4. queue' \in Seq(Nat) /\ Len(queue') <= MaxQueued
    BY <2>1, <2>2 DEF TypeOK
  <2> QED
    BY <2>1, <2>3, <2>4, Read DEF TypeOK, RequestTypes
<1> QED
  BY <1>1, <1>2, <1>3, <1>4 DEF HandleLine

(* The ways in which App Server may deal with its first message.           *)
Replied(ok) == Append(stdout, Reply(stdin[1].id, ok))

Deals ==
  \/ stdout' = Replied(FALSE) /\ UNCHANGED <<turn, turns, done>>
  \/ /\ stdin[1].method = "thread/resume" /\ UNCHANGED <<turn, turns, done>>
     /\ \/ stdout' = Replied(TRUE)
        \/ stdout' = Append(Append(stdout, Announced), Reply(stdin[1].id, TRUE))
  \/ /\ stdin[1].method # "thread/resume" /\ done' = Append(done, stdin[1].command)
     /\ \/ stdout' = Replied(TRUE) /\ UNCHANGED <<turn, turns>>
        \/ /\ stdout' = Append(Replied(TRUE), Started(turns + 1))
           /\ turn' = turns + 1 /\ turns' = turns + 1 /\ stdin[1].method = "turn/start"
        \/ /\ stdout' = Append(Replied(TRUE), Completed(turn, FALSE))
           /\ turn' = 0 /\ turns' = turns /\ stdin[1].method = "turn/interrupt"

(* What App Server writes are lines.                                       *)
LEMMA NewLines ==
  ASSUME TypeOK
  PROVE  /\ \A m \in Messages, ok \in BOOLEAN : Reply(m.id, ok) \in Lines
         /\ Announced \in Lines /\ Started(turns + 1) \in Lines
         /\ \A ok \in BOOLEAN : Completed(turn, ok) \in Lines
BY DEF TypeOK, Reply, Announced, Started, Completed, Line, Lines, Messages

(* App Server deals with a message in one of these ways.                   *)
LEMMA Dealing ==
  ASSUME TypeOK, Serve
  PROVE  Served /\ Deals
<1>0. Served
  BY DEF Serve, ServeError, ServeResume, ServeStart, ServeSteer, ServeInterrupt, ServedFirst
<1> DEFINE m == stdin[1]
<1>1. stdin # <<>> /\ Head(stdin) = m /\ m \in Messages /\ stdout \in Seq(Lines)
  BY <1>0, Taking DEF TypeOK
<1>2. Reply(m.id, TRUE) \in Lines /\ Announced \in Lines /\ Started(turns + 1) \in Lines
      /\ Completed(turn, FALSE) \in Lines
  BY <1>1, NewLines
<1>3. CASE ServeError
  BY <1>0, <1>1, <1>3 DEF ServeError, Deals, Replied
<1>4. CASE ServeResume
  <2>1. m.method = "thread/resume" /\ UNCHANGED <<turn, turns, done>>
    BY <1>1, <1>4 DEF ServeResume, ServedFirst
  <2>2. PICK news \in {<<>>, <<Announced>>} :
          stdout' = stdout \o news \o <<Reply(Head(stdin).id, TRUE)>>
    BY <1>4 DEF ServeResume
  <2>3. CASE news = <<>>
    <3>1. stdout \o <<>> = stdout
      BY <1>1, ConcatEmptySeq
    <3>2. stdout' = stdout \o <<Reply(m.id, TRUE)>>
      BY <2>2, <2>3, <3>1, <1>1
    <3>3. stdout' = Replied(TRUE)
      BY <3>2, <1>1, <1>2, AppendIsConcat DEF Replied
    <3> QED
      BY <1>0, <2>1, <3>3 DEF Deals
  <2>4. CASE news = <<Announced>>
    <3> DEFINE s == Append(stdout, Announced)
    <3>1. s = stdout \o <<Announced>> /\ s \in Seq(Lines)
      BY <1>1, <1>2, AppendIsConcat, AppendProperties
    <3>2. stdout' = s \o <<Reply(m.id, TRUE)>>
      BY <2>2, <2>4, <3>1, <1>1
    <3> HIDE DEF s
    <3>3. stdout' = Append(s, Reply(m.id, TRUE))
      BY <3>1, <3>2, <1>2, AppendIsConcat
    <3> QED
      BY <1>0, <2>1, <3>3 DEF Deals, s
  <2> QED
    BY <2>2, <2>3, <2>4
<1>5. CASE ServeStart
  <2>1. m.method = "turn/start" /\ done' = Append(done, m.command)
    BY <1>1, <1>5 DEF ServeStart, ServedFirst
  <2>2. \/ /\ turn' = turns + 1 /\ turns' = turns + 1
           /\ stdout' = stdout \o <<Reply(m.id, TRUE), Started(turns + 1)>>
        \/ stdout' = Replied(TRUE) /\ UNCHANGED <<turn, turns>>
    BY <1>1, <1>5 DEF ServeStart, Replied
  <2>3. stdout \o <<Reply(m.id, TRUE), Started(turns + 1)>> = Append(Replied(TRUE), Started(turns + 1))
    <3> DEFINE a == Reply(m.id, TRUE)
               b == Started(turns + 1)
    <3>1. a \in Lines /\ b \in Lines
      BY <1>2
    <3> HIDE DEF a, b
    <3>2. stdout \o <<a, b>> = Append(Append(stdout, a), b)
      BY <1>1, <3>1, Pairs
    <3> QED
      BY <3>2 DEF a, b, Replied
  <2>4. m.method # "thread/resume" /\ Deals
    BY <2>1, <2>2, <2>3 DEF Deals
  <2> QED
    BY <1>0, <2>4
<1>6. CASE ServeSteer
  BY <1>0, <1>1, <1>6 DEF ServeSteer, ServedFirst, Deals, Replied
<1>7. CASE ServeInterrupt
  <2>1. m.method = "turn/interrupt" /\ done' = Append(done, m.command) /\ turn' = 0 /\ turns' = turns
        /\ stdout' = stdout \o <<Reply(m.id, TRUE), Completed(turn, FALSE)>>
    BY <1>1, <1>7 DEF ServeInterrupt, ServedFirst
  <2>2. stdout \o <<Reply(m.id, TRUE), Completed(turn, FALSE)>>
          = Append(Replied(TRUE), Completed(turn, FALSE))
    <3> DEFINE a == Reply(m.id, TRUE)
               b == Completed(turn, FALSE)
    <3>1. a \in Lines /\ b \in Lines
      BY <1>2
    <3> HIDE DEF a, b
    <3>2. stdout \o <<a, b>> = Append(Append(stdout, a), b)
      BY <1>1, <3>1, Pairs
    <3> QED
      BY <3>2 DEF a, b, Replied
  <2>3. m.method # "thread/resume" /\ Deals
    BY <2>1, <2>2 DEF Deals
  <2> QED
    BY <1>0, <2>3
<1> QED
  BY <1>0, <1>3, <1>4, <1>5, <1>6, <1>7 DEF Serve

(* All that any of them writes are lines.                                  *)
LEMMA DealsTyped ==
  ASSUME TypeOK, Served, Deals
  PROVE  /\ stdout' \in Seq(Lines) /\ done' \in Seq(Nat) /\ turn' \in Nat /\ turns' \in Nat
         /\ \A ok \in BOOLEAN : Replied(ok) \in Seq(Lines)
<1>1. stdin[1] \in Messages /\ stdin[1].command \in Nat
  BY Taking DEF Messages
<1>2. \A ok \in BOOLEAN : Replied(ok) \in Seq(Lines)
  BY <1>1, NewLines, AppendProperties DEF TypeOK, Replied
<1>3. Append(stdout, Announced) \in Seq(Lines)
  BY NewLines, AppendProperties DEF TypeOK
<1>4. Append(Append(stdout, Announced), Reply(stdin[1].id, TRUE)) \in Seq(Lines)
  BY <1>1, <1>3, NewLines, AppendProperties
<1>5. Append(Replied(TRUE), Started(turns + 1)) \in Seq(Lines)
      /\ Append(Replied(TRUE), Completed(turn, FALSE)) \in Seq(Lines)
  BY <1>2, NewLines, AppendProperties
<1>6. Append(done, stdin[1].command) \in Seq(Nat)
  BY <1>1, AppendProperties DEF TypeOK
<1>7. turns + 1 \in Nat /\ turns \in Nat /\ turn \in Nat /\ done \in Seq(Nat)
  BY DEF TypeOK
<1>8. stdout' \in Seq(Lines)
  BY <1>2, <1>4, <1>5 DEF Deals
<1>9. done' \in Seq(Nat)
  BY <1>6, <1>7 DEF Deals
<1>10. turn' \in Nat /\ turns' \in Nat
  <2>1. turn' \in {turn, turns + 1, 0} /\ turns' \in {turns, turns + 1}
    BY DEF Deals
  <2> QED
    BY <2>1, <1>7
<1> QED
  BY <1>2, <1>8, <1>9, <1>10

(* The agent's end, for whatever reason, leaves nothing.                   *)
LEMMA Ending ==
  ASSUME Crash \/ Leave \/ BrokenPipe
  PROVE  Down
BY DEF Crash, Leave, BrokenPipe

(* Every step keeps the types, ...                                         *)
LEMMA TypeStep ==
  ASSUME TypeOK, [Next]_vars
  PROVE  TypeOK'
<1>1. CASE CommandStep
  BY <1>1, CommandTyped
<1>2. CASE RunTask
  BY <1>2, TaskTyped
<1>3. CASE HandleLine
  BY <1>3, LineTyped
<1>4. CASE Exited
  <2>1. /\ table' = <<>> /\ stdin' = <<>> /\ server' = "reaped" /\ child' = FALSE
        /\ tasks' = RejectAll(table) /\ draining' \in BOOLEAN
        /\ UNCHANGED <<phase, adapter, nextId, unhandled, received, results, turn, turns, done, stdout>>
    BY <1>4 DEF Exited
  <2>2. RejectAll(table) \in Seq(Tasks)
    BY AllRejected DEF TypeOK
  <2> QED
    BY <2>1, <2>2, Nothing DEF TypeOK, adapter
<1>5. CASE Timeout
  <2>1. /\ table # <<>> /\ table' = Tail(table) /\ tasks' = <<Settled(Head(table), FALSE)>>
        /\ draining' = TRUE
        /\ UNCHANGED <<phase, child, adapter, nextId, stdin, unhandled, received, results,
                       service, stdout>>
    BY <1>5 DEF Timeout
  <2>2. Head(table) \in Entries /\ table' \in Seq(Entries)
    BY <2>1, Taken DEF TypeOK
  <2>3. Settled(Head(table), FALSE) \in Tasks
    BY <2>2, SettledTask
  <2>4. tasks' \in Seq(Tasks)
    <3> DEFINE k == Settled(Head(table), FALSE)
    <3>1. tasks' = <<k>> /\ k \in Tasks
      BY <2>1, <2>3
    <3> HIDE DEF k
    <3> QED
      BY <3>1
  <2> QED
    BY <2>1, <2>2, <2>4 DEF TypeOK, adapter, service
<1>6. CASE Down
  <2>1. /\ queue' = <<>> /\ table' = <<>> /\ stdin' = <<>> /\ stdout' = <<>> /\ tasks' = <<>>
        /\ active' = 0 /\ nextId' = 1 /\ turn' = 0
        /\ phase' = "down" /\ server' = "reaped"
        /\ child' = FALSE /\ loaded' = FALSE /\ draining' = FALSE /\ unhandled' = FALSE
        /\ UNCHANGED <<enqueued, received, results, turns, done>>
    BY <1>6 DEF Down
  <2>2. /\ queue' \in Seq(Nat) /\ table' \in Seq(Entries) /\ stdin' \in Seq(Messages)
        /\ stdout' \in Seq(Lines) /\ tasks' \in Seq(Tasks)
    BY <2>1, Nothing
  <2>3. Len(queue') <= MaxQueued
    BY <2>1, Nothing, QueueAssumption
  <2> QED
    BY <2>1, <2>2, <2>3 DEF TypeOK
<1>7. CASE Stop
  BY <1>7 DEF Stop, TypeOK, adapter, requests, loop, service
<1>8. CASE Serve
  <2>1. Served /\ Deals
    BY <1>8, Dealing
  <2>2. stdout' \in Seq(Lines) /\ done' \in Seq(Nat) /\ turn' \in Nat /\ turns' \in Nat
    BY <2>1, DealsTyped
  <2> QED
    BY <2>1, <2>2, Taking DEF TypeOK
<1>9. CASE EndTurn
  <2>1. stdout' = Append(stdout, Completed(turn, TRUE)) /\ turn' = 0
        /\ UNCHANGED <<phase, child, adapter, requests, loop, received, results, server, turns, done>>
    BY <1>9 DEF EndTurn
  <2>2. stdout' \in Seq(Lines)
    BY <2>1, NewLines, AppendProperties DEF TypeOK
  <2> QED
    BY <2>1, <2>2 DEF TypeOK, adapter, requests, loop
<1>10. CASE End
  BY <1>10, Nothing DEF End, TypeOK, adapter, loop
<1>11. CASE UNCHANGED vars
  BY <1>11 DEF TypeOK, vars, adapter, requests, loop, service
<1> QED
  BY <1>1, <1>2, <1>3, <1>4, <1>5, <1>6, <1>7, <1>8, <1>9, <1>10, <1>11, Ending DEF Next, AgentStep

(* ... and they hold at first.                                             *)
LEMMA InitTypes ==
  ASSUME Init
  PROVE  TypeOK
<1>1. /\ queue \in Seq(Nat) /\ table \in Seq(Entries) /\ stdin \in Seq(Messages)
      /\ stdout \in Seq(Lines) /\ tasks \in Seq(Tasks) /\ done \in Seq(Nat)
  BY Nothing DEF Init
<1>2. Len(queue) <= MaxQueued
  BY Nothing, QueueAssumption DEF Init
<1>3. DOMAIN results = {} /\ results \in [DOMAIN results -> BOOLEAN]
  BY DEF Init
<1>4. enqueued \subseteq Nat /\ DOMAIN results \subseteq Nat
  BY <1>3 DEF Init
<1> QED
  BY <1>1, <1>2, <1>3, <1>4 DEF Init, TypeOK


-----------------------------------------------------------------------------
(* What a step comes to, by what it does with commands, requests and lines.*)

(* A command goes on as a request, or as the start of a turn.              *)
Goes(m, c, due) ==
  \/ m # "thread/resume" /\ Opened(m, c, due)
  \/ m = "thread/resume" /\ ~loaded /\ Opened(m, c, due)
  \/ m = "thread/resume" /\ Begun(c, due)
  \/ Refused(c, due)

(* A command arrives: it goes on, is denied, or is queued.                 *)
Comes(m) ==
  /\ received' = ThisCommand /\ tasks = <<>> /\ m \in Methods
  /\ m # "thread/resume" => active # 0
  /\ Goes(m, ThisCommand, <<>>)
  /\ UNCHANGED <<phase, adapter, unhandled, results, service, stdout>>

Denied ==
  /\ received' = ThisCommand /\ results' = Put(results, ThisCommand, FALSE)
  /\ UNCHANGED <<phase, adapter, requests, tasks, unhandled, service, stdout>>

Queued ==
  /\ active # 0 /\ received' = ThisCommand /\ results' = Put(results, ThisCommand, TRUE)
  /\ queue' = Newest(Append(queue, ThisCommand), MaxQueued)
  /\ enqueued' = enqueued \cup {ThisCommand}
  /\ UNCHANGED <<phase, active, loaded, requests, tasks, unhandled, service, stdout>>

(* The first task runs.                                                    *)
ResumedRuns ==
  /\ tasks # <<>> /\ tasks[1].do = "resumed" /\ loaded' = TRUE
  /\ tasks' = Append(Tail(tasks), Task("start", tasks[1].command))
  /\ UNCHANGED <<phase, active, queue, enqueued, requests, unhandled, received, results,
                 service, stdout>>

StartRuns ==
  /\ tasks # <<>> /\ tasks[1].do = "start"
  /\ Goes("turn/start", tasks[1].command, Tail(tasks))
  /\ UNCHANGED <<phase, adapter, unhandled, received, results, service, stdout>>

SettledRuns ==
  /\ tasks # <<>> /\ tasks[1].do \in {"resolve", "reject"} /\ tasks' = Tail(tasks)
  /\ results' = IF tasks[1].command \in DOMAIN results THEN results
                ELSE Put(results, tasks[1].command, tasks[1].do = "resolve")
  /\ tasks[1].command \in DOMAIN results /\ tasks[1].do = "reject" => unhandled' = TRUE
  /\ unhandled => unhandled'
  /\ UNCHANGED <<phase, adapter, requests, received, service, stdout>>

(* The first line is read.                                                 *)
LineRead(kind) ==
  /\ stdout # <<>> /\ stdout[1].kind = kind /\ stdout' = Tail(stdout)
  /\ UNCHANGED <<phase, unhandled, enqueued, nextId, stdin, received, results, service>>

Answered(i) ==
  /\ LineRead("reply") /\ i \in 1..Len(table) /\ table[i].id = stdout[1].n
  /\ table' = RemoveAt(table, i)
  /\ tasks' = Append(tasks, Settled(table[i], stdout[1].ok))
  /\ UNCHANGED <<active, loaded, queue>>

Passed ==
  /\ UNCHANGED <<queue, table, tasks>>
  /\ \/ LineRead("reply") /\ UNCHANGED <<active, loaded>>
     \/ LineRead("thread/started") /\ loaded' = TRUE /\ active' = active
     \/ LineRead("turn/started") /\ loaded' = loaded /\ active' = stdout[1].n
     \/ LineRead("turn/completed") /\ loaded' = loaded /\ active' = 0

NextBegins ==
  /\ stdout # <<>> /\ stdout[1].kind = "turn/completed" /\ stdout' = Tail(stdout)
  /\ queue # <<>> /\ queue' = Tail(queue) /\ active' = 0
  /\ Goes("thread/resume", queue[1], tasks)
  /\ UNCHANGED <<phase, loaded, enqueued, unhandled, received, results, service>>

(* A request runs out of time, or all are given up.                        *)
TimedOut ==
  /\ tasks = <<>> /\ table # <<>> /\ table' = Tail(table)
  /\ tasks' = <<Settled(table[1], FALSE)>>
  /\ UNCHANGED <<phase, adapter, nextId, stdin, unhandled, received, results, service, stdout>>

Forsaken ==
  /\ tasks = <<>> /\ tasks' = RejectAll(table) /\ table' = <<>> /\ stdin' = <<>>
  /\ server' = "reaped"
  /\ UNCHANGED <<phase, adapter, nextId, unhandled, received, results, turn, turns, done, stdout>>

(* App Server takes a message, ends a turn or ends.                        *)
Dealt ==
  /\ server = "runs" /\ stdin # <<>> /\ stdin' = Tail(stdin) /\ Deals
  /\ UNCHANGED <<phase, adapter, nextId, table, tasks, unhandled, received, results, server>>

TurnEnds ==
  /\ stdout' = Append(stdout, Completed(turn, TRUE)) /\ turn # 0 /\ turn' = 0
  /\ UNCHANGED <<phase, adapter, requests, tasks, unhandled, received, results, server, turns, done>>

Quiet ==
  /\ phase = "down" => phase' = "down"
  /\ UNCHANGED <<adapter, requests, tasks, unhandled, received, results, service, stdout>>

Moves ==
  \/ \E m \in Methods : Comes(m)
  \/ Denied \/ Queued
  \/ ResumedRuns \/ StartRuns \/ SettledRuns
  \/ \E i \in 1..Len(table) : Answered(i)
  \/ Passed \/ NextBegins
  \/ TimedOut \/ Forsaken
  \/ Dealt \/ TurnEnds \/ End \/ Down \/ Quiet

(* A command is one of the moves, ...                                      *)
LEMMA CommandMoves ==
  ASSUME TypeOK, CommandStep
  PROVE  (\E m \in Methods : Comes(m)) \/ Denied \/ Queued
<1>0. {"thread/resume", "turn/steer", "turn/interrupt"} \subseteq Methods
  BY DEF Methods
<1>1. ASSUME Arrives
      PROVE  /\ tasks = <<>> /\ received' = ThisCommand
             /\ UNCHANGED <<phase, active, loaded, unhandled, service, stdout>>
  BY <1>1, Arriving DEF service
<1>2. CASE Interrupt
  <2>1. Arrives /\ UNCHANGED <<queue, enqueued>>
    BY <1>2 DEF Interrupt
  <2>2. CASE active = 0
    <3>1. results' = Put(results, ThisCommand, FALSE) /\ UNCHANGED <<requests, tasks>>
      BY <1>2, <2>2 DEF Interrupt
    <3> QED
      BY <1>1, <2>1, <3>1 DEF Denied, adapter
  <2>3. CASE active # 0
    <3>1. request("turn/interrupt", ThisCommand, <<>>) /\ UNCHANGED results
      BY <1>1, <1>2, <2>1, <2>3 DEF Interrupt
    <3>2. Goes("turn/interrupt", ThisCommand, <<>>)
      BY <3>1, Requests DEF Goes
    <3> QED
      BY <1>0, <1>1, <2>1, <2>3, <3>1, <3>2 DEF Comes, adapter
  <2> QED
    BY <2>2, <2>3
<1>3. CASE Prompt
  <2>1. Arrives /\ UNCHANGED <<queue, enqueued, results>> /\ startTurn(ThisCommand, tasks)
    BY <1>3 DEF Prompt
  <2>2. Begun(ThisCommand, <<>>) \/ (~loaded /\ request("thread/resume", ThisCommand, <<>>))
    BY <1>1, <2>1, StartsTurn
  <2>3. Goes("thread/resume", ThisCommand, <<>>)
    BY <2>2, Requests DEF Goes
  <2> QED
    BY <1>0, <1>1, <2>1, <2>3 DEF Comes, adapter
<1>4. CASE Steer
  <2>1. Arrives /\ active # 0 /\ UNCHANGED <<queue, enqueued, results>>
        /\ request("turn/steer", ThisCommand, tasks)
    BY <1>4 DEF Steer
  <2>2. Goes("turn/steer", ThisCommand, <<>>)
    BY <1>1, <2>1, Requests DEF Goes
  <2> QED
    BY <1>0, <1>1, <2>1, <2>2 DEF Comes, adapter
<1>5. CASE Enqueue
  <2>1. Arrives
    BY <1>5 DEF Enqueue
  <2> QED
    BY <1>1, <1>5, <2>1 DEF Enqueue, Longer, Queued
<1> QED
  BY <1>2, <1>3, <1>4, <1>5 DEF CommandStep

(* ... so is a task, ...                                                   *)
LEMMA TaskMoves ==
  ASSUME TypeOK, RunTask
  PROVE  ResumedRuns \/ StartRuns \/ SettledRuns
<1>1. /\ tasks # <<>> /\ tasks[1] \in Tasks /\ Head(tasks) = tasks[1]
      /\ UNCHANGED <<phase, active, queue, enqueued, received, service, stdout>>
  BY Taken DEF TypeOK, RunTask
<1>2. CASE tasks[1].do = "resumed"
  BY <1>1, <1>2 DEF RunTask, ResumedRuns
<1>3. CASE tasks[1].do = "start"
  <2>1. request("turn/start", tasks[1].command, Tail(tasks)) /\ UNCHANGED <<loaded, results, unhandled>>
    BY <1>1, <1>3 DEF RunTask
  <2>2. Goes("turn/start", tasks[1].command, Tail(tasks))
    BY <2>1, Requests DEF Goes
  <2> QED
    BY <1>1, <1>3, <2>1, <2>2 DEF StartRuns, adapter
<1>4. CASE tasks[1].do \in {"resolve", "reject"}
  <2>1. /\ tasks' = Tail(tasks) /\ UNCHANGED <<loaded, requests>>
        /\ results' = IF tasks[1].command \in DOMAIN results THEN results
                      ELSE Put(results, tasks[1].command, tasks[1].do = "resolve")
        /\ unhandled' = (unhandled \/ (tasks[1].command \in DOMAIN results /\ tasks[1].do = "reject"))
    BY <1>1, <1>4 DEF RunTask
  <2>2. tasks[1].command \in DOMAIN results /\ tasks[1].do = "reject" => unhandled' = TRUE
    BY <2>1
  <2>3. unhandled => unhandled'
    BY <2>1
  <2> QED
    BY <1>1, <1>4, <2>1, <2>2, <2>3 DEF SettledRuns, adapter
<1> QED
  BY <1>1, <1>2, <1>3, <1>4 DEF Tasks

(* ... so is a line, ...                                                   *)
LEMMA LineMoves ==
  ASSUME TypeOK, HandleLine
  PROVE  (\E i \in 1..Len(table) : Answered(i)) \/ Passed \/ NextBegins
<1>1. ASSUME NEW kind, Reads(kind), UNCHANGED <<nextId, stdin>>
      PROVE  LineRead(kind) /\ Head(stdout) = stdout[1]
  BY <1>1, Read DEF LineRead, service
<1>2. CASE HandleReply
  <2>1. Reads("reply") /\ UNCHANGED <<active, loaded, queue, nextId, stdin>>
    BY <1>2 DEF HandleReply
  <2>2. LineRead("reply") /\ Head(stdout) = stdout[1]
    BY <1>1, <2>1
  <2>3. DOMAIN table = 1..Len(table)
    BY Elements DEF TypeOK
  <2>4. CASE UNCHANGED <<table, tasks>>
    BY <2>1, <2>2, <2>4 DEF Passed
  <2>5. CASE \E i \in Asked : /\ table' = RemoveAt(table, i)
                              /\ tasks' = Append(tasks, Settled(table[i], Head(stdout).ok))
    BY <2>1, <2>2, <2>3, <2>5 DEF Answered, Asked
  <2> QED
    BY <1>2, <2>4, <2>5 DEF HandleReply
<1>3. CASE HandleThreadStarted
  <2>1. Reads("thread/started") /\ loaded' = TRUE /\ UNCHANGED <<active, queue, requests, tasks>>
    BY <1>3 DEF HandleThreadStarted
  <2> QED
    BY <1>1, <2>1 DEF Passed, requests
<1>4. CASE HandleTurnStarted
  <2>1. Reads("turn/started") /\ active' = Head(stdout).n /\ UNCHANGED <<loaded, queue, requests, tasks>>
    BY <1>4 DEF HandleTurnStarted
  <2> QED
    BY <1>1, <2>1 DEF Passed, requests
<1>5. CASE HandleTurnCompleted
  <2>1. Reads("turn/completed") /\ active' = 0 /\ loaded' = loaded
    BY <1>5 DEF HandleTurnCompleted
  <2>2. CASE queue = <<>>
    <3>1. UNCHANGED <<requests, tasks, queue>>
      BY <1>5, <2>2 DEF HandleTurnCompleted
    <3> QED
      BY <1>1, <2>1, <3>1 DEF Passed, requests
  <2>3. CASE queue # <<>>
    <3>1. startTurn(queue[1], tasks) /\ queue' = Tail(queue)
      BY <1>5, <2>3 DEF HandleTurnCompleted
    <3>2. Goes("thread/resume", queue[1], tasks)
      BY <3>1, StartsTurn, Requests DEF Goes
    <3> QED
      BY <2>1, <2>3, <3>1, <3>2, Read DEF NextBegins, service
  <2> QED
    BY <2>2, <2>3
<1> QED
  BY <1>2, <1>3, <1>4, <1>5 DEF HandleLine

(* ... and so is every step.                                               *)
LEMMA EveryMove ==
  ASSUME TypeOK, [Next]_vars
  PROVE  Moves
<1>1. CASE CommandStep
  BY <1>1, CommandMoves DEF Moves
<1>2. CASE RunTask
  BY <1>2, TaskMoves DEF Moves
<1>3. CASE HandleLine
  BY <1>3, LineMoves DEF Moves
<1>4. CASE Exited
  BY <1>4 DEF Exited, Idle, Forsaken, Moves
<1>5. CASE Timeout
  <2>1. table # <<>> => Head(table) = table[1]
    BY Taken DEF TypeOK
  <2> QED
    BY <1>5, <2>1 DEF Timeout, Idle, TimedOut, Moves
<1>6. CASE Crash \/ Leave \/ BrokenPipe
  BY <1>6, Ending DEF Moves
<1>7. CASE Stop
  <2>1. Quiet
    BY <1>7 DEF Stop, Quiet, loop
  <2> QED
    BY <2>1 DEF Moves
<1>8. CASE Serve
  <2>1. Served /\ Deals
    BY <1>8, Dealing
  <2>2. Dealt
    BY <2>1, Taking DEF Dealt, adapter
  <2> QED
    BY <2>2 DEF Moves
<1>9. CASE EndTurn
  BY <1>9 DEF EndTurn, TurnEnds, Moves, loop
<1>10. CASE End
  BY <1>10 DEF Moves
<1>11. CASE UNCHANGED vars
  <2>1. Quiet
    BY <1>11 DEF Quiet, vars, loop
  <2> QED
    BY <2>1 DEF Moves
<1> QED
  BY <1>1, <1>2, <1>3, <1>4, <1>5, <1>6, <1>7, <1>8, <1>9, <1>10, <1>11 DEF Next, AgentStep

(* Which requests, messages and tasks there are when a command goes on.    *)
LEMMA Going ==
  ASSUME TypeOK, NEW m \in Methods, NEW c \in Nat, NEW due \in Seq(Tasks), Goes(m, c, due)
  PROVE  \/ /\ m = "thread/resume" => ~loaded
            /\ nextId' = nextId + 1 /\ ToSet(table') = ToSet(table) \cup {Entry(m, c)}
            /\ ToSet(stdin') = ToSet(stdin) \cup {Message(m, c)} /\ ToSet(tasks') = ToSet(due)
         \/ /\ nextId' = nextId + 1 /\ UNCHANGED <<table, stdin>>
            /\ ToSet(tasks') = ToSet(due) \cup {Task("reject", c)}
         \/ /\ m = "thread/resume" /\ loaded /\ UNCHANGED <<nextId, table, stdin>>
            /\ ToSet(tasks') = ToSet(due) \cup {Task("start", c)}
<1>1. /\ Entry(m, c) \in Entries /\ Message(m, c) \in Messages
      /\ Task("reject", c) \in Tasks /\ Task("start", c) \in Tasks
      /\ table \in Seq(Entries) /\ stdin \in Seq(Messages)
  BY NewRecords DEF TypeOK
<1>2. /\ ToSet(Append(table, Entry(m, c))) = ToSet(table) \cup {Entry(m, c)}
      /\ ToSet(Append(stdin, Message(m, c))) = ToSet(stdin) \cup {Message(m, c)}
      /\ ToSet(Append(due, Task("reject", c))) = ToSet(due) \cup {Task("reject", c)}
      /\ ToSet(Append(due, Task("start", c))) = ToSet(due) \cup {Task("start", c)}
  BY <1>1, Appended
<1> QED
  BY <1>2 DEF Goes, Opened, Refused, Begun

(* What each of them says.                                                 *)
LEMMA Fields ==
  /\ \A m, c : Entry(m, c).id = nextId /\ Entry(m, c).method = m /\ Entry(m, c).command = c
  /\ \A m, c : /\ Message(m, c).id = nextId /\ Message(m, c).method = m
               /\ Message(m, c).command = c
  /\ \A do, c : Task(do, c).do = do /\ Task(do, c).command = c
BY DEF Entry, Message, Task

(* The variables of the groups that a move leaves alone.                   *)
LEMMA Steady ==
  UNCHANGED <<adapter, requests, tasks, received, results, service, stdout>>
    => UNCHANGED <<active, loaded, queue, enqueued, nextId, table, stdin, tasks, received,
                   results, server, turn, turns, done, stdout>>
BY DEF adapter, requests, service

(* The first task, as it leaves.                                           *)
LEMMA FirstTask ==
  ASSUME TypeOK, tasks # <<>>
  PROVE  /\ tasks[1] \in Tasks /\ tasks[1].command \in Nat /\ Tail(tasks) \in Seq(Tasks)
         /\ ToSet(tasks) = ToSet(Tail(tasks)) \cup {tasks[1]}
         /\ Task("start", tasks[1].command) \in Tasks
         /\ ToSet(Append(Tail(tasks), Task("start", tasks[1].command)))
              = ToSet(Tail(tasks)) \cup {Task("start", tasks[1].command)}
<1>1. /\ tasks[1] \in Tasks /\ Tail(tasks) \in Seq(Tasks)
      /\ ToSet(tasks) = ToSet(Tail(tasks)) \cup {tasks[1]}
  BY Taken DEF TypeOK
<1>2. tasks[1].command \in Nat /\ Task("start", tasks[1].command) \in Tasks
  BY <1>1 DEF Task, Tasks
<1>3. ToSet(Append(Tail(tasks), Task("start", tasks[1].command)))
        = ToSet(Tail(tasks)) \cup {Task("start", tasks[1].command)}
  <2> DEFINE r == Tail(tasks)
             k == Task("start", tasks[1].command)
  <2>1. r \in Seq(Tasks) /\ k \in Tasks
    BY <1>1, <1>2
  <2> HIDE DEF r, k
  <2>2. ToSet(Append(r, k)) = ToSet(r) \cup {k}
    BY <2>1, Appended
  <2> QED
    BY <2>2 DEF r, k
<1> QED
  BY <1>1, <1>2, <1>3

(* The request that is answered, as it leaves.                             *)
LEMMA AnsweredEntry ==
  ASSUME TypeOK, NEW i \in 1..Len(table), Answered(i)
  PROVE  /\ table[i] \in Entries /\ table[i] \in ToSet(table) /\ stdout[1] \in ToSet(stdout)
         /\ stdout[1].ok \in BOOLEAN
         /\ ToSet(table) = ToSet(table') \cup {table[i]}
         /\ Settled(table[i], stdout[1].ok) \in Tasks
         /\ ToSet(tasks') = ToSet(tasks) \cup {Settled(table[i], stdout[1].ok)}
         /\ Settled(table[i], stdout[1].ok).command = table[i].command
         /\ Settled(table[i], stdout[1].ok).do =
              IF ~stdout[1].ok THEN "reject"
              ELSE IF table[i].method = "thread/resume" THEN "resumed" ELSE "resolve"
<1>1. table' = RemoveAt(table, i) /\ tasks' = Append(tasks, Settled(table[i], stdout[1].ok))
      /\ stdout # <<>>
  BY DEF Answered, LineRead
<1>2. table[i] \in Entries /\ ToSet(table) = ToSet(RemoveAt(table, i)) \cup {table[i]}
  BY Elements, Removed DEF TypeOK
<1>3. stdout[1] \in Lines /\ stdout[1] \in ToSet(stdout)
  BY <1>1, Taken DEF TypeOK
<1>4. stdout[1].ok \in BOOLEAN
  BY <1>3 DEF Lines
<1>5. /\ Settled(table[i], stdout[1].ok) \in Tasks
      /\ Settled(table[i], stdout[1].ok).command = table[i].command
      /\ Settled(table[i], stdout[1].ok).do =
           IF ~stdout[1].ok THEN "reject"
           ELSE IF table[i].method = "thread/resume" THEN "resumed" ELSE "resolve"
  BY <1>2, <1>4, SettledTask
<1>6. ToSet(Append(tasks, Settled(table[i], stdout[1].ok)))
        = ToSet(tasks) \cup {Settled(table[i], stdout[1].ok)}
  BY <1>5, Appended DEF TypeOK
<1> QED
  BY <1>1, <1>2, <1>3, <1>4, <1>5, <1>6

(* A sequence of one element.                                              *)
LEMMA Single == \A x : ToSet(<<x>>) = {x}
<1> SUFFICES ASSUME NEW x
             PROVE  ToSet(<<x>>) = {x}
  OBVIOUS
<1>1. DOMAIN <<x>> = {1} /\ <<x>>[1] = x
  OBVIOUS
<1> DEFINE s == <<x>>
<1>2. DOMAIN s = {1} /\ s[1] = x
  BY <1>1
<1> HIDE DEF s
<1>3. ToSet(s) = {x}
  BY <1>2 DEF ToSet
<1> QED
  BY <1>3 DEF s

(* The request that times out, as it leaves.                               *)
LEMMA TimedOutEntry ==
  ASSUME TypeOK, TimedOut
  PROVE  /\ table[1] \in Entries
         /\ ToSet(table) = ToSet(table') \cup {table[1]}
         /\ Settled(table[1], FALSE) \in Tasks
         /\ ToSet(tasks') = {Settled(table[1], FALSE)}
         /\ Settled(table[1], FALSE).command = table[1].command
         /\ Settled(table[1], FALSE).do = "reject"
<1>1. table # <<>> /\ table' = Tail(table) /\ tasks' = <<Settled(table[1], FALSE)>>
  BY DEF TimedOut
<1>2. table[1] \in Entries /\ ToSet(table) = ToSet(table') \cup {table[1]}
  BY <1>1, Taken DEF TypeOK
<1>3. /\ Settled(table[1], FALSE) \in Tasks
      /\ Settled(table[1], FALSE).command = table[1].command
      /\ Settled(table[1], FALSE).do = "reject"
  BY <1>2, SettledTask
<1>4. ToSet(<<Settled(table[1], FALSE)>>) = {Settled(table[1], FALSE)}
  BY Single
<1> QED
  BY <1>1, <1>2, <1>3, <1>4

(* The queue when its first prompt leaves, or a prompt comes.              *)
LEMMA NextLeaves ==
  ASSUME TypeOK, NextBegins
  PROVE  /\ queue[1] \in Nat /\ queue[1] \in ToSet(queue)
         /\ ToSet(queue) = ToSet(queue') \cup {queue[1]} /\ tasks \in Seq(Tasks)
BY Taken DEF TypeOK, NextBegins

(* A command that has just come is newer than all the others.              *)
LEMMA Arrived ==
  ASSUME TypeOK, received' = ThisCommand
  PROVE  /\ ThisCommand \in Nat /\ ThisCommand \in 1..received' /\ 1..received \subseteq 1..received'
         /\ ThisCommand \notin 1..received
         /\ \A c \in 1..received : c < ThisCommand
BY DEF TypeOK, ThisCommand

(* How the queue and what has ever been in it go on.                       *)
LEMMA QueueWhole ==
  ASSUME TypeOK, Queued
  PROVE  /\ Append(queue, ThisCommand) \in Seq(Nat)
         /\ Len(Append(queue, ThisCommand)) = Len(queue) + 1 /\ Len(queue) \in Nat
         /\ Append(queue, ThisCommand)[Len(queue) + 1] = ThisCommand
         /\ \A i \in 1..Len(queue) : Append(queue, ThisCommand)[i] = queue[i]
         /\ queue' \in Seq(Nat)
         /\ Len(queue') = IF Len(queue) + 1 <= MaxQueued THEN Len(queue) + 1 ELSE MaxQueued
         /\ \A i \in 1..Len(queue') :
              queue'[i] = Append(queue, ThisCommand)[Len(queue) + 1 - Len(queue') + i]
         /\ ToSet(queue') \subseteq ToSet(queue) \cup {ThisCommand}
<1> DEFINE q == Append(queue, ThisCommand)
<1>1. queue \in Seq(Nat) /\ ThisCommand \in Nat /\ MaxQueued \in Nat \ {0}
  BY Arrived, QueueAssumption DEF TypeOK, Queued
<1>2. /\ q \in Seq(Nat) /\ Len(q) = Len(queue) + 1 /\ Len(queue) \in Nat
      /\ q[Len(queue) + 1] = ThisCommand /\ \A i \in 1..Len(queue) : q[i] = queue[i]
      /\ ToSet(q) = ToSet(queue) \cup {ThisCommand}
  BY <1>1, Appended, Elements
<1>3. queue' = Newest(q, MaxQueued)
  BY DEF Queued
<1> HIDE DEF q
<1>4. /\ queue' \in Seq(Nat) /\ Len(queue') = IF Len(q) <= MaxQueued THEN Len(q) ELSE MaxQueued
      /\ \A i \in 1..Len(queue') : queue'[i] = q[Len(q) - Len(queue') + i]
  <2> DEFINE n == MaxQueued
  <2>1. /\ Newest(q, n) \in Seq(Nat)
        /\ Len(Newest(q, n)) = IF Len(q) <= n THEN Len(q) ELSE n
        /\ \A i \in 1..Len(Newest(q, n)) : Newest(q, n)[i] = q[Len(q) - Len(Newest(q, n)) + i]
    <3>1. q \in Seq(Nat) /\ n \in Nat \ {0}
      BY <1>1, <1>2
    <3> HIDE DEF n
    <3> QED
      BY <3>1, NewestTyped
  <2> QED
    BY <2>1, <1>3
<1>5. /\ ToSet(queue') = {queue'[i] : i \in 1..Len(queue')}
      /\ ToSet(q) = {q[i] : i \in 1..Len(q)} /\ Len(queue') \in Nat
  BY <1>2, <1>4, Elements
<1>6. \A i \in 1..Len(queue') : Len(q) - Len(queue') + i \in 1..Len(q)
  BY <1>1, <1>2, <1>4, <1>5
<1>7. ToSet(queue') \subseteq ToSet(q)
  BY <1>4, <1>5, <1>6
<1>8. Len(queue') = (IF Len(queue) + 1 <= MaxQueued THEN Len(queue) + 1 ELSE MaxQueued)
  BY <1>2, <1>4
<1>9. \A i \in 1..Len(queue') : queue'[i] = q[Len(queue) + 1 - Len(queue') + i]
  <2> SUFFICES ASSUME NEW i \in 1..Len(queue')
               PROVE  queue'[i] = q[Len(queue) + 1 - Len(queue') + i]
    OBVIOUS
  <2>1. Len(q) - Len(queue') + i = Len(queue) + 1 - Len(queue') + i
    BY <1>2
  <2>2. queue'[i] = q[Len(q) - Len(queue') + i]
    BY <1>4
  <2> QED
    BY <2>1, <2>2
<1>10. ToSet(queue') \subseteq ToSet(queue) \cup {ThisCommand}
  BY <1>2, <1>7
<1>11. /\ q \in Seq(Nat) /\ Len(q) = Len(queue) + 1 /\ Len(queue) \in Nat
       /\ q[Len(queue) + 1] = ThisCommand /\ \A i \in 1..Len(queue) : q[i] = queue[i]
       /\ queue' \in Seq(Nat)
  BY <1>2, <1>4
<1> QED
  BY <1>8, <1>9, <1>10, <1>11 DEF q

(* The message that is dealt with, as it leaves, and the lines it leaves.  *)
LEMMA DealtFirst ==
  ASSUME TypeOK, Dealt
  PROVE  /\ stdin[1] \in Messages /\ stdin[1].command \in Nat /\ stdin[1] \in ToSet(stdin)
         /\ ToSet(stdin) = ToSet(stdin') \cup {stdin[1]}
         /\ ToSet(done) \subseteq ToSet(done')
         /\ ToSet(done') \subseteq ToSet(done) \cup {stdin[1].command}
         /\ done' # done => done' = Append(done, stdin[1].command) /\ stdin[1].command \in ToSet(done')
<1>1. stdin # <<>> /\ stdin' = Tail(stdin) /\ (done' = done \/ done' = Append(done, stdin[1].command))
  BY DEF Dealt, Deals
<1>2. /\ stdin[1] \in Messages /\ stdin[1] \in ToSet(stdin)
      /\ ToSet(stdin) = ToSet(stdin') \cup {stdin[1]}
  BY <1>1, Taken DEF TypeOK
<1> DEFINE c == stdin[1].command
<1>3. c \in Nat /\ done \in Seq(Nat) /\ (done' = done \/ done' = Append(done, c))
  BY <1>1, <1>2 DEF Messages, TypeOK
<1> HIDE DEF c
<1>4. ToSet(Append(done, c)) = ToSet(done) \cup {c}
  BY <1>3, Appended
<1>5. /\ ToSet(done) \subseteq ToSet(done') /\ ToSet(done') \subseteq ToSet(done) \cup {c}
      /\ done' # done => done' = Append(done, c) /\ c \in ToSet(done')
  BY <1>3, <1>4
<1> QED
  BY <1>2, <1>3, <1>5 DEF c

(* Two elements more.                                                      *)
LEMMA AppendedTwice ==
  ASSUME NEW S, NEW s \in Seq(S), NEW a \in S, NEW b \in S
  PROVE  ToSet(Append(Append(s, a), b)) = ToSet(s) \cup {a, b}
<1> DEFINE t == Append(s, a)
<1>1. t \in Seq(S) /\ ToSet(t) = ToSet(s) \cup {a}
  BY Appended
<1> HIDE DEF t
<1>2. ToSet(Append(t, b)) = ToSet(t) \cup {b}
  BY <1>1, Appended
<1> QED
  BY <1>1, <1>2 DEF t

(* The lines after a message has been dealt with.                          *)
LEMMA DealtLines ==
  ASSUME TypeOK, Dealt, NEW l \in ToSet(stdout')
  PROVE  \/ l \in ToSet(stdout)
         \/ l = Reply(stdin[1].id, FALSE) \/ l = Announced
         \/ /\ l = Reply(stdin[1].id, TRUE)
            /\ stdin[1].method = "thread/resume" \/ stdin[1].command \in ToSet(done')
         \/ stdin[1].method # "thread/resume" /\ l \in {Started(turns + 1), Completed(turn, FALSE)}
<1> DEFINE no == Reply(stdin[1].id, FALSE)
           yes == Reply(stdin[1].id, TRUE)
           new == Announced
           begun == Started(turns + 1)
           over == Completed(turn, FALSE)
<1>1. /\ no \in Lines /\ yes \in Lines /\ new \in Lines /\ begun \in Lines /\ over \in Lines
      /\ stdout \in Seq(Lines)
  BY DealtFirst, NewLines DEF TypeOK
<1>2. /\ Deals
      /\ stdin[1].method = "thread/resume" \/ stdin[1].command \in ToSet(done') \/ stdout' = Append(stdout, no)
  <2>1. Deals /\ stdin[1].command \in Nat /\ done \in Seq(Nat)
    BY DealtFirst DEF Dealt, TypeOK
  <2>2. ToSet(Append(done, stdin[1].command)) = ToSet(done) \cup {stdin[1].command}
    BY <2>1, Appended
  <2> QED
    BY <2>1, <2>2 DEF Deals, Replied
<1>3. \/ stdout' \in {Append(stdout, no), Append(stdout, yes), Append(Append(stdout, new), yes)}
      \/ /\ stdin[1].method # "thread/resume"
         /\ stdout' \in {Append(Append(stdout, yes), begun), Append(Append(stdout, yes), over)}
  BY <1>2 DEF Deals, Replied
<1> HIDE DEF no, yes, new, begun, over
<1>4. /\ ToSet(Append(stdout, no)) = ToSet(stdout) \cup {no}
      /\ ToSet(Append(stdout, yes)) = ToSet(stdout) \cup {yes}
      /\ ToSet(Append(Append(stdout, new), yes)) = ToSet(stdout) \cup {new, yes}
      /\ ToSet(Append(Append(stdout, yes), begun)) = ToSet(stdout) \cup {yes, begun}
      /\ ToSet(Append(Append(stdout, yes), over)) = ToSet(stdout) \cup {yes, over}
  BY <1>1, Appended, AppendedTwice
<1>5. \/ l \in ToSet(stdout) \/ l = no \/ l = new
      \/ l = yes /\ (stdin[1].method = "thread/resume" \/ stdin[1].command \in ToSet(done'))
      \/ stdin[1].method # "thread/resume" /\ l \in {begun, over}
  BY <1>2, <1>3, <1>4
<1> QED
  BY <1>5 DEF no, yes, new, begun, over

(* App Server writes the end of its turn.                                  *)
LEMMA LastLine ==
  ASSUME TypeOK
  PROVE  ToSet(Append(stdout, Completed(turn, TRUE))) = ToSet(stdout) \cup {Completed(turn, TRUE)}
<1> DEFINE l == Completed(turn, TRUE)
<1>1. l \in Lines /\ stdout \in Seq(Lines)
  BY NewLines DEF TypeOK
<1> HIDE DEF l
<1>2. ToSet(Append(stdout, l)) = ToSet(stdout) \cup {l}
  BY <1>1, Appended
<1> QED
  BY <1>2 DEF l

-----------------------------------------------------------------------------
(* Commands that are known have arrived, and those that were queued have   *)
(* their result.                                                           *)
KnownInv ==
  /\ DOMAIN results \subseteq 1..received /\ enqueued \subseteq DOMAIN results
  /\ \A e \in ToSet(table) : e.command \in 1..received
  /\ \A m \in ToSet(stdin) : m.command \in 1..received
  /\ \A k \in ToSet(tasks) : k.command \in 1..received
  /\ ToSet(done) \subseteq 1..received
  /\ ToSet(queue) \subseteq enqueued

(* A command that goes on was known before.                                *)
LEMMA KnownGoes ==
  ASSUME TypeOK, KnownInv, NEW m \in Methods, NEW c \in Nat, c \in 1..received',
         1..received \subseteq 1..received', NEW due \in Seq(Tasks),
         ToSet(due) \subseteq ToSet(tasks), Goes(m, c, due)
  PROVE  /\ \A e \in ToSet(table') : e.command \in 1..received'
         /\ \A n \in ToSet(stdin') : n.command \in 1..received'
         /\ \A k \in ToSet(tasks') : k.command \in 1..received'
BY Going, Fields DEF KnownInv

(* Every step keeps KnownInv.                                              *)
LEMMA KnownStep ==
  ASSUME TypeOK, KnownInv, Moves
  PROVE  KnownInv'
<1>0. ToSet(<<>>) = {}
  BY Nothing
<1>1. CASE \E m \in Methods : Comes(m)
  <2>1. PICK m \in Methods : Comes(m)
    BY <1>1
  <2>2. /\ received' = ThisCommand /\ Goes(m, ThisCommand, <<>>)
        /\ UNCHANGED <<queue, enqueued, results, done>>
    BY <2>1 DEF Comes, adapter, service
  <2>3. ThisCommand \in Nat /\ ThisCommand \in 1..received' /\ 1..received \subseteq 1..received'
    BY <2>2, Arrived
  <2>4. <<>> \in Seq(Tasks) /\ ToSet(<<>>) \subseteq ToSet(tasks)
    BY Nothing
  <2>5. /\ \A e \in ToSet(table') : e.command \in 1..received'
        /\ \A n \in ToSet(stdin') : n.command \in 1..received'
        /\ \A k \in ToSet(tasks') : k.command \in 1..received'
    BY <2>2, <2>3, <2>4, KnownGoes
  <2> QED
    BY <2>2, <2>3, <2>5 DEF KnownInv
<1>2. CASE Denied
  <2>1. /\ received' = ThisCommand /\ results' = Put(results, ThisCommand, FALSE)
        /\ UNCHANGED <<queue, enqueued, table, stdin, tasks, done>>
    BY <1>2 DEF Denied, adapter, requests, service
  <2>2. ThisCommand \in 1..received' /\ 1..received \subseteq 1..received'
    BY <2>1, Arrived
  <2>3. DOMAIN results' = DOMAIN results \cup {ThisCommand}
    BY <2>1 DEF Put
  <2> QED
    BY <2>1, <2>2, <2>3 DEF KnownInv
<1>3. CASE Queued
  <2>1. /\ received' = ThisCommand /\ results' = Put(results, ThisCommand, TRUE)
        /\ enqueued' = enqueued \cup {ThisCommand}
        /\ UNCHANGED <<table, stdin, tasks, done>>
    BY <1>3 DEF Queued, requests, service
  <2>2. ThisCommand \in 1..received' /\ 1..received \subseteq 1..received'
    BY <2>1, Arrived
  <2>3. DOMAIN results' = DOMAIN results \cup {ThisCommand}
    BY <2>1 DEF Put
  <2>4. ToSet(queue') \subseteq ToSet(queue) \cup {ThisCommand}
    BY <1>3, QueueWhole
  <2> QED
    BY <2>1, <2>2, <2>3, <2>4 DEF KnownInv
<1>4. CASE ResumedRuns
  <2>1. /\ tasks # <<>> /\ tasks' = Append(Tail(tasks), Task("start", tasks[1].command))
        /\ UNCHANGED <<queue, enqueued, table, stdin, received, results, done>>
    BY <1>4 DEF ResumedRuns, requests, service
  <2> QED
    BY <2>1, FirstTask, Fields DEF KnownInv
<1>5. CASE StartRuns
  <2>1. /\ tasks # <<>> /\ Goes("turn/start", tasks[1].command, Tail(tasks))
        /\ UNCHANGED <<queue, enqueued, received, results, done>>
    BY <1>5 DEF StartRuns, adapter, service
  <2>2. /\ tasks[1].command \in Nat /\ Tail(tasks) \in Seq(Tasks)
        /\ ToSet(Tail(tasks)) \subseteq ToSet(tasks) /\ tasks[1] \in ToSet(tasks)
    BY <2>1, FirstTask
  <2>3. tasks[1].command \in 1..received' /\ "turn/start" \in Methods
    BY <2>1, <2>2 DEF KnownInv, Methods
  <2>4. /\ \A e \in ToSet(table') : e.command \in 1..received'
        /\ \A n \in ToSet(stdin') : n.command \in 1..received'
        /\ \A k \in ToSet(tasks') : k.command \in 1..received'
    BY <2>1, <2>2, <2>3, KnownGoes
  <2> QED
    BY <2>1, <2>4 DEF KnownInv
<1>6. CASE SettledRuns
  <2>1. /\ tasks # <<>> /\ tasks' = Tail(tasks)
        /\ results' = results \/ \E b : results' = Put(results, tasks[1].command, b)
        /\ UNCHANGED <<queue, enqueued, table, stdin, received, done>>
    BY <1>6 DEF SettledRuns, adapter, requests, service
  <2>2. DOMAIN results' \subseteq DOMAIN results \cup {tasks[1].command}
        /\ DOMAIN results \subseteq DOMAIN results'
    BY <2>1 DEF Put
  <2> QED
    BY <2>1, <2>2, FirstTask DEF KnownInv
<1>7. CASE \E i \in 1..Len(table) : Answered(i)
  <2>1. PICK i \in 1..Len(table) : Answered(i)
    BY <1>7
  <2>2. UNCHANGED <<queue, enqueued, stdin, received, results, done>>
    BY <2>1 DEF Answered, LineRead, service
  <2> QED
    BY <2>1, <2>2, AnsweredEntry DEF KnownInv
<1>8. CASE Passed
  <2>1. UNCHANGED <<queue, enqueued, table, stdin, tasks, received, results, done>>
    BY <1>8 DEF Passed, LineRead, service
  <2> QED
    BY <2>1 DEF KnownInv
<1>9. CASE NextBegins
  <2>1. /\ Goes("thread/resume", queue[1], tasks)
        /\ UNCHANGED <<enqueued, received, results, done>>
    BY <1>9 DEF NextBegins, service
  <2>2. /\ queue[1] \in Nat /\ queue[1] \in ToSet(queue) /\ ToSet(queue') \subseteq ToSet(queue)
        /\ tasks \in Seq(Tasks)
    BY <1>9, NextLeaves
  <2>3. queue[1] \in 1..received' /\ "thread/resume" \in Methods
    BY <2>1, <2>2 DEF KnownInv, Methods
  <2>4. /\ \A e \in ToSet(table') : e.command \in 1..received'
        /\ \A n \in ToSet(stdin') : n.command \in 1..received'
        /\ \A k \in ToSet(tasks') : k.command \in 1..received'
    BY <2>1, <2>2, <2>3, KnownGoes
  <2> QED
    BY <2>1, <2>2, <2>4 DEF KnownInv
<1>10. CASE TimedOut
  <2>1. UNCHANGED <<queue, enqueued, stdin, received, results, done>>
    BY <1>10 DEF TimedOut, adapter, service
  <2> QED
    BY <1>10, <2>1, TimedOutEntry DEF KnownInv
<1>11. CASE Forsaken
  <2>1. /\ tasks' = RejectAll(table) /\ table' = <<>> /\ stdin' = <<>>
        /\ UNCHANGED <<queue, enqueued, received, results, done>>
    BY <1>11 DEF Forsaken, adapter
  <2>2. \A k \in ToSet(tasks') : \E e \in ToSet(table) : k.command = e.command
    BY <2>1, AllRejected DEF TypeOK
  <2> QED
    BY <1>0, <2>1, <2>2 DEF KnownInv
<1>12. CASE Dealt
  <2>1. /\ stdin # <<>> /\ stdin' = Tail(stdin)
        /\ UNCHANGED <<queue, enqueued, table, tasks, received, results>>
    BY <1>12 DEF Dealt, adapter
  <2> QED
    BY <1>12, <2>1, DealtFirst DEF KnownInv
<1>13. CASE TurnEnds
  <2>1. UNCHANGED <<queue, enqueued, table, stdin, tasks, received, results, done>>
    BY <1>13 DEF TurnEnds, adapter, requests
  <2> QED
    BY <2>1 DEF KnownInv
<1>14. CASE End
  <2>1. stdin' = <<>> /\ UNCHANGED <<queue, enqueued, table, tasks, received, results, done>>
    BY <1>14 DEF End, adapter, loop
  <2> QED
    BY <1>0, <2>1 DEF KnownInv
<1>15. CASE Down
  <2>1. /\ stdin' = <<>> /\ table' = <<>> /\ tasks' = <<>> /\ queue' = <<>>
        /\ UNCHANGED <<enqueued, received, results, done>>
    BY <1>15 DEF Down
  <2> QED
    BY <1>0, <2>1 DEF KnownInv
<1>16. CASE Quiet
  <2>1. UNCHANGED <<queue, enqueued, table, stdin, tasks, received, results, done>>
    BY <1>16, Steady DEF Quiet
  <2> QED
    BY <2>1 DEF KnownInv
<1> QED
  BY <1>1, <1>2, <1>3, <1>4, <1>5, <1>6, <1>7, <1>8, <1>9, <1>10, <1>11, <1>12, <1>13, <1>14,
     <1>15, <1>16 DEF Moves

-----------------------------------------------------------------------------
(* An id is of one request, and a good reply to it tells that App Server   *)
(* has done what it asks.                                                  *)
ReplyInv ==
  /\ \A e \in ToSet(table) : e.id < nextId
  /\ \A m \in ToSet(stdin) : m.id < nextId
  /\ \A l \in ToSet(stdout) : l.kind = "reply" => l.n < nextId
  /\ \A m \in ToSet(stdin), e \in ToSet(table) :
       m.id = e.id => m.method = e.method /\ m.command = e.command
  /\ \A l \in ToSet(stdout), e \in ToSet(table) :
       l.kind = "reply" /\ l.ok /\ l.n = e.id /\ e.method # "thread/resume"
         => e.command \in ToSet(done)
  /\ \A k \in ToSet(tasks) : k.do = "resolve" => k.command \in ToSet(done)

(* The numbers of requests are natural numbers.                            *)
LEMMA Numbers ==
  ASSUME TypeOK
  PROVE  /\ nextId \in Nat /\ \A e \in ToSet(table) : e.id \in Nat
         /\ \A m \in ToSet(stdin) : m.id \in Nat
         /\ \A l \in ToSet(stdout) : l.n \in Nat
<1>1. /\ nextId \in Nat /\ ToSet(table) \subseteq Entries /\ ToSet(stdin) \subseteq Messages
      /\ ToSet(stdout) \subseteq Lines
  BY Elements DEF TypeOK
<1> QED
  BY <1>1 DEF Entries, Messages, Lines

(* A new request has a new number, so it keeps ReplyInv.                   *)
LEMMA ReplyGoes ==
  ASSUME TypeOK, ReplyInv, NEW m \in Methods, NEW c \in Nat, NEW due \in Seq(Tasks),
         ToSet(due) \subseteq ToSet(tasks), Goes(m, c, due), done' = done,
         ToSet(stdout') \subseteq ToSet(stdout)
  PROVE  ReplyInv'
<1>1. \A k \in ToSet(tasks') : k \in ToSet(tasks) \/ k.do \in {"reject", "start"}
  BY Going, Fields
<1>2. CASE UNCHANGED <<table, stdin>>
  <2>1. nextId' \in {nextId, nextId + 1}
    BY Going
  <2>2. nextId \in Nat /\ \A n \in Nat : n < nextId => n < nextId'
    BY <2>1, Numbers
  <2> QED
    BY <1>1, <1>2, <2>2, Numbers DEF ReplyInv
<1>3. CASE /\ nextId' = nextId + 1 /\ ToSet(table') = ToSet(table) \cup {Entry(m, c)}
           /\ ToSet(stdin') = ToSet(stdin) \cup {Message(m, c)}
  <2>1. /\ Entry(m, c).id = nextId /\ Entry(m, c).method = m /\ Entry(m, c).command = c
        /\ Message(m, c).id = nextId /\ Message(m, c).method = m /\ Message(m, c).command = c
    BY Fields
  <2>2. nextId \in Nat /\ nextId < nextId' /\ \A n \in Nat : n < nextId => n < nextId' /\ n # nextId
    BY <1>3, Numbers
  <2>3. /\ \A e \in ToSet(table') : e.id < nextId'
        /\ \A n \in ToSet(stdin') : n.id < nextId'
        /\ \A l \in ToSet(stdout') : l.kind = "reply" => l.n < nextId'
    BY <1>3, <2>1, <2>2, Numbers DEF ReplyInv
  <2>4. ASSUME NEW n \in ToSet(stdin'), NEW e \in ToSet(table'), n.id = e.id
        PROVE  n.method = e.method /\ n.command = e.command
    BY <1>3, <2>1, <2>2, <2>4, Numbers DEF ReplyInv
  <2>5. ASSUME NEW l \in ToSet(stdout'), NEW e \in ToSet(table'), l.kind = "reply", l.ok,
               l.n = e.id, e.method # "thread/resume"
        PROVE  e.command \in ToSet(done')
    <3>1. l \in ToSet(stdout) /\ l.n < nextId /\ l.n \in Nat
      BY <2>5, Numbers DEF ReplyInv
    <3>2. e \in ToSet(table)
      BY <1>3, <2>1, <2>2, <2>5, <3>1
    <3> QED
      BY <2>5, <3>1, <3>2 DEF ReplyInv
  <2>6. \A k \in ToSet(tasks') : k.do = "resolve" => k.command \in ToSet(done')
    BY <1>1 DEF ReplyInv
  <2> QED
    BY <2>3, <2>4, <2>5, <2>6 DEF ReplyInv
<1> QED
  BY <1>2, <1>3, Going

(* Where nothing new is asked or answered.                                 *)
LEMMA ReplyKept ==
  ASSUME ReplyInv, nextId' = nextId, ToSet(done) \subseteq ToSet(done'),
         ToSet(table') \subseteq ToSet(table), ToSet(stdin') \subseteq ToSet(stdin),
         \A l \in ToSet(stdout') : l \in ToSet(stdout) \/ l.kind # "reply",
         \A k \in ToSet(tasks') :
           k \in ToSet(tasks) \/ k.do # "resolve" \/ k.command \in ToSet(done)
  PROVE  ReplyInv'
BY DEF ReplyInv

(* Every step keeps ReplyInv.                                              *)
LEMMA ReplyStep ==
  ASSUME TypeOK, ReplyInv, Moves
  PROVE  ReplyInv'
<1>0. ToSet(<<>>) = {}
  BY Nothing
<1>1. CASE \E m \in Methods : Comes(m)
  <2>1. PICK m \in Methods : Comes(m)
    BY <1>1
  <2>2. received' = ThisCommand /\ Goes(m, ThisCommand, <<>>) /\ UNCHANGED <<stdout, done>>
    BY <2>1 DEF Comes, service
  <2>3. <<>> \in Seq(Tasks) /\ ToSet(<<>>) \subseteq ToSet(tasks) /\ ThisCommand \in Nat
    BY <2>2, Arrived, Nothing
  <2> QED
    BY <2>2, <2>3, ReplyGoes
<1>2. CASE Denied \/ Queued \/ Quiet
  <2>1. UNCHANGED <<nextId, table, stdin, tasks, stdout, done>>
    BY <1>2 DEF Denied, Queued, Quiet, requests, service
  <2> QED
    BY <2>1 DEF ReplyInv
<1>3. CASE ResumedRuns
  <2>1. /\ tasks # <<>> /\ tasks' = Append(Tail(tasks), Task("start", tasks[1].command))
        /\ UNCHANGED <<nextId, table, stdin, stdout, done>>
    BY <1>3 DEF ResumedRuns, requests, service
  <2> QED
    BY <2>1, FirstTask, Fields DEF ReplyInv
<1>4. CASE StartRuns
  <2>1. /\ tasks # <<>> /\ Goes("turn/start", tasks[1].command, Tail(tasks))
        /\ UNCHANGED <<stdout, done>>
    BY <1>4 DEF StartRuns, service
  <2>2. /\ tasks[1].command \in Nat /\ Tail(tasks) \in Seq(Tasks)
        /\ ToSet(Tail(tasks)) \subseteq ToSet(tasks) /\ "turn/start" \in Methods
    BY <2>1, FirstTask DEF Methods
  <2> QED
    BY <2>1, <2>2, ReplyGoes
<1>5. CASE SettledRuns
  <2>1. tasks # <<>> /\ tasks' = Tail(tasks) /\ UNCHANGED <<nextId, table, stdin, stdout, done>>
    BY <1>5 DEF SettledRuns, requests, service
  <2> QED
    BY <2>1, FirstTask DEF ReplyInv
<1>6. CASE \E i \in 1..Len(table) : Answered(i)
  <2>1. PICK i \in 1..Len(table) : Answered(i)
    BY <1>6
  <2>2. /\ table[i].id = stdout[1].n /\ stdout[1].kind = "reply" /\ stdout # <<>>
        /\ stdout' = Tail(stdout) /\ UNCHANGED <<nextId, stdin, done>>
    BY <2>1 DEF Answered, LineRead, service
  <2>3. ToSet(stdout') \subseteq ToSet(stdout)
    BY <2>2, Taken DEF TypeOK
  <2>4. ASSUME NEW k \in ToSet(tasks'), k \notin ToSet(tasks), k.do = "resolve"
        PROVE  k.command \in ToSet(done)
    <3>1. k.command = table[i].command /\ stdout[1].ok /\ table[i].method # "thread/resume"
      BY <2>1, <2>4, AnsweredEntry
    <3>2. table[i] \in ToSet(table) /\ stdout[1] \in ToSet(stdout)
      BY <2>1, AnsweredEntry
    <3> QED
      BY <2>2, <3>1, <3>2 DEF ReplyInv
  <2>5. ToSet(table') \subseteq ToSet(table)
    BY <2>1, AnsweredEntry
  <2> QED
    BY <2>2, <2>3, <2>4, <2>5, ReplyKept
<1>7. CASE Passed
  <2>1. stdout # <<>> /\ stdout' = Tail(stdout) /\ UNCHANGED <<nextId, table, stdin, tasks, done>>
    BY <1>7 DEF Passed, LineRead, service
  <2>2. ToSet(stdout') \subseteq ToSet(stdout)
    BY <2>1, Taken DEF TypeOK
  <2> QED
    BY <2>1, <2>2, ReplyKept
<1>8. CASE NextBegins
  <2>1. /\ Goes("thread/resume", queue[1], tasks) /\ stdout # <<>> /\ stdout' = Tail(stdout)
        /\ done' = done
    BY <1>8 DEF NextBegins, service
  <2>2. queue[1] \in Nat /\ tasks \in Seq(Tasks) /\ "thread/resume" \in Methods
    BY <1>8, NextLeaves DEF Methods
  <2>3. ToSet(stdout') \subseteq ToSet(stdout)
    BY <2>1, Taken DEF TypeOK
  <2> QED
    BY <2>1, <2>2, <2>3, ReplyGoes
<1>9. CASE TimedOut
  <2>1. UNCHANGED <<nextId, stdin, stdout, done>>
    BY <1>9 DEF TimedOut, service
  <2>2. ToSet(table') \subseteq ToSet(table) /\ \A k \in ToSet(tasks') : k.do # "resolve"
    BY <1>9, TimedOutEntry
  <2> QED
    BY <2>1, <2>2, ReplyKept
<1>10. CASE Forsaken
  <2>1. /\ tasks' = RejectAll(table) /\ table' = <<>> /\ stdin' = <<>>
        /\ UNCHANGED <<nextId, stdout, done>>
    BY <1>10 DEF Forsaken
  <2>2. \A k \in ToSet(tasks') : k.do # "resolve"
    BY <2>1, AllRejected DEF TypeOK
  <2> QED
    BY <1>0, <2>1, <2>2, ReplyKept
<1>11. CASE Dealt
  <2>1. UNCHANGED <<nextId, table, tasks>>
    BY <1>11 DEF Dealt
  <2>2. /\ stdin[1] \in ToSet(stdin) /\ ToSet(stdin') \subseteq ToSet(stdin)
        /\ ToSet(done) \subseteq ToSet(done')
    BY <1>11, DealtFirst
  <2>3. ASSUME NEW l \in ToSet(stdout'), l.kind = "reply"
        PROVE  /\ l.n < nextId'
               /\ \A e \in ToSet(table') : l.ok /\ l.n = e.id /\ e.method # "thread/resume"
                    => e.command \in ToSet(done')
    <3>1. CASE l \in ToSet(stdout)
      BY <2>1, <2>2, <2>3, <3>1 DEF ReplyInv
    <3>2. CASE l = Reply(stdin[1].id, FALSE)
      <4>1. l.n = stdin[1].id /\ ~l.ok
        BY <3>2 DEF Reply, Line
      <4>2. stdin[1].id < nextId
        BY <2>2 DEF ReplyInv
      <4> QED
        BY <2>1, <4>1, <4>2
    <3>3. CASE /\ l = Reply(stdin[1].id, TRUE)
               /\ stdin[1].method = "thread/resume" \/ stdin[1].command \in ToSet(done')
      <4>1. l.n = stdin[1].id
        BY <3>3 DEF Reply, Line
      <4>2. stdin[1].id < nextId
        BY <2>2 DEF ReplyInv
      <4>3. ASSUME NEW e \in ToSet(table), l.n = e.id, e.method # "thread/resume"
            PROVE  e.command \in ToSet(done')
        <5>1. stdin[1].method = e.method /\ stdin[1].command = e.command
          BY <2>2, <4>1, <4>3 DEF ReplyInv
        <5> QED
          BY <3>3, <4>3, <5>1
      <4> QED
        BY <2>1, <4>1, <4>2, <4>3
    <3>4. l # Announced /\ l \notin {Started(turns + 1), Completed(turn, FALSE)}
      BY <2>3 DEF Announced, Started, Completed, Line
    <3> QED
      BY <1>11, <3>1, <3>2, <3>3, <3>4, DealtLines
  <2>4. \A k \in ToSet(tasks') : k.do = "resolve" => k.command \in ToSet(done')
    BY <2>1, <2>2 DEF ReplyInv
  <2> QED
    BY <2>1, <2>2, <2>3, <2>4 DEF ReplyInv
<1>12. CASE TurnEnds
  <2>1. /\ stdout' = Append(stdout, Completed(turn, TRUE))
        /\ UNCHANGED <<nextId, table, stdin, tasks, done>>
    BY <1>12 DEF TurnEnds, requests
  <2>2. ToSet(stdout') = ToSet(stdout) \cup {Completed(turn, TRUE)}
    BY <2>1, LastLine
  <2>3. \A l \in ToSet(stdout') : l \in ToSet(stdout) \/ l.kind # "reply"
    BY <2>2 DEF Completed, Line
  <2> QED
    BY <2>1, <2>3, ReplyKept
<1>13. CASE End
  <2>1. stdin' = <<>> /\ UNCHANGED <<nextId, table, tasks, stdout, done>>
    BY <1>13 DEF End, loop
  <2> QED
    BY <1>0, <2>1, ReplyKept
<1>14. CASE Down
  <2>1. table' = <<>> /\ stdin' = <<>> /\ stdout' = <<>> /\ tasks' = <<>>
    BY <1>14 DEF Down
  <2> QED
    BY <1>0, <2>1 DEF ReplyInv
<1> QED
  BY <1>1, <1>2, <1>3, <1>4, <1>5, <1>6, <1>7, <1>8, <1>9, <1>10, <1>11, <1>12, <1>13, <1>14
  DEF Moves

-----------------------------------------------------------------------------
(* A command with a good result was carried out or queued: each step.      *)
OkInv == \A c \in DOMAIN results : results[c] => c \in ToSet(done) \cup enqueued

(* Every step keeps OkInv.                                                 *)
LEMMA OkStep ==
  ASSUME TypeOK, ReplyInv, OkInv, Moves
  PROVE  OkInv'
<1>1. CASE UNCHANGED results /\ ToSet(done) \subseteq ToSet(done') /\ enqueued' = enqueued
  BY <1>1 DEF OkInv
<1>2. CASE Denied
  <2>1. results' = Put(results, ThisCommand, FALSE) /\ UNCHANGED <<done, enqueued>>
    BY <1>2 DEF Denied, adapter, service
  <2> QED
    BY <2>1 DEF OkInv, Put
<1>3. CASE Queued
  <2>1. /\ results' = Put(results, ThisCommand, TRUE) /\ done' = done
        /\ enqueued' = enqueued \cup {ThisCommand}
    BY <1>3 DEF Queued, service
  <2> QED
    BY <2>1 DEF OkInv, Put
<1>4. CASE SettledRuns
  <2> DEFINE k == tasks[1]
  <2>1. /\ tasks # <<>> /\ UNCHANGED <<done, enqueued>>
        /\ results' = results \/ results' = Put(results, k.command, k.do = "resolve")
    BY <1>4 DEF SettledRuns, adapter, service
  <2>2. k.do = "resolve" => k.command \in ToSet(done)
    BY <2>1, FirstTask DEF ReplyInv
  <2> HIDE DEF k
  <2>3. CASE results' = results
    BY <2>1, <2>3 DEF OkInv
  <2>4. CASE results' = Put(results, k.command, k.do = "resolve")
    <3>1. /\ DOMAIN results' = DOMAIN results \cup {k.command}
          /\ results'[k.command] = (k.do = "resolve")
          /\ \A c \in DOMAIN results \ {k.command} : results'[c] = results[c]
      BY <2>4 DEF Put
    <3> QED
      BY <2>1, <2>2, <3>1 DEF OkInv
  <2> QED
    BY <2>1, <2>3, <2>4
<1>5. CASE \E m \in Methods : Comes(m)
  BY <1>1, <1>5 DEF Comes, adapter, service
<1>6. CASE ResumedRuns \/ StartRuns
  BY <1>1, <1>6 DEF ResumedRuns, StartRuns, adapter, service
<1>7. CASE (\E i \in 1..Len(table) : Answered(i)) \/ Passed \/ NextBegins
  BY <1>1, <1>7 DEF Answered, Passed, NextBegins, LineRead, service
<1>8. CASE TimedOut \/ Forsaken \/ TurnEnds \/ End \/ Down \/ Quiet
  BY <1>1, <1>8 DEF TimedOut, Forsaken, TurnEnds, End, Down, Quiet, adapter, service
<1>9. CASE Dealt
  <2>1. UNCHANGED <<results, enqueued>>
    BY <1>9 DEF Dealt, adapter
  <2> QED
    BY <1>1, <1>9, <2>1, DealtFirst
<1> QED
  BY <1>2, <1>3, <1>4, <1>5, <1>6, <1>7, <1>8, <1>9 DEF Moves

-----------------------------------------------------------------------------
(* Without the thread there is nothing else: no turn, no prompt that is    *)
(* queued or about to start one, and no request but to resume the thread.  *)
LoadInv ==
  ~loaded =>
    /\ active = 0 /\ turn = 0 /\ queue = <<>>
    /\ \A m \in ToSet(stdin) : m.method = "thread/resume"
    /\ \A k \in ToSet(tasks) : k.do # "start"
    /\ \A l \in ToSet(stdout) : ~TurnLine(l)

(* Every step keeps LoadInv.                                               *)
LEMMA LoadStep ==
  ASSUME TypeOK, LoadInv, Moves
  PROVE  LoadInv'
<1> SUFFICES ASSUME ~loaded'
             PROVE  LoadInv'
  BY DEF LoadInv
<1>0. ToSet(<<>>) = {} /\ loaded \in BOOLEAN
  BY Nothing DEF TypeOK
<1>1. CASE \E m \in Methods : Comes(m)
  <2>1. PICK m \in Methods : Comes(m)
    BY <1>1
  <2>2. /\ received' = ThisCommand /\ (m # "thread/resume" => active # 0)
        /\ Goes(m, ThisCommand, <<>>) /\ UNCHANGED <<active, loaded, queue, turn, stdout>>
    BY <2>1 DEF Comes, adapter, service
  <2>3. ThisCommand \in Nat /\ <<>> \in Seq(Tasks)
    BY <2>2, Arrived, Nothing
  <2>4. m = "thread/resume"
    BY <2>2 DEF LoadInv
  <2>5. /\ ToSet(stdin') = ToSet(stdin) \cup {Message(m, ThisCommand)} \/ stdin' = stdin
        /\ ToSet(tasks') \subseteq {Task("reject", ThisCommand)}
    <3>1. ~loaded
      BY <2>2
    <3> QED
      BY <1>0, <2>2, <2>3, <3>1, Going
  <2>6. Message(m, ThisCommand).method = "thread/resume" /\ Task("reject", ThisCommand).do = "reject"
    BY <2>4, Fields
  <2> QED
    BY <2>2, <2>5, <2>6 DEF LoadInv
<1>2. CASE Denied \/ Quiet
  <2>1. UNCHANGED <<active, loaded, queue, turn, stdin, tasks, stdout>>
    BY <1>2 DEF Denied, Quiet, adapter, requests, service
  <2> QED
    BY <2>1 DEF LoadInv
<1>3. CASE Queued \/ ResumedRuns
  BY <1>3 DEF Queued, ResumedRuns, LoadInv
<1>4. CASE StartRuns
  <2>1. tasks # <<>> /\ tasks[1].do = "start" /\ loaded' = loaded
    BY <1>4 DEF StartRuns, adapter
  <2>2. tasks[1] \in ToSet(tasks)
    BY <2>1, FirstTask
  <2> QED
    BY <2>1, <2>2 DEF LoadInv
<1>5. CASE SettledRuns
  <2>1. /\ tasks # <<>> /\ tasks' = Tail(tasks)
        /\ UNCHANGED <<active, loaded, queue, turn, stdin, stdout>>
    BY <1>5 DEF SettledRuns, adapter, requests, service
  <2> QED
    BY <2>1, FirstTask DEF LoadInv
<1>6. CASE \E i \in 1..Len(table) : Answered(i)
  <2>1. PICK i \in 1..Len(table) : Answered(i)
    BY <1>6
  <2>2. /\ stdout # <<>> /\ stdout' = Tail(stdout)
        /\ UNCHANGED <<active, loaded, queue, turn, stdin>>
    BY <2>1 DEF Answered, LineRead, service
  <2>3. ToSet(stdout') \subseteq ToSet(stdout)
    BY <2>2, Taken DEF TypeOK
  <2>4. \A k \in ToSet(tasks') : k \in ToSet(tasks) \/ k.do # "start"
    BY <2>1, AnsweredEntry
  <2> QED
    BY <2>2, <2>3, <2>4 DEF LoadInv
<1>7. CASE Passed
  <2>1. stdout # <<>> /\ stdout' = Tail(stdout) /\ UNCHANGED <<queue, turn, stdin, tasks>>
    BY <1>7 DEF Passed, LineRead, service
  <2>2. ToSet(stdout') \subseteq ToSet(stdout) /\ stdout[1] \in ToSet(stdout)
    BY <2>1, Taken DEF TypeOK
  <2>3. loaded' = loaded /\ (active' = active \/ active' = 0 \/ stdout[1].kind = "turn/started")
    BY <1>7 DEF Passed, LineRead
  <2>4. ~loaded /\ stdout[1].kind # "turn/started"
    BY <2>2, <2>3 DEF LoadInv, TurnLine
  <2> QED
    BY <2>1, <2>2, <2>3, <2>4 DEF LoadInv
<1>8. CASE NextBegins
  BY <1>8 DEF NextBegins, LoadInv
<1>9. CASE TimedOut
  <2>1. UNCHANGED <<active, loaded, queue, turn, stdin, stdout>>
    BY <1>9 DEF TimedOut, adapter, service
  <2> QED
    BY <1>9, <2>1, TimedOutEntry DEF LoadInv
<1>10. CASE Forsaken
  <2>1. /\ tasks' = RejectAll(table) /\ stdin' = <<>>
        /\ UNCHANGED <<active, loaded, queue, turn, stdout>>
    BY <1>10 DEF Forsaken, adapter
  <2>2. \A k \in ToSet(tasks') : k.do # "start"
    BY <2>1, AllRejected DEF TypeOK
  <2> QED
    BY <1>0, <2>1, <2>2 DEF LoadInv
<1>11. CASE Dealt
  <2>1. UNCHANGED <<active, loaded, queue, tasks>> /\ Deals
    BY <1>11 DEF Dealt, adapter
  <2>2. stdin[1] \in ToSet(stdin) /\ ToSet(stdin') \subseteq ToSet(stdin)
    BY <1>11, DealtFirst
  <2>3. stdin[1].method = "thread/resume"
    BY <2>1, <2>2 DEF LoadInv
  <2>4. turn' = turn
    BY <2>1, <2>3 DEF Deals
  <2>5. ASSUME NEW l \in ToSet(stdout')
        PROVE  ~TurnLine(l)
    <3>1. \/ l \in ToSet(stdout) \/ l = Reply(stdin[1].id, FALSE) \/ l = Announced
          \/ l = Reply(stdin[1].id, TRUE)
      BY <1>11, <2>3, DealtLines
    <3>2. l \in ToSet(stdout) => ~TurnLine(l)
      BY <2>1 DEF LoadInv
    <3> QED
      BY <3>1, <3>2 DEF Reply, Announced, Line, TurnLine
  <2> QED
    BY <2>1, <2>2, <2>4, <2>5 DEF LoadInv
<1>12. CASE TurnEnds
  BY <1>12 DEF TurnEnds, adapter, LoadInv
<1>13. CASE End
  <2>1. stdin' = <<>> /\ turn' = 0 /\ UNCHANGED <<active, loaded, queue, tasks, stdout>>
    BY <1>13 DEF End, adapter, loop
  <2> QED
    BY <1>0, <2>1 DEF LoadInv
<1>14. CASE Down
  <2>1. /\ active' = 0 /\ turn' = 0 /\ queue' = <<>> /\ stdin' = <<>> /\ stdout' = <<>>
        /\ tasks' = <<>>
    BY <1>14 DEF Down
  <2> QED
    BY <1>0, <2>1 DEF LoadInv
<1> QED
  BY <1>1, <1>2, <1>3, <1>4, <1>5, <1>6, <1>7, <1>8, <1>9, <1>10, <1>11, <1>12, <1>13, <1>14
  DEF Moves

-----------------------------------------------------------------------------
(* What App Server has written tells which turn is under way.              *)
TurnInv == phase # "down" /\ server = "runs" => Tells(stdout, active, turn)

(* The lines App Server writes tell the turn it is in.                     *)
LEMMA DealtTells ==
  ASSUME TypeOK, Dealt, Tells(stdout, active, turn)
  PROVE  Tells(stdout', active, turn')
<1> DEFINE no == Reply(stdin[1].id, FALSE)
           yes == Reply(stdin[1].id, TRUE)
           new == Announced
           begun == Started(turns + 1)
           over == Completed(turn, FALSE)
<1>1. /\ no \in Lines /\ yes \in Lines /\ new \in Lines /\ begun \in Lines /\ over \in Lines
      /\ stdout \in Seq(Lines)
  BY DealtFirst, NewLines DEF TypeOK
<1>2. /\ ~TurnLine(no) /\ ~TurnLine(yes) /\ ~TurnLine(new)
      /\ TurnLine(begun) /\ Says(begun) = turns + 1 /\ TurnLine(over) /\ Says(over) = 0
  BY DEF Reply, Announced, Started, Completed, Line, TurnLine, Says
<1>3. \/ turn' = turn
         /\ stdout' \in {Append(stdout, no), Append(stdout, yes), Append(Append(stdout, new), yes)}
      \/ turn' = turns + 1 /\ stdout' = Append(Append(stdout, yes), begun)
      \/ turn' = 0 /\ stdout' = Append(Append(stdout, yes), over)
  BY DEF Dealt, Deals, Replied
<1> DEFINE told == Append(stdout, yes)
           announced == Append(stdout, new)
<1>4. told \in Seq(Lines) /\ announced \in Seq(Lines)
  BY <1>1, AppendProperties
<1> HIDE DEF no, yes, new, begun, over
<1>5. Tells(told, active, turn) /\ Tells(announced, active, turn) /\ Tells(Append(stdout, no), active, turn)
  BY <1>1, <1>2, TellsMore
<1>6. announced = Append(stdout, new) /\ told = Append(stdout, yes)
  OBVIOUS
<1> HIDE DEF told, announced
<1>7. /\ Tells(Append(announced, yes), active, turn)
      /\ turn' = turns + 1 => Tells(Append(told, begun), active, turn')
      /\ turn' = 0 => Tells(Append(told, over), active, turn')
  BY <1>1, <1>2, <1>4, <1>5, TellsMore
<1> QED
  BY <1>3, <1>5, <1>6, <1>7

(* Every step keeps TurnInv.                                               *)
LEMMA TurnStep ==
  ASSUME TypeOK, TurnInv, Moves
  PROVE  TurnInv'
<1> SUFFICES ASSUME phase' # "down", server' = "runs"
             PROVE  Tells(stdout', active', turn')
  BY DEF TurnInv
<1>1. CASE UNCHANGED <<server, active, turn, stdout>> /\ phase # "down"
  BY <1>1 DEF TurnInv
<1>2. CASE (\E m \in Methods : Comes(m)) \/ Denied \/ Queued
  BY <1>1, <1>2 DEF Comes, Denied, Queued, adapter, service
<1>3. CASE ResumedRuns \/ StartRuns \/ SettledRuns
  BY <1>1, <1>3 DEF ResumedRuns, StartRuns, SettledRuns, adapter, service
<1>4. CASE TimedOut \/ Quiet
  BY <1>1, <1>4 DEF TimedOut, Quiet, adapter, service
<1>5. CASE Forsaken \/ End \/ Down
  BY <1>5 DEF Forsaken, End, Down
<1>6. CASE (\E i \in 1..Len(table) : Answered(i)) \/ Passed \/ NextBegins
  <2>1. /\ stdout # <<>> /\ stdout' = Tail(stdout) /\ UNCHANGED <<phase, server, turn>>
        /\ IF TurnLine(stdout[1]) THEN active' = Says(stdout[1]) ELSE active' = active
    BY <1>6 DEF Answered, Passed, NextBegins, LineRead, service, TurnLine, Says
  <2>2. Tells(stdout, active, turn) /\ stdout \in Seq(Lines)
    BY <2>1 DEF TurnInv, TypeOK
  <2>3. Tells(Tail(stdout), active', turn)
    BY <2>1, <2>2, TellsLess
  <2> QED
    BY <2>1, <2>3
<1>7. CASE Dealt
  <2>1. UNCHANGED <<phase, active, server>>
    BY <1>7 DEF Dealt, adapter
  <2>2. Tells(stdout, active, turn)
    BY <2>1 DEF TurnInv
  <2> QED
    BY <1>7, <2>1, <2>2, DealtTells
<1>8. CASE TurnEnds
  <2> DEFINE over == Completed(turn, TRUE)
  <2>1. stdout' = Append(stdout, over) /\ turn' = 0 /\ UNCHANGED <<phase, active, server>>
    BY <1>8 DEF TurnEnds, adapter
  <2>2. over \in Lines /\ TurnLine(over) /\ Says(over) = 0 /\ stdout \in Seq(Lines)
    BY NewLines DEF Completed, Line, TurnLine, Says, TypeOK
  <2> HIDE DEF over
  <2>3. Tells(stdout, active, turn)
    BY <2>1 DEF TurnInv
  <2>4. Tells(Append(stdout, over), active, 0)
    BY <2>2, <2>3, TellsMore
  <2> QED
    BY <2>1, <2>4
<1> QED
  BY <1>2, <1>3, <1>4, <1>5, <1>6, <1>7, <1>8 DEF Moves

-----------------------------------------------------------------------------
(* The places a command passes, from the last back to the first: those it  *)
(* was done, those App Server is to serve, those that are about to start,  *)
(* those that are queued.  Each has its commands in order, and after those *)
(* that are further.  One that waits for the thread is in none of them.    *)
Places(D, S, T, Q, R, E) ==
  /\ Precede(D, S, E) /\ Precede(D, T, E) /\ Precede(D, Q, E)
  /\ Precede(S, T, E) /\ Precede(S, Q, E) /\ Precede(T, Q, E)
  /\ R \cap (D \cup S \cup T \cup E) = {}

Ordered(d, s, t, q, r, E) ==
  /\ Sorted(d, E) /\ Sorted(s, E) /\ Sorted(t, E) /\ Sorted(q, E) /\ Sorted(r, E)
  /\ Places(Named(d), Named(s), Named(t), Named(q), Named(r), E)

(* Order is kept where there are fewer in the lines, ...                   *)
LEMMA Fewer ==
  ASSUME NEW E, NEW d, NEW s, NEW t, NEW q, NEW r, Ordered(d, s, t, q, r, E),
         NEW s2, NEW t2, NEW q2, NEW r2,
         Sorted(s2, E), Sorted(t2, E), Sorted(q2, E), Sorted(r2, E),
         Named(s2) \subseteq Named(s), Named(t2) \subseteq Named(t),
         Named(q2) \subseteq Named(q), Named(r2) \subseteq Named(r)
  PROVE  Ordered(d, s2, t2, q2, r2, E)
BY DEF Ordered, Places, Precede

(* ... where the last one done is before all that wait, ...                *)
LEMMA DoneMore ==
  ASSUME NEW E, NEW d \in Seq(Nat), NEW s, NEW t, NEW q, NEW r, Ordered(d, s, t, q, r, E),
         NEW c \in Nat, Precede(Named(d), {c} \ {0}, E), Precede({c} \ {0}, Named(s), E),
         Precede({c} \ {0}, Named(t), E), Precede({c} \ {0}, Named(q), E), c \notin Named(r)
  PROVE  Ordered(Append(d, c), s, t, q, r, E)
<1>1. Sorted(Append(d, c), E) /\ Named(Append(d, c)) = Named(d) \cup ({c} \ {0})
  BY SortedAppend DEF Ordered
<1>2. Places(Named(d) \cup ({c} \ {0}), Named(s), Named(t), Named(q), Named(r), E)
  BY DEF Ordered, Places, Precede
<1> QED
  BY <1>1, <1>2 DEF Ordered

(* ... where the last one sent is after all that are done or sent, ...     *)
LEMMA ServesMore ==
  ASSUME NEW E, NEW d, NEW s \in Seq(Nat), NEW t, NEW q, NEW r, Ordered(d, s, t, q, r, E),
         NEW c \in Nat, Precede(Named(d), {c} \ {0}, E), Precede(Named(s), {c} \ {0}, E),
         Precede({c} \ {0}, Named(t), E), Precede({c} \ {0}, Named(q), E), c \notin Named(r)
  PROVE  Ordered(d, Append(s, c), t, q, r, E)
<1>1. Sorted(Append(s, c), E) /\ Named(Append(s, c)) = Named(s) \cup ({c} \ {0})
  BY SortedAppend DEF Ordered
<1>2. Places(Named(d), Named(s) \cup ({c} \ {0}), Named(t), Named(q), Named(r), E)
  BY DEF Ordered, Places, Precede
<1> QED
  BY <1>1, <1>2 DEF Ordered

(* ... where the last one about to start is before the queue, ...          *)
LEMMA StartsMore ==
  ASSUME NEW E, NEW d, NEW s, NEW t \in Seq(Nat), NEW q, NEW r, Ordered(d, s, t, q, r, E),
         NEW c \in Nat, Precede(Named(d), {c} \ {0}, E), Precede(Named(s), {c} \ {0}, E),
         Precede(Named(t), {c} \ {0}, E), Precede({c} \ {0}, Named(q), E), c \notin Named(r)
  PROVE  Ordered(d, s, Append(t, c), q, r, E)
<1>1. Sorted(Append(t, c), E) /\ Named(Append(t, c)) = Named(t) \cup ({c} \ {0})
  BY SortedAppend DEF Ordered
<1>2. Places(Named(d), Named(s), Named(t) \cup ({c} \ {0}), Named(q), Named(r), E)
  BY DEF Ordered, Places, Precede
<1> QED
  BY <1>1, <1>2 DEF Ordered

(* ... and where one more, never queued, waits for its thread.             *)
LEMMA ResumesMore ==
  ASSUME NEW E, NEW d, NEW s, NEW t, NEW q, NEW r \in Seq(Nat), Ordered(d, s, t, q, r, E),
         NEW c \in Nat, c \notin Named(r),
         ({c} \ {0}) \cap (Named(d) \cup Named(s) \cup Named(t) \cup E) = {}
  PROVE  Ordered(d, s, t, q, Append(r, c), E)
<1>0. Precede(Named(r), {c} \ {0}, E)
  BY DEF Precede, Before
<1>1. Sorted(Append(r, c), E) /\ Named(Append(r, c)) = Named(r) \cup ({c} \ {0})
  BY <1>0, SortedAppend DEF Ordered
<1>2. Places(Named(d), Named(s), Named(t), Named(q), Named(r) \cup ({c} \ {0}), E)
  BY DEF Ordered, Places
<1> QED
  BY <1>1, <1>2 DEF Ordered

(* The newest command is queued.                                           *)
LEMMA QueuedMore ==
  ASSUME NEW E, NEW d \in Seq(Nat), NEW s \in Seq(Nat), NEW t \in Seq(Nat), NEW q \in Seq(Nat),
         NEW r \in Seq(Nat), Ordered(d, s, t, q, r, E), NEW c \in Nat,
         \A a \in Named(d) \cup Named(s) \cup Named(t) \cup Named(q) \cup Named(r) : a < c
  PROVE  Ordered(d, s, t, Append(q, c), r, E \cup {c})
<1> DEFINE N(a) == a \in Nat /\ a < c
<1>1. ASSUME NEW a, NEW b, N(a), N(b), Before(a, b, E)
      PROVE  Before(a, b, E \cup {c})
  BY <1>1 DEF Before
<1>2. ASSUME NEW z \in Seq(Nat), Sorted(z, E), \A a \in Named(z) : a < c
      PROVE  Sorted(z, E \cup {c}) /\ \A a \in Named(z) : N(a)
  <2>1. /\ \A i \in 1..Len(z) : z[i] \in Nat /\ (z[i] # 0 => z[i] \in Named(z))
        /\ Named(z) \subseteq Nat
    BY Elements DEF Named
  <2>2. ASSUME NEW i \in 1..Len(z), NEW j \in 1..Len(z), i < j, z[i] # 0, z[j] # 0
        PROVE  Before(z[i], z[j], E \cup {c})
    <3>1. N(z[i]) /\ N(z[j])
      BY <1>2, <2>1, <2>2
    <3>2. Before(z[i], z[j], E)
      BY <1>2, <2>2 DEF Sorted
    <3> QED
      BY <1>1, <3>1, <3>2
  <2> QED
    BY <1>2, <2>1, <2>2 DEF Sorted
<1>3. /\ Sorted(d, E \cup {c}) /\ Sorted(s, E \cup {c}) /\ Sorted(t, E \cup {c})
      /\ Sorted(q, E \cup {c}) /\ Sorted(r, E \cup {c})
  BY <1>2 DEF Ordered
<1>4. /\ \A a \in Named(d) : N(a)
      /\ \A a \in Named(s) : N(a)
      /\ \A a \in Named(t) : N(a)
      /\ \A a \in Named(q) : N(a)
      /\ \A a \in Named(r) : N(a)
  BY <1>2 DEF Ordered
<1>5. \A a : N(a) => Before(a, c, E \cup {c}) /\ a # c
  BY DEF Before
<1> HIDE DEF N
<1>6. Sorted(Append(q, c), E \cup {c}) /\ Named(Append(q, c)) = Named(q) \cup ({c} \ {0})
  <2>1. Precede(Named(q), {c} \ {0}, E \cup {c})
    BY <1>4, <1>5 DEF Precede
  <2> QED
    BY <1>3, <2>1, SortedAppend
<1>7. Places(Named(d), Named(s), Named(t), Named(q) \cup ({c} \ {0}), Named(r), E \cup {c})
  BY <1>1, <1>4, <1>5 DEF Ordered, Places, Precede
<1> QED
  BY <1>3, <1>6, <1>7 DEF Ordered

-----------------------------------------------------------------------------
(* The command that a request, a message or a task will have carried out.  *)
Resumes == [e \in Entries |-> IF e.method = "thread/resume" THEN e.command ELSE 0]
Serves  == [m \in Messages |-> IF m.method # "thread/resume" THEN m.command ELSE 0]
Starts  == [k \in Tasks |-> IF k.do \in {"resumed", "start"} THEN k.command ELSE 0]

Resuming == Column(table, Resumes)
Serving  == Column(stdin, Serves)
Starting == Column(tasks, Starts)

(* No queued prompt waits for the thread to be resumed.                    *)
OrderInv ==
  /\ Ordered(done, Serving, Starting, queue, Resuming, enqueued)
  /\ \A k \in ToSet(tasks) : k.do = "resumed" => k.command \notin enqueued

(* The three tables that say where a command stands.                       *)
LEMMA Three ==
  /\ Resumes \in [Entries -> Nat] /\ Serves \in [Messages -> Nat] /\ Starts \in [Tasks -> Nat]
BY DEF Resumes, Serves, Starts, Entries, Messages, Tasks

(* What stands in the lines is what they name.                             *)
LEMMA Lined ==
  ASSUME TypeOK
  PROVE  /\ Resuming \in Seq(Nat) /\ Serving \in Seq(Nat) /\ Starting \in Seq(Nat)
         /\ done \in Seq(Nat) /\ queue \in Seq(Nat)
<1>1. /\ table \in Seq(Entries) /\ stdin \in Seq(Messages) /\ tasks \in Seq(Tasks)
      /\ Resumes \in [Entries -> Nat] /\ Serves \in [Messages -> Nat] /\ Starts \in [Tasks -> Nat]
  BY Three DEF TypeOK
<1>2. Column(table, Resumes) \in Seq(Nat)
  BY <1>1, Columned
<1>3. Column(stdin, Serves) \in Seq(Nat)
  BY <1>1, Columned
<1>4. Column(tasks, Starts) \in Seq(Nat)
  BY <1>1, Columned
<1>5. done \in Seq(Nat) /\ queue \in Seq(Nat)
  BY DEF TypeOK
<1> QED
  BY <1>2, <1>3, <1>4, <1>5 DEF Resuming, Serving, Starting

(* All that stand in a line are known.                                     *)
LEMMA LinedKnown ==
  ASSUME TypeOK, KnownInv
  PROVE  /\ Named(done) \subseteq 1..received /\ Named(Serving) \subseteq 1..received
         /\ Named(Starting) \subseteq 1..received /\ Named(queue) \subseteq enqueued
         /\ Named(Resuming) \subseteq 1..received /\ enqueued \subseteq 1..received
<1>1. /\ ToSet(table) \subseteq Entries /\ ToSet(stdin) \subseteq Messages /\ ToSet(tasks) \subseteq Tasks
  BY Elements DEF TypeOK
<1>2. /\ Named(Resuming) = {Resumes[e] : e \in ToSet(table)} \ {0}
      /\ Named(Serving) = {Serves[m] : m \in ToSet(stdin)} \ {0}
      /\ Named(Starting) = {Starts[k] : k \in ToSet(tasks)} \ {0}
  <2>0. /\ table \in Seq(Entries) /\ stdin \in Seq(Messages) /\ tasks \in Seq(Tasks)
        /\ Resumes \in [Entries -> Nat] /\ Serves \in [Messages -> Nat]
        /\ Starts \in [Tasks -> Nat]
    BY Three DEF TypeOK
  <2>1. Named(Resuming) = {Resumes[e] : e \in ToSet(table)} \ {0}
    BY <2>0, Columns DEF Resuming
  <2>2. Named(Serving) = {Serves[m] : m \in ToSet(stdin)} \ {0}
    BY <2>0, Columns DEF Serving
  <2>3. Named(Starting) = {Starts[k] : k \in ToSet(tasks)} \ {0}
    BY <2>0, Columns DEF Starting
  <2> QED
    BY <2>1, <2>2, <2>3
<1>3. Named(Resuming) \subseteq 1..received
  BY <1>1, <1>2 DEF Resumes, KnownInv
<1>4. Named(Serving) \subseteq 1..received
  BY <1>1, <1>2 DEF Serves, KnownInv
<1>5. Named(Starting) \subseteq 1..received
  BY <1>1, <1>2 DEF Starts, KnownInv
<1> QED
  BY <1>3, <1>4, <1>5 DEF KnownInv, Named

(* A command goes on in one of the lines.                                  *)
LEMMA LinesGo ==
  ASSUME TypeOK, NEW m \in Methods, NEW c \in Nat, NEW due \in Seq(Tasks), Goes(m, c, due)
  PROVE  \/ /\ m # "thread/resume" /\ Serving' = Append(Serving, c)
            /\ Resuming' = Append(Resuming, 0) /\ Starting' = Column(due, Starts)
         \/ /\ m = "thread/resume" /\ ~loaded /\ Serving' = Append(Serving, 0)
            /\ Resuming' = Append(Resuming, c) /\ Starting' = Column(due, Starts)
         \/ /\ m = "thread/resume" /\ UNCHANGED <<Serving, Resuming>>
            /\ Starting' = Append(Column(due, Starts), c)
         \/ UNCHANGED <<Serving, Resuming>> /\ Starting' = Append(Column(due, Starts), 0)
<1> DEFINE e == Entry(m, c)
           n == Message(m, c)
           no == Task("reject", c)
           start == Task("start", c)
<1>1. /\ e \in Entries /\ n \in Messages /\ no \in Tasks /\ start \in Tasks
      /\ table \in Seq(Entries) /\ stdin \in Seq(Messages)
  BY NewRecords DEF TypeOK
<1>2. /\ Resumes[e] = IF m = "thread/resume" THEN c ELSE 0
      /\ Serves[n] = IF m # "thread/resume" THEN c ELSE 0
  BY <1>1, Fields DEF Resumes, Serves
<1>3. Starts[no] = 0 /\ Starts[start] = c
  BY <1>1, Fields DEF Starts
<1>4. \/ m # "thread/resume" /\ table' = Append(table, e) /\ stdin' = Append(stdin, n) /\ tasks' = due
      \/ /\ m = "thread/resume" /\ ~loaded
         /\ table' = Append(table, e) /\ stdin' = Append(stdin, n) /\ tasks' = due
      \/ m = "thread/resume" /\ UNCHANGED <<table, stdin>> /\ tasks' = Append(due, start)
      \/ UNCHANGED <<table, stdin>> /\ tasks' = Append(due, no)
  BY DEF Goes, Opened, Begun, Refused
<1> HIDE DEF e, n, no, start
<1>5. /\ Column(Append(table, e), Resumes) = Append(Resuming, Resumes[e])
      /\ Column(Append(stdin, n), Serves) = Append(Serving, Serves[n])
      /\ Column(Append(due, start), Starts) = Append(Column(due, Starts), c)
      /\ Column(Append(due, no), Starts) = Append(Column(due, Starts), 0)
  <2>1. /\ Resumes \in [Entries -> Nat] /\ Serves \in [Messages -> Nat] /\ Starts \in [Tasks -> Nat]
    BY Three
  <2>2. Column(Append(table, e), Resumes) = Append(Column(table, Resumes), Resumes[e])
    BY <1>1, <2>1, ColumnAppend
  <2>3. Column(Append(stdin, n), Serves) = Append(Column(stdin, Serves), Serves[n])
    BY <1>1, <2>1, ColumnAppend
  <2>4. Column(Append(due, start), Starts) = Append(Column(due, Starts), Starts[start])
    BY <1>1, <2>1, ColumnAppend
  <2>5. Column(Append(due, no), Starts) = Append(Column(due, Starts), Starts[no])
    BY <1>1, <2>1, ColumnAppend
  <2> QED
    BY <1>3, <2>2, <2>3, <2>4, <2>5 DEF Resuming, Serving
<1>6. /\ Resuming' = Column(table', Resumes) /\ Serving' = Column(stdin', Serves)
      /\ Starting' = Column(tasks', Starts)
      /\ UNCHANGED <<table, stdin>> => UNCHANGED <<Serving, Resuming>>
  BY DEF Resuming, Serving, Starting
<1> QED
  BY <1>2, <1>4, <1>5, <1>6

(* A command goes on, between those before it and those after it.          *)
LEMMA OrderGoes ==
  ASSUME TypeOK, NEW m \in Methods, NEW c \in Nat, NEW due \in Seq(Tasks), Goes(m, c, due),
         queue' \in Seq(Nat), UNCHANGED <<done, enqueued>>,
         Ordered(done, Serving, Column(due, Starts), queue', Resuming, enqueued),
         Precede(Named(done), {c} \ {0}, enqueued), Precede(Named(Serving), {c} \ {0}, enqueued),
         Precede({c} \ {0}, Named(queue'), enqueued), c \notin Named(Resuming),
         m # "thread/resume" => Precede({c} \ {0}, Named(Column(due, Starts)), enqueued),
         m = "thread/resume" => Precede(Named(Column(due, Starts)), {c} \ {0}, enqueued),
         m = "thread/resume" /\ ~loaded =>
           ({c} \ {0}) \cap
             (Named(done) \cup Named(Serving) \cup Named(Column(due, Starts)) \cup enqueued) = {},
         \A k \in ToSet(due) : k.do = "resumed" => k.command \notin enqueued
  PROVE  OrderInv'
<1> DEFINE t == Column(due, Starts)
<1>1. t \in Seq(Nat) /\ Serving \in Seq(Nat) /\ Resuming \in Seq(Nat) /\ 0 \in Nat
  <2>1. Starts \in [Tasks -> Nat]
    BY Three
  <2>2. t \in Seq(Nat)
    BY <2>1, Columned
  <2> QED
    BY <2>2, Lined
<1>2. \A k \in ToSet(tasks') : k.do = "resumed" => k.command \notin enqueued'
  BY Going, Fields
<1>3. \/ /\ m # "thread/resume" /\ Serving' = Append(Serving, c)
         /\ Resuming' = Append(Resuming, 0) /\ Starting' = t
      \/ /\ m = "thread/resume" /\ ~loaded /\ Serving' = Append(Serving, 0)
         /\ Resuming' = Append(Resuming, c) /\ Starting' = t
      \/ /\ m = "thread/resume" /\ UNCHANGED <<Serving, Resuming>> /\ Starting' = Append(t, c)
      \/ UNCHANGED <<Serving, Resuming>> /\ Starting' = Append(t, 0)
  BY LinesGo
<1>4. Ordered(done, Serving, t, queue', Resuming, enqueued)
  OBVIOUS
<1>5. /\ m # "thread/resume" => Precede({c} \ {0}, Named(t), enqueued)
      /\ m = "thread/resume" => Precede(Named(t), {c} \ {0}, enqueued)
      /\ m = "thread/resume" /\ ~loaded =>
           ({c} \ {0}) \cap (Named(done) \cup Named(Serving) \cup Named(t) \cup enqueued) = {}
  OBVIOUS
<1> HIDE DEF t
<1>6. {0} \ {0} = {} /\ \A s : 0 \notin Named(s)
  BY DEF Named
<1>7. \A A : Precede(A, {}, enqueued) /\ Precede({}, A, enqueued)
  BY DEF Precede
<1>8. Ordered(done, Serving', Starting', queue', Resuming', enqueued)
  <2>1. CASE /\ m # "thread/resume" /\ Serving' = Append(Serving, c)
             /\ Resuming' = Append(Resuming, 0) /\ Starting' = t
    <3> DEFINE s == Append(Serving, c)
    <3>1. Ordered(done, s, t, queue', Resuming, enqueued)
      BY <1>1, <1>4, <1>5, <2>1, ServesMore
    <3> HIDE DEF s
    <3>2. Ordered(done, s, t, queue', Append(Resuming, 0), enqueued)
      BY <1>1, <1>6, <3>1, ResumesMore
    <3> QED
      BY <2>1, <3>2 DEF s
  <2>2. CASE /\ m = "thread/resume" /\ ~loaded /\ Serving' = Append(Serving, 0)
             /\ Resuming' = Append(Resuming, c) /\ Starting' = t
    <3> DEFINE r == Append(Resuming, c)
    <3>1. Ordered(done, Serving, t, queue', r, enqueued)
      BY <1>1, <1>4, <1>5, <2>2, ResumesMore
    <3> HIDE DEF r
    <3>2. Ordered(done, Append(Serving, 0), t, queue', r, enqueued)
      BY <1>1, <1>6, <1>7, <3>1, ServesMore
    <3> QED
      BY <2>2, <3>2 DEF r
  <2>3. CASE /\ m = "thread/resume" /\ UNCHANGED <<Serving, Resuming>> /\ Starting' = Append(t, c)
    BY <1>1, <1>4, <1>5, <2>3, StartsMore
  <2>4. CASE UNCHANGED <<Serving, Resuming>> /\ Starting' = Append(t, 0)
    BY <1>1, <1>4, <1>6, <1>7, <2>4, StartsMore
  <2> QED
    BY <1>3, <2>1, <2>2, <2>3, <2>4
<1> QED
  BY <1>2, <1>8 DEF OrderInv

(* A command that has just arrived is in no line and after all of them.    *)
LEMMA Fresh ==
  ASSUME TypeOK, KnownInv, NEW c \in Nat, \A n \in 1..received : n < c
  PROVE  /\ c \notin enqueued /\ c \notin Named(Resuming)
         /\ Precede(Named(done), {c}, enqueued) /\ Precede(Named(Serving), {c}, enqueued)
         /\ Precede({c}, Named(queue), enqueued) /\ Precede(Named(Starting), {c}, enqueued)
         /\ {c} \cap (Named(done) \cup Named(Serving) \cup Named(Starting) \cup enqueued) = {}
<1>1. c \notin 1..received
  OBVIOUS
<1> QED
  BY <1>1, LinedKnown DEF Precede, Before

(* The first task leaves the line of those about to start.                 *)
LEMMA FirstStarts ==
  ASSUME TypeOK, tasks # <<>>
  PROVE  /\ Column(Tail(tasks), Starts) = Tail(Starting) /\ Starting # <<>>
         /\ Starting[1] = Starts[tasks[1]]
<1>1. tasks \in Seq(Tasks) /\ Starts \in [Tasks -> Nat]
  BY Three DEF TypeOK
<1>2. Column(Tail(tasks), Starts) = Tail(Column(tasks, Starts))
  BY <1>1, ColumnTail
<1>3. Column(tasks, Starts) # <<>> /\ Column(tasks, Starts)[1] = Starts[tasks[1]]
  BY <1>1, Columns
<1> QED
  BY <1>2, <1>3 DEF Starting

(* A command comes and is a request at once.                               *)
LEMMA OrderComes ==
  ASSUME TypeOK, KnownInv, LoadInv, OrderInv, NEW m \in Methods, Comes(m)
  PROVE  OrderInv'
<1> DEFINE c == ThisCommand
<1>1. /\ received' = ThisCommand /\ tasks = <<>> /\ Goes(m, ThisCommand, <<>>)
      /\ UNCHANGED <<queue, enqueued, done>>
  BY DEF Comes, adapter, service
<1>2. c \in Nat /\ \A n \in 1..received : n < c
  BY <1>1, Arrived
<1>3. Goes(m, c, tasks) /\ tasks \in Seq(Tasks) /\ queue' \in Seq(Nat) /\ queue' = queue
  BY <1>1 DEF TypeOK
<1>4. Named(Starting) = {}
  <2>1. Starting \in Seq(Nat) /\ Len(Starting) = 0
    BY <1>1, Lined, Nothing DEF Starting, Column
  <2>2. Starting = <<>>
    BY <2>1, Elements
  <2> QED
    BY <2>2, Nothing DEF Named
<1> HIDE DEF c
<1>5. /\ Ordered(done, Serving, Column(tasks, Starts), queue', Resuming, enqueued)
      /\ \A k \in ToSet(tasks) : k.do = "resumed" => k.command \notin enqueued
  BY <1>3 DEF OrderInv, Starting
<1>6. /\ c \notin enqueued /\ c \notin Named(Resuming)
      /\ Precede(Named(done), {c} \ {0}, enqueued) /\ Precede(Named(Serving), {c} \ {0}, enqueued)
      /\ Precede({c} \ {0}, Named(queue'), enqueued)
      /\ ({c} \ {0}) \cap (Named(done) \cup Named(Serving) \cup Named(Column(tasks, Starts))
           \cup enqueued) = {}
  BY <1>2, <1>3, Fresh DEF Precede, Starting
<1>7. /\ Precede(Named(Column(tasks, Starts)), {c} \ {0}, enqueued)
      /\ Precede({c} \ {0}, Named(Column(tasks, Starts)), enqueued)
  BY <1>4 DEF Precede, Starting
<1> QED
  BY <1>1, <1>2, <1>3, <1>5, <1>6, <1>7, OrderGoes

(* A task starts its turn.                                                 *)
LEMMA OrderStarts ==
  ASSUME TypeOK, OrderInv, StartRuns
  PROVE  OrderInv'
<1> DEFINE c == tasks[1].command
           due == Tail(tasks)
           t == Column(due, Starts)
<1>1. /\ tasks # <<>> /\ tasks[1].do = "start" /\ Goes("turn/start", c, due)
      /\ UNCHANGED <<queue, enqueued, done>>
  BY DEF StartRuns, adapter, service
<1>2. /\ c \in Nat /\ due \in Seq(Tasks) /\ ToSet(due) \subseteq ToSet(tasks)
      /\ "turn/start" \in Methods /\ tasks[1] \in Tasks
  BY <1>1, FirstTask DEF Methods
<1>3. t = Tail(Starting) /\ Starting # <<>> /\ Starting[1] = c /\ Starting \in Seq(Nat)
  <2>1. Starts[tasks[1]] = c
    BY <1>1, <1>2 DEF Starts
  <2> QED
    BY <1>1, <2>1, FirstStarts, Lined
<1> HIDE DEF c, due
<1>4. /\ Sorted(Tail(Starting), enqueued)
      /\ Named(Starting) = Named(Tail(Starting)) \cup ({Starting[1]} \ {0})
      /\ Precede({Starting[1]} \ {0}, Named(Tail(Starting)), enqueued)
  BY <1>3, SortedTail DEF OrderInv, Ordered
<1>5. Sorted(t, enqueued) /\ Named(Starting) = Named(t) \cup ({c} \ {0})
      /\ Precede({c} \ {0}, Named(t), enqueued)
  BY <1>3, <1>4
<1> HIDE DEF t
<1>6. /\ Ordered(done, Serving, Starting, queue, Resuming, enqueued)
      /\ Sorted(Serving, enqueued) /\ Sorted(queue, enqueued) /\ Sorted(Resuming, enqueued)
  BY DEF OrderInv, Ordered
<1>7. Ordered(done, Serving, t, queue, Resuming, enqueued)
  BY <1>5, <1>6, Fewer
<1>8. /\ Precede(Named(done), {c} \ {0}, enqueued) /\ Precede(Named(Serving), {c} \ {0}, enqueued)
      /\ Precede({c} \ {0}, Named(queue), enqueued) /\ c \notin Named(Resuming)
  <2>1. c \notin Named(Resuming)
    BY <1>5, <1>6 DEF Ordered, Places, Named
  <2> QED
    BY <1>5, <1>6, <2>1 DEF Ordered, Places, Precede
<1>9. \A k \in ToSet(due) : k.do = "resumed" => k.command \notin enqueued
  BY <1>2 DEF OrderInv
<1>10. queue' \in Seq(Nat) /\ queue' = queue
  BY <1>1, Lined
<1> QED
  BY <1>1, <1>2, <1>5, <1>7, <1>8, <1>9, <1>10, OrderGoes DEF t

(* The first queued prompt starts.                                         *)
LEMMA OrderNext ==
  ASSUME TypeOK, KnownInv, LoadInv, OrderInv, NextBegins
  PROVE  OrderInv'
<1> DEFINE c == queue[1]
<1>1. /\ queue # <<>> /\ queue' = Tail(queue) /\ Goes("thread/resume", c, tasks)
      /\ UNCHANGED <<enqueued, done>>
  BY DEF NextBegins, service
<1>2. /\ c \in Nat /\ tasks \in Seq(Tasks) /\ "thread/resume" \in Methods /\ queue \in Seq(Nat)
      /\ c \in ToSet(queue)
  BY NextLeaves, Lined DEF Methods
<1>3. loaded /\ c \in enqueued
  BY <1>1, <1>2 DEF LoadInv, KnownInv
<1>4. /\ Sorted(Tail(queue), enqueued) /\ Named(queue) = Named(Tail(queue)) \cup ({c} \ {0})
      /\ Precede({c} \ {0}, Named(Tail(queue)), enqueued)
  BY <1>1, <1>2, SortedTail DEF OrderInv, Ordered
<1> HIDE DEF c
<1>5. /\ Sorted(queue', enqueued) /\ Named(queue) = Named(queue') \cup ({c} \ {0})
      /\ Precede({c} \ {0}, Named(queue'), enqueued) /\ queue' \in Seq(Nat)
  BY <1>1, <1>2, <1>4, Taken
<1>6. /\ Ordered(done, Serving, Column(tasks, Starts), queue, Resuming, enqueued)
      /\ Sorted(Serving, enqueued) /\ Sorted(Column(tasks, Starts), enqueued)
      /\ Sorted(Resuming, enqueued)
      /\ \A k \in ToSet(tasks) : k.do = "resumed" => k.command \notin enqueued
  BY DEF OrderInv, Ordered, Starting
<1>7. Ordered(done, Serving, Column(tasks, Starts), queue', Resuming, enqueued)
  BY <1>5, <1>6, Fewer
<1>8. /\ Precede(Named(done), {c} \ {0}, enqueued) /\ Precede(Named(Serving), {c} \ {0}, enqueued)
      /\ Precede(Named(Column(tasks, Starts)), {c} \ {0}, enqueued) /\ c \notin Named(Resuming)
  BY <1>3, <1>5, <1>6 DEF Ordered, Places, Precede
<1> QED
  BY <1>1, <1>2, <1>3, <1>5, <1>6, <1>7, <1>8, OrderGoes

(* A prompt is queued.                                                     *)
LEMMA OrderQueued ==
  ASSUME TypeOK, KnownInv, OrderInv, Queued
  PROVE  OrderInv'
<1> DEFINE c == ThisCommand
           q == Append(queue, c)
           E == enqueued \cup {c}
<1>1. /\ received' = c /\ enqueued' = E /\ UNCHANGED <<table, stdin, tasks, done>>
  BY DEF Queued, requests, service
<1>2. c \in Nat /\ (\A n \in 1..received : n < c) /\ c \notin 1..received
  BY <1>1, Arrived
<1>3. /\ done \in Seq(Nat) /\ Serving \in Seq(Nat) /\ Starting \in Seq(Nat)
      /\ queue \in Seq(Nat) /\ Resuming \in Seq(Nat)
      /\ Ordered(done, Serving, Starting, queue, Resuming, enqueued)
  BY Lined DEF OrderInv
<1>4. \A a \in Named(done) \cup Named(Serving) \cup Named(Starting) \cup Named(queue) \cup Named(Resuming) :
        a < c
  BY <1>2, LinedKnown
<1>5. /\ queue' \in Seq(Nat) /\ Len(queue) \in Nat /\ q \in Seq(Nat) /\ Len(q) = Len(queue) + 1
      /\ Len(queue') <= Len(queue) + 1 /\ Len(queue') \in Nat
      /\ \A i \in 1..Len(queue') : queue'[i] = q[Len(queue) + 1 - Len(queue') + i]
  <2>1. Len(queue') = IF Len(queue) + 1 <= MaxQueued THEN Len(queue) + 1 ELSE MaxQueued
    BY QueueWhole
  <2>2. Len(queue) \in Nat /\ MaxQueued \in Nat
    BY QueueWhole, QueueAssumption
  <2>3. Len(queue') <= Len(queue) + 1 /\ Len(queue') \in Nat
    BY <2>1, <2>2
  <2> QED
    BY <2>3, QueueWhole
<1> HIDE DEF c
<1>6. Ordered(done, Serving, Starting, q, Resuming, E)
  BY <1>2, <1>3, <1>4, QueuedMore
<1> HIDE DEF q, E
<1> DEFINE at(i) == Len(queue) + 1 - Len(queue') + i
<1>7. /\ \A i \in 1..Len(queue') : at(i) \in 1..Len(q) /\ queue'[i] = q[at(i)]
      /\ \A i, j \in 1..Len(queue') : i < j => at(i) < at(j)
  BY <1>5
<1> HIDE DEF at
<1>8. Sorted(queue', E)
  BY <1>6, <1>7 DEF Ordered, Sorted
<1>9. Named(queue') \subseteq Named(q)
  <2>1. ToSet(q) = {q[i] : i \in 1..Len(q)} /\ ToSet(queue') = {queue'[i] : i \in 1..Len(queue')}
    BY <1>5, Elements
  <2> QED
    BY <1>7, <2>1 DEF Named
<1>10. Ordered(done, Serving, Starting, queue', Resuming, E)
  <2>1. Sorted(Serving, E) /\ Sorted(Starting, E) /\ Sorted(Resuming, E)
    BY <1>6 DEF Ordered
  <2> QED
    BY <1>6, <1>8, <1>9, <2>1, Fewer
<1>11. UNCHANGED <<Serving, Starting, Resuming>>
  BY <1>1 DEF Serving, Starting, Resuming
<1>12. \A k \in ToSet(tasks) : k.do = "resumed" => k.command \notin E
  <2>1. \A k \in ToSet(tasks) : k.command # c
    BY <1>2 DEF KnownInv
  <2> QED
    BY <2>1 DEF OrderInv, E
<1> QED
  BY <1>1, <1>10, <1>11, <1>12 DEF OrderInv

(* The first task runs, and starts its command at most later.              *)
LEMMA OrderRuns ==
  ASSUME TypeOK, OrderInv, ResumedRuns \/ SettledRuns
  PROVE  OrderInv'
<1> DEFINE t == Tail(Starting)
           c == Starts[tasks[1]]
<1>1. tasks # <<>> /\ UNCHANGED <<queue, enqueued, table, stdin, done>>
  BY DEF ResumedRuns, SettledRuns, adapter, requests, service
<1>2. /\ tasks[1] \in Tasks /\ tasks[1] \in ToSet(tasks) /\ ToSet(Tail(tasks)) \subseteq ToSet(tasks)
      /\ Tail(tasks) \in Seq(Tasks)
      /\ Starting # <<>> /\ Starting[1] = c /\ Starting \in Seq(Nat)
      /\ Column(Tail(tasks), Starts) = t
  BY <1>1, FirstTask, FirstStarts, Lined
<1>3. /\ Sorted(t, enqueued) /\ Named(Starting) = Named(t) \cup ({c} \ {0})
      /\ Precede({c} \ {0}, Named(t), enqueued) /\ t \in Seq(Nat)
  BY <1>2, SortedTail, Taken DEF OrderInv, Ordered
<1>4. /\ Ordered(done, Serving, Starting, queue, Resuming, enqueued)
      /\ Sorted(Serving, enqueued) /\ Sorted(queue, enqueued) /\ Sorted(Resuming, enqueued)
  BY DEF OrderInv, Ordered
<1> HIDE DEF t
<1>5. Ordered(done, Serving, t, queue, Resuming, enqueued)
  BY <1>3, <1>4, Fewer
<1>6. UNCHANGED <<Serving, Resuming>>
  BY <1>1 DEF Serving, Resuming
<1>7. CASE ResumedRuns
  <2> DEFINE k == Task("start", tasks[1].command)
             due == Tail(tasks)
  <2>1. tasks[1].do = "resumed" /\ tasks' = Append(due, k)
    BY <1>7 DEF ResumedRuns
  <2>2. /\ k \in Tasks /\ due \in Seq(Tasks) /\ c = tasks[1].command /\ Starts[k] = c /\ c \in Nat
        /\ ToSet(Append(due, k)) = ToSet(due) \cup {k} /\ k.do = "start"
    BY <1>1, <1>2, <2>1, FirstTask, Fields DEF Starts
  <2>3. c \notin enqueued
    BY <1>2, <2>1, <2>2 DEF OrderInv
  <2> HIDE DEF k, due, c
  <2>4. Starting' = Append(t, c)
    <3>0. Starts \in [Tasks -> Nat] /\ due \in Seq(Tasks) /\ k \in Tasks
      BY <2>2, Three
    <3>1. Column(Append(due, k), Starts) = Append(Column(due, Starts), Starts[k])
      BY <3>0, ColumnAppend
    <3> QED
      BY <1>2, <2>1, <2>2, <3>1 DEF Starting, due
  <2>5. /\ Precede(Named(done), {c} \ {0}, enqueued) /\ Precede(Named(Serving), {c} \ {0}, enqueued)
        /\ Precede(Named(t), {c} \ {0}, enqueued) /\ Precede({c} \ {0}, Named(queue), enqueued)
        /\ c \notin Named(Resuming)
    <3>1. c \notin Named(Resuming)
      BY <1>3, <1>4 DEF Ordered, Places, Named
    <3>2. Precede(Named(t), {c} \ {0}, enqueued)
      BY <1>3, <2>3 DEF Precede, Before
    <3> QED
      BY <1>3, <1>4, <3>1, <3>2 DEF Ordered, Places, Precede
  <2>6. Ordered(done, Serving, Append(t, c), queue, Resuming, enqueued)
    BY <1>3, <1>5, <2>2, <2>5, StartsMore
  <2>7. \A n \in ToSet(tasks') : n.do = "resumed" => n.command \notin enqueued
    BY <1>2, <2>1, <2>2 DEF OrderInv, due
  <2> QED
    BY <1>1, <1>6, <2>4, <2>6, <2>7 DEF OrderInv
<1>8. CASE SettledRuns
  <2>1. tasks' = Tail(tasks) /\ Starting' = t
    BY <1>2, <1>8 DEF SettledRuns, Starting
  <2>2. \A n \in ToSet(tasks') : n.do = "resumed" => n.command \notin enqueued
    BY <1>2, <2>1 DEF OrderInv
  <2> QED
    BY <1>1, <1>5, <1>6, <2>1, <2>2 DEF OrderInv
<1> QED
  BY <1>7, <1>8

(* A request is answered, or times out.                                    *)
LEMMA OrderAnswered ==
  ASSUME TypeOK, KnownInv, OrderInv, NEW i \in 1..Len(table), Answered(i)
  PROVE  OrderInv'
<1> DEFINE e == table[i]
           k == Settled(e, stdout[1].ok)
           c == Starts[k]
           r == RemoveAt(Resuming, i)
<1>1. table' = RemoveAt(table, i) /\ tasks' = Append(tasks, k) /\ UNCHANGED <<queue, enqueued, stdin, done>>
  BY DEF Answered, LineRead, service
<1>2. /\ e \in Entries /\ k \in Tasks /\ ToSet(tasks') = ToSet(tasks) \cup {k}
      /\ k.command = e.command
      /\ k.do = IF ~stdout[1].ok THEN "reject"
                ELSE IF e.method = "thread/resume" THEN "resumed" ELSE "resolve"
  BY AnsweredEntry
<1>3. c \in {0, Resumes[e]} /\ c \in Nat /\ (k.do = "resumed" => k.command = Resumes[e])
  BY <1>2 DEF Starts, Resumes, Entries
<1>4. /\ Resuming' = r /\ Starting' = Append(Starting, c) /\ Serving' = Serving
  <2>1. /\ table \in Seq(Entries) /\ tasks \in Seq(Tasks) /\ k \in Tasks
        /\ Resumes \in [Entries -> Nat] /\ Starts \in [Tasks -> Nat]
    BY <1>2, Three DEF TypeOK
  <2> HIDE DEF k
  <2>2. Column(RemoveAt(table, i), Resumes) = r
    BY <2>1, ColumnRemove DEF Resuming
  <2>3. Column(Append(tasks, k), Starts) = Append(Starting, c)
    BY <2>1, ColumnAppend DEF Starting
  <2> QED
    BY <1>1, <2>2, <2>3 DEF Resuming, Starting, Serving
<1>5. /\ Len(Resuming) = Len(table) /\ Resuming[i] = Resumes[e] /\ Resuming \in Seq(Nat)
  <2>1. table \in Seq(Entries) /\ Resumes \in [Entries -> Nat]
    BY Three DEF TypeOK
  <2>2. /\ Len(Column(table, Resumes)) = Len(table) /\ Column(table, Resumes) \in Seq(Nat)
        /\ \A j \in 1..Len(table) : Column(table, Resumes)[j] = Resumes[table[j]]
    BY <2>1, Columned
  <2> QED
    BY <2>2 DEF Resuming
<1>6. /\ Ordered(done, Serving, Starting, queue, Resuming, enqueued)
      /\ Sorted(Serving, enqueued) /\ Sorted(Starting, enqueued) /\ Sorted(queue, enqueued)
      /\ Sorted(Resuming, enqueued)
  BY DEF OrderInv, Ordered
<1>7. /\ Sorted(r, enqueued) /\ Named(Resuming) = Named(r) \cup ({Resumes[e]} \ {0})
      /\ Resumes[e] \notin Named(r)
  <2>1. i \in 1..Len(Resuming)
    BY <1>5
  <2> QED
    BY <1>5, <1>6, <2>1, SortedRemove
<1> DEFINE x == Resumes[e]
<1>8. /\ c \in {0, x} /\ (k.do = "resumed" => k.command = x)
      /\ Named(Resuming) = Named(r) \cup ({x} \ {0}) /\ x \notin Named(r)
  BY <1>3, <1>7
<1> HIDE DEF c, r, k, x
<1>9. Ordered(done, Serving, Starting, queue, r, enqueued)
  BY <1>6, <1>7, <1>8, Fewer
<1>10. /\ x # 0 => x \notin enqueued
       /\ ({c} \ {0}) \cap (Named(done) \cup Named(Serving) \cup Named(Starting) \cup enqueued) = {}
       /\ c \notin Named(r)
  <2>1. 0 \notin Named(r)
    BY DEF Named
  <2> QED
    BY <1>6, <1>8, <2>1 DEF Ordered, Places
<1>11. Named(queue) \subseteq enqueued
  BY LinedKnown
<1>12. /\ Precede(Named(done), {c} \ {0}, enqueued) /\ Precede(Named(Serving), {c} \ {0}, enqueued)
       /\ Precede(Named(Starting), {c} \ {0}, enqueued) /\ Precede({c} \ {0}, Named(queue), enqueued)
  BY <1>10, <1>11 DEF Precede, Before
<1>13. Ordered(done, Serving, Append(Starting, c), queue, r, enqueued)
  BY <1>3, <1>9, <1>10, <1>12, Lined, StartsMore
<1>14. x # 0 \/ k.do # "resumed"
  <2>1. e \in ToSet(table)
    BY AnsweredEntry
  <2>2. e.command # 0
    BY <2>1 DEF KnownInv
  <2> QED
    BY <1>2, <1>8, <2>2
<1>15. \A n \in ToSet(tasks') : n.do = "resumed" => n.command \notin enqueued
  BY <1>2, <1>8, <1>10, <1>14 DEF OrderInv
<1> QED
  BY <1>1, <1>4, <1>13, <1>15 DEF OrderInv

(* Nothing stands in empty lines.                                          *)
LEMMA NoneStand ==
  /\ \A t : Column(<<>>, t) = <<>>
  /\ \A E : Sorted(<<>>, E) /\ Named(<<>>) = {}
<1>1. ASSUME NEW t
      PROVE  Column(<<>>, t) = <<>>
  <2>1. Column(<<>>, t) \in Seq(Nat) /\ Len(Column(<<>>, t)) = 0
    BY DEF Column
  <2> QED
    BY <2>1, Elements
<1>2. ASSUME NEW E
      PROVE  Sorted(<<>>, E) /\ Named(<<>>) = {}
  BY Nothing DEF Sorted, Named
<1> QED
  BY <1>1, <1>2

(* Tasks of which none starts anything.                                    *)
LEMMA NoneStarts ==
  ASSUME NEW s \in Seq(Tasks), \A k \in ToSet(s) : k.do \notin {"resumed", "start"}, NEW E
  PROVE  Sorted(Column(s, Starts), E) /\ Named(Column(s, Starts)) = {}
<1>1. /\ Named(Column(s, Starts)) = {Starts[k] : k \in ToSet(s)} \ {0}
      /\ \A i \in 1..Len(s) : Column(s, Starts)[i] = Starts[s[i]]
      /\ Len(Column(s, Starts)) = Len(s)
  <2>1. Starts \in [Tasks -> Nat]
    BY Three
  <2>2. Named(Column(s, Starts)) = {Starts[k] : k \in ToSet(s)} \ {0}
    BY <2>1, Columns
  <2>3. /\ \A i \in 1..Len(s) : Column(s, Starts)[i] = Starts[s[i]]
        /\ Len(Column(s, Starts)) = Len(s)
    BY <2>1, Columned
  <2> QED
    BY <2>2, <2>3
<1>2. ToSet(s) \subseteq Tasks /\ \A i \in 1..Len(s) : s[i] \in ToSet(s)
  BY Elements
<1>3. \A k \in ToSet(s) : Starts[k] = 0
  BY <1>2 DEF Starts
<1> QED
  BY <1>1, <1>2, <1>3 DEF Sorted

(* A request times out.                                                    *)
LEMMA OrderTimedOut ==
  ASSUME TypeOK, OrderInv, TimedOut
  PROVE  OrderInv'
<1>1. /\ table # <<>> /\ table' = Tail(table) /\ tasks = <<>>
      /\ tasks' = <<Settled(table[1], FALSE)>> /\ UNCHANGED <<queue, enqueued, stdin, done>>
  BY DEF TimedOut, adapter, service
<1>2. /\ \A k \in ToSet(tasks') : k.do = "reject" /\ tasks' \in Seq(Tasks)
      /\ tasks' \in Seq(Tasks)
  <2> DEFINE k == Settled(table[1], FALSE)
  <2>1. k \in Tasks /\ k.do = "reject" /\ ToSet(tasks') = {k} /\ tasks' = <<k>>
    BY <1>1, TimedOutEntry
  <2> HIDE DEF k
  <2> QED
    BY <2>1
<1>3. Sorted(Starting', enqueued) /\ Named(Starting') = {}
  BY <1>2, NoneStarts DEF Starting
<1>4. Sorted(Resuming', enqueued) /\ Named(Resuming') \subseteq Named(Resuming)
  <2>1. Resuming' = Tail(Resuming) /\ Resuming # <<>> /\ Resuming \in Seq(Nat)
    <3>1. table \in Seq(Entries) /\ table # <<>> /\ Resumes \in [Entries -> Nat]
      BY <1>1, Three DEF TypeOK
    <3>2. Column(Tail(table), Resumes) = Tail(Column(table, Resumes))
      BY <3>1, ColumnTail
    <3>3. Column(table, Resumes) # <<>> /\ Column(table, Resumes) \in Seq(Nat)
      BY <3>1, Columns, Columned
    <3> QED
      BY <1>1, <3>2, <3>3 DEF Resuming
  <2> QED
    BY <2>1, SortedTail DEF OrderInv, Ordered
<1>5. Ordered(done, Serving, Starting', queue, Resuming', enqueued)
  <2>1. /\ Ordered(done, Serving, Starting, queue, Resuming, enqueued)
        /\ Sorted(Serving, enqueued) /\ Sorted(queue, enqueued)
    BY DEF OrderInv, Ordered
  <2> QED
    BY <1>3, <1>4, <2>1, Fewer
<1>6. Serving' = Serving
  BY <1>1 DEF Serving
<1> QED
  BY <1>1, <1>2, <1>5, <1>6 DEF OrderInv

(* The agent loses its App Server.                                         *)
LEMMA OrderForsaken ==
  ASSUME TypeOK, OrderInv, Forsaken
  PROVE  OrderInv'
<1>1. /\ table' = <<>> /\ stdin' = <<>> /\ tasks' = RejectAll(table)
      /\ UNCHANGED <<queue, enqueued, done>>
  BY DEF Forsaken, adapter
<1>2. /\ \A k \in ToSet(tasks') : k.do = "reject"
      /\ tasks' \in Seq(Tasks)
  BY <1>1, AllRejected DEF TypeOK
<1>3. Sorted(Starting', enqueued) /\ Named(Starting') = {}
  BY <1>2, NoneStarts DEF Starting
<1>4. Resuming' = <<>> /\ Serving' = <<>>
  BY <1>1, NoneStand DEF Resuming, Serving
<1>5. Ordered(done, Serving', Starting', queue, Resuming', enqueued)
  <2>1. Ordered(done, Serving, Starting, queue, Resuming, enqueued) /\ Sorted(queue, enqueued)
    BY DEF OrderInv, Ordered
  <2>2. Sorted(<<>>, enqueued) /\ Named(<<>>) = {}
    BY NoneStand
  <2> QED
    BY <1>3, <1>4, <2>1, <2>2, Fewer
<1> QED
  BY <1>1, <1>2, <1>5 DEF OrderInv

(* App Server carries out the first of its messages, or refuses it.        *)
LEMMA OrderDealt ==
  ASSUME TypeOK, OrderInv, Dealt
  PROVE  OrderInv'
<1> DEFINE m == stdin[1]
           c == Serves[m]
           s == Tail(Serving)
<1>1. /\ stdin # <<>> /\ stdin' = Tail(stdin) /\ UNCHANGED <<queue, enqueued, table, tasks>>
      /\ done' = done \/ (m.method # "thread/resume" /\ done' = Append(done, m.command))
  BY DEF Dealt, Deals, adapter
<1>2. m \in Messages
  BY DealtFirst
<1>3. c \in Nat /\ (done' = done \/ done' = Append(done, c))
  BY <1>1, <1>2 DEF Serves, Messages
<1>4. Serving' = s /\ Serving # <<>> /\ Serving[1] = c /\ Serving \in Seq(Nat)
  <2>1. stdin \in Seq(Messages) /\ Serves \in [Messages -> Nat]
    BY Three DEF TypeOK
  <2>2. Column(Tail(stdin), Serves) = Tail(Column(stdin, Serves))
    BY <1>1, <2>1, ColumnTail
  <2>3. /\ Column(stdin, Serves) # <<>> /\ Column(stdin, Serves)[1] = Serves[stdin[1]]
        /\ Column(stdin, Serves) \in Seq(Nat)
    BY <1>1, <2>1, Columns, Columned
  <2> QED
    BY <1>1, <2>2, <2>3 DEF Serving
<1>5. /\ Sorted(s, enqueued) /\ Named(Serving) = Named(s) \cup ({c} \ {0})
      /\ Precede({c} \ {0}, Named(s), enqueued)
  BY <1>4, SortedTail DEF OrderInv, Ordered
<1> HIDE DEF c, s
<1>6. /\ Ordered(done, Serving, Starting, queue, Resuming, enqueued)
      /\ Sorted(Starting, enqueued) /\ Sorted(queue, enqueued) /\ Sorted(Resuming, enqueued)
  BY DEF OrderInv, Ordered
<1>7. Ordered(done, s, Starting, queue, Resuming, enqueued)
  BY <1>5, <1>6, Fewer
<1>8. /\ Precede(Named(done), {c} \ {0}, enqueued) /\ c \notin Named(Resuming)
      /\ Precede({c} \ {0}, Named(Starting), enqueued) /\ Precede({c} \ {0}, Named(queue), enqueued)
  <2>1. c \notin Named(Resuming)
    BY <1>5, <1>6 DEF Ordered, Places, Named
  <2> QED
    BY <1>5, <1>6, <2>1 DEF Ordered, Places, Precede
<1>9. Ordered(Append(done, c), s, Starting, queue, Resuming, enqueued)
  BY <1>3, <1>5, <1>7, <1>8, Lined, DoneMore
<1>10. UNCHANGED <<Starting, Resuming>>
  BY <1>1 DEF Starting, Resuming
<1> QED
  BY <1>1, <1>3, <1>4, <1>7, <1>9, <1>10 DEF OrderInv

(* Every step keeps OrderInv.                                              *)
LEMMA OrderStep ==
  ASSUME TypeOK, KnownInv, LoadInv, OrderInv, Moves
  PROVE  OrderInv'
<1>1. CASE \E m \in Methods : Comes(m)
  BY <1>1, OrderComes
<1>2. CASE Denied \/ Passed \/ TurnEnds \/ Quiet
  <2>1. UNCHANGED <<queue, enqueued, table, stdin, tasks, done>>
    BY <1>2 DEF Denied, Passed, TurnEnds, Quiet, LineRead, adapter, requests, service
  <2> QED
    BY <2>1 DEF OrderInv, Serving, Starting, Resuming
<1>3. CASE Queued
  BY <1>3, OrderQueued
<1>4. CASE ResumedRuns \/ SettledRuns
  BY <1>4, OrderRuns
<1>5. CASE StartRuns
  BY <1>5, OrderStarts
<1>6. CASE \E i \in 1..Len(table) : Answered(i)
  BY <1>6, OrderAnswered
<1>7. CASE NextBegins
  BY <1>7, OrderNext
<1>8. CASE TimedOut \/ Forsaken
  BY <1>8, OrderTimedOut, OrderForsaken
<1>9. CASE Dealt
  BY <1>9, OrderDealt
<1>10. CASE End
  <2>1. stdin' = <<>> /\ UNCHANGED <<queue, enqueued, table, tasks, done>>
    BY <1>10 DEF End, adapter, loop
  <2>2. Serving' = <<>> /\ UNCHANGED <<Starting, Resuming>>
    BY <2>1, NoneStand DEF Serving, Starting, Resuming
  <2>3. /\ Ordered(done, Serving, Starting, queue, Resuming, enqueued)
        /\ Sorted(Starting, enqueued) /\ Sorted(queue, enqueued) /\ Sorted(Resuming, enqueued)
        /\ Sorted(<<>>, enqueued) /\ Named(<<>>) = {}
    BY NoneStand DEF OrderInv, Ordered
  <2>4. Ordered(done, <<>>, Starting, queue, Resuming, enqueued)
    BY <2>3, Fewer
  <2> QED
    BY <2>1, <2>2, <2>4 DEF OrderInv
<1>11. CASE Down
  <2>1. /\ queue' = <<>> /\ table' = <<>> /\ stdin' = <<>> /\ tasks' = <<>>
        /\ UNCHANGED <<enqueued, done>>
    BY <1>11 DEF Down
  <2>2. Serving' = <<>> /\ Starting' = <<>> /\ Resuming' = <<>>
    BY <2>1, NoneStand DEF Serving, Starting, Resuming
  <2>3. /\ Ordered(done, Serving, Starting, queue, Resuming, enqueued)
        /\ Sorted(<<>>, enqueued) /\ Named(<<>>) = {}
    BY NoneStand DEF OrderInv
  <2>4. Ordered(done, <<>>, <<>>, <<>>, <<>>, enqueued)
    BY <2>3, Fewer
  <2> QED
    BY <2>1, <2>2, <2>4, Nothing DEF OrderInv
<1> QED
  BY <1>1, <1>2, <1>3, <1>4, <1>5, <1>6, <1>7, <1>8, <1>9, <1>10, <1>11 DEF Moves

-----------------------------------------------------------------------------
(* A queued prompt stays somewhere until it is done, or is overtaken.      *)
Held(c) ==
  \/ c \in ToSet(queue) \cup ToSet(done)
  \/ \E k \in ToSet(tasks) : k.command = c
  \/ \E e \in ToSet(table) : e.command = c

Newer(c) == {d \in enqueued : d > c}

Runs == phase # "down" /\ ~unhandled /\ server = "runs"

KeptInv == Runs => \A c \in enqueued : Held(c) \/ Cardinality(Newer(c)) >= MaxQueued

(* What is held in a step that queues nothing and takes nothing away.      *)
LEMMA HeldGoes ==
  ASSUME TypeOK, NEW m \in Methods, NEW n \in Nat, NEW due \in Seq(Tasks), Goes(m, n, due),
         ToSet(done') = ToSet(done), ToSet(queue) \subseteq ToSet(queue') \cup {n},
         \A k \in ToSet(tasks) : k \in ToSet(due) \/ k.command = n,
         NEW c, Held(c)
  PROVE  Held(c)'
<1>1. Entry(m, n).command = n /\ Task("reject", n).command = n /\ Task("start", n).command = n
  BY Fields
<1>2. \/ ToSet(table') = ToSet(table) \cup {Entry(m, n)} /\ ToSet(tasks') = ToSet(due)
      \/ table' = table /\ ToSet(tasks') = ToSet(due) \cup {Task("reject", n)}
      \/ table' = table /\ ToSet(tasks') = ToSet(due) \cup {Task("start", n)}
  BY Going
<1>3. (\E k \in ToSet(tasks') : k.command = n) \/ \E e \in ToSet(table') : e.command = n
  BY <1>1, <1>2
<1>4. c = n => Held(c)'
  BY <1>3 DEF Held
<1>5. CASE c # n
  BY <1>2, <1>5 DEF Held
<1> QED
  BY <1>4, <1>5

(* What is held stays held in a step that queues nothing.                  *)
LEMMA HeldStep ==
  ASSUME TypeOK, KnownInv, ReplyInv, Moves, ~Queued, Runs', NEW c \in enqueued, Held(c)
  PROVE  Held(c)'
<1>1. CASE ToSet(queue') = ToSet(queue) /\ ToSet(done) \subseteq ToSet(done') /\ UNCHANGED <<table, tasks>>
  BY <1>1 DEF Held
<1>2. CASE \E m \in Methods : Comes(m)
  <2>1. PICK m \in Methods : Comes(m)
    BY <1>2
  <2>2. received' = ThisCommand /\ tasks = <<>> /\ Goes(m, ThisCommand, <<>>) /\ UNCHANGED <<queue, done>>
    BY <2>1 DEF Comes, adapter, service
  <2>3. ThisCommand \in Nat /\ tasks \in Seq(Tasks) /\ Goes(m, ThisCommand, tasks)
    BY <2>2, Arrived DEF TypeOK
  <2> QED
    BY <2>2, <2>3, HeldGoes
<1>3. CASE Denied \/ Passed \/ TurnEnds \/ End \/ Quiet
  BY <1>1, <1>3 DEF Denied, Passed, TurnEnds, End, Quiet, LineRead, adapter, requests, service, loop
<1>4. CASE ResumedRuns
  <2>1. /\ tasks # <<>> /\ tasks' = Append(Tail(tasks), Task("start", tasks[1].command))
        /\ UNCHANGED <<queue, table, done>>
    BY <1>4 DEF ResumedRuns, requests, service
  <2>2. Task("start", tasks[1].command).command = tasks[1].command
    BY Fields
  <2>3. \A k \in ToSet(tasks) : \E n \in ToSet(tasks') : n.command = k.command
    BY <2>1, <2>2, FirstTask
  <2> QED
    BY <2>1, <2>3 DEF Held
<1>5. CASE StartRuns
  <2>1. /\ tasks # <<>> /\ Goes("turn/start", tasks[1].command, Tail(tasks)) /\ UNCHANGED <<queue, done>>
    BY <1>5 DEF StartRuns, adapter, service
  <2>2. /\ tasks[1].command \in Nat /\ Tail(tasks) \in Seq(Tasks) /\ "turn/start" \in Methods
        /\ ToSet(tasks) = ToSet(Tail(tasks)) \cup {tasks[1]}
    BY <2>1, FirstTask DEF Methods
  <2>3. \A k \in ToSet(tasks) : k \in ToSet(Tail(tasks)) \/ k.command = tasks[1].command
    BY <2>2
  <2> QED
    BY <2>1, <2>2, <2>3, HeldGoes
<1>6. CASE SettledRuns
  <2>1. /\ tasks # <<>> /\ tasks' = Tail(tasks) /\ UNCHANGED <<queue, table, done>>
        /\ tasks[1].do \in {"resolve", "reject"}
        /\ tasks[1].command \in DOMAIN results /\ tasks[1].do = "reject" => unhandled'
    BY <1>6 DEF SettledRuns, adapter, requests, service
  <2>2. ToSet(tasks) = ToSet(tasks') \cup {tasks[1]}
    BY <2>1, FirstTask
  <2>3. CASE tasks[1].command = c
    <3>1. tasks[1].do = "resolve"
      BY <2>1, <2>3 DEF KnownInv, Runs
    <3>2. c \in ToSet(done)
      BY <2>2, <2>3, <3>1 DEF ReplyInv
    <3> QED
      BY <2>1, <3>2 DEF Held
  <2>4. CASE tasks[1].command # c
    BY <2>1, <2>2, <2>4 DEF Held
  <2> QED
    BY <2>3, <2>4
<1>7. CASE \E i \in 1..Len(table) : Answered(i)
  <2>1. PICK i \in 1..Len(table) : Answered(i)
    BY <1>7
  <2>2. UNCHANGED <<queue, done>>
    BY <2>1 DEF Answered, LineRead, service
  <2> QED
    BY <2>1, <2>2, AnsweredEntry DEF Held
<1>8. CASE NextBegins
  <2>1. Goes("thread/resume", queue[1], tasks) /\ done' = done
    BY <1>8 DEF NextBegins, service
  <2>2. /\ queue[1] \in Nat /\ tasks \in Seq(Tasks) /\ "thread/resume" \in Methods
        /\ ToSet(queue) \subseteq ToSet(queue') \cup {queue[1]}
    BY <1>8, NextLeaves DEF Methods
  <2> QED
    BY <2>1, <2>2, HeldGoes
<1>9. CASE TimedOut
  <2>1. UNCHANGED <<queue, done>> /\ tasks = <<>>
    BY <1>9 DEF TimedOut, adapter, service
  <2>2. ToSet(tasks) = {}
    BY <2>1, Nothing
  <2> QED
    BY <1>9, <2>1, <2>2, TimedOutEntry DEF Held
<1>10. CASE Forsaken \/ Down
  BY <1>10 DEF Forsaken, Down, Runs
<1>11. CASE Dealt
  <2>1. UNCHANGED <<queue, table, tasks>>
    BY <1>11 DEF Dealt, adapter
  <2> QED
    BY <1>1, <1>11, <2>1, DealtFirst
<1> QED
  BY <1>2, <1>3, <1>4, <1>5, <1>6, <1>7, <1>8, <1>9, <1>10, <1>11 DEF Moves

(* The agent and App Server go on in a step after which they do.           *)
LEMMA RanBefore ==
  ASSUME TypeOK, Moves, Runs'
  PROVE  Runs
<1>1. phase' # "down" /\ ~unhandled' /\ server' = "runs"
  BY DEF Runs
<1>2. CASE UNCHANGED phase /\ UNCHANGED server /\ (unhandled => unhandled')
  BY <1>1, <1>2 DEF Runs
<1>3. CASE Forsaken \/ End \/ Down
  BY <1>1, <1>3 DEF Forsaken, End, Down
<1>4. CASE (\E m \in Methods : Comes(m)) \/ Denied \/ Queued
  BY <1>2, <1>4 DEF Comes, Denied, Queued, service
<1>5. CASE ResumedRuns \/ StartRuns \/ SettledRuns
  BY <1>2, <1>5 DEF ResumedRuns, StartRuns, SettledRuns, service
<1>6. CASE (\E i \in 1..Len(table) : Answered(i)) \/ Passed \/ NextBegins
  BY <1>2, <1>6 DEF Answered, Passed, NextBegins, LineRead, service
<1>7. CASE TimedOut \/ Dealt \/ TurnEnds
  BY <1>2, <1>7 DEF TimedOut, Dealt, TurnEnds, service
<1>8. CASE Quiet
  <2>1. (phase = "down" => phase' = "down") /\ UNCHANGED server /\ (unhandled => unhandled')
    BY <1>8 DEF Quiet, service
  <2> QED
    BY <1>1, <2>1 DEF Runs
<1> QED
  BY <1>3, <1>4, <1>5, <1>6, <1>7, <1>8 DEF Moves

(* The elements of a strictly increasing sequence are as many as it is     *)
(* long.                                                                   *)
LEMMA AsMany ==
  ASSUME NEW s \in Seq(Nat), NEW X, IsFiniteSet(X), \A i \in 1..Len(s) : s[i] \in X,
         \A i, j \in 1..Len(s) : i < j => s[i] < s[j]
  PROVE  Cardinality(X) >= Len(s)
<1> DEFINE f == [i \in 1..Len(s) |-> s[i]]
<1>1. Len(s) \in Nat /\ \A i \in 1..Len(s) : s[i] \in Nat
  BY Elements
<1>2. f \in Injection(1..Len(s), X)
  <2>1. \A i, j \in 1..Len(s) : s[i] = s[j] => i = j
    BY <1>1
  <2> QED
    BY <2>1 DEF Injection, IsInjective
<1>3. Cardinality(1..Len(s)) <= Cardinality(X)
  BY <1>2, FS_Injection
<1>4. Cardinality(1..Len(s)) = Len(s)
  <2> DEFINE n == Len(s)
  <2>1. 1 \in Int /\ n \in Int /\ n \in Nat
    BY <1>1
  <2> HIDE DEF n
  <2>2. Cardinality(1..n) = IF 1 > n THEN 0 ELSE n - 1 + 1
    BY <2>1, FS_Interval
  <2>3. Cardinality(1..n) = n
    BY <2>1, <2>2
  <2> QED
    BY <2>3 DEF n
<1>5. Cardinality(X) \in Nat
  BY FS_CardinalityType
<1> QED
  BY <1>1, <1>3, <1>4, <1>5

(* A prompt is queued: it is the newest.                                   *)
LEMMA KeptQueued ==
  ASSUME TypeOK, KnownInv, OrderInv, KeptInv, Runs, Queued
  PROVE  \A c \in enqueued' : Held(c)' \/ Cardinality(Newer(c)') >= MaxQueued
<1> DEFINE new == ThisCommand
           q == Append(queue, new)
<1>1. /\ received' = new /\ enqueued' = enqueued \cup {new} /\ UNCHANGED <<table, tasks, done>>
  BY DEF Queued, requests, service
<1>2. /\ new \in Nat /\ new \in 1..new /\ 1..received \subseteq 1..new
      /\ \A n \in 1..received : n < new
      /\ enqueued \subseteq 1..received /\ received \in Nat
  BY <1>1, Arrived DEF KnownInv, TypeOK
<1>3. IsFiniteSet(enqueued') /\ \A c : IsFiniteSet(Newer(c)')
  <2>1. IsFiniteSet(1..new)
    BY <1>2, FS_Interval
  <2>2. enqueued' \in SUBSET (1..new)
    BY <1>1, <1>2
  <2>3. \A c : Newer(c)' \in SUBSET enqueued'
    BY DEF Newer
  <2> QED
    BY <2>1, <2>2, <2>3, FS_Subset
<1>4. /\ queue \in Seq(Nat) /\ Len(queue) \in Nat /\ Len(queue) <= MaxQueued /\ MaxQueued \in Nat \ {0}
      /\ q \in Seq(Nat) /\ Len(q) = Len(queue) + 1 /\ q[Len(queue) + 1] = new
      /\ \A i \in 1..Len(queue) : q[i] = queue[i]
      /\ queue' \in Seq(Nat)
      /\ Len(queue') = IF Len(queue) + 1 <= MaxQueued THEN Len(queue) + 1 ELSE MaxQueued
      /\ \A i \in 1..Len(queue') : queue'[i] = q[Len(queue) + 1 - Len(queue') + i]
  BY QueueWhole, QueueAssumption DEF TypeOK
<1>5. /\ ToSet(queue') = {queue'[i] : i \in 1..Len(queue')}
      /\ ToSet(queue) = {queue[i] : i \in 1..Len(queue)}
  BY <1>4, Elements
<1>6. /\ \A i \in 1..Len(queue) : queue[i] \in enqueued /\ queue[i] # 0
      /\ \A i, j \in 1..Len(queue) : i < j => queue[i] < queue[j]
  <2>1. \A i \in 1..Len(queue) : queue[i] \in enqueued /\ queue[i] # 0
    BY <1>2, <1>5 DEF KnownInv
  <2> QED
    BY <2>1 DEF OrderInv, Ordered, Sorted, Before
<1> HIDE DEF new, q
<1>7. /\ \A i \in 1..Len(q) : q[i] \in enqueued' /\ q[i] \in Nat
      /\ \A i, j \in 1..Len(q) : i < j => q[i] < q[j]
  <2>1. \A i \in 1..Len(q) : i \in 1..Len(queue) \/ i = Len(queue) + 1
    BY <1>4
  <2>2. \A i \in 1..Len(queue) : q[i] = queue[i] /\ q[i] < new
    BY <1>2, <1>4, <1>6
  <2>3. \A i \in 1..Len(q) : q[i] \in enqueued' /\ q[i] \in Nat
    <3>1. new \in enqueued' /\ \A i \in 1..Len(queue) : q[i] \in enqueued'
      BY <1>1, <1>4, <1>6
    <3>2. \A i \in 1..Len(q) : q[i] \in Nat
      BY <1>4, Elements
    <3> QED
      BY <1>4, <2>1, <3>1, <3>2
  <2>4. ASSUME NEW i \in 1..Len(q), NEW j \in 1..Len(q), i < j
        PROVE  q[i] < q[j]
    <3>1. i \in 1..Len(queue)
      BY <1>4, <2>4
    <3> QED
      BY <1>4, <1>6, <2>1, <2>2, <2>4, <3>1
  <2> QED
    BY <2>3, <2>4
<1>8. ASSUME NEW c, c = new
      PROVE  Held(c)'
  <2>1. Len(queue') \in 1..Len(queue') /\ Len(queue) + 1 - Len(queue') + Len(queue') = Len(queue) + 1
    BY <1>4
  <2>2. queue'[Len(queue')] = new
    BY <1>4, <2>1
  <2>3. new \in ToSet(queue')
    BY <1>5, <2>1, <2>2
  <2> QED
    BY <1>8, <2>3 DEF Held
<1>9. ASSUME NEW c, NEW i \in 1..Len(queue), c = queue[i]
      PROVE  c \in ToSet(queue') \/ Cardinality(Newer(c)') >= MaxQueued
  <2>1. CASE Len(queue) + 1 <= MaxQueued
    <3>1. i \in 1..Len(queue') /\ Len(queue) + 1 - Len(queue') + i = i
      BY <1>4, <2>1
    <3>2. queue'[i] = queue[i]
      BY <1>4, <3>1
    <3> QED
      BY <1>5, <1>9, <3>1, <3>2
  <2>2. CASE ~(Len(queue) + 1 <= MaxQueued) /\ i # 1
    <3>1. /\ i - 1 \in 1..Len(queue') /\ Len(queue) + 1 - Len(queue') + (i - 1) = i
      <4>1. Len(queue') = MaxQueued /\ Len(queue) = MaxQueued
        BY <1>4, <2>2
      <4> QED
        BY <1>4, <2>2, <4>1
    <3>2. queue'[i - 1] = queue[i]
      BY <1>4, <3>1
    <3> QED
      BY <1>5, <1>9, <3>1, <3>2
  <2>3. CASE ~(Len(queue) + 1 <= MaxQueued) /\ i = 1
    <3> DEFINE X == Newer(c)'
    <3>1. Len(queue') = MaxQueued /\ Len(queue) = MaxQueued
      BY <1>4, <2>3
    <3>2. \A j \in 1..Len(queue') : queue'[j] = q[j + 1] /\ j + 1 \in 1..Len(q) /\ 1 \in 1..Len(q) /\ 1 < j + 1
      <4> SUFFICES ASSUME NEW j \in 1..Len(queue')
                   PROVE  queue'[j] = q[j + 1] /\ j + 1 \in 1..Len(q) /\ 1 \in 1..Len(q) /\ 1 < j + 1
        OBVIOUS
      <4>1. Len(queue) + 1 - Len(queue') + j = j + 1 /\ j + 1 \in 1..Len(q) /\ 1 \in 1..Len(q) /\ 1 < j + 1
        BY <1>4, <3>1
      <4> QED
        BY <1>4, <4>1
    <3>3. q[1] = c
      BY <1>4, <1>9, <2>3
    <3>4. \A j \in 1..Len(queue') : queue'[j] \in X
      <4> SUFFICES ASSUME NEW j \in 1..Len(queue')
                   PROVE  queue'[j] \in enqueued' /\ queue'[j] > c
        BY DEF Newer
      <4>1. q[1] < q[j + 1] /\ q[j + 1] \in enqueued' /\ q[1] \in Nat /\ q[j + 1] \in Nat
        BY <1>7, <3>2
      <4> QED
        BY <3>2, <3>3, <4>1
    <3>5. \A j, k \in 1..Len(queue') : j < k => queue'[j] < queue'[k]
      <4> SUFFICES ASSUME NEW j \in 1..Len(queue'), NEW k \in 1..Len(queue'), j < k
                   PROVE  queue'[j] < queue'[k]
        OBVIOUS
      <4>1. j + 1 < k + 1
        BY <1>4
      <4> QED
        BY <1>7, <3>2, <4>1
    <3>6. IsFiniteSet(X)
      BY <1>3
    <3> HIDE DEF X
    <3>7. Cardinality(X) >= Len(queue')
      BY <1>4, <3>4, <3>5, <3>6, AsMany
    <3> QED
      BY <2>3, <3>1, <3>7 DEF X
  <2> QED
    BY <2>1, <2>2, <2>3
<1>10. ASSUME NEW c \in enqueued
       PROVE  Held(c)' \/ Cardinality(Newer(c)') >= MaxQueued
  <2>1. CASE c \in ToSet(queue)
    <3>1. PICK i \in 1..Len(queue) : c = queue[i]
      BY <1>5, <2>1
    <3>2. c \in ToSet(queue') \/ Cardinality(Newer(c)') >= MaxQueued
      BY <1>9, <3>1
    <3> QED
      BY <3>2 DEF Held
  <2>2. CASE Held(c) /\ c \notin ToSet(queue)
    BY <1>1, <2>2 DEF Held
  <2>3. CASE Cardinality(Newer(c)) >= MaxQueued
    <3>1. Newer(c) \in SUBSET Newer(c)'
      BY <1>1 DEF Newer
    <3>2. IsFiniteSet(Newer(c)) /\ Cardinality(Newer(c)) <= Cardinality(Newer(c)')
      BY <1>3, <3>1, FS_Subset
    <3>3. Cardinality(Newer(c)) \in Nat /\ Cardinality(Newer(c)') \in Nat
      BY <1>3, <3>2, FS_CardinalityType
    <3> QED
      BY <1>4, <2>3, <3>2, <3>3
  <2> QED
    BY <2>1, <2>2, <2>3 DEF KeptInv
<1> QED
  BY <1>1, <1>8, <1>10

(* Every step keeps KeptInv.                                               *)
LEMMA KeptStep ==
  ASSUME TypeOK, KnownInv, ReplyInv, OrderInv, KeptInv, Moves
  PROVE  KeptInv'
<1> SUFFICES ASSUME Runs'
             PROVE  \A c \in enqueued' : Held(c)' \/ Cardinality(Newer(c)') >= MaxQueued
  BY DEF KeptInv
<1>1. Runs
  BY RanBefore
<1>2. CASE Queued
  BY <1>1, <1>2, KeptQueued
<1>3. CASE ~Queued
  <2>1. enqueued' = enqueued
    BY <1>3 DEF Moves, Comes, Denied, ResumedRuns, StartRuns, SettledRuns, Answered, Passed, LineRead,
       NextBegins, TimedOut, Forsaken, Dealt, TurnEnds, End, Down, Quiet, adapter
  <2>2. \A c : Newer(c)' = Newer(c)
    BY <2>1 DEF Newer
  <2> QED
    BY <1>1, <1>3, <2>1, <2>2, HeldStep DEF KeptInv
<1> QED
  BY <1>2, <1>3

-----------------------------------------------------------------------------
(* The inductive invariant.                                                *)
Inv == /\ TypeOK /\ KnownInv /\ ReplyInv /\ OkInv
       /\ LoadInv /\ TurnInv /\ OrderInv /\ KeptInv

(* The invariant holds at first, ...                                       *)
LEMMA Initially == Init => Inv
<1> SUFFICES ASSUME Init
             PROVE  Inv
  OBVIOUS
<1>1. TypeOK
  BY InitTypes
<1>2. /\ table = <<>> /\ stdin = <<>> /\ stdout = <<>> /\ tasks = <<>> /\ queue = <<>> /\ done = <<>>
      /\ enqueued = {} /\ DOMAIN results = {} /\ active = 0 /\ turn = 0 /\ loaded = FALSE
  BY DEF Init
<1>3. ToSet(<<>>) = {} /\ Len(<<>>) = 0
  BY Nothing
<1>4. KnownInv /\ ReplyInv /\ OkInv /\ LoadInv
  BY <1>2, <1>3 DEF KnownInv, ReplyInv, OkInv, LoadInv
<1>5. TurnInv
  BY <1>2, <1>3 DEF TurnInv, Tells
<1>6. OrderInv
  <2>1. Serving = <<>> /\ Starting = <<>> /\ Resuming = <<>>
    BY <1>2, NoneStand DEF Serving, Starting, Resuming
  <2>2. Places({}, {}, {}, {}, {}, enqueued)
    BY DEF Places, Precede
  <2> QED
    BY <1>2, <1>3, <2>1, <2>2, NoneStand DEF OrderInv, Ordered
<1>7. KeptInv
  BY <1>2 DEF KeptInv
<1> QED
  BY <1>1, <1>4, <1>5, <1>6, <1>7 DEF Inv

(* ... every step keeps it, ...                                            *)
LEMMA Steps == Inv /\ [Next]_vars => Inv'
<1> SUFFICES ASSUME Inv, [Next]_vars
             PROVE  Inv'
  OBVIOUS
<1>1. /\ TypeOK /\ KnownInv /\ ReplyInv /\ OkInv
      /\ LoadInv /\ TurnInv /\ OrderInv /\ KeptInv
  BY DEF Inv
<1>2. Moves
  BY <1>1, EveryMove
<1> QED
  BY <1>1, <1>2, TypeStep, KnownStep, ReplyStep, OkStep, LoadStep, TurnStep, OrderStep, KeptStep DEF Inv

(* ... so it always holds.                                                 *)
LEMMA Holds == Spec => []Inv
BY Initially, Steps, PTL DEF Spec

(* What the adapter keeps of the session, its requests and its due tasks   *)
(* always have their types, and the queue never holds more than MaxQueued  *)
(* prompts.                                                                *)
THEOREM TurnsTypes == Spec => []TypeOK
<1>1. Inv => TypeOK
  BY DEF Inv
<1> QED
  BY <1>1, Holds, PTL

(* A command that a client hears was heard has been carried out by App     *)
(* Server, or was queued: neither a request that timed out nor a reply     *)
(* that comes late lets the adapter take one command's reply for another's.*)
THEOREM OkIsDone == Spec => []OkMeansDone
<1>1. Inv => OkMeansDone
  BY DEF Inv, OkInv, OkMeansDone, In, ToSet
<1> QED
  BY <1>1, Holds, PTL

(* App Server is given no command twice, and the prompts that were queued  *)
(* in the order in which they came, however turns, replies, time-outs and  *)
(* new commands fall together.                                             *)
THEOREM QueuedInOrder == Spec => []DoneInOrder
<1>1. ASSUME Inv
      PROVE  DoneInOrder
  <2>1. done \in Seq(Nat) /\ ToSet(done) \subseteq 1..received /\ Sorted(done, enqueued)
    BY <1>1 DEF Inv, TypeOK, KnownInv, OrderInv, Ordered
  <2>2. DOMAIN done = 1..Len(done) /\ \A i \in 1..Len(done) : done[i] \in 1..received
    BY <2>1, Elements
  <2>3. \A i \in 1..Len(done) : done[i] # 0
    BY <2>2
  <2> QED
    BY <2>1, <2>2, <2>3 DEF DoneInOrder, Sorted, Before
<1> QED
  BY <1>1, Holds, PTL

(* As long as agent and App Server go on, a prompt that was queued waits,  *)
(* is on its way to App Server, was done, or had to make room for newer    *)
(* ones: no interleaving of turns, replies and failures drops one.         *)
THEOREM NoneForgotten == Spec => []NothingForgotten
<1>1. ASSUME Inv, phase # "down", ~unhandled, server = "runs", NEW c \in enqueued
      PROVE  \/ In(c, queue) \/ In(c, done)
             \/ \E s \in {tasks, table, stdin} : \E i \in DOMAIN s : s[i].command = c
             \/ Cardinality({d \in enqueued : d > c}) >= MaxQueued
  <2>1. Held(c) \/ Cardinality({d \in enqueued : d > c}) >= MaxQueued
    BY <1>1 DEF Inv, KeptInv, Runs, Newer
  <2>2. CASE c \in ToSet(queue) \cup ToSet(done)
    BY <2>2 DEF In, ToSet
  <2>3. CASE (\E k \in ToSet(tasks) : k.command = c) \/ \E e \in ToSet(table) : e.command = c
    BY <2>3 DEF ToSet
  <2> QED
    BY <2>1, <2>2, <2>3 DEF Held
<1>2. Inv => NothingForgotten
  BY <1>1 DEF NothingForgotten
<1> QED
  BY <1>2, Holds, PTL

(* Once the adapter has read all that App Server wrote, the turn it takes  *)
(* for active is the one App Server is in.                                 *)
THEOREM ActiveKnown == Spec => []ActiveIsCurrent
<1>1. ASSUME Inv, phase # "down", server = "runs", stdout = <<>>
      PROVE  active = turn
  <2>1. Tells(<<>>, active, turn) /\ Len(<<>>) = 0
    BY <1>1, Nothing DEF Inv, TurnInv
  <2> QED
    BY <2>1 DEF Tells
<1>2. Inv => ActiveIsCurrent
  BY <1>1 DEF ActiveIsCurrent
<1> QED
  BY <1>2, Holds, PTL
=============================================================================
