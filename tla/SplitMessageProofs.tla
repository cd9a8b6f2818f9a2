------------------------- MODULE SplitMessageProofs -------------------------
(***************************************************************************)
(* Proofs about SplitMessage, for messages of any size, elements of any    *)
(* size and any limit: what is split is what is sent, the log entries come *)
(* first, and there are no more sub-messages than necessary.               *)
(*                                                                         *)
(* The first two follow from where splitField's pointer leads: a field is  *)
(* never divided, all of it is in one sub-message.  The last is about the  *)
(* division that was meant: it takes as much as fits, and no other division*)
(* gets further with as many groups.                                       *)
(***************************************************************************)
EXTENDS SplitMessage, FoldLemmas, SequenceTheorems, TLAPS

SubMessage == [Field -> Seq(1 .. MaxElements)]

\* The n elements of a field from the last one down to the one after "rest".
Backwards(n, rest) == [j \in 1 .. n - rest |-> n + 1 - j]

\* All there is of a field is s, in sub-message d.
OnlyIn(q, f, d, s) ==
  /\ d \in 1 .. Len(q) /\ q[d][f] = s
  /\ \A k \in 1 .. Len(q) : k # d => q[k][f] = <<>>

TypeInv ==
  /\ msg \in [Field -> Seq(Sizes)] /\ \A f \in Field : Len(msg[f]) <= MaxElements
  /\ fieldNo \in 1 .. 4
  /\ left \in Nat /\ (fieldNo < 4 => left <= Len(msg[Current])) /\ (fieldNo = 4 => left = 0)
  /\ subs \in Seq(SubMessage) /\ destination \in 1 .. Len(subs)
  /\ cumulative \in Nat

\* A field that was split is whole in one sub-message, the current one is where
\* the pointer leads, and the others have not begun.
FieldInv ==
  \A i \in 1 .. 3 :
    LET f == FieldOrder[i]
        n == Len(msg[f])
    IN  /\ i < fieldNo => \E d \in 1 .. Len(subs) : OnlyIn(subs, f, d, Backwards(n, 0))
        /\ i = fieldNo => OnlyIn(subs, f, destination, Backwards(n, left))
        /\ i > fieldNo => \A d \in 1 .. Len(subs) : OnlyIn(subs, f, d, <<>>)

\* The field that is split first is in the first sub-message.
FirstInv ==
  /\ fieldNo = 1 => destination = 1
  /\ fieldNo # 1 => \E s : OnlyIn(subs, "events_log", 1, s)

SplitInv == TypeInv /\ FieldInv /\ FirstInv

LEMMA Order ==
  /\ Len(FieldOrder) = 3 /\ FieldOrder[1] = "events_log"
  /\ \A i \in 1 .. 3 : FieldOrder[i] \in Field
  /\ \A i, j \in 1 .. 3 : FieldOrder[i] = FieldOrder[j] => i = j
  /\ \A f \in Field : \E i \in 1 .. 3 : FieldOrder[i] = f
<1>1. /\ Len(FieldOrder) = 3 /\ FieldOrder[1] = "events_log"
      /\ FieldOrder[2] = "conn_stats" /\ FieldOrder[3] = "events"
  BY DEF FieldOrder
<1>2. \A i \in 1 .. 3 : i = 1 \/ i = 2 \/ i = 3
  OBVIOUS
<1> QED
  BY <1>1, <1>2 DEF Field

-----------------------------------------------------------------------------
(***************************************************************************)
(* The sub-messages.                                                       *)
(***************************************************************************)
LEMMA NothingInIt ==
  EmptySub \in SubMessage /\ \A f \in Field : EmptySub[f] = <<>>
BY DEF EmptySub, SubMessage

\* A new sub-message has nothing.
LEMMA Extended ==
  ASSUME NEW q \in Seq(SubMessage)
  PROVE  LET r == Append(q, EmptySub)
         IN  /\ r \in Seq(SubMessage) /\ Len(r) = Len(q) + 1 /\ Len(q) \in Nat
             /\ \A f \in Field : \A d, s : OnlyIn(q, f, d, s) => OnlyIn(r, f, d, s)
             /\ \A f \in Field : (\A d \in 1 .. Len(q) : OnlyIn(q, f, d, <<>>))
                                   => \A d \in 1 .. Len(r) : r[d][f] = <<>>
<1> DEFINE r == Append(q, EmptySub)
           n == Len(q)
<1>1. /\ r \in Seq(SubMessage) /\ Len(r) = n + 1 /\ n \in Nat
      /\ \A k \in 1 .. n : r[k] = q[k]
      /\ r[n + 1] = EmptySub
  BY NothingInIt, AppendProperties, LenProperties
<1> HIDE DEF r, n
<1>2. \A k \in 1 .. n + 1 : k \in 1 .. n \/ k = n + 1
  BY <1>1
<1>3. ASSUME NEW f \in Field, NEW d, NEW s, OnlyIn(q, f, d, s)
      PROVE  OnlyIn(r, f, d, s)
  <2>1. d \in 1 .. n /\ q[d][f] = s /\ \A k \in 1 .. n : k # d => q[k][f] = <<>>
    BY <1>3 DEF OnlyIn, n
  <2>2. d \in 1 .. n + 1
    BY <1>1, <2>1
  <2> QED
    BY <1>1, <1>2, <2>1, <2>2, NothingInIt DEF OnlyIn
<1>4. ASSUME NEW f \in Field, \A d \in 1 .. n : OnlyIn(q, f, d, <<>>), NEW d \in 1 .. n + 1
      PROVE  r[d][f] = <<>>
  <2>1. \A k \in 1 .. n : q[k][f] = <<>>
    BY <1>4 DEF OnlyIn
  <2> QED
    BY <1>1, <1>2, <2>1, NothingInIt
<1> QED
  BY <1>1, <1>3, <1>4 DEF r, n

\* r has one more element l of the field f, in "to", and the others stay.
PutIn(q, to, f, l, r) ==
  /\ r \in Seq(SubMessage) /\ Len(r) = Len(q)
  /\ \A e \in Field : \A d, s : e # f /\ OnlyIn(q, e, d, s) => OnlyIn(r, e, d, s)
  /\ \A s : OnlyIn(q, f, to, s) => OnlyIn(r, f, to, Append(s, l))

LEMMA Put ==
  ASSUME NEW q \in Seq(SubMessage), NEW to \in 1 .. Len(q), NEW f \in Field,
         NEW l \in 1 .. MaxElements
  PROVE  PutIn(q, to, f, l, [q EXCEPT ![to][f] = Append(@, l)])
<1> DEFINE old == q[to]
           new == [old EXCEPT ![f] = Append(@, l)]
           r == [q EXCEPT ![to] = new]
<1>1. old \in SubMessage
  BY ElementOfSeq
<1>2. Append(old[f], l) \in Seq(1 .. MaxElements)
  <2>1. old[f] \in Seq(1 .. MaxElements)
    BY <1>1 DEF SubMessage
  <2> QED
    BY <2>1, AppendProperties
<1>3. /\ new \in SubMessage /\ new[f] = Append(old[f], l)
      /\ \A e \in Field : e # f => new[e] = old[e]
  BY <1>1, <1>2 DEF SubMessage
<1>4. [q EXCEPT ![to][f] = Append(@, l)] = r
  OBVIOUS
<1> HIDE DEF new
<1>5. /\ r \in Seq(SubMessage) /\ Len(r) = Len(q)
      /\ \A k \in 1 .. Len(q) : r[k] = IF k = to THEN new ELSE q[k]
  BY <1>3, ExceptSeq
<1> HIDE DEF r
<1>6. ASSUME NEW e \in Field, NEW d, NEW s, e # f, OnlyIn(q, e, d, s)
      PROVE  OnlyIn(r, e, d, s)
  BY <1>3, <1>5, <1>6 DEF OnlyIn
<1>7. ASSUME NEW s, OnlyIn(q, f, to, s)
      PROVE  OnlyIn(r, f, to, Append(s, l))
  BY <1>3, <1>5, <1>7 DEF OnlyIn
<1> QED
  BY <1>4, <1>5, <1>6, <1>7 DEF PutIn

LEMMA OneMore ==
  ASSUME NEW n \in Nat, NEW l \in 1 .. n
  PROVE  Append(Backwards(n, l), l) = Backwards(n, l - 1)
<1> DEFINE a == Backwards(n, l)
           b == Backwards(n, l - 1)
           m == n - l
<1>1. m \in Nat /\ a = [j \in 1 .. m |-> n + 1 - j] /\ b = [j \in 1 .. m + 1 |-> n + 1 - j]
  BY DEF Backwards
<1>2. l = n + 1 - (m + 1)
  OBVIOUS
<1> HIDE DEF a, b, m
<1>3. a \in Seq(Int) /\ Len(a) = m /\ b \in Seq(Int) /\ Len(b) = m + 1 /\ l \in Int
  BY <1>1
<1>4. /\ Append(a, l) \in Seq(Int) /\ Len(Append(a, l)) = m + 1
      /\ \A j \in 1 .. m : Append(a, l)[j] = a[j]
      /\ Append(a, l)[m + 1] = l
  BY <1>3, AppendProperties
<1>5. ASSUME NEW j \in 1 .. m + 1
      PROVE  Append(a, l)[j] = b[j]
  <2>1. j \in 1 .. m \/ j = m + 1
    BY <1>1
  <2>2. j \in 1 .. m => a[j] = n + 1 - j
    BY <1>1
  <2>3. b[j] = n + 1 - j
    BY <1>1
  <2> QED
    BY <1>2, <1>4, <2>1, <2>2, <2>3
<1>6. Append(a, l) = b
  BY <1>3, <1>4, <1>5, SeqEqual
<1> QED
  BY <1>6 DEF a, b

-----------------------------------------------------------------------------
(***************************************************************************)
(* The invariant holds.                                                    *)
(***************************************************************************)
LEMMA InitInv == Init => SplitInv
<1> SUFFICES ASSUME Init
             PROVE  SplitInv
  OBVIOUS
<1>1. ASSUME NEW f \in Field
      PROVE  msg[f] \in Seq(Sizes) /\ Len(msg[f]) <= MaxElements /\ Len(msg[f]) \in Nat
  <2>1. PICK n \in 0 .. MaxElements : msg[f] \in [1 .. n -> Sizes]
    BY DEF Init
  <2>2. n \in Nat /\ n <= MaxElements
    BY SizeAssumption
  <2> QED
    BY <2>1, <2>2
<1>2. msg \in [Field -> Seq(Sizes)]
  BY <1>1 DEF Init
<1>3. Current \in Field /\ fieldNo = 1 /\ left = Len(msg[Current]) /\ destination = 1
      /\ cumulative = 0
  BY Order DEF Init, Current
<1>4. subs \in Seq(SubMessage) /\ Len(subs) = 1 /\ subs[1] = EmptySub
  BY NothingInIt DEF Init
<1>5. TypeInv
  BY <1>1, <1>2, <1>3, <1>4 DEF TypeInv
<1>6. ASSUME NEW f \in Field, NEW d \in 1 .. Len(subs)
      PROVE  OnlyIn(subs, f, d, <<>>)
  <2>1. \A k \in 1 .. 1 : k = 1
    OBVIOUS
  <2> QED
    BY <1>4, <2>1, NothingInIt DEF OnlyIn
<1>7. Backwards(Len(msg[Current]), left) = <<>>
  <2> DEFINE n == Len(msg[Current])
  <2>1. n \in Nat /\ left = n
    BY <1>1, <1>3
  <2> HIDE DEF n
  <2>2. Backwards(n, n) = [j \in 1 .. 0 |-> n + 1 - j]
    BY <2>1 DEF Backwards
  <2> QED
    BY <2>1, <2>2 DEF n
<1>8. FieldInv
  <2>1. 1 \in 1 .. Len(subs)
    BY <1>4
  <2> QED
    BY <1>3, <1>6, <1>7, <2>1, Order DEF FieldInv, Current
<1> QED
  BY <1>3, <1>5, <1>8 DEF SplitInv, FirstInv

\* One turn of the loop.
LEMMA MoveElementInv ==
  ASSUME SplitInv, MoveElement
  PROVE  SplitInv'
<1>0. TypeInv /\ FieldInv /\ FirstInv
  BY DEF SplitInv
<1>1. PICK i \in 1 .. 3, l \in Nat, to \in 1 .. Len(subs) :
        i = fieldNo /\ l = left /\ to = destination
  BY <1>0, Order DEF TypeInv, MoveElement
<1> DEFINE f == FieldOrder[i]
           n == Len(msg[f])
           size == msg[f][l]
           kept == IF Full(size) THEN Append(subs, EmptySub) ELSE subs
<1>2. /\ msg \in [Field -> Seq(Sizes)] /\ \A e \in Field : Len(msg[e]) <= MaxElements
      /\ subs \in Seq(SubMessage) /\ cumulative \in Nat
      /\ f \in Field /\ f = Current /\ n \in Nat /\ l \in 1 .. n
  <2>1. f \in Field /\ f = Current /\ fieldNo < 4
    BY <1>1, Order DEF Current
  <2>2. msg[f] \in Seq(Sizes)
    BY <1>0, <2>1 DEF TypeInv
  <2>3. l > 0 /\ l <= n
    BY <1>0, <1>1, <2>1 DEF TypeInv, MoveElement
  <2> QED
    BY <1>0, <2>1, <2>2, <2>3 DEF TypeInv
<1>3. /\ subs' = [kept EXCEPT ![to][f] = Append(@, l)]
      /\ cumulative' = IF Full(size) THEN size ELSE cumulative + size
      /\ left' = l - 1 /\ UNCHANGED <<msg, fieldNo, destination>>
  BY <1>1, <1>2 DEF MoveElement
<1>4. size \in Nat /\ l \in 1 .. MaxElements
  <2>1. msg[f] \in Seq(Sizes) /\ n <= MaxElements
    BY <1>2
  <2>2. msg[f][l] \in Sizes
    BY <1>2, <2>1, ElementOfSeq
  <2>3. size \in Nat
    BY <2>2, SizeAssumption
  <2>4. l \in 1 .. MaxElements
    <3> HIDE DEF n
    <3> QED
      BY <1>2, <2>1, SizeAssumption
  <2> QED
    BY <2>3, <2>4
<1>5. /\ kept \in Seq(SubMessage) /\ to \in 1 .. Len(kept)
      /\ \A e \in Field : \A d, s : OnlyIn(subs, e, d, s) => OnlyIn(kept, e, d, s)
      /\ \A e \in Field : (\A d \in 1 .. Len(subs) : OnlyIn(subs, e, d, <<>>))
                            => \A d \in 1 .. Len(kept) : OnlyIn(kept, e, d, <<>>)
  <2>1. CASE Full(size)
    <3> DEFINE r == Append(subs, EmptySub)
    <3>1. /\ r \in Seq(SubMessage) /\ Len(r) = Len(subs) + 1 /\ Len(subs) \in Nat
          /\ \A e \in Field : \A d, s : OnlyIn(subs, e, d, s) => OnlyIn(r, e, d, s)
          /\ \A e \in Field : (\A d \in 1 .. Len(subs) : OnlyIn(subs, e, d, <<>>))
                               => \A d \in 1 .. Len(r) : r[d][e] = <<>>
      BY <1>2, Extended
    <3>2. kept = r
      BY <2>1
    <3> HIDE DEF r, kept
    <3>3. to \in 1 .. Len(r)
      BY <3>1
    <3>4. ASSUME NEW e \in Field, \A d \in 1 .. Len(subs) : OnlyIn(subs, e, d, <<>>),
                 NEW d \in 1 .. Len(r)
          PROVE  OnlyIn(r, e, d, <<>>)
      <4>1. \A k \in 1 .. Len(r) : r[k][e] = <<>>
        BY <3>1, <3>4
      <4> QED
        BY <4>1 DEF OnlyIn
    <3> QED
      BY <3>1, <3>2, <3>3, <3>4
  <2>2. CASE ~Full(size)
    BY <1>2, <2>2
  <2> QED
    BY <2>1, <2>2
<1>6. cumulative' \in Nat
  BY <1>2, <1>3, <1>4
<1> HIDE DEF kept, size
<1>7. /\ subs' \in Seq(SubMessage) /\ Len(subs') = Len(kept)
      /\ \A e \in Field : \A d, s : e # f /\ OnlyIn(kept, e, d, s) => OnlyIn(subs', e, d, s)
      /\ \A s : OnlyIn(kept, f, to, s) => OnlyIn(subs', f, to, Append(s, l))
  <2> HIDE DEF f
  <2>1. PutIn(kept, to, f, l, [kept EXCEPT ![to][f] = Append(@, l)])
    BY <1>2, <1>4, <1>5, Put
  <2>2. PutIn(kept, to, f, l, subs')
    BY <1>3, <2>1
  <2> QED
    BY <2>2 DEF PutIn
<1>8. TypeInv'
  <2>1. left' \in Nat /\ left' <= Len(msg[Current]) /\ Current' = Current /\ fieldNo' = i
    BY <1>1, <1>2, <1>3 DEF Current
  <2>2. destination' \in 1 .. Len(subs')
    BY <1>1, <1>3, <1>5, <1>7
  <2> QED
    BY <1>2, <1>3, <1>6, <1>7, <2>1, <2>2 DEF TypeInv
<1>9. ASSUME NEW j \in 1 .. 3
      PROVE  LET g == FieldOrder[j]
                 m == Len(msg[g])
             IN  /\ j < i => \E d \in 1 .. Len(subs') : OnlyIn(subs', g, d, Backwards(m, 0))
                 /\ j = i => OnlyIn(subs', g, to, Backwards(m, l - 1))
                 /\ j > i => \A d \in 1 .. Len(subs') : OnlyIn(subs', g, d, <<>>)
  <2> DEFINE g == FieldOrder[j]
             m == Len(msg[g])
  <2>1. g \in Field /\ (j # i => g # f)
    BY Order
  <2>2. /\ j < i => \E d \in 1 .. Len(subs) : OnlyIn(subs, g, d, Backwards(m, 0))
        /\ j = i => OnlyIn(subs, g, to, Backwards(m, l))
        /\ j > i => \A d \in 1 .. Len(subs) : OnlyIn(subs, g, d, <<>>)
    BY <1>0, <1>1 DEF FieldInv
  <2>3. ASSUME j < i
        PROVE  \E d \in 1 .. Len(subs') : OnlyIn(subs', g, d, Backwards(m, 0))
    <3> HIDE DEF g, m, f
    <3>1. PICK d \in 1 .. Len(subs) : OnlyIn(subs, g, d, Backwards(m, 0))
      BY <2>2, <2>3
    <3>2. OnlyIn(subs', g, d, Backwards(m, 0))
      BY <1>5, <1>7, <2>1, <2>3, <3>1
    <3>3. d \in 1 .. Len(subs')
      BY <3>2 DEF OnlyIn
    <3> QED
      BY <3>2, <3>3
  <2>4. ASSUME j = i
        PROVE  OnlyIn(subs', g, to, Backwards(m, l - 1))
    <3>1. g = f /\ m = n
      BY <2>4
    <3> HIDE DEF f, g, m, n
    <3>2. OnlyIn(subs', g, to, Append(Backwards(m, l), l))
      BY <1>5, <1>7, <2>1, <2>2, <2>4, <3>1
    <3>3. Append(Backwards(m, l), l) = Backwards(m, l - 1)
      BY <1>2, <3>1, OneMore
    <3> QED
      BY <3>2, <3>3
  <2>5. ASSUME j > i, NEW d \in 1 .. Len(subs')
        PROVE  OnlyIn(subs', g, d, <<>>)
    <3> HIDE DEF f, g
    <3>1. d \in 1 .. Len(kept)
      BY <1>7
    <3>2. OnlyIn(kept, g, d, <<>>)
      BY <1>5, <2>1, <2>2, <2>5, <3>1
    <3> QED
      BY <1>7, <2>1, <2>5, <3>2
  <2> QED
    BY <2>3, <2>4, <2>5
<1>10. FieldInv'
  BY <1>1, <1>3, <1>9 DEF FieldInv
<1>11. FirstInv'
  <2>1. CASE i = 1
    BY <1>0, <1>1, <1>3, <2>1 DEF FirstInv
  <2>2. CASE i # 1
    <3>1. PICK s : OnlyIn(subs, "events_log", 1, s)
      BY <1>0, <1>1, <2>2 DEF FirstInv
    <3>2. "events_log" \in Field /\ "events_log" # f
      <4>1. 1 \in 1 .. 3
        OBVIOUS
      <4> QED
        BY <2>2, <4>1, Order
    <3> HIDE DEF f
    <3>3. OnlyIn(subs', "events_log", 1, s)
      BY <1>5, <1>7, <3>1, <3>2
    <3> QED
      BY <1>1, <1>3, <2>2, <3>3 DEF FirstInv
  <2> QED
    BY <2>1, <2>2
<1> QED
  BY <1>8, <1>10, <1>11 DEF SplitInv

\* The next call of splitField.
LEMMA NextFieldInv ==
  ASSUME SplitInv, NextField
  PROVE  SplitInv'
<1>0. TypeInv /\ FieldInv /\ FirstInv
  BY DEF SplitInv
<1>1. PICK i \in 1 .. 3 : i = fieldNo
  BY <1>0, Order DEF TypeInv, NextField
<1>2. /\ left = 0 /\ fieldNo' = i + 1 /\ destination' = Len(subs)
      /\ left' = IF i < 3 THEN Len(msg[FieldOrder[i + 1]]) ELSE 0
      /\ UNCHANGED <<msg, subs, cumulative>>
  BY <1>1, Order DEF NextField
<1>3. /\ msg \in [Field -> Seq(Sizes)] /\ subs \in Seq(SubMessage)
      /\ Len(subs) \in Nat /\ destination \in 1 .. Len(subs)
  BY <1>0 DEF TypeInv
<1>4. Len(subs) \in 1 .. Len(subs)
  BY <1>3
<1>5. \A j \in 1 .. 3 : FieldOrder[j] \in Field /\ Len(msg[FieldOrder[j]]) \in Nat
  BY <1>3, Order
<1>6. TypeInv'
  <2>1. CASE i < 3
    <3>1. Current' = FieldOrder[i + 1] /\ i + 1 \in 1 .. 3
      BY <1>2, <2>1 DEF Current
    <3>2. left' = Len(msg'[Current']) /\ left' \in Nat
      BY <1>2, <1>5, <2>1, <3>1
    <3> QED
      BY <1>0, <1>2, <1>4, <3>1, <3>2 DEF TypeInv
  <2>2. CASE i = 3
    BY <1>0, <1>2, <1>4, <2>2 DEF TypeInv
  <2> QED
    BY <2>1, <2>2
<1>7. ASSUME NEW j \in 1 .. 3
      PROVE  LET g == FieldOrder[j]
                 m == Len(msg[g])
             IN  /\ j < i + 1 => \E d \in 1 .. Len(subs) : OnlyIn(subs, g, d, Backwards(m, 0))
                 /\ j = i + 1 => OnlyIn(subs, g, Len(subs), Backwards(m, left'))
                 /\ j > i + 1 => \A d \in 1 .. Len(subs) : OnlyIn(subs, g, d, <<>>)
  <2> DEFINE g == FieldOrder[j]
             m == Len(msg[g])
  <2>1. /\ j < i => \E d \in 1 .. Len(subs) : OnlyIn(subs, g, d, Backwards(m, 0))
        /\ j = i => OnlyIn(subs, g, destination, Backwards(m, 0))
        /\ j > i => \A d \in 1 .. Len(subs) : OnlyIn(subs, g, d, <<>>)
    BY <1>0, <1>1, <1>2 DEF FieldInv
  <2>2. ASSUME j = i + 1
        PROVE  Backwards(m, left') = <<>>
    <3>1. m \in Nat /\ left' = m
      BY <1>2, <1>5, <2>2
    <3> HIDE DEF m
    <3>2. Backwards(m, m) = [k \in 1 .. 0 |-> m + 1 - k]
      BY <3>1 DEF Backwards
    <3> QED
      BY <3>1, <3>2
  <2>3. j < i + 1 => j < i \/ j = i
    OBVIOUS
  <2> HIDE DEF g, m
  <2>4. j < i + 1 => \E d \in 1 .. Len(subs) : OnlyIn(subs, g, d, Backwards(m, 0))
    BY <1>3, <2>1, <2>3
  <2>5. j >= i + 1 => \A d \in 1 .. Len(subs) : OnlyIn(subs, g, d, <<>>)
    BY <2>1
  <2> QED
    BY <1>4, <2>2, <2>4, <2>5 DEF g, m
<1>8. FieldInv'
  BY <1>2, <1>7 DEF FieldInv
<1>9. \E s : OnlyIn(subs, "events_log", 1, s)
  <2>1. CASE i = 1
    <3>1. OnlyIn(subs, FieldOrder[1], destination, Backwards(Len(msg[FieldOrder[1]]), left))
      BY <1>0, <1>1, <2>1 DEF FieldInv
    <3> QED
      BY <1>0, <1>1, <2>1, <3>1, Order DEF FirstInv
  <2>2. CASE i # 1
    BY <1>0, <1>1, <2>2 DEF FirstInv
  <2> QED
    BY <2>1, <2>2
<1>10. FirstInv'
  BY <1>2, <1>9 DEF FirstInv
<1> QED
  BY <1>6, <1>8, <1>10 DEF SplitInv

\* Where the fields of the message are is an invariant.
THEOREM InvariantHolds == Spec => []SplitInv
<1>1. Init => SplitInv
  BY InitInv
<1>2. SplitInv /\ [Next]_vars => SplitInv'
  <2> SUFFICES ASSUME SplitInv, [Next]_vars
               PROVE  SplitInv'
    OBVIOUS
  <2>1. CASE MoveElement
    BY <2>1, MoveElementInv
  <2>2. CASE NextField
    BY <2>2, NextFieldInv
  <2>3. CASE UNCHANGED vars
    BY <2>3 DEF vars, SplitInv, TypeInv, FieldInv, FirstInv, Current
  <2> QED
    BY <2>1, <2>2, <2>3 DEF Next
<1> QED
  BY <1>1, <1>2, PTL DEF Spec

-----------------------------------------------------------------------------
(***************************************************************************)
(* What the queue holds.                                                   *)
(***************************************************************************)
\* The sub-messages up to one that has all there is of a field.
Joined(q, f, n) ==
  CHOOSE upTo : upTo = [k \in 0 .. n |-> IF k = 0 THEN <<>> ELSE upTo[k - 1] \o q[k][f]]

LEMMA JoinedIs ==
  ASSUME NEW q \in Seq(SubMessage), NEW f \in Field, NEW n \in 0 .. Len(q)
  PROVE  LET g == Joined(q, f, n)
         IN  g[0] = <<>> /\ \A k \in 1 .. n : g[k] = g[k - 1] \o q[k][f]
<1> DEFINE V == Seq(1 .. MaxElements)
           Eq(g, m) == g = [k \in 0 .. m |-> IF k = 0 THEN <<>> ELSE g[k - 1] \o q[k][f]]
           I == {m \in 0 .. n : \E g \in [0 .. m -> V] : Eq(g, m)}
<1>1. n \in Nat /\ <<>> \in V /\ \A k \in 1 .. n : q[k][f] \in V
  <2>1. n \in Nat /\ n <= Len(q)
    BY LenProperties
  <2>2. \A k \in 1 .. n : q[k] \in SubMessage
    BY <2>1, LenProperties
  <2> QED
    BY <2>1, <2>2 DEF SubMessage
<1>2. 0 \in I
  <2> DEFINE g == [k \in 0 .. 0 |-> <<>>]
  <2>1. g \in [0 .. 0 -> V] /\ \A k \in 0 .. 0 : k = 0
    BY <1>1
  <2>2. Eq(g, 0)
    BY <2>1
  <2>3. 0 \in 0 .. n
    BY <1>1
  <2> HIDE DEF g, Eq
  <2> QED
    BY <2>1, <2>2, <2>3
<1>3. ASSUME NEW m \in 1 .. n, m - 1 \in I
      PROVE  m \in I
  <2>1. PICK g \in [0 .. m - 1 -> V] : Eq(g, m - 1)
    BY <1>3
  <2> DEFINE h == [k \in 0 .. m |-> IF k = m THEN g[m - 1] \o q[m][f] ELSE g[k]]
  <2>2. m \in Nat /\ m - 1 \in 0 .. m - 1 /\ \A k \in 0 .. m : k = m \/ k \in 0 .. m - 1
    BY <1>1
  <2>3. g[m - 1] \o q[m][f] \in V
    <3>1. g[m - 1] \in V /\ q[m][f] \in V
      BY <1>1, <2>2
    <3> QED
      BY <3>1, ConcatProperties
  <2>4. h \in [0 .. m -> V]
    BY <2>2, <2>3
  <2>5. ASSUME NEW k \in 0 .. m
        PROVE  h[k] = IF k = 0 THEN <<>> ELSE h[k - 1] \o q[k][f]
    <3>1. CASE k = m
      <4>1. k # 0 /\ k - 1 \in 0 .. m /\ k - 1 # m
        BY <2>2, <3>1
      <4> QED
        BY <3>1, <4>1
    <3>2. CASE k # m
      <4>1. k \in 0 .. m - 1
        BY <2>2, <3>2
      <4>2. g[k] = IF k = 0 THEN <<>> ELSE g[k - 1] \o q[k][f]
        BY <2>1, <4>1
      <4>3. k # 0 => k - 1 \in 0 .. m /\ k - 1 # m
        BY <2>2, <4>1
      <4> QED
        BY <3>2, <4>2, <4>3
    <3> QED
      BY <3>1, <3>2
  <2>6. Eq(h, m)
    <3> HIDE DEF h
    <3> QED
      BY <2>4, <2>5
  <2> HIDE DEF h, Eq
  <2> QED
    BY <2>4, <2>6
<1> HIDE DEF I
<1>4. n \in I
  <2>1. \A m \in 0 .. n : m \in I
    BY <1>1, <1>2, <1>3, RunInduction
  <2> QED
    BY <1>1, <2>1
<1>5. \E g : Eq(g, n)
  BY <1>4 DEF I
<1> DEFINE sol == Joined(q, f, n)
<1>6. Eq(sol, n)
  BY <1>5 DEF Joined
<1> HIDE DEF sol
<1>7. sol[0] = <<>> /\ \A k \in 1 .. n : sol[k] = sol[k - 1] \o q[k][f]
  <2>1. 0 \in 0 .. n /\ \A k \in 1 .. n : k \in 0 .. n /\ k # 0
    BY <1>1
  <2>2. \A k \in 0 .. n : sol[k] = IF k = 0 THEN <<>> ELSE sol[k - 1] \o q[k][f]
    BY <1>6
  <2> QED
    BY <2>1, <2>2
<1> QED
  BY <1>7 DEF sol

LEMMA WholeField ==
  ASSUME NEW q \in Seq(SubMessage), NEW f \in Field, NEW d, NEW s, OnlyIn(q, f, d, s)
  PROVE  Joined(q, f, Len(q))[Len(q)] = s
<1> DEFINE n == Len(q)
           g == Joined(q, f, n)
           I == {k \in 0 .. n : g[k] = IF k < d THEN <<>> ELSE s}
<1>1. n \in Nat /\ n \in 0 .. n /\ d \in 1 .. n /\ q[d][f] = s
      /\ \A k \in 1 .. n : k # d => q[k][f] = <<>>
  BY LenProperties DEF OnlyIn
<1>2. g[0] = <<>> /\ \A k \in 1 .. n : g[k] = g[k - 1] \o q[k][f]
  BY <1>1, JoinedIs
<1>3. s \in Seq(1 .. MaxElements)
  <2>1. q[d] \in SubMessage
    BY <1>1, ElementOfSeq
  <2> QED
    BY <1>1, <2>1 DEF SubMessage
<1> HIDE DEF g, n
<1>4. 0 \in I
  BY <1>1, <1>2
<1>5. ASSUME NEW k \in 1 .. n, k - 1 \in I
      PROVE  k \in I
  <2>1. g[k - 1] = (IF k - 1 < d THEN <<>> ELSE s) /\ g[k] = g[k - 1] \o q[k][f]
    BY <1>2, <1>5
  <2>2. <<>> \o s = s /\ s \o <<>> = s /\ <<>> \o <<>> = <<>>
    BY <1>3, ConcatEmptySeq, EmptySeq
  <2>3. CASE k < d
    <3>1. g[k] = <<>>
      BY <1>1, <2>1, <2>2, <2>3
    <3> QED
      BY <1>1, <2>3, <3>1
  <2>4. CASE k = d
    <3>1. g[k - 1] = <<>> /\ q[k][f] = s
      BY <1>1, <2>1, <2>4
    <3>2. g[k] = s
      BY <2>1, <2>2, <3>1
    <3> QED
      BY <1>1, <2>4, <3>2
  <2>5. CASE k > d
    <3>1. g[k - 1] = s /\ q[k][f] = <<>>
      BY <1>1, <2>1, <2>5
    <3>2. g[k] = s
      BY <2>1, <2>2, <3>1
    <3> QED
      BY <1>1, <2>5, <3>2
  <2> QED
    BY <1>1, <2>3, <2>4, <2>5
<1> HIDE DEF I
<1>6. \A k \in 0 .. n : k \in I
  BY <1>1, <1>4, <1>5, RunInduction
<1>7. g[n] = s
  BY <1>1, <1>6 DEF I
<1> QED
  BY <1>7 DEF g, n

-----------------------------------------------------------------------------
(***************************************************************************)
(* What follows.                                                           *)
(***************************************************************************)
\* The variables keep their ranges: the pointer of splitField never leads to a
\* sub-message that is not there.
THEOREM TypeCorrect == Spec => []TypeOK
<1>1. SplitInv => TypeOK
  <2> SUFFICES ASSUME SplitInv
               PROVE  TypeOK
    OBVIOUS
  <2>1. TypeInv
    BY DEF SplitInv
  <2>2. left \in 0 .. MaxElements
    <3>1. fieldNo < 4 => Current \in Field
      BY <2>1, Order DEF TypeInv, Current
    <3>2. fieldNo < 4 => Len(msg[Current]) \in Nat /\ Len(msg[Current]) <= MaxElements
      BY <2>1, <3>1, LenProperties DEF TypeInv
    <3>3. MaxElements \in Nat /\ left \in Nat /\ fieldNo \in 1 .. 4
      BY <2>1, SizeAssumption DEF TypeInv
    <3> QED
      BY <2>1, <3>2, <3>3 DEF TypeInv
  <2> QED
    BY <2>1, <2>2, Order DEF TypeInv, TypeOK, SubMessage
<1> QED
  BY <1>1, InvariantHolds, PTL

\* The queue holds every element of the message once, and a field that is read
\* through the sub-messages in order comes backwards, however
\* SplitAllStatsMessageIntoQ cuts the message up.
THEOREM ContentIsKept == Spec => []ContentKept
<1>1. SplitInv => ContentKept
  <2> SUFFICES ASSUME SplitInv, Done, NEW f \in Field
               PROVE  Contents(f, Len(subs)) = [i \in 1 .. Len(msg[f]) |-> Len(msg[f]) + 1 - i]
    BY DEF ContentKept
  <2>1. TypeInv /\ FieldInv
    BY DEF SplitInv
  <2>2. subs \in Seq(SubMessage) /\ Len(msg[f]) \in Nat
    BY <2>1, LenProperties DEF TypeInv
  <2>3. PICK i \in 1 .. 3 : FieldOrder[i] = f
    BY Order
  <2>4. i < fieldNo
    BY <2>1, Order DEF TypeInv, Done
  <2>5. PICK d \in 1 .. Len(subs) : OnlyIn(subs, f, d, Backwards(Len(msg[f]), 0))
    BY <2>1, <2>3, <2>4 DEF FieldInv
  <2>6. Contents(f, Len(subs)) = Joined(subs, f, Len(subs))[Len(subs)]
    BY DEF Contents, Joined
  <2>7. Joined(subs, f, Len(subs))[Len(subs)] = Backwards(Len(msg[f]), 0)
    BY <2>2, <2>5, WholeField
  <2>8. Backwards(Len(msg[f]), 0) = [j \in 1 .. Len(msg[f]) |-> Len(msg[f]) + 1 - j]
    BY <2>2 DEF Backwards
  <2> QED
    BY <2>6, <2>7, <2>8
<1> QED
  BY <1>1, InvariantHolds, PTL

\* No log entry is in a later sub-message than a statistic or an event: splitField
\* keeps all of them in the first one, of which a shutdown does not lose any.
THEOREM LogEntriesComeFirst == Spec => []LogEntriesFirst
<1>1. SplitInv => LogEntriesFirst
  <2> SUFFICES ASSUME SplitInv, NEW i \in DOMAIN subs, NEW j \in DOMAIN subs, i < j,
                      subs[j]["events_log"] # <<>>, NEW f \in Field \ {"events_log"}
               PROVE  subs[i][f] = <<>>
    BY DEF LogEntriesFirst
  <2>1. TypeInv /\ FieldInv /\ FirstInv
    BY DEF SplitInv
  <2>2. i \in 1 .. Len(subs) /\ j \in 1 .. Len(subs) /\ j # 1 /\ Len(subs) \in Nat
    BY <2>1, LenProperties DEF TypeInv
  <2>3. CASE fieldNo = 1
    <3>1. PICK k \in 1 .. 3 : FieldOrder[k] = f
      BY Order
    <3>2. k > 1
      BY <3>1, Order
    <3>3. OnlyIn(subs, f, i, <<>>)
      BY <2>1, <2>2, <2>3, <3>1, <3>2 DEF FieldInv
    <3> QED
      BY <3>3 DEF OnlyIn
  <2>4. CASE fieldNo # 1
    <3>1. PICK s : OnlyIn(subs, "events_log", 1, s)
      BY <2>1, <2>4 DEF FirstInv
    <3>2. subs[j]["events_log"] = <<>>
      BY <2>2, <3>1 DEF OnlyIn
    <3> QED
      BY <3>2
  <2> QED
    BY <2>3, <2>4
<1> QED
  BY <1>1, InvariantHolds, PTL

-----------------------------------------------------------------------------
(***************************************************************************)
(* The division that splitField makes, of a sequence of sizes.             *)
(***************************************************************************)
\* The first n of the sizes s have been taken: the messages sealed so far end at
\* "ends", the last of them at l, and the sizes after l add up to "size".  No
\* division has ended fewer groups by then.
Greedy(s, n, ends, l, sealed, size) ==
  /\ ends \in SUBSET (1 .. n) /\ l \in 0 .. n /\ (n > 0 => l < n)
  /\ l \in ends \cup {0} /\ \A e \in ends : e <= l
  /\ sealed \in Nat /\ Cardinality(ends) = sealed
  /\ size = SumOver(s, l + 1 .. n)
  /\ n = l + 1 \/ size <= BytesPerMessage
  /\ Fits(s, ends)
  /\ \A other \in Divisions(s) : Cardinality(other \cap (1 .. l)) >= sealed

LEMMA SumOfIs ==
  ASSUME NEW s, NEW first, NEW last
  PROVE  SumOf(s, first, last) = SumOver(s, first .. last)
BY DEF SumOf, SumOver

LEMMA PartOfInterval ==
  ASSUME NEW n \in Nat, NEW A \in SUBSET (1 .. n)
  PROVE  IsFiniteSet(A) /\ Cardinality(A) \in Nat
<1>1. IsFiniteSet(1 .. n)
  BY FS_Interval
<1>2. IsFiniteSet(A)
  BY <1>1, FS_Subset
<1> QED
  BY <1>2, FS_CardinalityType

LEMMA SmallerPart ==
  ASSUME NEW n \in Nat, NEW A \in SUBSET (1 .. n), NEW B \in SUBSET A, B # A
  PROVE  Cardinality(B) + 1 <= Cardinality(A)
<1>1. IsFiniteSet(A) /\ Cardinality(A) \in Nat
  BY PartOfInterval
<1>2. Cardinality(B) \in Nat
  <2>1. B \in SUBSET (1 .. n)
    OBVIOUS
  <2> QED
    BY <2>1, PartOfInterval
<1>3. Cardinality(B) <= Cardinality(A) /\ Cardinality(B) # Cardinality(A)
  BY <1>1, FS_Subset
<1> QED
  BY <1>1, <1>2, <1>3

LEMMA SumOfSizes ==
  ASSUME NEW s \in Seq(Nat), NEW a \in Nat \ {0}, NEW b \in Nat, b <= Len(s)
  PROVE  /\ SumOver(s, a .. b) \in Nat
         /\ a <= b => SumOver(s, a .. b) = SumOver(s, a .. b - 1) + s[b]
<1>1. IsFiniteSet(a .. b) /\ \A x \in a .. b : s[x] \in Nat
  <2>1. \A x \in a .. b : x \in 1 .. Len(s)
    BY LenProperties
  <2> QED
    <3>1. IsFiniteSet(a .. b)
      BY FS_Interval
    <3> QED
      BY <2>1, <3>1, ElementOfSeq
<1>2. SumOver(s, a .. b) \in Nat
  BY <1>1, SumNat
<1>3. ASSUME a <= b
      PROVE  SumOver(s, a .. b) = SumOver(s, a .. b - 1) + s[b]
  <2> DEFINE n == b - a
  <2>1. n \in Nat /\ a + n = b /\ a + n - 1 = b - 1 /\ a \in Int
    BY <1>3
  <2> HIDE DEF n
  <2>2. \A x \in a .. a + n : s[x] \in Int
    BY <1>1, <2>1
  <2>3. SumOver(s, a .. a + n) = SumOver(s, a .. a + n - 1) + s[a + n]
    BY <2>1, <2>2, SumLonger
  <2> QED
    BY <2>1, <2>3
<1> QED
  BY <1>2, <1>3

\* Before anything was taken.
LEMMA GreedyStart ==
  ASSUME NEW s \in Seq(Nat)
  PROVE  Greedy(s, 0, {}, 0, 0, 0)
<1>1. SumOver(s, 0 + 1 .. 0) = 0
  <2>1. 0 + 1 .. 0 = {}
    OBVIOUS
  <2> QED
    BY <2>1, SumEmpty
<1>2. Fits(s, {})
  BY DEF Fits, Group
<1>3. ASSUME NEW other \in Divisions(s)
      PROVE  Cardinality(other \cap (1 .. 0)) >= 0
  <2>1. other \cap (1 .. 0) = {}
    OBVIOUS
  <2> QED
    BY <2>1, FS_EmptySet
<1>4. Cardinality({}) = 0
  BY FS_EmptySet
<1>5. 0 \in Nat /\ {} \in SUBSET (1 .. 0) /\ 0 \in 0 .. 0
  OBVIOUS
<1> QED
  BY <1>1, <1>2, <1>3, <1>4, <1>5, SizeAssumption DEF Greedy

\* The message that is being filled would fit too, as the last of them.
LEMMA GreedyGroup ==
  ASSUME NEW s \in Seq(Nat), NEW n \in Nat \ {0}, n <= Len(s),
         NEW ends, NEW l, NEW sealed, NEW size, Greedy(s, n, ends, l, sealed, size)
  PROVE  /\ ends \cup {n} \in SUBSET (1 .. n)
         /\ Fits(s, ends \cup {n})
         /\ Cardinality(ends \cup {n}) = sealed + 1
<1>1. /\ ends \in SUBSET (1 .. n) /\ l \in Nat /\ l < n
      /\ l \in ends \cup {0} /\ \A e \in ends : e \in Nat /\ e <= l
      /\ Cardinality(ends) = sealed
      /\ size = SumOver(s, l + 1 .. n)
      /\ n = l + 1 \/ size <= BytesPerMessage
      /\ Fits(s, ends)
  BY DEF Greedy
<1> DEFINE more == ends \cup {n}
<1>2. ASSUME NEW first \in 1 .. Len(s), NEW last \in 1 .. Len(s), Group(more, first, last)
      PROVE  first = last \/ SumOf(s, first, last) <= BytesPerMessage
  <2>1. /\ last \in more /\ first <= last /\ first - 1 \in more \cup {0}
        /\ \A k \in first .. last - 1 : k \notin more
    BY <1>2 DEF Group
  <2>2. first \in Nat /\ last \in Nat /\ last <= n
    BY <1>1, <2>1, LenProperties
  <2>3. first - 1 \in ends \cup {0}
    BY <2>1, <2>2
  <2>4. CASE last = n
    <3>1. first - 1 <= l
      BY <1>1, <2>3
    <3>2. ~(first - 1 < l)
      <4>1. ASSUME first - 1 < l
            PROVE  FALSE
        <5>1. l \in ends /\ l \in first .. n - 1
          BY <1>1, <2>2, <4>1
        <5> QED
          BY <2>1, <2>4, <5>1
      <4> QED
        BY <4>1
    <3>3. first = l + 1
      BY <1>1, <2>2, <3>1, <3>2
    <3> QED
      BY <1>1, <2>4, <3>3, SumOfIs
  <2>5. CASE last # n
    <3>1. Group(ends, first, last)
      BY <2>1, <2>3, <2>5 DEF Group
    <3> QED
      BY <1>1, <3>1 DEF Fits
  <2> QED
    BY <2>4, <2>5
<1>3. Fits(s, more)
  <2> HIDE DEF more
  <2> QED
    BY <1>2 DEF Fits
<1>4. more \in SUBSET (1 .. n)
  BY <1>1
<1>5. Cardinality(more) = sealed + 1
  <2>1. n \notin ends
    BY <1>1
  <2>2. IsFiniteSet(ends)
    BY <1>1, PartOfInterval
  <2> QED
    BY <1>1, <2>1, <2>2, FS_AddElement
<1> QED
  BY <1>3, <1>4, <1>5

\* A division ends a group between the last sealed message and the next.
LEMMA SomeGroupEnds ==
  ASSUME NEW s \in Seq(Nat), NEW n \in Nat, n < Len(s), NEW l \in Nat, l < n,
         SumOver(s, l + 1 .. n) + s[n + 1] > BytesPerMessage,
         NEW other \in Divisions(s)
  PROVE  \E e \in other : l < e /\ e <= n
<1> SUFFICES ASSUME \A e \in other : ~(l < e /\ e <= n)
             PROVE  FALSE
  OBVIOUS
<1> DEFINE N == Len(s)
<1>1. /\ N \in Nat /\ other \in SUBSET (1 .. N) /\ N \in other /\ Fits(s, other)
      /\ \A x \in 1 .. N : s[x] \in Nat
  BY LenProperties, ElementOfSeq DEF Divisions
<1> HIDE DEF N
<1>2. PICK last \in other : n < last /\ \A k \in n + 1 .. last - 1 : k \notin other
  <2> DEFINE A == {k \in 1 .. N : k > n /\ \A m \in n + 1 .. k - 1 : m \notin other}
             last == Max(A)
  <2>1. n + 1 \in A
    BY <1>1 DEF N
  <2>2. last \in A /\ \A k \in A : last >= k
    <3>1. A \in SUBSET (1 .. N) /\ A # {}
      BY <2>1
    <3> HIDE DEF A
    <3> QED
      BY <1>1, <3>1, MaxOfPart
  <2> HIDE DEF last
  <2>3. last \in other
    <3>1. ASSUME last \notin other
          PROVE  FALSE
      <4>1. last \in 1 .. N /\ last # N /\ last > n
        BY <1>1, <2>2, <3>1
      <4>2. ASSUME NEW m \in n + 1 .. last
            PROVE  m \notin other
        BY <2>2, <3>1, <4>1, <4>2
      <4>3. last + 1 \in A
        BY <1>1, <4>1, <4>2
      <4> QED
        BY <2>2, <4>1, <4>3
    <3> QED
      BY <3>1
  <2> QED
    BY <2>2, <2>3
<1>3. PICK before \in 0 .. l : /\ before \in other \cup {0}
                               /\ \A k \in before + 1 .. l : k \notin other
  <2> DEFINE A == other \cap (1 .. l)
  <2>1. CASE A = {}
    <3>1. 0 \in 0 .. l /\ 0 \in other \cup {0}
      OBVIOUS
    <3>2. \A k \in 0 + 1 .. l : k \notin other
      <4>1. 0 + 1 .. l = 1 .. l
        OBVIOUS
      <4> QED
        BY <2>1, <4>1
    <3> HIDE DEF A
    <3> QED
      BY <3>1, <3>2
  <2>2. CASE A # {}
    <3>1. A \in SUBSET (1 .. l)
      OBVIOUS
    <3>2. PICK top \in A : \A y \in A : top >= y
      <4> HIDE DEF A
      <4> QED
        BY <2>2, <3>1, MaxOfPart
    <3>3. top \in 0 .. l /\ top \in other \cup {0}
      OBVIOUS
    <3>4. ASSUME NEW k \in top + 1 .. l
          PROVE  k \notin other
      <4>1. k \in 1 .. l /\ k > top
        OBVIOUS
      <4> QED
        BY <3>2, <3>3, <4>1
    <3> QED
      BY <3>3, <3>4
  <2> QED
    BY <2>1, <2>2
<1>4. Group(other, before + 1, last) /\ before + 1 \in 1 .. N /\ last \in 1 .. N
  <2>1. ASSUME NEW k \in before + 1 .. last - 1
        PROVE  k \notin other
    <3>1. last \in Nat
      BY <1>1
    <3>2. k \in before + 1 .. l \/ (l < k /\ k <= n) \/ k \in n + 1 .. last - 1
      BY <3>1
    <3> QED
      BY <1>2, <1>3, <3>2
  <2>2. (before + 1) - 1 = before /\ last \in 1 .. N /\ before + 1 \in 1 .. N /\ before + 1 <= last
    BY <1>1, <1>2
  <2> QED
    BY <1>2, <1>3, <2>1, <2>2 DEF Group
<1>5. before + 1 # last
  BY <1>1, <1>2
<1>6. SumOver(s, before + 1 .. last) <= BytesPerMessage
  BY <1>1, <1>4, <1>5, SumOfIs DEF Fits, N
<1>7. SumOver(s, l + 1 .. n + 1) <= SumOver(s, before + 1 .. last)
  <2> DEFINE S == before + 1 .. last
             A == l + 1 .. n + 1
  <2>1. IsFiniteSet(S) /\ A \in SUBSET S /\ \A x \in S : s[x] \in Nat
    <3>1. before \in Int /\ last \in Int /\ last <= N
      BY <1>1
    <3>2. IsFiniteSet(S)
      BY <3>1, FS_Interval
    <3>3. A \in SUBSET S
      BY <1>2, <3>1
    <3>4. \A x \in S : x \in 1 .. N
      BY <1>1, <3>1
    <3> QED
      BY <1>1, <3>2, <3>3, <3>4
  <2> HIDE DEF S, A
  <2>2. SumOver(s, A) <= SumOver(s, S)
    BY <2>1, SumSubset
  <2> QED
    BY <2>2 DEF S, A
<1>8. SumOver(s, l + 1 .. n + 1) = SumOver(s, l + 1 .. n) + s[n + 1]
  <2>1. l + 1 \in Nat \ {0} /\ n + 1 \in Nat /\ n + 1 <= Len(s) /\ l + 1 <= n + 1 /\ (n + 1) - 1 = n
    BY LenProperties
  <2> QED
    BY <2>1, SumOfSizes
<1>9. /\ SumOver(s, l + 1 .. n + 1) \in Nat /\ SumOver(s, before + 1 .. last) \in Nat
      /\ BytesPerMessage \in Nat
  <2>1. l + 1 \in Nat \ {0} /\ n + 1 \in Nat /\ n + 1 <= Len(s)
    BY LenProperties
  <2>2. before + 1 \in Nat \ {0} /\ last \in Nat /\ last <= Len(s)
    BY <1>1, <1>4 DEF N
  <2> QED
    BY <2>1, <2>2, SumOfSizes, SizeAssumption
<1> QED
  BY <1>6, <1>7, <1>8, <1>9

\* An element that does not fit seals the message.
LEMMA GreedySeals ==
  ASSUME NEW s \in Seq(Nat), NEW n \in Nat, n < Len(s),
         NEW ends, NEW l, NEW sealed, NEW size, Greedy(s, n, ends, l, sealed, size),
         size # 0, size + s[n + 1] > BytesPerMessage
  PROVE  Greedy(s, n + 1, ends \cup {n}, n, sealed + 1, s[n + 1])
<1>1. /\ ends \in SUBSET (1 .. n) /\ l \in 0 .. n /\ (n > 0 => l < n)
      /\ \A e \in ends : e \in Nat /\ e <= l
      /\ sealed \in Nat /\ size = SumOver(s, l + 1 .. n)
      /\ \A other \in Divisions(s) : Cardinality(other \cap (1 .. l)) >= sealed
  BY DEF Greedy
<1>2. n # 0 /\ l \in Nat /\ l < n
  <2>1. ASSUME n = 0
        PROVE  FALSE
    <3>1. l + 1 .. n = {}
      BY <1>1, <2>1
    <3> QED
      BY <1>1, <3>1, SumEmpty
  <2> QED
    BY <1>1, <2>1
<1> DEFINE more == ends \cup {n}
<1>3. more \in SUBSET (1 .. n) /\ Fits(s, more) /\ Cardinality(more) = sealed + 1
  <2>1. n \in Nat \ {0} /\ n <= Len(s)
    BY <1>2, LenProperties
  <2> QED
    BY <2>1, GreedyGroup
<1>4. n \in more
  OBVIOUS
<1> HIDE DEF more
<1>5. SumOver(s, n + 1 .. n + 1) = s[n + 1]
  <2>1. SumOver(s, n + 1 .. n + 1) = SumOver(s, n + 1 .. n) + s[n + 1]
    <3>1. n + 1 \in Nat \ {0} /\ n + 1 \in Nat /\ n + 1 <= Len(s) /\ (n + 1) - 1 = n
          /\ n + 1 <= n + 1
      BY LenProperties
    <3> QED
      BY <3>1, SumOfSizes
  <2>2. n + 1 .. n = {} /\ s[n + 1] \in Nat
    BY LenProperties, ElementOfSeq
  <2> QED
    BY <2>1, <2>2, SumEmpty
<1>6. ASSUME NEW other \in Divisions(s)
      PROVE  Cardinality(other \cap (1 .. n)) >= sealed + 1
  <2>1. PICK e \in other : l < e /\ e <= n
    BY <1>1, <1>2, SomeGroupEnds
  <2> DEFINE A == other \cap (1 .. l)
             B == other \cap (1 .. n)
  <2>2. other \in SUBSET (1 .. Len(s)) /\ Len(s) \in Nat
    BY LenProperties DEF Divisions
  <2>3. A \in SUBSET B /\ A # B /\ B \in SUBSET (1 .. n) /\ A \in SUBSET (1 .. n)
    BY <1>2, <2>1, <2>2
  <2> HIDE DEF A, B
  <2>4. Cardinality(A) + 1 <= Cardinality(B) /\ Cardinality(A) \in Nat /\ Cardinality(B) \in Nat
    BY <2>3, PartOfInterval, SmallerPart
  <2>5. Cardinality(A) >= sealed
    BY <1>1 DEF A
  <2>6. Cardinality(B) >= sealed + 1
    BY <1>1, <2>4, <2>5
  <2> QED
    BY <2>6 DEF B
<1>7. /\ more \in SUBSET (1 .. n + 1) /\ n \in 0 .. n + 1 /\ n < n + 1
      /\ \A e \in more : e <= n
      /\ sealed + 1 \in Nat
  BY <1>1, <1>3
<1> QED
  BY <1>3, <1>4, <1>5, <1>6, <1>7 DEF Greedy, more

\* One that does goes into it.
LEMMA GreedyAdds ==
  ASSUME NEW s \in Seq(Nat \ {0}), NEW n \in Nat, n < Len(s),
         NEW ends, NEW l, NEW sealed, NEW size, Greedy(s, n, ends, l, sealed, size),
         size = 0 \/ size + s[n + 1] <= BytesPerMessage
  PROVE  Greedy(s, n + 1, ends, l, sealed, size + s[n + 1])
<1>0. s \in Seq(Nat) /\ Len(s) \in Nat /\ \A x \in 1 .. Len(s) : s[x] \in Nat \ {0}
  BY LenProperties, ElementOfSeq
<1>1. /\ ends \in SUBSET (1 .. n) /\ l \in 0 .. n /\ (n > 0 => l < n)
      /\ sealed \in Nat /\ size = SumOver(s, l + 1 .. n)
  BY DEF Greedy
<1>2. SumOver(s, l + 1 .. n + 1) = size + s[n + 1] /\ size \in Nat
  <2>1. l + 1 \in Nat \ {0} /\ n + 1 <= Len(s) /\ (n + 1) - 1 = n /\ l + 1 <= n + 1 /\ n <= Len(s)
    BY <1>0, <1>1
  <2> QED
    BY <1>0, <1>1, <2>1, SumOfSizes
<1>3. n + 1 = l + 1 \/ size + s[n + 1] <= BytesPerMessage
  <2>1. ASSUME size = 0, n # l
        PROVE  FALSE
    <3>1. n > 0 /\ l + 1 <= n /\ l + 1 \in Nat \ {0} /\ n <= Len(s) /\ n - 1 \in Nat /\ n - 1 <= Len(s)
      BY <1>0, <1>1, <2>1
    <3>2. SumOver(s, l + 1 .. n) = SumOver(s, l + 1 .. n - 1) + s[n]
          /\ SumOver(s, l + 1 .. n - 1) \in Nat
      BY <1>0, <3>1, SumOfSizes
    <3>3. s[n] \in Nat \ {0}
      BY <1>0, <3>1
    <3> QED
      BY <1>1, <2>1, <3>2, <3>3
  <2> QED
    BY <2>1
<1>4. ends \in SUBSET (1 .. n + 1) /\ l \in 0 .. n + 1 /\ l < n + 1
  BY <1>1
<1> QED
  BY <1>1, <1>2, <1>3, <1>4 DEF Greedy

\* With the last message, they are as few as can be.
LEMMA GreedyEnd ==
  ASSUME NEW s \in Seq(Nat), Len(s) # 0,
         NEW ends, NEW l, NEW sealed, NEW size, Greedy(s, Len(s), ends, l, sealed, size)
  PROVE  /\ \E other \in Divisions(s) : Cardinality(other) = sealed + 1
         /\ \A other \in Divisions(s) : Cardinality(other) >= sealed + 1
<1> DEFINE n == Len(s)
<1>1. n \in Nat \ {0} /\ l \in 0 .. n /\ l < n /\ sealed \in Nat
      /\ \A other \in Divisions(s) : Cardinality(other \cap (1 .. l)) >= sealed
  BY LenProperties DEF Greedy
<1>2. \E other \in Divisions(s) : Cardinality(other) = sealed + 1
  <2> DEFINE more == ends \cup {n}
  <2>1. more \in SUBSET (1 .. n) /\ Fits(s, more) /\ Cardinality(more) = sealed + 1
    <3>1. n \in Nat \ {0} /\ n <= Len(s) /\ Greedy(s, n, ends, l, sealed, size)
      BY <1>1
    <3> HIDE DEF n
    <3> QED
      BY <3>1, GreedyGroup
  <2>2. more \in Divisions(s)
    BY <2>1 DEF Divisions
  <2> QED
    BY <2>1, <2>2
<1>3. ASSUME NEW other \in Divisions(s)
      PROVE  Cardinality(other) >= sealed + 1
  <2> DEFINE A == other \cap (1 .. l)
  <2>1. n \in other /\ other \in SUBSET (1 .. n)
    BY DEF Divisions
  <2>2. A \in SUBSET other /\ A # other /\ A \in SUBSET (1 .. n)
    BY <1>1, <2>1
  <2>3. Cardinality(A) >= sealed
    BY <1>1
  <2> HIDE DEF A, n
  <2>4. /\ Cardinality(A) + 1 <= Cardinality(other)
        /\ Cardinality(A) \in Nat /\ Cardinality(other) \in Nat
    BY <1>1, <2>1, <2>2, PartOfInterval, SmallerPart
  <2> QED
    BY <1>1, <2>3, <2>4
<1> QED
  BY <1>2, <1>3

-----------------------------------------------------------------------------
(***************************************************************************)
(* The sub-messages are that division.                                     *)
(***************************************************************************)
Field1 == Len(msg[FieldOrder[1]])
Field2 == Len(msg[FieldOrder[2]])
Field3 == Len(msg[FieldOrder[3]])

\* The elements of the fields before the i-th, and those taken so far.
Before(i) ==
  CASE i = 1 -> 0
    [] i = 2 -> Field1
    [] i = 3 -> Field1 + Field2
    [] OTHER -> Field1 + Field2 + Field3

SoFar == IF fieldNo = 4 THEN Before(4) ELSE Before(fieldNo + 1) - left

GreedyInv == \E ends, l : Greedy(Taken, SoFar, ends, l, Len(subs) - 1, cumulative)

\* Taken is the fields one after the other, each backwards.
LEMMA ReverseIs ==
  ASSUME NEW S, NEW s \in Seq(S)
  PROVE  /\ Reverse(s) \in Seq(S) /\ Len(Reverse(s)) = Len(s) /\ Len(s) \in Nat
         /\ \A j \in 1 .. Len(s) : Reverse(s)[j] = s[Len(s) + 1 - j]
<1> DEFINE n == Len(s)
<1>1. n \in Nat /\ \A j \in 1 .. n : s[j] \in S
  BY LenProperties, ElementOfSeq
<1>2. \A j \in 1 .. n : (n - j) + 1 \in 1 .. n /\ (n - j) + 1 = n + 1 - j
  BY <1>1
<1>3. Reverse(s) = [j \in 1 .. n |-> s[(n - j) + 1]]
  BY DEF Reverse
<1> HIDE DEF n
<1>4. Reverse(s) \in [1 .. n -> S] /\ \A j \in 1 .. n : Reverse(s)[j] = s[n + 1 - j]
  BY <1>1, <1>2, <1>3
<1>5. Reverse(s) \in Seq(S) /\ Len(Reverse(s)) = n
  BY <1>1, <1>4
<1> QED
  BY <1>1, <1>4, <1>5 DEF n

LEMMA TakenIs ==
  ASSUME msg \in [Field -> Seq(Sizes)]
  PROVE  /\ {Field1, Field2, Field3} \subseteq Nat
         /\ Taken \in Seq(Sizes) /\ Len(Taken) = Before(4)
         /\ \A j \in 1 .. Field1 : Taken[j] = msg[FieldOrder[1]][Field1 + 1 - j]
         /\ \A j \in 1 .. Field2 : Taken[Field1 + j] = msg[FieldOrder[2]][Field2 + 1 - j]
         /\ \A j \in 1 .. Field3 :
              Taken[Field1 + Field2 + j] = msg[FieldOrder[3]][Field3 + 1 - j]
<1> DEFINE a == Reverse(msg[FieldOrder[1]])
           b == Reverse(msg[FieldOrder[2]])
           c == Reverse(msg[FieldOrder[3]])
<1>1. \A i \in 1 .. 3 : msg[FieldOrder[i]] \in Seq(Sizes)
  BY Order
<1>2. /\ a \in Seq(Sizes) /\ Len(a) = Field1 /\ Field1 \in Nat
      /\ \A j \in 1 .. Field1 : a[j] = msg[FieldOrder[1]][Field1 + 1 - j]
  BY <1>1, ReverseIs DEF Field1
<1>3. /\ b \in Seq(Sizes) /\ Len(b) = Field2 /\ Field2 \in Nat
      /\ \A j \in 1 .. Field2 : b[j] = msg[FieldOrder[2]][Field2 + 1 - j]
  BY <1>1, ReverseIs DEF Field2
<1>4. /\ c \in Seq(Sizes) /\ Len(c) = Field3 /\ Field3 \in Nat
      /\ \A j \in 1 .. Field3 : c[j] = msg[FieldOrder[3]][Field3 + 1 - j]
  BY <1>1, ReverseIs DEF Field3
<1>5. Taken = (a \o b) \o c
  BY DEF Taken
<1>6. Before(4) = Field1 + Field2 + Field3
  BY DEF Before
<1> HIDE DEF a, b, c
<1>7. /\ a \o b \in Seq(Sizes) /\ Len(a \o b) = Field1 + Field2
      /\ \A j \in 1 .. Field1 : (a \o b)[j] = a[j]
      /\ \A j \in 1 .. Field2 : (a \o b)[Field1 + j] = b[j]
  <2>1. \A j \in 1 .. Field1 + Field2 :
          (a \o b)[j] = IF j <= Field1 THEN a[j] ELSE b[j - Field1]
    BY <1>2, <1>3, ConcatProperties
  <2>2. \A j \in 1 .. Field1 : (a \o b)[j] = a[j]
    BY <1>2, <1>3, <2>1
  <2>3. ASSUME NEW j \in 1 .. Field2
        PROVE  (a \o b)[Field1 + j] = b[j]
    <3>1. Field1 + j \in 1 .. Field1 + Field2 /\ ~(Field1 + j <= Field1)
          /\ (Field1 + j) - Field1 = j
      BY <1>2, <1>3
    <3> QED
      BY <2>1, <3>1
  <2> QED
    BY <1>2, <1>3, <2>2, <2>3, ConcatProperties
<1> DEFINE d == a \o b
<1> HIDE DEF d
<1>8. /\ d \in Seq(Sizes) /\ Len(d) = Field1 + Field2
      /\ \A j \in 1 .. Field1 : d[j] = a[j]
      /\ \A j \in 1 .. Field2 : d[Field1 + j] = b[j]
      /\ Taken = d \o c
  BY <1>5, <1>7 DEF d
<1>9. /\ Taken \in Seq(Sizes) /\ Len(Taken) = Field1 + Field2 + Field3
      /\ \A j \in 1 .. Field1 + Field2 + Field3 :
           Taken[j] = IF j <= Field1 + Field2 THEN d[j] ELSE c[j - (Field1 + Field2)]
  <2>1. /\ d \o c \in Seq(Sizes) /\ Len(d \o c) = Len(d) + Len(c)
        /\ \A j \in 1 .. Len(d) + Len(c) :
             (d \o c)[j] = IF j <= Len(d) THEN d[j] ELSE c[j - Len(d)]
    BY <1>4, <1>8, ConcatProperties
  <2> QED
    BY <1>4, <1>8, <2>1
<1>10. ASSUME NEW j \in 1 .. Field1
       PROVE  Taken[j] = msg[FieldOrder[1]][Field1 + 1 - j]
  <2>1. j \in 1 .. Field1 + Field2 + Field3 /\ j <= Field1 + Field2
    BY <1>2, <1>3, <1>4
  <2> QED
    BY <1>2, <1>8, <1>9, <2>1
<1>11. ASSUME NEW j \in 1 .. Field2
       PROVE  Taken[Field1 + j] = msg[FieldOrder[2]][Field2 + 1 - j]
  <2>1. Field1 + j \in 1 .. Field1 + Field2 + Field3 /\ Field1 + j <= Field1 + Field2
    BY <1>2, <1>3, <1>4
  <2> QED
    BY <1>3, <1>8, <1>9, <2>1
<1>12. ASSUME NEW j \in 1 .. Field3
       PROVE  Taken[Field1 + Field2 + j] = msg[FieldOrder[3]][Field3 + 1 - j]
  <2>1. /\ Field1 + Field2 + j \in 1 .. Field1 + Field2 + Field3
        /\ ~(Field1 + Field2 + j <= Field1 + Field2)
        /\ (Field1 + Field2 + j) - (Field1 + Field2) = j
    BY <1>2, <1>3, <1>4
  <2> QED
    BY <1>4, <1>9, <2>1
<1> QED
  BY <1>2, <1>3, <1>4, <1>6, <1>9, <1>10, <1>11, <1>12

LEMMA SizesArePositive ==
  ASSUME NEW s \in Seq(Sizes)
  PROVE  s \in Seq(Nat) /\ s \in Seq(Nat \ {0})
<1>1. Len(s) \in Nat /\ s \in [1 .. Len(s) -> Sizes]
  BY LenProperties
<1>2. s \in [1 .. Len(s) -> Nat] /\ s \in [1 .. Len(s) -> Nat \ {0}]
  BY <1>1, SizeAssumption
<1> QED
  BY <1>1, <1>2

\* The next element to be taken is the one that splitField looks at.
LEMMA NextTaken ==
  ASSUME TypeInv
  PROVE  /\ SoFar \in Nat /\ SoFar <= Len(Taken) /\ Taken \in Seq(Sizes)
         /\ left > 0 => SoFar < Len(Taken) /\ Taken[SoFar + 1] = msg[Current][left]
         /\ fieldNo = 4 => SoFar = Len(Taken)
<1>1. /\ Field1 \in Nat /\ Field2 \in Nat /\ Field3 \in Nat
      /\ Taken \in Seq(Sizes) /\ Len(Taken) = Field1 + Field2 + Field3
      /\ \A j \in 1 .. Field1 : Taken[j] = msg[FieldOrder[1]][Field1 + 1 - j]
      /\ \A j \in 1 .. Field2 : Taken[Field1 + j] = msg[FieldOrder[2]][Field2 + 1 - j]
      /\ \A j \in 1 .. Field3 :
           Taken[Field1 + Field2 + j] = msg[FieldOrder[3]][Field3 + 1 - j]
  BY TakenIs DEF TypeInv, Before
<1>2. fieldNo \in 1 .. 4 /\ left \in Nat /\ (fieldNo = 4 => left = 0)
  BY DEF TypeInv
<1>3. CASE fieldNo = 4
  <2>1. SoFar = Field1 + Field2 + Field3
    BY <1>3 DEF SoFar, Before
  <2> QED
    BY <1>1, <1>2, <1>3, <2>1
<1>4. CASE fieldNo = 1
  <2>1. Current = FieldOrder[1] /\ left <= Field1
    BY <1>4 DEF TypeInv, Current, Field1
  <2>2. SoFar = Field1 - left
    BY <1>4 DEF SoFar, Before
  <2>3. left > 0 => SoFar + 1 \in 1 .. Field1 /\ Field1 + 1 - (SoFar + 1) = left
    BY <1>1, <1>2, <2>1, <2>2
  <2> QED
    BY <1>1, <1>2, <1>4, <2>1, <2>2, <2>3
<1>5. CASE fieldNo = 2
  <2>1. Current = FieldOrder[2] /\ left <= Field2
    BY <1>5 DEF TypeInv, Current, Field2
  <2>2. SoFar = (Field1 + Field2) - left
    BY <1>5 DEF SoFar, Before
  <2> DEFINE j == Field2 - left + 1
  <2>3. left > 0 => j \in 1 .. Field2 /\ Field2 + 1 - j = left /\ SoFar + 1 = Field1 + j
    <3>1. left > 0 => j \in 1 .. Field2
      BY <1>1, <1>2, <2>1
    <3>2. Field2 + 1 - j = left
      BY <1>1, <1>2
    <3>3. SoFar + 1 = Field1 + j
      BY <1>1, <1>2, <2>2
    <3> QED
      BY <3>1, <3>2, <3>3
  <2> HIDE DEF j
  <2> QED
    BY <1>1, <1>2, <1>5, <2>1, <2>2, <2>3
<1>6. CASE fieldNo = 3
  <2>1. Current = FieldOrder[3] /\ left <= Field3
    BY <1>6 DEF TypeInv, Current, Field3
  <2>2. SoFar = (Field1 + Field2 + Field3) - left
    BY <1>6 DEF SoFar, Before
  <2> DEFINE j == Field3 - left + 1
  <2>3. left > 0 => j \in 1 .. Field3 /\ Field3 + 1 - j = left
                    /\ SoFar + 1 = Field1 + Field2 + j
    <3>1. left > 0 => j \in 1 .. Field3
      BY <1>1, <1>2, <2>1
    <3>2. Field3 + 1 - j = left
      BY <1>1, <1>2
    <3>3. SoFar + 1 = Field1 + Field2 + j
      BY <1>1, <1>2, <2>2
    <3> QED
      BY <3>1, <3>2, <3>3
  <2> HIDE DEF j
  <2> QED
    BY <1>1, <1>2, <1>6, <2>1, <2>2, <2>3
<1> QED
  BY <1>2, <1>3, <1>4, <1>5, <1>6

LEMMA SameLength ==
  ASSUME NEW m \in Nat, NEW n \in Nat, 1 .. m = 1 .. n
  PROVE  m = n
<1>1. CASE m > n
  <2>1. m \in 1 .. m /\ m \notin 1 .. n
    BY <1>1
  <2> QED
    BY <2>1
<1>2. CASE m < n
  <2>1. n \in 1 .. n /\ n \notin 1 .. m
    BY <1>2
  <2> QED
    BY <2>1
<1> QED
  BY <1>1, <1>2

\* The division the sub-messages make is the greedy one: an invariant.
LEMMA GreedyInvariant == Spec => []GreedyInv
<1>1. Init => GreedyInv
  <2> SUFFICES ASSUME Init
               PROVE  GreedyInv
    OBVIOUS
  <2>1. TypeInv
    BY InitInv DEF SplitInv
  <2>2. Taken \in Seq(Nat)
    BY <2>1, NextTaken, SizesArePositive
  <2>3. SoFar = 0
    <3>1. fieldNo = 1 /\ left = Field1
      BY DEF Init, Current, Field1
    <3>2. Field1 \in Nat
      BY <2>1, TakenIs DEF TypeInv
    <3> QED
      BY <3>1, <3>2 DEF SoFar, Before
  <2>4. Len(subs) - 1 = 0 /\ cumulative = 0
    BY DEF Init
  <2> QED
    BY <2>2, <2>3, <2>4, GreedyStart DEF GreedyInv
<1>2. SplitInv /\ SplitInv' /\ GreedyInv /\ [Next]_vars => GreedyInv'
  <2> SUFFICES ASSUME SplitInv, SplitInv', GreedyInv, [Next]_vars
               PROVE  GreedyInv'
    OBVIOUS
  <2>1. TypeInv /\ TypeInv' /\ Len(subs) \in Nat
    BY LenProperties DEF SplitInv, TypeInv
  <2>2. PICK ends, l : Greedy(Taken, SoFar, ends, l, Len(subs) - 1, cumulative)
    BY DEF GreedyInv
  <2> DEFINE s == Taken
             n == SoFar
  <2>3. /\ s \in Seq(Nat) /\ s \in Seq(Nat \ {0}) /\ n \in Nat /\ n <= Len(s)
    BY <2>1, NextTaken, SizesArePositive
  <2>4. ASSUME UNCHANGED msg
        PROVE  Taken' = s
    BY <2>4 DEF Taken
  <2>5. CASE MoveElement
    <3> DEFINE size == msg[Current][left]
               kept == IF Full(size) THEN Append(subs, EmptySub) ELSE subs
    <3>1. /\ left > 0 /\ left' = left - 1
          /\ UNCHANGED <<msg, fieldNo, destination>>
          /\ subs' = [kept EXCEPT ![destination][Current] = Append(@, left)]
          /\ cumulative' = IF Full(size) THEN size ELSE cumulative + size
      BY <2>5 DEF MoveElement
    <3>2. n < Len(s) /\ s[n + 1] = size
      BY <2>1, <3>1, NextTaken
    <3>3. SoFar' = n + 1
      <4>1. fieldNo \in 1 .. 4 /\ fieldNo # 4 /\ left \in Nat
        BY <2>1, <3>1 DEF TypeInv
      <4>2. Before(fieldNo + 1)' = Before(fieldNo + 1) /\ Before(fieldNo + 1) \in Int
        <5>1. Field1 \in Nat /\ Field2 \in Nat /\ Field3 \in Nat
          BY <2>1, TakenIs DEF TypeInv
        <5>2. Field1' = Field1 /\ Field2' = Field2 /\ Field3' = Field3
          BY <3>1 DEF Field1, Field2, Field3
        <5> QED
          BY <3>1, <4>1, <5>1, <5>2 DEF Before
      <4> QED
        BY <3>1, <4>1, <4>2 DEF SoFar
    <3>4. Len(subs') = IF Full(size) THEN Len(subs) + 1 ELSE Len(subs)
      <4>1. subs \in Seq(SubMessage) /\ Append(subs, EmptySub) \in Seq(SubMessage)
            /\ Len(Append(subs, EmptySub)) = Len(subs) + 1
        BY <2>1, NothingInIt, AppendProperties DEF TypeInv
      <4>2. kept \in Seq(SubMessage) /\ Len(kept) = IF Full(size) THEN Len(subs) + 1 ELSE Len(subs)
        BY <4>1
      <4> HIDE DEF kept
      <4>3. Len(subs') = Len(kept)
        <5>1. DOMAIN subs' = DOMAIN kept
          BY <3>1
        <5>2. DOMAIN subs' = 1 .. Len(subs') /\ DOMAIN kept = 1 .. Len(kept)
              /\ Len(subs') \in Nat /\ Len(kept) \in Nat
          BY <2>1, <4>2, LenProperties DEF TypeInv
        <5> QED
          BY <5>1, <5>2, SameLength
      <4> QED
        BY <4>2, <4>3
    <3>5. s' = s
      BY <2>4, <3>1
    <3> HIDE DEF size, s, n, kept
    <3>6. CASE Full(size)
      <4>1. cumulative # 0 /\ cumulative + s[n + 1] > BytesPerMessage
        BY <3>2, <3>6 DEF Full
      <4>2. Greedy(s, n + 1, ends \cup {n}, n, (Len(subs) - 1) + 1, s[n + 1])
        BY <2>2, <2>3, <3>2, <4>1, GreedySeals DEF s, n
      <4>3. (Len(subs) - 1) + 1 = Len(subs') - 1 /\ cumulative' = s[n + 1]
        BY <2>1, <3>1, <3>2, <3>4, <3>6
      <4>4. Greedy(s', SoFar', ends \cup {n}, n, Len(subs') - 1, cumulative')
        BY <3>3, <3>5, <4>2, <4>3
      <4> QED
        BY <4>4 DEF GreedyInv, s
    <3>7. CASE ~Full(size)
      <4>1. cumulative = 0 \/ cumulative + s[n + 1] <= BytesPerMessage
        <5>1. cumulative \in Nat /\ BytesPerMessage \in Nat /\ s[n + 1] \in Nat
          <6>1. n + 1 \in 1 .. Len(s)
            BY <2>3, <3>2, LenProperties
          <6> QED
            BY <2>1, <2>3, <6>1, ElementOfSeq, SizeAssumption DEF TypeInv
        <5> QED
          BY <3>2, <3>7, <5>1 DEF Full
      <4>2. Greedy(s, n + 1, ends, l, Len(subs) - 1, cumulative + s[n + 1])
        BY <2>2, <2>3, <3>2, <4>1, GreedyAdds DEF s, n
      <4>3. Greedy(s', SoFar', ends, l, Len(subs') - 1, cumulative')
        BY <3>1, <3>2, <3>3, <3>4, <3>5, <3>7, <4>2
      <4> QED
        BY <4>3 DEF GreedyInv, s
    <3> QED
      BY <3>6, <3>7
  <2>6. CASE NextField
    <3>1. /\ fieldNo <= 3 /\ left = 0 /\ fieldNo' = fieldNo + 1
          /\ left' = IF fieldNo < 3 THEN Len(msg[FieldOrder[fieldNo + 1]]) ELSE 0
          /\ UNCHANGED <<msg, subs, cumulative>>
      BY <2>6, Order DEF NextField
    <3>2. SoFar' = SoFar
      <4>1. Field1 \in Nat /\ Field2 \in Nat /\ Field3 \in Nat
        BY <2>1, TakenIs DEF TypeInv
      <4>2. Field1' = Field1 /\ Field2' = Field2 /\ Field3' = Field3
        BY <3>1 DEF Field1, Field2, Field3
      <4>3. fieldNo \in 1 .. 4
        BY <2>1 DEF TypeInv
      <4>4. CASE fieldNo = 1
        BY <3>1, <4>1, <4>2, <4>4 DEF SoFar, Before, Field2
      <4>5. CASE fieldNo = 2
        BY <3>1, <4>1, <4>2, <4>5 DEF SoFar, Before, Field3
      <4>6. CASE fieldNo = 3
        BY <3>1, <4>1, <4>2, <4>6 DEF SoFar, Before
      <4> QED
        BY <3>1, <4>3, <4>4, <4>5, <4>6
    <3> QED
      BY <2>2, <2>4, <3>1, <3>2 DEF GreedyInv
  <2>7. CASE UNCHANGED vars
    <3>1. UNCHANGED <<msg, fieldNo, left, subs, cumulative>>
      BY <2>7 DEF vars
    <3>2. SoFar' = SoFar
      BY <3>1 DEF SoFar, Before, Field1, Field2, Field3
    <3> QED
      BY <2>2, <2>4, <3>1, <3>2 DEF GreedyInv
  <2> QED
    BY <2>5, <2>6, <2>7 DEF Next
<1> QED
  BY <1>1, <1>2, InvariantHolds, PTL DEF Spec

\* A message is divided into as many sub-messages as the limit makes necessary
\* and no more, although they are not the ones of the division (an empty message
\* into one, the heart beat).
THEOREM AsFewAsPossible == Spec => []NoNeedlessMessage
<1>1. SplitInv /\ GreedyInv => NoNeedlessMessage
  <2> SUFFICES ASSUME SplitInv, GreedyInv, Done
               PROVE  IF Taken = <<>> THEN Len(subs) = 1
                      ELSE /\ \E ends \in Divisions(Taken) : Cardinality(ends) = Len(subs)
                           /\ \A ends \in Divisions(Taken) : Cardinality(ends) >= Len(subs)
    BY DEF NoNeedlessMessage
  <2>1. TypeInv /\ fieldNo = 4 /\ Len(subs) \in Nat
    BY Order, LenProperties DEF SplitInv, TypeInv, Done
  <2>2. SoFar = Len(Taken) /\ Taken \in Seq(Nat)
    BY <2>1, NextTaken, SizesArePositive
  <2>3. PICK ends, l : Greedy(Taken, Len(Taken), ends, l, Len(subs) - 1, cumulative)
    BY <2>2 DEF GreedyInv
  <2>4. (Len(subs) - 1) + 1 = Len(subs)
    BY <2>1
  <2>5. CASE Taken = <<>>
    <3>1. Len(Taken) = 0
      BY <2>5
    <3>2. ends \in SUBSET (1 .. 0) /\ Cardinality(ends) = Len(subs) - 1
      BY <2>3, <3>1 DEF Greedy
    <3>3. ends = {}
      BY <3>2
    <3>4. Len(subs) - 1 = 0
      BY <3>2, <3>3, FS_EmptySet
    <3> QED
      BY <2>1, <2>5, <3>4
  <2>6. CASE Taken # <<>>
    <3>1. Len(Taken) # 0
      BY <2>2, <2>6, EmptySeq
    <3> QED
      BY <2>2, <2>3, <2>4, <2>6, <3>1, GreedyEnd
  <2> QED
    BY <2>5, <2>6
<1> QED
  BY <1>1, InvariantHolds, GreedyInvariant, PTL
=============================================================================
