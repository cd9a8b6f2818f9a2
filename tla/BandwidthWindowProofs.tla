----------------------- MODULE BandwidthWindowProofs ------------------------
(***************************************************************************)
(* Proofs about BandwidthWindow: no byte is lost, counted twice or made up *)
(* between the measurement, the histograms of the NICs and the file of     *)
(* milliseconds, for any number of connections, NICs, buckets and calls.   *)
(*                                                                         *)
(* The sums of the model are folds; FoldLemmas has what they add up to.    *)
(* The invariant is inductive: one lemma for each action preserves it.     *)
(***************************************************************************)
EXTENDS BandwidthWindow, FoldLemmas, TLAPS

-----------------------------------------------------------------------------
(***************************************************************************)
(* The inductive invariant.                                                *)
(***************************************************************************)
BufferType == [start : Nat, bw : [Dir -> [Index -> Nat]]]
ConnType == [gen : 0 .. 1, buffer : [0 .. 1 -> BufferType]]
CallType == [conn : {{c} : c \in Connection}, reported : Nat, latency : Nat, dir : Dir]
MsecType ==
  [cells : [Nic -> [Dir -> [Position -> Nat]]], diff : Nat, time : Nat,
   current : 0 .. Batches - 1, next : Nat, enabled : BOOLEAN, open : BOOLEAN,
   saved : [Dir -> Nat]]
Counts == [Dir -> Nat]

\* The ranges of the variables, component by component, without the bounds.
ClockTypes ==
  /\ now \in FirstTime .. LastTime /\ start \in 0 .. now
  /\ due \in [window : Nat, save : Nat]
  /\ flush \in {"none", "window", "close"}

ConnectionTypes ==
  /\ conn \in [Open -> ConnType] /\ Open \subseteq Connection
  /\ nics \subseteq Nic /\ \A c \in Open : NicOf[c] \in nics
  /\ late \subseteq Connection

CallTypes ==
  /\ calls \in 0 .. MaxCalls
  /\ call = NoCall \/ (call \in CallType /\ call.conn \subseteq Open /\ call.reported <= now)

CountTypes ==
  /\ booked \in [Connection -> Counts] /\ aggregated \in [Connection -> Counts]
  /\ submitted \in Counts /\ nicCarry \in Nat

TypeInv == ClockTypes /\ ConnectionTypes /\ CallTypes /\ CountTypes /\ msec \in MsecType

AllZero == [d \in Dir |-> Zero]
WriteBuffer(cn) == cn.buffer[cn.gen]

\* Between two windows only one buffer of a connection has bytes: it began with
\* the last window, or is empty if the connection is newer than that, and no
\* bucket is in use that the clock has not reached, late calls apart.
BufferInv ==
  \A c \in Open :
    /\ ReadBuffer(conn[c]).bw = AllZero
    /\ \A state \in 0 .. 1 : conn[c].buffer[state].start <= now
    /\ WriteBuffer(conn[c]).start \in {0, start}
    /\ WriteBuffer(conn[c]).start = 0 => WriteBuffer(conn[c]).bw = AllZero
    /\ c \notin late =>
         \A d \in Dir, i \in Index :
           i > (now - start) \div BucketTime => WriteBuffer(conn[c]).bw[d][i] = 0

InBuffer(cn, d) == Sum(WriteBuffer(cn).bw[d], Index)

\* What is in the buffers and was added up has been booked, and all of it is
\* what was sent by a connection without late calls.
BookInv ==
  /\ \A c \in Open, d \in Dir : InBuffer(conn[c], d) + aggregated[c][d] <= booked[c][d]
  /\ \A c \in Open \ late :
       InBuffer(conn[c], "Send") + aggregated[c]["Send"] = booked[c]["Send"]
  /\ \A c \in Connection, d \in Dir : aggregated[c][d] <= booked[c][d]

BothDirections(f) == Sum([c \in Connection |-> f[c]["Send"] + f[c]["Recv"]], Connection)

\* No more is booked than the calls have brought.
TotalInv == BothDirections(booked) + (IF call = NoCall THEN 0 ELSE Size) <= calls * Size

NicInv == BothDirections(aggregated) = submitted["Send"] + submitted["Recv"] + nicCarry

\* MsecNeverInvents, also after an overrun.
Kept(ms, d) == ms.saved[d] + (IF ms.open THEN BytesIn(ms, d, Position) ELSE 0)
MsecInv == \A d \in Dir : Kept(msec, d) <= submitted[d]

IInv == TypeInv /\ BufferInv /\ BookInv /\ TotalInv /\ NicInv /\ MsecInv

-----------------------------------------------------------------------------
(***************************************************************************)
(* Sums, division and the constants.                                       *)
(***************************************************************************)
LEMMA SumIs == ASSUME NEW f, NEW S PROVE Sum(f, S) = SumOver(f, S)
BY DEF Sum, SumOver

LEMMA DivNat ==
  ASSUME NEW a \in Nat, NEW b \in Nat \ {0}
  PROVE  a \div b \in Nat
OBVIOUS

LEMMA DivMono ==
  ASSUME NEW a \in Nat, NEW c \in Nat, a <= c, NEW b \in Nat \ {0}
  PROVE  a \div b <= c \div b
OBVIOUS

LEMMA DivLess ==
  ASSUME NEW a \in Nat, NEW b \in Nat \ {0}, NEW k \in Nat
  PROVE  a \div b < k <=> a < k * b
OBVIOUS

LEMMA MulNat ==
  ASSUME NEW a \in Nat, NEW b \in Nat
  PROVE  a * b \in Nat
OBVIOUS

LEMMA MulMono ==
  ASSUME NEW a \in Nat, NEW b \in Nat, a <= b, NEW c \in Nat
  PROVE  a * c <= b * c
OBVIOUS

\* A window of buckets and a buffer of batches, and what is carried over of one.
LEMMA Sizes ==
  /\ Burst \in Nat \ {0} /\ CarryOver \in 0 .. Burst
  /\ Batches \in Nat \ {0} /\ BatchSamples \in Nat \ {0}
  /\ Period \in Nat /\ MaxLatency < FirstTime
  /\ IsFiniteSet(Dir) /\ Dir = {"Send", "Recv"} /\ Size \in Nat /\ MaxBytes \in Nat
<1>1. CarryOver \in Nat
  BY BandwidthAssumption, MillisecondAssumption, DivNat DEF CarryOver
<1>2. BatchSamples \in Nat \ {0}
  <2>1. BatchSamples \in Nat
    BY MillisecondAssumption, DivNat DEF BatchSamples
  <2> QED
    BY <2>1, MillisecondAssumption
<1>3. Batches \in Nat \ {0}
  <2>1. OutputInterval \div BatchTime \in Nat
    BY MillisecondAssumption, DivNat
  <2> DEFINE intervals == OutputInterval \div BatchTime
  <2> HIDE DEF intervals
  <2>2. (intervals * 3) \div 2 \in Nat
    BY <2>1 DEF intervals
  <2> QED
    BY <2>2, MillisecondAssumption DEF Batches, intervals
<1>4. Period \in Nat
  BY BandwidthAssumption, MillisecondAssumption, MulNat DEF Period
<1>5. IsFiniteSet({"Send", "Recv"})
  <2>1. IsFiniteSet({"Send"}) /\ {"Send", "Recv"} = {"Send"} \cup {"Recv"}
    BY FS_Singleton
  <2> QED
    BY <2>1, FS_AddElement
<1> QED
  BY <1>1, <1>2, <1>3, <1>4, <1>5, BandwidthAssumption DEF Burst, Dir

-----------------------------------------------------------------------------
(***************************************************************************)
(* What exceeds the capacity of a bucket is carried to the next: no byte   *)
(* is lost between the two.                                                *)
(***************************************************************************)
CapType == [carry : Nat, bw : Seq(Nat)]

CapOne(acc, added) ==
  [carry |-> Larger(added + acc.carry - MaxBytes, 0),
   bw |-> Append(acc.bw, Smaller(added + acc.carry, MaxBytes))]

LEMMA CapOneType ==
  ASSUME NEW acc \in CapType, NEW added \in Nat
  PROVE  /\ CapOne(acc, added) \in CapType
         /\ CapOne(acc, added).bw = Append(acc.bw, Smaller(added + acc.carry, MaxBytes))
         /\ Smaller(added + acc.carry, MaxBytes) \in Nat
         /\ Smaller(added + acc.carry, MaxBytes) + CapOne(acc, added).carry = added + acc.carry
<1>1. MaxBytes \in Nat
  BY Sizes
<1> DEFINE sent == Smaller(added + acc.carry, MaxBytes)
           kept == Larger(added + acc.carry - MaxBytes, 0)
<1>2. sent \in Nat /\ kept \in Nat /\ sent + kept = added + acc.carry
  BY <1>1 DEF CapType, Larger, Smaller
<1> HIDE DEF sent, kept
<1>3. CapOne(acc, added) = [carry |-> kept, bw |-> Append(acc.bw, sent)]
  BY DEF CapOne, sent, kept
<1>4. Append(acc.bw, sent) \in Seq(Nat)
  BY <1>2 DEF CapType
<1>5. /\ CapOne(acc, added) \in CapType
      /\ CapOne(acc, added).bw = Append(acc.bw, sent)
      /\ CapOne(acc, added).carry = kept
  BY <1>2, <1>3, <1>4 DEF CapType
<1> QED
  BY <1>2, <1>5 DEF sent

\* What a bucket can hold of the bytes, element by element.
LEMMA CappedRun ==
  ASSUME NEW carry \in Nat, NEW q \in Seq(Nat)
  PROVE  \E acc \in [0 .. Len(q) -> CapType] :
            /\ acc[0] = [carry |-> carry, bw |-> <<>>]
            /\ \A i \in 1 .. Len(q) : acc[i] = CapOne(acc[i - 1], q[i])
            /\ Capped(q, carry) = acc[Len(q)]
<1> DEFINE n == Len(q)
           step == [p \in (1 .. n) \X CapType |-> CapOne(p[2], q[p[1]])]
           Fold(g) == g = [s \in SUBSET (1 .. n) |->
                             IF s = {} THEN [carry |-> carry, bw |-> <<>>] ELSE CapOne(g[s \ {Max(s)}], q[Max(s)])]
           sol == CHOOSE g : Fold(g)
<1> DEFINE base == [carry |-> carry, bw |-> <<>>]
<1>0. n \in Nat /\ base \in CapType /\ DOMAIN q = 1 .. n /\ \A i \in 1 .. n : q[i] \in Nat
  BY DEF CapType
<1>1. \E g \in [SUBSET (1 .. n) -> CapType] : Fold(g)
  <2>1. step \in [(1 .. n) \X CapType -> CapType]
    BY <1>0, CapOneType
  <2> HIDE DEF step
  <2>2. PICK g \in [SUBSET (1 .. n) -> CapType] : FoldsLeft(g, n, base, step)
    <3> HIDE DEF n
    <3> QED
      BY <1>0, <2>1, LeftFoldExists
  <2>3. ASSUME NEW s \in SUBSET (1 .. n), s # {}
        PROVE  g[s] = CapOne(g[s \ {Max(s)}], q[Max(s)])
    <3>1. Max(s) \in 1 .. n /\ g[s \ {Max(s)}] \in CapType
      BY <1>0, <2>2, <2>3, MaxOfPart
    <3>2. step[<<Max(s), g[s \ {Max(s)}]>>] = CapOne(g[s \ {Max(s)}], q[Max(s)])
      BY <3>1 DEF step
    <3> QED
      BY <2>2, <2>3, <3>2 DEF FoldsLeft
  <2> QED
    BY <2>2, <2>3 DEF FoldsLeft
<1>2. PICK typed \in [SUBSET (1 .. n) -> CapType] : Fold(typed)
  BY <1>1
<1>3. Fold(sol)
  <2> HIDE DEF Fold
  <2> QED
    BY <1>2
<1>4. Capped(q, carry) = sol[1 .. n]
  BY <1>0 DEF Capped, CapOne, FoldLeft, MapThenFoldSet
<1> HIDE DEF sol
<1>5. ASSUME NEW i \in 1 .. n
      PROVE  /\ 1 .. i \in SUBSET (1 .. n)
             /\ sol[1 .. i] = CapOne(sol[1 .. i - 1], q[i])
             /\ typed[1 .. i] = CapOne(typed[1 .. i - 1], q[i])
  <2> DEFINE s == 1 .. i
  <2>1. s \in SUBSET (1 .. n) /\ s # {} /\ Max(s) = i /\ s \ {Max(s)} = 1 .. i - 1
    BY <1>0, <1>5, IntervalWithoutMax, SMTT(30)
  <2> HIDE DEF s
  <2>2. /\ sol[s] = CapOne(sol[s \ {Max(s)}], q[Max(s)])
        /\ typed[s] = CapOne(typed[s \ {Max(s)}], q[Max(s)])
    BY <1>2, <1>3, <2>1
  <2> QED
    BY <2>1, <2>2 DEF s
<1> DEFINE a == [i \in 0 .. n |-> sol[1 .. i]]
           b == [i \in 0 .. n |-> typed[1 .. i]]
<1>6. a[0] = base /\ b[0] = base
  BY <1>0, <1>2, <1>3
<1>7. ASSUME NEW i \in 1 .. n
      PROVE  a[i] = CapOne(a[i - 1], q[i]) /\ b[i] = CapOne(b[i - 1], q[i]) /\ b[i] \in CapType
  <2>1. a[i] = sol[1 .. i] /\ a[i - 1] = sol[1 .. i - 1]
    BY <1>0, <1>7
  <2>2. b[i] = typed[1 .. i] /\ b[i - 1] = typed[1 .. i - 1]
    BY <1>0, <1>7
  <2>3. typed[1 .. i] \in CapType
    BY <1>2, <1>5
  <2> HIDE DEF a, b
  <2> QED
    BY <1>5, <2>1, <2>2, <2>3
<1>8. b[0] \in CapType /\ a[n] = sol[1 .. n] /\ a \in [0 .. n -> {a[i] : i \in 0 .. n}]
  BY <1>0, <1>6
<1> HIDE DEF a, b, n
<1>9. \A i \in 0 .. n : a[i] = b[i]
  <2> DEFINE I == {i \in 0 .. n : a[i] = b[i]}
  <2>1. n \in Nat /\ 0 \in I
    BY <1>0, <1>6
  <2>2. ASSUME NEW i \in 1 .. n, i - 1 \in I
        PROVE  i \in I
    BY <1>0, <1>7, <2>2
  <2> HIDE DEF I
  <2>3. \A i \in 0 .. n : i \in I
    BY <2>1, <2>2, RunInduction
  <2> QED
    BY <2>3 DEF I
<1>10. a \in [0 .. n -> CapType]
  BY <1>0, <1>7, <1>8, <1>9, SMTT(30)
<1> QED
  BY <1>0, <1>4, <1>6, <1>7, <1>8, <1>10 DEF n

LEMMA CappedConserves ==
  ASSUME NEW data \in Seq(Nat), NEW carry \in Nat
  PROVE  /\ Capped(data, carry).carry \in Nat
         /\ Capped(data, carry).bw \in Seq(Nat)
         /\ Len(Capped(data, carry).bw) = Len(data)
         /\ SumOver(Capped(data, carry).bw, 1 .. Len(data)) + Capped(data, carry).carry
              = SumOver(data, 1 .. Len(data)) + carry
<1> DEFINE n == Len(data)
<1>0. n \in Nat /\ \A i \in 1 .. n : data[i] \in Nat
  OBVIOUS
<1>1. PICK acc \in [0 .. n -> CapType] :
        /\ acc[0] = [carry |-> carry, bw |-> <<>>]
        /\ \A i \in 1 .. n : acc[i] = CapOne(acc[i - 1], data[i])
        /\ Capped(data, carry) = acc[n]
  BY <1>0, CappedRun
<1> HIDE DEF n
<1> DEFINE Good(i) == /\ Len(acc[i].bw) = i
                      /\ SumOver(acc[i].bw, 1 .. i) + acc[i].carry
                           = SumOver(data, 1 .. i) + carry
           I == {i \in 0 .. n : Good(i)}
<1>2. Good(0)
  <2>1. 1 .. 0 = {} /\ Len(<<>>) = 0
    OBVIOUS
  <2>2. SumOver(acc[0].bw, 1 .. 0) = 0 /\ SumOver(data, 1 .. 0) = 0
    BY <2>1, SumEmpty
  <2>3. acc[0].carry = carry /\ acc[0].bw = <<>>
    BY <1>1
  <2> QED
    BY <2>1, <2>2, <2>3
<1>3. ASSUME NEW i \in 1 .. n, i - 1 \in I
      PROVE  i \in I
  <2> DEFINE p == acc[i - 1]
             x == data[i]
             sent == Smaller(x + p.carry, MaxBytes)
  <2>1. p \in CapType /\ x \in Nat /\ acc[i] \in CapType /\ acc[i] = CapOne(p, x)
    BY <1>0, <1>1
  <2>2. Len(p.bw) = i - 1 /\ SumOver(p.bw, 1 .. i - 1) + p.carry = SumOver(data, 1 .. i - 1) + carry
    BY <1>3
  <2> HIDE DEF p, x
  <2>3. /\ acc[i].bw = Append(p.bw, sent) /\ sent \in Nat
        /\ sent + acc[i].carry = x + p.carry
    BY <2>1, CapOneType
  <2> HIDE DEF sent
  <2>4. p.bw \in Seq(Int) /\ p.carry \in Nat /\ acc[i].carry \in Nat /\ sent \in Int
    BY <2>1, <2>3 DEF CapType
  <2>5. i \in Nat /\ (i - 1) + 1 = i
    BY <1>0
  <2>6. Len(acc[i].bw) = i
    BY <2>2, <2>3, <2>4, <2>5
  <2> DEFINE s1 == SumOver(p.bw, 1 .. i - 1)
             s2 == SumOver(data, 1 .. i - 1)
  <2>7. SumOver(acc[i].bw, 1 .. i) = s1 + sent
    <3>1. SumOver(Append(p.bw, sent), 1 .. Len(p.bw) + 1) = SumOver(p.bw, 1 .. Len(p.bw)) + sent
      BY <2>4, SumAppend
    <3> QED
      BY <2>2, <2>3, <2>5, <3>1
  <2>8. SumOver(data, 1 .. i) = s2 + x
    <3> DEFINE a == 1
               m == i - 1
    <3>1. a \in Int /\ m \in Nat /\ a + m = i /\ a + m - 1 = i - 1 /\ a = 1
      BY <1>0
    <3>2. \A j \in a .. a + m : data[j] \in Int
      BY <1>0, <3>1
    <3> HIDE DEF a, m
    <3>3. SumOver(data, a .. a + m) = SumOver(data, a .. a + m - 1) + data[a + m]
      BY <3>1, <3>2, SumLonger
    <3> QED
      BY <3>1, <3>3 DEF x
  <2>9. s1 \in Int /\ s2 \in Int /\ s1 + p.carry = s2 + carry
    <3>1. \A j \in 1 .. i - 1 : p.bw[j] \in Int
      BY <2>2, <2>4
    <3>2. \A j \in 1 .. i - 1 : data[j] \in Int
      BY <1>0
    <3>3. IsFiniteSet(1 .. i - 1)
      BY <2>5, FS_Interval
    <3>4. s1 \in Int
      BY <3>1, <3>3, SumIsInt
    <3>5. s2 \in Int
      BY <3>2, <3>3, SumIsInt
    <3> QED
      BY <2>2, <3>4, <3>5
  <2> HIDE DEF s1, s2
  <2>10. (s1 + sent) + acc[i].carry = (s2 + x) + carry
    <3> DEFINE u == p.carry
               v == acc[i].carry
    <3>1. u \in Int /\ v \in Int /\ sent \in Int /\ x \in Int
      BY <2>1, <2>4
    <3>2. sent + v = x + u /\ s1 + u = s2 + carry /\ s1 \in Int /\ s2 \in Int
      BY <2>3, <2>9
    <3> HIDE DEF u, v
    <3>3. (s1 + sent) + v = (s2 + x) + carry
      BY <3>1, <3>2
    <3> QED
      BY <3>3 DEF v
  <2> QED
    BY <1>0, <2>5, <2>6, <2>7, <2>8, <2>10
<1>4. Good(n)
  <2>1. 0 \in I
    BY <1>0, <1>2
  <2> HIDE DEF I
  <2>2. \A i \in 0 .. n : i \in I
    BY <1>0, <1>3, <2>1, RunInduction
  <2> QED
    BY <1>0, <2>2 DEF I
<1>5. acc[n] \in CapType
  BY <1>0, <1>1
<1> QED
  BY <1>1, <1>4, <1>5 DEF n, CapType

-----------------------------------------------------------------------------
(***************************************************************************)
(* The samples of a window, copied to the buffer of milliseconds: a sample *)
(* that is overwritten, or beyond the buffer, is lost, and none is added.  *)
(***************************************************************************)
LEMMA PositionFinite == IsFiniteSet(Position) /\ Position \subseteq Nat
<1>1. Batches * BatchSamples \in Int
  BY Sizes, MulNat
<1> DEFINE m == Batches * BatchSamples
<1> HIDE DEF m
<1>2. IsFiniteSet(0 .. m - 1) /\ 0 .. m - 1 \subseteq Nat
  BY <1>1, FS_Interval DEF m
<1> QED
  BY <1>2 DEF Position, m

\* A function that has the data at some positions sums up to no more than
\* the old one and the data.
LEMMA CopiedSum ==
  ASSUME NEW old \in [Position -> Nat], NEW data \in Seq(Nat), NEW first \in Nat,
         NEW new \in [Position -> Nat],
         \A p \in Position :
           new[p] = IF p \in first .. first + Len(data) - 1 THEN data[p - first + 1] ELSE old[p]
  PROVE  SumOver(new, Position) <= SumOver(old, Position) + SumOver(data, 1 .. Len(data))
<1> DEFINE n == Len(data)
           all == first .. first + n - 1
           A == Position \cap all
           B == Position \ all
           g == [p \in all |-> data[p - first + 1]]
<1>1. n \in Nat /\ \A i \in 1 .. n : data[i] \in Nat
  OBVIOUS
<1>2. g \in [all -> Nat]
  BY <1>1
<1>3. IsFiniteSet(all)
  BY <1>1, FS_Interval
<1>4. /\ IsFiniteSet(Position) /\ Position = A \cup B /\ A \cap B = {}
      /\ A \in SUBSET Position /\ B \in SUBSET Position /\ A \in SUBSET all
      /\ IsFiniteSet(A) /\ IsFiniteSet(B)
  <2>1. Position = A \cup B /\ A \cap B = {} /\ A \in SUBSET Position
        /\ B \in SUBSET Position /\ A \in SUBSET all
    OBVIOUS
  <2> HIDE DEF A, B
  <2> QED
    BY <2>1, PositionFinite, FS_Subset
<1>5. (\A p \in A : g[p] \in Int /\ new[p] = g[p]) /\ \A p \in B : new[p] = old[p]
  BY <1>2
<1> HIDE DEF A, B, all, g
<1>6. SumOver(new, Position) = SumOver(new, A) + SumOver(new, B)
  <2>1. \A p \in Position : new[p] \in Int
    OBVIOUS
  <2> QED
    BY <1>4, <2>1, SumUnion, SMTT(30)
<1>7. SumOver(new, A) = SumOver(g, A)
  BY <1>4, <1>5, SumEqual
<1>8. SumOver(g, A) <= SumOver(g, all)
  <2>1. \A p \in all : g[p] \in Nat
    BY <1>2
  <2> QED
    BY <1>3, <1>4, <2>1, SumSubset
<1>9. SumOver(g, all) = SumOver(data, 1 .. n)
  <2> DEFINE a == 1
             e == first + n - 1
  <2>1. a \in Int /\ n \in Int /\ first \in Int /\ e \in Int /\ e - first = n - a
    BY <1>1
  <2>2. ASSUME NEW i \in a .. n
        PROVE  data[i] \in Int /\ g[i + (first - a)] = data[i]
    <3>1. i + (first - 1) \in all /\ (i + (first - 1)) - first + 1 = i /\ i \in 1 .. n
      BY <1>1 DEF all
    <3>2. g[i + (first - 1)] = data[(i + (first - 1)) - first + 1]
      BY <3>1 DEF g
    <3> QED
      BY <1>1, <3>1, <3>2
  <2>3. first .. e = all /\ a .. n = 1 .. n
    BY DEF all
  <2>4. Moved(data, a, n, g, first, e)
    BY <2>1, <2>2 DEF Moved
  <2>5. a \in Int /\ n \in Int /\ first \in Int /\ e \in Int
    BY <2>1
  <2> HIDE DEF a, e, n
  <2>6. SumOver(g, first .. e) = SumOver(data, a .. n)
    BY <2>4, <2>5, SumShift
  <2> QED
    BY <2>3, <2>6
<1>10. SumOver(new, B) = SumOver(old, B)
  <2>1. \A p \in B : old[p] \in Int /\ new[p] = old[p]
    BY <1>4, <1>5
  <2> QED
    BY <1>4, <2>1, SumEqual
<1>11. SumOver(old, B) <= SumOver(old, Position)
  <2>1. \A p \in Position : old[p] \in Nat
    OBVIOUS
  <2> QED
    BY <1>4, <2>1, SumSubset
<1>12. /\ SumOver(old, B) \in Int /\ SumOver(old, Position) \in Int
       /\ SumOver(g, A) \in Int /\ SumOver(g, all) \in Int
  <2>1. (\A p \in B : old[p] \in Int) /\ (\A p \in Position : old[p] \in Int)
    BY <1>4
  <2>2. (\A p \in A : g[p] \in Int) /\ (\A p \in all : g[p] \in Int)
    BY <1>2, <1>5
  <2>3. SumOver(old, B) \in Int
    BY <1>4, <2>1, SumIsInt
  <2>4. SumOver(old, Position) \in Int
    BY <1>4, <2>1, SumIsInt
  <2>5. SumOver(g, A) \in Int
    BY <1>4, <2>2, SumIsInt
  <2>6. SumOver(g, all) \in Int
    BY <1>3, <2>2, SumIsInt
  <2> QED
    BY <2>3, <2>4, <2>5, <2>6
<1> DEFINE ga == SumOver(g, A)
           gall == SumOver(g, all)
           ob == SumOver(old, B)
           o == SumOver(old, Position)
<1> HIDE DEF n, ga, gall, ob, o
<1>13. ga + ob <= o + gall
  BY <1>8, <1>11, <1>12 DEF ga, gall, ob, o
<1>14. SumOver(new, Position) = ga + ob
  BY <1>6, <1>7, <1>10 DEF ga, ob
<1> QED
  BY <1>9, <1>13, <1>14 DEF n, gall, o

LEMMA BytesInNat ==
  ASSUME NEW ms \in MsecType, NEW d \in Dir, NEW positions \in SUBSET Position
  PROVE  /\ BytesIn(ms, d, positions) \in Nat
         /\ \A nic \in Nic : Sum(ms.cells[nic][d], positions) \in Nat
<1>1. IsFiniteSet(positions)
  BY PositionFinite, FS_Subset
<1>2. ASSUME NEW nic \in Nic
      PROVE  Sum(ms.cells[nic][d], positions) \in Nat
  <2>1. ms.cells[nic][d] \in [Position -> Nat]
    BY DEF MsecType
  <2> DEFINE f == ms.cells[nic][d]
  <2> HIDE DEF f
  <2>2. \A p \in positions : f[p] \in Nat
    BY <2>1 DEF f
  <2>3. SumOver(f, positions) \in Nat
    BY <1>1, <2>2, SumNat
  <2> QED
    BY <2>3, SumIs DEF f
<1> DEFINE g == [nic \in Nic |-> Sum(ms.cells[nic][d], positions)]
<1>3. \A nic \in Nic : g[nic] \in Nat
  BY <1>2
<1>4. BytesIn(ms, d, positions) = SumOver(g, Nic)
  BY SumIs DEF BytesIn
<1> HIDE DEF g
<1>5. SumOver(g, Nic) \in Nat
  BY <1>3, SumNat, MillisecondAssumption
<1> QED
  BY <1>2, <1>4, <1>5

LEMMA CopyOverKeeps ==
  ASSUME NEW ms \in MsecType, NEW d \in Dir, NEW nic \in Nic, NEW data \in Seq(Nat)
  PROVE  LET r == CopyOverBandwidthStats(ms, d, nic, data)
         IN  /\ r \in MsecType
             /\ Kept(r, d) <= Kept(ms, d) + SumOver(data, 1 .. Len(data))
             /\ \A e \in Dir : e # d => Kept(r, e) = Kept(ms, e)
<1> DEFINE r == CopyOverBandwidthStats(ms, d, nic, data)
           first == ms.current * BatchSamples + OffsetWithinBatch(ms)
           old == ms.cells[nic][d]
           new == [p \in Position |->
                     IF p \in first .. first + Len(data) - 1 THEN data[p - first + 1] ELSE old[p]]
           end == (first + Len(data)) \div BatchSamples
<1>1. first \in Nat
  <2>1. ms.time \in Nat /\ ms.current \in Nat
    BY DEF MsecType
  <2>2. ms.time % Second \in Nat
    BY <2>1 DEF Second
  <2>3. (ms.time % Second) \div BucketTime \in Nat
    BY <2>2, DivNat, MillisecondAssumption
  <2>4. OffsetWithinBatch(ms) \in Nat
    <3> DEFINE x == (ms.time % Second) \div BucketTime
    <3>1. OffsetWithinBatch(ms) = x % BatchSamples /\ x \in Nat
      BY <2>3 DEF OffsetWithinBatch
    <3> HIDE DEF x
    <3>2. x % BatchSamples \in Nat
      BY <3>1, Sizes
    <3> QED
      BY <3>1, <3>2
  <2>5. ms.current * BatchSamples \in Nat
    BY <2>1, MulNat, Sizes
  <2> QED
    BY <2>4, <2>5
<1>2. r = [ms EXCEPT !.cells = [ms.cells EXCEPT ![nic] = [ms.cells[nic] EXCEPT ![d] = new]],
                     !.next = end]
  BY DEF CopyOverBandwidthStats
<1> HIDE DEF first
<1>3. old \in [Position -> Nat]
  BY DEF MsecType
<1>4. Len(data) \in Nat /\ \A i \in 1 .. Len(data) : data[i] \in Nat
  OBVIOUS
<1>5. new \in [Position -> Nat]
  <2>1. ASSUME NEW p \in Position, p \in first .. first + Len(data) - 1
        PROVE  data[p - first + 1] \in Nat
    <3>1. p - first + 1 \in 1 .. Len(data)
      BY <1>1, <1>4, <2>1, PositionFinite
    <3> QED
      BY <1>4, <3>1
  <2> HIDE DEF old
  <2> QED
    BY <1>3, <2>1
<1>6. end \in Nat
  BY <1>1, <1>4, Sizes, DivNat
<1>7. \A p \in Position :
        new[p] = IF p \in first .. first + Len(data) - 1 THEN data[p - first + 1] ELSE old[p]
  OBVIOUS
<1> HIDE DEF r, new, end, old
<1>8. SumOver(new, Position) <= SumOver(old, Position) + SumOver(data, 1 .. Len(data))
  BY <1>1, <1>3, <1>5, <1>7, CopiedSum
<1>9. r \in MsecType
  BY <1>2, <1>5, <1>6 DEF MsecType
<1>10. /\ r.open = ms.open /\ r.saved = ms.saved
       /\ r.cells[nic][d] = new
       /\ \A m \in Nic, e \in Dir : (m # nic \/ e # d) => r.cells[m][e] = ms.cells[m][e]
  BY <1>2 DEF MsecType
<1> DEFINE total == SumOver(data, 1 .. Len(data))
           before(e) == [m \in Nic |-> Sum(ms.cells[m][e], Position)]
           after(e) == [m \in Nic |-> Sum(r.cells[m][e], Position)]
<1>11. \A e \in Dir : BytesIn(ms, e, Position) = SumOver(before(e), Nic)
                      /\ BytesIn(r, e, Position) = SumOver(after(e), Nic)
  BY SumIs DEF BytesIn
<1>12. \A e \in Dir, m \in Nic : before(e)[m] \in Nat /\ after(e)[m] \in Nat
  BY <1>9, BytesInNat
<1>13. ASSUME NEW e \in Dir, e # d
       PROVE  BytesIn(r, e, Position) = BytesIn(ms, e, Position)
  <2>1. after(e) = before(e)
    BY <1>10, <1>13
  <2> QED
    BY <1>11, <2>1
<1>14. BytesIn(r, d, Position) <= BytesIn(ms, d, Position) + total
  <2> DEFINE f == before(d)
             g == after(d)
             change == SumOver(new, Position) - SumOver(old, Position)
  <2>1. SumOver(new, Position) \in Int /\ SumOver(old, Position) \in Int /\ total \in Int
    <3>1. (\A p \in Position : new[p] \in Int) /\ (\A p \in Position : old[p] \in Int)
      BY <1>3, <1>5
    <3>2. SumOver(new, Position) \in Int
      BY <3>1, SumIsInt, PositionFinite
    <3>3. SumOver(old, Position) \in Int
      BY <3>1, SumIsInt, PositionFinite
    <3>4. IsFiniteSet(1 .. Len(data))
      BY <1>4, FS_Interval
    <3>5. total \in Int
      BY <1>4, <3>4, SumIsInt
    <3> QED
      BY <3>2, <3>3, <3>5
  <2>2. f[nic] = SumOver(old, Position) /\ g[nic] = SumOver(new, Position)
    BY <1>10, SumIs DEF old
  <2>3. \A m \in Nic : f[m] \in Int /\ (m # nic => g[m] = f[m])
    BY <1>10, <1>12
  <2> HIDE DEF f, g, total
  <2>4. change \in Int /\ change <= total /\ g[nic] = f[nic] + change
    BY <1>8, <2>1, <2>2 DEF total
  <2> HIDE DEF change
  <2>5. SumOver(g, Nic) = SumOver(f, Nic) + change
    BY <2>3, <2>4, SumChange, MillisecondAssumption
  <2>6. SumOver(f, Nic) \in Int
    BY <2>3, SumIsInt, MillisecondAssumption
  <2>7. SumOver(g, Nic) <= SumOver(f, Nic) + total
    BY <2>1, <2>4, <2>5, <2>6
  <2> QED
    BY <1>11, <2>7 DEF f, g
<1>15. total \in Nat
  <2>1. IsFiniteSet(1 .. Len(data))
    BY <1>4, FS_Interval
  <2> QED
    BY <1>4, <2>1, SumNat
<1>16. \A e \in Dir : /\ BytesIn(ms, e, Position) \in Nat /\ BytesIn(r, e, Position) \in Nat
                      /\ ms.saved[e] \in Nat
  BY <1>9, BytesInNat DEF MsecType
<1>17. Kept(r, d) <= Kept(ms, d) + total
  <2> HIDE DEF total
  <2> QED
    BY <1>10, <1>14, <1>15, <1>16 DEF Kept
<1>18. \A e \in Dir : e # d => Kept(r, e) = Kept(ms, e)
  BY <1>10, <1>13 DEF Kept
<1> QED
  BY <1>9, <1>17, <1>18 DEF r

-----------------------------------------------------------------------------
(***************************************************************************)
(* The histograms of the NICs: what a window adds up is submitted, or is   *)
(* in the carry, and no more than that is in the buffer of milliseconds.   *)
(***************************************************************************)
AccType == [carry : Nat, msec : MsecType, submitted : Counts]

Total(acc) == acc.submitted["Send"] + acc.submitted["Recv"] + acc.carry

Sound(acc) == \A e \in Dir : Kept(acc.msec, e) <= acc.submitted[e]

LEMMA KeptNat ==
  ASSUME NEW ms \in MsecType, NEW d \in Dir
  PROVE  Kept(ms, d) \in Nat
<1>1. BytesIn(ms, d, Position) \in Nat
  BY BytesInNat
<1>2. ms.saved[d] \in Nat
  BY DEF MsecType
<1> QED
  BY <1>1, <1>2 DEF Kept

LEMMA HistogramStep ==
  ASSUME NEW acc \in AccType, NEW nic \in Nic, NEW d \in Dir, NEW data \in Seq(Nat)
  PROVE  LET r == CalculateAndUpdateHistogram(acc, nic, d, data)
         IN  /\ r \in AccType
             /\ Total(r) = Total(acc) + SumOver(data, 1 .. Len(data))
             /\ Sound(acc) => Sound(r)
<1> DEFINE r == CalculateAndUpdateHistogram(acc, nic, d, data)
           capped == Capped(data, acc.carry)
           copied == CopyOverBandwidthStats(acc.msec, d, nic, capped.bw)
           out == SumOver(capped.bw, 1 .. Len(data))
           in == SumOver(data, 1 .. Len(data))
<1>1. /\ acc.carry \in Nat /\ acc.msec \in MsecType
      /\ acc.submitted \in Counts
  BY DEF AccType
<1>2. /\ capped.carry \in Nat /\ capped.bw \in Seq(Nat) /\ Len(capped.bw) = Len(data)
      /\ out + capped.carry = in + acc.carry
  BY <1>1, CappedConserves
<1>3. r = [carry |-> capped.carry, msec |-> copied,
           submitted |-> [acc.submitted EXCEPT ![d] = @ + out]]
  BY <1>2, SumIs DEF CalculateAndUpdateHistogram
<1> HIDE DEF capped
<1>4. /\ copied \in MsecType
      /\ Kept(copied, d) <= Kept(acc.msec, d) + out
      /\ \A e \in Dir : e # d => Kept(copied, e) = Kept(acc.msec, e)
  BY <1>1, <1>2, CopyOverKeeps
<1>5. in \in Nat /\ out \in Nat
  <2>1. Len(data) \in Nat /\ \A i \in 1 .. Len(data) : data[i] \in Nat
    OBVIOUS
  <2>2. \A i \in 1 .. Len(data) : capped.bw[i] \in Nat
    BY <1>2
  <2>3. IsFiniteSet(1 .. Len(data))
    BY <2>1, FS_Interval
  <2>4. in \in Nat
    BY <2>1, <2>3, SumNat
  <2>5. out \in Nat
    BY <2>2, <2>3, SumNat
  <2> QED
    BY <2>4, <2>5
<1> HIDE DEF r, copied, out, in
<1>6. r \in AccType
  BY <1>1, <1>2, <1>3, <1>4, <1>5 DEF AccType, Counts
<1>7. /\ r.carry = capped.carry /\ r.msec = copied
      /\ r.submitted[d] = acc.submitted[d] + out
      /\ \A e \in Dir : e # d => r.submitted[e] = acc.submitted[e]
      /\ \A e \in Dir : acc.submitted[e] \in Nat
  BY <1>1, <1>3 DEF Counts
<1>8. r.submitted["Send"] + r.submitted["Recv"]
        = acc.submitted["Send"] + acc.submitted["Recv"] + out
  <2>1. CASE d = "Send"
    BY <1>5, <1>7, <2>1 DEF Dir
  <2>2. CASE d = "Recv"
    BY <1>5, <1>7, <2>2 DEF Dir
  <2> QED
    BY <2>1, <2>2 DEF Dir
<1>9. Total(r) = Total(acc) + in
  <2> DEFINE s == acc.submitted["Send"] + acc.submitted["Recv"]
             t == r.submitted["Send"] + r.submitted["Recv"]
  <2>1. s \in Nat /\ t = s + out
    BY <1>7, <1>8 DEF Dir
  <2> HIDE DEF s, t
  <2>2. t + r.carry = (s + acc.carry) + in
    <3> DEFINE u == capped.carry
               v == acc.carry
    <3>1. u \in Nat /\ v \in Nat /\ out + u = in + v
      BY <1>1, <1>2
    <3> HIDE DEF u, v
    <3>2. t + u = (s + v) + in
      BY <1>5, <2>1, <3>1
    <3> QED
      BY <1>7, <3>2 DEF u, v
  <2> QED
    BY <2>2 DEF Total, s, t
<1>10. ASSUME Sound(acc), NEW e \in Dir
       PROVE  Kept(r.msec, e) <= r.submitted[e]
  <2>1. /\ Kept(copied, e) \in Nat /\ Kept(acc.msec, e) \in Nat
        /\ Kept(acc.msec, e) <= acc.submitted[e]
    BY <1>1, <1>4, <1>10, KeptNat DEF Sound
  <2>2. CASE e = d
    BY <1>4, <1>5, <1>7, <2>1, <2>2
  <2>3. CASE e # d
    BY <1>4, <1>7, <2>1, <2>3
  <2> QED
    BY <2>2, <2>3
<1> QED
  BY <1>6, <1>9, <1>10 DEF Sound, r, in

\* The samples of the connections, as a window reads them.
Readable(swapped, valid) ==
  /\ valid \in 0 .. Burst /\ Open \subseteq Connection
  /\ \A c \in Open : swapped[c] \in ConnType

LEMMA AggregatedBwNat ==
  ASSUME NEW swapped, NEW valid, Readable(swapped, valid),
         NEW c \in Open, NEW d \in Dir, NEW i \in 0 .. valid - 1
  PROVE  AggregatedBw(swapped[c], d, i) \in Nat
<1>1. i \in Index
  BY Sizes DEF Readable, Index
<1>2. swapped[c] \in ConnType /\ 1 - swapped[c].gen \in 0 .. 1
  BY DEF Readable, ConnType
<1>3. swapped[c].buffer[1 - swapped[c].gen] \in BufferType
  BY <1>2 DEF ConnType
<1>4. ReadBuffer(swapped[c]).bw[d] \in [Index -> Nat]
  BY <1>3 DEF ReadBuffer, BufferType
<1> QED
  BY <1>1, <1>4 DEF AggregatedBw

LEMMA OpenFinite ==
  ASSUME Open \subseteq Connection, NEW G \in SUBSET Open
  PROVE  IsFiniteSet(G)
BY FS_Subset, BandwidthAssumption

Column(swapped, d, j) == [c \in Open |-> AggregatedBw(swapped[c], d, j - 1)]
OfNic(nic) == {c \in Open : NicOf[c] = nic}

LEMMA NicBwType ==
  ASSUME NEW swapped, NEW valid, Readable(swapped, valid), NEW nic, NEW d \in Dir
  PROVE  /\ NicBw(swapped, nic, d, valid) \in Seq(Nat)
         /\ Len(NicBw(swapped, nic, d, valid)) = valid
         /\ \A j \in 1 .. valid :
              /\ NicBw(swapped, nic, d, valid)[j] = SumOver(Column(swapped, d, j), OfNic(nic))
              /\ \A c \in Open : Column(swapped, d, j)[c] \in Nat
<1> DEFINE bw == NicBw(swapped, nic, d, valid)
<1>1. valid \in Nat
  BY Sizes DEF Readable
<1>2. IsFiniteSet(OfNic(nic))
  BY OpenFinite DEF Readable, OfNic
<1>3. ASSUME NEW j \in 1 .. valid
      PROVE  /\ \A c \in Open : Column(swapped, d, j)[c] \in Nat
             /\ SumOver(Column(swapped, d, j), OfNic(nic)) \in Nat
  <2>1. j - 1 \in 0 .. valid - 1
    BY <1>1
  <2>2. \A c \in Open : AggregatedBw(swapped[c], d, j - 1) \in Nat
    BY <2>1, AggregatedBwNat
  <2>3. \A c \in Open : Column(swapped, d, j)[c] \in Nat
    BY <2>2 DEF Column
  <2>4. \A c \in OfNic(nic) : Column(swapped, d, j)[c] \in Nat
    BY <2>3 DEF OfNic
  <2>5. SumOver(Column(swapped, d, j), OfNic(nic)) \in Nat
    BY <1>2, <2>4, SumNat
  <2> QED
    BY <2>3, <2>5
<1>4. bw = [j \in 1 .. valid |-> SumOver(Column(swapped, d, j), OfNic(nic))]
  BY SumIs DEF NicBw, Column, OfNic
<1>5. bw \in [1 .. valid -> Nat]
  BY <1>3, <1>4
<1> HIDE DEF bw
<1>6. bw \in Seq(Nat) /\ Len(bw) = valid
  BY <1>1, <1>5
<1> QED
  BY <1>3, <1>4, <1>6 DEF bw

NicStep(acc, nic, swapped, valid) ==
  CalculateAndUpdateHistogram(
    CalculateAndUpdateHistogram(acc, nic, "Send", NicBw(swapped, nic, "Send", valid)),
    nic, "Recv", NicBw(swapped, nic, "Recv", valid))

NicTotal(swapped, nic, d, valid) == SumOver(NicBw(swapped, nic, d, valid), 1 .. valid)

LEMMA NicStepSound ==
  ASSUME NEW swapped, NEW valid, Readable(swapped, valid),
         NEW acc \in AccType, NEW nic \in Nic
  PROVE  LET r == NicStep(acc, nic, swapped, valid)
         IN  /\ r \in AccType
             /\ Total(r) = Total(acc) + (NicTotal(swapped, nic, "Send", valid)
                                           + NicTotal(swapped, nic, "Recv", valid))
             /\ Sound(acc) => Sound(r)
             /\ NicTotal(swapped, nic, "Send", valid) \in Nat
             /\ NicTotal(swapped, nic, "Recv", valid) \in Nat
<1> DEFINE s == NicBw(swapped, nic, "Send", valid)
           t == NicBw(swapped, nic, "Recv", valid)
           one == CalculateAndUpdateHistogram(acc, nic, "Send", s)
           r == CalculateAndUpdateHistogram(one, nic, "Recv", t)
           sum == SumOver(s, 1 .. valid)
           tum == SumOver(t, 1 .. valid)
<1>1. "Send" \in Dir /\ "Recv" \in Dir /\ valid \in Nat
  BY Sizes DEF Dir, Readable
<1>2. s \in Seq(Nat) /\ Len(s) = valid /\ t \in Seq(Nat) /\ Len(t) = valid
  BY <1>1, NicBwType
<1> HIDE DEF s, t
<1>3. one \in AccType /\ Total(one) = Total(acc) + sum /\ (Sound(acc) => Sound(one))
  BY <1>1, <1>2, HistogramStep
<1> HIDE DEF one
<1>4. r \in AccType /\ Total(r) = Total(one) + tum /\ (Sound(one) => Sound(r))
  BY <1>1, <1>2, <1>3, HistogramStep
<1>5. sum \in Nat /\ tum \in Nat
  <2>1. IsFiniteSet(1 .. valid)
    BY <1>1, FS_Interval
  <2>2. (\A i \in 1 .. valid : s[i] \in Nat) /\ \A i \in 1 .. valid : t[i] \in Nat
    BY <1>2
  <2> QED
    BY <2>1, <2>2, SumNat
<1> HIDE DEF r, sum, tum
<1>6. Total(acc) \in Nat
  BY DEF Total, AccType, Counts, Dir
<1>7. Total(r) = Total(acc) + (sum + tum)
  BY <1>3, <1>4, <1>5, <1>6
<1>8. r = NicStep(acc, nic, swapped, valid)
  BY DEF r, one, s, t, NicStep
<1>9. sum = NicTotal(swapped, nic, "Send", valid) /\ tum = NicTotal(swapped, nic, "Recv", valid)
  BY DEF sum, tum, s, t, NicTotal
<1> QED
  BY <1>3, <1>4, <1>5, <1>7, <1>8, <1>9

\* The NICs of a window, element by element.
LEMMA AggregateNicsRun ==
  ASSUME NEW swapped, NEW valid, Readable(swapped, valid),
         NEW from \in AccType, NEW q \in Seq(Nic), q = SetToSeq(nics)
  PROVE  \E acc \in [0 .. Len(q) -> AccType] :
            /\ acc[0] = from
            /\ \A i \in 1 .. Len(q) : acc[i] = NicStep(acc[i - 1], q[i], swapped, valid)
            /\ AggregateNicStats(from, swapped, valid) = acc[Len(q)]
<1> DEFINE n == Len(q)
           step == [p \in (1 .. n) \X AccType |-> NicStep(p[2], q[p[1]], swapped, valid)]
           Fold(g) == g = [s \in SUBSET (1 .. n) |->
                             IF s = {} THEN from ELSE NicStep(g[s \ {Max(s)}], q[Max(s)], swapped, valid)]
           sol == CHOOSE g : Fold(g)
<1> DEFINE base == from
<1>0. n \in Nat /\ base \in AccType /\ DOMAIN q = 1 .. n /\ \A i \in 1 .. n : q[i] \in Nic
  OBVIOUS
<1>1. \E g \in [SUBSET (1 .. n) -> AccType] : Fold(g)
  <2>1. step \in [(1 .. n) \X AccType -> AccType]
    BY <1>0, NicStepSound
  <2> HIDE DEF step
  <2>2. PICK g \in [SUBSET (1 .. n) -> AccType] : FoldsLeft(g, n, base, step)
    <3> HIDE DEF n
    <3> QED
      BY <1>0, <2>1, LeftFoldExists
  <2>3. ASSUME NEW s \in SUBSET (1 .. n), s # {}
        PROVE  g[s] = NicStep(g[s \ {Max(s)}], q[Max(s)], swapped, valid)
    <3>1. Max(s) \in 1 .. n /\ g[s \ {Max(s)}] \in AccType
      BY <1>0, <2>2, <2>3, MaxOfPart
    <3>2. step[<<Max(s), g[s \ {Max(s)}]>>] = NicStep(g[s \ {Max(s)}], q[Max(s)], swapped, valid)
      BY <3>1 DEF step
    <3> QED
      BY <2>2, <2>3, <3>2 DEF FoldsLeft
  <2> QED
    BY <2>2, <2>3 DEF FoldsLeft
<1>2. PICK typed \in [SUBSET (1 .. n) -> AccType] : Fold(typed)
  BY <1>1
<1>3. Fold(sol)
  <2> HIDE DEF Fold
  <2> QED
    BY <1>2
<1>4. AggregateNicStats(from, swapped, valid) = sol[1 .. n]
  BY <1>0 DEF AggregateNicStats, NicStep, FoldLeft, MapThenFoldSet
<1> HIDE DEF sol
<1>5. ASSUME NEW i \in 1 .. n
      PROVE  /\ 1 .. i \in SUBSET (1 .. n)
             /\ sol[1 .. i] = NicStep(sol[1 .. i - 1], q[i], swapped, valid)
             /\ typed[1 .. i] = NicStep(typed[1 .. i - 1], q[i], swapped, valid)
  <2> DEFINE s == 1 .. i
  <2>1. s \in SUBSET (1 .. n) /\ s # {} /\ Max(s) = i /\ s \ {Max(s)} = 1 .. i - 1
    BY <1>0, <1>5, IntervalWithoutMax
  <2> HIDE DEF s
  <2>2. /\ sol[s] = NicStep(sol[s \ {Max(s)}], q[Max(s)], swapped, valid)
        /\ typed[s] = NicStep(typed[s \ {Max(s)}], q[Max(s)], swapped, valid)
    BY <1>2, <1>3, <2>1
  <2> QED
    BY <2>1, <2>2 DEF s
<1> DEFINE a == [i \in 0 .. n |-> sol[1 .. i]]
           b == [i \in 0 .. n |-> typed[1 .. i]]
<1>6. a[0] = base /\ b[0] = base
  BY <1>0, <1>2, <1>3
<1>7. ASSUME NEW i \in 1 .. n
      PROVE  a[i] = NicStep(a[i - 1], q[i], swapped, valid) /\ b[i] = NicStep(b[i - 1], q[i], swapped, valid) /\ b[i] \in AccType
  <2>1. a[i] = sol[1 .. i] /\ a[i - 1] = sol[1 .. i - 1]
    BY <1>0, <1>7
  <2>2. b[i] = typed[1 .. i] /\ b[i - 1] = typed[1 .. i - 1]
    BY <1>0, <1>7
  <2>3. typed[1 .. i] \in AccType
    BY <1>2, <1>5
  <2> HIDE DEF a, b
  <2> QED
    BY <1>5, <2>1, <2>2, <2>3
<1>8. b[0] \in AccType /\ a[n] = sol[1 .. n] /\ a \in [0 .. n -> {a[i] : i \in 0 .. n}]
  BY <1>0, <1>6
<1> HIDE DEF a, b, n
<1>9. \A i \in 0 .. n : a[i] = b[i]
  <2> DEFINE I == {i \in 0 .. n : a[i] = b[i]}
  <2>1. n \in Nat /\ 0 \in I
    BY <1>0, <1>6
  <2>2. ASSUME NEW i \in 1 .. n, i - 1 \in I
        PROVE  i \in I
    BY <1>0, <1>7, <2>2
  <2> HIDE DEF I
  <2>3. \A i \in 0 .. n : i \in I
    BY <2>1, <2>2, RunInduction
  <2> QED
    BY <2>3 DEF I
<1>10. a \in [0 .. n -> AccType]
  BY <1>0, <1>7, <1>8, <1>9, SMTT(30)
<1> QED
  BY <1>0, <1>4, <1>6, <1>7, <1>8, <1>10 DEF n

\* The NICs, each once.
LEMMA NicsOnce ==
  ASSUME nics \subseteq Nic
  PROVE  LET q == SetToSeq(nics)
         IN  /\ q \in Seq(Nic) /\ Len(q) \in Nat
             /\ \A i, j \in 1 .. Len(q) : q[i] = q[j] => i = j
             /\ {q[i] : i \in 1 .. Len(q)} = nics
<1> DEFINE q == SetToSeq(nics)
           n == Cardinality(nics)
           Each(f) == f \in [1 .. n -> nics] /\ IsInjective(f)
<1>1. IsFiniteSet(nics)
  BY FS_Subset, MillisecondAssumption
<1>2. n \in Nat /\ ExistsBijection(1 .. n, nics)
  BY <1>1, FS_CardinalityType
<1>3. \E f : Each(f)
  BY <1>2 DEF ExistsBijection, Bijection, Injection, IsInjective
<1>4. q = CHOOSE f \in [1 .. n -> nics] : IsInjective(f)
  BY DEF SetToSeq
<1>5. Each(q)
  BY <1>3, <1>4
<1> HIDE DEF q
<1>6. DOMAIN q = 1 .. n /\ q \in Seq(Nic) /\ Len(q) = n
  BY <1>2, <1>5
<1>7. \A i, j \in 1 .. n : q[i] = q[j] => i = j
  BY <1>5, <1>6 DEF IsInjective
<1>8. q \in Surjection(1 .. n, nics)
  <2>1. q \in Injection(1 .. n, nics)
    BY <1>5, <1>7 DEF Injection
  <2>2. Cardinality(1 .. n) = Cardinality(nics)
    BY <1>2, FS_Interval
  <2> QED
    BY <1>1, <2>1, <2>2, FS_Injection
<1>9. {q[i] : i \in 1 .. n} = nics
  BY <1>8 DEF Surjection
<1> QED
  BY <1>2, <1>6, <1>7, <1>9 DEF q

NicTotals(swapped, valid) ==
  [nic \in nics |-> NicTotal(swapped, nic, "Send", valid) + NicTotal(swapped, nic, "Recv", valid)]

LEMMA AggregateNicsConserves ==
  ASSUME NEW swapped, NEW valid, Readable(swapped, valid), nics \subseteq Nic,
         NEW from \in AccType
  PROVE  LET r == AggregateNicStats(from, swapped, valid)
         IN  /\ r \in AccType
             /\ Total(r) = Total(from) + SumOver(NicTotals(swapped, valid), nics)
             /\ Sound(from) => Sound(r)
<1> DEFINE r == AggregateNicStats(from, swapped, valid)
           q == SetToSeq(nics)
           n == Len(q)
           totals == NicTotals(swapped, valid)
           f == [i \in 1 .. n |-> totals[q[i]]]
<1>1. /\ q \in Seq(Nic) /\ n \in Nat
      /\ \A i, j \in 1 .. n : q[i] = q[j] => i = j
      /\ {q[i] : i \in 1 .. n} = nics
  BY NicsOnce
<1>2. PICK acc \in [0 .. n -> AccType] :
        /\ acc[0] = from
        /\ \A i \in 1 .. n : acc[i] = NicStep(acc[i - 1], q[i], swapped, valid)
        /\ r = acc[n]
  BY <1>1, AggregateNicsRun, SMTT(30)
<1> HIDE DEF r, q, n
<1>3. ASSUME NEW i \in 1 .. n
      PROVE  q[i] \in nics /\ q[i] \in Nic /\ f[i] \in Nat
  <2>1. q[i] \in nics /\ q[i] \in Nic
    BY <1>1
  <2>2. from \in AccType /\ NicTotal(swapped, q[i], "Send", valid) \in Nat
        /\ NicTotal(swapped, q[i], "Recv", valid) \in Nat
    BY <2>1, NicStepSound
  <2> QED
    BY <2>1, <2>2 DEF NicTotals
<1>4. ASSUME NEW i \in 1 .. n
      PROVE  /\ Total(acc[i]) = Total(acc[i - 1]) + f[i]
             /\ Sound(acc[i - 1]) => Sound(acc[i])
  <2>1. acc[i - 1] \in AccType /\ acc[i] = NicStep(acc[i - 1], q[i], swapped, valid)
    BY <1>1, <1>2
  <2>2. f[i] = NicTotal(swapped, q[i], "Send", valid) + NicTotal(swapped, q[i], "Recv", valid)
    BY <1>3 DEF NicTotals
  <2> QED
    BY <1>3, <2>1, <2>2, NicStepSound
<1> HIDE DEF totals, f
<1>5. \A i \in 0 .. n : Total(acc[i]) \in Nat
  BY <1>2 DEF Total, AccType, Counts, Dir
<1> DEFINE Good(i) == /\ Total(acc[i]) = Total(from) + SumOver(f, 1 .. i)
                      /\ Sound(from) => Sound(acc[i])
           I == {i \in 0 .. n : Good(i)}
<1>6. Good(0)
  <2>1. 1 .. 0 = {}
    OBVIOUS
  <2>2. SumOver(f, 1 .. 0) = 0
    BY <2>1, SumEmpty
  <2>3. Total(from) \in Nat /\ acc[0] = from
    BY <1>1, <1>2, <1>5
  <2> QED
    BY <2>2, <2>3
<1>7. ASSUME NEW i \in 1 .. n, i - 1 \in I
      PROVE  i \in I
  <2> DEFINE a == 1
             m == i - 1
             s == SumOver(f, 1 .. i - 1)
  <2>1. a \in Int /\ m \in Nat /\ a + m = i /\ a + m - 1 = i - 1 /\ a = 1
    BY <1>1
  <2>2. (\A j \in a .. a + m : f[j] \in Int) /\ \A j \in 1 .. i - 1 : f[j] \in Int
    BY <1>1, <1>3
  <2> HIDE DEF a, m
  <2>3. SumOver(f, a .. a + m) = SumOver(f, a .. a + m - 1) + f[a + m]
    BY <2>1, <2>2, SumLonger
  <2>4. SumOver(f, 1 .. i) = s + f[i]
    BY <2>1, <2>3
  <2>5. s \in Int
    <3>1. IsFiniteSet(1 .. i - 1)
      BY <1>1, FS_Interval
    <3> QED
      BY <2>2, <3>1, SumIsInt
  <2>6. Total(acc[i - 1]) = Total(from) + s /\ (Sound(from) => Sound(acc[i - 1]))
    BY <1>7
  <2> HIDE DEF s
  <2>7. Total(from) \in Nat /\ f[i] \in Nat
    BY <1>1, <1>2, <1>3, <1>5
  <2>8. Total(acc[i]) = Total(from) + (s + f[i])
    BY <1>4, <2>5, <2>6, <2>7
  <2> QED
    BY <1>1, <1>4, <2>4, <2>6, <2>8
<1>8. Good(n)
  <2>1. 0 \in I
    BY <1>1, <1>6
  <2> HIDE DEF I
  <2>2. \A i \in 0 .. n : i \in I
    BY <1>1, <1>7, <2>1, RunInduction
  <2> QED
    BY <1>1, <2>2 DEF I
<1>9. SumOver(totals, nics) = SumOver(f, 1 .. n)
  <2> DEFINE S == 1 .. n
  <2>1. IsFiniteSet(S)
    BY <1>1, FS_Interval
  <2>2. /\ \A x, y \in S : q[x] = q[y] => x = y
        /\ \A x \in S : f[x] \in Int /\ totals[q[x]] = f[x]
        /\ {q[x] : x \in S} = nics
    BY <1>1, <1>3 DEF f
  <2> HIDE DEF S
  <2>3. SumOver(totals, {q[x] : x \in S}) = SumOver(f, S)
    BY <2>1, <2>2, SumImage
  <2> QED
    BY <2>2, <2>3 DEF S
<1>10. acc[n] \in AccType
  BY <1>1, <1>2
<1> QED
  BY <1>2, <1>8, <1>9, <1>10 DEF r, totals

-----------------------------------------------------------------------------
(***************************************************************************)
(* What is added up for the NICs is what is read from the connections.     *)
(***************************************************************************)
\* What a window reads of a connection.
Taken(swapped, valid, c, d) ==
  Sum([i \in Index |-> AggregatedBw(swapped[c], d, i)], 0 .. valid - 1)

Samples(swapped, c, d) == [i \in Index |-> AggregatedBw(swapped[c], d, i)]

LEMMA TakenNat ==
  ASSUME NEW swapped, NEW valid, Readable(swapped, valid), NEW c \in Open, NEW d \in Dir
  PROVE  /\ Taken(swapped, valid, c, d) \in Nat
         /\ Taken(swapped, valid, c, d) = SumOver(Samples(swapped, c, d), 0 .. valid - 1)
         /\ \A i \in 0 .. valid - 1 : Samples(swapped, c, d)[i] \in Nat
<1>1. valid \in 0 .. Burst /\ Burst \in Nat
  BY Sizes DEF Readable
<1>2. IsFiniteSet(0 .. valid - 1)
  BY <1>1, FS_Interval
<1>3. ASSUME NEW i \in 0 .. valid - 1
      PROVE  Samples(swapped, c, d)[i] \in Nat
  <2>1. i \in Index
    BY <1>1 DEF Index
  <2>2. AggregatedBw(swapped[c], d, i) \in Nat
    BY AggregatedBwNat
  <2> QED
    BY <2>1, <2>2 DEF Samples
<1>4. SumOver(Samples(swapped, c, d), 0 .. valid - 1) \in Nat
  BY <1>2, <1>3, SumNat
<1> QED
  BY <1>3, <1>4, SumIs DEF Taken, Samples

LEMMA NicTotalIs ==
  ASSUME NEW swapped, NEW valid, Readable(swapped, valid), NEW nic \in Nic, NEW d \in Dir
  PROVE  NicTotal(swapped, nic, d, valid)
           = SumOver([c \in Open |-> Taken(swapped, valid, c, d)], OfNic(nic))
<1> DEFINE S == 1 .. valid
           T == OfNic(nic)
           bw == NicBw(swapped, nic, d, valid)
           f == [j \in S |-> Column(swapped, d, j)]
           columns == [c \in Open |-> Taken(swapped, valid, c, d)]
<1>1. valid \in Nat /\ valid \in 0 .. Burst /\ Burst \in Nat
  BY Sizes DEF Readable
<1>2. IsFiniteSet(S)
  BY <1>1, FS_Interval
<1>3. IsFiniteSet(T) /\ \A c \in T : c \in Open
  BY OpenFinite DEF Readable, OfNic
<1>4. /\ \A j \in S, c \in T : f[j][c] \in Int
      /\ \A j \in S : bw[j] = SumOver(f[j], T)
  BY <1>3, NicBwType, SMTT(30)
<1>5. ASSUME NEW c \in T
      PROVE  columns[c] = SumOver([j \in S |-> f[j][c]], S)
  <2> DEFINE g == Samples(swapped, c, d)
             h == [j \in S |-> f[j][c]]
             a == 0
             b == valid - 1
             a1 == 1
  <2>1. columns[c] = SumOver(g, a .. b) /\ \A i \in 0 .. valid - 1 : g[i] \in Nat
    BY <1>3, TakenNat
  <2>2. ASSUME NEW i \in a .. b
        PROVE  g[i] \in Int /\ h[i + (a1 - a)] = g[i]
    <3>1. i + 1 \in S /\ (i + 1) - 1 = i /\ i \in Index /\ c \in Open
      BY <1>1, <1>3 DEF Index
    <3>2. h[i + 1] = Column(swapped, d, i + 1)[c]
      BY <3>1
    <3>3. Column(swapped, d, i + 1)[c] = AggregatedBw(swapped[c], d, i)
      BY <3>1 DEF Column
    <3>4. g[i] = AggregatedBw(swapped[c], d, i)
      BY <3>1 DEF Samples
    <3> QED
      BY <2>1, <3>2, <3>3, <3>4
  <2>3. valid - a1 = b - a /\ a \in Int /\ b \in Int /\ a1 \in Int /\ valid \in Int /\ a1 .. valid = S
    BY <1>1
  <2> HIDE DEF g, h
  <2>4. Moved(g, a, b, h, a1, valid)
    BY <2>2, <2>3 DEF Moved
  <2> HIDE DEF a, b, a1, S
  <2>5. SumOver(h, a1 .. valid) = SumOver(g, a .. b)
    BY <2>3, <2>4, SumShift
  <2> QED
    BY <2>1, <2>3, <2>5 DEF h
<1> HIDE DEF S, T, f, bw, columns
<1>6. RowsAndColumns(f, S, bw, T, columns)
  BY <1>4, <1>5 DEF RowsAndColumns
<1>7. SumOver(bw, S) = SumOver(columns, T)
  BY <1>2, <1>3, <1>6, SumSwap
<1> QED
  BY <1>7 DEF bw, NicTotal, S, T, columns

\* Both directions of a window, of the connections.
BothTaken(swapped, valid) ==
  [c \in Open |-> Taken(swapped, valid, c, "Send") + Taken(swapped, valid, c, "Recv")]

LEMMA NicsAreConnections ==
  ASSUME NEW swapped, NEW valid, Readable(swapped, valid),
         nics \subseteq Nic, \A c \in Open : NicOf[c] \in nics
  PROVE  SumOver(NicTotals(swapped, valid), nics) = SumOver(BothTaken(swapped, valid), Open)
<1> DEFINE both == BothTaken(swapped, valid)
           totals == NicTotals(swapped, valid)
           taken(d) == [c \in Open |-> Taken(swapped, valid, c, d)]
<1>1. IsFiniteSet(Open) /\ IsFiniteSet(nics)
  BY OpenFinite, FS_Subset, MillisecondAssumption DEF Readable
<1>2. "Send" \in Dir /\ "Recv" \in Dir
  BY DEF Dir
<1>3. \A c \in Open : both[c] \in Int /\ taken("Send")[c] \in Int /\ taken("Recv")[c] \in Int
                      /\ both[c] = taken("Send")[c] + taken("Recv")[c]
  BY <1>2, TakenNat DEF BothTaken
<1>4. ASSUME NEW nic \in nics
      PROVE  totals[nic] = SumOver(both, {c \in Open : NicOf[c] = nic})
  <2> DEFINE T == OfNic(nic)
             s == taken("Send")
             r == taken("Recv")
  <2>1. IsFiniteSet(T) /\ \A c \in T : c \in Open
    BY OpenFinite DEF Readable, OfNic
  <2>2. totals[nic] = SumOver(s, T) + SumOver(r, T)
    <3>1. nic \in Nic
      OBVIOUS
    <3> QED
      BY <1>2, <3>1, NicTotalIs DEF NicTotals
  <2>3. \A c \in T : s[c] \in Int /\ r[c] \in Int /\ both[c] = s[c] + r[c]
    BY <1>3, <2>1
  <2> HIDE DEF s, r, T, both
  <2>4. SumOver(both, T) = SumOver(s, T) + SumOver(r, T)
    BY <2>1, <2>3, SumPlus
  <2> QED
    BY <2>2, <2>4 DEF T, OfNic
<1>5. \A c \in Open : NicOf[c] \in nics /\ both[c] \in Int
  BY <1>3
<1> HIDE DEF both, totals, taken
<1> DEFINE S == Open
<1>6. /\ IsFiniteSet(S) /\ \A c \in S : both[c] \in Int
      /\ \A c \in S : NicOf[c] \in nics
      /\ \A nic \in nics : totals[nic] = SumOver(both, {c \in S : NicOf[c] = nic})
  BY <1>1, <1>4, <1>5
<1> HIDE DEF S
<1>7. GroupsOf(both, S, NicOf, totals, nics)
  BY <1>6 DEF GroupsOf
<1>8. SumOver(totals, nics) = SumOver(both, S)
  BY <1>1, <1>6, <1>7, SumGroups
<1> QED
  BY <1>8 DEF both, totals, S

\* The connections that are closed have added nothing up.
AddedUp(swapped, valid) ==
  [c \in Connection |->
     IF c \in Open
     THEN [d \in Dir |-> aggregated[c][d] + Taken(swapped, valid, c, d)]
     ELSE aggregated[c]]

LEMMA AddedUpIs ==
  ASSUME NEW swapped, NEW valid, Readable(swapped, valid),
         aggregated \in [Connection -> Counts],
         nics \subseteq Nic, \A c \in Open : NicOf[c] \in nics
  PROVE  BothDirections(AddedUp(swapped, valid))
           = BothDirections(aggregated) + SumOver(NicTotals(swapped, valid), nics)
<1> DEFINE new == AddedUp(swapped, valid)
           old == [c \in Connection |-> aggregated[c]["Send"] + aggregated[c]["Recv"]]
           sum == [c \in Connection |-> new[c]["Send"] + new[c]["Recv"]]
           both == BothTaken(swapped, valid)
           more == [c \in Connection |-> IF c \in Open THEN both[c] ELSE 0]
           closed == Connection \ Open
<1>1. "Send" \in Dir /\ "Recv" \in Dir
  BY DEF Dir
<1>2. Open \subseteq Connection /\ IsFiniteSet(Connection) /\ IsFiniteSet(Open)
      /\ IsFiniteSet(closed)
  BY OpenFinite, BandwidthAssumption, FS_Subset DEF Readable
<1>3. \A c \in Open : /\ Taken(swapped, valid, c, "Send") \in Nat
                      /\ Taken(swapped, valid, c, "Recv") \in Nat
                      /\ both[c] = Taken(swapped, valid, c, "Send") + Taken(swapped, valid, c, "Recv")
  BY <1>1, TakenNat DEF BothTaken
<1>4. \A c \in Connection : aggregated[c]["Send"] \in Nat /\ aggregated[c]["Recv"] \in Nat
  BY <1>1 DEF Counts
<1>5. ASSUME NEW c \in Connection
      PROVE  old[c] \in Int /\ more[c] \in Int /\ sum[c] = old[c] + more[c]
  <2>1. CASE c \in Open
    <3>1. /\ new[c]["Send"] = aggregated[c]["Send"] + Taken(swapped, valid, c, "Send")
          /\ new[c]["Recv"] = aggregated[c]["Recv"] + Taken(swapped, valid, c, "Recv")
      BY <1>1, <2>1 DEF AddedUp
    <3> QED
      BY <1>3, <1>4, <2>1, <3>1
  <2>2. CASE c \notin Open
    <3>1. new[c] = aggregated[c]
      BY <2>2 DEF AddedUp
    <3> QED
      BY <1>4, <2>2, <3>1
  <2> QED
    BY <2>1, <2>2
<1>6. /\ \A c \in Open : both[c] \in Int /\ more[c] = both[c]
      /\ \A c \in closed : more[c] = 0
      /\ Connection = Open \cup closed /\ Open \cap closed = {}
      /\ \A c \in Connection : more[c] \in Int
  BY <1>2, <1>3, <1>5
<1> DEFINE O == Open
<1>7. /\ \A c \in O : both[c] \in Int /\ more[c] = both[c]
      /\ \A c \in closed : more[c] = 0
      /\ Connection = O \cup closed /\ O \cap closed = {} /\ IsFiniteSet(O)
      /\ \A c \in Connection : more[c] \in Int
  BY <1>2, <1>6
<1>8. BothDirections(new) = SumOver(sum, Connection)
      /\ BothDirections(aggregated) = SumOver(old, Connection)
  BY SumIs DEF BothDirections
<1>9. SumOver(NicTotals(swapped, valid), nics) = SumOver(both, O)
  BY NicsAreConnections
<1> HIDE DEF old, sum, both, more, closed, O, new
<1>10. SumOver(sum, Connection) = SumOver(old, Connection) + SumOver(more, Connection)
  BY <1>2, <1>5, SumPlus
<1>11. SumOver(more, Connection) = SumOver(more, O) + SumOver(more, closed)
  BY <1>2, <1>7, SumUnion
<1>12. SumOver(more, O) = SumOver(both, O)
  BY <1>7, SumEqual
<1>13. SumOver(more, closed) = 0
  BY <1>2, <1>7, SumZero
<1>14. SumOver(both, O) \in Int
  BY <1>7, SumIsInt
<1>15. SumOver(more, Connection) = SumOver(both, O)
  BY <1>11, <1>12, <1>13, <1>14
<1> QED
  BY <1>8, <1>9, <1>10, <1>15 DEF new

-----------------------------------------------------------------------------
(***************************************************************************)
(* The buffers of a connection in a window: the buckets in use are split   *)
(* into those added up and those carried over.                             *)
(***************************************************************************)
LEMMA ValidLimit ==
  ASSUME NEW unused \in Nat
  PROVE  /\ BwVecValidLimit(unused) \in Nat
         /\ BwVecValidLimit(unused) + CarryOver <= Burst
         /\ BwVecValidLimit(unused) + CarryOver >= Burst - unused
BY Sizes DEF BwVecValidLimit, Larger

LEMMA BufferOf ==
  ASSUME NEW cn \in ConnType
  PROVE  /\ cn.gen \in 0 .. 1 /\ 1 - cn.gen \in 0 .. 1 /\ 1 - cn.gen # cn.gen
         /\ 1 - (1 - cn.gen) = cn.gen
         /\ \A state \in 0 .. 1 : cn.buffer[state] \in BufferType
         /\ \A state \in 0 .. 1, d \in Dir : cn.buffer[state].bw[d] \in [Index -> Nat]
         /\ WriteBuffer(cn) = cn.buffer[cn.gen]
         /\ ReadBuffer(cn) = cn.buffer[1 - cn.gen]
<1>1. cn.gen \in 0 .. 1 /\ \A state \in 0 .. 1 : cn.buffer[state] \in BufferType
  BY DEF ConnType
<1> QED
  BY <1>1 DEF BufferType, WriteBuffer, ReadBuffer

\* What a window makes of a connection: s is what is added up, r what is left.
WindowLeaves(cn, t, valid, s, r) ==
  /\ s \in ConnType /\ r \in ConnType
  /\ ReadBuffer(r).bw = AllZero /\ WriteBuffer(r).start = t
  /\ \A state \in 0 .. 1 : r.buffer[state].start \in {t, cn.buffer[state].start}
  /\ \A d \in Dir, i \in Index :
       /\ AggregatedBw(s, d, i) = IF d = "Send" THEN WriteBuffer(cn).bw[d][i] ELSE 0
       /\ i >= CarryOver => WriteBuffer(r).bw[d][i] = 0
       /\ i < CarryOver => WriteBuffer(r).bw[d][i] = WriteBuffer(cn).bw[d][i + valid]

NothingRead(cn) == ReadBuffer(cn).bw = AllZero

LEMMA WindowOfConnection ==
  ASSUME NEW cn \in ConnType, NothingRead(cn),
         NEW t \in Nat, NEW unused \in Nat
  PROVE  WindowLeaves(cn, t, BwVecValidLimit(unused),
                      Swapped(cn, t, unused), Aggregated(Swapped(cn, t, unused)))
<1> USE DEF NothingRead
<1> DEFINE valid == BwVecValidLimit(unused)
           g == cn.gen
           old == cn.buffer[g]
           new == cn.buffer[1 - g]
           bw == [d \in Dir |-> [i \in Index |->
                    IF i < CarryOver THEN old.bw[d][i + valid] ELSE new.bw[d][i]]]
           filled == [start |-> t, bw |-> bw]
           s == Swapped(cn, t, unused)
           r == Aggregated(s)
<1>1. /\ g \in 0 .. 1 /\ 1 - g \in 0 .. 1 /\ 1 - g # g /\ 1 - (1 - g) = g
      /\ cn = [gen |-> g, buffer |-> cn.buffer]
      /\ cn.buffer \in [0 .. 1 -> BufferType]
      /\ old \in BufferType /\ new \in BufferType
      /\ new.bw = AllZero
  BY BufferOf DEF ConnType
<1>2. /\ valid \in Nat /\ valid + CarryOver <= Burst /\ CarryOver \in Nat /\ Burst \in Nat
  BY ValidLimit, Sizes
<1>3. AllZero \in [Dir -> [Index -> Nat]] /\ \A d \in Dir, i \in Index : AllZero[d][i] = 0
  BY DEF AllZero, Zero
<1>4. old.bw \in [Dir -> [Index -> Nat]] /\ new.bw \in [Dir -> [Index -> Nat]]
  BY <1>1 DEF BufferType
<1> HIDE DEF valid, old, new
<1>5. bw \in [Dir -> [Index -> Nat]]
  <2>1. ASSUME NEW d \in Dir, NEW i \in Index
        PROVE  (IF i < CarryOver THEN old.bw[d][i + valid] ELSE new.bw[d][i]) \in Nat
    <3>1. i < CarryOver => i + valid \in Index
      BY <1>2 DEF Index
    <3>2. old.bw[d] \in [Index -> Nat] /\ new.bw[d] \in [Index -> Nat]
      BY <1>4
    <3> QED
      BY <3>1, <3>2
  <2> QED
    BY <2>1
<1>6. \A d \in Dir, i \in Index :
        bw[d][i] = IF i < CarryOver THEN old.bw[d][i + valid] ELSE 0
  BY <1>1, <1>3
<1>7. s = [gen |-> 1 - g, buffer |-> [cn.buffer EXCEPT ![1 - g] = filled]]
  BY DEF Swapped, old, new, valid
<1> HIDE DEF bw, g
<1>8. filled \in BufferType /\ filled.start = t /\ filled.bw = bw
  BY <1>5 DEF BufferType
<1> HIDE DEF filled
<1> DEFINE sb == [cn.buffer EXCEPT ![1 - g] = filled]
<1>9. /\ sb \in [0 .. 1 -> BufferType]
      /\ sb[1 - g] = filled /\ sb[g] = old
  BY <1>1, <1>8 DEF old, g
<1> HIDE DEF sb, s
<1>10. s = [gen |-> 1 - g, buffer |-> sb] /\ s.gen = 1 - g /\ s.buffer = sb /\ s \in ConnType
  BY <1>1, <1>7, <1>9 DEF sb, ConnType
<1> DEFINE emptied == [sb[g] EXCEPT !.bw = AllZero]
           rb == [sb EXCEPT ![g] = emptied]
<1>11. r = [gen |-> 1 - g, buffer |-> rb]
  BY <1>1, <1>10 DEF Aggregated, AllZero
<1>12. emptied \in BufferType /\ emptied.bw = AllZero /\ emptied.start = old.start
  BY <1>1, <1>3, <1>9 DEF BufferType
<1> HIDE DEF emptied
<1>13. /\ rb \in [0 .. 1 -> BufferType]
       /\ rb[1 - g] = filled /\ rb[g] = emptied
  BY <1>1, <1>9, <1>12
<1> HIDE DEF rb, r
<1>14. r \in ConnType /\ r.gen = 1 - g /\ r.buffer = rb
  BY <1>1, <1>11, <1>13 DEF ConnType
<1>15. ReadBuffer(r) = emptied /\ WriteBuffer(r) = filled
  BY <1>1, <1>13, <1>14 DEF ReadBuffer, WriteBuffer
<1>16. ReadBuffer(s) = old /\ WriteBuffer(cn) = old
  BY <1>1, <1>9, <1>10 DEF ReadBuffer, WriteBuffer, old, g
<1>17. ASSUME NEW state \in 0 .. 1
       PROVE  r.buffer[state].start \in {t, cn.buffer[state].start}
  <2>1. CASE state = g
    BY <1>12, <1>13, <1>14, <2>1 DEF old, g
  <2>2. CASE state = 1 - g
    BY <1>8, <1>13, <1>14, <2>2
  <2> QED
    BY <1>1, <2>1, <2>2
<1>18. ASSUME NEW d \in Dir, NEW i \in Index
       PROVE  /\ AggregatedBw(s, d, i) = IF d = "Send" THEN WriteBuffer(cn).bw[d][i] ELSE 0
              /\ i >= CarryOver => WriteBuffer(r).bw[d][i] = 0
              /\ i < CarryOver => WriteBuffer(r).bw[d][i] = WriteBuffer(cn).bw[d][i + valid]
  <2>1. AggregatedBw(s, d, i) = IF d = "Send" THEN old.bw[d][i] ELSE 0
    BY <1>16 DEF AggregatedBw
  <2>2. WriteBuffer(r).bw[d][i] = IF i < CarryOver THEN old.bw[d][i + valid] ELSE 0
    BY <1>6, <1>8, <1>15
  <2>3. i \in Int /\ CarryOver \in Int
    BY <1>2 DEF Index
  <2> QED
    BY <1>16, <2>1, <2>2, <2>3
<1>19. ReadBuffer(r).bw = AllZero /\ WriteBuffer(r).start = t
  BY <1>8, <1>12, <1>15
<1> QED
  BY <1>10, <1>14, <1>17, <1>18, <1>19 DEF s, r, valid, WindowLeaves

LEMMA IndexFinite ==
  /\ IsFiniteSet(Index) /\ Index \subseteq Nat
  /\ \A a, b \in Int : IsFiniteSet(a .. b)
<1>1. \A a, b \in Int : IsFiniteSet(a .. b)
  BY FS_Interval
<1>2. Burst - 1 \in Int /\ 0 \in Int
  BY Sizes
<1> QED
  BY <1>1, <1>2 DEF Index

\* A buffer whose first buckets are added up and whose next are carried over.
LEMMA WindowSums ==
  ASSUME NEW f \in [Index -> Nat], NEW h \in [Index -> Nat],
         NEW valid \in Nat, valid + CarryOver <= Burst,
         \A i \in Index : h[i] = IF i < CarryOver THEN f[i + valid] ELSE 0
  PROVE  /\ SumOver(h, Index) + SumOver(f, 0 .. valid - 1) <= SumOver(f, Index)
         /\ (\A i \in Index : i >= valid + CarryOver => f[i] = 0)
              => SumOver(h, Index) + SumOver(f, 0 .. valid - 1) = SumOver(f, Index)
<1> DEFINE a == 0
           b == CarryOver - 1
           c == valid
           e == valid + CarryOver - 1
           A == a .. b
           B == Index \ A
           C == 0 .. valid - 1
           D == c .. e
           E == Index \ (C \cup D)
<1>1. CarryOver \in 0 .. Burst /\ Burst \in Nat
  BY Sizes
<1>2. /\ A \subseteq Index /\ B \subseteq Index /\ C \subseteq Index /\ D \subseteq Index
      /\ E \subseteq Index /\ Index = A \cup B /\ A \cap B = {} /\ C \cap D = {}
      /\ Index = (C \cup D) \cup E /\ (C \cup D) \cap E = {} /\ C \cup D \subseteq Index
  BY <1>1 DEF Index
<1>3. /\ \A i \in A : f[i + valid] = h[i] /\ h[i] \in Int
      /\ \A i \in B : h[i] = 0
      /\ (\A i \in Index : i >= valid + CarryOver => f[i] = 0) => \A i \in E : f[i] = 0
  BY <1>1 DEF Index
<1>4. \A i \in a .. b : h[i] \in Int /\ f[i + (c - a)] = h[i]
  BY <1>3
<1>5. a \in Int /\ b \in Int /\ c \in Int /\ e \in Int
  BY <1>1
<1>6. Moved(h, a, b, f, c, e)
  BY <1>1, <1>4 DEF Moved
<1>7. D = c .. e /\ A = a .. b
  OBVIOUS
<1>8. (\A i \in Index : f[i] \in Nat) /\ \A i \in Index : h[i] \in Nat
  OBVIOUS
<1> DEFINE U == C \cup D
<1>9. /\ IsFiniteSet(Index) /\ IsFiniteSet(A) /\ IsFiniteSet(B) /\ IsFiniteSet(C)
      /\ IsFiniteSet(D) /\ IsFiniteSet(E) /\ IsFiniteSet(U)
  <2> HIDE DEF A, B, C, D, E
  <2> QED
    BY <1>2, FS_Subset, IndexFinite
<1>10. /\ Index = U \cup E /\ U \cap E = {} /\ U = C \cup D /\ U \subseteq Index
  BY <1>2
<1> HIDE DEF a, b, c, e, A, B, C, D, E, U
<1>11. SumOver(f, c .. e) = SumOver(h, a .. b)
  BY <1>5, <1>6, SumShift
<1>12. SumOver(h, Index) = SumOver(h, A) + SumOver(h, B)
  <2>1. \A i \in Index : h[i] \in Int
    BY <1>8
  <2> QED
    BY <1>2, <1>9, <2>1, SumUnion
<1>13. SumOver(h, B) = 0
  BY <1>3, <1>9, SumZero
<1>14. SumOver(f, Index) = SumOver(f, U) + SumOver(f, E)
  <2>1. \A i \in Index : f[i] \in Int
    BY <1>8
  <2> QED
    BY <1>9, <1>10, <2>1, SumUnion
<1>15. SumOver(f, U) = SumOver(f, C) + SumOver(f, D)
  <2>1. \A i \in U : f[i] \in Int
    BY <1>8, <1>10
  <2> QED
    BY <1>2, <1>9, <1>10, <2>1, SumUnion
<1>16. /\ SumOver(f, C) \in Nat /\ SumOver(f, D) \in Nat /\ SumOver(f, E) \in Nat
       /\ SumOver(h, A) \in Nat
  <2>1. /\ \A i \in C : f[i] \in Nat
        /\ \A i \in D : f[i] \in Nat
        /\ \A i \in E : f[i] \in Nat
        /\ \A i \in A : h[i] \in Nat
    BY <1>2, <1>8
  <2> QED
    BY <1>9, <2>1, SumNat
<1>17. (\A i \in E : f[i] = 0) => SumOver(f, E) = 0
  BY <1>9, SumZero
<1> DEFINE s1 == SumOver(h, A)
           s2 == SumOver(f, C)
           s3 == SumOver(f, E)
<1>18. /\ SumOver(h, Index) = s1 /\ SumOver(f, Index) = (s2 + s1) + s3
       /\ s1 \in Nat /\ s2 \in Nat /\ s3 \in Nat
  BY <1>7, <1>11, <1>12, <1>13, <1>14, <1>15, <1>16
<1>19. (\A i \in Index : i >= valid + CarryOver => f[i] = 0) => s3 = 0
  BY <1>3, <1>17
<1> HIDE DEF s1, s2, s3
<1>20. SumOver(f, C) = s2
  BY DEF s2
<1> QED
  BY <1>18, <1>19, <1>20 DEF C

-----------------------------------------------------------------------------
(***************************************************************************)
(* A measurement is booked in full, in buckets that the clock has reached. *)
(***************************************************************************)
LEMMA Bucket ==
  ASSUME NEW a \in Nat, NEW b \in Nat \ {0}
  PROVE  a \div b \in Nat /\ (a % b = 0 => b * (a \div b) = a)
OBVIOUS

LEMMA TruncatedIs ==
  ASSUME NEW a \in Int
  PROVE  /\ Truncated(a, BucketTime) \in Int
         /\ a >= 0 => Truncated(a, BucketTime) = a \div BucketTime
         /\ a < 0 => Truncated(a, BucketTime) <= 0
<1>1. BucketTime \in Nat \ {0}
  BY MillisecondAssumption
<1>2. CASE a >= 0
  <2>1. a \in Nat
    BY <1>2
  <2>2. a \div BucketTime \in Nat
    BY <1>1, <2>1, DivNat
  <2> QED
    BY <1>2, <2>2 DEF Truncated
<1>3. CASE a < 0
  <2> DEFINE m == -a
  <2>1. m \in Nat /\ ~(a >= 0)
    BY <1>3
  <2>2. m \div BucketTime \in Nat
    BY <1>1, <2>1, DivNat
  <2>3. Truncated(a, BucketTime) = -(m \div BucketTime)
    BY <2>1 DEF Truncated
  <2> HIDE DEF m
  <2>4. Truncated(a, BucketTime) \in Int /\ Truncated(a, BucketTime) <= 0
    BY <2>2, <2>3
  <2> QED
    BY <1>3, <2>4
<1> QED
  BY <1>2, <1>3

LEMMA BookedRange ==
  ASSUME NEW elapsed \in Int, NEW latency \in Nat
  PROVE  /\ StartIdx(elapsed, latency) \in Nat /\ EndIdx(elapsed) \in 0 .. Burst
         /\ elapsed >= 0 =>
              /\ StartIdx(elapsed, latency) <= elapsed \div BucketTime
              /\ EndIdx(elapsed) <= elapsed \div BucketTime + 1
              /\ StartIdx(elapsed, latency) >= EndIdx(elapsed)
                   => Burst - 1 <= elapsed \div BucketTime
<1> DEFINE s == Truncated(elapsed - latency, BucketTime)
           t == Truncated(elapsed, BucketTime)
           q == elapsed \div BucketTime
<1>1. s \in Int /\ t \in Int /\ Burst \in Nat \ {0}
  BY TruncatedIs, Sizes
<1>2. ASSUME elapsed >= 0
      PROVE  t = q /\ q \in Nat /\ s <= q
  <2>1. BucketTime \in Nat \ {0} /\ elapsed \in Nat
    BY <1>2, MillisecondAssumption
  <2>2. t = q /\ q \in Nat
    BY <1>2, <2>1, DivNat, TruncatedIs
  <2>3. CASE elapsed - latency >= 0
    <3> DEFINE m == elapsed - latency
    <3>1. m \in Nat /\ m <= elapsed /\ m >= 0
      BY <2>3
    <3>2. s = m \div BucketTime
      BY <3>1, TruncatedIs
    <3> HIDE DEF m
    <3>3. m \div BucketTime <= elapsed \div BucketTime
      BY <2>1, <3>1, DivMono
    <3> QED
      BY <2>2, <3>2, <3>3
  <2>4. CASE elapsed - latency < 0
    <3>1. s <= 0
      BY <2>4, TruncatedIs
    <3> HIDE DEF s, q
    <3> QED
      BY <1>1, <2>2, <3>1
  <2> QED
    BY <2>2, <2>3, <2>4
<1>3. StartIdx(elapsed, latency) = Larger(s, 0)
  BY DEF StartIdx
<1>4. EndIdx(elapsed) = IF t + 1 < 0 THEN Burst ELSE Smaller(t + 1, Burst)
  BY DEF EndIdx
<1> HIDE DEF s, t, q
<1>5. StartIdx(elapsed, latency) \in Nat /\ EndIdx(elapsed) \in 0 .. Burst
  BY <1>1, <1>3, <1>4 DEF Larger, Smaller
<1>6. ASSUME elapsed >= 0
      PROVE  /\ StartIdx(elapsed, latency) <= q
             /\ EndIdx(elapsed) <= q + 1
             /\ StartIdx(elapsed, latency) >= EndIdx(elapsed) => Burst - 1 <= q
  BY <1>1, <1>2, <1>3, <1>4, <1>6 DEF Larger, Smaller
<1> QED
  BY <1>5, <1>6 DEF q

LEMMA BookedSum ==
  ASSUME NEW bw \in [Index -> Nat], NEW first \in Nat, NEW end \in 0 .. Burst
  PROVE  /\ BookedPerBucket(bw, first, end) \in [Index -> Nat]
         /\ SumOver(BookedPerBucket(bw, first, end), Index) = SumOver(bw, Index) + Size
         /\ \A i \in Index :
              BookedPerBucket(bw, first, end)[i] # bw[i] =>
                IF first >= end THEN i = Burst - 1 ELSE i < end
<1> DEFINE new == BookedPerBucket(bw, first, end)
<1>1. Burst \in Nat \ {0} /\ Size \in Nat /\ Burst - 1 \in Index
  BY Sizes DEF Index
<1>2. CASE first >= end
  <2>1. new = [bw EXCEPT ![Burst - 1] = @ + Size]
    BY <1>2 DEF BookedPerBucket
  <2> DEFINE l == Burst - 1
  <2> HIDE DEF new
  <2>2. new \in [Index -> Nat]
    BY <1>1, <2>1
  <2>3. l \in Index /\ new[l] = bw[l] + Size /\ \A y \in Index : bw[y] \in Int /\ (y # l => new[y] = bw[y])
    BY <1>1, <2>1
  <2>4. Size \in Int /\ IsFiniteSet(Index)
    BY <1>1, IndexFinite
  <2> HIDE DEF l
  <2>5. SumOver(new, Index) = SumOver(bw, Index) + Size
    BY <2>3, <2>4, SumChange
  <2>6. \A i \in Index : new[i] # bw[i] => i = Burst - 1
    BY <2>3 DEF l
  <2> QED
    BY <1>2, <2>2, <2>5, <2>6 DEF new
<1>3. CASE first < end
  <2> DEFINE n == end - first
             share == Size \div n
             all == first .. first + n - 1
             more == [i \in Index |-> IF i \in all THEN share ELSE 0]
             rest == Index \ all
  <2>1. n \in 1 .. Burst /\ n \in Nat \ {0} /\ first + n - 1 = end - 1 /\ ~(first >= end)
    BY <1>1, <1>3
  <2>2. Size % n = 0
    BY <2>1, BandwidthAssumption
  <2>3. share \in Nat /\ n * share = Size
    BY <1>1, <2>1, <2>2, Bucket
  <2>4. new = [i \in Index |-> IF i \in all THEN bw[i] + share ELSE bw[i]]
    BY <2>1 DEF BookedPerBucket
  <2>5. all \subseteq Index
    BY <1>1, <2>1 DEF Index
  <2>6. \A i \in all : i < end
    BY <2>1
  <2> HIDE DEF new, n, share, all
  <2>7. /\ new \in [Index -> Nat]
        /\ \A i \in Index : bw[i] \in Int /\ more[i] \in Int /\ new[i] = bw[i] + more[i]
        /\ \A i \in all : more[i] = share
        /\ \A i \in rest : more[i] = 0
        /\ Index = all \cup rest /\ all \cap rest = {}
    BY <2>3, <2>4, <2>5
  <2>8. \A i \in Index : new[i] # bw[i] => i < end
    BY <2>4, <2>6
  <2>9. IsFiniteSet(Index) /\ IsFiniteSet(rest)
    <3> HIDE DEF rest
    <3>1. rest \subseteq Index
      BY <2>7
    <3> QED
      BY <3>1, FS_Subset, IndexFinite
  <2> HIDE DEF more, rest
  <2>10. SumOver(new, Index) = SumOver(bw, Index) + SumOver(more, Index)
    BY <2>7, <2>9, SumPlus
  <2>11. SumOver(more, Index) = SumOver(more, all) + SumOver(more, rest)
    <3>1. \A i \in Index : more[i] \in Int
      BY <2>7
    <3> QED
      BY <2>7, <2>9, <3>1, SumUnion
  <2>12. SumOver(more, rest) = 0
    BY <2>7, <2>9, SumZero
  <2>13. SumOver(more, first .. first + n - 1) = n * share
    <3>1. first \in Int /\ n \in Nat /\ share \in Int
      BY <2>1, <2>3
    <3>2. \A i \in first .. first + n - 1 : more[i] = share
      BY <2>7 DEF all
    <3> QED
      BY <3>1, <3>2, SumConstant
  <2>14. SumOver(more, Index) = Size
    BY <1>1, <2>3, <2>11, <2>12, <2>13 DEF all
  <2> QED
    BY <2>1, <2>7, <2>8, <2>10, <2>14 DEF new
<1> QED
  BY <1>2, <1>3

-----------------------------------------------------------------------------
(***************************************************************************)
(* Saving: the batches before the current one go to the file, and that one *)
(* moves to the front.                                                     *)
(***************************************************************************)
LEMMA MulSucc ==
  ASSUME NEW a \in Nat, NEW b \in Nat
  PROVE  (a + 1) * b = a * b + b
OBVIOUS

LEMMA BatchesFit ==
  ASSUME NEW batch \in 0 .. Batches - 1
  PROVE  /\ batch * BatchSamples \in Nat
         /\ (batch + 1) * BatchSamples = batch * BatchSamples + BatchSamples
         /\ Batches * BatchSamples \in Nat
         /\ batch * BatchSamples + BatchSamples <= Batches * BatchSamples
<1>1. batch \in Nat /\ batch + 1 \in Nat /\ batch + 1 <= Batches
      /\ Batches \in Nat /\ BatchSamples \in Nat
  BY Sizes
<1>2. (batch + 1) * BatchSamples <= Batches * BatchSamples
  BY <1>1, MulMono
<1> QED
  BY <1>1, <1>2, MulNat, MulSucc

LEMMA MovedSum ==
  ASSUME NEW f \in [Position -> Nat], NEW batch \in 0 .. Batches - 1
  PROVE  /\ MovedToFront(f, batch) \in [Position -> Nat]
         /\ SumOver(MovedToFront(f, batch), Position)
              + SumOver(f, 0 .. batch * BatchSamples - 1) <= SumOver(f, Position)
<1> DEFINE k == batch * BatchSamples
           N == Batches * BatchSamples
           BS == BatchSamples
           h == MovedToFront(f, batch)
           a == 0
           b == BS - 1
           c == k
           e == k + BS - 1
           low == a .. b
           block == c .. e
           first == 0 .. k - 1
           rest == k + BS .. N - 1
           other == Position \ low
           none == other \ rest
           g == [p \in low |-> f[k + p]]
<1>1. k \in Nat /\ N \in Nat /\ k + BS <= N /\ BS \in Nat \ {0} /\ batch \in Nat
      /\ (batch + 1) * BS = k + BS
  BY BatchesFit, Sizes
<1>2. Position = 0 .. N - 1
  BY DEF Position
<1>3. ASSUME NEW p \in Position
      PROVE  /\ p \div BS \in Nat
             /\ (p \div BS < batch <=> p < k)
             /\ (p \div BS < batch + 1 <=> p < k + BS)
  <2>1. p \in Nat /\ batch + 1 \in Nat
    BY <1>1, <1>2
  <2> DEFINE m == batch + 1
  <2>2. p \div BS < m <=> p < m * BS
    <3>1. m \in Nat
      BY <2>1
    <3> HIDE DEF m
    <3> QED
      BY <1>1, <2>1, <3>1, DivLess
  <2> QED
    BY <1>1, <2>1, <2>2, DivNat, DivLess
<1>4. \A p \in Position :
        h[p] = IF p \div BS = batch THEN 0 ELSE IF p < BS THEN f[k + p]
               ELSE IF p \div BS < batch THEN 0 ELSE f[p]
  BY DEF MovedToFront
<1>5. h = [p \in Position |-> h[p]]
  BY DEF MovedToFront
<1> HIDE DEF k, N, BS, h
<1>6. \A p \in low : p \in Position /\ k + p \in Position /\ k + p \in block
  BY <1>1, <1>2
<1>7. h \in [Position -> Nat]
  <2>1. ASSUME NEW p \in Position
        PROVE  h[p] \in Nat
    <3>1. p < BS => p \in low
      BY <1>1, <1>2
    <3>2. p < BS => f[k + p] \in Nat
      BY <1>6, <3>1
    <3> QED
      BY <1>4, <3>2
  <2> QED
    BY <1>5, <2>1
<1>8. /\ \A p \in low : g[p] \in Nat /\ h[p] <= g[p]
      /\ \A p \in rest : p \in other /\ h[p] = f[p]
      /\ \A p \in none : h[p] = 0
  <2>1. ASSUME NEW p \in low
        PROVE  g[p] \in Nat /\ h[p] <= g[p]
    <3>1. p \in Position /\ k + p \in Position /\ g[p] = f[k + p] /\ p < BS
      BY <1>1, <1>6
    <3>2. f[k + p] \in Nat
      BY <3>1
    <3>3. h[p] = 0 \/ h[p] = f[k + p]
      BY <1>4, <3>1
    <3> QED
      BY <3>1, <3>2, <3>3
  <2>2. ASSUME NEW p \in rest
        PROVE  p \in other /\ h[p] = f[p]
    <3>1. p \in Position /\ ~(p < BS) /\ ~(p < k + BS) /\ ~(p < k) /\ p \in other
      BY <1>1, <1>2
    <3>2. ~(p \div BS < batch) /\ ~(p \div BS < batch + 1) /\ p \div BS \in Nat
      BY <1>3, <3>1
    <3>3. p \div BS # batch
      BY <1>1, <3>2
    <3> QED
      BY <1>4, <3>1, <3>2, <3>3
  <2>3. ASSUME NEW p \in none
        PROVE  h[p] = 0
    <3>1. p \in Position /\ ~(p < BS) /\ p < k + BS
      BY <1>1, <1>2
    <3>2. p \div BS < batch + 1 /\ p \div BS \in Nat
      BY <1>3, <3>1
    <3>3. p \div BS = batch \/ p \div BS < batch
      BY <1>1, <3>2
    <3> QED
      BY <1>4, <3>1, <3>3
  <2> QED
    BY <2>1, <2>2, <2>3
<1>9. Moved(g, a, b, f, c, e)
  <2>1. e - c = b - a
    BY <1>1
  <2>2. \A i \in a .. b : g[i] \in Int /\ f[i + (c - a)] = g[i]
    BY <1>1, <1>6, <1>8
  <2> QED
    BY <2>1, <2>2 DEF Moved
<1>10. a \in Int /\ b \in Int /\ c \in Int /\ e \in Int /\ low = a .. b /\ block = c .. e
  BY <1>1
<1>11. /\ Position = low \cup other /\ low \cap other = {} /\ other = rest \cup none
       /\ rest \cap none = {} /\ other \subseteq Position /\ none \subseteq Position
       /\ rest \subseteq Position /\ low \subseteq Position
  BY <1>6, <1>8
<1> DEFINE upper == block \cup rest
<1>12. /\ Position = first \cup upper /\ first \cap upper = {} /\ block \cap rest = {}
       /\ upper = block \cup rest /\ first \subseteq Position /\ block \subseteq Position
       /\ upper \subseteq Position
  BY <1>1, <1>2
<1>13. (\A p \in Position : f[p] \in Nat) /\ \A p \in Position : h[p] \in Nat
  BY <1>7
<1> HIDE DEF a, b, c, e, low, block, first, rest, other, none, g, upper
<1>14. /\ IsFiniteSet(Position) /\ IsFiniteSet(low) /\ IsFiniteSet(block) /\ IsFiniteSet(first)
       /\ IsFiniteSet(rest) /\ IsFiniteSet(other) /\ IsFiniteSet(none) /\ IsFiniteSet(upper)
  BY <1>11, <1>12, PositionFinite, FS_Subset
<1>15. SumOver(f, block) = SumOver(g, low)
  BY <1>9, <1>10, SumShift
<1>16. SumOver(h, Position) = SumOver(h, low) + SumOver(h, other)
  <2>1. \A p \in Position : h[p] \in Int
    BY <1>13
  <2> QED
    BY <1>11, <1>14, <2>1, SumUnion
<1>17. SumOver(h, other) = SumOver(h, rest) + SumOver(h, none)
  <2>1. \A p \in other : h[p] \in Int
    BY <1>11, <1>13
  <2> QED
    BY <1>11, <1>14, <2>1, SumUnion
<1>18. SumOver(h, none) = 0
  BY <1>8, <1>14, SumZero
<1>19. SumOver(h, rest) = SumOver(f, rest)
  <2>1. \A p \in rest : f[p] \in Int /\ h[p] = f[p]
    BY <1>8, <1>11, <1>13
  <2> QED
    BY <1>14, <2>1, SumEqual
<1>20. SumOver(h, low) <= SumOver(g, low)
  <2>1. \A p \in low : h[p] \in Int /\ g[p] \in Int /\ h[p] <= g[p]
    BY <1>8, <1>11, <1>13
  <2> QED
    BY <1>14, <2>1, SumLeq
<1>21. SumOver(f, Position) = SumOver(f, first) + SumOver(f, upper)
  <2>1. \A p \in Position : f[p] \in Int
    BY <1>13
  <2> QED
    BY <1>12, <1>14, <2>1, SumUnion
<1>22. SumOver(f, upper) = SumOver(f, block) + SumOver(f, rest)
  <2>1. \A p \in upper : f[p] \in Int
    BY <1>12, <1>13
  <2> QED
    BY <1>12, <1>14, <2>1, SumUnion
<1>23. /\ SumOver(f, first) \in Int /\ SumOver(f, rest) \in Int
       /\ SumOver(h, low) \in Int /\ SumOver(g, low) \in Int
  <2>1. /\ \A p \in first : f[p] \in Int
        /\ \A p \in rest : f[p] \in Int
        /\ \A p \in low : h[p] \in Int
        /\ \A p \in low : g[p] \in Int
    BY <1>8, <1>11, <1>12, <1>13
  <2> QED
    BY <1>14, <2>1, SumIsInt
<1> DEFINE sf == SumOver(f, first)
           sr == SumOver(f, rest)
           hl == SumOver(h, low)
           gl == SumOver(g, low)
<1>24. /\ SumOver(h, Position) = hl + sr /\ SumOver(f, Position) = sf + (gl + sr)
       /\ sf \in Int /\ sr \in Int /\ hl \in Int /\ gl \in Int /\ hl <= gl
  BY <1>15, <1>16, <1>17, <1>18, <1>19, <1>20, <1>21, <1>22, <1>23
<1> HIDE DEF sr, hl, gl, sf
<1>25. sf = SumOver(f, 0 .. k - 1)
  BY DEF sf, first
<1>26. SumOver(h, Position) + sf <= SumOver(f, Position)
  BY <1>24
<1> QED
  BY <1>7, <1>25, <1>26 DEF h, k

\* The bytes of some batches, and of all.
LEMMA BytesInPart ==
  ASSUME NEW ms \in MsecType, NEW d \in Dir, NEW positions \in SUBSET Position
  PROVE  BytesIn(ms, d, positions) <= BytesIn(ms, d, Position)
<1> DEFINE f == [nic \in Nic |-> Sum(ms.cells[nic][d], positions)]
           g == [nic \in Nic |-> Sum(ms.cells[nic][d], Position)]
<1>1. BytesIn(ms, d, positions) = SumOver(f, Nic) /\ BytesIn(ms, d, Position) = SumOver(g, Nic)
  BY SumIs DEF BytesIn
<1>2. ASSUME NEW nic \in Nic
      PROVE  f[nic] \in Int /\ g[nic] \in Int /\ f[nic] <= g[nic]
  <2>1. f[nic] \in Int /\ g[nic] \in Int
    <3>1. Sum(ms.cells[nic][d], positions) \in Nat
      BY BytesInNat
    <3>2. Position \in SUBSET Position
      OBVIOUS
    <3>3. Sum(ms.cells[nic][d], Position) \in Nat
      BY <3>2, BytesInNat
    <3> QED
      BY <3>1, <3>3
  <2> DEFINE cell == ms.cells[nic][d]
  <2>2. cell \in [Position -> Nat]
    BY DEF MsecType
  <2>3. f[nic] = SumOver(cell, positions) /\ g[nic] = SumOver(cell, Position)
    BY SumIs
  <2> HIDE DEF cell, f, g
  <2>4. \A p \in Position : cell[p] \in Nat
    BY <2>2
  <2>5. SumOver(cell, positions) <= SumOver(cell, Position)
    BY <2>4, SumSubset, PositionFinite
  <2> QED
    BY <2>1, <2>3, <2>5
<1> HIDE DEF f, g
<1>3. SumOver(f, Nic) <= SumOver(g, Nic)
  BY <1>2, SumLeq, MillisecondAssumption
<1> QED
  BY <1>1, <1>3

LEMMA FirstBatches ==
  ASSUME NEW batch \in 0 .. Batches - 1
  PROVE  /\ 0 .. batch * BatchSamples - 1 \in SUBSET Position
         /\ 0 .. (batch + 1) * BatchSamples - 1 \in SUBSET Position
<1> DEFINE k == batch * BatchSamples
           n == Batches * BatchSamples
           m == (batch + 1) * BatchSamples
<1>1. k \in Nat /\ n \in Nat /\ k <= n /\ m \in Nat /\ m <= n
  BY BatchesFit, Sizes
<1> HIDE DEF k, n, m
<1>2. 0 .. k - 1 \subseteq 0 .. n - 1 /\ 0 .. m - 1 \subseteq 0 .. n - 1
  BY <1>1
<1> QED
  BY <1>2 DEF k, n, m, Position

LEMMA SaveKeeps ==
  ASSUME NEW ms \in MsecType
  PROVE  LET r == SaveBandwidthStats(ms)
         IN  /\ r \in MsecType
             /\ \A d \in Dir : Kept(r, d) <= Kept(ms, d)
<1> DEFINE batch == ms.current
           r == SaveBandwidthStats(ms)
           saved == Save(ms, batch)
           cells == [nic \in Nic |-> [d \in Dir |-> MovedToFront(ms.cells[nic][d], batch)]]
           part == 0 .. batch * BatchSamples - 1
<1>1. batch \in 0 .. Batches - 1 /\ part \in SUBSET Position
  BY FirstBatches DEF MsecType
<1>2. r = [ms EXCEPT !.saved = saved, !.cells = cells, !.current = 0, !.next = 0]
  BY DEF SaveBandwidthStats
<1>3. \A d \in Dir : /\ BytesIn(ms, d, part) \in Nat
                     /\ BytesIn(ms, d, Position) \in Nat
  BY <1>1, BytesInNat
<1>4. /\ saved \in [Dir -> Nat]
      /\ \A d \in Dir : saved[d] = ms.saved[d] + (IF ms.open THEN BytesIn(ms, d, part) ELSE 0)
  BY <1>3 DEF Save, MsecType
<1>5. ASSUME NEW nic \in Nic, NEW d \in Dir
      PROVE  /\ cells[nic][d] \in [Position -> Nat]
             /\ Sum(cells[nic][d], Position) + Sum(ms.cells[nic][d], part)
                  <= Sum(ms.cells[nic][d], Position)
  <2> DEFINE f == ms.cells[nic][d]
             h == MovedToFront(f, batch)
  <2>1. f \in [Position -> Nat] /\ h = cells[nic][d]
    BY DEF MsecType
  <2> HIDE DEF f, batch
  <2>2. h \in [Position -> Nat] /\ SumOver(h, Position) + SumOver(f, part) <= SumOver(f, Position)
    BY <1>1, <2>1, MovedSum
  <2> HIDE DEF h, part, cells
  <2>3. Sum(h, Position) + Sum(f, part) <= Sum(f, Position)
    BY <2>2, SumIs
  <2> QED
    BY <2>1, <2>2, <2>3 DEF f
<1>6. cells \in [Nic -> [Dir -> [Position -> Nat]]]
  <2>1. ASSUME NEW nic \in Nic
        PROVE  cells[nic] \in [Dir -> [Position -> Nat]]
    <3>1. \A d \in Dir : cells[nic][d] \in [Position -> Nat]
      BY <1>5
    <3>2. cells[nic] = [d \in Dir |-> cells[nic][d]]
      OBVIOUS
    <3> HIDE DEF cells
    <3> QED
      BY <3>1, <3>2
  <2> QED
    BY <2>1
<1> HIDE DEF cells, saved, part, r
<1>7. 0 \in 0 .. Batches - 1
  BY Sizes
<1>8. r \in MsecType
  BY <1>2, <1>4, <1>6, <1>7 DEF MsecType
<1>9. r.open = ms.open /\ r.saved = saved /\ r.cells = cells
  BY <1>2 DEF MsecType
<1>10. ASSUME NEW d \in Dir
       PROVE  BytesIn(r, d, Position) + BytesIn(ms, d, part) <= BytesIn(ms, d, Position)
  <2> DEFINE f == [nic \in Nic |-> Sum(r.cells[nic][d], Position)]
             g == [nic \in Nic |-> Sum(ms.cells[nic][d], part)]
             h == [nic \in Nic |-> f[nic] + g[nic]]
             t == [nic \in Nic |-> Sum(ms.cells[nic][d], Position)]
  <2>1. /\ BytesIn(r, d, Position) = SumOver(f, Nic)
        /\ BytesIn(ms, d, part) = SumOver(g, Nic)
        /\ BytesIn(ms, d, Position) = SumOver(t, Nic)
    BY SumIs DEF BytesIn
  <2>2. \A nic \in Nic : /\ f[nic] \in Int /\ g[nic] \in Int /\ t[nic] \in Int
                         /\ h[nic] = f[nic] + g[nic] /\ h[nic] \in Int /\ h[nic] <= t[nic]
    <3> SUFFICES ASSUME NEW nic \in Nic
                 PROVE  /\ f[nic] \in Int /\ g[nic] \in Int /\ t[nic] \in Int
                        /\ f[nic] + g[nic] <= t[nic]
      OBVIOUS
    <3>1. Position \in SUBSET Position
      OBVIOUS
    <3>2. f[nic] \in Nat
      BY <1>8, <3>1, BytesInNat
    <3>3. g[nic] \in Nat
      BY <1>1, BytesInNat
    <3>4. t[nic] \in Nat
      BY <3>1, BytesInNat
    <3>5. f[nic] + g[nic] <= t[nic]
      BY <1>5, <1>9
    <3> HIDE DEF f, g, t
    <3> QED
      BY <3>2, <3>3, <3>4, <3>5
  <2> HIDE DEF f, g, h, t
  <2>3. SumOver(h, Nic) = SumOver(f, Nic) + SumOver(g, Nic)
    BY <2>2, SumPlus, MillisecondAssumption
  <2>4. SumOver(h, Nic) <= SumOver(t, Nic)
    BY <2>2, SumLeq, MillisecondAssumption
  <2> QED
    BY <2>1, <2>3, <2>4
<1>11. ASSUME NEW d \in Dir
       PROVE  Kept(r, d) <= Kept(ms, d)
  <2>1. BytesIn(r, d, Position) \in Nat /\ ms.saved[d] \in Nat
    BY <1>8, BytesInNat DEF MsecType
  <2> QED
    BY <1>3, <1>4, <1>9, <1>10, <2>1 DEF Kept
<1> QED
  BY <1>8, <1>11 DEF r

LEMMA CloseOutKeeps ==
  ASSUME NEW ms \in MsecType
  PROVE  LET r == CloseOutBandwidthStats(ms)
         IN  /\ r \in MsecType
             /\ \A d \in Dir : Kept(r, d) <= Kept(ms, d)
<1> DEFINE batch == ms.current
           r == CloseOutBandwidthStats(ms)
           saved == Save(ms, batch + 1)
           part == 0 .. (batch + 1) * BatchSamples - 1
<1>1. batch \in 0 .. Batches - 1 /\ part \in SUBSET Position
  BY FirstBatches DEF MsecType
<1>2. \A d \in Dir : /\ BytesIn(ms, d, part) \in Nat
                     /\ BytesIn(ms, d, Position) \in Nat
                     /\ BytesIn(ms, d, part) <= BytesIn(ms, d, Position)
                     /\ ms.saved[d] \in Nat
  BY <1>1, BytesInNat, BytesInPart DEF MsecType
<1>3. /\ saved \in [Dir -> Nat]
      /\ \A d \in Dir : saved[d] = ms.saved[d] + (IF ms.open THEN BytesIn(ms, d, part) ELSE 0)
  BY <1>2 DEF Save, MsecType
<1>4. CASE ~ms.enabled
  <2>1. r = ms
    BY <1>4 DEF CloseOutBandwidthStats
  <2>2. \A d \in Dir : Kept(ms, d) \in Nat
    BY KeptNat
  <2> QED
    BY <2>1, <2>2
<1>5. CASE ms.enabled
  <2>1. r = [ms EXCEPT !.saved = saved, !.open = FALSE, !.enabled = FALSE]
    BY <1>5 DEF CloseOutBandwidthStats
  <2> HIDE DEF saved, r, part
  <2>2. r \in MsecType /\ r.saved = saved /\ r.open = FALSE
    BY <1>3, <2>1 DEF MsecType
  <2>3. ASSUME NEW d \in Dir
        PROVE  Kept(r, d) <= Kept(ms, d)
    BY <1>2, <1>3, <2>2 DEF Kept
  <2> QED
    BY <2>2, <2>3 DEF r
<1> QED
  BY <1>4, <1>5

-----------------------------------------------------------------------------
(***************************************************************************)
(* What an action leaves alone.                                            *)
(***************************************************************************)
LEMMA SameClock ==
  ASSUME ClockTypes, UNCHANGED <<now, start, due, flush>>
  PROVE  ClockTypes'
BY DEF ClockTypes

LEMMA SameConnections ==
  ASSUME ConnectionTypes, UNCHANGED <<conn, nics, late>>
  PROVE  ConnectionTypes'
BY DEF ConnectionTypes, Open

LEMMA SameCounts ==
  ASSUME CountTypes, UNCHANGED <<bytes, nicCarry>>
  PROVE  CountTypes'
BY DEF CountTypes, bytes

LEMMA SameBuffers ==
  ASSUME BufferInv, UNCHANGED <<now, start, conn, late>>
  PROVE  BufferInv'
BY DEF BufferInv, Open, ReadBuffer, WriteBuffer

LEMMA SameBooks ==
  ASSUME BookInv, UNCHANGED <<conn, late, bytes>>
  PROVE  BookInv'
BY DEF BookInv, Open, InBuffer, WriteBuffer, bytes

LEMMA SameTotal ==
  ASSUME TotalInv, UNCHANGED <<booked, call, calls>>
  PROVE  TotalInv'
BY DEF TotalInv, BothDirections

LEMMA SameNics ==
  ASSUME NicInv, UNCHANGED <<bytes, nicCarry>>
  PROVE  NicInv'
BY DEF NicInv, BothDirections, bytes

LEMMA SameMsec ==
  ASSUME MsecInv, UNCHANGED <<bytes, msec>>
  PROVE  MsecInv'
BY DEF MsecInv, bytes

-----------------------------------------------------------------------------
(***************************************************************************)
(* The bytes of all connections.                                           *)
(***************************************************************************)
LEMMA BothNat ==
  ASSUME NEW f \in [Connection -> Counts]
  PROVE  /\ BothDirections(f) \in Nat
         /\ \A c \in Connection, d \in Dir : f[c][d] \in Nat /\ f[c][d] <= BothDirections(f)
<1> DEFINE g == [c \in Connection |-> f[c]["Send"] + f[c]["Recv"]]
<1>1. \A c \in Connection : f[c]["Send"] \in Nat /\ f[c]["Recv"] \in Nat
  BY DEF Counts, Dir
<1>2. \A c \in Connection : g[c] \in Nat
  BY <1>1
<1>3. BothDirections(f) = SumOver(g, Connection)
  BY SumIs DEF BothDirections
<1>4. ASSUME NEW c \in Connection, NEW d \in Dir
      PROVE  f[c][d] \in Nat /\ f[c][d] <= g[c]
  BY <1>1 DEF Dir
<1> HIDE DEF g
<1>5. SumOver(g, Connection) \in Nat
  BY <1>2, SumNat, BandwidthAssumption
<1>6. ASSUME NEW c \in Connection
      PROVE  g[c] <= SumOver(g, Connection)
  <2> DEFINE rest == SumOver(g, Connection \ {c})
  <2>1. IsFiniteSet(Connection) /\ \A x \in Connection : g[x] \in Int
    BY <1>2, BandwidthAssumption
  <2>2. SumOver(g, Connection) = g[c] + rest
    BY <2>1, SumRemove
  <2>3. rest \in Nat
    <3> DEFINE S == Connection \ {c}
    <3>1. IsFiniteSet(S) /\ \A x \in S : g[x] \in Nat
      BY <1>2, <2>1, FS_RemoveElement
    <3> HIDE DEF S
    <3>2. SumOver(g, S) \in Nat
      BY <3>1, SumNat
    <3> QED
      BY <3>2 DEF S
  <2> HIDE DEF rest
  <2> QED
    BY <1>2, <2>2, <2>3
<1>7. \A c \in Connection, d \in Dir : f[c][d] <= SumOver(g, Connection)
  BY <1>2, <1>4, <1>5, <1>6
<1> QED
  BY <1>3, <1>4, <1>5, <1>7

-----------------------------------------------------------------------------
(***************************************************************************)
(* The initial states.                                                     *)
(***************************************************************************)
LEMMA InitMsec ==
  ASSUME NEW diff \in 0 .. BatchTime - 1
  PROVE  /\ MillisecondInit(diff) \in MsecType
         /\ \A d \in Dir : Kept(MillisecondInit(diff), d) = 0
<1> DEFINE ms == MillisecondInit(diff)
<1>1. 0 \in 0 .. Batches - 1 /\ diff \in Nat
  BY Sizes, MillisecondAssumption
<1>2. ms \in MsecType
  BY <1>1 DEF MillisecondInit, MsecType
<1>3. ASSUME NEW d \in Dir
      PROVE  BytesIn(ms, d, Position) = 0
  <2> DEFINE f == [nic \in Nic |-> Sum(ms.cells[nic][d], Position)]
  <2>1. ASSUME NEW nic \in Nic
        PROVE  f[nic] = 0
    <3> DEFINE cell == ms.cells[nic][d]
    <3>1. \A p \in Position : cell[p] = 0
      BY DEF MillisecondInit
    <3>2. f[nic] = SumOver(cell, Position)
      BY SumIs
    <3> HIDE DEF cell, f
    <3>3. SumOver(cell, Position) = 0
      BY <3>1, SumZero, PositionFinite
    <3> QED
      BY <3>2, <3>3
  <2>2. BytesIn(ms, d, Position) = SumOver(f, Nic)
    BY SumIs DEF BytesIn
  <2> HIDE DEF f
  <2>3. SumOver(f, Nic) = 0
    BY <2>1, SumZero, MillisecondAssumption
  <2> QED
    BY <2>2, <2>3
<1>4. \A d \in Dir : ms.saved[d] = 0
  BY DEF MillisecondInit
<1> HIDE DEF ms
<1>5. \A d \in Dir : Kept(ms, d) = 0
  BY <1>3, <1>4 DEF Kept
<1> QED
  BY <1>2, <1>5 DEF ms

LEMMA NothingBooked ==
  ASSUME NEW f, \A c \in Connection : f[c]["Send"] = 0 /\ f[c]["Recv"] = 0
  PROVE  BothDirections(f) = 0
<1> DEFINE g == [c \in Connection |-> f[c]["Send"] + f[c]["Recv"]]
<1>1. \A c \in Connection : g[c] = 0
  OBVIOUS
<1>2. BothDirections(f) = SumOver(g, Connection)
  BY SumIs DEF BothDirections
<1> HIDE DEF g
<1>3. SumOver(g, Connection) = 0
  BY <1>1, SumZero, BandwidthAssumption
<1> QED
  BY <1>2, <1>3

LEMMA InitInv == Init => IInv
<1> SUFFICES ASSUME Init
             PROVE  IInv
  OBVIOUS
<1>1. NoBytes \in Counts /\ \A d \in Dir : NoBytes[d] = 0
  BY DEF NoBytes, Counts
<1>2. Open = {} /\ conn \in [{} -> ConnType]
  BY DEF Init, Open
<1>3. PICK diff \in 0 .. BatchTime - 1 : msec = MillisecondInit(diff)
  BY DEF Init
<1>4. "Send" \in Dir /\ "Recv" \in Dir
  BY DEF Dir
<1>5. ClockTypes
  BY Sizes, BandwidthAssumption, MillisecondAssumption DEF Init, ClockTypes
<1>6. ConnectionTypes
  BY <1>2 DEF Init, ConnectionTypes
<1>7. CallTypes
  BY BandwidthAssumption DEF Init, CallTypes
<1>8. CountTypes
  BY <1>1 DEF Init, CountTypes
<1>9. BufferInv
  BY <1>2 DEF BufferInv
<1>10. BookInv
  BY <1>1, <1>2 DEF Init, BookInv
<1>11. BothDirections(booked) = 0 /\ BothDirections(aggregated) = 0
  BY <1>1, <1>4, NothingBooked DEF Init
<1>12. TotalInv
  BY <1>11, Sizes DEF Init, TotalInv
<1>13. NicInv
  BY <1>1, <1>4, <1>11 DEF Init, NicInv
<1>14. msec \in MsecType /\ MsecInv
  BY <1>1, <1>3, InitMsec DEF Init, MsecInv
<1> QED
  BY <1>5, <1>6, <1>7, <1>8, <1>9, <1>10, <1>12, <1>13, <1>14 DEF IInv, TypeInv

-----------------------------------------------------------------------------
(***************************************************************************)
(* The actions that do not book or add up.                                 *)
(***************************************************************************)
LEMMA NotifyBeginInv ==
  ASSUME IInv, NEW c \in Connection, NotifyBegin(c)
  PROVE  IInv'
<1> USE DEF IInv, TypeInv
<1>1. PICK latency \in Latency, d \in Dir :
        call' = [conn |-> {c}, reported |-> now, latency |-> latency, dir |-> d]
  BY DEF NotifyBegin
<1>2. ClockTypes' /\ ConnectionTypes' /\ CountTypes'
  BY SameClock, SameConnections, SameCounts DEF NotifyBegin
<1>3. CallTypes'
  <2>1. now \in Nat /\ latency \in Nat /\ c \in Open /\ Open' = Open /\ now' = now
    BY BandwidthAssumption DEF ClockTypes, NotifyBegin, Open
  <2>2. call' \in CallType /\ call'.conn = {c} /\ call'.reported = now
    BY <1>1, <2>1 DEF CallType
  <2>3. calls' \in 0 .. MaxCalls
    BY BandwidthAssumption DEF CallTypes, NotifyBegin
  <2> QED
    BY <2>1, <2>2, <2>3 DEF CallTypes
<1>4. BufferInv' /\ BookInv' /\ NicInv' /\ MsecInv'
  BY SameBuffers, SameBooks, SameNics, SameMsec DEF NotifyBegin
<1>5. TotalInv'
  <2> DEFINE total == BothDirections(booked)
  <2>1. call = NoCall /\ calls' = calls + 1 /\ booked' = booked
    BY DEF NotifyBegin, bytes
  <2>2. total \in Nat /\ total <= calls * Size /\ calls \in Nat /\ Size \in Nat
    <3>1. total \in Nat
      BY BothNat DEF CountTypes
    <3> HIDE DEF total
    <3>2. total + 0 <= calls * Size
      BY <2>1 DEF TotalInv, total
    <3> QED
      BY <3>1, <3>2, BandwidthAssumption, Sizes DEF CallTypes
  <2>3. (calls + 1) * Size = calls * Size + Size /\ calls * Size \in Nat
    BY <2>2, MulSucc, MulNat
  <2>4. BothDirections(booked)' = total
    BY <2>1 DEF BothDirections
  <2> HIDE DEF total
  <2> DEFINE m == calls * Size
  <2>5. m \in Nat /\ total <= m /\ calls' * Size = m + Size
    BY <2>1, <2>2, <2>3
  <2> HIDE DEF m
  <2>6. total + (IF call' = NoCall THEN 0 ELSE Size) <= calls' * Size
    BY <2>2, <2>5
  <2> QED
    BY <2>4, <2>6 DEF TotalInv
<1>6. msec' \in MsecType
  BY DEF NotifyBegin
<1> QED
  BY <1>2, <1>3, <1>4, <1>5, <1>6

LEMMA EmptyConnection ==
  /\ NewConnection \in ConnType
  /\ ReadBuffer(NewConnection).bw = AllZero /\ WriteBuffer(NewConnection).bw = AllZero
  /\ WriteBuffer(NewConnection).start = 0
  /\ \A state \in 0 .. 1 : NewConnection.buffer[state].start = 0
<1>1. AllZero \in [Dir -> [Index -> Nat]]
  BY DEF AllZero, Zero
<1>2. EmptyBuffer = [start |-> 0, bw |-> AllZero]
  BY DEF EmptyBuffer, AllZero
<1>3. EmptyBuffer \in BufferType /\ EmptyBuffer.bw = AllZero /\ EmptyBuffer.start = 0
  BY <1>1, <1>2 DEF BufferType
<1> HIDE DEF EmptyBuffer
<1>4. /\ NewConnection.gen = 0
      /\ NewConnection.buffer = [state \in 0 .. 1 |-> EmptyBuffer]
      /\ NewConnection \in ConnType
  BY <1>3 DEF NewConnection, ConnType
<1> QED
  BY <1>3, <1>4 DEF ReadBuffer, WriteBuffer

LEMMA NothingBuffered ==
  ASSUME NEW cn, NEW d \in Dir, \A i \in Index : WriteBuffer(cn).bw[d][i] = 0
  PROVE  InBuffer(cn, d) = 0
<1> DEFINE f == WriteBuffer(cn).bw[d]
<1>1. \A i \in Index : f[i] = 0
  OBVIOUS
<1>2. InBuffer(cn, d) = SumOver(f, Index)
  BY SumIs DEF InBuffer
<1> HIDE DEF f
<1>3. SumOver(f, Index) = 0
  BY <1>1, SumZero, IndexFinite
<1> QED
  BY <1>2, <1>3

LEMMA AddConnectionInv ==
  ASSUME IInv, NEW c \in Connection, AddConnection(c)
  PROVE  IInv'
<1> USE DEF IInv, TypeInv
<1>1. /\ Open' = Open \cup {c} /\ c \notin Open
      /\ \A o \in Open : conn'[o] = conn[o]
      /\ conn'[c] = NewConnection
      /\ conn' = [o \in Open' |-> conn'[o]]
  BY DEF AddConnection, Open
<1>2. ClockTypes' /\ CountTypes' /\ msec' \in MsecType
  BY SameClock, SameCounts DEF AddConnection
<1>3. ConnectionTypes'
  <2>1. NicOf[c] \in Nic
    BY BandwidthAssumption
  <2>2. \A o \in Open' : conn'[o] \in ConnType
    BY <1>1, EmptyConnection DEF ConnectionTypes
  <2>3. conn' \in [Open' -> ConnType]
    BY <1>1, <2>2
  <2>4. nics' = nics \cup {NicOf[c]} /\ late' = late
    BY DEF AddConnection
  <2> QED
    BY <1>1, <2>1, <2>3, <2>4 DEF ConnectionTypes
<1>4. CallTypes'
  BY <1>1 DEF CallTypes, AddConnection
<1>5. TotalInv' /\ NicInv' /\ MsecInv'
  BY SameTotal, SameNics, SameMsec DEF AddConnection, bytes
<1>6. AllZero = [d \in Dir |-> Zero] /\ \A d \in Dir, i \in Index : AllZero[d][i] = 0
  BY DEF AllZero, Zero
<1>7. BufferInv'
  <2>1. now' = now /\ start' = start /\ late' = late /\ now \in Nat
    BY BandwidthAssumption DEF AddConnection, ClockTypes
  <2>2. ASSUME NEW o \in Open'
        PROVE  /\ ReadBuffer(conn'[o]).bw = AllZero
               /\ \A state \in 0 .. 1 : conn'[o].buffer[state].start <= now'
               /\ WriteBuffer(conn'[o]).start \in {0, start'}
               /\ WriteBuffer(conn'[o]).start = 0 => WriteBuffer(conn'[o]).bw = AllZero
               /\ o \notin late' =>
                    \A d \in Dir, i \in Index :
                      i > (now' - start') \div BucketTime => WriteBuffer(conn'[o]).bw[d][i] = 0
    <3>1. CASE o = c
      <4>1. conn'[o] = NewConnection
        BY <1>1, <3>1
      <4> HIDE DEF IInv
      <4> QED
        BY <1>6, <2>1, <4>1, EmptyConnection
    <3>2. CASE o # c
      <4>1. conn'[o] = conn[o] /\ o \in Open
        BY <1>1, <3>2
      <4> QED
        BY <2>1, <4>1 DEF BufferInv
    <3> QED
      BY <3>1, <3>2
  <2> QED
    BY <2>2 DEF BufferInv
<1>8. BookInv'
  <2>1. booked' = booked /\ aggregated' = aggregated /\ late' = late /\ booked[c] = NoBytes
    BY DEF AddConnection, bytes
  <2>2. \A d \in Dir : aggregated[c][d] = 0 /\ booked[c][d] = 0 /\ InBuffer(conn'[c], d) = 0
    <3> SUFFICES ASSUME NEW d \in Dir
                 PROVE  aggregated[c][d] = 0 /\ booked[c][d] = 0 /\ InBuffer(conn'[c], d) = 0
      OBVIOUS
    <3>1. booked[c][d] = 0
      BY <2>1 DEF NoBytes
    <3>2. aggregated[c][d] \in Nat /\ aggregated[c][d] <= booked[c][d]
      BY BothNat DEF CountTypes, BookInv
    <3>3. \A i \in Index : WriteBuffer(NewConnection).bw[d][i] = 0
      BY <1>6, EmptyConnection
    <3>4. InBuffer(conn'[c], d) = 0
      BY <1>1, <3>3, NothingBuffered
    <3> QED
      BY <3>1, <3>2, <3>4
  <2>3. ASSUME NEW o \in Open', NEW d \in Dir
        PROVE  InBuffer(conn'[o], d) + aggregated[o][d] <= booked[o][d]
    BY <1>1, <2>2 DEF BookInv
  <2>4. ASSUME NEW o \in Open' \ late
        PROVE  InBuffer(conn'[o], "Send") + aggregated[o]["Send"] = booked[o]["Send"]
    BY <1>1, <2>2 DEF BookInv, Dir
  <2> QED
    BY <2>1, <2>3, <2>4 DEF BookInv
<1> QED
  BY <1>2, <1>3, <1>4, <1>5, <1>7, <1>8

LEMMA DeleteConnectionInv ==
  ASSUME IInv, NEW c \in Connection, DeleteConnection(c)
  PROVE  IInv'
<1> USE DEF IInv, TypeInv
<1>1. /\ Open' = Open \ {c}
      /\ \A o \in Open' : conn'[o] = conn[o]
      /\ conn' = [o \in Open' |-> conn'[o]]
  BY DEF DeleteConnection, Open
<1>2. ClockTypes' /\ CountTypes' /\ msec' \in MsecType
  <2>1. ClockTypes'
    BY DEF DeleteConnection, ClockTypes
  <2> QED
    BY <2>1, SameCounts DEF DeleteConnection
<1>3. ConnectionTypes'
  <2>1. \A o \in Open' : conn'[o] \in ConnType
    BY <1>1 DEF ConnectionTypes
  <2>2. conn' \in [Open' -> ConnType]
    BY <1>1, <2>1
  <2>3. nics' = nics /\ late' = late
    BY DEF DeleteConnection
  <2> QED
    BY <1>1, <2>2, <2>3 DEF ConnectionTypes
<1>4. CallTypes'
  BY <1>1 DEF CallTypes, DeleteConnection, NoCall
<1>5. TotalInv' /\ NicInv' /\ MsecInv'
  BY SameTotal, SameNics, SameMsec DEF DeleteConnection, bytes
<1>6. BufferInv'
  <2>1. now' = now /\ start' = start /\ late' = late
    BY DEF DeleteConnection
  <2> QED
    BY <1>1, <2>1 DEF BufferInv
<1>7. BookInv'
  <2>1. booked' = booked /\ aggregated' = aggregated /\ late' = late
    BY DEF DeleteConnection, bytes
  <2> QED
    BY <1>1, <2>1 DEF BookInv
<1> QED
  BY <1>2, <1>3, <1>4, <1>5, <1>6, <1>7

\* The two actions on the buffer of milliseconds alone.
LEMMA KeepsMsec ==
  ASSUME IInv, msec' \in MsecType, \A d \in Dir : Kept(msec', d) <= Kept(msec, d),
         UNCHANGED bytes
  PROVE  MsecInv'
<1>1. \A d \in Dir : /\ Kept(msec, d) \in Nat /\ Kept(msec', d) \in Nat
                     /\ Kept(msec, d) <= submitted[d] /\ submitted[d] \in Nat
  BY KeptNat DEF IInv, TypeInv, CountTypes, Counts, MsecInv
<1>2. \A d \in Dir : Kept(msec', d) <= submitted'[d]
  BY <1>1 DEF bytes
<1> QED
  BY <1>2 DEF MsecInv

LEMMA CloseOutInv ==
  ASSUME IInv, CloseOut
  PROVE  IInv'
<1> USE DEF IInv, TypeInv
<1>1. ConnectionTypes' /\ CountTypes'
  BY SameConnections, SameCounts DEF CloseOut
<1>2. ClockTypes' /\ CallTypes'
  BY DEF CloseOut, ClockTypes, CallTypes, Open
<1>3. BufferInv' /\ BookInv' /\ TotalInv' /\ NicInv'
  BY SameBuffers, SameBooks, SameTotal, SameNics DEF CloseOut, bytes
<1>4. msec' \in MsecType /\ \A d \in Dir : Kept(msec', d) <= Kept(msec, d)
  BY CloseOutKeeps DEF CloseOut
<1>5. MsecInv'
  BY <1>4, KeepsMsec DEF CloseOut
<1> QED
  BY <1>1, <1>2, <1>3, <1>4, <1>5

LEMMA SaveWindowInv ==
  ASSUME IInv, SaveWindow
  PROVE  IInv'
<1> USE DEF IInv, TypeInv
<1>1. ConnectionTypes' /\ CountTypes'
  BY SameConnections, SameCounts DEF SaveWindow
<1>2. ClockTypes' /\ CallTypes'
  <2>1. due' \in [window : Nat, save : Nat]
    BY BandwidthAssumption, MillisecondAssumption DEF SaveWindow, ClockTypes
  <2> QED
    BY <2>1 DEF SaveWindow, ClockTypes, CallTypes, Open
<1>3. BufferInv' /\ BookInv' /\ TotalInv' /\ NicInv'
  BY SameBuffers, SameBooks, SameTotal, SameNics DEF SaveWindow, bytes
<1>4. msec' \in MsecType /\ \A d \in Dir : Kept(msec', d) <= Kept(msec, d)
  BY SaveKeeps DEF SaveWindow
<1>5. MsecInv'
  BY <1>4, KeepsMsec DEF SaveWindow
<1> QED
  BY <1>1, <1>2, <1>3, <1>4, <1>5

LEMMA TickInv ==
  ASSUME IInv, Tick
  PROVE  IInv'
<1> USE DEF IInv, TypeInv
<1>1. ConnectionTypes' /\ CountTypes' /\ msec' \in MsecType
  BY SameConnections, SameCounts DEF Tick
<1>2. now \in Nat /\ now' = now + 1 /\ start' = start /\ start \in 0 .. now
  BY BandwidthAssumption DEF Tick, ClockTypes
<1>3. ClockTypes'
  <2>1. now' \in FirstTime .. LastTime
    BY BandwidthAssumption DEF Tick, ClockTypes
  <2> QED
    BY <1>2, <2>1 DEF Tick, ClockTypes
<1>4. CallTypes'
  <2>1. call \in CallType => call.reported \in Nat
    BY DEF CallType
  <2> QED
    BY <1>2, <2>1 DEF CallTypes, Tick, Open
<1>5. BookInv' /\ TotalInv' /\ NicInv' /\ MsecInv'
  BY SameBooks, SameTotal, SameNics, SameMsec DEF Tick, bytes
<1>6. BufferInv'
  <2>1. conn' = conn /\ late' = late /\ Open' = Open
    BY DEF Tick, Open
  <2> DEFINE p == (now - start) \div BucketTime
             q == (now + 1 - start) \div BucketTime
  <2>2. p \in Nat /\ q \in Nat /\ p <= q
    <3> DEFINE a == now - start
               b == now + 1 - start
    <3>1. a \in Nat /\ b \in Nat /\ a <= b /\ BucketTime \in Nat \ {0}
      BY <1>2, MillisecondAssumption
    <3> HIDE DEF a, b
    <3>2. a \div BucketTime <= b \div BucketTime /\ a \div BucketTime \in Nat /\ b \div BucketTime \in Nat
      BY <3>1, DivMono, DivNat
    <3> QED
      BY <3>2 DEF a, b
  <2>3. \A o \in Open, state \in 0 .. 1 : conn[o].buffer[state].start \in Nat
    BY BufferOf DEF ConnectionTypes, BufferType
  <2>4. \A o \in Open : o \notin late =>
          \A d \in Dir, i \in Index : i > p => WriteBuffer(conn[o]).bw[d][i] = 0
    BY DEF BufferInv
  <2> HIDE DEF p, q
  <2>5. \A i \in Index : i > q => i > p
    BY <2>2, IndexFinite
  <2>6. \A o \in Open : o \notin late =>
          \A d \in Dir, i \in Index : i > q => WriteBuffer(conn[o]).bw[d][i] = 0
    BY <2>4, <2>5
  <2>7. \A o \in Open, state \in 0 .. 1 : conn[o].buffer[state].start <= now + 1
    BY <1>2, <2>3 DEF BufferInv
  <2> QED
    BY <1>2, <2>1, <2>6, <2>7 DEF BufferInv, q
<1> QED
  BY <1>1, <1>3, <1>4, <1>5, <1>6

-----------------------------------------------------------------------------
(***************************************************************************)
(* Booking.                                                                *)
(***************************************************************************)
\* r is the connection cn with other buckets bw of the direction d.
OnlyBuckets(cn, d, bw, r) ==
  /\ r \in ConnType /\ ReadBuffer(r) = ReadBuffer(cn)
  /\ WriteBuffer(r).start = WriteBuffer(cn).start
  /\ \A state \in 0 .. 1 : r.buffer[state].start = cn.buffer[state].start
  /\ WriteBuffer(r).bw[d] = bw
  /\ \A e \in Dir : e # d => WriteBuffer(r).bw[e] = WriteBuffer(cn).bw[e]

LEMMA BookedConnection ==
  ASSUME NEW cn \in ConnType, NEW d \in Dir, NEW bw \in [Index -> Nat]
  PROVE  OnlyBuckets(cn, d, bw, [cn EXCEPT !.buffer[cn.gen].bw[d] = bw])
<1> DEFINE g == cn.gen
           old == cn.buffer[g]
           all == [old.bw EXCEPT ![d] = bw]
           new == [old EXCEPT !.bw = all]
           buffers == [cn.buffer EXCEPT ![g] = new]
           r == [cn EXCEPT !.buffer[cn.gen].bw[d] = bw]
<1>1. /\ g \in 0 .. 1 /\ 1 - g \in 0 .. 1 /\ 1 - g # g
      /\ cn.buffer \in [0 .. 1 -> BufferType] /\ old \in BufferType
      /\ old.bw \in [Dir -> [Index -> Nat]]
  BY BufferOf DEF ConnType, BufferType
<1>2. r = [cn EXCEPT !.buffer = buffers]
  OBVIOUS
<1> HIDE DEF r
<1>3. /\ all \in [Dir -> [Index -> Nat]] /\ all[d] = bw
      /\ \A e \in Dir : e # d => all[e] = old.bw[e]
  BY <1>1
<1> HIDE DEF all, old
<1>4. new \in BufferType /\ new.bw = all /\ new.start = old.start
  BY <1>1, <1>3 DEF BufferType
<1> HIDE DEF new
<1>5. /\ buffers \in [0 .. 1 -> BufferType] /\ buffers[g] = new
      /\ buffers[1 - g] = cn.buffer[1 - g]
  BY <1>1, <1>4
<1> HIDE DEF buffers, g
<1>6. r \in ConnType /\ r.gen = g /\ r.buffer = buffers
  BY <1>2, <1>5 DEF ConnType, g
<1>7. WriteBuffer(r) = new /\ ReadBuffer(r) = ReadBuffer(cn) /\ WriteBuffer(cn) = old
  BY <1>5, <1>6 DEF WriteBuffer, ReadBuffer, g, old
<1>8. ASSUME NEW state \in 0 .. 1
      PROVE  r.buffer[state].start = cn.buffer[state].start
  <2>1. state = g \/ state = 1 - g
    BY <1>1
  <2> QED
    BY <1>4, <1>5, <1>6, <2>1 DEF old
<1> QED
  BY <1>3, <1>4, <1>6, <1>7, <1>8 DEF r, OnlyBuckets

LEMMA NotifyBookInv ==
  ASSUME IInv, NotifyBook
  PROVE  IInv'
<1> USE DEF IInv, TypeInv
<1>1. /\ call # NoCall /\ call' = NoCall
      /\ UNCHANGED <<now, start, due, nics, flush, nicCarry, msec, calls, aggregated, submitted>>
  BY DEF NotifyBook
<1>2. PICK c \in call.conn :
        LET state == conn[c].gen
            buffer == conn[c].buffer[state]
            elapsed == call.reported - buffer.start
            d == call.dir
        IN  IF buffer.start = 0 THEN UNCHANGED <<conn, booked, late>>
            ELSE /\ conn' = [conn EXCEPT ![c].buffer[state].bw[d] =
                      BookedPerBucket(@, StartIdx(elapsed, call.latency), EndIdx(elapsed))]
                 /\ booked' = [booked EXCEPT ![c][d] = @ + Size]
                 /\ late' = IF elapsed < 0 THEN late \cup {c} ELSE late
  BY DEF NotifyBook
<1> DEFINE cn == conn[c]
           buffer == WriteBuffer(cn)
           d == call.dir
           elapsed == call.reported - buffer.start
           first == StartIdx(elapsed, call.latency)
           end == EndIdx(elapsed)
           bw == BookedPerBucket(buffer.bw[d], first, end)
           r == [cn EXCEPT !.buffer[cn.gen].bw[d] = bw]
<1>3. /\ c \in Open /\ c \in Connection /\ cn \in ConnType /\ d \in Dir
      /\ call.reported \in Nat /\ call.latency \in Nat /\ call.reported <= now
  BY <1>1 DEF CallTypes, CallType, ConnectionTypes
<1>4. ClockTypes' /\ msec' \in MsecType /\ CallTypes'
  BY <1>1, SameClock DEF CallTypes
<1>5. BothDirections(booked) \in Nat
      /\ BothDirections(booked) + Size <= calls * Size /\ calls * Size \in Nat
  <2>1. calls \in Nat /\ Size \in Nat
    BY BandwidthAssumption, Sizes DEF CallTypes
  <2> QED
    BY <1>1, <2>1, BothNat, MulNat DEF TotalInv, CountTypes
<1>6. NicInv' /\ MsecInv'
  BY <1>1 DEF NicInv, BothDirections, MsecInv
<1>7. CASE buffer.start = 0
  <2>1. UNCHANGED <<conn, booked, late>>
    BY <1>2, <1>7 DEF WriteBuffer
  <2>2. ConnectionTypes' /\ CountTypes' /\ BufferInv' /\ BookInv'
    BY <1>1, <2>1, SameConnections, SameCounts, SameBuffers, SameBooks DEF bytes
  <2>3. TotalInv'
    <3>1. BothDirections(booked)' = BothDirections(booked) /\ calls' = calls
      BY <1>1, <2>1 DEF BothDirections
    <3>2. Size \in Nat
      BY Sizes
    <3> DEFINE b == BothDirections(booked)
               m == calls * Size
    <3>3. b \in Nat /\ b + Size <= m /\ m \in Nat
      BY <1>5
    <3> HIDE DEF b, m
    <3>4. b + 0 <= m
      BY <3>2, <3>3
    <3> QED
      BY <1>1, <3>1, <3>4 DEF TotalInv, b, m
  <2> QED
    BY <1>4, <1>6, <2>2, <2>3
<1>8. CASE buffer.start # 0
  <2>1. /\ conn' = [conn EXCEPT ![c] = r]
        /\ booked' = [booked EXCEPT ![c][d] = @ + Size]
        /\ late' = IF elapsed < 0 THEN late \cup {c} ELSE late
    BY <1>2, <1>8 DEF WriteBuffer
  <2>2. /\ buffer.start \in Nat /\ buffer.start = start
        /\ buffer.bw[d] \in [Index -> Nat]
    BY <1>3, <1>8, BufferOf DEF BufferInv, BufferType
  <2>3. elapsed \in Int /\ first \in Nat /\ end \in 0 .. Burst
    <3>1. elapsed \in Int /\ call.latency \in Nat
      BY <1>3, <2>2
    <3> HIDE DEF elapsed
    <3> QED
      BY <3>1, BookedRange
  <2>4. /\ bw \in [Index -> Nat]
        /\ SumOver(bw, Index) = SumOver(buffer.bw[d], Index) + Size
    BY <2>2, <2>3, BookedSum
  <2>5. \A i \in Index : bw[i] # buffer.bw[d][i] =>
                           IF first >= end THEN i = Burst - 1 ELSE i < end
    BY <2>2, <2>3, BookedSum
  <2> HIDE DEF bw, r
  <2>6. /\ r \in ConnType /\ ReadBuffer(r) = ReadBuffer(cn)
        /\ WriteBuffer(r).start = buffer.start
        /\ \A state \in 0 .. 1 : r.buffer[state].start = cn.buffer[state].start
        /\ WriteBuffer(r).bw[d] = bw
        /\ \A e \in Dir : e # d => WriteBuffer(r).bw[e] = buffer.bw[e]
    <3>1. cn \in ConnType /\ d \in Dir /\ bw \in [Index -> Nat]
      BY <1>3, <2>4
    <3> HIDE DEF cn, d
    <3>2. OnlyBuckets(cn, d, bw, r)
      BY <3>1, BookedConnection DEF r
    <3>3. buffer = WriteBuffer(cn)
      BY DEF cn
    <3> HIDE DEF buffer
    <3> QED
      BY <3>2, <3>3 DEF OnlyBuckets
  <2>7. /\ Open' = Open /\ conn'[c] = r
        /\ \A o \in Open : o # c => conn'[o] = conn[o]
        /\ conn' \in [Open -> ConnType]
    BY <1>3, <2>1, <2>6 DEF ConnectionTypes, Open
  <2>8. ConnectionTypes'
    <3>1. late' \subseteq Connection
      BY <1>3, <2>1 DEF ConnectionTypes
    <3> QED
      BY <1>1, <2>7, <3>1 DEF ConnectionTypes
  <2>9. /\ booked' \in [Connection -> Counts]
        /\ booked'[c][d] = booked[c][d] + Size
        /\ \A o \in Connection, e \in Dir : (o # c \/ e # d) => booked'[o][e] = booked[o][e]
        /\ \A o \in Connection, e \in Dir : booked[o][e] \in Nat /\ aggregated[o][e] \in Nat
    BY <1>3, <2>1, Sizes DEF CountTypes, Counts
  <2>10. CountTypes'
    BY <1>1, <2>9 DEF CountTypes
  <2>11. TotalInv'
    <3> DEFINE f == [o \in Connection |-> booked[o]["Send"] + booked[o]["Recv"]]
               g == [o \in Connection |-> booked'[o]["Send"] + booked'[o]["Recv"]]
    <3>1. \A o \in Connection : /\ booked[o]["Send"] \in Nat /\ booked[o]["Recv"] \in Nat
                                /\ o # c => booked'[o]["Send"] = booked[o]["Send"]
                                            /\ booked'[o]["Recv"] = booked[o]["Recv"]
      BY <2>9 DEF Dir
    <3>2. booked'[c]["Send"] + booked'[c]["Recv"] = booked[c]["Send"] + booked[c]["Recv"] + Size
      <4>1. CASE d = "Send"
        BY <1>3, <2>9, <3>1, <4>1, Sizes
      <4>2. CASE d = "Recv"
        BY <1>3, <2>9, <3>1, <4>2, Sizes
      <4> QED
        BY <1>3, <4>1, <4>2 DEF Dir
    <3>3. Size \in Int /\ IsFiniteSet(Connection) /\ c \in Connection
      BY <1>3, Sizes, BandwidthAssumption
    <3>4. g[c] = f[c] + Size
      BY <1>3, <3>2
    <3>5. \A o \in Connection : f[o] \in Int /\ (o # c => g[o] = f[o])
      BY <3>1
    <3>6. BothDirections(booked) = SumOver(f, Connection)
          /\ BothDirections(booked)' = SumOver(g, Connection)
      BY SumIs DEF BothDirections
    <3> HIDE DEF f, g
    <3>7. SumOver(g, Connection) = SumOver(f, Connection) + Size
      BY <3>3, <3>4, <3>5, SumChange
    <3> DEFINE b == BothDirections(booked)
               m == calls * Size
    <3>8. b \in Nat /\ b + Size <= m /\ m \in Nat /\ Size \in Nat
      BY <1>5, Sizes
    <3>9. BothDirections(booked)' = b + Size /\ calls' = calls
      BY <1>1, <3>6, <3>7
    <3> HIDE DEF b, m
    <3>10. (b + Size) + 0 <= m
      BY <3>8
    <3> QED
      BY <1>1, <3>9, <3>10 DEF TotalInv, m
  <2>12. BookInv'
    <3>1. InBuffer(r, d) = InBuffer(cn, d) + Size
      BY <2>4, <2>6, SumIs DEF InBuffer
    <3>2. \A e \in Dir : e # d => InBuffer(r, e) = InBuffer(cn, e)
      BY <2>6 DEF InBuffer
    <3>3. \A o \in Open, e \in Dir : InBuffer(conn[o], e) \in Nat
      <4> SUFFICES ASSUME NEW o \in Open, NEW e \in Dir
                   PROVE  InBuffer(conn[o], e) \in Nat
        OBVIOUS
      <4> DEFINE f == WriteBuffer(conn[o]).bw[e]
      <4>1. f \in [Index -> Nat]
        BY BufferOf DEF ConnectionTypes
      <4>2. InBuffer(conn[o], e) = SumOver(f, Index)
        BY SumIs DEF InBuffer
      <4> HIDE DEF f
      <4>3. SumOver(f, Index) \in Nat
        BY <4>1, SumNat, IndexFinite
      <4> QED
        BY <4>2, <4>3
    <3>4. ASSUME NEW o \in Open, NEW e \in Dir
          PROVE  /\ InBuffer(conn'[o], e) + aggregated[o][e] <= booked'[o][e]
                 /\ InBuffer(conn[o], e) + aggregated[o][e] = booked[o][e]
                      => InBuffer(conn'[o], e) + aggregated[o][e] = booked'[o][e]
      <4> DEFINE x == InBuffer(conn[o], e)
                 y == aggregated[o][e]
                 z == booked[o][e]
                 x1 == InBuffer(conn'[o], e)
                 z1 == booked'[o][e]
      <4>1. x \in Nat /\ y \in Nat /\ z \in Nat /\ x + y <= z /\ Size \in Nat
        BY <2>9, <3>3, Sizes DEF BookInv, ConnectionTypes
      <4>2. (x1 = x /\ z1 = z) \/ (x1 = x + Size /\ z1 = z + Size)
        <5>1. CASE o = c /\ e = d
          BY <2>7, <2>9, <3>1, <5>1
        <5>2. CASE o = c /\ e # d
          BY <1>3, <2>7, <2>9, <3>2, <5>2
        <5>3. CASE o # c
          BY <2>7, <2>9, <5>3 DEF ConnectionTypes
        <5> QED
          BY <5>1, <5>2, <5>3
      <4> HIDE DEF x, y, z, x1, z1
      <4>3. x1 + y <= z1 /\ (x + y = z => x1 + y = z1)
        BY <4>1, <4>2
      <4> QED
        BY <4>3 DEF x, y, z, x1, z1
    <3>5. ASSUME NEW o \in Connection, NEW e \in Dir
          PROVE  aggregated[o][e] <= booked'[o][e]
      <4>1. aggregated[o][e] <= booked[o][e]
        BY DEF BookInv
      <4>2. booked'[o][e] = booked[o][e] \/ booked'[o][e] = booked[o][e] + Size
        BY <2>9
      <4> QED
        BY <2>9, <4>1, <4>2, Sizes
    <3>6. \A o \in Open \ late' : o \in Open \ late
      BY <2>1
    <3>7. \A o \in Open \ late :
            InBuffer(conn[o], "Send") + aggregated[o]["Send"] = booked[o]["Send"]
      BY DEF BookInv
    <3>8. "Send" \in Dir
      BY DEF Dir
    <3>9. \A o \in Open \ late' :
            InBuffer(conn'[o], "Send") + aggregated[o]["Send"] = booked'[o]["Send"]
      BY <3>4, <3>6, <3>7, <3>8
    <3> QED
      BY <1>1, <2>7, <3>4, <3>5, <3>9 DEF BookInv
  <2>13. BufferInv'
    <3>1. ASSUME NEW o \in Open
          PROVE  /\ ReadBuffer(conn'[o]).bw = AllZero
                 /\ \A state \in 0 .. 1 : conn'[o].buffer[state].start <= now
                 /\ WriteBuffer(conn'[o]).start \in {0, start}
                 /\ WriteBuffer(conn'[o]).start = 0 => WriteBuffer(conn'[o]).bw = AllZero
      <4>1. CASE o = c
        BY <1>3, <1>8, <2>6, <2>7, <4>1 DEF BufferInv
      <4>2. CASE o # c
        BY <2>7, <4>2 DEF BufferInv
      <4> QED
        BY <4>1, <4>2
    <3> DEFINE p == (now - start) \div BucketTime
    <3>2. ASSUME NEW o \in Open, o \notin late', NEW e \in Dir, NEW i \in Index, i > p
          PROVE  WriteBuffer(conn'[o]).bw[e][i] = 0
      <4>1. WriteBuffer(conn[o]).bw[e][i] = 0 /\ o \notin late
        BY <2>1, <3>2 DEF BufferInv
      <4>2. CASE o # c
        BY <2>7, <4>1, <4>2
      <4>3. CASE o = c /\ e # d
        BY <2>6, <2>7, <4>1, <4>3
      <4>4. CASE o = c /\ e = d
        <5>1. elapsed >= 0
          BY <2>1, <2>3, <3>2, <4>4
        <5>2. elapsed = call.reported - start /\ now \in Nat /\ start \in Nat /\ start <= now
          BY <2>2, BandwidthAssumption DEF ClockTypes
        <5> DEFINE q == elapsed \div BucketTime
        <5>3. q \in Nat /\ p \in Nat /\ q <= p
          <6> DEFINE x == call.reported - start
                     y == now - start
          <6>1. x \in Nat /\ y \in Nat /\ x <= y /\ BucketTime \in Nat \ {0} /\ elapsed = x
            BY <1>3, <5>1, <5>2, MillisecondAssumption
          <6> HIDE DEF x, y, elapsed
          <6>2. x \div BucketTime <= y \div BucketTime
                /\ x \div BucketTime \in Nat /\ y \div BucketTime \in Nat
            BY <6>1, DivMono, DivNat
          <6> QED
            BY <6>1, <6>2 DEF y
        <5>4. end <= q + 1 /\ (first >= end => Burst - 1 <= q)
          BY <1>3, <2>3, <5>1, BookedRange
        <5>5. i \in Nat /\ Burst \in Nat
          BY IndexFinite, Sizes
        <5> HIDE DEF p, q, first, end, elapsed, buffer
        <5>6. ~(IF first >= end THEN i = Burst - 1 ELSE i < end)
          BY <2>3, <3>2, <5>3, <5>4, <5>5
        <5>7. bw[i] = buffer.bw[d][i]
          BY <2>5, <5>6
        <5>8. buffer.bw[d][i] = 0
          BY <4>1, <4>4 DEF buffer
        <5> QED
          BY <2>6, <2>7, <4>4, <5>7, <5>8
      <4> QED
        BY <4>2, <4>3, <4>4
    <3> HIDE DEF p
    <3>3. \A o \in Open : o \notin late' =>
            \A e \in Dir, i \in Index : i > p => WriteBuffer(conn'[o]).bw[e][i] = 0
      BY <3>2
    <3> QED
      BY <1>1, <2>7, <3>1, <3>3 DEF BufferInv, p
  <2> QED
    BY <1>4, <1>6, <2>8, <2>10, <2>11, <2>12, <2>13
<1> QED
  BY <1>7, <1>8

-----------------------------------------------------------------------------
(***************************************************************************)
(* A window.                                                               *)
(***************************************************************************)
WindowValid == BwVecValidLimit(UnusedBuckets)
WindowSwapped == [c \in Open |-> Swapped(conn[c], now - MaxLatency, UnusedBuckets)]

\* The buckets that are not used are those the clock has not reached.
LEMMA UnusedNat ==
  ASSUME ClockTypes
  PROVE  /\ UnusedBuckets \in Nat /\ now - MaxLatency \in 1 .. now /\ now \in Nat
         /\ start # 0 => \A i \in Index : i >= Burst - UnusedBuckets
                                            => i > (now - start) \div BucketTime
<1> DEFINE q == (now - start) \div BucketTime
<1>1. now \in Nat /\ start \in 0 .. now /\ now - MaxLatency \in 1 .. now
  BY Sizes, BandwidthAssumption DEF ClockTypes
<1>2. q \in Nat
  <2> DEFINE a == now - start
  <2>1. a \in Nat /\ BucketTime \in Nat \ {0}
    BY <1>1, MillisecondAssumption
  <2> HIDE DEF a
  <2>2. a \div BucketTime \in Nat
    BY <2>1, DivNat
  <2> QED
    BY <2>2 DEF a
<1>3. UnusedBuckets = IF start = 0 THEN Burst ELSE Larger(Burst - (q + 1), 0)
  BY DEF UnusedBuckets
<1> HIDE DEF q
<1>4. Burst \in Nat \ {0}
  BY Sizes
<1>5. UnusedBuckets \in Nat
  BY <1>2, <1>3, <1>4 DEF Larger
<1>6. ASSUME start # 0, NEW i \in Index, i >= Burst - UnusedBuckets
      PROVE  i > q
  <2>1. i \in Nat /\ i < Burst
    BY <1>4 DEF Index
  <2> QED
    BY <1>2, <1>3, <1>4, <1>6, <2>1 DEF Larger
<1> QED
  BY <1>1, <1>5, <1>6 DEF q

LEMMA WindowReadable ==
  ASSUME IInv
  PROVE  /\ Readable(WindowSwapped, WindowValid)
         /\ WindowValid \in Nat /\ WindowValid + CarryOver <= Burst
<1> USE DEF IInv, TypeInv
<1>1. UnusedBuckets \in Nat /\ now - MaxLatency \in Nat
  BY UnusedNat
<1>2. WindowValid \in Nat /\ WindowValid + CarryOver <= Burst
  BY <1>1, ValidLimit DEF WindowValid
<1>3. WindowValid \in 0 .. Burst
  BY <1>2, Sizes
<1>4. ASSUME NEW c \in Open
      PROVE  WindowSwapped[c] \in ConnType
  <2>1. conn[c] \in ConnType /\ NothingRead(conn[c])
    BY DEF ConnectionTypes, BufferInv, NothingRead
  <2>2. Swapped(conn[c], now - MaxLatency, UnusedBuckets) \in ConnType
    BY <1>1, <2>1, WindowOfConnection DEF WindowLeaves
  <2> QED
    BY <2>2 DEF WindowSwapped
<1> QED
  BY <1>2, <1>3, <1>4 DEF Readable, ConnectionTypes

LEMMA WindowBooks ==
  ASSUME IInv, NEW c \in Open
  PROVE  LET r == Aggregated(WindowSwapped[c])
         IN  /\ r \in ConnType /\ ReadBuffer(r).bw = AllZero
             /\ WriteBuffer(r).start = now - MaxLatency
             /\ \A state \in 0 .. 1 : r.buffer[state].start <= now
             /\ \A d \in Dir, i \in Index : i >= CarryOver => WriteBuffer(r).bw[d][i] = 0
             /\ \A d \in Dir :
                  /\ InBuffer(r, d) \in Nat
                  /\ InBuffer(conn[c], d) \in Nat
                  /\ InBuffer(r, d) + Taken(WindowSwapped, WindowValid, c, d) <= InBuffer(conn[c], d)
             /\ c \notin late =>
                  InBuffer(r, "Send") + Taken(WindowSwapped, WindowValid, c, "Send")
                    = InBuffer(conn[c], "Send")
<1> USE DEF IInv, TypeInv
<1> DEFINE cn == conn[c]
           t == now - MaxLatency
           unused == UnusedBuckets
           valid == WindowValid
           s == WindowSwapped[c]
           r == Aggregated(s)
<1>1. unused \in Nat /\ t \in 1 .. now /\ t \in Nat /\ now \in Nat
  BY UnusedNat
<1>2. cn \in ConnType /\ ReadBuffer(cn).bw = AllZero
      /\ (\A state \in 0 .. 1 : cn.buffer[state].start <= now)
      /\ WriteBuffer(cn).start \in {0, start}
      /\ (WriteBuffer(cn).start = 0 => WriteBuffer(cn).bw = AllZero)
      /\ (c \notin late =>
            \A d \in Dir, i \in Index :
              i > (now - start) \div BucketTime => WriteBuffer(cn).bw[d][i] = 0)
  BY DEF ConnectionTypes, BufferInv
<1>3. s = Swapped(cn, t, unused) /\ valid = BwVecValidLimit(unused)
  BY DEF WindowSwapped, WindowValid
<1>4. Readable(WindowSwapped, valid) /\ valid \in Nat /\ valid + CarryOver <= Burst
  BY WindowReadable
<1> HIDE DEF cn, t, unused, valid, s
<1>5. /\ s \in ConnType /\ r \in ConnType
      /\ ReadBuffer(r).bw = AllZero /\ WriteBuffer(r).start = t
      /\ \A state \in 0 .. 1 : r.buffer[state].start \in {t, cn.buffer[state].start}
      /\ \A d \in Dir, i \in Index :
           /\ AggregatedBw(s, d, i) = IF d = "Send" THEN WriteBuffer(cn).bw[d][i] ELSE 0
           /\ i >= CarryOver => WriteBuffer(r).bw[d][i] = 0
           /\ i < CarryOver => WriteBuffer(r).bw[d][i] = WriteBuffer(cn).bw[d][i + valid]
  <2>1. cn \in ConnType /\ NothingRead(cn)
    BY <1>2 DEF NothingRead
  <2>2. t \in Nat /\ unused \in Nat
    BY <1>1
  <2>3. WindowLeaves(cn, t, BwVecValidLimit(unused),
                     Swapped(cn, t, unused), Aggregated(Swapped(cn, t, unused)))
    BY <2>1, <2>2, WindowOfConnection
  <2>4. WindowLeaves(cn, t, valid, s, r)
    BY <1>3, <2>3
  <2> HIDE DEF r
  <2> QED
    BY <2>4 DEF WindowLeaves
<1> HIDE DEF r
<1>6. \A state \in 0 .. 1 : r.buffer[state].start <= now
  BY <1>1, <1>2, <1>5
<1>7. ASSUME NEW d \in Dir
      PROVE  /\ InBuffer(r, d) \in Nat /\ InBuffer(cn, d) \in Nat
             /\ InBuffer(r, d) + Taken(WindowSwapped, valid, c, d) <= InBuffer(cn, d)
             /\ (d = "Send" /\ \A i \in Index : i >= valid + CarryOver => WriteBuffer(cn).bw[d][i] = 0)
                  => InBuffer(r, d) + Taken(WindowSwapped, valid, c, d) = InBuffer(cn, d)
  <2> DEFINE f == WriteBuffer(cn).bw[d]
             h == WriteBuffer(r).bw[d]
             u == Samples(WindowSwapped, c, d)
             read == 0 .. valid - 1
  <2>1. f \in [Index -> Nat] /\ h \in [Index -> Nat]
    BY <1>2, <1>5, BufferOf
  <2>2. \A i \in Index : h[i] = IF i < CarryOver THEN f[i + valid] ELSE 0
    <3>1. \A i \in Index : i \in Nat /\ CarryOver \in Nat
      BY IndexFinite, Sizes
    <3> QED
      BY <1>5, <3>1
  <2>3. InBuffer(r, d) = SumOver(h, Index) /\ InBuffer(cn, d) = SumOver(f, Index)
    BY SumIs DEF InBuffer
  <2>4. Taken(WindowSwapped, valid, c, d) = SumOver(u, read)
    BY <1>4, TakenNat
  <2>5. read \subseteq Index /\ read \in SUBSET Index
    BY <1>4, Sizes DEF Index
  <2>6. \A i \in read : u[i] = IF d = "Send" THEN f[i] ELSE 0
    BY <1>5, <2>5 DEF Samples, s
  <2>7. (\A i \in Index : f[i] \in Nat) /\ \A i \in Index : h[i] \in Nat
    BY <2>1
  <2> HIDE DEF f, h, u, read
  <2>8. /\ SumOver(h, Index) \in Nat /\ SumOver(f, Index) \in Nat
        /\ SumOver(f, read) \in Nat /\ IsFiniteSet(read)
    <3>1. IsFiniteSet(Index)
      BY IndexFinite
    <3>2. IsFiniteSet(read) /\ \A i \in read : f[i] \in Nat
      BY <2>5, <2>7, <3>1, FS_Subset
    <3> QED
      BY <2>7, <3>1, <3>2, SumNat
  <2>9. /\ SumOver(h, Index) + SumOver(f, read) <= SumOver(f, Index)
        /\ (\A i \in Index : i >= valid + CarryOver => f[i] = 0)
             => SumOver(h, Index) + SumOver(f, read) = SumOver(f, Index)
    BY <1>4, <2>1, <2>2, WindowSums DEF read
  <2>10. CASE d = "Send"
    <3>1. \A i \in read : f[i] \in Int /\ u[i] = f[i]
      BY <2>5, <2>6, <2>7, <2>10
    <3>2. SumOver(u, read) = SumOver(f, read)
      BY <2>8, <3>1, SumEqual
    <3> QED
      BY <2>3, <2>4, <2>8, <2>9, <3>2 DEF f
  <2>11. CASE d # "Send"
    <3>1. \A i \in read : u[i] = 0
      BY <2>6, <2>11
    <3>2. SumOver(u, read) = 0
      BY <2>8, <3>1, SumZero
    <3> QED
      BY <2>3, <2>4, <2>8, <2>9, <2>11, <3>2
  <2> QED
    BY <2>10, <2>11
<1>8. ASSUME c \notin late
      PROVE  InBuffer(r, "Send") + Taken(WindowSwapped, valid, c, "Send") = InBuffer(cn, "Send")
  <2>1. "Send" \in Dir
    BY DEF Dir
  <2>2. ASSUME NEW i \in Index, i >= valid + CarryOver
        PROVE  WriteBuffer(cn).bw["Send"][i] = 0
    <3>1. CASE WriteBuffer(cn).start = 0
      BY <1>2, <2>1, <3>1 DEF AllZero, Zero
    <3>2. CASE WriteBuffer(cn).start # 0
      <4>1. start # 0
        BY <1>2, <3>2
      <4>2. valid + CarryOver >= Burst - unused
        BY <1>1, <1>3, ValidLimit
      <4>3. i >= Burst - UnusedBuckets
        <5>1. i \in Nat /\ Burst \in Nat /\ CarryOver \in Nat
          BY IndexFinite, Sizes
        <5> QED
          BY <1>1, <1>4, <2>2, <4>2, <5>1 DEF unused
      <4>4. i > (now - start) \div BucketTime
        BY <4>1, <4>3, UnusedNat
      <4> QED
        BY <1>2, <1>8, <2>1, <4>4
    <3> QED
      BY <3>1, <3>2
  <2> QED
    BY <1>7, <2>1, <2>2
<1> QED
  BY <1>5, <1>6, <1>7, <1>8 DEF r, s, valid, cn, t

\* The window adds up what it takes from the buffers of the open connections.
WindowResult ==
  AggregateNicStats(
    [carry |-> nicCarry, msec |-> RegisterCurrentTime(msec, now), submitted |-> submitted],
    WindowSwapped, WindowValid)

LEMMA WindowStep ==
  ASSUME ProcessHighFrequencyTelemetry
  PROVE  /\ ~Overrun
         /\ start' = now - MaxLatency
         /\ conn' = [c \in Open |-> Aggregated(WindowSwapped[c])]
         /\ aggregated' = AddedUp(WindowSwapped, WindowValid)
         /\ nicCarry' = WindowResult.carry
         /\ msec' = WindowResult.msec
         /\ submitted' = WindowResult.submitted
         /\ UNCHANGED <<now, nics, call, calls, booked, late>>
<1> DEFINE unused == UnusedBuckets
           valid == BwVecValidLimit(unused)
           swapped == [c \in Open |-> Swapped(conn[c], now - MaxLatency, unused)]
<1>1. swapped = WindowSwapped /\ valid = WindowValid
  BY DEF WindowSwapped, WindowValid
<1>2. /\ ~Overrun
      /\ start' = now - MaxLatency
      /\ conn' = [c \in Open |-> Aggregated(swapped[c])]
      /\ aggregated' = AddedUp(swapped, valid)
      /\ UNCHANGED <<now, nics, call, calls, booked, late>>
  BY DEF ProcessHighFrequencyTelemetry, AddedUp, Taken
<1>3. /\ nicCarry' = AggregateNicStats(
             [carry |-> nicCarry, msec |-> RegisterCurrentTime(msec, now), submitted |-> submitted],
             swapped, valid).carry
      /\ msec' = AggregateNicStats(
             [carry |-> nicCarry, msec |-> RegisterCurrentTime(msec, now), submitted |-> submitted],
             swapped, valid).msec
      /\ submitted' = AggregateNicStats(
             [carry |-> nicCarry, msec |-> RegisterCurrentTime(msec, now), submitted |-> submitted],
             swapped, valid).submitted
  BY DEF ProcessHighFrequencyTelemetry
<1> HIDE DEF swapped, valid
<1> QED
  BY <1>1, <1>2, <1>3 DEF WindowResult

LEMMA RegisterKeeps ==
  ASSUME NEW ms \in MsecType, ms.next < Batches, NEW time \in Nat
  PROVE  LET r == RegisterCurrentTime(ms, time)
         IN  r \in MsecType /\ \A d \in Dir : Kept(r, d) = Kept(ms, d)
<1> DEFINE r == RegisterCurrentTime(ms, time)
<1>1. r.cells = ms.cells /\ r.saved = ms.saved /\ r.open = ms.open
  BY DEF RegisterCurrentTime, MsecType
<1>2. r \in MsecType
  <2>1. r = [ms EXCEPT !.time = ms.diff + time, !.current = ms.next]
    BY DEF RegisterCurrentTime
  <2>2. ms.next \in 0 .. Batches - 1 /\ ms.diff + time \in Nat
    BY Sizes DEF MsecType
  <2> QED
    BY <2>1, <2>2 DEF MsecType
<1> HIDE DEF r
<1>3. \A d \in Dir : Kept(r, d) = Kept(ms, d)
  BY <1>1 DEF Kept, BytesIn
<1> QED
  BY <1>2, <1>3 DEF r

\* The NICs' histograms and carry get what was added up, the file no more.
LEMMA WindowNics ==
  ASSUME IInv, ProcessHighFrequencyTelemetry
  PROVE  /\ aggregated' \in [Connection -> Counts]
         /\ submitted' \in Counts /\ nicCarry' \in Nat /\ msec' \in MsecType
         /\ NicInv' /\ MsecInv'
<1>1. TypeInv /\ NicInv /\ MsecInv
  BY DEF IInv
<1>2. /\ aggregated \in [Connection -> Counts] /\ submitted \in Counts /\ nicCarry \in Nat
      /\ msec \in MsecType /\ nics \subseteq Nic /\ \A c \in Open : NicOf[c] \in nics
  BY <1>1 DEF TypeInv, CountTypes, ConnectionTypes
<1>3. Readable(WindowSwapped, WindowValid)
  BY WindowReadable
<1> DEFINE registered == RegisterCurrentTime(msec, now)
           from == [carry |-> nicCarry, msec |-> registered, submitted |-> submitted]
           taken == SumOver(NicTotals(WindowSwapped, WindowValid), nics)
<1>4. registered \in MsecType /\ \A d \in Dir : Kept(registered, d) = Kept(msec, d)
  <2>1. now \in Nat /\ msec.next < Batches
    <3>1. now \in Nat
      BY <1>1, UnusedNat DEF TypeInv
    <3>2. msec.next \in Nat /\ Batches \in Nat
      BY <1>2, MillisecondAssumption, Sizes DEF MsecType
    <3> QED
      BY <3>1, <3>2, WindowStep DEF Overrun
  <2> QED
    BY <1>2, <2>1, RegisterKeeps
<1> HIDE DEF registered
<1>5. from \in AccType /\ Sound(from)
  <2>1. from \in AccType
    BY <1>2, <1>4 DEF AccType
  <2>2. from.msec = registered /\ from.submitted = submitted
    OBVIOUS
  <2> HIDE DEF from
  <2>3. \A d \in Dir : Kept(from.msec, d) <= from.submitted[d]
    BY <1>1, <1>4, <2>2 DEF MsecInv
  <2> QED
    BY <2>1, <2>3 DEF Sound
<1>6. Total(from) = BothDirections(aggregated)
  <2>1. Total(from) = submitted["Send"] + submitted["Recv"] + nicCarry
    BY DEF Total
  <2> QED
    BY <1>1, <2>1 DEF NicInv
<1>7. WindowResult = AggregateNicStats(from, WindowSwapped, WindowValid)
  BY DEF WindowResult, registered
<1> HIDE DEF from
<1>8. /\ WindowResult \in AccType /\ Sound(WindowResult)
      /\ Total(WindowResult) = Total(from) + taken
  <2> DEFINE swapped == WindowSwapped
             valid == WindowValid
  <2>1. Readable(swapped, valid) /\ nics \subseteq Nic
    BY <1>2, <1>3
  <2> HIDE DEF swapped, valid
  <2>2. LET r == AggregateNicStats(from, swapped, valid)
        IN  /\ r \in AccType
            /\ Total(r) = Total(from) + SumOver(NicTotals(swapped, valid), nics)
            /\ Sound(from) => Sound(r)
    BY <1>5, <2>1, AggregateNicsConserves
  <2> QED
    BY <1>5, <1>7, <2>2 DEF swapped, valid
<1>9. BothDirections(AddedUp(WindowSwapped, WindowValid)) = BothDirections(aggregated) + taken
  BY <1>2, <1>3, AddedUpIs
<1>10. AddedUp(WindowSwapped, WindowValid) \in [Connection -> Counts]
  <2>1. \A c \in Open, d \in Dir : Taken(WindowSwapped, WindowValid, c, d) \in Nat
    BY <1>3, TakenNat
  <2>2. \A c \in Connection, d \in Dir : aggregated[c][d] \in Nat
    BY <1>2 DEF Counts
  <2> QED
    BY <1>2, <2>1, <2>2 DEF AddedUp, Counts
<1>11. /\ submitted' = WindowResult.submitted /\ nicCarry' = WindowResult.carry
       /\ msec' = WindowResult.msec /\ aggregated' = AddedUp(WindowSwapped, WindowValid)
  BY WindowStep
<1> DEFINE w == WindowResult
           after == AddedUp(WindowSwapped, WindowValid)
<1> HIDE DEF w, taken, after
<1>12. /\ submitted' \in Counts /\ nicCarry' \in Nat /\ msec' \in MsecType
  BY <1>8, <1>11 DEF AccType
<1>13. BothDirections(aggregated)' = submitted["Send"]' + submitted["Recv"]' + nicCarry'
  <2>1. BothDirections(aggregated)' = BothDirections(after)
    BY <1>11 DEF BothDirections, after
  <2>2. BothDirections(after) = Total(w)
    BY <1>6, <1>8, <1>9 DEF w, after
  <2>3. Total(w) = submitted["Send"]' + submitted["Recv"]' + nicCarry'
    BY <1>11 DEF Total, w
  <2> QED
    BY <2>1, <2>2, <2>3
<1>14. \A d \in Dir : Kept(msec, d)' <= submitted[d]'
  BY <1>8, <1>11 DEF Sound, Kept, BytesIn, w
<1> QED
  BY <1>10, <1>11, <1>12, <1>13, <1>14 DEF NicInv, MsecInv

LEMMA WindowConnections ==
  ASSUME IInv, ProcessHighFrequencyTelemetry
  PROVE  ConnectionTypes' /\ BufferInv'
<1>1. /\ conn' = [c \in Open |-> Aggregated(WindowSwapped[c])]
      /\ start' = now - MaxLatency /\ UNCHANGED <<now, nics, late>>
  BY WindowStep
<1>2. Open' = Open /\ \A c \in Open : conn'[c] = Aggregated(WindowSwapped[c])
  BY <1>1 DEF Open
<1>3. ASSUME NEW c \in Open
      PROVE  /\ conn'[c] \in ConnType /\ ReadBuffer(conn'[c]).bw = AllZero
             /\ WriteBuffer(conn'[c]).start = now - MaxLatency
             /\ \A state \in 0 .. 1 : conn'[c].buffer[state].start <= now
             /\ \A d \in Dir, i \in Index : i >= CarryOver => WriteBuffer(conn'[c]).bw[d][i] = 0
  BY <1>2, WindowBooks
<1>4. ConnectionTypes'
  <2>1. ConnectionTypes
    BY DEF IInv, TypeInv
  <2>2. conn' \in [Open' -> ConnType]
    BY <1>1, <1>2, <1>3
  <2> QED
    BY <1>1, <1>2, <2>1, <2>2 DEF ConnectionTypes
<1>5. now - MaxLatency # 0 /\ (now' - start') \div BucketTime = CarryOver
  <2>1. ClockTypes
    BY DEF IInv, TypeInv
  <2>2. now - MaxLatency \in 1 .. now /\ now \in Nat
    BY <2>1, UnusedNat
  <2>3. now' - start' = MaxLatency
    BY <1>1, <2>2, BandwidthAssumption
  <2> QED
    BY <2>2, <2>3 DEF CarryOver
<1>6. ASSUME NEW c \in Open
      PROVE  /\ WriteBuffer(conn'[c]).start = start'
             /\ WriteBuffer(conn'[c]).start # 0
             /\ \A d \in Dir, i \in Index :
                  i > (now' - start') \div BucketTime => WriteBuffer(conn'[c]).bw[d][i] = 0
  <2>1. \A i \in Index : i \in Nat /\ CarryOver \in Nat
    BY IndexFinite, Sizes
  <2> QED
    BY <1>1, <1>3, <1>5, <2>1
<1>7. BufferInv'
  BY <1>1, <1>2, <1>3, <1>6 DEF BufferInv, ReadBuffer, WriteBuffer
<1> QED
  BY <1>4, <1>7

LEMMA WindowBookInv ==
  ASSUME IInv, ProcessHighFrequencyTelemetry
  PROVE  BookInv'
<1>1. /\ conn' = [c \in Open |-> Aggregated(WindowSwapped[c])]
      /\ aggregated' = AddedUp(WindowSwapped, WindowValid) /\ UNCHANGED <<booked, late>>
  BY WindowStep
<1>2. Open' = Open /\ \A c \in Open : conn'[c] = Aggregated(WindowSwapped[c])
  BY <1>1 DEF Open
<1>3. BookInv /\ booked \in [Connection -> Counts] /\ aggregated \in [Connection -> Counts]
      /\ Open \subseteq Connection
  BY DEF IInv, TypeInv, CountTypes, ConnectionTypes
<1>4. \A c \in Connection, d \in Dir : booked[c][d] \in Nat /\ aggregated[c][d] \in Nat
  BY <1>3 DEF Counts
<1>5. "Send" \in Dir
  BY DEF Dir
<1>6. ASSUME NEW c \in Open, NEW d \in Dir
      PROVE  /\ InBuffer(conn'[c], d) \in Nat
             /\ InBuffer(conn'[c], d) + aggregated'[c][d] <= booked[c][d]
             /\ aggregated'[c][d] <= booked[c][d]
  <2> DEFINE left == InBuffer(conn'[c], d)
             taken == Taken(WindowSwapped, WindowValid, c, d)
             before == InBuffer(conn[c], d)
  <2>1. left \in Nat /\ before \in Nat /\ left + taken <= before
    BY <1>2, WindowBooks
  <2>2. taken \in Nat
    BY TakenNat, WindowReadable
  <2>3. before + aggregated[c][d] <= booked[c][d]
    BY <1>3 DEF BookInv
  <2>4. aggregated'[c][d] = aggregated[c][d] + taken
    BY <1>1, <1>3 DEF AddedUp
  <2> HIDE DEF left, taken, before
  <2>5. left + aggregated'[c][d] <= booked[c][d] /\ aggregated'[c][d] <= booked[c][d]
    BY <1>3, <1>4, <2>1, <2>2, <2>3, <2>4
  <2> QED
    BY <2>1, <2>5 DEF left
<1>7. ASSUME NEW c \in Open \ late
      PROVE  InBuffer(conn'[c], "Send") + aggregated'[c]["Send"] = booked[c]["Send"]
  <2> DEFINE left == InBuffer(conn'[c], "Send")
             taken == Taken(WindowSwapped, WindowValid, c, "Send")
             before == InBuffer(conn[c], "Send")
  <2>1. left \in Nat /\ before \in Nat /\ left + taken = before
    BY <1>2, <1>5, WindowBooks
  <2>2. taken \in Nat
    BY <1>5, TakenNat, WindowReadable
  <2>3. before + aggregated[c]["Send"] = booked[c]["Send"]
    BY <1>3 DEF BookInv
  <2>4. aggregated'[c]["Send"] = aggregated[c]["Send"] + taken
    BY <1>1, <1>3, <1>5 DEF AddedUp
  <2> HIDE DEF left, taken, before
  <2>5. left + aggregated'[c]["Send"] = booked[c]["Send"]
    BY <1>3, <1>4, <1>5, <2>1, <2>2, <2>3, <2>4
  <2> QED
    BY <2>5 DEF left
<1>8. ASSUME NEW c \in Connection, NEW d \in Dir
      PROVE  aggregated'[c][d] <= booked[c][d]
  <2>1. CASE c \in Open
    BY <1>6, <2>1
  <2>2. CASE c \notin Open
    <3>1. aggregated'[c] = aggregated[c]
      BY <1>1, <2>2 DEF AddedUp
    <3> QED
      BY <1>3, <3>1 DEF BookInv
  <2> QED
    BY <2>1, <2>2
<1> QED
  BY <1>1, <1>2, <1>6, <1>7, <1>8 DEF BookInv, InBuffer, WriteBuffer

LEMMA WindowInv ==
  ASSUME IInv, ProcessHighFrequencyTelemetry,
         due' \in [window : Nat, save : Nat], flush' \in {"none", "window", "close"}
  PROVE  IInv'
<1>1. /\ start' = now - MaxLatency /\ DOMAIN conn' = DOMAIN conn
      /\ UNCHANGED <<now, nics, call, calls, booked, late>>
  <2>1. conn' = [c \in Open |-> Aggregated(WindowSwapped[c])]
    BY WindowStep
  <2>2. DOMAIN conn' = DOMAIN conn
    BY <2>1 DEF Open
  <2> QED
    BY <2>2, WindowStep
<1>2. ClockTypes'
  <2>1. ClockTypes
    BY DEF IInv, TypeInv
  <2>2. start' \in 0 .. now
    BY <1>1, <2>1, UnusedNat
  <2> QED
    BY <1>1, <2>1, <2>2 DEF ClockTypes
<1>3. CallTypes' /\ TotalInv'
  <2>1. CallTypes /\ TotalInv
    BY DEF IInv, TypeInv
  <2>2. CallTypes'
    BY <1>1, <2>1 DEF CallTypes, Open
  <2> QED
    BY <1>1, <2>1, <2>2, SameTotal
<1>4. CountTypes' /\ msec' \in MsecType /\ NicInv' /\ MsecInv'
  <2>1. booked' \in [Connection -> Counts]
    BY <1>1 DEF IInv, TypeInv, CountTypes
  <2> QED
    BY <2>1, WindowNics DEF CountTypes
<1>5. ConnectionTypes' /\ BufferInv' /\ BookInv'
  BY WindowConnections, WindowBookInv
<1> QED
  BY <1>2, <1>3, <1>4, <1>5 DEF IInv, TypeInv
-----------------------------------------------------------------------------
(***************************************************************************)
(* Every step.                                                             *)
(***************************************************************************)
LEMMA ProcessWindowInv ==
  ASSUME IInv, ProcessWindow
  PROVE  IInv'
<1>1. ProcessHighFrequencyTelemetry /\ now' = now
  BY WindowStep DEF ProcessWindow
<1>2. ClockTypes
  BY DEF IInv, TypeInv
<1>3. now + Period \in Nat
  <2>1. now \in Nat
    BY <1>2, UnusedNat
  <2>2. Period \in Nat
    BY BandwidthAssumption, MillisecondAssumption DEF Period
  <2> QED
    BY <2>1, <2>2
<1>4. due' \in [window : Nat, save : Nat] /\ flush' \in {"none", "window", "close"}
  BY <1>2, <1>3 DEF ProcessWindow, ClockTypes
<1> QED
  BY <1>1, <1>4, WindowInv

LEMMA FlushTelemetryInv ==
  ASSUME IInv, FlushTelemetry
  PROVE  IInv'
<1>1. ProcessHighFrequencyTelemetry
  BY DEF FlushTelemetry
<1>2. due' \in [window : Nat, save : Nat] /\ flush' \in {"none", "window", "close"}
  BY DEF FlushTelemetry, IInv, TypeInv, ClockTypes
<1> QED
  BY <1>1, <1>2, WindowInv

LEMMA StutterInv ==
  ASSUME IInv, UNCHANGED vars
  PROVE  IInv'
<1> USE DEF IInv, TypeInv
<1>1. UNCHANGED <<now, start, due, conn, nics, flush, nicCarry, msec, call, calls, bytes, late>>
  BY DEF vars
<1>2. ClockTypes' /\ ConnectionTypes' /\ CountTypes' /\ msec' \in MsecType
  BY <1>1, SameClock, SameConnections, SameCounts
<1>3. CallTypes'
  BY <1>1 DEF CallTypes, Open
<1>4. BufferInv' /\ BookInv' /\ NicInv' /\ MsecInv'
  BY <1>1, SameBuffers, SameBooks, SameNics, SameMsec
<1>5. TotalInv'
  BY <1>1, SameTotal DEF bytes
<1> QED
  BY <1>2, <1>3, <1>4, <1>5

LEMMA Inductive == IInv /\ [Next]_vars => IInv'
<1> SUFFICES ASSUME IInv, [Next]_vars
             PROVE  IInv'
  OBVIOUS
<1>1. ASSUME NEW c \in Connection, AddConnection(c)
      PROVE  IInv'
  BY <1>1, AddConnectionInv
<1>2. ASSUME NEW c \in Connection, DeleteConnection(c)
      PROVE  IInv'
  BY <1>2, DeleteConnectionInv
<1>3. ASSUME NEW c \in Connection, NotifyBegin(c)
      PROVE  IInv'
  BY <1>3, NotifyBeginInv
<1>4. CASE NotifyBook
  BY <1>4, NotifyBookInv
<1>5. CASE FlushTelemetry
  BY <1>5, FlushTelemetryInv
<1>6. CASE CloseOut
  BY <1>6, CloseOutInv
<1>7. CASE ProcessWindow
  BY <1>7, ProcessWindowInv
<1>8. CASE SaveWindow
  BY <1>8, SaveWindowInv
<1>9. CASE Tick
  BY <1>9, TickInv
<1>10. CASE UNCHANGED vars
  BY <1>10, StutterInv
<1> QED
  BY <1>1, <1>2, <1>3, <1>4, <1>5, <1>6, <1>7, <1>8, <1>9, <1>10 DEF Next

\* The conjunction above is an invariant: it begins true and no step ends it.
THEOREM InvariantHolds == Spec => []IInv
<1>1. Init => IInv
  BY InitInv
<1>2. IInv /\ [Next]_vars => IInv'
  BY Inductive
<1> QED
  BY <1>1, <1>2, PTL DEF Spec

-----------------------------------------------------------------------------
(***************************************************************************)
(* What follows from it.                                                   *)
(***************************************************************************)
\* The bytes counted anywhere are bytes of the calls.
LEMMA BytesBounded ==
  ASSUME IInv
  PROVE  /\ \A c \in Connection, d \in Dir : booked[c][d] \in Bytes /\ aggregated[c][d] \in Bytes
         /\ \A c \in Open, d \in Dir : InBuffer(conn[c], d) \in Bytes
         /\ \A d \in Dir : submitted[d] \in Bytes /\ msec.saved[d] \in Bytes
         /\ nicCarry \in Bytes
<1>1. TypeInv /\ BookInv /\ TotalInv /\ NicInv /\ MsecInv
  BY DEF IInv
<1>2. /\ booked \in [Connection -> Counts] /\ aggregated \in [Connection -> Counts]
      /\ submitted \in Counts /\ nicCarry \in Nat /\ msec \in MsecType
      /\ conn \in [Open -> ConnType] /\ Open \subseteq Connection
      /\ calls \in 0 .. MaxCalls
  BY <1>1 DEF TypeInv, CountTypes, ConnectionTypes, CallTypes
<1> DEFINE limit == MaxCalls * Size
           all == BothDirections(booked)
           up == BothDirections(aggregated)
<1>3. limit \in Nat /\ calls * Size \in Nat /\ calls * Size <= limit
  <2>1. MaxCalls \in Nat /\ Size \in Nat /\ calls \in Nat /\ calls <= MaxCalls
    BY <1>2, BandwidthAssumption
  <2> QED
    BY <2>1, MulMono, MulNat
<1>4. /\ all \in Nat /\ \A c \in Connection, d \in Dir : booked[c][d] \in Nat /\ booked[c][d] <= all
      /\ up \in Nat /\ \A c \in Connection, d \in Dir : aggregated[c][d] \in Nat
  BY <1>2, BothNat
<1>5. all <= limit
  <2>1. Size \in Nat
    BY BandwidthAssumption
  <2> HIDE DEF limit, all
  <2> DEFINE brought == calls * Size
  <2>2. brought \in Nat /\ brought <= limit
    BY <1>3
  <2>3. all + (IF call = NoCall THEN 0 ELSE Size) <= brought
    BY <1>1 DEF TotalInv, all
  <2> HIDE DEF brought
  <2> QED
    BY <1>3, <1>4, <2>1, <2>2, <2>3
<1>6. up <= all
  <2> DEFINE f == [c \in Connection |-> aggregated[c]["Send"] + aggregated[c]["Recv"]]
             g == [c \in Connection |-> booked[c]["Send"] + booked[c]["Recv"]]
  <2>1. "Send" \in Dir /\ "Recv" \in Dir
    BY DEF Dir
  <2>2. \A c \in Connection : f[c] \in Int /\ g[c] \in Int /\ f[c] <= g[c]
    BY <1>1, <1>4, <2>1 DEF BookInv
  <2>3. up = SumOver(f, Connection) /\ all = SumOver(g, Connection)
    BY SumIs DEF BothDirections
  <2> HIDE DEF f, g, up, all
  <2> QED
    BY <2>2, <2>3, SumLeq, BandwidthAssumption
<1> HIDE DEF limit, all, up
<1>7. \A d \in Dir : submitted[d] \in Nat /\ submitted[d] <= up /\ nicCarry <= up
  <2>1. submitted["Send"] \in Nat /\ submitted["Recv"] \in Nat
    BY <1>2 DEF Counts, Dir
  <2>2. up = submitted["Send"] + submitted["Recv"] + nicCarry
    BY <1>1 DEF NicInv, up
  <2>3. submitted["Send"] <= up /\ submitted["Recv"] <= up /\ nicCarry <= up
    BY <1>2, <2>1, <2>2
  <2> QED
    BY <2>1, <2>3 DEF Dir
<1>8. ASSUME NEW d \in Dir
      PROVE  msec.saved[d] \in Nat /\ msec.saved[d] <= submitted[d]
  <2> DEFINE b == BytesIn(msec, d, Position)
             s == msec.saved[d]
             k == Kept(msec, d)
  <2>1. b \in Nat
    BY <1>2, BytesInNat
  <2>2. s \in Nat
    BY <1>2 DEF MsecType
  <2>3. k = s + (IF msec.open THEN b ELSE 0) /\ k <= submitted[d]
    BY <1>1 DEF MsecInv, Kept
  <2> HIDE DEF b, s, k
  <2>4. s <= submitted[d]
    BY <1>7, <2>1, <2>2, <2>3
  <2> QED
    BY <2>2, <2>4 DEF s
<1>9. ASSUME NEW c \in Open, NEW d \in Dir
      PROVE  InBuffer(conn[c], d) \in Nat /\ InBuffer(conn[c], d) <= booked[c][d]
  <2>1. InBuffer(conn[c], d) \in Nat
    BY WindowBooks
  <2>2. InBuffer(conn[c], d) + aggregated[c][d] <= booked[c][d]
    BY <1>1 DEF BookInv
  <2> QED
    BY <1>2, <1>4, <2>1, <2>2
<1>10. \A n \in Nat : n <= all => n \in Bytes
  BY <1>3, <1>4, <1>5 DEF Bytes, limit
<1>11. \A c \in Connection, d \in Dir : booked[c][d] \in Bytes /\ aggregated[c][d] \in Bytes
  <2>1. \A c \in Connection, d \in Dir : aggregated[c][d] <= booked[c][d]
    BY <1>1 DEF BookInv
  <2> QED
    BY <1>4, <1>10, <2>1
<1>12. \A c \in Open, d \in Dir : InBuffer(conn[c], d) \in Bytes
  BY <1>2, <1>4, <1>9, <1>10
<1>13. \A d \in Dir : submitted[d] \in Bytes /\ nicCarry \in Bytes
  BY <1>2, <1>4, <1>6, <1>7, <1>10
<1>14. \A d \in Dir : msec.saved[d] \in Bytes
  BY <1>4, <1>6, <1>7, <1>8, <1>10
<1>15. "Send" \in Dir
  BY DEF Dir
<1> QED
  BY <1>11, <1>12, <1>13, <1>14, <1>15

\* No bucket holds more than its buffer, and the other buffer is empty.
LEMMA BucketsBounded ==
  ASSUME IInv, NEW c \in Open, NEW d \in Dir, NEW state \in 0 .. 1
  PROVE  conn[c].buffer[state].bw[d] \in [Index -> Bytes]
<1>1. conn[c] \in ConnType /\ ReadBuffer(conn[c]).bw = AllZero
  BY DEF IInv, TypeInv, ConnectionTypes, BufferInv
<1>2. 0 \in Bytes
  <2>1. MaxCalls * Size \in Nat
    BY BandwidthAssumption, MulNat
  <2> QED
    BY <2>1 DEF Bytes
<1> DEFINE cn == conn[c]
<1>3. InBuffer(cn, d) \in Bytes
  BY BytesBounded
<1> HIDE DEF cn
<1>4. /\ cn.gen \in 0 .. 1 /\ WriteBuffer(cn) = cn.buffer[cn.gen]
      /\ ReadBuffer(cn) = cn.buffer[1 - cn.gen]
      /\ WriteBuffer(cn).bw[d] \in [Index -> Nat]
  BY <1>1, BufferOf DEF cn
<1>5. CASE state = cn.gen
  <2> DEFINE f == WriteBuffer(cn).bw[d]
  <2>1. InBuffer(cn, d) = SumOver(f, Index)
    BY SumIs DEF InBuffer
  <2>2. f \in [Index -> Nat] /\ f = cn.buffer[state].bw[d]
    BY <1>4, <1>5
  <2> HIDE DEF f
  <2>3. ASSUME NEW i \in Index
        PROVE  f[i] \in Bytes
    <3> DEFINE rest == Index \ {i}
               others == SumOver(f, rest)
               all == SumOver(f, Index)
    <3>1. IsFiniteSet(rest) /\ \A x \in rest : f[x] \in Nat
      BY <2>2, IndexFinite, FS_RemoveElement
    <3> HIDE DEF rest
    <3>2. others \in Nat
      BY <3>1, SumNat
    <3>3. \A x \in Index : f[x] \in Int
      BY <2>2
    <3>4. all = f[i] + others
      BY <3>3, IndexFinite, SumRemove DEF rest
    <3>5. all \in Bytes /\ f[i] \in Nat
      BY <1>3, <2>1, <2>2
    <3> HIDE DEF others, all
    <3> QED
      BY <3>2, <3>4, <3>5, BandwidthAssumption, MulNat DEF Bytes
  <2> QED
    BY <2>2, <2>3 DEF cn
<1>6. CASE state # cn.gen
  <2>1. state = 1 - cn.gen
    BY <1>4, <1>6
  <2>2. cn.buffer[state].bw = AllZero
    BY <1>1, <1>4, <2>1 DEF cn
  <2> QED
    BY <1>2, <2>2 DEF AllZero, Zero, cn
<1> QED
  BY <1>5, <1>6 DEF cn

\* The variables keep their ranges, and no bucket, sum or carry of a run exceeds
\* the bytes of its calls: the swaps, the carry-over and the capping move bytes
\* and make none.
THEOREM TypeCorrect == Spec => []TypeOK
<1>1. IInv => TypeOK
  <2> SUFFICES ASSUME IInv
               PROVE  TypeOK
    OBVIOUS
  <2>1. ClockTypes /\ ConnectionTypes /\ CallTypes /\ BufferInv
    BY DEF IInv, TypeInv
  <2>2. /\ now \in FirstTime .. LastTime /\ start \in 0 .. now
        /\ due.window \in Nat /\ due.save \in Nat /\ flush \in {"none", "window", "close"}
    BY <2>1 DEF ClockTypes
  <2>3. Open \subseteq Connection /\ nics \subseteq Nic /\ late \subseteq Connection
    BY <2>1 DEF ConnectionTypes
  <2>4. ASSUME NEW c \in Open
        PROVE  /\ conn[c].gen \in 0 .. 1
               /\ \A state \in 0 .. 1, d \in Dir :
                    /\ conn[c].buffer[state].start \in 0 .. now
                    /\ conn[c].buffer[state].bw[d] \in [Index -> Bytes]
    <3>1. conn[c] \in ConnType
      BY <2>1 DEF ConnectionTypes
    <3>2. conn[c].gen \in 0 .. 1 /\ \A state \in 0 .. 1 : conn[c].buffer[state].start \in Nat
      BY <3>1 DEF ConnType, BufferType
    <3>3. \A state \in 0 .. 1 : conn[c].buffer[state].start <= now
      BY <2>1 DEF BufferInv
    <3>4. now \in Nat
      BY <2>1, UnusedNat
    <3>5. \A state \in 0 .. 1 : conn[c].buffer[state].start \in 0 .. now
      BY <3>2, <3>3, <3>4
    <3> QED
      BY <3>2, <3>5, BucketsBounded
  <2>5. calls \in 0 .. MaxCalls /\ call.conn \subseteq Open
    <3>1. call = NoCall => call.conn = {}
      BY DEF NoCall
    <3> QED
      BY <2>1, <3>1 DEF CallTypes
  <2>6. /\ nicCarry \in Bytes
        /\ \A d \in Dir : /\ \A c \in Connection : {booked[c][d], aggregated[c][d]} \subseteq Bytes
                          /\ {submitted[d], msec.saved[d]} \subseteq Bytes
    BY BytesBounded
  <2> QED
    BY <2>2, <2>3, <2>4, <2>5, <2>6 DEF TypeOK
<1> QED
  BY <1>1, InvariantHolds, PTL

\* Bytes booked as sent on an open connection are in its buffers or have been
\* added up, each once, however windows are delayed or brought forward by a
\* flush: processHighFrequencyTelemetry neither skips a bucket that was booked
\* in nor both carries it over and adds it up, late calls apart.
THEOREM SendConserved == Spec => []SendBytesConserved
<1>1. IInv => SendBytesConserved
  <2> SUFFICES ASSUME IInv, NEW c \in Open \ late
               PROVE  Conserved(c, "Send")
    BY DEF SendBytesConserved
  <2>1. "Send" \in Dir
    BY DEF Dir
  <2>2. conn[c] \in ConnType /\ ReadBuffer(conn[c]).bw = AllZero /\ c \in Open
    BY DEF IInv, TypeInv, ConnectionTypes, BufferInv
  <2>3. InBuffer(conn[c], "Send") + aggregated[c]["Send"] = booked[c]["Send"]
    BY DEF IInv, BookInv
  <2>4. InBuffer(conn[c], "Send") \in Nat
    BY <2>1, <2>2, WindowBooks
  <2> DEFINE cn == conn[c]
             first == Sum(cn.buffer[0].bw["Send"], Index)
             second == Sum(cn.buffer[1].bw["Send"], Index)
             read == Sum(ReadBuffer(cn).bw["Send"], Index)
  <2> HIDE DEF cn
  <2>5. /\ cn.gen \in 0 .. 1 /\ WriteBuffer(cn) = cn.buffer[cn.gen]
        /\ ReadBuffer(cn) = cn.buffer[1 - cn.gen]
    BY <2>2, BufferOf DEF cn
  <2>6. read = 0
    <3> DEFINE f == ReadBuffer(cn).bw["Send"]
    <3>1. \A i \in Index : f[i] = 0
      BY <2>1, <2>2 DEF AllZero, Zero, cn
    <3>2. read = SumOver(f, Index)
      BY SumIs
    <3> HIDE DEF f, read
    <3> QED
      BY <3>1, <3>2, SumZero, IndexFinite
  <2>7. \/ first = InBuffer(cn, "Send") /\ second = read
        \/ first = read /\ second = InBuffer(cn, "Send")
    <3>1. CASE cn.gen = 0
      BY <2>5, <3>1 DEF InBuffer
    <3>2. CASE cn.gen = 1
      BY <2>5, <3>2 DEF InBuffer
    <3> QED
      BY <2>5, <3>1, <3>2
  <2>8. Buffered(c, "Send") = first + second
    BY DEF Buffered, cn
  <2> DEFINE held == InBuffer(cn, "Send")
  <2>9. held + aggregated[c]["Send"] = booked[c]["Send"] /\ held \in Nat
    BY <2>3, <2>4 DEF cn
  <2>10. first + second = held
    <3>1. held \in Nat /\ read = 0
      BY <2>6, <2>9
    <3>2. \/ first = held /\ second = read
          \/ first = read /\ second = held
      BY <2>7
    <3> HIDE DEF held, first, second, read
    <3> QED
      BY <3>1, <3>2
  <2> HIDE DEF held, first, second
  <2> QED
    BY <2>8, <2>9, <2>10 DEF Conserved
<1> QED
  BY <1>1, InvariantHolds, PTL

\* What processHighFrequencyTelemetry added up for the NICs went to their
\* histograms or is carried to the next window: capping a bucket loses nothing,
\* and no connection is left out or counted for two NICs.
THEOREM NicConserved == Spec => []NicBytesConserved
<1>1. IInv => NicBytesConserved
  BY DEF IInv, NicInv, BothDirections, NicBytesConserved
<1> QED
  BY <1>1, InvariantHolds, PTL

\* The file and the buffer of milliseconds never have more bytes than were
\* submitted, whatever the order of windows, savings and closings: a batch that
\* SaveBandwidthStats moves to the front is not saved again.
THEOREM MsecSound == Spec => []MsecNeverInvents
<1>1. IInv => MsecNeverInvents
  BY DEF IInv, MsecInv, Kept, MsecNeverInvents
<1> QED
  BY <1>1, InvariantHolds, PTL
=============================================================================
