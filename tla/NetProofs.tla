------------------------------ MODULE NetProofs -------------------------------
(***************************************************************************)
(* The frames keep in step, for any lengths, any room in the send buffer   *)
(* and any number of frames.                                               *)
(*                                                                         *)
(* Part 1: what FlattenSeq makes of one sequence more (FlattenAppend).  It *)
(* is a recursive function, and what it yields is shown at the least index *)
(* where it would not: Least.  Part 2: what smoltcp is handed (RxInv).     *)
(* Part 3: what goes out (TxInv).                                          *)
(***************************************************************************)
EXTENDS NetDevice, SequenceTheorems, WellFoundedInduction, TLAPS

(***************************************************************************)
(* Part 1: the wire                                                        *)
(***************************************************************************)

LEMMA Least ==
  ASSUME NEW S \in SUBSET Nat, S # {}
  PROVE  \E n \in S : \A m \in S : n <= m
<1> DEFINE R == {ss \in Nat \X Nat : ss[1] < ss[2]}
<1>1. IsWellFoundedOn(R, Nat)
  BY NatLessThanWellFounded DEF OpToRel
<1>2. PICK n \in S : \A m \in S : <<m, n>> \notin R
  BY <1>1, WFMin, Zenon
<1>3. \A m \in S : ~(m < n)
  BY <1>2
<1> QED
  BY <1>3

\* g is the first n values of flatten.
Flattens(g, s, n) ==
  g = [i \in 1 .. n |-> IF i = 1 THEN s[1] ELSE g[i - 1] \o s[i]]

LEMMA FlattensValues ==
  ASSUME NEW g, NEW s, NEW n \in Nat, Flattens(g, s, n)
  PROVE  \A i \in 1 .. n : g[i] = IF i = 1 THEN s[1] ELSE g[i - 1] \o s[i]
<1> DEFINE e == [i \in 1 .. n |-> IF i = 1 THEN s[1] ELSE g[i - 1] \o s[i]]
<1>1. g = e
  BY DEF Flattens
<1>2. \A i \in 1 .. n : e[i] = IF i = 1 THEN s[1] ELSE g[i - 1] \o s[i]
  OBVIOUS
<1> HIDE DEF e
<1> QED
  BY <1>1, <1>2

LEMMA FlattensExists ==
  ASSUME NEW s, NEW n \in Nat
  PROVE  \E g : Flattens(g, s, n)
<1> DEFINE Bad == {m \in Nat : ~\E g : Flattens(g, s, m)}
<1>1. SUFFICES ASSUME Bad # {} PROVE FALSE
  OBVIOUS
<1>2. PICK m \in Bad : \A k \in Bad : m <= k
  BY <1>1, Least
<1>3. CASE m = 0
  <2> DEFINE g == [i \in 1 .. 0 |-> s]
  <2>1. g = [i \in 1 .. 0 |-> IF i = 1 THEN s[1] ELSE g[i - 1] \o s[i]]
    OBVIOUS
  <2>2. Flattens(g, s, 0)
    BY <2>1 DEF Flattens
  <2> QED
    BY <1>3, <2>2
<1>4. CASE m # 0
  <2>1. m \in Nat /\ m - 1 \in Nat /\ m - 1 \notin Bad
    BY <1>2, <1>4
  <2>2. PICK g : Flattens(g, s, m - 1)
    BY <2>1
  <2>3. \A i \in 1 .. m - 1 : g[i] = IF i = 1 THEN s[1] ELSE g[i - 1] \o s[i]
    BY <2>1, <2>2, FlattensValues
  <2> DEFINE v == IF m = 1 THEN s[1] ELSE g[m - 1] \o s[m]
             h == [i \in 1 .. m |-> IF i = m THEN v ELSE g[i]]
             e == [i \in 1 .. m |-> IF i = 1 THEN s[1] ELSE h[i - 1] \o s[i]]
  <2>4. h[m] = v /\ \A i \in 1 .. m - 1 : h[i] = g[i]
    <3> HIDE DEF v
    <3> QED
      BY <1>4, <2>1
  <2>5. DOMAIN h = 1 .. m /\ DOMAIN e = 1 .. m
    OBVIOUS
  <2>6. \A i \in 1 .. m : e[i] = IF i = 1 THEN s[1] ELSE h[i - 1] \o s[i]
    OBVIOUS
  <2>7. h = [i \in 1 .. m |-> h[i]] /\ e = [i \in 1 .. m |-> e[i]]
    OBVIOUS
  <2> HIDE DEF h, e
  <2>8. \A i \in 1 .. m : h[i] = e[i]
    <3> SUFFICES ASSUME NEW i \in 1 .. m PROVE h[i] = e[i]
      OBVIOUS
    <3>1. i # 1 => i - 1 \in 1 .. m - 1
      BY <2>1
    <3>2. i = m \/ i \in 1 .. m - 1
      BY <2>1
    <3> QED
      BY <2>1, <2>3, <2>4, <2>6, <3>1, <3>2
  <2>9. h = e
    BY <2>7, <2>8
  <2>10. Flattens(h, s, m)
    BY <2>9 DEF Flattens, e
  <2> QED
    BY <2>10
<1> QED
  BY <1>3, <1>4

LEMMA FlattensUnique ==
  ASSUME NEW s, NEW n \in Nat, NEW g, Flattens(g, s, n), NEW k \in Nat, NEW h, Flattens(h, s, k),
         n <= k
  PROVE  \A i \in 1 .. n : g[i] = h[i]
<1> DEFINE Bad == {i \in 1 .. n : g[i] # h[i]}
<1>1. SUFFICES ASSUME Bad # {} PROVE FALSE
  OBVIOUS
<1>2. Bad \in SUBSET Nat
  OBVIOUS
<1> HIDE DEF Bad
<1>3. PICK m \in Bad : \A i \in Bad : m <= i
  BY <1>1, <1>2, Least
<1>4. m \in 1 .. n /\ m \in 1 .. k /\ (m # 1 => m - 1 \in 1 .. n /\ g[m - 1] = h[m - 1])
  BY <1>2, <1>3 DEF Bad
<1>5. g[m] = h[m]
  BY <1>4, FlattensValues
<1> QED
  BY <1>3, <1>5 DEF Bad

\* What FlattenSeq computes is flatten's last value.
LEMMA FlattenLast ==
  ASSUME NEW s, Len(s) \in Nat \ {0}
  PROVE  \E g : Flattens(g, s, Len(s)) /\ FlattenSeq(s) = g[Len(s)]
<1> DEFINE n == Len(s)
           Walk == CHOOSE g : g = [i \in 1 .. Len(s) |-> IF i = 1 THEN s[i] ELSE g[i - 1] \o s[i]]
<1>1. FlattenSeq(s) = IF Len(s) = 0 THEN s ELSE Walk[Len(s)]
  BY DEF FlattenSeq
<1>2. PICK g : Flattens(g, s, n)
  BY FlattensExists
<1>3. [i \in 1 .. n |-> IF i = 1 THEN s[1] ELSE g[i - 1] \o s[i]]
        = [i \in 1 .. n |-> IF i = 1 THEN s[i] ELSE g[i - 1] \o s[i]]
  OBVIOUS
<1>4. g = [i \in 1 .. n |-> IF i = 1 THEN s[i] ELSE g[i - 1] \o s[i]]
  BY <1>2, <1>3 DEF Flattens
<1>5. Walk = [i \in 1 .. n |-> IF i = 1 THEN s[i] ELSE Walk[i - 1] \o s[i]]
  BY <1>4, Zenon
<1> HIDE DEF Walk
<1>6. [i \in 1 .. n |-> IF i = 1 THEN s[i] ELSE Walk[i - 1] \o s[i]]
        = [i \in 1 .. n |-> IF i = 1 THEN s[1] ELSE Walk[i - 1] \o s[i]]
  OBVIOUS
<1>7. Flattens(Walk, s, n)
  BY <1>5, <1>6 DEF Flattens
<1> QED
  BY <1>1, <1>7

LEMMA FlattenOne ==
  ASSUME NEW S, NEW s \in Seq(S), Len(s) = 1
  PROVE  FlattenSeq(s) = s[1]
<1>0. Len(s) \in Nat \ {0}
  OBVIOUS
<1>1. PICK g : Flattens(g, s, Len(s)) /\ FlattenSeq(s) = g[Len(s)]
  BY ONLY <1>0, FlattenLast, Zenon
<1>2. Flattens(g, s, 1) /\ FlattenSeq(s) = g[1]
  BY <1>1
<1> QED
  BY <1>2, FlattensValues

\* One sequence more is appended to what the others make up.
LEMMA FlattenAppend ==
  ASSUME NEW U, NEW s \in Seq(Seq(U)), NEW x \in Seq(U)
  PROVE  FlattenSeq(Append(s, x)) = FlattenSeq(s) \o x
<1> DEFINE n == Len(s)
           t == Append(s, x)
<1>1. n \in Nat /\ t \in Seq(Seq(U)) /\ Len(t) = n + 1 /\ t[n + 1] = x /\ \A i \in 1 .. n : t[i] = s[i]
  BY AppendProperties, LenProperties
<1> HIDE DEF n
<1>2. CASE n = 0
  <2>1. s = <<>> /\ FlattenSeq(s) = s
    BY <1>2, EmptySeq DEF FlattenSeq, n
  <2>2. FlattenSeq(t) = x
    <3> HIDE DEF t
    <3> QED
      BY <1>1, <1>2, FlattenOne
  <2> QED
    BY <2>1, <2>2, ConcatEmptySeq
<1>3. CASE n # 0
  <2> HIDE DEF t
  <2>1. PICK g : Flattens(g, s, n) /\ FlattenSeq(s) = g[n]
    BY <1>1, <1>3, FlattenLast DEF n
  <2>2. PICK h : Flattens(h, t, n + 1) /\ FlattenSeq(t) = h[n + 1]
    <3>1. n + 1 \in Nat \ {0}
      BY <1>1
    <3>2. PICK h : Flattens(h, t, Len(t)) /\ FlattenSeq(t) = h[Len(t)]
      BY <1>1, <3>1, FlattenLast
    <3> QED
      BY <1>1, <3>2
  <2> DEFINE f == [i \in 1 .. n |-> h[i]]
             e == [i \in 1 .. n |-> IF i = 1 THEN s[1] ELSE f[i - 1] \o s[i]]
  <2>3. \A i \in 1 .. n + 1 : h[i] = IF i = 1 THEN t[1] ELSE h[i - 1] \o t[i]
    <3>1. n + 1 \in Nat
      BY <1>1
    <3> QED
      BY <2>2, <3>1, FlattensValues
  <2>4. \A i \in 1 .. n : f[i] = h[i]
    OBVIOUS
  <2>5. \A i \in 1 .. n : e[i] = IF i = 1 THEN s[1] ELSE f[i - 1] \o s[i]
    OBVIOUS
  <2>6. f = [i \in 1 .. n |-> f[i]] /\ e = [i \in 1 .. n |-> e[i]]
    OBVIOUS
  <2> HIDE DEF f, e
  <2>7. \A i \in 1 .. n : f[i] = e[i]
    <3> SUFFICES ASSUME NEW i \in 1 .. n PROVE f[i] = e[i]
      OBVIOUS
    <3>1. i \in 1 .. n + 1 /\ t[i] = s[i] /\ t[1] = s[1] /\ (i # 1 => f[i - 1] = h[i - 1])
      BY <1>1, <1>3, <2>4
    <3> QED
      BY <2>3, <2>4, <2>5, <3>1
  <2>8. Flattens(f, s, n)
    BY <2>6, <2>7 DEF Flattens, e
  <2>9. f[n] = g[n]
    BY <1>1, <1>3, <2>1, <2>8, FlattensUnique
  <2>10. h[n + 1] = h[n] \o x
    <3>1. n + 1 \in 1 .. n + 1 /\ n + 1 # 1 /\ (n + 1) - 1 = n
      BY <1>1, <1>3
    <3>2. h[n + 1] = h[(n + 1) - 1] \o t[n + 1]
      BY <2>3, <3>1
    <3> QED
      BY <1>1, <3>1, <3>2
  <2>11. n \in 1 .. n
    BY <1>1, <1>3
  <2> QED
    BY <2>1, <2>2, <2>4, <2>9, <2>10, <2>11 DEF t
<1> QED
  BY <1>2, <1>3

LEMMA FlattenType ==
  ASSUME NEW U, NEW s \in Seq(Seq(U))
  PROVE  FlattenSeq(s) \in Seq(U)
<1>1. CASE Len(s) = 0
  BY <1>1, EmptySeq DEF FlattenSeq
<1>2. CASE Len(s) # 0
  <2>1. Len(s) \in Nat \ {0}
    BY <1>2
  <2>2. PICK g : Flattens(g, s, Len(s)) /\ FlattenSeq(s) = g[Len(s)]
    BY <2>1, FlattenLast
  <2>3. \A i \in 1 .. Len(s) : g[i] = IF i = 1 THEN s[1] ELSE g[i - 1] \o s[i]
    BY <2>1, <2>2, FlattensValues
  <2> DEFINE Bad == {i \in 1 .. Len(s) : g[i] \notin Seq(U)}
  <2>4. Bad = {}
    <3> SUFFICES ASSUME Bad # {} PROVE FALSE
      OBVIOUS
    <3>1. Bad \in SUBSET Nat
      OBVIOUS
    <3> HIDE DEF Bad
    <3>2. PICK m \in Bad : \A i \in Bad : m <= i
      BY <3>1, Least
    <3>3. m \in 1 .. Len(s) /\ g[m] \notin Seq(U) /\ s[m] \in Seq(U) /\ s[1] \in Seq(U)
      BY <2>1, <3>2, ElementOfSeq DEF Bad
    <3>4. CASE m = 1
      BY <2>3, <3>3, <3>4
    <3>5. CASE m # 1
      <4>1. m - 1 \in 1 .. Len(s) /\ m - 1 \notin Bad
        BY <3>1, <3>2, <3>3, <3>5
      <4>2. g[m - 1] \in Seq(U)
        BY <4>1 DEF Bad
      <4>3. g[m] = g[m - 1] \o s[m]
        BY <2>3, <3>3, <3>5
      <4> QED
        BY <3>3, <4>2, <4>3, ConcatProperties
    <3> QED
      BY <3>4, <3>5
  <2> QED
    BY <2>1, <2>2, <2>4
<1> QED
  BY <1>1, <1>2

Units        == Nat \X {"hi", "lo", "body"} \X Nat
Frames(lens) == [id : Nat, len : lens]

LEMMA EncodeDoes ==
  ASSUME NEW f \in Frames(Nat)
  PROVE  /\ Encode(f) \in Seq(Units) /\ Len(Encode(f)) = 2 + f.len
         /\ Prefix(f) \in Seq(Units) /\ Len(Prefix(f)) = 2
         /\ Body(f) \in Seq(Units) /\ Len(Body(f)) = f.len
         /\ \A j \in 1 .. 2 : Encode(f)[j] = Prefix(f)[j]
         /\ Encode(f)[1][3] = f.len
         /\ \A j \in 1 .. f.len : Encode(f)[2 + j] = <<f.id, "body", j>>
<1>1. f.id \in Nat /\ f.len \in Nat
  BY DEF Frames
<1>2. Prefix(f) \in Seq(Units) /\ Len(Prefix(f)) = 2 /\ Prefix(f)[1] = <<f.id, "hi", f.len>>
  BY <1>1 DEF Prefix, Units
<1>3. /\ Body(f) \in Seq(Units) /\ Len(Body(f)) = f.len
      /\ \A j \in 1 .. f.len : Body(f)[j] = <<f.id, "body", j>>
  BY <1>1 DEF Body, Units
<1>4. /\ Prefix(f) \o Body(f) \in Seq(Units) /\ Len(Prefix(f) \o Body(f)) = 2 + f.len
      /\ \A i \in 1 .. 2 + f.len :
           (Prefix(f) \o Body(f))[i] = IF i <= 2 THEN Prefix(f)[i] ELSE Body(f)[i - 2]
  <2> DEFINE p == Prefix(f)
             b == Body(f)
  <2>1. p \in Seq(Units) /\ b \in Seq(Units) /\ Len(p) = 2 /\ Len(b) = f.len
    BY <1>2, <1>3
  <2> HIDE DEF p, b
  <2>2. /\ p \o b \in Seq(Units) /\ Len(p \o b) = Len(p) + Len(b)
        /\ \A i \in 1 .. Len(p) + Len(b) : (p \o b)[i] = IF i <= Len(p) THEN p[i] ELSE b[i - Len(p)]
    BY <2>1, ConcatProperties
  <2>3. /\ p \o b \in Seq(Units) /\ Len(p \o b) = 2 + f.len
        /\ \A i \in 1 .. 2 + f.len : (p \o b)[i] = IF i <= 2 THEN p[i] ELSE b[i - 2]
    BY ONLY <2>1, <2>2
  <2> QED
    BY <2>3 DEF p, b
<1>5. \A j \in 1 .. 2 : Encode(f)[j] = Prefix(f)[j]
  BY <1>1, <1>4 DEF Encode
<1>6. ASSUME NEW j \in 1 .. f.len PROVE Encode(f)[2 + j] = <<f.id, "body", j>>
  <2>1. 2 + j \in 1 .. 2 + f.len /\ ~(2 + j <= 2) /\ (2 + j) - 2 = j
    BY <1>1
  <2> QED
    BY <1>3, <1>4, <2>1 DEF Encode
<1>7. Encode(f)[1][3] = f.len
  BY <1>2, <1>5
<1> QED
  BY <1>2, <1>3, <1>4, <1>5, <1>6, <1>7 DEF Encode

\* The wire of one frame more is the wire with that frame behind it.
LEMMA StreamAppend ==
  ASSUME NEW fs \in Seq(Frames(Nat)), NEW f \in Frames(Nat)
  PROVE  Stream(Append(fs, f)) = Stream(fs) \o Encode(f) /\ Stream(fs) \in Seq(Units)
<1> DEFINE s == [i \in DOMAIN fs |-> Encode(fs[i])]
           t == [i \in DOMAIN Append(fs, f) |-> Encode(Append(fs, f)[i])]
<1>1. s \in Seq(Seq(Units)) /\ Len(s) = Len(fs)
  <2>1. \A i \in 1 .. Len(fs) : Encode(fs[i]) \in Seq(Units)
    BY EncodeDoes, ElementOfSeq
  <2>2. DOMAIN fs = 1 .. Len(fs) /\ Len(fs) \in Nat
    BY LenProperties
  <2> QED
    BY <2>1, <2>2
<1>2. t = Append(s, Encode(f))
  <2>1. /\ DOMAIN Append(fs, f) = 1 .. Len(fs) + 1 /\ Append(fs, f)[Len(fs) + 1] = f
        /\ \A i \in 1 .. Len(fs) : Append(fs, f)[i] = fs[i]
    BY AppendProperties, LenProperties
  <2>2. Len(fs) \in Nat /\ DOMAIN fs = 1 .. Len(fs)
    BY LenProperties
  <2>3. \A i \in 1 .. Len(fs) + 1 :
          Append(s, Encode(f))[i] = IF i <= Len(fs) THEN Encode(fs[i]) ELSE Encode(f)
    BY <1>1, <2>2
  <2> QED
    BY <1>1, <2>1, <2>2, <2>3, EncodeDoes
<1> QED
  BY <1>1, <1>2, EncodeDoes, FlattenAppend, FlattenType DEF Stream

LEMMA StreamEmpty == Stream(<<>>) = <<>>
BY DEF Stream, FlattenSeq

LEMMA Joined ==
  ASSUME NEW U, NEW s \in Seq(U), NEW t \in Seq(U)
  PROVE  /\ s \o t \in Seq(U) /\ Len(s \o t) = Len(s) + Len(t) /\ Len(s) \in Nat /\ Len(t) \in Nat
         /\ \A j \in 1 .. Len(s) : (s \o t)[j] = s[j]
         /\ \A j \in 1 .. Len(t) : (s \o t)[Len(s) + j] = t[j]
<1>1. /\ s \o t \in Seq(U) /\ Len(s \o t) = Len(s) + Len(t)
      /\ \A i \in 1 .. Len(s) + Len(t) : (s \o t)[i] = IF i <= Len(s) THEN s[i] ELSE t[i - Len(s)]
  BY ConcatProperties
<1>2. Len(s) \in Nat /\ Len(t) \in Nat
  BY LenProperties
<1>3. ASSUME NEW j \in 1 .. Len(s) PROVE (s \o t)[j] = s[j]
  <2>1. j \in 1 .. Len(s) + Len(t) /\ j <= Len(s)
    BY <1>2
  <2> QED
    BY <1>1, <2>1
<1>4. ASSUME NEW j \in 1 .. Len(t) PROVE (s \o t)[Len(s) + j] = t[j]
  <2>1. Len(s) + j \in 1 .. Len(s) + Len(t) /\ ~(Len(s) + j <= Len(s)) /\ (Len(s) + j) - Len(s) = j
    BY <1>2
  <2> QED
    BY <1>1, <2>1
<1> QED
  BY <1>1, <1>2, <1>3, <1>4

LEMMA FrameSeqs ==
  ASSUME NEW lens \in SUBSET Nat, NEW fs \in Seq(Frames(lens))
  PROVE  /\ fs \in Seq(Frames(Nat)) /\ Len(fs) \in Nat
         /\ \A k \in 0 .. Len(fs) : SubSeq(fs, 1, k) \in Seq(Frames(Nat))
         /\ \A i \in 1 .. Len(fs) : fs[i] \in Frames(lens) /\ fs[i] \in Frames(Nat) /\ fs[i].len \in lens
         /\ Stream(fs) \in Seq(Units) /\ Len(Stream(fs)) \in Nat
<1>1. Frames(lens) \subseteq Frames(Nat) /\ [id |-> 0, len |-> 0] \in Frames(Nat)
  BY DEF Frames
<1>2. fs \in Seq(Frames(Nat)) /\ Len(fs) \in Nat
  BY <1>1, SeqMonotonic, LenProperties
<1>3. \A i \in 1 .. Len(fs) : fs[i] \in Frames(lens)
  BY ElementOfSeq
<1>4. \A k \in 0 .. Len(fs) : SubSeq(fs, 1, k) \in Seq(Frames(Nat))
  BY <1>1, <1>2, <1>3, SubSeqProperties
<1>5. Stream(fs) \in Seq(Units)
  BY <1>1, <1>2, StreamAppend
<1> QED
  BY <1>1, <1>2, <1>3, <1>4, <1>5, LenProperties DEF Frames

\* Where frame k + 1 begins on the wire, and that it is there.
Start(fs, k) == Len(Stream(SubSeq(fs, 1, k)))
Laid(fs, k) ==
  LET f == fs[k + 1]
  IN  /\ Start(fs, k) \in Nat /\ Start(fs, k + 1) = Start(fs, k) + (2 + f.len)
      /\ Start(fs, k + 1) <= Len(Stream(fs))
      /\ \A j \in 1 .. 2 + f.len : Stream(fs)[Start(fs, k) + j] = Encode(f)[j]

LEMMA Starts ==
  ASSUME NEW fs \in Seq(Frames(Nat))
  PROVE  /\ \A k \in 0 .. Len(fs) : Start(fs, k) \in Nat
         /\ Start(fs, Len(fs)) = Len(Stream(fs)) /\ Start(fs, 0) = 0
<1>1. Nat \in SUBSET Nat
  OBVIOUS
<1>2. ASSUME NEW k \in 0 .. Len(fs) PROVE Start(fs, k) \in Nat
  <2>1. SubSeq(fs, 1, k) \in Seq(Frames(Nat))
    BY <1>1, FrameSeqs
  <2> QED
    BY <1>1, <2>1, FrameSeqs DEF Start
<1>3. SubSeq(fs, 1, 0) = <<>>
  BY SubSeqEmpty
<1>4. SubSeq(fs, 1, Len(fs)) = fs
  BY SubSeqFull
<1>5. Start(fs, 0) = 0
  <2>1. Start(fs, 0) = Len(<<>>)
    BY <1>3, StreamEmpty DEF Start
  <2> QED
    BY <2>1
<1>6. Start(fs, Len(fs)) = Len(Stream(fs))
  BY <1>4 DEF Start
<1> QED
  BY <1>2, <1>5, <1>6

\* A further frame moves no other.
LEMMA StartsKept ==
  ASSUME NEW fs \in Seq(Frames(Nat)), NEW f \in Frames(Nat), NEW k \in 0 .. Len(fs)
  PROVE  Start(Append(fs, f), k) = Start(fs, k)
<1> SUFFICES SubSeq(Append(fs, f), 1, k) = SubSeq(fs, 1, k)
  BY DEF Start
<1>1. Append(fs, f) = fs \o <<f>> /\ <<f>> \in Seq(Frames(Nat)) /\ Len(fs) \in Nat
  BY AppendIsConcat, LenProperties
<1>2. CASE k = 0
  BY <1>2, SubSeqEmpty
<1>3. CASE k # 0
  <2>1. 1 \in 1 .. Len(fs) /\ k \in 1 .. Len(fs)
    BY <1>1, <1>3
  <2> QED
    BY <1>1, <2>1, SubSeqOfConcat1
<1> QED
  BY <1>2, <1>3

LEMMA LaidAppend ==
  ASSUME NEW fs \in Seq(Frames(Nat)), NEW f \in Frames(Nat),
         \A k \in 0 .. Len(fs) - 1 : Laid(fs, k)
  PROVE  \A k \in 0 .. Len(fs) : Laid(Append(fs, f), k)
<1> DEFINE m == Len(fs)
           w == Stream(fs)
           e == Encode(f)
           gs == Append(fs, f)
<1>1. /\ m \in Nat /\ w \in Seq(Units) /\ Len(w) \in Nat /\ e \in Seq(Units) /\ Len(e) = 2 + f.len
      /\ f.len \in Nat
  BY StreamAppend, EncodeDoes, LenProperties DEF Frames
<1>2. Stream(gs) = w \o e
  BY StreamAppend
<1>3. /\ Len(w \o e) = Len(w) + Len(e) /\ \A j \in 1 .. Len(w) : (w \o e)[j] = w[j]
      /\ \A j \in 1 .. Len(e) : (w \o e)[Len(w) + j] = e[j]
  <2> HIDE DEF w, e
  <2> QED
    BY <1>1, Joined
<1>4. gs \in Seq(Frames(Nat)) /\ Len(gs) = m + 1 /\ gs[m + 1] = f /\ \A i \in 1 .. m : gs[i] = fs[i]
  BY AppendProperties
<1>5. \A k \in 0 .. m : Start(gs, k) = Start(fs, k)
  BY StartsKept
<1>6. Start(fs, m) = Len(w) /\ Start(gs, m + 1) = Len(w \o e)
  <2>1. Start(gs, Len(gs)) = Len(Stream(gs))
    BY <1>4, Starts
  <2> QED
    BY <1>2, <1>4, <2>1, Starts
<1>7. ASSUME NEW k \in 0 .. m - 1 PROVE Laid(fs, k)
  OBVIOUS
<1> HIDE DEF m, w, e, gs
<1>8. Laid(gs, m)
  <2>1. m \in 0 .. m
    BY <1>1
  <2>2. Start(gs, m) = Len(w)
    BY <1>5, <1>6, <2>1
  <2> QED
    BY <1>1, <1>2, <1>3, <1>4, <1>6, <2>2 DEF Laid, e
<1>9. ASSUME NEW k \in 0 .. m - 1 PROVE Laid(gs, k)
  <2>1. k \in 0 .. m /\ k + 1 \in 0 .. m /\ k + 1 \in 1 .. m
    BY <1>1
  <2>2. gs[k + 1] = fs[k + 1] /\ Start(gs, k) = Start(fs, k) /\ Start(gs, k + 1) = Start(fs, k + 1)
    BY <1>4, <1>5, <2>1
  <2>3. Laid(fs, k)
    BY <1>7
  <2>4. fs[k + 1] \in Frames(Nat) /\ fs[k + 1].len \in Nat
    <3>1. fs[k + 1] \in Frames(Nat)
      BY <2>1, ElementOfSeq DEF m
    <3> QED
      BY <3>1 DEF Frames
  <2>5. /\ Start(fs, k) \in Nat /\ Start(fs, k + 1) = Start(fs, k) + (2 + fs[k + 1].len)
        /\ Start(fs, k + 1) <= Len(w)
        /\ \A j \in 1 .. 2 + fs[k + 1].len : w[Start(fs, k) + j] = Encode(fs[k + 1])[j]
    BY <2>3 DEF Laid, w
  <2> DEFINE a == Start(fs, k)
             b == Start(fs, k + 1)
             l == fs[k + 1].len
  <2>8. /\ a \in Nat /\ l \in Nat /\ Len(w) \in Nat /\ Len(e) \in Nat
        /\ b = a + (2 + l) /\ b <= Len(w)
    <3>1. Len(e) \in Nat
      BY <1>1, LenProperties
    <3> QED
      BY <1>1, <2>4, <2>5, <3>1
  <2>6. ASSUME NEW j \in 1 .. 2 + l
        PROVE  (w \o e)[a + j] = Encode(fs[k + 1])[j]
    <3> HIDE DEF a, b, l
    <3>1. a + j \in 1 .. Len(w)
      BY ONLY <2>6, <2>8
    <3> USE DEF a, l
    <3>2. (w \o e)[a + j] = w[a + j]
      BY <1>3, <3>1
    <3> QED
      BY <2>5, <2>6, <3>2
  <2>7. b <= Len(w \o e)
    <3> HIDE DEF a, b, l
    <3>1. Len(w \o e) = Len(w) + Len(e)
      BY <1>3
    <3> QED
      BY ONLY <2>8, <3>1
  <2> QED
    BY <1>2, <2>2, <2>5, <2>6, <2>7 DEF Laid
<1>10. ASSUME NEW k \in 0 .. m PROVE Laid(gs, k)
  <2>1. k = m \/ k \in 0 .. m - 1
    BY <1>1
  <2> QED
    BY <1>8, <1>9, <2>1
<1> QED
  BY <1>10 DEF m, gs

\* Every frame is on the wire, one behind the other.
LEMMA FramesLaid ==
  ASSUME NEW fs \in Seq(Frames(Nat)), NEW k \in 0 .. Len(fs) - 1
  PROVE  Laid(fs, k)
<1> DEFINE F == Seq(Frames(Nat))
           Bad == {n \in Nat : \E hs \in F : Len(hs) = n /\ \E j \in 0 .. n - 1 : ~Laid(hs, j)}
<1>1. SUFFICES ASSUME Bad # {} PROVE FALSE
  BY LenProperties
<1>2. Bad \in SUBSET Nat
  OBVIOUS
<1>3. PICK n \in Bad : \A i \in Bad : n <= i
  BY <1>1, <1>2, Least
<1>4. PICK hs \in F, j \in 0 .. n - 1 : Len(hs) = n /\ ~Laid(hs, j)
  BY <1>3
<1>5. n \in Nat /\ hs # <<>>
  BY <1>2, <1>3, <1>4, EmptySeq
<1>6. PICK gs \in F, f \in Frames(Nat) : hs = Append(gs, f)
  BY <1>4, <1>5, SequenceEmptyOrAppend
<1>7. Len(gs) = n - 1 /\ Len(gs) \in Nat
  BY <1>4, <1>5, <1>6, AppendProperties, LenProperties
<1>8. \A i \in 0 .. Len(gs) - 1 : Laid(gs, i)
  <2>1. n - 1 \notin Bad
    BY <1>3, <1>5
  <2> QED
    BY <1>7, <2>1
<1>9. Laid(hs, j)
  BY <1>4, <1>6, <1>7, <1>8, LaidAppend
<1> QED
  BY <1>4, <1>9

(***************************************************************************)
(* Part 2: what smoltcp is handed                                          *)
(***************************************************************************)

\* The peer numbers its frames, and what it has written is what it began, cut
\* off anywhere but inside a prefix.
PeerOK(ps, i) ==
  /\ ps \in Seq(Frames(RxLens)) /\ \A k \in 1 .. Len(ps) : ps[k].id = k
  /\ i \in Seq(Units) /\ Len(i) <= Len(Stream(ps))
  /\ \A j \in 1 .. Len(i) : i[j] = Stream(ps)[j]
  /\ \A k \in 0 .. Len(ps) - 1 : Start(ps, k) + 2 <= Len(i)
PeerInv == PeerOK(peerSent, in)

LEMMA PeerFacts ==
  ASSUME NEW ps, NEW i, PeerOK(ps, i)
  PROVE  /\ ps \in Seq(Frames(Nat)) /\ Len(ps) \in Nat /\ Len(i) \in Nat
         /\ Stream(ps) \in Seq(Units) /\ Len(Stream(ps)) \in Nat
         /\ \A k \in 0 .. Len(ps) - 1 : ps[k + 1] \in Frames(Nat) /\ ps[k + 1].len \in RxLens
         /\ \A k \in 0 .. Len(ps) - 1 : Laid(ps, k)
<1>1. RxLens \in SUBSET Nat /\ ps \in Seq(Frames(RxLens)) /\ i \in Seq(Units)
  BY NetAssumption DEF PeerOK
<1>2. /\ ps \in Seq(Frames(Nat)) /\ Len(ps) \in Nat
      /\ \A k \in 1 .. Len(ps) : ps[k] \in Frames(Nat) /\ ps[k].len \in RxLens
      /\ Stream(ps) \in Seq(Units) /\ Len(Stream(ps)) \in Nat
  BY <1>1, FrameSeqs
<1>3. Len(i) \in Nat
  BY <1>1, LenProperties
<1>4. \A k \in 0 .. Len(ps) - 1 : k + 1 \in 1 .. Len(ps)
  BY <1>2
<1> QED
  BY <1>2, <1>3, <1>4, FramesLaid

\* The peer begins a frame when it has written all it began before.
LEMMA PeerBeginsOK ==
  ASSUME NEW ps, NEW i, PeerOK(ps, i), Len(Stream(ps)) <= Len(i),
         NEW n \in RxLens
  PROVE  LET f == [id |-> Len(ps) + 1, len |-> n]
         IN  f \in Frames(Nat) /\ PeerOK(Append(ps, f), i \o Prefix(f))
<1> DEFINE f == [id |-> Len(ps) + 1, len |-> n]
           m == Len(ps)
           w == Stream(ps)
           e == Encode(f)
           p == Prefix(f)
           qs == Append(ps, f)
<1>1. /\ ps \in Seq(Frames(Nat)) /\ m \in Nat /\ Len(i) \in Nat /\ w \in Seq(Units) /\ Len(w) \in Nat
  BY PeerFacts
<1>2. f \in Frames(RxLens) /\ f \in Frames(Nat) /\ f.id = m + 1 /\ f.len \in Nat
  BY <1>1, NetAssumption DEF Frames
<1>3. /\ ps \in Seq(Frames(RxLens)) /\ \A k \in 1 .. m : ps[k].id = k
      /\ i \in Seq(Units) /\ Len(i) = Len(w)
      /\ \A j \in 1 .. Len(i) : i[j] = w[j]
      /\ \A k \in 0 .. m - 1 : Start(ps, k) + 2 <= Len(i)
  BY <1>1 DEF PeerOK
<1>4. /\ e \in Seq(Units) /\ Len(e) = 2 + f.len /\ p \in Seq(Units) /\ Len(p) = 2
      /\ \A j \in 1 .. 2 : e[j] = p[j]
  <2> HIDE DEF f
  <2> QED
    BY <1>2, EncodeDoes
<1>5. Stream(qs) = w \o e
  <2> HIDE DEF f
  <2> QED
    BY <1>1, <1>2, StreamAppend
<1>6. /\ qs \in Seq(Frames(RxLens)) /\ Len(qs) = m + 1 /\ qs[m + 1] = f
      /\ \A k \in 1 .. m : qs[k] = ps[k]
  <2> HIDE DEF f
  <2> QED
    BY <1>2, <1>3, AppendProperties
<1>7. \A k \in 0 .. m : Start(qs, k) = Start(ps, k) /\ Start(ps, k) \in Nat
  <2> HIDE DEF f
  <2> QED
    BY <1>1, <1>2, Starts, StartsKept
<1>8. Start(ps, m) = Len(w)
  BY <1>1, Starts
<1> HIDE DEF f, m, w, e, p, qs
<1>9. /\ Len(w \o e) = Len(w) + Len(e)
      /\ \A j \in 1 .. Len(w) : (w \o e)[j] = w[j]
      /\ \A j \in 1 .. Len(e) : (w \o e)[Len(w) + j] = e[j]
  <2>1. w \in Seq(Units) /\ e \in Seq(Units)
    BY <1>1, <1>4
  <2> QED
    BY ONLY <2>1, Joined
<1>10. /\ i \o p \in Seq(Units) /\ Len(i \o p) = Len(i) + Len(p)
       /\ \A j \in 1 .. Len(i) : (i \o p)[j] = i[j]
       /\ \A j \in 1 .. Len(p) : (i \o p)[Len(i) + j] = p[j]
  <2>1. i \in Seq(Units) /\ p \in Seq(Units)
    BY <1>3, <1>4
  <2> QED
    BY ONLY <2>1, Joined
<1>11. \A k \in 1 .. Len(qs) : qs[k].id = k
  <2>1. ASSUME NEW k \in 1 .. Len(qs) PROVE k = m + 1 \/ k \in 1 .. m
    BY <1>1, <1>6
  <2> QED
    BY <1>2, <1>3, <1>6, <2>1
<1>12. Len(i \o p) <= Len(w \o e)
  BY <1>1, <1>2, <1>3, <1>4, <1>9, <1>10
<1>13. ASSUME NEW j \in 1 .. Len(i \o p) PROVE (i \o p)[j] = (w \o e)[j]
  <2>1. CASE j \in 1 .. Len(i)
    <3>1. j \in 1 .. Len(w)
      BY <1>3, <2>1
    <3> QED
      BY <1>3, <1>9, <1>10, <2>1, <3>1
  <2>2. CASE j \notin 1 .. Len(i)
    <3>1. PICK d \in 1 .. 2 : j = Len(i) + d
      <4>1. j - Len(i) \in 1 .. 2 /\ j = Len(i) + (j - Len(i))
        BY <1>1, <1>4, <1>10, <2>2
      <4> QED
        BY <4>1
    <3>2. d \in 1 .. Len(e) /\ d \in 1 .. Len(p)
      BY <1>2, <1>4
    <3>3. (i \o p)[j] = p[d] /\ (w \o e)[j] = e[d]
      BY <1>3, <1>9, <1>10, <3>1, <3>2
    <3> QED
      BY <1>4, <3>3
  <2> QED
    BY <2>1, <2>2
<1>14. ASSUME NEW k \in 0 .. Len(qs) - 1 PROVE Start(qs, k) + 2 <= Len(i \o p)
  <2>1. k = m \/ k \in 0 .. m - 1
    BY <1>1, <1>6
  <2>2. k \in 0 .. m
    BY <1>1, <1>6
  <2>3. /\ Start(qs, k) = Start(ps, k) /\ Start(ps, k) \in Nat
        /\ Len(i) \in Nat /\ Len(i \o p) = Len(i) + 2
    BY <1>1, <1>4, <1>7, <1>10, <2>2
  <2>4. Start(ps, k) <= Len(i)
    <3>1. CASE k = m
      BY <1>1, <1>3, <1>8, <3>1
    <3>2. CASE k \in 0 .. m - 1
      <4>1. Start(ps, k) + 2 <= Len(i)
        BY <1>3, <3>2
      <4> QED
        BY ONLY <2>3, <4>1
    <3> QED
      BY <2>1, <3>1, <3>2
  <2> QED
    BY ONLY <2>3, <2>4
<1>15. PeerOK(qs, i \o p)
  BY <1>5, <1>6, <1>10, <1>11, <1>12, <1>13, <1>14 DEF PeerOK
<1> QED
  BY <1>2, <1>15 DEF f, p, qs

\* The peer writes the next unit of what it began.
LEMMA PeerWritesOK ==
  ASSUME NEW ps, NEW i, PeerOK(ps, i), Len(i) < Len(Stream(ps))
  PROVE  PeerOK(ps, Append(i, Stream(ps)[Len(i) + 1]))
<1> DEFINE w == Stream(ps)
           u == w[Len(i) + 1]
<1>1. w \in Seq(Units) /\ Len(w) \in Nat /\ Len(i) \in Nat
  BY PeerFacts
<1>2. /\ i \in Seq(Units) /\ Len(i) < Len(w) /\ \A j \in 1 .. Len(i) : i[j] = w[j]
      /\ \A k \in 0 .. Len(ps) - 1 : Start(ps, k) + 2 <= Len(i)
  BY DEF PeerOK
<1>3. ps \in Seq(Frames(RxLens)) /\ \A k \in 1 .. Len(ps) : ps[k].id = k
  BY DEF PeerOK
<1>4. ps \in Seq(Frames(Nat)) /\ Len(ps) \in Nat
  BY PeerFacts
<1>5. \A k \in 0 .. Len(ps) : Start(ps, k) \in Nat
  BY <1>4, Starts
<1> HIDE DEF w
<1>6. Len(i) + 1 \in 1 .. Len(w)
  BY <1>1, <1>2
<1>7. u \in Units
  BY <1>1, <1>6, ElementOfSeq
<1>8. /\ Append(i, u) \in Seq(Units) /\ Len(Append(i, u)) = Len(i) + 1
      /\ Append(i, u)[Len(i) + 1] = u /\ \A j \in 1 .. Len(i) : Append(i, u)[j] = i[j]
  <2> HIDE DEF u
  <2> QED
    BY <1>2, <1>7, AppendProperties
<1>9. ASSUME NEW j \in 1 .. Len(Append(i, u)) PROVE Append(i, u)[j] = w[j]
  <2>1. j = Len(i) + 1 \/ j \in 1 .. Len(i)
    BY <1>1, <1>8
  <2> QED
    BY <1>2, <1>8, <2>1
<1>10. Len(Append(i, u)) <= Len(w)
  BY <1>6, <1>8
<1>11. ASSUME NEW k \in 0 .. Len(ps) - 1 PROVE Start(ps, k) + 2 <= Len(Append(i, u))
  <2>1. k \in 0 .. Len(ps)
    BY <1>4
  <2> QED
    BY <1>1, <1>2, <1>5, <1>8, <2>1
<1> QED
  BY <1>3, <1>8, <1>9, <1>10, <1>11 DEF PeerOK, w, u

\* A peer that has nothing left to write has written all it began.
LEMMA RestIs ==
  ASSUME NEW w \in Seq(Units), NEW n \in Nat
  PROVE  LET rest == SubSeq(w, n + 1, Len(w))
         IN  /\ rest \in Seq(Units) /\ Len(rest) = IF n < Len(w) THEN Len(w) - n ELSE 0
             /\ n < Len(w) <=> rest # <<>>
             /\ \A j \in 1 .. Len(w) - n : rest[j] = w[n + j]
<1> DEFINE rest == SubSeq(w, n + 1, Len(w))
<1>1. Len(w) \in Nat
  BY LenProperties
<1>2. \A j \in n + 1 .. Len(w) : w[j] \in Units
  BY <1>1, ElementOfSeq
<1>3. /\ rest \in Seq(Units) /\ Len(rest) = IF n + 1 <= Len(w) THEN Len(w) - (n + 1) + 1 ELSE 0
      /\ \A j \in 1 .. Len(w) - (n + 1) + 1 : rest[j] = w[(n + 1) + j - 1]
  BY <1>1, <1>2, SubSeqProperties
<1> HIDE DEF rest
<1>4. Len(rest) = IF n < Len(w) THEN Len(w) - n ELSE 0
  BY <1>1, <1>3
<1>5. ASSUME NEW j \in 1 .. Len(w) - n PROVE rest[j] = w[n + j]
  <2>1. j \in 1 .. Len(w) - (n + 1) + 1 /\ (n + 1) + j - 1 = n + j
    BY <1>1
  <2> QED
    BY <1>3, <2>1
<1>6. n < Len(w) <=> rest # <<>>
  <2>1. rest = <<>> <=> Len(rest) = 0
    BY <1>3, EmptySeq
  <2> QED
    BY <1>1, <1>4, <2>1
<1> QED
  BY <1>3, <1>4, <1>5, <1>6 DEF rest

\* The loop is at the next frame's prefix, or behind it while it reads the body.
InStep ==
  /\ pos = Start(peerSent, Len(got)) + (IF pc = "body" THEN 2 ELSE 0)
  /\ pc = "body" => /\ Len(got) < Len(peerSent) /\ rxLen = peerSent[Len(got) + 1].len
                    /\ rxLen <= MaxFrame
\* Or no frame is handed over any more: the loop has seen the end, or has read
\* all that a dead peer left.
Done == pc # "body" /\ (peer_closed \/ (gone /\ pos = Len(in)))
RxInv ==
  /\ PeerInv
  /\ pos \in Nat /\ pos <= Len(in) /\ gone \in BOOLEAN /\ peer_closed \in BOOLEAN
  /\ got \in Seq(Nat) /\ Len(got) <= Len(peerSent)
  /\ \A i \in 1 .. Len(got) : got[i] = i /\ peerSent[i].len <= MaxFrame
  /\ InStep \/ Done

LEMMA RxInitial ==
  ASSUME NetInit
  PROVE  RxInv
<1>1. /\ peerSent = <<>> /\ in = <<>> /\ got = <<>> /\ pos = 0 /\ gone = FALSE
      /\ peer_closed = FALSE /\ pc = "top"
  BY DEF NetInit
<1>2. /\ peerSent \in Seq(Frames(RxLens)) /\ peerSent \in Seq(Frames(Nat))
      /\ in \in Seq(Units) /\ got \in Seq(Nat)
  BY <1>1
<1>3. Stream(peerSent) = <<>> /\ Len(peerSent) = 0 /\ Len(in) = 0 /\ Len(got) = 0
  BY <1>1, StreamEmpty
<1>4. Len(Stream(peerSent)) = 0
  BY <1>3
<1>5. Start(peerSent, 0) = 0
  BY <1>2, Starts
<1>6. PeerInv
  BY <1>2, <1>3, <1>4 DEF PeerInv, PeerOK
<1>7. InStep
  BY <1>1, <1>3, <1>5 DEF InStep
<1>8. pos \in Nat /\ pos <= Len(in) /\ gone \in BOOLEAN /\ peer_closed \in BOOLEAN
  <2>1. gone \in BOOLEAN /\ peer_closed \in BOOLEAN
    BY <1>1
  <2>2. pos = Len(in) /\ pos = 0
    BY <1>1, <1>3
  <2>3. pos \in Nat /\ pos <= pos
    BY ONLY <2>2
  <2>4. pos <= Len(in)
    BY ONLY <2>2, <2>3
  <2> QED
    BY <2>1, <2>3, <2>4
<1>9. Len(got) <= Len(peerSent) /\ \A i \in 1 .. Len(got) : got[i] = i /\ peerSent[i].len <= MaxFrame
  BY <1>3
<1> QED
  BY <1>2, <1>6, <1>7, <1>8, <1>9 DEF RxInv

\* What has arrived and was not read.
LEMMA ArrivedIs ==
  ASSUME RxInv
  PROVE  /\ Len(Arrived) = Len(in) - pos /\ Len(in) \in Nat /\ pos \in Nat /\ pos <= Len(in)
         /\ \A j \in 1 .. Len(in) - pos : Arrived[j] = in[pos + j] /\ in[pos + j] = Stream(peerSent)[pos + j]
<1>1. in \in Seq(Units) /\ pos \in Nat /\ pos <= Len(in) /\ Len(in) \in Nat
      /\ \A j \in 1 .. Len(in) : in[j] = Stream(peerSent)[j]
  BY LenProperties DEF RxInv, PeerInv, PeerOK
<1>2. /\ Len(Arrived) = IF pos < Len(in) THEN Len(in) - pos ELSE 0
      /\ \A j \in 1 .. Len(in) - pos : Arrived[j] = in[pos + j]
  BY <1>1, RestIs DEF Arrived
<1>3. \A j \in 1 .. Len(in) - pos : pos + j \in 1 .. Len(in)
  BY <1>1
<1> QED
  BY <1>1, <1>2, <1>3

\* The facts about the frame the loop is at.
LEMMA AtFrame ==
  ASSUME RxInv
  PROVE  /\ Len(got) \in Nat /\ Len(peerSent) \in Nat /\ Start(peerSent, Len(got)) \in Nat
         /\ Len(got) < Len(peerSent) =>
              LET k == Len(got)
                  f == peerSent[k + 1]
              IN  /\ f \in Frames(Nat) /\ f.id = k + 1 /\ f.len \in RxLens /\ f.len \in Nat \ {0}
                  /\ Start(peerSent, k) + 2 <= Len(in)
                  /\ Start(peerSent, k + 1) = Start(peerSent, k) + (2 + f.len)
                  /\ \A j \in 1 .. 2 + f.len : Stream(peerSent)[Start(peerSent, k) + j] = Encode(f)[j]
         /\ Len(got) = Len(peerSent) =>
              Start(peerSent, Len(got)) = Len(Stream(peerSent)) /\ Len(in) <= Start(peerSent, Len(got))
<1>1. PeerOK(peerSent, in) /\ got \in Seq(Nat) /\ Len(got) <= Len(peerSent)
  BY DEF RxInv, PeerInv
<1>2. /\ peerSent \in Seq(Frames(Nat)) /\ Len(peerSent) \in Nat
      /\ \A k \in 0 .. Len(peerSent) - 1 :
           /\ peerSent[k + 1] \in Frames(Nat) /\ peerSent[k + 1].len \in RxLens
           /\ Laid(peerSent, k)
  BY <1>1, PeerFacts
<1>3. Len(got) \in Nat /\ Len(got) \in 0 .. Len(peerSent)
  BY <1>1, <1>2, LenProperties
<1>4. /\ Start(peerSent, Len(got)) \in Nat
      /\ Start(peerSent, Len(peerSent)) = Len(Stream(peerSent))
  BY <1>2, <1>3, Starts
<1>5. ASSUME Len(got) < Len(peerSent)
      PROVE  LET k == Len(got)
                 f == peerSent[k + 1]
             IN  /\ f \in Frames(Nat) /\ f.id = k + 1 /\ f.len \in RxLens /\ f.len \in Nat \ {0}
                 /\ Start(peerSent, k) + 2 <= Len(in)
                 /\ Start(peerSent, k + 1) = Start(peerSent, k) + (2 + f.len)
                 /\ \A j \in 1 .. 2 + f.len : Stream(peerSent)[Start(peerSent, k) + j] = Encode(f)[j]
  <2>1. Len(got) \in 0 .. Len(peerSent) - 1 /\ Len(got) + 1 \in 1 .. Len(peerSent)
    BY <1>2, <1>3, <1>5
  <2>2. peerSent[Len(got) + 1].id = Len(got) + 1 /\ Start(peerSent, Len(got)) + 2 <= Len(in)
    BY <1>1, <2>1 DEF PeerOK
  <2>3. /\ Laid(peerSent, Len(got)) /\ peerSent[Len(got) + 1] \in Frames(Nat)
        /\ peerSent[Len(got) + 1].len \in RxLens
    BY <1>2, <2>1
  <2>4. peerSent[Len(got) + 1].len \in Nat \ {0}
    BY <2>3, NetAssumption
  <2> QED
    BY <2>2, <2>3, <2>4 DEF Laid
<1>6. Len(in) <= Len(Stream(peerSent))
  BY <1>1 DEF PeerOK
<1> QED
  BY <1>2, <1>3, <1>4, <1>5, <1>6

\* A step of the transmit side, or of the loop outside receive.
LEMMA RxElsewhere ==
  ASSUME RxInv, UNCHANGED <<rxLen, pos, got, peer_closed, in, gone, peerSent>>,
         pc = "body" <=> pc' = "body"
  PROVE  RxInv'
<1>1. InStep \/ Done => InStep' \/ Done'
  BY DEF InStep, Done
<1>2. PeerInv'
  BY DEF RxInv, PeerInv
<1> QED
  BY <1>1, <1>2 DEF RxInv

LEMMA RxPeerBegins ==
  ASSUME RxInv, NEW n \in RxLens, PeerBegins(n)
  PROVE  RxInv'
<1> DEFINE f == [id |-> Len(peerSent) + 1, len |-> n]
<1>1. /\ PeerOK(peerSent, in) /\ pos \in Nat /\ pos <= Len(in) /\ ~gone /\ gone' = gone
      /\ got \in Seq(Nat) /\ Len(got) <= Len(peerSent)
      /\ UNCHANGED <<pc, rxLen, pos, got, peer_closed>> /\ peerSent' = Append(peerSent, f)
  BY DEF RxInv, PeerInv, PeerBegins, rxVars
<1>2. /\ peerSent \in Seq(Frames(Nat)) /\ Len(peerSent) \in Nat /\ Len(in) \in Nat
      /\ Stream(peerSent) \in Seq(Units) /\ Len(Stream(peerSent)) \in Nat
  BY <1>1, PeerFacts
<1>3. Len(Stream(peerSent)) <= Len(in)
  <2>1. SubSeq(Stream(peerSent), Len(in) + 1, Len(Stream(peerSent))) = <<>>
    BY DEF PeerBegins, Writing
  <2>2. ~(Len(in) < Len(Stream(peerSent)))
    BY <1>2, <2>1, RestIs
  <2> QED
    BY <1>2, <2>2
<1>4. f \in Frames(Nat) /\ PeerOK(Append(peerSent, f), in \o Prefix(f))
  BY <1>1, <1>3, PeerBeginsOK
<1> HIDE DEF f
<1>5. /\ Len(Append(peerSent, f)) = Len(peerSent) + 1 /\ Append(peerSent, f)[Len(peerSent) + 1] = f
      /\ \A i \in 1 .. Len(peerSent) : Append(peerSent, f)[i] = peerSent[i]
  BY <1>2, <1>4, AppendProperties
<1>6. in' = in \o Prefix(f)
  <2>1. Last(peerSent') = f
    BY <1>1, <1>2, <1>5 DEF Last
  <2> QED
    BY <2>1 DEF PeerBegins
<1>7. pos' <= Len(in')
  <2>1. Len(Prefix(f)) = 2 /\ Prefix(f) \in Seq(Units)
    BY <1>4, EncodeDoes
  <2>2. in \in Seq(Units)
    BY <1>1 DEF PeerOK
  <2>3. Len(in \o Prefix(f)) = Len(in) + Len(Prefix(f))
    BY ONLY <2>1, <2>2, Joined
  <2> QED
    BY <1>1, <1>2, <1>6, <2>1, <2>3
<1>8. PeerInv'
  BY <1>1, <1>4, <1>6 DEF PeerInv
<1>9. Len(got) \in Nat /\ Len(got) \in 0 .. Len(peerSent)
  BY <1>1, <1>2, LenProperties
<1>10. InStep => InStep'
  <2>1. Start(peerSent', Len(got)) = Start(peerSent, Len(got))
    BY <1>1, <1>2, <1>4, <1>9, StartsKept
  <2>2. Len(got) < Len(peerSent) =>
          Len(got) < Len(peerSent') /\ peerSent'[Len(got) + 1] = peerSent[Len(got) + 1]
    <3>1. Len(got) < Len(peerSent) => Len(got) + 1 \in 1 .. Len(peerSent)
      BY <1>2, <1>9
    <3> QED
      BY <1>1, <1>2, <1>5, <1>9, <3>1
  <2> QED
    BY <1>1, <2>1, <2>2 DEF InStep
<1>11. Done => Done'
  BY <1>1 DEF Done
<1>12. Len(got) <= Len(peerSent')
  BY <1>1, <1>2, <1>5, <1>9
<1>13. \A i \in 1 .. Len(got) : got[i] = i /\ peerSent'[i].len <= MaxFrame
  <2>1. ASSUME NEW i \in 1 .. Len(got) PROVE i \in 1 .. Len(peerSent)
    BY <1>2, <1>9
  <2> QED
    BY <1>1, <1>5, <2>1 DEF RxInv
<1> QED
  BY <1>1, <1>7, <1>8, <1>10, <1>11, <1>12, <1>13 DEF RxInv

LEMMA RxPeerWrites ==
  ASSUME RxInv, PeerWrites
  PROVE  RxInv'
<1>1. /\ PeerOK(peerSent, in) /\ pos \in Nat /\ pos <= Len(in) /\ ~gone /\ gone' = gone
      /\ UNCHANGED <<pc, rxLen, pos, got, peer_closed, peerSent>>
  BY DEF RxInv, PeerInv, PeerWrites, rxVars
<1>2. Len(in) \in Nat /\ Stream(peerSent) \in Seq(Units) /\ Len(Stream(peerSent)) \in Nat
  BY <1>1, PeerFacts
<1>3. SubSeq(Stream(peerSent), Len(in) + 1, Len(Stream(peerSent))) # <<>>
  BY DEF PeerWrites, Writing
<1>4. Len(in) < Len(Stream(peerSent))
  BY <1>2, <1>3, RestIs
<1>5. in' = Append(in, Stream(peerSent)[Len(in) + 1])
  <2>1. 1 \in 1 .. Len(Stream(peerSent)) - Len(in)
    BY <1>2, <1>4
  <2>2. SubSeq(Stream(peerSent), Len(in) + 1, Len(Stream(peerSent)))[1] = Stream(peerSent)[Len(in) + 1]
    BY <1>2, <2>1, RestIs
  <2> QED
    BY <2>2 DEF PeerWrites, Writing
<1>6. PeerInv'
  BY <1>1, <1>4, <1>5, PeerWritesOK DEF PeerInv
<1>7. pos' <= Len(in')
  <2>1. in \in Seq(Units) /\ Stream(peerSent)[Len(in) + 1] \in Units
    <3>1. Len(in) + 1 \in 1 .. Len(Stream(peerSent))
      BY <1>2, <1>4
    <3> QED
      BY <1>1, <1>2, <3>1, ElementOfSeq DEF PeerOK
  <2>2. Len(in') = Len(in) + 1
    BY <1>5, <2>1, AppendProperties
  <2> QED
    BY <1>1, <1>2, <2>2
<1>8. InStep \/ Done => InStep' \/ Done'
  BY <1>1 DEF InStep, Done
<1> QED
  BY <1>1, <1>6, <1>7, <1>8 DEF RxInv

LEMMA RxPeerCloses ==
  ASSUME RxInv, PeerCloses
  PROVE  RxInv'
<1>1. gone' = TRUE /\ UNCHANGED <<pc, rxLen, pos, got, peer_closed, in, peerSent>>
  BY DEF PeerCloses, rxVars
<1>2. InStep \/ Done => InStep' \/ Done'
  BY <1>1 DEF InStep, Done
<1>3. PeerInv'
  BY <1>1 DEF RxInv, PeerInv
<1> QED
  BY <1>1, <1>2, <1>3 DEF RxInv

\* A prefix is read where a prefix is, and names the length of that frame.
LEMMA RxPrefix ==
  ASSUME RxInv, RecvPrefix
  PROVE  RxInv'
<1> DEFINE k == Len(got)
           f == peerSent[k + 1]
           at == Start(peerSent, k)
<1>1. /\ pc = "poll" /\ ~peer_closed /\ Len(Arrived) >= 2 /\ pos' = pos + 2
      /\ IF Arrived[1][3] > MaxFrame
         THEN peer_closed' = TRUE /\ UNCHANGED <<pc, rxLen>>
         ELSE pc' = "body" /\ rxLen' = Arrived[1][3] /\ peer_closed' = peer_closed
      /\ UNCHANGED <<got, in, gone, peerSent>>
  BY DEF RecvPrefix, Oversized, peerVars
<1>2. /\ Len(Arrived) = Len(in) - pos /\ Len(in) \in Nat /\ pos \in Nat /\ pos <= Len(in)
      /\ \A j \in 1 .. Len(in) - pos : Arrived[j] = in[pos + j] /\ in[pos + j] = Stream(peerSent)[pos + j]
  BY ArrivedIs
<1>3. InStep /\ pos = at
  <2>1. ~Done
    BY <1>1, <1>2 DEF Done
  <2>2. InStep
    BY <2>1 DEF RxInv
  <2> QED
    BY <1>1, <1>2, <2>2, AtFrame DEF InStep
<1>4. k < Len(peerSent) /\ k \in Nat
  BY <1>1, <1>2, <1>3, AtFrame DEF RxInv
<1>5. /\ f \in Frames(Nat) /\ f.len \in Nat /\ at \in Nat
      /\ \A j \in 1 .. 2 + f.len : Stream(peerSent)[at + j] = Encode(f)[j]
  BY <1>4, AtFrame
<1> HIDE DEF k, f, at
<1>6. Arrived[1] = Encode(f)[1]
  <2>1. 1 \in 1 .. Len(in) - pos /\ 1 \in 1 .. 2 + f.len
    BY <1>1, <1>2, <1>5
  <2> QED
    BY <1>2, <1>3, <1>5, <2>1
<1>7. Arrived[1][3] = f.len
  BY <1>5, <1>6, EncodeDoes
<1>8. pos' \in Nat /\ pos' <= Len(in')
  BY <1>1, <1>2
<1>9. InStep' \/ Done'
  <2>1. CASE f.len > MaxFrame
    BY <1>1, <1>7, <2>1 DEF Done
  <2>2. CASE ~(f.len > MaxFrame)
    <3>1. f.len <= MaxFrame
      BY <1>5, <2>2, NetAssumption
    <3>2. pc' = "body" /\ rxLen' = f.len
      BY <1>1, <1>7, <2>2
    <3>3. pos' = Start(peerSent, Len(got)) + 2
      BY <1>1, <1>3 DEF at, k
    <3>4. Len(got) < Len(peerSent) /\ f = peerSent[Len(got) + 1]
      BY <1>4 DEF k, f
    <3> QED
      BY <1>1, <3>1, <3>2, <3>3, <3>4 DEF InStep
  <2> QED
    BY <2>1, <2>2
<1>10. PeerInv' /\ peer_closed' \in BOOLEAN
  <2>1. PeerInv'
    BY <1>1 DEF RxInv, PeerInv
  <2> QED
    BY <1>1, <2>1 DEF RxInv
<1> QED
  BY <1>1, <1>8, <1>9, <1>10 DEF RxInv

\* A body that is there is the body of that frame; one that is not there is
\* read for nobody, and nothing comes behind it.
LEMMA RxBody ==
  ASSUME RxInv, RecvBody
  PROVE  RxInv'
<1> DEFINE k == Len(got)
           f == peerSent[k + 1]
           at == Start(peerSent, k)
<1>1. /\ pc = "body" /\ pc' = "poll"
      /\ UNCHANGED <<in, gone, peerSent, peer_closed>>
      /\ Len(Arrived) >= rxLen \/ gone
      /\ pos' = pos + (IF Len(Arrived) >= rxLen THEN rxLen ELSE Len(Arrived))
      /\ got' = IF Len(Arrived) >= rxLen THEN Append(got, Arrived[1][1]) ELSE got
  BY DEF RecvBody, peerVars
<1>2. /\ Len(Arrived) = Len(in) - pos /\ Len(in) \in Nat /\ pos \in Nat /\ pos <= Len(in)
      /\ \A j \in 1 .. Len(in) - pos : Arrived[j] = in[pos + j] /\ in[pos + j] = Stream(peerSent)[pos + j]
  BY ArrivedIs
<1>3. pos = at + 2 /\ k < Len(peerSent) /\ rxLen = f.len /\ f.len <= MaxFrame
  BY <1>1 DEF RxInv, InStep, Done
<1>4. /\ f \in Frames(Nat) /\ f.id = k + 1 /\ f.len \in Nat \ {0} /\ at \in Nat /\ k \in Nat
      /\ Start(peerSent, k + 1) = at + (2 + f.len)
      /\ \A j \in 1 .. 2 + f.len : Stream(peerSent)[at + j] = Encode(f)[j]
  BY <1>3, AtFrame
<1>5. /\ got \in Seq(Nat) /\ k <= Len(peerSent) /\ Len(peerSent) \in Nat
      /\ \A i \in 1 .. k : got[i] = i /\ peerSent[i].len <= MaxFrame
  BY AtFrame DEF RxInv
<1>6. PeerInv' /\ peer_closed' \in BOOLEAN /\ gone' \in BOOLEAN
  <2>1. PeerInv'
    BY <1>1 DEF RxInv, PeerInv
  <2> QED
    BY <1>1, <2>1 DEF RxInv
<1>7. k = Len(got) /\ f = peerSent[k + 1] /\ at = Start(peerSent, k)
  OBVIOUS
<1> HIDE DEF k, f, at
<1>8. CASE Len(Arrived) >= rxLen
  <2>1. Arrived[1] = Encode(f)[2 + 1]
    <3>1. 1 \in 1 .. Len(in) - pos /\ 2 + 1 \in 1 .. 2 + f.len /\ pos + 1 = at + (2 + 1)
      BY <1>2, <1>3, <1>4, <1>8
    <3>2. Arrived[1] = Stream(peerSent)[pos + 1]
      BY <1>2, <3>1
    <3>3. Stream(peerSent)[at + (2 + 1)] = Encode(f)[2 + 1]
      BY <1>4, <3>1
    <3> QED
      BY <3>1, <3>2, <3>3
  <2>2. Encode(f)[2 + 1] = <<f.id, "body", 1>>
    <3>1. 1 \in 1 .. f.len
      BY <1>4
    <3> QED
      BY <1>4, <3>1, EncodeDoes
  <2>3. got' = Append(got, k + 1)
    BY <1>1, <1>4, <1>8, <2>1, <2>2
  <2>4. /\ got' \in Seq(Nat) /\ Len(got') = k + 1 /\ got'[k + 1] = k + 1
        /\ \A i \in 1 .. k : got'[i] = got[i]
    <3>1. k + 1 \in Nat
      BY <1>4
    <3> QED
      BY <1>5, <1>7, <2>3, <3>1, AppendProperties
  <2>5. pos' = at + (2 + f.len) /\ pos' \in Nat /\ pos' <= Len(in')
    <3>1. pos' = pos + rxLen
      BY <1>1, <1>8
    <3>2. rxLen \in Nat /\ Len(in) - pos >= rxLen
      BY <1>2, <1>3, <1>4, <1>8
    <3>3. pos' \in Nat /\ pos' <= Len(in)
      BY <1>2, <3>1, <3>2
    <3>4. pos' = at + (2 + f.len)
      <4>1. at \in Nat /\ f.len \in Nat /\ pos = at + 2 /\ rxLen = f.len
        BY <1>3, <1>4
      <4> QED
        BY ONLY <3>1, <4>1
    <3> QED
      BY <1>1, <3>3, <3>4
  <2>6. InStep'
    BY <1>1, <1>4, <2>4, <2>5 DEF InStep
  <2>7. ASSUME NEW i \in 1 .. Len(got') PROVE got'[i] = i /\ peerSent'[i].len <= MaxFrame
    <3>1. i = k + 1 \/ i \in 1 .. k
      BY <1>4, <2>4
    <3> QED
      BY <1>1, <1>3, <1>5, <1>7, <2>4, <3>1
  <2>8. Len(got') <= Len(peerSent')
    BY <1>1, <1>3, <1>4, <1>5, <2>4
  <2> QED
    BY <1>6, <2>4, <2>5, <2>6, <2>7, <2>8 DEF RxInv
<1>9. CASE ~(Len(Arrived) >= rxLen)
  <2>1. gone /\ got' = got /\ pos' = Len(in)
    BY <1>1, <1>2, <1>9
  <2>2. Done'
    BY <1>1, <2>1 DEF Done
  <2> QED
    BY <1>1, <1>2, <1>5, <1>6, <1>7, <2>1, <2>2 DEF RxInv
<1> QED
  BY <1>8, <1>9

\* Nothing is skipped where no prefix is: a peer that lives writes it whole.
LEMMA RxNothing ==
  ASSUME RxInv, RecvNothing
  PROVE  RxInv'
<1>1. /\ pc = "poll" /\ pc' = "flush" /\ (peer_closed \/ Len(Arrived) < 2)
      /\ peer_closed' = (peer_closed \/ gone)
      /\ pos' = (IF peer_closed THEN pos ELSE Len(in))
      /\ UNCHANGED <<rxLen, got, in, gone, peerSent>>
  BY DEF RecvNothing, peerVars
<1>2. Len(Arrived) = Len(in) - pos /\ Len(in) \in Nat /\ pos \in Nat /\ pos <= Len(in)
  BY ArrivedIs
<1>3. PeerInv' /\ gone \in BOOLEAN /\ peer_closed \in BOOLEAN
  BY <1>1 DEF RxInv, PeerInv
<1>4. peer_closed' \in BOOLEAN /\ pos' \in Nat /\ pos' <= Len(in')
  BY <1>1, <1>2, <1>3
<1>5. InStep' \/ Done'
  <2>1. CASE peer_closed \/ gone
    BY <1>1, <2>1 DEF Done
  <2>2. CASE ~peer_closed /\ ~gone
    <3>1. InStep
      BY <2>2 DEF RxInv, Done
    <3>2. pos = Start(peerSent, Len(got)) /\ Start(peerSent, Len(got)) \in Nat
      BY <1>1, <3>1, AtFrame DEF InStep
    <3>3. Len(got) = Len(peerSent)
      <4>1. ~(Len(got) < Len(peerSent))
        BY <1>1, <1>2, <2>2, <3>2, AtFrame
      <4> QED
        BY <4>1, AtFrame DEF RxInv
    <3>4. pos = Len(in)
      BY <1>2, <3>2, <3>3, AtFrame
    <3>5. pos' = pos
      BY <1>1, <2>2, <3>4
    <3> QED
      BY <1>1, <3>2, <3>5 DEF InStep
  <2> QED
    BY <2>1, <2>2
<1> QED
  BY <1>1, <1>3, <1>4, <1>5 DEF RxInv

LEMMA RxStep ==
  ASSUME RxInv, [Next]_netVars
  PROVE  RxInv'
<1>1. CASE UNCHANGED netVars
  BY <1>1, RxElsewhere DEF netVars, rxVars, peerVars
<1>2. CASE FlushPrefix
  <2>1. pc = "flush" /\ pc' # "body" /\ UNCHANGED <<rxVars, peerVars>>
    BY <1>2 DEF FlushPrefix
  <2> QED
    BY <2>1, RxElsewhere DEF rxVars, peerVars
<1>3. CASE FlushBody
  <2>1. pc = "flushBody" /\ pc' # "body" /\ UNCHANGED <<rxVars, peerVars>>
    BY <1>3 DEF FlushBody
  <2> QED
    BY <2>1, RxElsewhere DEF rxVars, peerVars
<1>4. CASE FlushEnds
  BY <1>4, RxElsewhere DEF FlushEnds, rxVars, peerVars
<1>5. CASE RecvPrefix
  BY <1>5, RxPrefix
<1>6. CASE RecvBody
  BY <1>6, RxBody
<1>7. CASE RecvNothing
  BY <1>7, RxNothing
<1>8. CASE Top
  <2>1. pc = "top" /\ pc' # "body" /\ UNCHANGED <<rxVars, peerVars>>
    BY <1>8 DEF Top
  <2> QED
    BY <2>1, RxElsewhere DEF rxVars, peerVars
<1>9. ASSUME NEW n \in TxLens, Transmit(n) PROVE RxInv'
  BY <1>9, RxElsewhere DEF Transmit, rxVars, peerVars
<1>10. ASSUME NEW n \in RxLens, PeerBegins(n) PROVE RxInv'
  BY <1>10, RxPeerBegins
<1>11. CASE PeerWrites
  BY <1>11, RxPeerWrites
<1>12. CASE PeerReads
  BY <1>12, RxElsewhere DEF PeerReads, rxVars
<1>13. CASE PeerCloses
  BY <1>13, RxPeerCloses
<1> QED
  BY <1>1, <1>2, <1>3, <1>4, <1>5, <1>6, <1>7, <1>8, <1>9, <1>10, <1>11, <1>12, <1>13
     DEF Next, Device

LEMMA RxFollows ==
  ASSUME RxInv
  PROVE  RxInStep
<1>1. got \in Seq(Nat) /\ \A i \in 1 .. Len(got) : got[i] = i /\ peerSent[i].len <= MaxFrame
  BY DEF RxInv
<1>2. got = [i \in 1 .. Len(got) |-> i]
  BY <1>1
<1>3. ASSUME ~gone, ~peer_closed
      PROVE  pos = Len(Stream(SubSeq(peerSent, 1, Len(got)))) + IF pc = "body" THEN 2 ELSE 0
  <2>1. InStep
    BY <1>3 DEF RxInv, Done
  <2> QED
    BY <2>1 DEF InStep, Start
<1> QED
  BY <1>1, <1>2, <1>3 DEF RxInStep

\* Whatever the lengths of the frames and wherever the peer pauses or dies, the
\* frames it sends reach smoltcp in order, none missing, and as long as it
\* lives the loop stands at the beginning of a frame (net.rs:54-94).
THEOREM FramesArriveInStep == NetSpec => []RxInStep
<1>1. NetInit => RxInv
  BY RxInitial
<1>2. RxInv /\ [Next]_netVars => RxInv'
  BY RxStep
<1>3. RxInv => RxInStep
  BY RxFollows
<1> QED
  BY <1>1, <1>2, <1>3, PTL DEF NetSpec

(***************************************************************************)
(* Part 3: what goes out                                                   *)
(***************************************************************************)

\* b are the first m frames of fs but those in the gap, in order.
Picked(b, at, fs, m, gap) ==
  /\ b \in Seq(Frames(Nat)) /\ at \in Seq(Nat) /\ Len(at) = Len(b)
  /\ \A i \in 1 .. Len(b) : at[i] \in 1 .. m /\ b[i] = fs[at[i]]
  /\ \A i, j \in 1 .. Len(b) : i < j => at[i] < at[j]
  /\ \A i \in 1 .. Len(b) : at[i] \notin gap
  /\ \A k \in 1 .. m : k \in gap \/ \E i \in 1 .. Len(b) : at[i] = k

LEMMA PickedMore ==
  ASSUME NEW fs \in Seq(Frames(Nat)), NEW m \in Nat, m < Len(fs), NEW b, NEW at, NEW gap,
         gap \subseteq 1 .. m, Picked(b, at, fs, m, gap)
  PROVE  /\ Picked(b, at, fs, m + 1, gap \cup {m + 1})
         /\ Picked(Append(b, fs[m + 1]), Append(at, m + 1), fs, m + 1, gap)
<1> DEFINE f == fs[m + 1]
           c == Append(b, f)
           up == Append(at, m + 1)
<1>1. /\ b \in Seq(Frames(Nat)) /\ at \in Seq(Nat) /\ Len(at) = Len(b) /\ Len(b) \in Nat
      /\ \A i \in 1 .. Len(b) : at[i] \in 1 .. m /\ b[i] = fs[at[i]]
      /\ \A i, j \in 1 .. Len(b) : i < j => at[i] < at[j]
      /\ \A i \in 1 .. Len(b) : at[i] \notin gap
      /\ \A k \in 1 .. m : k \in gap \/ \E i \in 1 .. Len(b) : at[i] = k
  BY LenProperties DEF Picked
<1>2. f \in Frames(Nat) /\ m + 1 \in 1 .. Len(fs) /\ m + 1 \in Nat /\ m + 1 \in 1 .. m + 1
  <2>1. m + 1 \in 1 .. Len(fs) /\ m + 1 \in Nat /\ m + 1 \in 1 .. m + 1
    BY LenProperties
  <2> QED
    BY <2>1, ElementOfSeq
<1>11. \A k \in 1 .. m + 1 : k = m + 1 \/ k \in 1 .. m
  OBVIOUS
<1>12. m + 1 \notin gap /\ m + 1 \notin 1 .. m
  OBVIOUS
<1>3. Picked(b, at, fs, m + 1, gap \cup {m + 1})
  <2>1. \A i \in 1 .. Len(b) : at[i] \in 1 .. m + 1 /\ at[i] # m + 1
    BY <1>1
  <2>2. \A k \in 1 .. m + 1 : k \in gap \cup {m + 1} \/ \E i \in 1 .. Len(b) : at[i] = k
    BY <1>1, <1>11
  <2> QED
    BY <1>1, <2>1, <2>2 DEF Picked
<1>4. f = fs[m + 1]
  OBVIOUS
<1> HIDE DEF f
<1>5. /\ c \in Seq(Frames(Nat)) /\ Len(c) = Len(b) + 1 /\ c[Len(b) + 1] = f
      /\ \A i \in 1 .. Len(b) : c[i] = b[i]
  BY <1>1, <1>2, AppendProperties
<1>6. /\ up \in Seq(Nat) /\ Len(up) = Len(b) + 1 /\ up[Len(b) + 1] = m + 1
      /\ \A i \in 1 .. Len(b) : up[i] = at[i]
  <2>1. /\ up \in Seq(Nat) /\ Len(up) = Len(at) + 1 /\ up[Len(at) + 1] = m + 1
        /\ \A i \in 1 .. Len(at) : up[i] = at[i]
    BY <1>1, <1>2, AppendProperties
  <2> HIDE DEF up
  <2> QED
    BY <1>1, <2>1
<1> HIDE DEF c, up
<1>7. ASSUME NEW i \in 1 .. Len(c) PROVE i = Len(b) + 1 \/ (i \in 1 .. Len(b) /\ i < Len(b) + 1)
  BY <1>1, <1>5
<1>8. ASSUME NEW i \in 1 .. Len(c) PROVE up[i] \in 1 .. m + 1 /\ c[i] = fs[up[i]]
  <2>1. CASE i = Len(b) + 1
    BY <1>2, <1>4, <1>5, <1>6, <2>1
  <2>2. CASE i \in 1 .. Len(b)
    <3>1. up[i] = at[i] /\ c[i] = b[i] /\ at[i] \in 1 .. m /\ b[i] = fs[at[i]]
      BY <1>1, <1>5, <1>6, <2>2
    <3> QED
      BY <3>1
  <2> QED
    BY <1>7, <2>1, <2>2
<1>9. ASSUME NEW i \in 1 .. Len(c), NEW j \in 1 .. Len(c), i < j PROVE up[i] < up[j]
  <2>1. i \in 1 .. Len(b)
    BY <1>1, <1>5, <1>9
  <2>2. up[i] = at[i] /\ at[i] \in 1 .. m
    BY <1>1, <1>6, <2>1
  <2>3. CASE j = Len(b) + 1
    BY <1>6, <2>2, <2>3
  <2>4. CASE j \in 1 .. Len(b)
    BY <1>1, <1>6, <1>9, <2>1, <2>4
  <2> QED
    BY <1>7, <2>3, <2>4
<1>13. ASSUME NEW i \in 1 .. Len(c) PROVE up[i] \notin gap
  <2>1. CASE i = Len(b) + 1
    BY <1>6, <1>12, <2>1
  <2>2. CASE i \in 1 .. Len(b)
    BY <1>1, <1>6, <2>2
  <2> QED
    BY <1>7, <2>1, <2>2
<1>14. ASSUME NEW k \in 1 .. m + 1 PROVE k \in gap \/ \E i \in 1 .. Len(c) : up[i] = k
  <2>1. CASE k = m + 1
    <3>1. Len(b) + 1 \in 1 .. Len(c)
      BY <1>1, <1>5
    <3> QED
      BY <1>6, <2>1, <3>1
  <2>2. CASE k \in 1 .. m
    <3>1. k \in gap \/ \E i \in 1 .. Len(b) : at[i] = k
      BY <1>1, <2>2
    <3>2. \A i \in 1 .. Len(b) : i \in 1 .. Len(c) /\ up[i] = at[i]
      BY <1>1, <1>5, <1>6
    <3> QED
      BY <3>1, <3>2
  <2> QED
    BY <1>11, <2>1, <2>2
<1>10. Picked(c, up, fs, m + 1, gap)
  BY <1>5, <1>6, <1>8, <1>9, <1>13, <1>14 DEF Picked
<1> QED
  BY <1>3, <1>10 DEF c, up, f

\* A frame that is sent later changes nothing about them.
LEMMA PickedKept ==
  ASSUME NEW fs \in Seq(Frames(Nat)), NEW f \in Frames(Nat), NEW m \in Nat, m <= Len(fs),
         NEW b, NEW at, NEW gap, Picked(b, at, fs, m, gap)
  PROVE  Picked(b, at, Append(fs, f), m, gap)
<1>1. \A i \in 1 .. Len(fs) : Append(fs, f)[i] = fs[i]
  BY AppendProperties
<1>2. \A i \in 1 .. Len(b) : at[i] \in 1 .. Len(fs)
  <2>1. Len(fs) \in Nat
    BY LenProperties
  <2> QED
    BY <2>1 DEF Picked
<1> QED
  BY <1>1, <1>2 DEF Picked

\* b are the frames that were begun: the wire ends behind the prefix of the
\* last of them while its body is due, and behind a whole frame otherwise,
\* unless the peer was gone before the body.
Wrote(b) ==
  IF pc = "flushBody"
  THEN \E a \in Seq(Frames(Nat)) : b = Append(a, popped) /\ out = Stream(a) \o Prefix(popped)
  ELSE \E rest \in Seq(Units) : out \o rest = Stream(b) /\ (gone \/ rest = <<>>)

\* The queue is the end of what smoltcp sent.
Queued ==
  /\ sent \in Seq(Frames(Nat)) /\ \A i \in 1 .. Len(sent) : sent[i].id = i
  /\ pending_tx \in Seq(Frames(Nat)) /\ Len(pending_tx) <= Len(sent)
  /\ \A i \in 1 .. Len(pending_tx) : pending_tx[i] = sent[Len(sent) - Len(pending_tx) + i]
Left == Len(sent) - Len(pending_tx)
TxInv ==
  /\ Queued /\ out \in Seq(Units) /\ taken \in Nat /\ gone \in BOOLEAN /\ cut \in BOOLEAN
  /\ lost \subseteq 1 .. Left
  /\ pc = "flushBody" => popped \in Frames(Nat)
  /\ ~cut => \E b, at : Picked(b, at, sent, Left, lost) /\ Wrote(b)

LEMMA QueuedFacts ==
  ASSUME Queued
  PROVE  Len(sent) \in Nat /\ Len(pending_tx) \in Nat /\ Left \in Nat /\ Left <= Len(sent)
         /\ Left + Len(pending_tx) = Len(sent)
<1>1. Len(sent) \in Nat /\ Len(pending_tx) \in Nat /\ Len(pending_tx) <= Len(sent)
  BY LenProperties DEF Queued
<1> QED
  BY <1>1 DEF Left

LEMMA TxInitial ==
  ASSUME NetInit
  PROVE  TxInv
<1>1. /\ sent = <<>> /\ pending_tx = <<>> /\ out = <<>> /\ taken = 0 /\ gone = FALSE /\ cut = FALSE
      /\ pc = "top" /\ lost = {}
  BY DEF NetInit
<1> DEFINE b == <<>>
<1>2. b \in Seq(Frames(Nat)) /\ b \in Seq(Nat) /\ b \in Seq(Units) /\ Len(b) = 0
  OBVIOUS
<1>3. b \o b = b
  BY <1>2, ConcatEmptySeq
<1>4. Stream(b) = b
  BY StreamEmpty
<1>5. sent = b /\ pending_tx = b /\ out = b
  BY <1>1
<1> HIDE DEF b
<1>6. Queued
  BY <1>2, <1>5 DEF Queued
<1>7. Left = 0 /\ Picked(b, b, sent, Left, lost)
  <2>1. Left = 0
    BY <1>2, <1>5 DEF Left
  <2> QED
    BY <1>2, <2>1 DEF Picked
<1>8. Wrote(b)
  <2>1. b = <<>>
    BY DEF b
  <2> QED
    BY <1>1, <1>2, <1>3, <1>4, <1>5, <2>1 DEF Wrote
<1> QED
  BY <1>1, <1>2, <1>5, <1>6, <1>7, <1>8 DEF TxInv

LEMMA TxElsewhere ==
  ASSUME TxInv, UNCHANGED <<popped, pending_tx, out, cut, lost, sent>>,
         taken' \in Nat, gone' \in BOOLEAN, gone => gone', pc = "flushBody" <=> pc' = "flushBody"
  PROVE  TxInv'
<1>1. Queued' /\ Left' = Left
  BY DEF TxInv, Queued, Left
<1>2. \A b : Wrote(b) => Wrote(b)'
  BY DEF Wrote
<1>3. \A b, at : Picked(b, at, sent, Left, lost)' <=> Picked(b, at, sent, Left, lost)
  BY <1>1 DEF Picked
<1> QED
  BY <1>1, <1>2, <1>3 DEF TxInv

\* What write_all does: all of it, nothing, or the connection is cut.
LEMMA Written ==
  ASSUME NEW units \in Seq(Units), out \in Seq(Units), taken \in Nat, cut \in BOOLEAN, gone \in BOOLEAN,
         WriteAll(units)
  PROVE  /\ out' \in Seq(Units) /\ cut' \in BOOLEAN /\ (~cut' => ~cut)
         /\ gone => out' = out
         /\ ~gone /\ Fits(units) => out' = out \o units
         /\ ~gone /\ ~Fits(units) /\ ~cut' => pc # "flushBody" /\ out' = out /\ ~(Unread < Room)
<1> DEFINE n == IF Fits(units) THEN Len(units) ELSE Room - Unread
<1>1. /\ out' = (IF gone THEN out ELSE out \o SubSeq(units, 1, n))
      /\ cut' = (cut \/ (~gone /\ ~Fits(units) /\ (pc = "flushBody" \/ Unread < Room)))
  BY DEF WriteAll
<1>2. /\ Len(out) \in Nat /\ Len(units) \in Nat /\ Room \in Nat /\ Unread \in Int
      /\ Fits(units) <=> Unread + Len(units) <= Room
  BY LenProperties, NetAssumption DEF Unread, Fits
<1>3. n \in Int /\ n <= Len(units)
  BY <1>2
<1>4. Fits(units) => SubSeq(units, 1, n) = units
  BY SubSeqFull
<1>5. SubSeq(units, 1, n) \in Seq(Units)
  <2>1. \A i \in 1 .. n : units[i] \in Units
    <3>1. \A i \in 1 .. n : i \in 1 .. Len(units)
      BY <1>2, <1>3
    <3> QED
      BY <3>1, ElementOfSeq
  <2> QED
    BY <1>3, <2>1, SubSeqProperties
<1>6. ~Fits(units) /\ ~(Unread < Room) => SubSeq(units, 1, n) = <<>>
  <2>1. ~Fits(units) /\ ~(Unread < Room) => n < 1
    BY <1>2
  <2> QED
    BY <1>3, <2>1, SubSeqEmpty
<1>7. out \o SubSeq(units, 1, n) \in Seq(Units) /\ out \o <<>> = out
  BY <1>5, ConcatProperties, ConcatEmptySeq
<1> HIDE DEF n
<1>8. out' \in Seq(Units) /\ cut' \in BOOLEAN /\ (~cut' => ~cut)
  BY <1>1, <1>7
<1>9. ~gone /\ Fits(units) => out' = out \o units
  BY <1>1, <1>4
<1>10. ~gone /\ ~Fits(units) /\ ~cut' => pc # "flushBody" /\ out' = out /\ ~(Unread < Room)
  BY <1>1, <1>6, <1>7
<1> QED
  BY <1>1, <1>8, <1>9, <1>10

LEMMA TxTransmit ==
  ASSUME TxInv, NEW n \in TxLens, Transmit(n)
  PROVE  TxInv'
<1> DEFINE f == [id |-> Len(sent) + 1, len |-> n]
<1>1. /\ pending_tx' = Append(pending_tx, f) /\ sent' = Append(sent, f)
      /\ UNCHANGED <<pc, popped, out, cut, lost, taken, gone>>
  BY DEF Transmit, peerVars
<1>2. /\ Len(sent) \in Nat /\ Len(pending_tx) \in Nat /\ Left \in Nat /\ Left <= Len(sent)
      /\ Left + Len(pending_tx) = Len(sent)
  BY QueuedFacts DEF TxInv
<1>3. f \in Frames(Nat) /\ f.id = Len(sent) + 1
  BY <1>2, NetAssumption DEF Frames
<1> HIDE DEF f
<1>4. /\ sent \in Seq(Frames(Nat)) /\ \A i \in 1 .. Len(sent) : sent[i].id = i
      /\ pending_tx \in Seq(Frames(Nat))
      /\ \A i \in 1 .. Len(pending_tx) : pending_tx[i] = sent[Left + i]
  BY DEF TxInv, Queued, Left
<1>5. /\ sent' \in Seq(Frames(Nat)) /\ Len(sent') = Len(sent) + 1 /\ sent'[Len(sent) + 1] = f
      /\ \A i \in 1 .. Len(sent) : sent'[i] = sent[i]
  BY <1>1, <1>3, <1>4, AppendProperties
<1>6. /\ pending_tx' \in Seq(Frames(Nat)) /\ Len(pending_tx') = Len(pending_tx) + 1
      /\ pending_tx'[Len(pending_tx) + 1] = f
      /\ \A i \in 1 .. Len(pending_tx) : pending_tx'[i] = pending_tx[i]
  BY <1>1, <1>3, <1>4, AppendProperties
<1>7. Left' = Left /\ Len(pending_tx') <= Len(sent')
  BY <1>2, <1>5, <1>6 DEF Left
<1>8. ASSUME NEW i \in 1 .. Len(pending_tx') PROVE pending_tx'[i] = sent'[Left + i]
  <2>1. CASE i = Len(pending_tx) + 1
    <3>1. Left + i = Len(sent) + 1
      BY <1>2, <2>1
    <3> QED
      BY <1>5, <1>6, <2>1, <3>1
  <2>2. CASE i # Len(pending_tx) + 1
    <3>1. i \in 1 .. Len(pending_tx) /\ Left + i \in 1 .. Len(sent)
      BY <1>2, <1>6, <2>2
    <3> QED
      BY <1>4, <1>5, <1>6, <3>1
  <2> QED
    BY <2>1, <2>2
<1>9. \A i \in 1 .. Len(sent') : sent'[i].id = i
  <2>1. ASSUME NEW i \in 1 .. Len(sent') PROVE i = Len(sent) + 1 \/ i \in 1 .. Len(sent)
    BY <1>2, <1>5
  <2> QED
    BY <1>3, <1>4, <1>5, <2>1
<1>10. Queued'
  BY <1>5, <1>6, <1>7, <1>8, <1>9 DEF Queued, Left
<1>11. ASSUME ~cut' PROVE \E b, at : Picked(b, at, sent, Left, lost)' /\ Wrote(b)'
  <2>1. PICK b, at : Picked(b, at, sent, Left, lost) /\ Wrote(b)
    BY <1>1, <1>11 DEF TxInv
  <2>2. Picked(b, at, Append(sent, f), Left, lost)
    BY <1>2, <1>3, <1>4, <2>1, PickedKept
  <2>3. Picked(b, at, sent, Left, lost)'
    BY <1>1, <1>7, <2>2 DEF Picked
  <2>4. Wrote(b)'
    BY <1>1, <2>1 DEF Wrote
  <2> QED
    BY <2>3, <2>4
<1>12. lost' \subseteq 1 .. Left'
  BY <1>1, <1>7 DEF TxInv
<1> HIDE DEF Left
<1> QED
  BY <1>1, <1>10, <1>11, <1>12 DEF TxInv

\* A frame leaves the queue; with its prefix it is begun, and where nothing of
\* it went out it is not.
LEMMA TxPrefix ==
  ASSUME TxInv, FlushPrefix
  PROVE  TxInv'
<1> DEFINE m == Left
           f == sent[m + 1]
<1>1. /\ pc = "flush" /\ pending_tx # <<>> /\ popped' = Head(pending_tx)
      /\ pending_tx' = Tail(pending_tx) /\ WriteAll(Prefix(popped'))
      /\ pc' = (IF ~gone /\ Fits(Prefix(popped')) THEN "flushBody" ELSE "top")
      /\ lost' = (IF ~gone /\ Unread >= Room THEN lost \cup {popped'.id} ELSE lost)
      /\ UNCHANGED <<sent, taken, gone>>
  BY DEF FlushPrefix, peerVars
<1>2. /\ Len(sent) \in Nat /\ Len(pending_tx) \in Nat /\ m \in Nat /\ m <= Len(sent)
      /\ m + Len(pending_tx) = Len(sent)
  BY QueuedFacts DEF TxInv
<1>3. /\ sent \in Seq(Frames(Nat)) /\ \A i \in 1 .. Len(sent) : sent[i].id = i
      /\ pending_tx \in Seq(Frames(Nat))
      /\ \A i \in 1 .. Len(pending_tx) : pending_tx[i] = sent[m + i]
      /\ out \in Seq(Units) /\ taken \in Nat /\ gone \in BOOLEAN /\ cut \in BOOLEAN
      /\ lost \subseteq 1 .. m
  BY DEF TxInv, Queued, Left
<1>4. Left' = Len(sent) - Len(Tail(pending_tx))
  BY <1>1 DEF Left
<1> HIDE DEF m
<1>5. Len(pending_tx) # 0 /\ m < Len(sent)
  BY <1>1, <1>2, <1>3, EmptySeq
<1>6. /\ popped' \in Frames(Nat) /\ pending_tx' \in Seq(Frames(Nat))
      /\ Len(pending_tx') = Len(pending_tx) - 1
      /\ \A i \in 1 .. Len(pending_tx') : pending_tx'[i] = pending_tx[i + 1]
  BY <1>1, <1>3, HeadTailProperties
<1>7. popped' = f
  <2>1. 1 \in 1 .. Len(pending_tx)
    BY <1>2, <1>5
  <2> QED
    BY <1>1, <1>3, <2>1
<1>8. Left' = m + 1
  <2>1. Left' = Len(sent) - Len(pending_tx')
    BY <1>1, <1>4
  <2>2. Len(sent) - Len(pending_tx') = m + 1
    <3>1. Len(pending_tx') = Len(pending_tx) - 1
      BY <1>6
    <3> HIDE DEF f
    <3> QED
      BY ONLY <1>2, <3>1
  <2> QED
    BY <2>1, <2>2
<1>9. Queued'
  <2>1. ASSUME NEW i \in 1 .. Len(pending_tx') PROVE pending_tx'[i] = sent[(m + 1) + i]
    <3>1. i + 1 \in 1 .. Len(pending_tx) /\ m + (i + 1) = (m + 1) + i
      BY <1>2, <1>6
    <3> QED
      BY <1>3, <1>6, <3>1
  <2>2. Len(pending_tx') <= Len(sent') /\ Len(sent') - Len(pending_tx') = m + 1
    BY <1>1, <1>2, <1>5, <1>6
  <2> QED
    BY <1>1, <1>3, <1>6, <2>1, <2>2 DEF Queued
<1>13. f.id = m + 1 /\ lost' \subseteq 1 .. m + 1
  <2>1. f.id = m + 1 /\ m + 1 \in 1 .. m + 1
    BY <1>2, <1>3, <1>5
  <2>2. m \in Nat /\ lost \subseteq 1 .. m /\ popped'.id = m + 1
    BY <1>2, <1>3, <1>7, <2>1
  <2>3. lost' \subseteq lost \cup {popped'.id}
    BY <1>1
  <2>4. \A x \in 1 .. m : x \in 1 .. m + 1
    BY <1>2
  <2> HIDE DEF f
  <2> QED
    BY ONLY <2>1, <2>2, <2>3, <2>4
<1>10. Prefix(f) \in Seq(Units) /\ WriteAll(Prefix(f)) /\ f \in Frames(Nat)
  BY <1>1, <1>6, <1>7, EncodeDoes
<1> HIDE DEF f
<1>11. /\ out' \in Seq(Units) /\ cut' \in BOOLEAN /\ (~cut' => ~cut)
       /\ gone => out' = out
       /\ ~gone /\ Fits(Prefix(f)) => out' = out \o Prefix(f)
       /\ ~gone /\ ~Fits(Prefix(f)) /\ ~cut' => out' = out /\ ~(Unread < Room)
  BY <1>3, <1>10, Written
<1>12. ASSUME ~cut' PROVE \E b, at : Picked(b, at, sent, Left, lost)' /\ Wrote(b)'
  <2>1. PICK b, at : Picked(b, at, sent, m, lost) /\ Wrote(b)
    BY <1>11, <1>12 DEF TxInv, m
  <2>2. PICK rest \in Seq(Units) : out \o rest = Stream(b) /\ (gone \/ rest = <<>>)
    BY <1>1, <2>1 DEF Wrote
  <2>3. /\ Picked(b, at, sent, m + 1, lost \cup {m + 1})
        /\ Picked(Append(b, f), Append(at, m + 1), sent, m + 1, lost)
    BY <1>2, <1>3, <1>5, <2>1, PickedMore DEF f
  <2>6. Unread \in Int /\ Room \in Nat /\ Len(Prefix(f)) = 2
    <3>1. Len(out) \in Nat /\ Room \in Nat /\ Len(Prefix(f)) = 2
      BY <1>3, <1>10, LenProperties, EncodeDoes, NetAssumption
    <3> QED
      BY <1>3, <3>1 DEF Unread
  <2>7. b \in Seq(Frames(Nat))
    BY <2>1 DEF Picked
  <2>8. PICK c, up : c = Append(b, f) /\ up = Append(at, m + 1)
    OBVIOUS
  <2>4. CASE ~gone /\ Fits(Prefix(f))
    <3>1. pc' = "flushBody" /\ lost' = lost
      <4>1. ~(Unread >= Room)
        BY <2>4, <2>6 DEF Fits
      <4> QED
        BY <1>1, <1>7, <2>4, <4>1
    <3>2. out = Stream(b)
      <4>1. out \o rest = out
        BY <1>3, <2>2, <2>4, ConcatEmptySeq
      <4> QED
        BY <2>2, <4>1
    <3>3. out' = Stream(b) \o Prefix(f)
      BY <1>11, <2>4, <3>2
    <3>5. Wrote(c)'
      BY <1>7, <1>10, <2>7, <2>8, <3>1, <3>3 DEF Wrote
    <3>6. Picked(c, up, sent, Left, lost)'
      <4>1. Picked(c, up, sent, m + 1, lost)
        BY <2>3, <2>8
      <4> QED
        BY <1>1, <1>8, <3>1, <4>1 DEF Picked
    <3> QED
      BY <3>5, <3>6
  <2>5. CASE ~gone /\ ~Fits(Prefix(f))
    <3>1. out' = out /\ pc' = "top" /\ ~(Unread < Room)
      BY <1>1, <1>7, <1>11, <1>12, <2>5
    <3>2. Wrote(b)'
      BY <1>1, <2>2, <3>1 DEF Wrote
    <3>4. Unread >= Room
      BY <2>6, <3>1
    <3>5. lost' = lost \cup {m + 1}
      BY <1>1, <1>7, <1>13, <2>5, <3>4
    <3>6. Picked(b, at, sent, Left, lost)'
      BY <1>1, <1>8, <2>3, <3>5 DEF Picked
    <3> QED
      BY <3>2, <3>6
  <2>9. CASE gone
    <3>1. out' = out /\ pc' = "top" /\ lost' = lost
      BY <1>1, <1>7, <1>11, <2>9
    <3>2. /\ Stream(c) = Stream(b) \o Encode(f) /\ Stream(b) \in Seq(Units)
          /\ Encode(f) \in Seq(Units)
      BY <1>10, <2>7, <2>8, StreamAppend, EncodeDoes
    <3>3. out \o (rest \o Encode(f)) = Stream(c) /\ rest \o Encode(f) \in Seq(Units)
      <4>1. PICK e : e = Encode(f)
        OBVIOUS
      <4>2. e \in Seq(Units) /\ Stream(c) = (out \o rest) \o e
        BY <2>2, <3>2, <4>1
      <4>3. out \o (rest \o e) = (out \o rest) \o e
        <5>1. out \in Seq(Units) /\ rest \in Seq(Units) /\ e \in Seq(Units)
          BY <1>3, <4>2
        <5> QED
          BY ONLY <5>1, ConcatAssociative
      <4>5. rest \o e \in Seq(Units)
        BY <4>2, ConcatProperties
      <4> QED
        BY <4>1, <4>2, <4>3, <4>5
    <3>4. Wrote(c)'
      BY <1>1, <2>9, <3>1, <3>3 DEF Wrote
    <3>5. Picked(c, up, sent, Left, lost)'
      <4>1. Picked(c, up, sent, m + 1, lost)
        BY <2>3, <2>8
      <4> QED
        BY <1>1, <1>8, <3>1, <4>1 DEF Picked
    <3> QED
      BY <3>4, <3>5
  <2> QED
    BY <2>4, <2>5, <2>9
<1>15. lost' \subseteq 1 .. Left'
  BY <1>8, <1>13
<1>16. taken' \in Nat /\ gone' \in BOOLEAN
  BY <1>1, <1>3
<1> QED
  BY <1>7, <1>6, <1>9, <1>11, <1>12, <1>15, <1>16 DEF TxInv

\* The body completes the frame that was begun; without a reader it is the
\* rest that is missing.
LEMMA TxBody ==
  ASSUME TxInv, FlushBody
  PROVE  TxInv'
<1>1. /\ pc = "flushBody" /\ pc' # "flushBody" /\ WriteAll(Body(popped))
      /\ UNCHANGED <<pending_tx, lost, sent, taken, gone>>
  BY DEF FlushBody, peerVars
<1>2. out \in Seq(Units) /\ taken \in Nat /\ gone \in BOOLEAN /\ cut \in BOOLEAN /\ Queued
  BY DEF TxInv
<1>3. Queued' /\ Left' = Left
  BY <1>1, <1>2 DEF Queued, Left
<1>4. popped \in Frames(Nat)
  BY <1>1 DEF TxInv
<1> DEFINE f == popped
           p == Prefix(f)
           d == Body(f)
<1>5. /\ p \in Seq(Units) /\ d \in Seq(Units) /\ Encode(f) = p \o d
  BY <1>4, EncodeDoes DEF Encode
<1>6. WriteAll(d)
  BY <1>1
<1> HIDE DEF f, p, d
<1>7. /\ out' \in Seq(Units) /\ cut' \in BOOLEAN /\ (~cut' => ~cut)
      /\ gone => out' = out
      /\ ~gone /\ Fits(d) => out' = out \o d
      /\ ~gone /\ ~Fits(d) => cut'
  BY <1>1, <1>2, <1>5, <1>6, Written
<1>8. ASSUME ~cut' PROVE \E b, at : Picked(b, at, sent, Left, lost)' /\ Wrote(b)'
  <2>1. PICK b, at : Picked(b, at, sent, Left, lost) /\ Wrote(b)
    BY <1>7, <1>8 DEF TxInv
  <2>2. PICK a \in Seq(Frames(Nat)) : b = Append(a, f) /\ out = Stream(a) \o p
    BY <1>1, <2>1 DEF Wrote, f, p
  <2>3. Stream(b) = Stream(a) \o (p \o d) /\ Stream(a) \in Seq(Units)
    BY <1>4, <1>5, <2>2, StreamAppend DEF f
  <2>4. out \o d = Stream(b)
    BY <1>5, <2>2, <2>3, ConcatAssociative
  <2>5. Picked(b, at, sent, Left, lost)'
    BY <1>1, <1>3, <2>1 DEF Picked
  <2>6. PICK rest \in Seq(Units) : out' \o rest = Stream(b) /\ (gone \/ rest = <<>>)
    <3>1. CASE gone
      BY <1>5, <1>7, <2>4, <3>1
    <3>2. CASE ~gone
      <4>1. out' = Stream(b)
        BY <1>7, <1>8, <2>4, <3>2
      <4>2. out' \o <<>> = out' /\ <<>> \in Seq(Units)
        BY <1>7, ConcatEmptySeq
      <4> QED
        BY <4>1, <4>2
    <3> QED
      BY <3>1, <3>2
  <2>7. Wrote(b)'
    BY <1>1, <2>6 DEF Wrote
  <2> QED
    BY <2>5, <2>7
<1> QED
  BY <1>1, <1>2, <1>3, <1>7, <1>8 DEF TxInv

LEMMA TxStep ==
  ASSUME TxInv, [Next]_netVars
  PROVE  TxInv'
<1> DEFINE Same == /\ UNCHANGED <<txVars, taken, gone>>
                   /\ pc = "flushBody" <=> pc' = "flushBody"
<1>1. ASSUME Same PROVE TxInv'
  <2>1. /\ UNCHANGED <<popped, pending_tx, out, cut, lost, sent>> /\ taken' \in Nat /\ gone' \in BOOLEAN
        /\ (gone => gone') /\ (pc = "flushBody" <=> pc' = "flushBody")
    BY <1>1 DEF TxInv, txVars
  <2> QED
    BY <2>1, TxElsewhere
<1>2. CASE UNCHANGED netVars
  BY <1>1, <1>2 DEF netVars, peerVars
<1>3. CASE FlushPrefix
  BY <1>3, TxPrefix
<1>4. CASE FlushBody
  BY <1>4, TxBody
<1>5. CASE FlushEnds
  BY <1>1, <1>5 DEF FlushEnds, peerVars
<1>6. CASE RecvPrefix
  <2>1. pc = "poll" /\ (pc' = pc \/ pc' = "body") /\ UNCHANGED <<txVars, peerVars>>
    BY <1>6 DEF RecvPrefix
  <2> QED
    BY <1>1, <2>1 DEF peerVars
<1>7. CASE RecvBody
  BY <1>1, <1>7 DEF RecvBody, peerVars
<1>8. CASE RecvNothing
  BY <1>1, <1>8 DEF RecvNothing, peerVars
<1>9. CASE Top
  <2>1. pc = "top" /\ pc' # "flushBody" /\ UNCHANGED <<txVars, peerVars>>
    BY <1>9 DEF Top
  <2> QED
    BY <1>1, <2>1 DEF peerVars
<1>10. ASSUME NEW n \in TxLens, Transmit(n) PROVE TxInv'
  BY <1>10, TxTransmit
<1>11. ASSUME NEW n \in RxLens, PeerBegins(n) PROVE TxInv'
  BY <1>1, <1>11 DEF PeerBegins
<1>12. CASE PeerWrites
  BY <1>1, <1>12 DEF PeerWrites
<1>13. CASE PeerReads
  <2>1. /\ UNCHANGED <<popped, pending_tx, out, cut, lost, sent, gone, pc>> /\ taken' = taken + 1
    BY <1>13 DEF PeerReads, txVars
  <2>2. taken' \in Nat /\ gone' \in BOOLEAN
    BY <2>1 DEF TxInv
  <2> QED
    BY <2>1, <2>2, TxElsewhere
<1>14. CASE PeerCloses
  <2>1. /\ UNCHANGED <<popped, pending_tx, out, cut, lost, sent, taken, pc>> /\ gone' = TRUE
    BY <1>14 DEF PeerCloses, txVars
  <2>2. taken' \in Nat /\ gone' \in BOOLEAN
    BY <2>1 DEF TxInv
  <2> QED
    BY <2>1, <2>2, TxElsewhere
<1> QED
  BY <1>2, <1>3, <1>4, <1>5, <1>6, <1>7, <1>8, <1>9, <1>10, <1>11, <1>12, <1>13, <1>14
     DEF Next, Device

LEMMA PrefixOf ==
  ASSUME NEW U, NEW s \in Seq(U), NEW t \in Seq(U)
  PROVE  IsPrefix(s, s \o t)
<1>1. Len(s) \in Nat /\ Len(t) \in Nat /\ Len(s \o t) = Len(s) + Len(t)
  BY Joined
<1>2. CASE Len(s) = 0
  BY <1>1, <1>2, SubSeqEmpty DEF IsPrefix
<1>3. CASE Len(s) # 0
  <2>1. 1 \in 1 .. Len(s) /\ Len(s) \in 1 .. Len(s)
    BY <1>1, <1>3
  <2>2. SubSeq(s \o t, 1, Len(s)) = SubSeq(s, 1, Len(s))
    BY <2>1, SubSeqOfConcat1
  <2> QED
    BY <1>1, <2>2 DEF IsPrefix
<1> QED
  BY <1>2, <1>3

\* Places in ascending order are no more than there are.
LEMMA Climbs ==
  ASSUME NEW n \in Nat, NEW m \in Nat, NEW at \in [1 .. n -> 1 .. m],
         \A i, j \in 1 .. n : i < j => at[i] < at[j]
  PROVE  n <= m
<1> DEFINE Bad == {i \in Nat : i \in 1 .. n /\ at[i] < i}
<1>1. ASSUME Bad # {} PROVE FALSE
  <2>1. Bad \in SUBSET Nat
    OBVIOUS
  <2> HIDE DEF Bad
  <2>2. PICK i \in Bad : \A j \in Bad : i <= j
    BY <1>1, <2>1, Least
  <2>3. i \in 1 .. n /\ at[i] < i /\ at[i] \in 1 .. m
    BY <2>2 DEF Bad
  <2>4. i - 1 \in 1 .. n /\ i - 1 \in Nat /\ i - 1 < i
    BY <2>3
  <2>5. ~(at[i - 1] < i - 1) /\ at[i - 1] < at[i] /\ at[i - 1] \in 1 .. m
    <3>1. i - 1 \notin Bad
      BY <2>1, <2>2, <2>4
    <3> QED
      BY <2>3, <2>4, <3>1 DEF Bad
  <2> QED
    BY <2>3, <2>4, <2>5
<1>2. CASE n = 0
  BY <1>2
<1>3. CASE n # 0
  <2>1. n \in 1 .. n
    BY <1>3
  <2>2. ~(at[n] < n) /\ at[n] \in 1 .. m
    BY <1>1, <2>1
  <2> QED
    BY <2>2
<1> QED
  BY <1>2, <1>3

LEMMA TxFollows ==
  ASSUME TxInv
  PROVE  TxInStep
<1> SUFFICES ASSUME ~cut PROVE TxInStep
  BY DEF TxInStep
<1>1. PICK b, at : Picked(b, at, sent, Left, lost) /\ Wrote(b)
  BY DEF TxInv
<1> DEFINE n == Len(b)
<1>2. /\ b \in Seq(Frames(Nat)) /\ at \in Seq(Nat) /\ Len(at) = n /\ n \in Nat
      /\ \A i \in 1 .. n : at[i] \in 1 .. Left /\ b[i] = sent[at[i]]
      /\ \A i, j \in 1 .. n : i < j => at[i] < at[j]
  BY <1>1, LenProperties DEF Picked
<1>3. /\ Len(sent) \in Nat /\ Len(pending_tx) \in Nat /\ Left \in Nat /\ Left <= Len(sent)
      /\ Left + Len(pending_tx) = Len(sent)
  BY QueuedFacts DEF TxInv
<1>4. /\ \A i \in 1 .. Len(sent) : sent[i].id = i
      /\ \A i \in 1 .. Len(pending_tx) : pending_tx[i] = sent[Left + i]
      /\ pending_tx \in Seq(Frames(Nat))
  BY DEF TxInv, Queued, Left
<1>5. at \in [1 .. n -> 1 .. Len(sent)]
  <2>1. at = [i \in 1 .. n |-> at[i]]
    BY <1>2
  <2>2. \A i \in 1 .. n : at[i] \in 1 .. Len(sent)
    BY <1>2, <1>3
  <2> HIDE DEF n
  <2> QED
    BY <2>1, <2>2
<1>6. b = [i \in 1 .. n |-> sent[at[i]]]
  <2>1. b = [i \in 1 .. n |-> b[i]]
    BY <1>2
  <2> HIDE DEF n
  <2> QED
    BY <1>2, <2>1
<1>7. n \in 0 .. Len(sent)
  <2>1. n <= Len(sent)
    BY <1>2, <1>3, <1>5, Climbs
  <2> QED
    BY <1>2, <1>3, <2>1
<1>8. {at[i] : i \in 1 .. n} = (1 .. Left) \ lost
  <2>1. /\ \A i \in 1 .. n : at[i] \in 1 .. Left /\ at[i] \notin lost
        /\ \A k \in 1 .. Left : k \in lost \/ \E i \in 1 .. n : at[i] = k
    BY <1>1 DEF Picked
  <2> HIDE DEF n
  <2> QED
    BY <2>1
<1>9. IsPrefix(out, Stream(b)) /\ (pc # "flushBody" => gone \/ out = Stream(b))
  <2>1. out \in Seq(Units)
    BY DEF TxInv
  <2>2. CASE pc = "flushBody"
    <3>1. popped \in Frames(Nat)
      BY <2>2 DEF TxInv
    <3> DEFINE f == popped
               p == Prefix(f)
               d == Body(f)
    <3>2. PICK a \in Seq(Frames(Nat)) : b = Append(a, f) /\ out = Stream(a) \o p
      BY <1>1, <2>2 DEF Wrote
    <3>3. p \in Seq(Units) /\ d \in Seq(Units) /\ Encode(f) = p \o d
      BY <3>1, EncodeDoes DEF Encode
    <3>4. Stream(b) = Stream(a) \o Encode(f) /\ Stream(a) \in Seq(Units)
      BY <3>1, <3>2, StreamAppend
    <3> HIDE DEF f, p, d
    <3>5. out \o d = Stream(b)
      BY <3>2, <3>3, <3>4, ConcatAssociative
    <3> QED
      BY <2>1, <2>2, <3>3, <3>5, PrefixOf
  <2>3. CASE pc # "flushBody"
    <3>1. PICK rest \in Seq(Units) : out \o rest = Stream(b) /\ (gone \/ rest = <<>>)
      BY <1>1, <2>3 DEF Wrote
    <3>2. out \o <<>> = out
      BY <2>1, ConcatEmptySeq
    <3>3. IsPrefix(out, Stream(b))
      BY <2>1, <3>1, PrefixOf
    <3> QED
      BY <3>1, <3>2, <3>3
  <2> QED
    BY <2>2, <2>3
<1>10. /\ \A i, j \in 1 .. n : i < j => at[i] < at[j]
       /\ b = [i \in 1 .. n |-> sent[at[i]]]
  BY <1>2, <1>6
<1>11. {at[i] : i \in 1 .. n} = (1 .. Len(sent) - Len(pending_tx)) \ lost
  BY <1>8 DEF Left
<1> HIDE DEF n
<1> QED
  BY <1>5, <1>7, <1>9, <1>10, <1>11 DEF TxInStep

\* Whatever the lengths, the room in the socket and the pace of the peer, what
\* goes out is the frames that smoltcp sent, whole and in its order, but for
\* those that found no room at all, until a write_all ends inside a frame
\* (net.rs:38-52).
THEOREM FramesLeaveInStep == NetSpec => []TxInStep
<1>1. NetInit => TxInv
  BY TxInitial
<1>2. TxInv /\ [Next]_netVars => TxInv'
  BY TxStep
<1>3. TxInv => TxInStep
  BY TxFollows
<1> QED
  BY <1>1, <1>2, <1>3, PTL DEF NetSpec
=============================================================================
