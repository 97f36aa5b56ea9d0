--------------------------- MODULE AudioDumpProofs --------------------------
(***************************************************************************)
(* The recording of AudioDumpWorker, for any number of channels, packets,  *)
(* boots and sizes of packets, files and queue: what the files of a boot   *)
(* hold, with what is still to be written, is the audio the thread took    *)
(* (RecordingInOrder); a thread that ended after stop() has written all of *)
(* it (StopFlushes); and nothing the process does, or its death, tears a   *)
(* file (OnlyPowerTears).                                                  *)
(***************************************************************************)
EXTENDS AudioDump, SequenceTheorems, WellFoundedInduction, TLAPS

(* Induction and arithmetic                                                *)

LEMMA LeastNumber ==
  ASSUME NEW T, T \subseteq Nat, T # {}
  PROVE  \E x \in T : \A y \in T : x <= y
<1> DEFINE R == OpToRel(<, Nat)
<1>1. IsWellFoundedOn(R, Nat)
  BY NatLessThanWellFounded
<1>2. \A x, y \in Nat : <<x, y>> \in R <=> x < y
  BY DEF OpToRel
<1> HIDE DEF R
<1>3. PICK x \in T : \A y \in T : ~(<<y, x>> \in R)
  BY <1>1, WFMin
<1>4. \A y \in T : y \in Nat /\ x \in Nat /\ ~(y < x)
  BY <1>2, <1>3
<1>5. \A y \in T : x <= y
  BY <1>4
<1> QED BY <1>5

(* Induction, on the set of the numbers that have the property. *)
LEMMA InductiveSet ==
  ASSUME NEW T, 0 \in T, \A n \in Nat : n \in T => n + 1 \in T
  PROVE  Nat \subseteq T
<1> SUFFICES ASSUME Nat \ T # {} PROVE FALSE
  OBVIOUS
<1>1. PICK x \in Nat \ T : \A y \in Nat \ T : x <= y
  BY LeastNumber
<1>2. x # 0 /\ x - 1 \in Nat /\ ~(x <= x - 1) /\ x - 1 + 1 = x
  OBVIOUS
<1> QED BY <1>1, <1>2

LEMMA Times ==
  ASSUME NEW i \in Nat, NEW j \in Nat, NEW d \in Nat
  PROVE  /\ i * d \in Nat /\ (i + 1) * d = i * d + d
         /\ (i + j) * d = i * d + j * d
         /\ i <= j => i * d <= j * d
         /\ d # 0 => i <= i * d
OBVIOUS

LEMMA Quotient ==
  ASSUME NEW x \in Nat, NEW d \in Nat \ {0}
  PROVE  x \div d \in Nat /\ (x \div d) * d <= x
OBVIOUS

-----------------------------------------------------------------------------
(* Pieces of a sequence                                                    *)

Piece(s, i, j) == SubSeq(s, i + 1, j)

LEMMA PieceIs ==
  ASSUME NEW s \in Seq(Nat), NEW i \in Nat, NEW j \in Nat,
         i <= j, j <= Len(s)
  PROVE  /\ Piece(s, i, j) \in Seq(Nat)
         /\ Len(Piece(s, i, j)) = j - i
         /\ \A k \in 1..j - i : Piece(s, i, j)[k] = s[i + k]
<1>1. \A k \in i + 1..j : s[k] \in Nat
  OBVIOUS
<1>2. i + 1 \in Int /\ j \in Int
  OBVIOUS
<1>3. /\ SubSeq(s, i + 1, j) \in Seq(Nat)
      /\ Len(SubSeq(s, i + 1, j)) =
           IF i + 1 <= j THEN j - (i + 1) + 1 ELSE 0
      /\ \A k \in 1..j - (i + 1) + 1 :
           SubSeq(s, i + 1, j)[k] = s[i + 1 + k - 1]
  BY ONLY <1>1, <1>2, SubSeqProperties
<1>4. j - (i + 1) + 1 = j - i /\ (~(i + 1 <= j) => j - i = 0)
  OBVIOUS
<1>5. \A k \in 1..j - i : i + 1 + k - 1 = i + k
  OBVIOUS
<1> QED BY <1>3, <1>4, <1>5 DEF Piece

LEMMA SameSequence ==
  ASSUME NEW s \in Seq(Nat), NEW t \in Seq(Nat), Len(s) = Len(t),
         \A i \in 1..Len(s) : s[i] = t[i]
  PROVE  s = t
BY SeqEqual

LEMMA PiecesOf ==
  ASSUME NEW s \in Seq(Nat)
  PROVE  /\ Len(s) \in Nat
         /\ Piece(s, 0, Len(s)) = s
         /\ \A i \in 0..Len(s) : Piece(s, i, i) = <<>>
<1>1. Len(s) \in Nat
  OBVIOUS
<1>2. Piece(s, 0, Len(s)) = s
  <2>1. /\ Piece(s, 0, Len(s)) \in Seq(Nat)
        /\ Len(Piece(s, 0, Len(s))) = Len(s) - 0
        /\ \A k \in 1..Len(s) - 0 : Piece(s, 0, Len(s))[k] = s[0 + k]
    <3>1. 0 \in Nat /\ 0 <= Len(s) /\ Len(s) <= Len(s)
      BY <1>1
    <3> QED BY <1>1, <3>1, PieceIs
  <2>2. Len(s) - 0 = Len(s) /\ \A k \in 1..Len(s) : 0 + k = k
    BY <1>1
  <2> QED BY <2>1, <2>2, SameSequence
<1>3. ASSUME NEW i \in 0..Len(s)
      PROVE  Piece(s, i, i) = <<>>
  <2>1. i \in Nat /\ i <= i /\ i <= Len(s) /\ i - i = 0
    BY <1>1
  <2>2. Piece(s, i, i) \in Seq(Nat) /\ Len(Piece(s, i, i)) = 0
    BY <2>1, PieceIs
  <2> QED BY <2>2
<1> QED BY <1>1, <1>2, <1>3

LEMMA Concatenation ==
  ASSUME NEW s \in Seq(Nat), NEW t \in Seq(Nat)
  PROVE  /\ s \o t \in Seq(Nat)
         /\ Len(s) \in Nat /\ Len(t) \in Nat
         /\ Len(s \o t) = Len(s) + Len(t)
         /\ \A i \in 1..Len(s) : (s \o t)[i] = s[i]
         /\ \A i \in 1..Len(t) : (s \o t)[Len(s) + i] = t[i]
OBVIOUS

(* Two sequences one after the other are a third, position by position. *)
LEMMA JoinedIs ==
  ASSUME NEW s \in Seq(Nat), NEW t \in Seq(Nat), NEW u \in Seq(Nat),
         Len(u) = Len(s) + Len(t),
         \A k \in 1..Len(s) : u[k] = s[k],
         \A k \in 1..Len(t) : u[Len(s) + k] = t[k]
  PROVE  s \o t = u
<1>1. /\ s \o t \in Seq(Nat) /\ Len(s \o t) = Len(u)
      /\ Len(s) \in Nat /\ Len(t) \in Nat
      /\ \A i \in 1..Len(s) : (s \o t)[i] = s[i]
      /\ \A i \in 1..Len(t) : (s \o t)[Len(s) + i] = t[i]
  BY Concatenation
<1>2. ASSUME NEW k \in 1..Len(u)
      PROVE  (s \o t)[k] = u[k]
  <2>1. CASE k <= Len(s)
    BY <1>1, <2>1
  <2>2. CASE ~(k <= Len(s))
    <3>1. PICK x \in 1..Len(t) : k = Len(s) + x
      <4>1. k - Len(s) \in 1..Len(t) /\ k = Len(s) + (k - Len(s))
        BY <1>1, <2>2
      <4> QED BY <4>1
    <3> QED BY <1>1, <3>1
  <2> QED BY <2>1, <2>2
<1> QED BY <1>1, <1>2, SameSequence

LEMMA PiecesMeet ==
  ASSUME NEW s \in Seq(Nat), NEW i \in Nat, NEW j \in Nat, NEW k \in Nat,
         i <= j, j <= k, k <= Len(s)
  PROVE  Piece(s, i, j) \o Piece(s, j, k) = Piece(s, i, k)
<1> DEFINE a == Piece(s, i, j)
           b == Piece(s, j, k)
           d == Piece(s, i, k)
<1>1. Len(s) \in Nat /\ j <= Len(s) /\ i <= k
  OBVIOUS
<1>2. /\ a \in Seq(Nat) /\ Len(a) = j - i
      /\ \A x \in 1..j - i : a[x] = s[i + x]
  BY <1>1, PieceIs
<1>3. /\ b \in Seq(Nat) /\ Len(b) = k - j
      /\ \A x \in 1..k - j : b[x] = s[j + x]
  BY <1>1, PieceIs
<1>4. /\ d \in Seq(Nat) /\ Len(d) = k - i
      /\ \A x \in 1..k - i : d[x] = s[i + x]
  BY <1>1, PieceIs
<1> HIDE DEF a, b, d
<1>5. Len(d) = Len(a) + Len(b)
  BY <1>2, <1>3, <1>4
<1>6. \A x \in 1..Len(a) : d[x] = a[x]
  <2>1. \A x \in 1..j - i : x \in 1..k - i
    OBVIOUS
  <2> QED BY <1>2, <1>4, <2>1
<1>7. \A x \in 1..Len(b) : d[Len(a) + x] = b[x]
  <2> SUFFICES ASSUME NEW x \in 1..Len(b) PROVE d[Len(a) + x] = b[x]
    OBVIOUS
  <2>1. /\ j - i + x \in 1..k - i /\ i + (j - i + x) = j + x
        /\ x \in 1..k - j /\ Len(a) + x = j - i + x
    BY <1>2, <1>3
  <2> QED BY <1>3, <1>4, <2>1
<1>8. a \o b = d
  BY ONLY <1>2, <1>3, <1>4, <1>5, <1>6, <1>7, JoinedIs
<1> QED BY <1>8 DEF a, b, d

LEMMA PieceOfPiece ==
  ASSUME NEW s \in Seq(Nat), NEW i \in Nat, NEW j \in Nat,
         i <= j, j <= Len(s),
         NEW a \in Nat, NEW b \in Nat, a <= b, b <= j - i
  PROVE  Piece(Piece(s, i, j), a, b) = Piece(s, i + a, i + b)
<1> DEFINE p == Piece(s, i, j)
           q == Piece(p, a, b)
           r == Piece(s, i + a, i + b)
<1>1. /\ p \in Seq(Nat) /\ Len(p) = j - i
      /\ \A x \in 1..j - i : p[x] = s[i + x]
  BY PieceIs
<1> HIDE DEF p
<1>2. /\ q \in Seq(Nat) /\ Len(q) = b - a
      /\ \A x \in 1..b - a : q[x] = p[a + x]
  BY <1>1, PieceIs
<1>3. /\ i + a \in Nat /\ i + b \in Nat /\ i + a <= i + b
      /\ i + b <= Len(s) /\ i + b - (i + a) = b - a
  OBVIOUS
<1>4. /\ r \in Seq(Nat) /\ Len(r) = b - a
      /\ \A x \in 1..b - a : r[x] = s[i + a + x]
  <2> DEFINE m == i + a
             n == i + b
  <2>1. m \in Nat /\ n \in Nat /\ m <= n /\ n <= Len(s) /\ n - m = b - a
    BY <1>3
  <2>2. i + a = m /\ i + b = n
    OBVIOUS
  <2> HIDE DEF m, n
  <2>3. /\ Piece(s, m, n) \in Seq(Nat) /\ Len(Piece(s, m, n)) = n - m
        /\ \A x \in 1..n - m : Piece(s, m, n)[x] = s[m + x]
    BY <2>1, PieceIs
  <2> QED BY <2>1, <2>2, <2>3
<1> HIDE DEF q, r
<1>5. \A x \in 1..b - a : a + x \in 1..j - i /\ i + (a + x) = i + a + x
  OBVIOUS
<1>6. \A x \in 1..b - a : q[x] = r[x]
  BY <1>1, <1>2, <1>4, <1>5
<1>7. q = r
  BY <1>2, <1>4, <1>6, SameSequence
<1> QED BY <1>7 DEF p, q, r

(* Audio that follows changes no piece of what went before, and prolongs   *)
(* the last.                                                               *)
LEMMA PiecesStay ==
  ASSUME NEW s \in Seq(Nat), NEW t \in Seq(Nat), NEW i \in Nat,
         i <= Len(s)
  PROVE  /\ \A j \in i..Len(s) : Piece(s \o t, i, j) = Piece(s, i, j)
         /\ Piece(s \o t, i, Len(s \o t)) = Piece(s, i, Len(s)) \o t
<1> DEFINE u == s \o t
<1>1. /\ u \in Seq(Nat) /\ Len(s) \in Nat /\ Len(t) \in Nat
      /\ Len(u) = Len(s) + Len(t)
      /\ \A k \in 1..Len(s) : u[k] = s[k]
      /\ \A k \in 1..Len(t) : u[Len(s) + k] = t[k]
  BY Concatenation
<1> HIDE DEF u
<1>2. ASSUME NEW j \in i..Len(s)
      PROVE  Piece(u, i, j) = Piece(s, i, j)
  <2>1. j \in Nat /\ i <= j /\ j <= Len(s) /\ j <= Len(u)
    BY <1>1
  <2>2. /\ Piece(s, i, j) \in Seq(Nat) /\ Len(Piece(s, i, j)) = j - i
        /\ \A k \in 1..j - i : Piece(s, i, j)[k] = s[i + k]
    BY <2>1, PieceIs
  <2>3. /\ Piece(u, i, j) \in Seq(Nat) /\ Len(Piece(u, i, j)) = j - i
        /\ \A k \in 1..j - i : Piece(u, i, j)[k] = u[i + k]
    BY <1>1, <2>1, PieceIs
  <2>4. \A k \in 1..j - i : i + k \in 1..Len(s)
    BY <1>1, <2>1
  <2>5. \A k \in 1..j - i : Piece(u, i, j)[k] = Piece(s, i, j)[k]
    BY <1>1, <2>2, <2>3, <2>4
  <2> QED BY <2>2, <2>3, <2>5, SameSequence
<1>3. Piece(u, Len(s), Len(u)) = t
  <2>1. Len(s) <= Len(u) /\ Len(u) \in Nat /\ Len(u) - Len(s) = Len(t)
    BY <1>1
  <2>2. /\ Piece(u, Len(s), Len(u)) \in Seq(Nat)
        /\ Len(Piece(u, Len(s), Len(u))) = Len(t)
        /\ \A k \in 1..Len(t) :
             Piece(u, Len(s), Len(u))[k] = u[Len(s) + k]
    <3> DEFINE m == Len(s)
               n == Len(u)
    <3>1. /\ m \in Nat /\ n \in Nat /\ m <= n /\ n <= Len(u)
          /\ n - m = Len(t)
      BY <1>1, <2>1
    <3> HIDE DEF m, n
    <3>2. /\ Piece(u, m, n) \in Seq(Nat) /\ Len(Piece(u, m, n)) = n - m
          /\ \A k \in 1..n - m : Piece(u, m, n)[k] = u[m + k]
      BY <1>1, <3>1, PieceIs
    <3>3. /\ Piece(u, m, n) \in Seq(Nat) /\ Len(Piece(u, m, n)) = Len(t)
          /\ \A k \in 1..Len(t) : Piece(u, m, n)[k] = u[m + k]
      BY <3>1, <3>2
    <3> QED BY <3>3 DEF m, n
  <2> QED BY <1>1, <2>2, SameSequence
<1>4. Piece(u, i, Len(u)) = Piece(u, i, Len(s)) \o Piece(u, Len(s), Len(u))
  <2>1. Len(s) <= Len(u) /\ Len(u) \in Nat /\ Len(u) <= Len(u)
    BY <1>1
  <2> QED BY <1>1, <2>1, PiecesMeet
<1>5. Len(s) \in i..Len(s)
  BY <1>1
<1> QED BY <1>2, <1>3, <1>4, <1>5 DEF u

(* FlattenSeq is what its recursion comes to. *)
LEMMA FlattenIs ==
  ASSUME NEW ss, Len(ss) \in Nat \ {0}, NEW f,
         f = [i \in 1..Len(ss) |->
                IF i = 1 THEN ss[i] ELSE f[i - 1] \o ss[i]]
  PROVE  FlattenSeq(ss) = f[Len(ss)]
<1> DEFINE L == Len(ss)
           Rec(g) == g = [i \in 1..L |->
                            IF i = 1 THEN ss[i] ELSE g[i - 1] \o ss[i]]
           h == CHOOSE g : Rec(g)
           T == {n \in Nat : n \in 1..L => h[n] = f[n]}
<1>1. Rec(f)
  OBVIOUS
<1>2. Rec(h)
  <2> HIDE DEF Rec
  <2> QED BY <1>1
<1>3. FlattenSeq(ss) = h[L]
  BY DEF FlattenSeq
<1> HIDE DEF h
<1>4. \A n \in 1..L : /\ h[n] = IF n = 1 THEN ss[n] ELSE h[n - 1] \o ss[n]
                      /\ f[n] = IF n = 1 THEN ss[n] ELSE f[n - 1] \o ss[n]
  BY <1>1, <1>2
<1>5. L \in Nat \ {0}
  OBVIOUS
<1> HIDE DEF L, Rec
<1>6. 0 \in T
  BY <1>5
<1>7. ASSUME NEW n \in Nat, n \in T PROVE n + 1 \in T
  <2> SUFFICES ASSUME n + 1 \in 1..L PROVE h[n + 1] = f[n + 1]
    OBVIOUS
  <2> DEFINE m == n + 1
  <2>3. m - 1 = n /\ (n = 0 => m = 1) /\ (n # 0 => m # 1) /\ m \in 1..L
    OBVIOUS
  <2> HIDE DEF m
  <2>4. /\ h[m] = IF m = 1 THEN ss[m] ELSE h[m - 1] \o ss[m]
        /\ f[m] = IF m = 1 THEN ss[m] ELSE f[m - 1] \o ss[m]
    BY <1>4, <2>3
  <2>5. h[m] = f[m] => h[n + 1] = f[n + 1]
    BY DEF m
  <2>1. CASE n = 0
    BY <2>1, <2>3, <2>4, <2>5
  <2>2. CASE n # 0
    <3>1. n \in 1..L
      BY <2>2, <1>5
    <3>2. h[n] = f[n]
      BY <3>1, <1>7
    <3> QED BY <2>2, <2>3, <2>4, <2>5, <3>2
  <2> QED BY <2>1, <2>2
<1> HIDE DEF T
<1>8. Nat \subseteq T
  BY <1>6, <1>7, InductiveSet
<1>9. L \in T /\ L \in 1..L
  BY <1>8, <1>5
<1>10. h[L] = f[L]
  BY <1>9 DEF T
<1> QED BY <1>3, <1>10 DEF L

(* ss is the n pieces of s that end at G[1], G[2], ..., the first from     *)
(* G[0].                                                                   *)
Adjacent(s, ss, G, n) ==
  /\ s \in Seq(Nat) /\ n \in Nat
  /\ Len(ss) = n /\ (n = 0 => ss = <<>>)
  /\ \A i \in 0..n : G[i] \in Nat /\ G[i] <= Len(s)
  /\ \A i \in 1..n : /\ G[0] <= G[i - 1] /\ G[i - 1] <= G[i]
                     /\ ss[i] = Piece(s, G[i - 1], G[i])

(* Adjacent pieces in their order are one piece. *)
LEMMA PiecesJoin ==
  ASSUME NEW s, NEW ss, NEW G, NEW n, Adjacent(s, ss, G, n)
  PROVE  FlattenSeq(ss) = Piece(s, G[0], G[n])
<1>0. /\ s \in Seq(Nat) /\ n \in Nat
      /\ Len(ss) = n /\ (n = 0 => ss = <<>>)
      /\ \A i \in 0..n : G[i] \in Nat /\ G[i] <= Len(s)
      /\ \A i \in 1..n : /\ G[0] <= G[i - 1] /\ G[i - 1] <= G[i]
                         /\ ss[i] = Piece(s, G[i - 1], G[i])
  BY DEF Adjacent
<1>1. CASE n = 0
  <2>1. FlattenSeq(ss) = <<>>
    BY <1>0, <1>1 DEF FlattenSeq
  <2>2. G[0] \in 0..Len(s)
    BY <1>0, <1>1
  <2> QED BY <1>0, <1>1, <2>1, <2>2, PiecesOf
<1>2. CASE n # 0
  <2> DEFINE f == [i \in 1..n |-> Piece(s, G[0], G[i])]
  <2>1. ASSUME NEW i \in 1..n
        PROVE  f[i] = IF i = 1 THEN ss[i] ELSE f[i - 1] \o ss[i]
    <3>1. CASE i = 1
      BY <1>0, <3>1
    <3>2. CASE i # 1
      <4>1. i - 1 \in 1..n /\ i - 1 \in 0..n /\ i \in 0..n /\ 0 \in 0..n
        BY <1>0, <3>2
      <4>2. /\ G[0] \in Nat /\ G[i - 1] \in Nat /\ G[i] \in Nat
            /\ G[0] <= G[i - 1] /\ G[i - 1] <= G[i] /\ G[i] <= Len(s)
        BY <1>0, <4>1
      <4>3. Piece(s, G[0], G[i - 1]) \o Piece(s, G[i - 1], G[i])
              = Piece(s, G[0], G[i])
        <5>1. s \in Seq(Nat)
          BY <1>0
        <5> QED BY ONLY <4>2, <5>1, PiecesMeet
      <4> QED BY <1>0, <3>2, <4>1, <4>3
    <3> QED BY <3>1, <3>2
  <2>2. f = [i \in 1..n |-> IF i = 1 THEN ss[i] ELSE f[i - 1] \o ss[i]]
    BY <2>1
  <2>3. n \in 1..n /\ n \in Nat \ {0}
    BY <1>0, <1>2
  <2>4. f[n] = Piece(s, G[0], G[n])
    BY <2>3
  <2> HIDE DEF f
  <2>5. FlattenSeq(ss) = f[n]
    BY <1>0, <2>2, <2>3, FlattenIs
  <2> QED BY <2>4, <2>5
<1> QED BY <1>1, <1>2

-----------------------------------------------------------------------------
(* What a channel can be sent, and so the last file number it can reach. *)
Bound == MaxPackets * PacketUnits

(* What the full file `id` of channel c holds, and what follows the last.  *)
Block(c, id) == Piece(taken[c], id * Threshold, (id + 1) * Threshold)

Trailing(c) == Piece(taken[c], segments[c] * Threshold, Len(taken[c]))

FullName(c, id) == [channel |-> c, id |-> id, end |-> FALSE]

EndName(c, id) == [channel |-> c, id |-> id, end |-> TRUE]

Audio(n) ==
  IF files[n].kind = "wav" /\ files[n].boot = boot THEN files[n].audio
  ELSE <<>>

(* Whether the files at hand are of channel c, and full. *)
Cut(c) == /\ written # <<>>
          /\ Head(written).name.channel = c
          /\ ~Head(written).name.end

(* Whether the file at hand is the last of channel c. *)
Ending(c) == /\ written # <<>>
             /\ Head(written).name.channel = c
             /\ Head(written).name.end

(* How many full files of channel c are on disk. *)
Stored(c) == IF Cut(c) THEN segments[c] - Len(written) ELSE segments[c]

-----------------------------------------------------------------------------
(* The invariant                                                           *)

Contents ==
  {Absent, Torn} \cup [kind : {"wav"}, audio : Seq(Nat), boot : Nat]

DumpTypeOK ==
  /\ queue \in Seq([channel : Channels, samples : Seq(Nat)])
  /\ sent \in [Channels -> 0..MaxPackets]
  /\ flushing \subseteq Channels
  /\ buffers \in [Channels -> Seq(Nat)] /\ taken \in [Channels -> Seq(Nat)]
  /\ segments \in [Channels -> Nat]
  /\ written \in Seq([name : Names, audio : Seq(Nat)])
  /\ files \in [Names -> Contents] /\ durable \in [Names -> Contents]
  /\ boot \in Nat

(* Packets of one channel follow one another, none after the last sent. *)
QueueFits ==
  /\ \A c \in Channels : Len(taken[c]) <= sent[c] * PacketUnits
  /\ \A i \in 1..Len(queue) :
       LET c == queue[i].channel
           last == queue[i].samples[PacketUnits]
       IN  /\ Len(queue[i].samples) = PacketUnits
           /\ last <= sent[c] * PacketUnits
           /\ Len(taken[c]) + PacketUnits <= last
           /\ \A j \in 1..Len(queue) :
                i < j /\ queue[j].channel = c =>
                  last + PacketUnits <= queue[j].samples[PacketUnits]

(* What a boot wrote does not pass for what a later one wrote. *)
OfThisBoot ==
  \A n \in Names :
    /\ files[n].kind = "wav" => files[n].boot <= boot
    /\ durable[n].kind = "wav" => durable[n].boot <= boot

(* The thread before stop(): nothing is flushed. *)
Recording == pc \in {"check", "get"} \/ \E c \in Channels : Cut(c)

Phases ==
  /\ pc \in {"check", "get", "write", "flush", "done", "dead"}
  /\ pc \in {"check", "get", "flush", "done"} => written = <<>>
  /\ pc = "write" => written # <<>>
  /\ Recording => flushing = {}
  /\ pc = "done" => flushing = {}
  /\ ~Recording /\ pc # "dead" =>
       \A c \in Channels \ flushing : buffers[c] = <<>>

(* The files at hand are the next ones of their channel. *)
AtHand ==
  \A c \in Channels :
    /\ segments[c] * Threshold <= Len(taken[c])
    /\ Cut(c) =>
         /\ Len(written) <= segments[c]
         /\ \A i \in 1..Len(written) :
              /\ written[i].name = FullName(c, Stored(c) + i - 1)
              /\ written[i].audio = Block(c, Stored(c) + i - 1)
    /\ Ending(c) =>
         /\ Len(written) = 1
         /\ written[1].name = EndName(c, segments[c])
         /\ written[1].audio = Trailing(c)

FullFilesKept ==
  \A c \in Channels, id \in 0..Bound :
    Audio(FullName(c, id)) = IF id < Stored(c) THEN Block(c, id) ELSE <<>>

(* What follows the last full file is in one place. *)
TrailingKept ==
  \A c \in Channels :
    \/ /\ buffers[c] = Trailing(c) /\ ~Ending(c)
       /\ \A id \in 0..Bound : Audio(EndName(c, id)) = <<>>
    \/ /\ buffers[c] = <<>> /\ Ending(c) /\ ~Recording
       /\ \A id \in 0..Bound : Audio(EndName(c, id)) = <<>>
    \/ /\ buffers[c] = <<>> /\ ~Ending(c) /\ ~Recording
       /\ \A id \in 0..Bound :
            Audio(EndName(c, id))
              = IF id = segments[c] THEN Trailing(c) ELSE <<>>

DumpInv ==
  /\ DumpTypeOK /\ QueueFits /\ OfThisBoot /\ Phases
  /\ AtHand /\ FullFilesKept /\ TrailingKept


-----------------------------------------------------------------------------
(* What the invariant gives                                                *)

LEMMA SizesAre ==
  /\ PacketUnits \in Nat /\ PacketUnits # 0
  /\ Threshold \in Nat /\ Threshold # 0
  /\ MaxPackets \in Nat /\ Bound \in Nat
BY SizesAssumption, BoundsAssumption, Times DEF Bound

(* Every file number is one of Names, and every block lies in the audio.   *)
LEMMA NumbersFit ==
  ASSUME DumpTypeOK, QueueFits, AtHand, NEW c \in Channels
  PROVE  /\ taken[c] \in Seq(Nat) /\ Len(taken[c]) \in Nat
         /\ segments[c] \in 0..Bound
         /\ segments[c] * Threshold \in Nat
         /\ segments[c] * Threshold <= Len(taken[c])
         /\ Len(taken[c]) <= Bound
<1>1. /\ taken[c] \in Seq(Nat) /\ Len(taken[c]) \in Nat
      /\ segments[c] \in Nat /\ sent[c] \in Nat /\ sent[c] <= MaxPackets
  BY DEF DumpTypeOK
<1>2. /\ segments[c] * Threshold \in Nat
      /\ segments[c] <= segments[c] * Threshold
  BY <1>1, SizesAre, Times
<1>3. segments[c] * Threshold <= Len(taken[c])
  BY DEF AtHand
<1>4. Len(taken[c]) <= sent[c] * PacketUnits
  BY DEF QueueFits
<1>5. sent[c] * PacketUnits \in Nat /\ sent[c] * PacketUnits <= Bound
  BY <1>1, SizesAre, Times DEF Bound
<1>6. Len(taken[c]) <= Bound
  BY ONLY <1>1, <1>4, <1>5, SizesAre
<1>7. segments[c] <= Bound
  BY ONLY <1>1, <1>2, <1>3, <1>6, SizesAre
<1> QED BY <1>1, <1>2, <1>3, <1>6, <1>7

LEMMA NamesAre ==
  /\ \A c \in Channels, id \in 0..Bound :
       FullName(c, id) \in Names /\ EndName(c, id) \in Names
  /\ \A c, d, id, jd :
       /\ FullName(c, id) = FullName(d, jd) <=> c = d /\ id = jd
       /\ EndName(c, id) = EndName(d, jd) <=> c = d /\ id = jd
       /\ FullName(c, id) # EndName(d, jd)
BY DEF FullName, EndName, Names, Bound

(* The files at hand are of one channel, and of one kind. *)
LEMMA OneAtHand ==
  ASSUME NEW c \in Channels, Cut(c) \/ Ending(c)
  PROVE  /\ \A d \in Channels \ {c} : ~Cut(d) /\ ~Ending(d)
         /\ ~(Cut(c) /\ Ending(c))
         /\ written # <<>>
BY DEF Cut, Ending

LEMMA NoneAtHand ==
  ASSUME written = <<>>
  PROVE  \A c : ~Cut(c) /\ ~Ending(c) /\ Stored(c) = segments[c]
BY DEF Cut, Ending, Stored

LEMMA HeadTailIs ==
  ASSUME NEW S, NEW s \in Seq(S), s # <<>>
  PROVE  /\ Head(s) = s[1] /\ Head(s) \in S /\ s[1] \in S
         /\ Len(s) \in Nat \ {0}
         /\ Tail(s) \in Seq(S) /\ Len(Tail(s)) = Len(s) - 1
         /\ \A i \in 1..Len(Tail(s)) :
              i + 1 \in 1..Len(s) /\ Tail(s)[i] = s[i + 1]
         /\ Tail(s) = <<>> <=> Len(s) = 1
<1>1. /\ Head(s) = s[1] /\ s[1] \in S /\ Len(s) \in Nat \ {0}
  OBVIOUS
<1>2. /\ Tail(s) \in Seq(S) /\ Len(Tail(s)) = Len(s) - 1
      /\ \A i \in 1..Len(Tail(s)) : Tail(s)[i] = s[i + 1]
  BY HeadTailProperties
<1>3. \A i \in 1..Len(Tail(s)) : i + 1 \in 1..Len(s)
  BY <1>1, <1>2
<1>4. Tail(s) = <<>> <=> Len(Tail(s)) = 0
  BY <1>2, EmptySeq
<1>5. Len(Tail(s)) = 0 <=> Len(s) = 1
  <2>1. Len(s) \in Nat /\ Len(Tail(s)) = Len(s) - 1
    BY <1>1, <1>2
  <2> QED BY ONLY <2>1
<1> QED BY <1>1, <1>2, <1>3, <1>4, <1>5

LEMMA AppendIs ==
  ASSUME NEW S, NEW s \in Seq(S), NEW e \in S
  PROVE  /\ Append(s, e) \in Seq(S)
         /\ Len(s) \in Nat /\ Len(Append(s, e)) = Len(s) + 1
         /\ \A i \in 1..Len(s) : Append(s, e)[i] = s[i]
         /\ Append(s, e)[Len(s) + 1] = e
OBVIOUS

LEMMA AtHandOf ==
  ASSUME DumpTypeOK, written # <<>>
  PROVE  /\ Head(written) = written[1] /\ Len(written) \in Nat \ {0}
         /\ Head(written) \in [name : Names, audio : Seq(Nat)]
         /\ \E c \in Channels : Cut(c) \/ Ending(c)
<1>1. written \in Seq([name : Names, audio : Seq(Nat)])
  BY DEF DumpTypeOK
<1>2. /\ Head(written) = written[1] /\ Len(written) \in Nat \ {0}
      /\ written[1] \in [name : Names, audio : Seq(Nat)]
  BY <1>1, HeadTailIs
<1>3. written[1].name.channel \in Channels
  BY <1>2 DEF Names
<1> QED BY <1>2, <1>3 DEF Cut, Ending

-----------------------------------------------------------------------------
(* What the steps share                                                    *)

(* Steps that leave the recording alone. *)
recording == <<buffers, segments, written, taken, files, boot>>

LEMMA RecordingUntouched ==
  ASSUME UNCHANGED recording
  PROVE  /\ \A c : /\ Cut(c)' <=> Cut(c)
                   /\ Ending(c)' <=> Ending(c)
                   /\ Stored(c)' = Stored(c)
                   /\ Trailing(c)' = Trailing(c)
         /\ \A c, id : Block(c, id)' = Block(c, id)
         /\ \A n : Audio(n)' = Audio(n)
BY DEF recording, Cut, Ending, Stored, Trailing, Block, Audio

(* They keep where the audio is, as long as no flush is undone. *)
LEMMA UntouchedKeeps ==
  ASSUME UNCHANGED recording, Recording' => Recording
  PROVE  /\ AtHand => AtHand'
         /\ FullFilesKept => FullFilesKept'
         /\ TrailingKept => TrailingKept'
<1>1. /\ \A c : /\ Cut(c)' <=> Cut(c)
                /\ Ending(c)' <=> Ending(c)
                /\ Stored(c)' = Stored(c)
                /\ Trailing(c)' = Trailing(c)
      /\ \A c, id : Block(c, id)' = Block(c, id)
      /\ \A n : Audio(n)' = Audio(n)
  BY RecordingUntouched
<1>2. /\ buffers' = buffers /\ segments' = segments /\ written' = written
      /\ taken' = taken
  BY DEF recording
<1>3. AtHand => AtHand'
  BY <1>1, <1>2 DEF AtHand
<1>4. FullFilesKept => FullFilesKept'
  BY <1>1 DEF FullFilesKept
<1>5. TrailingKept => TrailingKept'
  BY <1>1, <1>2 DEF TrailingKept
<1> QED BY <1>3, <1>4, <1>5

(* The directories stay. *)
LEMMA DirectoriesStay ==
  ASSUME UNCHANGED <<files, durable, boot>>
  PROVE  OfThisBoot => OfThisBoot'
BY DEF OfThisBoot

-----------------------------------------------------------------------------
(* The queue                                                               *)

Packets == [channel : Channels, samples : Seq(Nat)]

LEMMA PacketIs ==
  ASSUME NEW c \in Channels, NEW n \in Nat \ {0}
  PROVE  /\ Packet(c, n) \in Packets /\ Packet(c, n).channel = c
         /\ Len(Packet(c, n).samples) = PacketUnits
         /\ Packet(c, n).samples[PacketUnits] = n * PacketUnits
<1> DEFINE b == (n - 1) * PacketUnits
<1>1. b \in Nat /\ b + PacketUnits = n * PacketUnits
  <2>1. n - 1 \in Nat /\ n - 1 + 1 = n
    OBVIOUS
  <2> QED BY <2>1, SizesAre, Times
<1>2. Packet(c, n)
        = [channel |-> c, samples |-> [i \in 1..PacketUnits |-> b + i]]
  BY DEF Packet
<1> HIDE DEF b
<1>3. \A i \in 1..PacketUnits : b + i \in Nat
  BY <1>1, SizesAre
<1>4. PacketUnits \in 1..PacketUnits
  BY SizesAre
<1>5. /\ [i \in 1..PacketUnits |-> b + i] \in Seq(Nat)
      /\ Len([i \in 1..PacketUnits |-> b + i]) = PacketUnits
      /\ [i \in 1..PacketUnits |-> b + i][PacketUnits] = n * PacketUnits
  BY <1>1, <1>3, <1>4, SizesAre
<1>6. /\ Packet(c, n).channel = c
      /\ Packet(c, n).samples = [i \in 1..PacketUnits |-> b + i]
      /\ Packet(c, n) \in Packets
  BY <1>2, <1>5 DEF Packets
<1> QED BY <1>5, <1>6

LEMMA CopyFits ==
  ASSUME DumpTypeOK, QueueFits, NEW c \in Channels, Copy(c)
  PROVE  queue' \in Seq(Packets) /\ sent' \in [Channels -> 0..MaxPackets]
         /\ QueueFits'
<1> DEFINE n == sent[c] + 1
           e == Packet(c, n)
<1>1. /\ queue \in Seq(Packets) /\ sent \in [Channels -> 0..MaxPackets]
      /\ taken' = taken /\ taken \in [Channels -> Seq(Nat)]
      /\ sent[c] < MaxPackets /\ sent' = [sent EXCEPT ![c] = @ + 1]
  BY DEF DumpTypeOK, Copy, Packets, worker
<1>2. /\ sent[c] \in Nat /\ n \in Nat \ {0} /\ n \in 0..MaxPackets
      /\ sent'[c] = n
  BY <1>1, SizesAre
<1>3. sent' \in [Channels -> 0..MaxPackets]
  BY <1>1, <1>2
<1>4. queue' = queue \/ queue' = Append(queue, e)
  BY <1>2 DEF Copy
<1>5. /\ e \in Packets /\ e.channel = c
      /\ Len(e.samples) = PacketUnits
      /\ e.samples[PacketUnits] = n * PacketUnits
  BY <1>2, PacketIs
<1>6. /\ n * PacketUnits = sent[c] * PacketUnits + PacketUnits
      /\ sent[c] * PacketUnits \in Nat /\ n * PacketUnits \in Nat
  BY <1>2, SizesAre, Times
<1> HIDE DEF n, e
<1>7. ASSUME NEW d \in Channels
      PROVE  /\ sent[d] * PacketUnits \in Nat /\ sent'[d] * PacketUnits \in Nat
             /\ sent[d] * PacketUnits <= sent'[d] * PacketUnits
  <2>1. sent[d] \in Nat /\ sent'[d] \in Nat /\ sent[d] <= sent'[d]
    BY <1>1, <1>3
  <2> QED BY <2>1, SizesAre, Times
<1>8. \A d \in Channels : Len(taken[d]) \in Nat
  BY <1>1
<1>9. /\ queue' \in Seq(Packets) /\ Len(queue) \in Nat
      /\ \A i \in 1..Len(queue) : queue[i] \in Packets /\ queue'[i] = queue[i]
      /\ Len(queue') \in {Len(queue), Len(queue) + 1}
      /\ Len(queue') = Len(queue) + 1 => queue'[Len(queue) + 1] = e
  <2>1. /\ Append(queue, e) \in Seq(Packets)
        /\ Len(queue) \in Nat /\ Len(Append(queue, e)) = Len(queue) + 1
        /\ \A i \in 1..Len(queue) : Append(queue, e)[i] = queue[i]
        /\ Append(queue, e)[Len(queue) + 1] = e
    BY <1>1, <1>5, AppendIs
  <2>2. \A i \in 1..Len(queue) : queue[i] \in Packets
    BY <1>1
  <2>3. CASE queue' = queue
    <3>1. Len(queue') # Len(queue) + 1
      BY <2>1, <2>3
    <3> QED BY <1>1, <2>1, <2>2, <2>3, <3>1
  <2>4. CASE queue' = Append(queue, e)
    BY <2>1, <2>2, <2>4
  <2> QED BY <1>4, <2>3, <2>4
<1>10. ASSUME NEW i \in 1..Len(queue')
       PROVE  i \in 1..Len(queue) \/ (i = Len(queue) + 1 /\ queue'[i] = e)
  BY <1>9
<1>11. ASSUME NEW i \in 1..Len(queue)
       PROVE  /\ queue[i].channel \in Channels
              /\ queue[i].samples[PacketUnits] \in Nat
              /\ Len(queue[i].samples) = PacketUnits
              /\ queue[i].samples[PacketUnits]
                   <= sent[queue[i].channel] * PacketUnits
              /\ Len(taken[queue[i].channel]) + PacketUnits
                   <= queue[i].samples[PacketUnits]
  <2>1. queue[i].samples \in Seq(Nat) /\ queue[i].channel \in Channels
    BY <1>9 DEF Packets
  <2>2. Len(queue[i].samples) = PacketUnits
    BY DEF QueueFits
  <2>3. queue[i].samples[PacketUnits] \in Nat
    BY <2>1, <2>2, SizesAre
  <2> QED BY <2>1, <2>2, <2>3 DEF QueueFits
<1>12. \A d \in Channels : Len(taken'[d]) <= sent'[d] * PacketUnits
  BY <1>1, <1>7, <1>8 DEF QueueFits
<1>13. ASSUME NEW i \in 1..Len(queue')
       PROVE  /\ Len(queue'[i].samples) = PacketUnits
              /\ queue'[i].samples[PacketUnits]
                   <= sent'[queue'[i].channel] * PacketUnits
              /\ Len(taken'[queue'[i].channel]) + PacketUnits
                   <= queue'[i].samples[PacketUnits]
  <2>1. CASE i \in 1..Len(queue)
    <3>1. /\ queue'[i] = queue[i] /\ queue[i].channel \in Channels
      BY <1>9, <1>11, <2>1
    <3>2. /\ queue[i].samples[PacketUnits] \in Nat
          /\ queue[i].samples[PacketUnits]
                   <= sent[queue[i].channel] * PacketUnits
          /\ sent[queue[i].channel] * PacketUnits \in Nat
          /\ sent'[queue[i].channel] * PacketUnits \in Nat
          /\ sent[queue[i].channel] * PacketUnits
               <= sent'[queue[i].channel] * PacketUnits
      BY <1>7, <1>11, <2>1, <3>1
    <3>3. queue[i].samples[PacketUnits]
                   <= sent'[queue[i].channel] * PacketUnits
      BY ONLY <3>2
    <3> QED BY <1>1, <1>11, <2>1, <3>1, <3>3
  <2>2. CASE queue'[i] = e
    <3>1. Len(taken[c]) <= sent[c] * PacketUnits /\ Len(taken[c]) \in Nat
      BY <1>8 DEF QueueFits
    <3>2. Len(taken[c]) + PacketUnits <= n * PacketUnits
      BY ONLY <3>1, <1>6, SizesAre
    <3>3. /\ sent'[queue'[i].channel] = n
          /\ taken'[queue'[i].channel] = taken[c]
          /\ Len(queue'[i].samples) = PacketUnits
          /\ queue'[i].samples[PacketUnits] = n * PacketUnits
      BY <1>1, <1>2, <1>5, <2>2
    <3>4. n * PacketUnits <= n * PacketUnits
      BY <1>6
    <3> QED BY <3>2, <3>3, <3>4
  <2> QED BY <1>10, <2>1, <2>2
<1>14. ASSUME NEW i \in 1..Len(queue'), NEW j \in 1..Len(queue'), i < j,
              queue'[j].channel = queue'[i].channel
       PROVE  queue'[i].samples[PacketUnits] + PacketUnits
                <= queue'[j].samples[PacketUnits]
  <2>1. i \in 1..Len(queue)
    BY <1>9, <1>14
  <2>2. CASE j \in 1..Len(queue)
    BY <1>9, <1>14, <2>1, <2>2 DEF QueueFits
  <2>3. CASE queue'[j] = e
    <3>1. queue[i].channel = c /\ queue'[i] = queue[i]
      BY <1>5, <1>9, <1>14, <2>1, <2>3
    <3>2. queue[i].samples[PacketUnits] \in Nat
          /\ queue[i].samples[PacketUnits] <= sent[c] * PacketUnits
      BY <1>11, <2>1, <3>1
    <3>3. queue[i].samples[PacketUnits] + PacketUnits <= n * PacketUnits
      BY ONLY <3>2, <1>6, SizesAre
    <3> QED BY <1>5, <2>3, <3>1, <3>3
  <2> QED BY <1>10, <2>2, <2>3
<1>15. QueueFits'
  BY <1>12, <1>13, <1>14 DEF QueueFits
<1> QED BY <1>3, <1>9, <1>15

LEMMA TakeFits ==
  ASSUME DumpTypeOK, QueueFits, queue # <<>>, queue' = Tail(queue),
         sent' = sent,
         taken' = [taken EXCEPT ![Head(queue).channel]
                              = @ \o Head(queue).samples]
  PROVE  /\ queue' \in Seq(Packets) /\ Head(queue) \in Packets
         /\ taken' \in [Channels -> Seq(Nat)]
         /\ QueueFits'
<1> DEFINE c == Head(queue).channel
           t == Head(queue).samples
           L(i) == queue[i].samples[PacketUnits]
<1>1. /\ queue \in Seq(Packets) /\ sent \in [Channels -> 0..MaxPackets]
      /\ taken \in [Channels -> Seq(Nat)]
  BY DEF DumpTypeOK, Packets
<1>2. /\ Head(queue) = queue[1] /\ Head(queue) \in Packets
      /\ Len(queue) \in Nat \ {0}
      /\ queue' \in Seq(Packets) /\ Len(queue') = Len(queue) - 1
      /\ \A i \in 1..Len(queue') :
           i + 1 \in 1..Len(queue) /\ queue'[i] = queue[i + 1]
  BY <1>1, HeadTailIs
<1>3. c \in Channels /\ t \in Seq(Nat) /\ c = queue[1].channel
  BY <1>2 DEF Packets
<1>4. taken[c] \o t \in Seq(Nat) /\ Len(taken[c] \o t) = Len(taken[c]) + Len(t)
  BY <1>1, <1>3, Concatenation
<1>5. /\ taken' = [taken EXCEPT ![c] = taken[c] \o t]
      /\ taken' \in [Channels -> Seq(Nat)]
  BY <1>1, <1>3, <1>4
<1>6. 1 \in 1..Len(queue)
  BY <1>2
<1>7. /\ Len(t) = PacketUnits
      /\ Len(taken[c]) + PacketUnits <= L(1)
      /\ L(1) <= sent[c] * PacketUnits
  BY <1>2, <1>6 DEF QueueFits
<1>8. \A d \in Channels :
        /\ taken'[d] = IF d = c THEN taken[c] \o t ELSE taken[d]
        /\ Len(taken[d]) \in Nat /\ sent[d] * PacketUnits \in Nat
  <2>1. \A d \in Channels : Len(taken[d]) \in Nat /\ sent[d] \in Nat
    BY <1>1
  <2>2. \A d \in Channels : sent[d] * PacketUnits \in Nat
    BY <2>1, SizesAre, Times
  <2> QED BY <1>1, <1>5, <2>1, <2>2
<1>9. \A i \in 1..Len(queue) : L(i) \in Nat
  <2> SUFFICES ASSUME NEW i \in 1..Len(queue) PROVE L(i) \in Nat
    OBVIOUS
  <2>1. queue[i].samples \in Seq(Nat) /\ Len(queue[i].samples) = PacketUnits
    <3>1. queue[i] \in Packets
      BY <1>1
    <3> QED BY <3>1 DEF QueueFits, Packets
  <2> QED BY <2>1, SizesAre
<1>10. \A i, j \in 1..Len(queue) :
         i < j /\ queue[j].channel = queue[i].channel
           => L(i) + PacketUnits <= L(j)
  BY DEF QueueFits
<1>11. \A i \in 1..Len(queue) :
         /\ queue[i].channel \in Channels
         /\ Len(queue[i].samples) = PacketUnits
         /\ L(i) <= sent[queue[i].channel] * PacketUnits
         /\ Len(taken[queue[i].channel]) + PacketUnits <= L(i)
  <2>1. \A i \in 1..Len(queue) : queue[i] \in Packets
    BY <1>1
  <2> QED BY <2>1 DEF QueueFits, Packets
<1>12. \A d \in Channels : Len(taken[d]) <= sent[d] * PacketUnits
  BY DEF QueueFits
<1> HIDE DEF c, t, L
<1>13. ASSUME NEW d \in Channels
       PROVE  Len(taken'[d]) <= sent'[d] * PacketUnits
  <2>1. CASE d = c
    <3>1. /\ Len(taken'[d]) = Len(taken[c]) + PacketUnits
          /\ Len(taken[c]) + PacketUnits <= sent[c] * PacketUnits
      <4>1. Len(taken'[d]) = Len(taken[c]) + PacketUnits
        BY <1>3, <1>4, <1>7, <1>8, <2>1
      <4>2. /\ Len(taken[c]) \in Nat /\ L(1) \in Nat
            /\ sent[c] * PacketUnits \in Nat
        BY <1>3, <1>6, <1>8, <1>9
      <4>3. Len(taken[c]) + PacketUnits <= sent[c] * PacketUnits
        BY ONLY <1>7, <4>2, SizesAre
      <4> QED BY <4>1, <4>3
    <3> QED BY <2>1, <3>1
  <2>2. CASE d # c
    BY <1>8, <1>12, <2>2
  <2> QED BY <2>1, <2>2
<1>14. ASSUME NEW i \in 1..Len(queue')
       PROVE  Len(taken'[queue'[i].channel]) + PacketUnits <= L(i + 1)
  <2>1. /\ i + 1 \in 1..Len(queue) /\ queue'[i] = queue[i + 1] /\ 1 < i + 1
        /\ queue[i + 1].channel \in Channels
        /\ Len(taken[queue[i + 1].channel]) + PacketUnits <= L(i + 1)
    BY <1>2, <1>11
  <2>2. CASE queue[i + 1].channel = c
    <3>1. L(1) + PacketUnits <= L(i + 1)
      BY <1>3, <1>6, <1>10, <2>1, <2>2
    <3>2. Len(taken[c]) \in Nat /\ L(1) \in Nat /\ L(i + 1) \in Nat
      BY <1>3, <1>6, <1>8, <1>9, <2>1
    <3>3. Len(taken[c]) + PacketUnits + PacketUnits <= L(i + 1)
      BY ONLY <3>1, <3>2, <1>7, SizesAre
    <3> QED BY <1>3, <1>4, <1>7, <1>8, <2>1, <2>2, <3>3
  <2>3. CASE queue[i + 1].channel # c
    BY <1>8, <2>1, <2>3
  <2> QED BY <2>2, <2>3
<1>15. ASSUME NEW i \in 1..Len(queue'), NEW j \in 1..Len(queue'), i < j,
              queue'[j].channel = queue'[i].channel
       PROVE  L(i + 1) + PacketUnits <= L(j + 1)
  <2>1. /\ i + 1 \in 1..Len(queue) /\ queue'[i] = queue[i + 1]
        /\ j + 1 \in 1..Len(queue) /\ queue'[j] = queue[j + 1]
        /\ i + 1 < j + 1
    BY <1>2, <1>15
  <2> QED BY <1>10, <1>15, <2>1
<1>16. \A i \in 1..Len(queue') :
         /\ queue'[i].samples[PacketUnits] = L(i + 1)
         /\ Len(queue'[i].samples) = PacketUnits
         /\ L(i + 1) <= sent'[queue'[i].channel] * PacketUnits
  <2>1. \A i \in 1..Len(queue) : L(i) = queue[i].samples[PacketUnits]
    BY DEF L
  <2> QED BY <1>2, <1>11, <2>1
<1>17. QueueFits'
  BY <1>13, <1>14, <1>15, <1>16 DEF QueueFits
<1> QED BY <1>2, <1>5, <1>17

-----------------------------------------------------------------------------
(* The start, and a boot                                                   *)

(* What a thread that has taken nothing yet has to say for itself. *)
Fresh ==
  /\ queue = <<>> /\ sent = [c \in Channels |-> 0]
  /\ pc = "check" /\ flushing = {} /\ written = <<>>
  /\ buffers = [c \in Channels |-> <<>>]
  /\ segments = [c \in Channels |-> 0]
  /\ taken = [c \in Channels |-> <<>>]

LEMMA FreshIs ==
  ASSUME Fresh, files \in [Names -> Contents], durable \in [Names -> Contents],
         boot \in Nat,
         \A n \in Names : files[n].kind = "wav" => files[n].boot # boot
  PROVE  /\ DumpTypeOK /\ QueueFits /\ Phases
         /\ AtHand /\ FullFilesKept /\ TrailingKept
<1> USE DEF Fresh
<1>1. DumpTypeOK
  <2>1. <<>> \in Seq(Nat)
    OBVIOUS
  <2>2. /\ queue \in Seq([channel : Channels, samples : Seq(Nat)])
        /\ written \in Seq([name : Names, audio : Seq(Nat)])
    OBVIOUS
  <2>3. 0 \in 0..MaxPackets
    BY SizesAre
  <2> QED BY <2>1, <2>2, <2>3 DEF DumpTypeOK
<1>2. QueueFits
  <2>1. Len(queue) = 0 /\ 1..0 = {}
    OBVIOUS
  <2>2. 0 * PacketUnits = 0
    BY SizesAre
  <2> QED BY <2>1, <2>2 DEF QueueFits
<1>3. \A c : ~Cut(c) /\ ~Ending(c) /\ Stored(c) = segments[c]
  BY NoneAtHand
<1>4. Phases
  BY <1>3 DEF Phases, Recording
<1>5. \A c \in Channels :
        segments[c] = 0 /\ buffers[c] = <<>> /\ taken[c] = <<>>
  OBVIOUS
<1>6. 0 * Threshold = 0 /\ Len(<<>>) = 0 /\ <<>> \in Seq(Nat)
      /\ 0 \in 0..Len(<<>>)
  BY SizesAre
<1>7. \A c \in Channels : Trailing(c) = <<>>
  BY <1>5, <1>6, PiecesOf DEF Trailing
<1>8. \A n \in Names : Audio(n) = <<>>
  BY DEF Audio
<1>9. AtHand
  BY <1>3, <1>5, <1>6 DEF AtHand
<1>10. \A id \in 0..Bound : ~(id < 0)
  BY SizesAre
<1>11. FullFilesKept
  BY <1>3, <1>5, <1>8, <1>10, NamesAre DEF FullFilesKept
<1>12. TrailingKept
  BY <1>3, <1>5, <1>7, <1>8, NamesAre DEF TrailingKept
<1> QED BY <1>1, <1>2, <1>4, <1>9, <1>11, <1>12

LEMMA FreshGives ==
  (/\ Fresh
   /\ files \in [Names -> Contents]
   /\ durable \in [Names -> Contents] /\ boot \in Nat
   /\ \A n \in Names : files[n].kind = "wav" => files[n].boot # boot)
  => (/\ DumpTypeOK /\ QueueFits /\ Phases
      /\ AtHand /\ FullFilesKept /\ TrailingKept)
BY FreshIs

LEMMA ContentsAre ==
  /\ Absent \in Contents /\ Torn \in Contents
  /\ Absent.kind # "wav" /\ Torn.kind # "wav" /\ Absent # Torn
  /\ \A a \in Seq(Nat), b \in Nat :
       /\ [kind |-> "wav", audio |-> a, boot |-> b] \in Contents
       /\ [kind |-> "wav", audio |-> a, boot |-> b] # Torn
<1>1. /\ Absent \in Contents /\ Torn \in Contents
      /\ Absent.kind = "absent" /\ Torn.kind = "torn"
  BY DEF Absent, Torn, Contents
<1>2. ASSUME NEW a \in Seq(Nat), NEW b \in Nat
      PROVE  /\ [kind |-> "wav", audio |-> a, boot |-> b] \in Contents
             /\ [kind |-> "wav", audio |-> a, boot |-> b] # Torn
  <2>1. [kind |-> "wav", audio |-> a, boot |-> b].kind = "wav"
    OBVIOUS
  <2> QED BY <1>1, <2>1 DEF Contents
<1>3. Absent # Torn
  BY <1>1
<1> QED BY <1>1, <1>2, <1>3

LEMMA DumpStart == Init => DumpInv
<1> SUFFICES ASSUME Init PROVE DumpInv
  OBVIOUS
<1>1. Fresh /\ boot \in Nat
  BY DEF Init, Fresh
<1>2. /\ files \in [Names -> Contents] /\ durable \in [Names -> Contents]
      /\ \A n \in Names : files[n] = Absent /\ durable[n] = Absent
  BY ContentsAre DEF Init
<1>3. \A n \in Names : files[n].kind # "wav" /\ durable[n].kind # "wav"
  BY <1>2, ContentsAre
<1>4. OfThisBoot
  BY <1>2, <1>3 DEF OfThisBoot
<1> QED BY <1>1, <1>2, <1>3, <1>4, FreshIs DEF DumpInv

LEMMA RebootKeeps ==
  ASSUME DumpInv, ProcessDies \/ PowerLoss
  PROVE  DumpInv'
<1> USE DEF DumpInv
<1>1. Fresh'
  BY DEF ProcessDies, PowerLoss, Reboot, Fresh
<1>2. boot' = boot + 1 /\ boot \in Nat /\ boot' \in Nat
  BY DEF ProcessDies, PowerLoss, Reboot, DumpTypeOK
<1>3. (files' = files \/ files' = durable) /\ durable' = durable
  BY DEF ProcessDies, PowerLoss
<1>4. files' \in [Names -> Contents] /\ durable' \in [Names -> Contents]
  BY <1>3 DEF DumpTypeOK
<1>5. \A n \in Names : /\ files'[n].kind = "wav" => files'[n].boot <= boot
                       /\ durable'[n].kind = "wav" => durable'[n].boot <= boot
  BY <1>3 DEF OfThisBoot
<1>6. \A x : x \in Contents /\ x.kind = "wav" => x.boot \in Nat
  BY ContentsAre DEF Contents
<1>7. \A x \in Nat : x <= boot => x <= boot' /\ x # boot'
  BY <1>2
<1>8. OfThisBoot'
  BY <1>4, <1>5, <1>6, <1>7 DEF OfThisBoot
<1>9. \A n \in Names : files'[n].kind = "wav" => files'[n].boot # boot'
  BY <1>4, <1>5, <1>6, <1>7
<1> DEFINE Starts == /\ Fresh
                     /\ files \in [Names -> Contents]
                     /\ durable \in [Names -> Contents] /\ boot \in Nat
                     /\ \A n \in Names :
                          files[n].kind = "wav" => files[n].boot # boot
           Kept == /\ DumpTypeOK /\ QueueFits /\ Phases
                   /\ AtHand /\ FullFilesKept /\ TrailingKept
<1>10. Starts'
  BY <1>1, <1>2, <1>4, <1>9
<1>11. Kept'
  BY <1>10, FreshGives, PTL
<1> QED BY <1>8, <1>11

-----------------------------------------------------------------------------
(* The steps between files                                                 *)

LEMMA CopyKeeps ==
  ASSUME DumpInv, NEW c \in Channels, Copy(c)
  PROVE  DumpInv'
<1> USE DEF DumpInv
<1>1. /\ queue' \in Seq(Packets) /\ sent' \in [Channels -> 0..MaxPackets]
      /\ QueueFits'
  BY CopyFits
<1>2. /\ UNCHANGED recording /\ UNCHANGED <<files, durable, boot>>
      /\ pc' = pc /\ flushing' = flushing /\ segments' = segments
      /\ buffers' = buffers /\ taken' = taken /\ written' = written
  BY DEF Copy, recording, worker
<1>3. DumpTypeOK'
  BY <1>1, <1>2 DEF DumpTypeOK, Packets
<1>4. (Recording <=> Recording') /\ \A d : Cut(d)' <=> Cut(d)
  BY <1>2, RecordingUntouched DEF Recording
<1>5. Phases'
  BY <1>2, <1>4 DEF Phases
<1>6. AtHand' /\ FullFilesKept' /\ TrailingKept' /\ OfThisBoot'
  BY <1>2, <1>4, UntouchedKeeps, DirectoriesStay
<1> QED BY <1>1, <1>3, <1>5, <1>6

(* The thread goes on, and so does whoever stops it. *)
LEMMA TurnKeeps ==
  ASSUME DumpInv,
         Stop \/ CheckStop \/ Empty \/ BeginWrite \/ EndWrite \/ WriteFails
           \/ Done
  PROVE  DumpInv'
<1> USE DEF DumpInv
<1>1. /\ UNCHANGED recording /\ UNCHANGED <<files, durable, boot>>
      /\ queue' = queue /\ sent' = sent /\ taken' = taken
      /\ buffers' = buffers /\ segments' = segments /\ written' = written
  BY DEF Stop, CheckStop, Empty, BeginWrite, EndWrite, WriteFails, Done,
     recording, worker
<1>2. /\ \/ UNCHANGED <<pc, flushing>>
         \/ pc = "check" /\ pc' = "get" /\ flushing' = flushing
         \/ pc = "check" /\ pc' = "flush" /\ flushing' = Channels
         \/ pc = "get" /\ pc' = "check" /\ flushing' = flushing
         \/ pc = "write" /\ pc' = "dead" /\ flushing' = flushing
         \/ /\ pc = "flush" /\ pc' = "done" /\ flushing = {}
            /\ flushing' = flushing
  BY DEF Stop, CheckStop, Empty, BeginWrite, EndWrite, WriteFails, Done,
     worker
<1>3. DumpTypeOK'
  BY <1>1, <1>2 DEF DumpTypeOK
<1>4. QueueFits'
  BY <1>1 DEF QueueFits
<1>5. \A c : Cut(c)' <=> Cut(c)
  BY <1>1, RecordingUntouched
<1>6. pc \in {"check", "get", "flush", "done"} => \A c : ~Cut(c)
  BY NoneAtHand DEF Phases
<1>7. Recording' => Recording
  BY <1>2, <1>5 DEF Recording
<1>8. /\ Recording' <=> (\/ pc' \in {"check", "get"}
                          \/ \E c \in Channels : Cut(c))
      /\ Recording <=> (pc \in {"check", "get"} \/ \E c \in Channels : Cut(c))
  BY <1>5 DEF Recording
<1>9. Phases'
  BY <1>1, <1>2, <1>6, <1>8 DEF Phases
<1>10. AtHand' /\ FullFilesKept' /\ TrailingKept' /\ OfThisBoot'
  BY <1>1, <1>7, UntouchedKeeps, DirectoriesStay
<1> QED BY <1>3, <1>4, <1>9, <1>10

LEMMA SettleKeeps ==
  ASSUME DumpInv, NEW n \in Names, Settle(n)
  PROVE  DumpInv'
<1> USE DEF DumpInv
<1>1. /\ UNCHANGED recording /\ files' = files /\ boot' = boot
      /\ queue' = queue /\ sent' = sent /\ taken' = taken
      /\ buffers' = buffers /\ segments' = segments /\ written' = written
      /\ pc' = pc /\ flushing' = flushing
  BY DEF Settle, recording, worker
<1>2. \/ durable' = [durable EXCEPT ![n] = files[n]]
      \/ durable' = [durable EXCEPT ![n] = Torn]
  BY DEF Settle
<1>3. files \in [Names -> Contents] /\ durable \in [Names -> Contents]
  BY DEF DumpTypeOK
<1>4. DumpTypeOK'
  <2>1. durable' \in [Names -> Contents]
    BY <1>2, <1>3, ContentsAre
  <2> QED BY <1>1, <2>1 DEF DumpTypeOK
<1>5. QueueFits'
  BY <1>1 DEF QueueFits
<1>6. (Recording <=> Recording') /\ \A d : Cut(d)' <=> Cut(d)
  BY <1>1, RecordingUntouched DEF Recording
<1>7. Phases'
  BY <1>1, <1>6 DEF Phases
<1>8. AtHand' /\ FullFilesKept' /\ TrailingKept'
  BY <1>1, <1>6, UntouchedKeeps
<1>9. \A m \in Names : \/ durable'[m] = durable[m]
                       \/ durable'[m] = files[m]
                       \/ durable'[m] = Torn
  BY <1>2, <1>3
<1>10. OfThisBoot'
  BY <1>1, <1>9, ContentsAre DEF OfThisBoot
<1> QED BY <1>4, <1>5, <1>7, <1>8, <1>10

-----------------------------------------------------------------------------
(* Cutting full files out of the buffer                                    *)

LEMMA CutIs ==
  ASSUME NEW s \in Seq(Nat), NEW t \in Seq(Nat), NEW n \in Nat,
         n * Threshold <= Len(s)
  PROVE  LET buf == Piece(s, n * Threshold, Len(s)) \o t
             u == s \o t
             m == Len(buf) \div Threshold
         IN  /\ buf \in Seq(Nat) /\ u \in Seq(Nat) /\ m \in Nat
             /\ n + m \in Nat /\ (n + m) * Threshold <= Len(u)
             /\ Piece(buf, m * Threshold, Len(buf))
                  = Piece(u, (n + m) * Threshold, Len(u))
             /\ \A k \in 1..m :
                  Piece(buf, (k - 1) * Threshold, k * Threshold)
                    = Piece(u, (n + k - 1) * Threshold,
                               (n + k - 1 + 1) * Threshold)
<1> DEFINE o == n * Threshold
           u == s \o t
           buf == Piece(s, o, Len(s)) \o t
           m == Len(buf) \div Threshold
<1>1. o \in Nat /\ o <= Len(s) /\ Len(s) \in Nat /\ Len(s) <= Len(s)
  BY SizesAre, Times
<1>2. /\ u \in Seq(Nat) /\ Len(u) = Len(s) + Len(t)
      /\ Len(t) \in Nat /\ Len(u) \in Nat
  BY <1>1, Concatenation
<1> HIDE DEF o
<1>3. /\ buf = Piece(u, o, Len(u))
      /\ o <= Len(u) /\ Len(u) <= Len(u)
  BY <1>1, <1>2, PiecesStay
<1> HIDE DEF u, buf
<1>4. buf \in Seq(Nat) /\ Len(buf) = Len(u) - o /\ Len(buf) \in Nat
  <2>1. Piece(u, o, Len(u)) \in Seq(Nat)
        /\ Len(Piece(u, o, Len(u))) = Len(u) - o
    BY ONLY <1>1, <1>2, <1>3, PieceIs
  <2> QED BY <1>1, <1>2, <1>3, <2>1
<1>5. m \in Nat /\ m * Threshold <= Len(buf)
  BY <1>4, SizesAre, Quotient
<1> HIDE DEF m
<1>6. /\ m * Threshold \in Nat
      /\ n + m \in Nat /\ (n + m) * Threshold = o + m * Threshold
  BY <1>5, SizesAre, Times DEF o
<1>7. (n + m) * Threshold <= Len(u)
  BY ONLY <1>1, <1>2, <1>4, <1>5, <1>6
<1>8. Piece(buf, m * Threshold, Len(buf))
        = Piece(u, (n + m) * Threshold, Len(u))
  <2> DEFINE a == m * Threshold
             b == Len(buf)
  <2>1. /\ a \in Nat /\ b \in Nat /\ a <= b /\ b <= Len(u) - o
        /\ o + a = (n + m) * Threshold /\ o + b = Len(u)
    BY <1>1, <1>2, <1>4, <1>5, <1>6
  <2> HIDE DEF a, b
  <2>2. Piece(buf, a, b) = Piece(u, o + a, o + b)
    <3>1. Piece(Piece(u, o, Len(u)), a, b) = Piece(u, o + a, o + b)
      BY ONLY <1>1, <1>2, <1>3, <2>1, PieceOfPiece
    <3> QED BY <1>3, <3>1
  <2>3. Piece(buf, a, b) = Piece(u, (n + m) * Threshold, Len(u))
    BY <2>1, <2>2
  <2> QED BY <2>3 DEF a, b
<1>9. ASSUME NEW k \in 1..m
      PROVE  Piece(buf, (k - 1) * Threshold, k * Threshold)
               = Piece(u, (n + k - 1) * Threshold,
                          (n + k - 1 + 1) * Threshold)
  <2> DEFINE j == k - 1
             a == j * Threshold
             b == k * Threshold
  <2>1. /\ j \in Nat /\ k \in Nat /\ k = j + 1 /\ k <= m
        /\ n + k - 1 = n + j /\ n + k - 1 + 1 = n + k
    BY <1>5
  <2> HIDE DEF j
  <2>2. /\ a \in Nat /\ b = a + Threshold /\ b \in Nat
        /\ b <= m * Threshold
        /\ (n + j) * Threshold = n * Threshold + a
        /\ (n + k) * Threshold = n * Threshold + b
    BY <1>5, <2>1, SizesAre, Times
  <2>3. o = n * Threshold
    BY DEF o
  <2> HIDE DEF a, b
  <2>4. a \in Nat /\ b \in Nat /\ a <= b /\ b <= Len(u) - o
    BY ONLY <1>1, <1>2, <1>4, <1>5, <1>6, <2>2, SizesAre
  <2>5. Piece(buf, a, b) = Piece(u, o + a, o + b)
    <3>1. Piece(Piece(u, o, Len(u)), a, b) = Piece(u, o + a, o + b)
      BY ONLY <1>1, <1>2, <1>3, <2>4, PieceOfPiece
    <3> QED BY <1>3, <3>1
  <2>6. Piece(buf, a, b) = Piece(u, (n + j) * Threshold, (n + k) * Threshold)
    BY <2>2, <2>3, <2>5
  <2> QED BY <2>1, <2>6 DEF a, b, j
<1>10. /\ buf \in Seq(Nat) /\ u \in Seq(Nat) /\ m \in Nat
       /\ n + m \in Nat /\ (n + m) * Threshold <= Len(u)
       /\ Piece(buf, m * Threshold, Len(buf))
            = Piece(u, (n + m) * Threshold, Len(u))
       /\ \A k \in 1..m :
            Piece(buf, (k - 1) * Threshold, k * Threshold)
              = Piece(u, (n + k - 1) * Threshold,
                         (n + k - 1 + 1) * Threshold)
  BY <1>2, <1>4, <1>5, <1>6, <1>7, <1>8, <1>9
<1> QED BY <1>10 DEF buf, u, m, o

(* One packet: the channel's full files are at hand, and nothing else.     *)
LEMMA TakeIs ==
  ASSUME DumpInv, Take
  PROVE  LET c == Head(queue).channel
             n == segments[c]
             m == Len(written')
         IN  /\ c \in Channels
             /\ taken' = [taken EXCEPT ![c] = taken[c] \o Head(queue).samples]
             /\ Head(queue).samples \in Seq(Nat)
             /\ m \in Nat
             /\ written' \in Seq([name : Names, audio : Seq(Nat)])
             /\ segments' = [segments EXCEPT ![c] = n + m]
             /\ n + m \in Nat /\ (n + m) * Threshold <= Len(taken'[c])
             /\ \A k \in 1..m :
                  /\ written'[k].name = FullName(c, n + k - 1)
                  /\ written'[k].audio
                       = Piece(taken'[c], (n + k - 1) * Threshold,
                                          (n + k - 1 + 1) * Threshold)
             /\ \E b \in Seq(Nat) :
                  /\ buffers' = [buffers EXCEPT ![c] = b]
                  /\ b = Piece(taken'[c], (n + m) * Threshold, Len(taken'[c]))
             /\ \/ m = 0 /\ written' = <<>> /\ pc' = "check"
                \/ m > 0 /\ written' # <<>> /\ pc' = "write"
<1> USE DEF DumpInv
<1> DEFINE c == Head(queue).channel
           t == Head(queue).samples
           s == taken[c]
           n == segments[c]
           u == s \o t
           buf == buffers[c] \o t
           m == Len(buf) \div Threshold
           full == FullFiles(c, buf, n)
<1>1. /\ queue # <<>> /\ queue' = Tail(queue) /\ sent' = sent
      /\ taken' = [taken EXCEPT ![c] = @ \o t]
      /\ written' = full
      /\ buffers' = [buffers EXCEPT ![c] = Rest(buf)]
      /\ segments' = [segments EXCEPT ![c] = @ + Len(full)]
      /\ pc' = IF full = <<>> THEN "check" ELSE "write"
      /\ pc = "get"
  BY DEF Take
<1>2. /\ Head(queue) \in Packets /\ taken' \in [Channels -> Seq(Nat)]
      /\ QueueFits'
  BY <1>1, TakeFits
<1>3. c \in Channels /\ t \in Seq(Nat)
  BY <1>2 DEF Packets
<1>4. /\ s \in Seq(Nat) /\ n \in Nat /\ n * Threshold <= Len(s)
      /\ buffers \in [Channels -> Seq(Nat)] /\ segments \in [Channels -> Nat]
      /\ taken \in [Channels -> Seq(Nat)]
      /\ sent \in [Channels -> 0..MaxPackets]
  BY <1>3 DEF DumpTypeOK, AtHand
<1>5. buffers[c] = Piece(s, n * Threshold, Len(s))
  BY <1>1, <1>3 DEF TrailingKept, Recording, Trailing
<1>6. taken'[c] = u
  BY <1>1, <1>3, <1>4
<1>7. /\ buf \in Seq(Nat) /\ u \in Seq(Nat) /\ m \in Nat
      /\ n + m \in Nat /\ (n + m) * Threshold <= Len(u)
      /\ Piece(buf, m * Threshold, Len(buf))
           = Piece(u, (n + m) * Threshold, Len(u))
      /\ \A k \in 1..m :
           Piece(buf, (k - 1) * Threshold, k * Threshold)
             = Piece(u, (n + k - 1) * Threshold,
                        (n + k - 1 + 1) * Threshold)
  <2> DEFINE bf == Piece(s, n * Threshold, Len(s)) \o t
  <2>1. buf = bf
    BY <1>5
  <2> HIDE DEF bf, buf
  <2>2. /\ bf \in Seq(Nat) /\ u \in Seq(Nat) /\ Len(bf) \div Threshold \in Nat
        /\ n + (Len(bf) \div Threshold) \in Nat
        /\ (n + (Len(bf) \div Threshold)) * Threshold <= Len(u)
        /\ Piece(bf, (Len(bf) \div Threshold) * Threshold, Len(bf))
             = Piece(u, (n + (Len(bf) \div Threshold)) * Threshold, Len(u))
        /\ \A k \in 1..Len(bf) \div Threshold :
             Piece(bf, (k - 1) * Threshold, k * Threshold)
               = Piece(u, (n + k - 1) * Threshold,
                          (n + k - 1 + 1) * Threshold)
    BY ONLY <1>3, <1>4, CutIs DEF bf
  <2> QED BY <2>1, <2>2
<1>8. full = [k \in 1..m |->
                [name |-> FullName(c, n + k - 1),
                 audio |-> Piece(buf, (k - 1) * Threshold, k * Threshold)]]
  BY DEF FullFiles, FullName, Piece
<1>9. Rest(buf) = Piece(buf, m * Threshold, Len(buf))
  BY DEF Rest, Piece
<1>10. Len(u) <= Bound /\ Len(u) \in Nat
  <2>1. Len(taken'[c]) <= sent'[c] * PacketUnits
    BY <1>2, <1>3 DEF QueueFits
  <2>2. sent[c] \in Nat /\ sent[c] <= MaxPackets
    BY <1>3, <1>4
  <2>3. sent[c] * PacketUnits \in Nat /\ sent[c] * PacketUnits <= Bound
    BY <2>2, SizesAre, Times DEF Bound
  <2> HIDE DEF u, c
  <2>4. Len(u) <= sent[c] * PacketUnits /\ Len(u) \in Nat
    <3>1. Len(u) \in Nat
      BY <1>7
    <3>2. sent' = sent
      BY <1>1
    <3> QED BY <1>6, <2>1, <3>1, <3>2
  <2> DEFINE x == sent[c] * PacketUnits
  <2>5. x \in Nat /\ x <= Bound /\ Len(u) <= x /\ Len(u) \in Nat
    BY <2>3, <2>4
  <2> HIDE DEF x
  <2> QED BY <2>5, SizesAre
<1> HIDE DEF m, buf, full, u
<1>11. n + m <= Bound
  <2>1. n + m <= (n + m) * Threshold /\ (n + m) * Threshold \in Nat
    BY <1>7, SizesAre, Times
  <2> QED BY ONLY <1>7, <1>10, <2>1, SizesAre
<1>20. n \in Nat /\ m \in Nat /\ n + m \in Nat
  BY <1>4, <1>7
<1>21. Len(u) \in Nat /\ (n + m) * Threshold <= Len(u)
  BY <1>7, <1>10
<1> HIDE DEF n
<1>12. ASSUME NEW k \in 1..m
       PROVE  /\ n + k - 1 \in Nat /\ n + k - 1 \in 0..Bound
              /\ n + k - 1 + 1 \in Nat
              /\ (n + k - 1) * Threshold \in Nat
              /\ (n + k - 1 + 1) * Threshold \in Nat
              /\ (n + k - 1) * Threshold <= (n + k - 1 + 1) * Threshold
              /\ (n + k - 1 + 1) * Threshold <= Len(u)
  <2> DEFINE j == n + k - 1
  <2>1. j \in Nat /\ j \in 0..Bound /\ j + 1 \in Nat /\ j + 1 <= n + m
    BY <1>20, <1>11, SizesAre
  <2> HIDE DEF j
  <2>2. /\ j * Threshold \in Nat /\ (j + 1) * Threshold \in Nat
        /\ j * Threshold <= (j + 1) * Threshold
        /\ (j + 1) * Threshold <= (n + m) * Threshold
        /\ (n + m) * Threshold \in Nat
    BY <1>20, <2>1, SizesAre, Times
  <2>3. (j + 1) * Threshold <= Len(u)
    BY ONLY <1>21, <2>2
  <2> QED BY <2>1, <2>2, <2>3 DEF j
<1>13. \A k \in 1..m :
         /\ full[k].name = FullName(c, n + k - 1)
         /\ full[k].audio = Piece(u, (n + k - 1) * Threshold,
                                     (n + k - 1 + 1) * Threshold)
         /\ full[k] \in [name : Names, audio : Seq(Nat)]
  <2> SUFFICES ASSUME NEW k \in 1..m
      PROVE  /\ full[k].name = FullName(c, n + k - 1)
             /\ full[k].audio = Piece(u, (n + k - 1) * Threshold,
                                         (n + k - 1 + 1) * Threshold)
             /\ full[k] \in [name : Names, audio : Seq(Nat)]
    OBVIOUS
  <2> DEFINE p == Piece(u, (n + k - 1) * Threshold,
                           (n + k - 1 + 1) * Threshold)
             f == FullName(c, n + k - 1)
  <2>1. p \in Seq(Nat)
    <3> DEFINE x == (n + k - 1) * Threshold
               y == (n + k - 1 + 1) * Threshold
    <3>1. x \in Nat /\ y \in Nat /\ x <= y /\ y <= Len(u)
      BY <1>12
    <3>2. p = Piece(u, x, y)
      OBVIOUS
    <3> HIDE DEF x, y, p
    <3> QED BY <1>7, <3>1, <3>2, PieceIs
  <2>2. f \in Names
    BY <1>3, <1>12, NamesAre
  <2>3. full[k] = [name |-> f, audio |-> p]
    BY <1>7, <1>8
  <2> HIDE DEF f, p
  <2>4. /\ full[k].name = f /\ full[k].audio = p
        /\ full[k] \in [name : Names, audio : Seq(Nat)]
    BY <2>1, <2>2, <2>3
  <2> QED BY <2>4 DEF f, p
<1>14. /\ full \in Seq([name : Names, audio : Seq(Nat)]) /\ Len(full) = m
  <2> DEFINE X == [name : Names, audio : Seq(Nat)]
             e(k) == [name |-> FullName(c, n + k - 1),
                      audio |-> Piece(buf, (k - 1) * Threshold,
                                           k * Threshold)]
  <2>2. full = [k \in 1..m |-> e(k)] /\ \A k \in 1..m : full[k] \in X
    BY <1>8, <1>13
  <2> HIDE DEF X, e
  <2>3. full \in [1..m -> X]
    BY <2>2
  <2>1. full \in [1..m -> [name : Names, audio : Seq(Nat)]]
    BY <2>3 DEF X
  <2>4. full \in Seq(X) /\ Len(full) = m
    BY <1>20, <2>3
  <2> QED BY <2>4 DEF X
<1>15. \/ m = 0 /\ full = <<>>
       \/ m > 0 /\ full # <<>>
  BY <1>7, <1>14
<1>16. /\ Piece(u, (n + m) * Threshold, Len(u)) \in Seq(Nat)
       /\ Rest(buf) = Piece(u, (n + m) * Threshold, Len(u))
  <2> DEFINE x == (n + m) * Threshold
             y == Len(u)
  <2>1. x \in Nat /\ y \in Nat /\ x <= y /\ y <= Len(u)
    BY <1>7, <1>10, SizesAre, Times
  <2> HIDE DEF x, y
  <2>2. Piece(u, x, y) \in Seq(Nat)
    BY <1>7, <2>1, PieceIs
  <2> QED BY <1>7, <1>9, <2>2 DEF x, y
<1>17. segments' = [segments EXCEPT ![c] = n + m]
  BY <1>1, <1>14 DEF n
<1>18. Len(written') = m /\ taken' = [taken EXCEPT ![c] = taken[c] \o t]
  BY <1>1, <1>14
<1> HIDE DEF c, t, n, s
<1>19. /\ c \in Channels
       /\ taken' = [taken EXCEPT ![c] = taken[c] \o t]
       /\ t \in Seq(Nat)
       /\ m \in Nat
       /\ written' \in Seq([name : Names, audio : Seq(Nat)])
       /\ segments' = [segments EXCEPT ![c] = n + m]
       /\ n + m \in Nat /\ (n + m) * Threshold <= Len(taken'[c])
       /\ \A k \in 1..m :
            /\ written'[k].name = FullName(c, n + k - 1)
            /\ written'[k].audio
                 = Piece(taken'[c], (n + k - 1) * Threshold,
                                    (n + k - 1 + 1) * Threshold)
       /\ \E b \in Seq(Nat) :
            /\ buffers' = [buffers EXCEPT ![c] = b]
            /\ b = Piece(taken'[c], (n + m) * Threshold, Len(taken'[c]))
       /\ \/ m = 0 /\ written' = <<>> /\ pc' = "check"
          \/ m > 0 /\ written' # <<>> /\ pc' = "write"
  BY <1>1, <1>3, <1>6, <1>7, <1>13, <1>14, <1>15, <1>16, <1>17, <1>18
<1> QED BY <1>18, <1>19 DEF c, t, n, s

LEMMA BlocksStay ==
  ASSUME NEW s \in Seq(Nat), NEW t \in Seq(Nat), NEW n \in Nat,
         n * Threshold <= Len(s), NEW id \in Nat, id < n
  PROVE  Piece(s \o t, id * Threshold, (id + 1) * Threshold)
           = Piece(s, id * Threshold, (id + 1) * Threshold)
<1> DEFINE x == id * Threshold
           y == (id + 1) * Threshold
<1>1. /\ x \in Nat /\ y \in Nat /\ x <= y /\ y <= n * Threshold
      /\ n * Threshold \in Nat
  <2>1. id + 1 \in Nat /\ id <= id + 1 /\ id + 1 <= n
    OBVIOUS
  <2> QED BY <2>1, SizesAre, Times
<1>2. Len(s) \in Nat
  OBVIOUS
<1> HIDE DEF x, y
<1>3. y \in x..Len(s) /\ x <= Len(s)
  BY ONLY <1>1, <1>2, n * Threshold <= Len(s)
<1>4. Piece(s \o t, x, y) = Piece(s, x, y)
  BY <1>1, <1>3, PiecesStay
<1> QED BY <1>4 DEF x, y

LEMMA TakeKeeps ==
  ASSUME DumpInv, Take, NEW c, c = Head(queue).channel
  PROVE  DumpInv'
<1> USE DEF DumpInv
<1> DEFINE t == Head(queue).samples
           n == segments[c]
           m == Len(written')
<1>1. /\ queue # <<>> /\ queue' = Tail(queue) /\ sent' = sent /\ pc = "get"
      /\ files' = files /\ durable' = durable /\ boot' = boot
      /\ flushing' = flushing
  BY DEF Take
<1>2. written = <<>> /\ Recording /\ flushing = {}
  BY <1>1 DEF Phases, Recording
<1>3. /\ c \in Channels
      /\ taken' = [taken EXCEPT ![c] = taken[c] \o t]
      /\ t \in Seq(Nat)
      /\ m \in Nat
      /\ written' \in Seq([name : Names, audio : Seq(Nat)])
      /\ segments' = [segments EXCEPT ![c] = n + m]
      /\ n + m \in Nat /\ (n + m) * Threshold <= Len(taken'[c])
      /\ \A k \in 1..m :
           /\ written'[k].name = FullName(c, n + k - 1)
           /\ written'[k].audio
                = Piece(taken'[c], (n + k - 1) * Threshold,
                                   (n + k - 1 + 1) * Threshold)
      /\ \E b \in Seq(Nat) :
           /\ buffers' = [buffers EXCEPT ![c] = b]
           /\ b = Piece(taken'[c], (n + m) * Threshold, Len(taken'[c]))
      /\ \/ m = 0 /\ written' = <<>> /\ pc' = "check"
         \/ m > 0 /\ written' # <<>> /\ pc' = "write"
  BY TakeIs
<1>4. /\ queue' \in Seq(Packets) /\ taken' \in [Channels -> Seq(Nat)]
      /\ QueueFits'
  BY <1>1, <1>3, TakeFits
<1>5. PICK b \in Seq(Nat) :
        /\ buffers' = [buffers EXCEPT ![c] = b]
        /\ b = Piece(taken'[c], (n + m) * Threshold, Len(taken'[c]))
  BY <1>3
<1>6. /\ segments \in [Channels -> Nat] /\ buffers \in [Channels -> Seq(Nat)]
      /\ taken \in [Channels -> Seq(Nat)]
  BY DEF DumpTypeOK
<1>7. n \in Nat /\ taken[c] \in Seq(Nat) /\ n * Threshold <= Len(taken[c])
  BY <1>3, <1>6 DEF AtHand
<1> HIDE DEF t, n, m
<1>8. DumpTypeOK'
  <2>1. segments' \in [Channels -> Nat] /\ buffers' \in [Channels -> Seq(Nat)]
    BY <1>3, <1>5, <1>6
  <2> QED BY <1>1, <1>3, <1>4, <2>1 DEF DumpTypeOK, Packets
<1>9. \A d \in Channels :
        /\ segments'[d] = IF d = c THEN n + m ELSE segments[d]
        /\ buffers'[d] = IF d = c THEN b ELSE buffers[d]
        /\ taken'[d] = IF d = c THEN taken[c] \o t ELSE taken[d]
  BY <1>3, <1>5, <1>6
<1>10. written' # <<>> =>
         /\ 1 \in 1..m /\ Head(written') = written'[1]
         /\ written'[1].name.channel = c /\ ~written'[1].name.end
  <2> SUFFICES ASSUME written' # <<>>
               PROVE  /\ 1 \in 1..m /\ Head(written') = written'[1]
                      /\ written'[1].name.channel = c
                      /\ ~written'[1].name.end
    OBVIOUS
  <2>1. 1 \in 1..m
    BY <1>3
  <2>2. written'[1].name = FullName(c, n + 1 - 1)
    BY <1>3, <2>1
  <2>3. written'[1].name.channel = c /\ ~written'[1].name.end
    BY <2>2 DEF FullName
  <2> QED BY <1>3, <2>1, <2>3, HeadTailIs
<1>11. \A d : ~Ending(d)' /\ (Cut(d)' <=> d = c /\ written' # <<>>)
  BY <1>10 DEF Ending, Cut
<1>12. \A d : ~Cut(d) /\ ~Ending(d) /\ Stored(d) = segments[d]
  BY <1>2, NoneAtHand
<1>13. \A d \in Channels : Stored(d)' = segments[d]
  <2> SUFFICES ASSUME NEW d \in Channels PROVE Stored(d)' = segments[d]
    OBVIOUS
  <2>1. CASE d = c
    <3>1. m = Len(written') /\ n = segments[c] /\ segments'[c] = n + m
      BY <1>3, <1>9 DEF m, n
    <3>2. n + m - m = n /\ (written' = <<>> => n + m = n)
      BY <1>3, <1>7
    <3>3. Stored(d)' = IF Cut(d)' THEN segments'[d] - Len(written')
                       ELSE segments'[d]
      BY DEF Stored
    <3>4. Cut(d)' <=> written' # <<>>
      BY <1>11, <2>1
    <3>5. CASE written' = <<>>
      <4>1. Stored(d)' = segments'[c]
        BY <2>1, <3>3, <3>4, <3>5
      <4> QED BY <2>1, <3>1, <3>2, <3>5, <4>1
    <3>6. CASE written' # <<>>
      <4>1. Stored(d)' = segments'[c] - m
        BY <2>1, <3>1, <3>3, <3>4, <3>6
      <4>2. segments'[c] - m = n
        <5>1. \A x, y, z \in Nat : x = y + z => x - z = y
          OBVIOUS
        <5>2. n \in Nat /\ m \in Nat /\ n + m \in Nat
          BY <1>3, <1>7
        <5> QED BY <3>1, <5>1, <5>2
      <4>3. Stored(d)' = n
        BY <4>1, <4>2
      <4> QED BY <2>1, <3>1, <4>3
    <3> QED BY <3>5, <3>6
  <2>2. CASE d # c
    BY <1>9, <1>11, <2>2 DEF Stored
  <2> QED BY <2>1, <2>2
<1>14. Phases'
  <2>1. CASE written' = <<>>
    <3>1. pc' = "check"
      BY <1>3, <2>1
    <3>2. Recording'
      BY <3>1 DEF Recording
    <3> QED BY <1>1, <1>2, <2>1, <3>1, <3>2 DEF Phases
  <2>2. CASE written' # <<>>
    <3>1. pc' = "write" /\ Recording'
      BY <1>3, <1>11, <2>2 DEF Recording
    <3> QED BY <1>1, <1>2, <2>2, <3>1 DEF Phases
  <2> QED BY <2>1, <2>2
<1>15. Recording'
  BY <1>3, <1>11 DEF Recording
<1>16. \A id : Block(c, id)'
                 = Piece(taken'[c], id * Threshold, (id + 1) * Threshold)
  BY DEF Block
<1>17. AtHand'
  <2> SUFFICES ASSUME NEW d \in Channels
               PROVE  /\ segments'[d] * Threshold <= Len(taken'[d])
                      /\ Cut(d)' =>
                           /\ Len(written') <= segments'[d]
                           /\ \A i \in 1..Len(written') :
                                /\ written'[i].name
                                     = FullName(d, Stored(d)' + i - 1)
                                /\ written'[i].audio
                                     = Block(d, Stored(d) + i - 1)'
                      /\ ~Ending(d)'
    BY DEF AtHand
  <2>1. CASE d = c
    <3>1. /\ segments'[d] = n + m /\ Stored(d)' = n /\ Len(written') = m
      BY <1>3, <1>9, <1>13, <2>1 DEF n, m
    <3>2. m <= n + m
      BY <1>3, <1>7
    <3> QED BY <1>3, <1>11, <1>16, <2>1, <3>1, <3>2
  <2>2. CASE d # c
    BY <1>9, <1>11, <2>2 DEF AtHand
  <2> QED BY <2>1, <2>2
<1>18. \A x : Audio(x)' = Audio(x)
  BY <1>1 DEF Audio
<1>19. FullFilesKept'
  <2> SUFFICES ASSUME NEW d \in Channels, NEW id \in 0..Bound
               PROVE  Audio(FullName(d, id))
                        = IF id < Stored(d)' THEN Block(d, id)' ELSE <<>>
    BY <1>18 DEF FullFilesKept
  <2>1. Audio(FullName(d, id))
          = IF id < Stored(d) THEN Block(d, id) ELSE <<>>
    BY DEF FullFilesKept
  <2>2. Stored(d)' = Stored(d)
    BY <1>12, <1>13
  <2>3. CASE d = c /\ id < Stored(d)
    <3>1. id \in Nat /\ id < n
      BY <1>12, <2>3, SizesAre DEF n
    <3>2. taken'[c] = taken[c] \o t
      BY <1>3, <1>9
    <3>3. Block(c, id)' = Block(c, id)
      BY <1>3, <1>7, <1>16, <3>1, <3>2, BlocksStay DEF Block
    <3> QED BY <2>1, <2>2, <2>3, <3>3
  <2>4. CASE d # c
    <3>1. Block(d, id)' = Block(d, id)
      BY <1>9, <2>4 DEF Block
    <3> QED BY <2>1, <2>2, <3>1
  <2> QED BY <2>1, <2>2, <2>3, <2>4
<1>20. TrailingKept'
  <2> SUFFICES ASSUME NEW d \in Channels
               PROVE  /\ buffers'[d] = Trailing(d)'
                      /\ \A id \in 0..Bound : Audio(EndName(d, id)) = <<>>
    BY <1>11, <1>18 DEF TrailingKept
  <2>1. /\ buffers[d] = Trailing(d)
        /\ \A id \in 0..Bound : Audio(EndName(d, id)) = <<>>
    BY <1>2, <1>12 DEF TrailingKept
  <2>2. CASE d = c
    BY <1>5, <1>9, <2>1, <2>2 DEF Trailing
  <2>3. CASE d # c
    BY <1>9, <2>1, <2>3 DEF Trailing
  <2> QED BY <2>1, <2>2, <2>3
<1>21. OfThisBoot'
  BY <1>1, DirectoriesStay
<1> QED BY <1>4, <1>8, <1>14, <1>17, <1>19, <1>20, <1>21

-----------------------------------------------------------------------------
(* A file comes into its place                                             *)

LEMMA ReplaceIs ==
  ASSUME DumpInv, Replace,
         NEW nm, nm = Head(written).name, NEW a, a = Head(written).audio
  PROVE  /\ written # <<>> /\ nm \in Names /\ a \in Seq(Nat)
         /\ written' = Tail(written)
         /\ Audio(nm)' = a
         /\ \A x \in Names : x # nm => Audio(x)' = Audio(x)
         /\ DumpTypeOK' /\ QueueFits' /\ OfThisBoot'
         /\ \A x \in Names : files'[x] = Torn => files[x] = Torn
         /\ UNCHANGED <<segments, buffers, taken, flushing>>
         /\ \A c, id : Block(c, id)' = Block(c, id)
         /\ \A c : Trailing(c)' = Trailing(c)
<1> USE DEF DumpInv
<1> DEFINE f == [kind |-> "wav", audio |-> a, boot |-> boot]
<1>1. /\ pc = "write" /\ files' = [files EXCEPT ![nm] = f]
      /\ written' = Tail(written)
      /\ UNCHANGED <<queue, sent, buffers, segments, flushing, durable, taken,
                     boot>>
  BY DEF Replace, MayReplace, Replaced, Content
<1>2. written # <<>>
  BY <1>1 DEF Phases
<1>3. written \in Seq([name : Names, audio : Seq(Nat)])
  BY DEF DumpTypeOK
<1>4. /\ nm \in Names /\ a \in Seq(Nat)
      /\ written' \in Seq([name : Names, audio : Seq(Nat)])
  <2>1. /\ Head(written) \in [name : Names, audio : Seq(Nat)]
        /\ Tail(written) \in Seq([name : Names, audio : Seq(Nat)])
    BY <1>2, <1>3, HeadTailIs
  <2> QED BY <1>1, <2>1
<1>5. boot \in Nat /\ files \in [Names -> Contents]
  BY DEF DumpTypeOK
<1>6. f \in Contents /\ f # Torn
  BY <1>4, <1>5, ContentsAre
<1>7. f.kind = "wav" /\ f.boot = boot /\ f.audio = a
  OBVIOUS
<1> HIDE DEF f
<1>8. /\ files' \in [Names -> Contents] /\ files'[nm] = f
      /\ \A x \in Names : x # nm => files'[x] = files[x]
  BY <1>1, <1>4, <1>5, <1>6
<1>9. DumpTypeOK'
  BY <1>1, <1>4, <1>8 DEF DumpTypeOK
<1>10. QueueFits'
  BY <1>1 DEF QueueFits
<1>11. /\ Audio(nm)' = a
       /\ \A x \in Names : x # nm => Audio(x)' = Audio(x)
  BY <1>1, <1>7, <1>8 DEF Audio
<1>12. OfThisBoot'
  <2>1. boot <= boot
    BY <1>5
  <2> QED BY <1>1, <1>7, <1>8, <2>1 DEF OfThisBoot
<1>13. \A x \in Names : files'[x] = Torn => files[x] = Torn
  BY <1>6, <1>8
<1>14. /\ \A c, id : Block(c, id)' = Block(c, id)
       /\ \A c : Trailing(c)' = Trailing(c)
  BY <1>1 DEF Block, Trailing
<1>15. UNCHANGED <<segments, buffers, taken, flushing>>
  BY <1>1
<1> QED BY <1>1, <1>2, <1>4, <1>9, <1>10, <1>11, <1>12, <1>13, <1>14, <1>15

LEMMA ReplaceFullKeeps ==
  ASSUME DumpInv, Replace, NEW c \in Channels, Cut(c),
         NEW nm, nm = Head(written).name, NEW a, a = Head(written).audio
  PROVE  DumpInv'
<1> USE DEF DumpInv
<1> DEFINE k == Stored(c)
           l == Len(written)
<1>1. /\ written # <<>> /\ nm \in Names /\ a \in Seq(Nat)
      /\ written' = Tail(written)
      /\ Audio(nm)' = a
      /\ \A x \in Names : x # nm => Audio(x)' = Audio(x)
      /\ DumpTypeOK' /\ QueueFits' /\ OfThisBoot'
      /\ segments' = segments /\ buffers' = buffers /\ taken' = taken
      /\ flushing' = flushing
      /\ \A d, id : Block(d, id)' = Block(d, id)
      /\ \A d : Trailing(d)' = Trailing(d)
  BY ReplaceIs
<1>2. /\ Head(written) = written[1] /\ l \in Nat \ {0}
      /\ Len(written') = l - 1
      /\ \A i \in 1..Len(written') :
           i + 1 \in 1..l /\ written'[i] = written[i + 1]
      /\ written' = <<>> <=> l = 1
      /\ written' # <<>> => /\ Head(written') = written'[1]
                            /\ Len(written') \in Nat \ {0}
  <2>1. written \in Seq([name : Names, audio : Seq(Nat)])
        /\ written' \in Seq([name : Names, audio : Seq(Nat)])
    BY <1>1 DEF DumpTypeOK
  <2>2. /\ Head(written) = written[1] /\ l \in Nat \ {0}
        /\ Len(Tail(written)) = l - 1
        /\ \A i \in 1..Len(Tail(written)) :
             i + 1 \in 1..l /\ Tail(written)[i] = written[i + 1]
        /\ Tail(written) = <<>> <=> l = 1
    BY <1>1, <2>1, HeadTailIs
  <2>3. written' # <<>> => /\ Head(written') = written'[1]
                           /\ Len(written') \in Nat \ {0}
    BY <2>1, HeadTailIs
  <2> QED BY <1>1, <2>2, <2>3
<1>3. /\ segments[c] \in Nat /\ l <= segments[c]
      /\ \A i \in 1..l : /\ written[i].name = FullName(c, k + i - 1)
                         /\ written[i].audio = Block(c, k + i - 1)
  BY DEF AtHand, DumpTypeOK
<1>4. k = segments[c] - l /\ k \in Nat /\ k < segments[c]
  BY <1>2, <1>3 DEF Stored
<1> HIDE DEF k, l
<1>5. nm = FullName(c, k) /\ a = Block(c, k)
  <2>1. 1 \in 1..l /\ k + 1 - 1 = k
    BY <1>2, <1>4
  <2> QED BY <1>2, <1>3, <2>1
<1>6. segments[c] <= Bound /\ k \in 0..Bound
  <2>1. segments[c] \in 0..Bound
    BY NumbersFit
  <2> QED BY <1>4, <2>1, SizesAre
<1>7. \A i \in 1..Len(written') :
        /\ written'[i].name = FullName(c, k + 1 + i - 1)
        /\ written'[i].audio = Block(c, k + 1 + i - 1)
  <2> SUFFICES ASSUME NEW i \in 1..Len(written')
               PROVE  /\ written'[i].name = FullName(c, k + 1 + i - 1)
                      /\ written'[i].audio = Block(c, k + 1 + i - 1)
    OBVIOUS
  <2>1. k + (i + 1) - 1 = k + 1 + i - 1
    BY <1>4
  <2>2. i + 1 \in 1..l /\ written'[i] = written[i + 1]
    BY <1>2
  <2>3. /\ written[i + 1].name = FullName(c, k + (i + 1) - 1)
        /\ written[i + 1].audio = Block(c, k + (i + 1) - 1)
    BY <1>3, <2>2
  <2> QED BY <2>1, <2>2, <2>3
<1>8. written' # <<>> =>
        Head(written').name.channel = c /\ ~Head(written').name.end
  <2> SUFFICES ASSUME written' # <<>>
      PROVE  Head(written').name.channel = c /\ ~Head(written').name.end
    OBVIOUS
  <2>1. 1 \in 1..Len(written') /\ Head(written') = written'[1]
    BY <1>2
  <2>2. Head(written').name = FullName(c, k + 1 + 1 - 1)
    BY <1>7, <2>1
  <2> QED BY <2>2 DEF FullName
<1>9. \A d : ~Ending(d)' /\ (Cut(d)' <=> d = c /\ written' # <<>>)
  BY <1>8 DEF Ending, Cut
<1>10. \A d \in Channels \ {c} : ~Cut(d) /\ ~Ending(d)
  BY OneAtHand
<1>11. ~Ending(c) /\ Recording /\ flushing = {}
  BY OneAtHand DEF Recording, Phases
<1>12. \A d \in Channels : Stored(d)' = IF d = c THEN k + 1 ELSE Stored(d)
  <2>1. segments[c] - Len(written') = k + 1
    BY <1>2, <1>3, <1>4
  <2>2. l = 1 => segments[c] = k + 1
    BY <1>2, <1>3, <1>4
  <2> QED BY <1>1, <1>2, <1>9, <1>10, <2>1, <2>2 DEF Stored
<1>13. /\ written' # <<>> => pc' = "write"
       /\ written' = <<>> => pc' = "check"
  <2>1. ~Head(written).name.end
    BY DEF Cut
  <2> QED BY <1>1, <1>11, <2>1 DEF Replace
<1>14. Recording'
  BY <1>9, <1>13 DEF Recording
<1>15. Phases'
  <2>1. pc' \in {"write", "check"}
    BY <1>13
  <2> QED BY <1>1, <1>11, <1>13, <1>14, <2>1 DEF Phases
<1>16. AtHand'
  <2> SUFFICES ASSUME NEW d \in Channels
               PROVE  /\ segments[d] * Threshold <= Len(taken[d])
                      /\ Cut(d)' =>
                           /\ Len(written') <= segments[d]
                           /\ \A i \in 1..Len(written') :
                                /\ written'[i].name
                                     = FullName(d, Stored(d)' + i - 1)
                                /\ written'[i].audio
                                     = Block(d, Stored(d)' + i - 1)
                      /\ ~Ending(d)'
    BY <1>1 DEF AtHand
  <2>1. Len(written') <= segments[c]
    BY <1>2, <1>3
  <2>2. segments[d] * Threshold <= Len(taken[d])
    BY DEF AtHand
  <2> QED BY <1>7, <1>9, <1>12, <2>1, <2>2
<1>17. FullFilesKept'
  <2> SUFFICES ASSUME NEW d \in Channels, NEW id \in 0..Bound
               PROVE  Audio(FullName(d, id))'
                        = IF id < Stored(d)' THEN Block(d, id) ELSE <<>>
    BY <1>1 DEF FullFilesKept
  <2>1. /\ FullName(d, id) \in Names
        /\ FullName(d, id) = nm <=> d = c /\ id = k
    BY <1>5, NamesAre
  <2>2. Audio(FullName(d, id))
          = IF id < Stored(d) THEN Block(d, id) ELSE <<>>
    BY DEF FullFilesKept
  <2>3. CASE d = c /\ id = k
    <3>1. id < k + 1
      BY <1>4, <2>3
    <3> QED BY <1>1, <1>5, <1>12, <2>1, <2>3, <3>1
  <2>4. CASE d = c /\ id # k
    <3>1. id < k + 1 <=> id < k
      BY <1>4, <2>4, SizesAre
    <3>2. Audio(FullName(d, id))' = Audio(FullName(d, id))
      BY <1>1, <2>1, <2>4
    <3>3. Stored(d) = k /\ Stored(d)' = k + 1
      BY <1>12, <2>4 DEF k
    <3> QED BY <2>2, <3>1, <3>2, <3>3
  <2>5. CASE d # c
    BY <1>1, <1>12, <2>1, <2>2, <2>5
  <2> QED BY <2>3, <2>4, <2>5
<1>18. TrailingKept'
  <2> SUFFICES ASSUME NEW d \in Channels
               PROVE  /\ buffers[d] = Trailing(d)
                      /\ \A id \in 0..Bound : Audio(EndName(d, id))' = <<>>
    BY <1>1, <1>9 DEF TrailingKept
  <2>1. /\ buffers[d] = Trailing(d)
        /\ \A id \in 0..Bound : Audio(EndName(d, id)) = <<>>
    BY <1>11 DEF TrailingKept
  <2>2. \A id \in 0..Bound : EndName(d, id) \in Names /\ EndName(d, id) # nm
    BY <1>5, NamesAre
  <2> QED BY <1>1, <2>1, <2>2
<1> QED BY <1>1, <1>15, <1>16, <1>17, <1>18

LEMMA ReplaceEndKeeps ==
  ASSUME DumpInv, Replace, NEW c \in Channels, Ending(c),
         NEW nm, nm = Head(written).name, NEW a, a = Head(written).audio
  PROVE  DumpInv'
<1> USE DEF DumpInv
<1>1. /\ written # <<>> /\ nm \in Names /\ a \in Seq(Nat)
      /\ written' = Tail(written)
      /\ Audio(nm)' = a
      /\ \A x \in Names : x # nm => Audio(x)' = Audio(x)
      /\ DumpTypeOK' /\ QueueFits' /\ OfThisBoot'
      /\ segments' = segments /\ buffers' = buffers /\ taken' = taken
      /\ flushing' = flushing
      /\ \A d, id : Block(d, id)' = Block(d, id)
      /\ \A d : Trailing(d)' = Trailing(d)
  BY ReplaceIs
<1>2. Head(written) = written[1] /\ written' = <<>>
  <2>1. written \in Seq([name : Names, audio : Seq(Nat)])
    BY DEF DumpTypeOK
  <2>2. Len(written) = 1
    BY DEF AtHand
  <2> QED BY <1>1, <2>1, <2>2, HeadTailIs
<1>3. nm = EndName(c, segments[c]) /\ a = Trailing(c)
  BY <1>2 DEF AtHand
<1>4. \A d : /\ ~Ending(d)' /\ ~Cut(d)'
             /\ Stored(d)' = segments[d]
  BY <1>1, <1>2 DEF Ending, Cut, Stored
<1>5. \A d \in Channels : ~Cut(d) /\ Stored(d) = segments[d]
  BY OneAtHand DEF Stored
<1>6. \A d \in Channels \ {c} : ~Ending(d)
  BY OneAtHand
<1>7. ~Recording /\ buffers[c] = <<>>
      /\ \A id \in 0..Bound : Audio(EndName(c, id)) = <<>>
  BY DEF TrailingKept
<1>8. pc = "write" /\ pc' = "flush"
  <2>1. Head(written).name.end
    BY DEF Ending
  <2> QED BY <1>1, <1>2, <2>1 DEF Replace
<1>9. ~Recording'
  BY <1>4, <1>8 DEF Recording
<1>10. Phases'
  BY <1>1, <1>2, <1>7, <1>8, <1>9 DEF Phases
<1>11. AtHand'
  BY <1>1, <1>4 DEF AtHand
<1>12. FullFilesKept'
  <2> SUFFICES ASSUME NEW d \in Channels, NEW id \in 0..Bound
               PROVE  Audio(FullName(d, id))'
                        = IF id < segments[d] THEN Block(d, id) ELSE <<>>
    BY <1>1, <1>4 DEF FullFilesKept
  <2>1. FullName(d, id) \in Names /\ FullName(d, id) # nm
    BY <1>3, NamesAre
  <2> QED BY <1>1, <1>5, <2>1 DEF FullFilesKept
<1>13. TrailingKept'
  <2> SUFFICES ASSUME NEW d \in Channels
               PROVE  \/ /\ buffers[d] = Trailing(d)
                         /\ \A id \in 0..Bound : Audio(EndName(d, id))' = <<>>
                      \/ /\ buffers[d] = <<>>
                         /\ \A id \in 0..Bound :
                              Audio(EndName(d, id))'
                                = IF id = segments[d] THEN Trailing(d)
                                  ELSE <<>>
    BY <1>1, <1>4, <1>9 DEF TrailingKept
  <2>1. \A id \in 0..Bound :
          /\ EndName(d, id) \in Names
          /\ EndName(d, id) = nm <=> d = c /\ id = segments[c]
    BY <1>3, NamesAre
  <2>2. CASE d = c
    <3>1. \A id \in 0..Bound :
            Audio(EndName(d, id))'
              = IF id = segments[d] THEN Trailing(d) ELSE <<>>
      BY <1>1, <1>3, <1>7, <2>1, <2>2
    <3> QED BY <1>7, <2>2, <3>1
  <2>3. CASE d # c
    <3>1. \A id \in 0..Bound :
            Audio(EndName(d, id))' = Audio(EndName(d, id))
      BY <1>1, <2>1, <2>3
    <3>2. \/ /\ buffers[d] = Trailing(d)
             /\ \A id \in 0..Bound : Audio(EndName(d, id)) = <<>>
          \/ /\ buffers[d] = <<>>
             /\ \A id \in 0..Bound :
                  Audio(EndName(d, id))
                    = IF id = segments[d] THEN Trailing(d) ELSE <<>>
      BY <1>6, <2>3 DEF TrailingKept
    <3> QED BY <3>1, <3>2
  <2> QED BY <2>2, <2>3
<1> QED BY <1>1, <1>10, <1>11, <1>12, <1>13

LEMMA ReplaceKeeps ==
  ASSUME DumpInv, Replace
  PROVE  DumpInv'
<1>1. written # <<>>
  BY DEF DumpInv, Phases, Replace
<1>2. \E c \in Channels : Cut(c) \/ Ending(c)
  BY <1>1, AtHandOf DEF DumpInv
<1>3. PICK nm, a : nm = Head(written).name /\ a = Head(written).audio
  OBVIOUS
<1> QED BY <1>2, <1>3, ReplaceFullKeeps, ReplaceEndKeeps

-----------------------------------------------------------------------------
(* The flush                                                               *)

LEMMA FlushEndKeeps ==
  ASSUME DumpInv, NEW c \in Channels, FlushEnd(c)
  PROVE  DumpInv'
<1> USE DEF DumpInv
<1>1. /\ pc = "flush" /\ c \in flushing /\ flushing' = flushing \ {c}
      /\ UNCHANGED <<queue, sent, segments, files, durable, taken, boot>>
  BY DEF FlushEnd
<1>2. written = <<>>
  BY <1>1 DEF Phases
<1>3. \A d : ~Cut(d) /\ ~Ending(d) /\ Stored(d) = segments[d]
  BY <1>2, NoneAtHand
<1>4. ~Recording
  BY <1>1, <1>3 DEF Recording
<1>5. /\ \A d, id : Block(d, id)' = Block(d, id)
      /\ \A d : Trailing(d)' = Trailing(d)
      /\ \A x : Audio(x)' = Audio(x)
  BY <1>1 DEF Block, Trailing, Audio
<1>6. buffers \in [Channels -> Seq(Nat)]
  BY DEF DumpTypeOK
<1>7. QueueFits' /\ OfThisBoot'
  BY <1>1 DEF QueueFits, OfThisBoot
<1>8. segments[c] \in 0..Bound
  BY NumbersFit
<1>9. CASE buffers[c] # <<>>
  <2> DEFINE e == [name |-> EndName(c, segments[c]), audio |-> buffers[c]]
  <2>1. /\ written' = <<e>> /\ pc' = "write"
        /\ buffers' = [buffers EXCEPT ![c] = <<>>]
    BY <1>9 DEF FlushEnd, Remains, EndName
  <2>2. e \in [name : Names, audio : Seq(Nat)]
    BY <1>6, <1>8, NamesAre
  <2>3. e.name = EndName(c, segments[c]) /\ e.audio = buffers[c]
    OBVIOUS
  <2> HIDE DEF e
  <2>4. /\ written' \in Seq([name : Names, audio : Seq(Nat)])
        /\ written' # <<>> /\ Len(written') = 1 /\ written'[1] = e
        /\ Head(written') = e
    BY <2>1, <2>2
  <2>5. e.name.channel = c /\ e.name.end
    BY <2>3 DEF EndName
  <2>6. \A d : /\ ~Cut(d)' /\ (Ending(d)' <=> d = c)
               /\ Stored(d)' = segments[d]
    BY <1>1, <2>4, <2>5 DEF Cut, Ending, Stored
  <2>7. /\ buffers' \in [Channels -> Seq(Nat)] /\ buffers'[c] = <<>>
        /\ \A d \in Channels : d # c => buffers'[d] = buffers[d]
    BY <1>6, <2>1
  <2>8. DumpTypeOK'
    BY <1>1, <2>4, <2>7 DEF DumpTypeOK
  <2>9. ~Recording'
    BY <2>1, <2>6 DEF Recording
  <2>10. Phases'
    BY <1>1, <1>4, <2>1, <2>4, <2>7, <2>9 DEF Phases
  <2>11. /\ buffers[c] = Trailing(c)
         /\ \A id \in 0..Bound : Audio(EndName(c, id)) = <<>>
    BY <1>3, <1>9 DEF TrailingKept
  <2>12. AtHand'
    BY <1>1, <1>5, <2>3, <2>4, <2>6, <2>11 DEF AtHand
  <2>13. FullFilesKept'
    BY <1>3, <1>5, <2>6 DEF FullFilesKept
  <2>14. TrailingKept'
    <3> SUFFICES ASSUME NEW d \in Channels
        PROVE  \/ /\ buffers'[d] = Trailing(d) /\ ~Ending(d)'
                  /\ \A id \in 0..Bound : Audio(EndName(d, id)) = <<>>
               \/ /\ buffers'[d] = <<>> /\ Ending(d)'
                  /\ \A id \in 0..Bound : Audio(EndName(d, id)) = <<>>
               \/ /\ buffers'[d] = <<>> /\ ~Ending(d)'
                  /\ \A id \in 0..Bound :
                       Audio(EndName(d, id))
                         = IF id = segments[d] THEN Trailing(d) ELSE <<>>
      BY <1>1, <1>5, <2>9 DEF TrailingKept
    <3>1. CASE d = c
      BY <2>6, <2>7, <2>11, <3>1
    <3>2. CASE d # c
      BY <1>3, <2>6, <2>7, <3>2 DEF TrailingKept
    <3> QED BY <3>1, <3>2
  <2> QED BY <1>7, <2>8, <2>10, <2>12, <2>13, <2>14
<1>10. CASE buffers[c] = <<>>
  <2>1. written' = written /\ buffers' = buffers /\ pc' = pc
    BY <1>10 DEF FlushEnd, Remains
  <2>2. UNCHANGED recording
    BY <1>1, <2>1 DEF recording
  <2>3. (Recording <=> Recording') /\ \A d : Cut(d)' <=> Cut(d)
    BY <2>1, <2>2, RecordingUntouched DEF Recording
  <2>4. DumpTypeOK'
    BY <1>1, <2>1 DEF DumpTypeOK
  <2>5. Phases'
    BY <1>1, <1>4, <1>10, <2>1, <2>3 DEF Phases
  <2>6. AtHand' /\ FullFilesKept' /\ TrailingKept'
    BY <2>2, <2>3, UntouchedKeeps
  <2> QED BY <1>7, <2>4, <2>5, <2>6
<1> QED BY <1>9, <1>10

LEMMA StutterKeeps ==
  ASSUME DumpInv, UNCHANGED vars
  PROVE  DumpInv'
<1> USE DEF DumpInv
<1>1. /\ UNCHANGED recording /\ UNCHANGED <<files, durable, boot>>
      /\ queue' = queue /\ sent' = sent /\ taken' = taken
      /\ buffers' = buffers /\ segments' = segments /\ written' = written
      /\ pc' = pc /\ flushing' = flushing
  BY DEF vars, worker, recording
<1>2. (Recording <=> Recording') /\ \A d : Cut(d)' <=> Cut(d)
  BY <1>1, RecordingUntouched DEF Recording
<1>3. DumpTypeOK' /\ QueueFits' /\ Phases'
  BY <1>1, <1>2 DEF DumpTypeOK, QueueFits, Phases
<1> QED BY <1>1, <1>2, <1>3, UntouchedKeeps, DirectoriesStay

LEMMA DumpStep == DumpInv /\ [Next]_vars => DumpInv'
<1> SUFFICES ASSUME DumpInv, [Next]_vars PROVE DumpInv'
  OBVIOUS
<1>1. ASSUME NEW c \in Channels, Copy(c) PROVE DumpInv'
  BY <1>1, CopyKeeps
<1>2. ASSUME NEW c \in Channels, FlushEnd(c) PROVE DumpInv'
  BY <1>2, FlushEndKeeps
<1>3. CASE Stop \/ CheckStop \/ Empty \/ BeginWrite \/ EndWrite
             \/ WriteFails \/ Done
  BY <1>3, TurnKeeps
<1>4. CASE Take
  <2>1. PICK c : c = Head(queue).channel
    OBVIOUS
  <2> QED BY <1>4, <2>1, TakeKeeps
<1>5. CASE Replace
  BY <1>5, ReplaceKeeps
<1>6. ASSUME NEW n \in Names, Settle(n) PROVE DumpInv'
  BY <1>6, SettleKeeps
<1>7. CASE ProcessDies \/ PowerLoss
  BY <1>7, RebootKeeps
<1>8. CASE UNCHANGED vars
  BY <1>8, StutterKeeps
<1> QED BY <1>1, <1>2, <1>3, <1>4, <1>5, <1>6, <1>7, <1>8 DEF Next

LEMMA AlwaysDumpInv == Spec => []DumpInv
BY DumpStart, DumpStep, PTL DEF Spec

-----------------------------------------------------------------------------
(* What is on disk, and what is still to be written                       *)

(* The full files on disk are the head of the audio taken; what follows    *)
(* them is on disk too, or not.                                            *)
LEMMA OnDiskIs ==
  ASSUME DumpInv, NEW c \in Channels, NEW e \in Nat, e <= Len(taken[c]),
         Stored(c) \in Nat, Stored(c) <= Bound,
         Stored(c) * Threshold <= e,
         \A id \in 0..Bound :
           Audio(EndName(c, id)) =
             IF id = Stored(c) THEN Piece(taken[c], Stored(c) * Threshold, e)
             ELSE <<>>
  PROVE  OnDisk(c) = Piece(taken[c], 0, e)
<1> DEFINE s == taken[c]
           f == Stored(c)
           N == Bound + 1
           G == [i \in 0..N |-> IF i <= f THEN i * Threshold ELSE e]
           P == [i \in 1..N |-> Audio(FullName(c, i - 1))
                                \o Audio(EndName(c, i - 1))]
<1>1. OnDisk(c) = FlattenSeq(P)
  BY DEF OnDisk, Audio, FullName, EndName, Bound
<1>2. s \in Seq(Nat) /\ Len(s) \in Nat /\ f \in Nat /\ N \in Nat /\ f < N
  BY SizesAre DEF DumpInv, DumpTypeOK
<1>3. /\ f * Threshold <= e /\ e <= Len(s)
      /\ f * Threshold \in Nat
      /\ \A id \in 0..Bound :
           Audio(EndName(c, id)) =
             IF id = f THEN Piece(s, f * Threshold, e) ELSE <<>>
  BY <1>2, SizesAre, Times
<1>4. \A id \in 0..Bound :
        Audio(FullName(c, id)) =
          IF id < f THEN Piece(s, id * Threshold, (id + 1) * Threshold)
          ELSE <<>>
  BY DEF DumpInv, FullFilesKept, Block
<1> HIDE DEF s, f
<1>5. \A i \in 0..N : /\ G[i] = IF i <= f THEN i * Threshold ELSE e
                      /\ i <= f => /\ i * Threshold \in Nat
                                   /\ i * Threshold <= f * Threshold
  <2> SUFFICES ASSUME NEW i \in 0..N
      PROVE  i <= f => /\ i * Threshold \in Nat
                       /\ i * Threshold <= f * Threshold
    OBVIOUS
  <2>1. i \in Nat
    BY <1>2
  <2> QED BY <1>2, <2>1, SizesAre, Times
<1>6. \A i \in 1..N : P[i] = Audio(FullName(c, i - 1))
                             \o Audio(EndName(c, i - 1))
  OBVIOUS
<1>7. Len(P) = N /\ (N = 0 => P = <<>>)
  BY <1>2
<1> HIDE DEF G, P
<1>8. \A i \in 0..N : G[i] \in Nat /\ G[i] <= Len(s) /\ 0 <= G[i]
  <2> SUFFICES ASSUME NEW i \in 0..N
               PROVE  G[i] \in Nat /\ G[i] <= Len(s) /\ 0 <= G[i]
    OBVIOUS
  <2>1. CASE i <= f
    <3> DEFINE x == i * Threshold
               y == f * Threshold
    <3>1. G[i] = x /\ x \in Nat /\ y \in Nat /\ x <= y /\ y <= e
          /\ e <= Len(s)
      BY <1>3, <1>5, <2>1
    <3> HIDE DEF x, y
    <3> QED BY <1>2, <3>1
  <2>2. CASE ~(i <= f)
    <3>1. G[i] = e
      BY <1>5, <2>2
    <3> QED BY <1>3, <3>1
  <2> QED BY <2>1, <2>2
<1>9. G[0] = 0 /\ G[N] = e
  <2>1. 0 \in 0..N /\ N \in 0..N /\ 0 <= f /\ ~(N <= f)
    BY <1>2
  <2>2. 0 * Threshold = 0
    BY SizesAre
  <2> QED BY <1>5, <2>1, <2>2
<1>10. ASSUME NEW i \in 1..N
       PROVE  /\ G[0] <= G[i - 1] /\ G[i - 1] <= G[i]
              /\ P[i] = Piece(s, G[i - 1], G[i])
  <2> DEFINE j == i - 1
  <2>1. /\ j \in 0..N /\ i \in 0..N /\ j \in 0..Bound /\ i = j + 1
        /\ j \in Nat
    BY <1>2, SizesAre
  <2>2. P[i] = Audio(FullName(c, j)) \o Audio(EndName(c, j))
    BY <1>6
  <2> HIDE DEF j
  <2>3. G[0] <= G[j]
    BY <1>8, <1>9, <2>1
  <2>4. /\ Audio(FullName(c, j)) =
             IF j < f THEN Piece(s, j * Threshold, (j + 1) * Threshold)
             ELSE <<>>
        /\ Audio(EndName(c, j)) =
             IF j = f THEN Piece(s, f * Threshold, e) ELSE <<>>
    BY <1>3, <1>4, <2>1
  <2>5. \A x, y \in Nat :
          x <= y /\ y <= Len(s) =>
            /\ Piece(s, x, y) \in Seq(Nat)
            /\ Piece(s, x, y) \o <<>> = Piece(s, x, y)
            /\ <<>> \o Piece(s, x, y) = Piece(s, x, y)
    <3> SUFFICES ASSUME NEW x \in Nat, NEW y \in Nat, x <= y, y <= Len(s)
        PROVE  /\ Piece(s, x, y) \in Seq(Nat)
               /\ Piece(s, x, y) \o <<>> = Piece(s, x, y)
               /\ <<>> \o Piece(s, x, y) = Piece(s, x, y)
      OBVIOUS
    <3>1. Piece(s, x, y) \in Seq(Nat)
      BY <1>2, PieceIs
    <3> QED BY <3>1, ConcatEmptySeq
  <2>6. CASE j < f
    <3>1. j <= f /\ j + 1 <= f /\ j # f
      BY <1>2, <2>1, <2>6
    <3>2. G[j] = j * Threshold /\ G[i] = (j + 1) * Threshold
      BY <1>5, <2>1, <3>1
    <3>3. j * Threshold <= (j + 1) * Threshold
      <4>1. j + 1 \in Nat /\ j <= j + 1
        BY <2>1
      <4> QED BY <2>1, <4>1, SizesAre, Times
    <3>4. P[i] = Piece(s, G[j], G[i]) \o <<>>
      BY <2>2, <2>4, <2>6, <3>1, <3>2
    <3>5. G[j] \in Nat /\ G[i] \in Nat /\ G[j] <= G[i] /\ G[i] <= Len(s)
      BY <1>8, <2>1, <3>2, <3>3
    <3> QED BY <2>3, <2>5, <3>4, <3>5 DEF j
  <2>7. CASE j = f
    <3>1. j <= f /\ ~(i <= f) /\ ~(j < f)
      BY <1>2, <2>1, <2>7
    <3>2. G[j] = f * Threshold /\ G[i] = e
      BY <1>5, <2>1, <2>7, <3>1
    <3>3. P[i] = <<>> \o Piece(s, G[j], G[i])
      BY <2>2, <2>4, <2>7, <3>1, <3>2
    <3>4. G[j] \in Nat /\ G[i] \in Nat /\ G[j] <= G[i] /\ G[i] <= Len(s)
      BY <1>3, <1>8, <2>1, <3>2
    <3> QED BY <2>3, <2>5, <3>3, <3>4 DEF j
  <2>8. CASE j > f
    <3>1. ~(j <= f) /\ ~(i <= f) /\ ~(j < f) /\ j # f
      BY <1>2, <2>1, <2>8
    <3>2. G[j] = e /\ G[i] = e
      BY <1>5, <2>1, <3>1
    <3>3. P[i] = <<>> \o <<>>
      BY <2>2, <2>4, <3>1
    <3>4. Piece(s, e, e) = <<>> /\ <<>> \o <<>> = <<>>
      <4>1. e \in 0..Len(s) /\ <<>> \in Seq(Nat)
        BY <1>2, <1>3
      <4> QED BY <1>2, <4>1, PiecesOf, ConcatEmptySeq
    <3>5. G[j] <= G[i]
      BY <3>2
    <3> QED BY <2>3, <3>2, <3>3, <3>4, <3>5 DEF j
  <2>9. j < f \/ j = f \/ j > f
    BY <1>2, <2>1
  <2> QED BY <2>6, <2>7, <2>8, <2>9
<1>11. FlattenSeq(P) = Piece(s, G[0], G[N])
  <2> HIDE DEF N
  <2>1. Adjacent(s, P, G, N)
    BY <1>2, <1>7, <1>8, <1>10 DEF Adjacent
  <2> QED BY <2>1, PiecesJoin
<1> QED BY <1>1, <1>9, <1>11 DEF s

LEMMA Places ==
  ASSUME DumpInv, NEW c \in Channels
  PROVE  /\ taken[c] \in Seq(Nat) /\ Len(taken[c]) \in Nat
         /\ Stored(c) \in Nat /\ Stored(c) <= Bound
         /\ Stored(c) * Threshold \in Nat
         /\ segments[c] \in Nat /\ segments[c] * Threshold \in Nat
         /\ Stored(c) * Threshold <= segments[c] * Threshold
         /\ segments[c] * Threshold <= Len(taken[c])
         /\ Cut(c) => /\ Len(written) \in Nat
                      /\ Len(written) = segments[c] - Stored(c)
         /\ ~Cut(c) => Stored(c) = segments[c]
<1>1. /\ taken[c] \in Seq(Nat) /\ Len(taken[c]) \in Nat
      /\ segments[c] \in 0..Bound /\ segments[c] * Threshold \in Nat
      /\ segments[c] * Threshold <= Len(taken[c])
  BY NumbersFit DEF DumpInv
<1>2. /\ Cut(c) => Stored(c) = segments[c] - Len(written)
      /\ ~Cut(c) => Stored(c) = segments[c]
  BY DEF Stored
<1>3. Cut(c) => Len(written) \in Nat /\ Len(written) <= segments[c]
  BY AtHandOf DEF DumpInv, AtHand, Cut
<1>4. /\ Stored(c) \in Nat /\ Stored(c) <= segments[c]
      /\ segments[c] \in Nat /\ segments[c] <= Bound
      /\ Cut(c) => Len(written) = segments[c] - Stored(c)
  BY ONLY <1>1, <1>2, <1>3, SizesAre
<1>5. /\ Stored(c) * Threshold \in Nat
      /\ Stored(c) * Threshold <= segments[c] * Threshold
  BY <1>4, SizesAre, Times
<1>6. Stored(c) <= Bound
  BY ONLY <1>4, SizesAre
<1> QED BY <1>1, <1>2, <1>3, <1>4, <1>5, <1>6

LEMMA ChannelOfName ==
  \A c, id : FullName(c, id).channel = c /\ EndName(c, id).channel = c
BY DEF FullName, EndName

(* The files at hand, each or none of which is of channel c. *)
LEMMA FilesAtHand ==
  ASSUME NEW c \in Channels, NEW s \in Seq(Nat), NEW n \in Nat,
         Len(written) = n,
         NEW G, \A i \in 0..n : G[i] \in Nat /\ G[i] <= Len(s),
         \A i \in 1..n :
           /\ G[0] <= G[i - 1] /\ G[i - 1] <= G[i]
           /\ IF written[i].name.channel = c
              THEN written[i].audio = Piece(s, G[i - 1], G[i])
              ELSE Piece(s, G[i - 1], G[i]) = <<>>
  PROVE  Unwritten(c) = Piece(s, G[0], G[n])
<1> DEFINE ss == [i \in 1..n |-> IF written[i].name.channel = c
                                 THEN written[i].audio ELSE <<>>]
<1>1. Unwritten(c) = FlattenSeq(ss)
  BY DEF Unwritten
<1>2. Len(ss) = n /\ (n = 0 => ss = <<>>)
  OBVIOUS
<1>3. \A i \in 1..n : ss[i] = Piece(s, G[i - 1], G[i])
  OBVIOUS
<1> HIDE DEF ss
<1>4. \A i \in 1..n : /\ G[0] <= G[i - 1] /\ G[i - 1] <= G[i]
                      /\ ss[i] = Piece(s, G[i - 1], G[i])
  BY <1>3
<1>5. \A i \in 0..n : G[i] \in Nat /\ G[i] <= Len(s)
  OBVIOUS
<1>6. FlattenSeq(ss) = Piece(s, G[0], G[n])
  <2>1. Adjacent(s, ss, G, n)
    BY <1>2, <1>4, <1>5 DEF Adjacent
  <2> QED BY <2>1, PiecesJoin
<1> QED BY <1>1, <1>6

LEMMA CutIsUnwritten ==
  ASSUME DumpInv, NEW c \in Channels, Cut(c)
  PROVE  Unwritten(c)
           = Piece(taken[c], Stored(c) * Threshold, segments[c] * Threshold)
<1> DEFINE s == taken[c]
           f == Stored(c)
           n == Len(written)
           G == [i \in 0..n |-> (f + i) * Threshold]
<1>1. /\ s \in Seq(Nat) /\ Len(s) \in Nat /\ f \in Nat /\ n \in Nat
      /\ n = segments[c] - f /\ segments[c] \in Nat
      /\ segments[c] * Threshold \in Nat
      /\ segments[c] * Threshold <= Len(s)
  BY Places
<1>2. \A i \in 1..n :
        /\ written[i].name = FullName(c, f + i - 1)
        /\ written[i].audio = Piece(s, (f + i - 1) * Threshold,
                                    (f + i - 1 + 1) * Threshold)
  BY DEF DumpInv, AtHand, Block
<1>3. f + n = segments[c]
  BY <1>1
<1> HIDE DEF s, f, n
<1>4. \A i \in 0..n : G[i] = (f + i) * Threshold
  OBVIOUS
<1> HIDE DEF G
<1>5. ASSUME NEW i \in 0..n, NEW j \in 0..n, i <= j
      PROVE  /\ G[i] \in Nat /\ G[i] <= G[j] /\ G[j] <= Len(s)
             /\ G[j] \in Nat
  <2>1. /\ f + i \in Nat /\ f + j \in Nat /\ f + i <= f + j
        /\ f + j <= segments[c]
    <3> DEFINE g == segments[c]
    <3>1. f \in Nat /\ g \in Nat /\ n \in Nat /\ n = g - f
      BY <1>1
    <3> HIDE DEF g
    <3>2. /\ f + i \in Nat /\ f + j \in Nat /\ f + i <= f + j
          /\ f + j <= g
      BY ONLY <3>1, i \in 0..n, j \in 0..n, i <= j
    <3> QED BY <3>2 DEF g
  <2>2. /\ (f + i) * Threshold \in Nat /\ (f + j) * Threshold \in Nat
        /\ (f + i) * Threshold <= (f + j) * Threshold
        /\ (f + j) * Threshold <= segments[c] * Threshold
    BY <1>1, <2>1, SizesAre, Times
  <2>3. (f + j) * Threshold <= Len(s)
    <3> DEFINE x == (f + j) * Threshold
               y == segments[c] * Threshold
    <3>1. /\ x \in Nat /\ y \in Nat /\ Len(s) \in Nat /\ x <= y
          /\ y <= Len(s)
      BY <1>1, <2>2
    <3> HIDE DEF x, y
    <3>2. x <= Len(s)
      BY ONLY <3>1
    <3> QED BY <3>2 DEF x
  <2> QED BY <1>4, <2>2, <2>3
<1>6. \A i \in 0..n : G[i] \in Nat /\ G[i] <= Len(s)
  <2>1. \A i \in 0..n : i <= i
    BY <1>1
  <2> QED BY <1>5, <2>1
<1>7. ASSUME NEW i \in 1..n
      PROVE  /\ G[0] <= G[i - 1] /\ G[i - 1] <= G[i]
             /\ written[i].name.channel = c
             /\ written[i].audio = Piece(s, G[i - 1], G[i])
  <2>1. /\ 0 \in 0..n /\ i - 1 \in 0..n /\ i \in 0..n
        /\ 0 <= i - 1 /\ i - 1 <= i
    BY <1>1
  <2>2. f + (i - 1) = f + i - 1 /\ f + i - 1 + 1 = f + i
    BY <1>1
  <2>3. G[i - 1] = (f + i - 1) * Threshold /\ G[i] = (f + i) * Threshold
    BY <1>4, <2>1, <2>2
  <2>4. written[i].name.channel = c
    BY <1>2, ChannelOfName
  <2> QED BY <1>2, <1>5, <2>1, <2>2, <2>3, <2>4
<1>8. G[0] = f * Threshold /\ G[n] = segments[c] * Threshold
  <2>1. 0 \in 0..n /\ n \in 0..n /\ f + 0 = f
    BY <1>1
  <2> QED BY <1>3, <1>4, <2>1
<1>9. Unwritten(c) = Piece(s, G[0], G[n])
  <2>1. Len(written) = n
    BY DEF n
  <2> QED BY <1>1, <1>6, <1>7, <2>1, FilesAtHand
<1> QED BY <1>8, <1>9 DEF s, f

LEMMA EndIsUnwritten ==
  ASSUME DumpInv, NEW c \in Channels, Ending(c)
  PROVE  Unwritten(c) = Trailing(c)
<1> DEFINE s == taken[c]
           g == segments[c] * Threshold
           G == [i \in 0..1 |-> IF i = 0 THEN g ELSE Len(s)]
<1>1. s \in Seq(Nat) /\ Len(s) \in Nat /\ g \in Nat /\ g <= Len(s)
  BY Places
<1>2. /\ Len(written) = 1
      /\ written[1].name.channel = c
      /\ written[1].audio = Piece(s, g, Len(s))
  <2>1. /\ Len(written) = 1
        /\ written[1].name = EndName(c, segments[c])
        /\ written[1].audio = Trailing(c)
    BY DEF DumpInv, AtHand
  <2> QED BY <2>1, ChannelOfName DEF Trailing
<1> HIDE DEF s, g
<1>3. G[0] = g /\ G[1] = Len(s)
  OBVIOUS
<1> HIDE DEF G
<1>4. \A i \in 0..1 : G[i] \in Nat /\ G[i] <= Len(s)
  <2>1. \A i \in 0..1 : i = 0 \/ i = 1
    OBVIOUS
  <2> QED BY <1>1, <1>3, <2>1
<1>5. \A i \in 1..1 :
        /\ G[0] <= G[i - 1] /\ G[i - 1] <= G[i]
        /\ written[i].name.channel = c
        /\ written[i].audio = Piece(s, G[i - 1], G[i])
  <2>1. \A i \in 1..1 : i = 1 /\ i - 1 = 0
    OBVIOUS
  <2>2. G[0] <= G[0] /\ G[0] <= G[1]
    BY <1>1, <1>3
  <2> QED BY <1>2, <1>3, <2>1, <2>2
<1>6. Unwritten(c) = Piece(s, G[0], G[1])
  <2>1. 1 \in Nat
    OBVIOUS
  <2> QED BY <1>1, <1>2, <1>4, <1>5, <2>1, FilesAtHand
<1> QED BY <1>3, <1>6 DEF s, g, Trailing

LEMMA NoneIsUnwritten ==
  ASSUME DumpInv, NEW c \in Channels, ~Cut(c), ~Ending(c)
  PROVE  Unwritten(c) = <<>>
<1> DEFINE s == taken[c]
           n == Len(written)
           G == [i \in 0..n |-> 0]
<1>1. s \in Seq(Nat) /\ Len(s) \in Nat
  BY Places
<1>2. n \in Nat
  BY DEF DumpInv, DumpTypeOK
<1>3. \A i \in 1..n : written[i].name.channel # c
  <2>1. CASE written = <<>>
    BY <2>1
  <2>2. CASE written # <<>>
    <3>1. PICK d \in Channels : Cut(d) \/ Ending(d)
      BY <2>2, AtHandOf DEF DumpInv
    <3>2. d # c
      BY <3>1
    <3>3. CASE Cut(d)
      <4>1. \A i \in 1..n :
              written[i].name = FullName(d, Stored(d) + i - 1)
        BY <3>3 DEF DumpInv, AtHand
      <4> QED BY <3>2, <4>1, ChannelOfName
    <3>4. CASE Ending(d)
      <4>1. n = 1 /\ written[1].name = EndName(d, segments[d])
        BY <3>4 DEF DumpInv, AtHand
      <4>2. \A i \in 1..1 : i = 1
        OBVIOUS
      <4> QED BY <3>2, <4>1, <4>2, ChannelOfName
    <3> QED BY <3>1, <3>3, <3>4
  <2> QED BY <2>1, <2>2
<1> HIDE DEF s
<1>4. Piece(s, 0, 0) = <<>>
  BY <1>1, PiecesOf
<1>5. \A i \in 0..n : G[i] = 0
  OBVIOUS
<1> HIDE DEF G
<1>6. \A i \in 0..n : G[i] \in Nat /\ G[i] <= Len(s)
  BY <1>1, <1>5
<1>7. /\ \A i \in 1..n : i - 1 \in 0..n /\ i \in 0..n
      /\ 0 \in 0..n /\ n \in 0..n
  BY <1>2
<1>8. \A i \in 1..n : /\ G[0] <= G[i - 1] /\ G[i - 1] <= G[i]
                      /\ Piece(s, G[i - 1], G[i]) = <<>>
  BY <1>4, <1>5, <1>7
<1>9. Unwritten(c) = Piece(s, G[0], G[n])
  BY <1>1, <1>2, <1>3, <1>6, <1>8, FilesAtHand
<1> QED BY <1>4, <1>5, <1>7, <1>9

(* Each channel's audio is in three places, one after the other.           *)
LEMMA PlacesFollow ==
  ASSUME DumpInv, NEW c \in Channels
  PROVE  /\ OnDisk(c) \in Seq(Nat)
         /\ OnDisk(c) \o Unwritten(c) \o buffers[c] = taken[c]
<1> DEFINE s == taken[c]
           f == Stored(c)
           x == Stored(c) * Threshold
           y == segments[c] * Threshold
<1>1. /\ s \in Seq(Nat) /\ Len(s) \in Nat
      /\ f \in Nat /\ f <= Bound
      /\ x \in Nat /\ y \in Nat /\ x <= y /\ y <= Len(s)
  BY Places
<1>2. /\ ~Cut(c) => x = y
      /\ Cut(c) => ~Ending(c)
  BY Places, OneAtHand
<1>3. Trailing(c) = Piece(s, y, Len(s))
  BY DEF Trailing
<1>4. /\ Cut(c) => Unwritten(c) = Piece(s, x, y)
      /\ Ending(c) => Unwritten(c) = Piece(s, y, Len(s))
      /\ ~Cut(c) /\ ~Ending(c) => Unwritten(c) = <<>>
  BY <1>3, CutIsUnwritten, EndIsUnwritten, NoneIsUnwritten
<1>5. ASSUME NEW e \in Nat, e <= Len(s), x <= e,
             \A id \in 0..Bound :
               Audio(EndName(c, id)) = IF id = f THEN Piece(s, x, e) ELSE <<>>
      PROVE  OnDisk(c) = Piece(s, 0, e)
  BY <1>1, <1>5, OnDiskIs
<1> HIDE DEF s, f, x, y
<1>6. /\ Piece(s, x, x) = <<>> /\ Piece(s, y, y) = <<>>
      /\ Piece(s, 0, Len(s)) = s /\ s \o <<>> = s
      /\ Piece(s, 0, x) \in Seq(Nat) /\ Piece(s, 0, y) \in Seq(Nat)
      /\ Piece(s, 0, y) \o <<>> = Piece(s, 0, y)
  <2>1. x \in 0..Len(s) /\ y \in 0..Len(s) /\ 0 \in Nat /\ x - 0 = x
    BY <1>1
  <2>2. /\ 0 <= x /\ 0 <= y /\ x <= Len(s) /\ y <= Len(s)
    BY <1>1
  <2>3. Piece(s, 0, x) \in Seq(Nat) /\ Piece(s, 0, y) \in Seq(Nat)
    BY <1>1, <2>1, <2>2, PieceIs
  <2> QED BY <1>1, <2>1, <2>3, PiecesOf, ConcatEmptySeq
<1>7. /\ Piece(s, 0, x) \o Piece(s, x, y) = Piece(s, 0, y)
      /\ Piece(s, 0, y) \o Piece(s, y, Len(s)) = s
  <2>1. 0 \in Nat /\ 0 <= x /\ 0 <= y /\ Len(s) <= Len(s)
    BY <1>1
  <2>2. Piece(s, 0, x) \o Piece(s, x, y) = Piece(s, 0, y)
    BY <1>1, <2>1, PiecesMeet
  <2>3. Piece(s, 0, y) \o Piece(s, y, Len(s)) = Piece(s, 0, Len(s))
    BY <1>1, <2>1, PiecesMeet
  <2> QED BY <1>6, <2>2, <2>3
<1>8. (\A id \in 0..Bound : Audio(EndName(c, id)) = <<>>)
        => OnDisk(c) = Piece(s, 0, x)
  <2> SUFFICES ASSUME \A id \in 0..Bound : Audio(EndName(c, id)) = <<>>
               PROVE  OnDisk(c) = Piece(s, 0, x)
    OBVIOUS
  <2>1. /\ x <= x /\ x <= Len(s)
        /\ \A id \in 0..Bound :
             Audio(EndName(c, id)) = IF id = f THEN Piece(s, x, x) ELSE <<>>
    BY <1>1, <1>6
  <2> QED BY <1>1, <1>5, <2>1
<1>9. CASE /\ buffers[c] = Trailing(c) /\ ~Ending(c)
           /\ \A id \in 0..Bound : Audio(EndName(c, id)) = <<>>
  <2>1. OnDisk(c) = Piece(s, 0, x)
    BY <1>8, <1>9
  <2>2. Unwritten(c) = Piece(s, x, y)
    BY <1>2, <1>4, <1>6, <1>9
  <2> QED BY <1>3, <1>6, <1>7, <1>9, <2>1, <2>2 DEF s
<1>10. CASE /\ buffers[c] = <<>> /\ Ending(c)
            /\ \A id \in 0..Bound : Audio(EndName(c, id)) = <<>>
  <2>1. OnDisk(c) = Piece(s, 0, y)
    BY <1>2, <1>8, <1>10
  <2>2. Unwritten(c) = Piece(s, y, Len(s))
    BY <1>4, <1>10
  <2> QED BY <1>6, <1>7, <1>10, <2>1, <2>2 DEF s
<1>11. CASE /\ buffers[c] = <<>> /\ ~Ending(c) /\ ~Recording
            /\ \A id \in 0..Bound :
                 Audio(EndName(c, id))
                   = IF id = segments[c] THEN Trailing(c) ELSE <<>>
  <2>1. ~Cut(c)
    BY <1>11 DEF Recording
  <2>2. x = y /\ f = segments[c]
    BY <1>2, <2>1, Places DEF f
  <2>3. OnDisk(c) = s
    <3>1. Len(s) <= Len(s) /\ x <= Len(s)
      BY <1>1, <2>2
    <3>2. \A id \in 0..Bound :
            Audio(EndName(c, id))
              = IF id = f THEN Piece(s, x, Len(s)) ELSE <<>>
      BY <1>3, <1>11, <2>2
    <3> QED BY <1>1, <1>5, <1>6, <3>1, <3>2
  <2>4. Unwritten(c) = <<>>
    BY <1>4, <1>11, <2>1
  <2> QED BY <1>1, <1>6, <1>11, <2>3, <2>4 DEF s
<1> QED BY <1>9, <1>10, <1>11 DEF DumpInv, TrailingKept

-----------------------------------------------------------------------------
(* The theorems                                                            *)

(* The recording of a boot is what the thread took, in its order: what its *)
(* files hold, then the files _flush_full_segment has cut and not written, *)
(* then _buffers[channel].  It holds of every channel, through boots that  *)
(* end anywhere and leave their files under the same names.                *)
THEOREM RecordingIsKept == Spec => []RecordingInOrder
<1>1. DumpInv => RecordingInOrder
  BY PlacesFollow DEF RecordingInOrder
<1> QED BY <1>1, AlwaysDumpInv, PTL

(* A thread that left run() after stop() has written everything it took,   *)
(* what _flush_end found in the buffer of each channel included.           *)
THEOREM StopWritesAll == Spec => []StopFlushes
<1>1. DumpInv => StopFlushes
  <2> SUFFICES ASSUME DumpInv, pc = "done", NEW c \in Channels
               PROVE  OnDisk(c) = taken[c]
    BY DEF StopFlushes
  <2>1. /\ OnDisk(c) \in Seq(Nat)
        /\ OnDisk(c) \o Unwritten(c) \o buffers[c] = taken[c]
    BY PlacesFollow
  <2>2. written = <<>> /\ flushing = {}
    BY DEF DumpInv, Phases
  <2>3. ~Cut(c) /\ ~Ending(c) /\ ~Recording
    BY <2>2, NoneAtHand DEF Recording
  <2>4. Unwritten(c) = <<>>
    BY <2>3, NoneIsUnwritten
  <2>5. buffers[c] = <<>>
    BY <2>2, <2>3 DEF DumpInv, Phases
  <2> QED BY <2>1, <2>4, <2>5, ConcatEmptySeq
<1> QED BY <1>1, AlwaysDumpInv, PTL

(* atomic_sf_write: no step of a write and no death of the process, before *)
(* it, in it or after it, shows a torn file to a reader or to the next     *)
(* boot; and a power loss, nothing else, may.                              *)
THEOREM NeverTorn == Spec => OnlyPowerTears
<1> DEFINE Whole == \A n \in Names : files'[n] = Torn => files[n] = Torn
<1>1. DumpInv /\ [Next]_vars => [~PowerLoss => Whole]_vars
  <2> SUFFICES ASSUME DumpInv, [Next]_vars, ~PowerLoss PROVE Whole
    OBVIOUS
  <2>1. CASE Replace
    BY <2>1, ReplaceIs
  <2>2. ASSUME NEW c \in Channels, Copy(c) \/ FlushEnd(c)
        PROVE  files' = files
    BY <2>2 DEF Copy, FlushEnd
  <2>3. CASE Stop \/ CheckStop \/ Empty \/ Take \/ BeginWrite \/ EndWrite
    BY <2>3 DEF Stop, CheckStop, Empty, Take, BeginWrite, EndWrite
  <2>4. CASE WriteFails \/ Done \/ ProcessDies
    BY <2>4 DEF WriteFails, Done, ProcessDies
  <2>5. ASSUME NEW n \in Names, Settle(n)
        PROVE  files' = files
    BY <2>5 DEF Settle
  <2>6. CASE UNCHANGED vars
    BY <2>6 DEF vars
  <2> QED BY <2>1, <2>2, <2>3, <2>4, <2>5, <2>6 DEF Next
<1>2. Spec => [][~PowerLoss => Whole]_vars
  BY <1>1, AlwaysDumpInv, PTL DEF Spec
<1> QED BY <1>2 DEF OnlyPowerTears
=============================================================================
