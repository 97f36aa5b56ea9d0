------------------------- MODULE ChannelRouterProofs -------------------------
(***************************************************************************)
(* What the router does to a channel's audio, in module ChannelRouter, for *)
(* frames of any two sizes, any queues and jitter, streams of any length   *)
(* and any number of replaced routers.                                     *)
(***************************************************************************)
EXTENDS ChannelRouter, WellFoundedInduction, TLAPS

(* Arithmetic *)

LEMMA Product ==
  ASSUME NEW i \in Int, NEW j \in Int, NEW d \in Nat
  PROVE  /\ i * d \in Int /\ (i + 1) * d = i * d + d
         /\ i <= j => i * d <= j * d
         /\ i \in Nat => i * d \in Nat
         /\ (i + j) * d = i * d + j * d
OBVIOUS

LEMMA DivMod ==
  ASSUME NEW x \in Nat, NEW d \in Nat \ {0}
  PROVE  /\ x \div d \in Nat /\ x % d \in 0..d - 1
         /\ x = (x \div d) * d + (x % d)
OBVIOUS

LEMMA DivModIs ==
  ASSUME NEW x \in Nat, NEW d \in Nat \ {0}, NEW q \in Nat, NEW r \in 0..d - 1,
         x = q * d + r
  PROVE  x \div d = q /\ x % d = r
OBVIOUS

-----------------------------------------------------------------------------
(* Cutting audio into frames                                               *)

Whole(audio) == Len(audio) \div OutgoingUnits

(* The position before the i-th frame, and the one before packet k. *)
Start(i) == (i - 1) * OutgoingUnits
First(k) == (k - 1) * IncomingUnits

LEMMA StartIs ==
  /\ OutgoingUnits \in Nat \ {0}
  /\ Start(1) = 0
  /\ \A i \in Nat \ {0} :
       /\ Start(i) \in Nat /\ Start(i + 1) = Start(i) + OutgoingUnits
       /\ Start(i + 1) = i * OutgoingUnits
  /\ \A i, j \in Nat \ {0} : i < j => Start(i) + OutgoingUnits <= Start(j)
<1>1. OutgoingUnits \in Nat /\ OutgoingUnits \in Nat \ {0}
  BY RouterAssumption
<1>2. ASSUME NEW i \in Nat \ {0}
      PROVE  /\ Start(i) \in Nat /\ Start(i + 1) = Start(i) + OutgoingUnits
             /\ Start(i + 1) = i * OutgoingUnits
  <2>1. /\ i - 1 \in Nat /\ i - 1 + 1 = i /\ i + 1 - 1 = i
    OBVIOUS
  <2>2. /\ (i - 1) * OutgoingUnits \in Nat
        /\ i * OutgoingUnits = (i - 1) * OutgoingUnits + OutgoingUnits
    BY <1>1, <2>1, Product
  <2> QED BY <2>1, <2>2 DEF Start
<1>3. ASSUME NEW i \in Nat \ {0}, NEW j \in Nat \ {0}, i < j
      PROVE  Start(i) + OutgoingUnits <= Start(j)
  <2>1. i \in Int /\ j - 1 \in Int /\ i <= j - 1
    BY <1>3
  <2>2. i * OutgoingUnits <= (j - 1) * OutgoingUnits
    BY <1>1, <2>1, Product
  <2> QED BY <1>2, <2>2 DEF Start
<1>4. Start(1) = 0
  BY <1>1 DEF Start
<1> QED BY <1>1, <1>2, <1>3, <1>4

LEMMA FirstIs ==
  /\ IncomingUnits \in Nat \ {0}
  /\ \A k \in Nat \ {0} :
       /\ First(k) \in Nat /\ First(k + 1) = First(k) + IncomingUnits
       /\ k * IncomingUnits = First(k) + IncomingUnits
  /\ \A k, n \in Nat \ {0} : k < n => First(k) + IncomingUnits <= First(n)
<1>1. IncomingUnits \in Nat /\ IncomingUnits \in Nat \ {0}
  BY RouterAssumption
<1>2. ASSUME NEW k \in Nat \ {0}
      PROVE  /\ First(k) \in Nat /\ First(k + 1) = First(k) + IncomingUnits
             /\ k * IncomingUnits = First(k) + IncomingUnits
  <2>1. /\ k - 1 \in Nat /\ k - 1 + 1 = k /\ k + 1 - 1 = k
    OBVIOUS
  <2>2. /\ (k - 1) * IncomingUnits \in Nat
        /\ k * IncomingUnits = (k - 1) * IncomingUnits + IncomingUnits
    BY <1>1, <2>1, Product
  <2> QED BY <2>1, <2>2 DEF First
<1>3. ASSUME NEW k \in Nat \ {0}, NEW n \in Nat \ {0}, k < n
      PROVE  First(k) + IncomingUnits <= First(n)
  <2>1. k \in Int /\ n - 1 \in Int /\ k <= n - 1
    BY <1>3
  <2>2. k * IncomingUnits <= (n - 1) * IncomingUnits
    BY <1>1, <2>1, Product
  <2> QED BY <1>2, <2>2 DEF First
<1> QED BY <1>1, <1>2, <1>3

(* The units that packet k carries. *)
Brought(k) == First(k) + 1..First(k) + IncomingUnits

LEMMA PacketIs ==
  ASSUME NEW k \in Nat \ {0}, NEW u \in Brought(k)
  PROVE  u \in Nat \ {0} /\ PacketOf(u) = k
<1>1. /\ First(k) \in Nat /\ IncomingUnits \in Nat \ {0}
      /\ k - 1 \in Nat /\ First(k) = (k - 1) * IncomingUnits
  BY FirstIs DEF First
<1>2. /\ u \in Nat \ {0} /\ u - 1 \in Nat
      /\ u - 1 - First(k) \in 0..IncomingUnits - 1
      /\ u - 1 = First(k) + (u - 1 - First(k))
  BY <1>1 DEF Brought
<1>3. (u - 1) \div IncomingUnits = k - 1
  BY <1>1, <1>2, DivModIs
<1> QED BY <1>2, <1>3 DEF PacketOf

LEMMA SamplesAre ==
  ASSUME NEW k \in Nat \ {0}
  PROVE  /\ Samples(k) \in Seq(Nat) /\ Len(Samples(k)) = IncomingUnits
         /\ \A i \in 1..IncomingUnits :
              Samples(k)[i] = First(k) + i /\ First(k) + i \in Brought(k)
<1>1. First(k) \in Nat /\ IncomingUnits \in Nat \ {0}
  BY FirstIs
<1>2. Samples(k) = [i \in 1..IncomingUnits |-> First(k) + i]
  BY DEF Samples, First
<1> QED BY <1>1, <1>2 DEF Brought

LEMMA SubSeqIs ==
  ASSUME NEW s \in Seq(Nat), NEW a \in Nat, NEW b \in Nat,
         a <= b, b <= Len(s)
  PROVE  /\ SubSeq(s, a + 1, b) \in Seq(Nat)
         /\ Len(SubSeq(s, a + 1, b)) = b - a
         /\ \A j \in 1..b - a : SubSeq(s, a + 1, b)[j] = s[a + j]
<1>1. Len(s) \in Nat /\ a + 1 \in 1..Len(s) + 1 /\ b \in a..Len(s)
  OBVIOUS
<1>2. SubSeq(s, a + 1, b) = [j \in 1..b - a |-> s[a + j]]
  BY <1>1
<1>3. \A j \in 1..b - a : s[a + j] \in Nat
  BY <1>1
<1>4. b - a \in Nat
  OBVIOUS
<1> QED BY <1>2, <1>3, <1>4

LEMMA CarryIs ==
  ASSUME NEW s \in Seq(Nat)
  PROVE  /\ Whole(s) \in Nat
         /\ Carry(s) \in Seq(Nat) /\ Len(Carry(s)) = Len(s) % OutgoingUnits
         /\ Start(Whole(s) + 1) \in Nat
         /\ Len(s) = Start(Whole(s) + 1) + Len(Carry(s))
         /\ Len(Carry(s)) < OutgoingUnits
         /\ \A j \in 1..Len(Carry(s)) :
              Carry(s)[j] = s[Start(Whole(s) + 1) + j]
<1> DEFINE q == Whole(s)
           o == q * OutgoingUnits
<1>1. /\ Len(s) \in Nat /\ OutgoingUnits \in Nat /\ OutgoingUnits \in Nat \ {0}
  BY RouterAssumption
<1>2. /\ q \in Nat /\ Len(s) % OutgoingUnits \in 0..OutgoingUnits - 1
      /\ Len(s) = o + (Len(s) % OutgoingUnits)
  BY <1>1, DivMod DEF Whole
<1>3. o \in Nat
  BY <1>1, <1>2, Product
<1>4. Carry(s) = SubSeq(s, o + 1, Len(s))
  BY DEF Carry, Whole
<1>5. Start(q + 1) = o
  BY <1>2 DEF Start
<1>10. PICK r : r = Len(s) % OutgoingUnits
  OBVIOUS
<1>11. r \in 0..OutgoingUnits - 1 /\ Len(s) = o + r
  BY <1>2, <1>10
<1> HIDE DEF o, q
<1>6. /\ Carry(s) \in Seq(Nat) /\ Len(Carry(s)) = Len(s) - o
      /\ \A j \in 1..Len(s) - o : Carry(s)[j] = s[o + j]
  <2> DEFINE e == Len(s)
             d == SubSeq(s, o + 1, e)
  <2>1. o \in Nat /\ e \in Nat /\ o <= e /\ e <= Len(s)
    BY <1>1, <1>3, <1>11
  <2> HIDE DEF e
  <2>2. d \in Seq(Nat) /\ Len(d) = e - o
        /\ \A j \in 1..e - o : d[j] = s[o + j]
    BY <2>1, SubSeqIs
  <2> QED BY <1>4, <2>2 DEF e
<1>7. Len(Carry(s)) = r
  BY <1>1, <1>3, <1>6, <1>11
<1>8. Len(s) = o + Len(Carry(s)) /\ Len(Carry(s)) < OutgoingUnits
  BY <1>1, <1>7, <1>11
<1>9. /\ q \in Nat /\ Start(q + 1) \in Nat
      /\ Len(s) = Start(q + 1) + Len(Carry(s))
      /\ \A j \in 1..Len(Carry(s)) : Carry(s)[j] = s[Start(q + 1) + j]
  BY <1>2, <1>3, <1>5, <1>6, <1>8
<1> QED BY <1>6, <1>7, <1>8, <1>9, <1>10 DEF q

LEMMA FrameIs ==
  ASSUME NEW s \in Seq(Nat), NEW i \in 1..Whole(s)
  PROVE  /\ FrameAudio(s, i) \in Seq(Nat)
         /\ Len(FrameAudio(s, i)) = OutgoingUnits
         /\ Start(i) \in Nat
         /\ Start(i) + OutgoingUnits <= Start(Whole(s) + 1)
         /\ \A j \in 1..OutgoingUnits : FrameAudio(s, i)[j] = s[Start(i) + j]
<1>1. /\ OutgoingUnits \in Nat \ {0} /\ Whole(s) \in Nat
      /\ Start(Whole(s) + 1) \in Nat /\ Start(Whole(s) + 1) <= Len(s)
      /\ i \in Nat \ {0} /\ Whole(s) + 1 \in Nat \ {0} /\ i < Whole(s) + 1
      /\ Len(s) \in Nat
  <2>1. /\ OutgoingUnits \in Nat \ {0} /\ Whole(s) \in Nat
        /\ Start(Whole(s) + 1) \in Nat
        /\ Len(s) = Start(Whole(s) + 1) + Len(Carry(s))
        /\ Len(Carry(s)) \in Nat
    BY StartIs, CarryIs
  <2> QED BY <2>1
<1>2. /\ Start(i) \in Nat /\ i * OutgoingUnits = Start(i) + OutgoingUnits
      /\ Start(i) + OutgoingUnits <= Start(Whole(s) + 1)
  BY <1>1, StartIs
<1>3. FrameAudio(s, i) = SubSeq(s, Start(i) + 1, Start(i) + OutgoingUnits)
  BY <1>2 DEF FrameAudio, Start
<1>4. Start(i) + OutgoingUnits <= Len(s)
  BY <1>1, <1>2
<1>5. Start(i) + OutgoingUnits - Start(i) = OutgoingUnits
  BY <1>1, <1>2
<1>6. /\ FrameAudio(s, i) \in Seq(Nat)
      /\ Len(FrameAudio(s, i)) = OutgoingUnits
      /\ \A j \in 1..OutgoingUnits : FrameAudio(s, i)[j] = s[Start(i) + j]
  <2> DEFINE e == Start(i) + OutgoingUnits
  <2>1. /\ e \in Nat /\ Start(i) <= e /\ e <= Len(s)
        /\ e - Start(i) = OutgoingUnits
    <3>1. Start(i) \in Nat /\ OutgoingUnits \in Nat
      BY <1>1, <1>2
    <3> QED BY <1>4, <3>1
  <2>2. FrameAudio(s, i) = SubSeq(s, Start(i) + 1, e)
    BY <1>3
  <2> HIDE DEF e
  <2>3. /\ SubSeq(s, Start(i) + 1, e) \in Seq(Nat)
        /\ Len(SubSeq(s, Start(i) + 1, e)) = e - Start(i)
        /\ \A j \in 1..e - Start(i) :
             SubSeq(s, Start(i) + 1, e)[j] = s[Start(i) + j]
    BY <1>2, <2>1, SubSeqIs
  <2> QED BY <2>1, <2>2, <2>3
<1> QED BY <1>2, <1>6

(* Every position is in a frame or in the carry. *)
LEMMA CutCovers ==
  ASSUME NEW s \in Seq(Nat), NEW x \in 1..Len(s)
  PROVE  \/ \E j \in 1..Len(Carry(s)) : x = Start(Whole(s) + 1) + j
         \/ \E i \in 1..Whole(s), j \in 1..OutgoingUnits : x = Start(i) + j
<1> DEFINE o == Start(Whole(s) + 1)
           q == (x - 1) \div OutgoingUnits
           r == (x - 1) % OutgoingUnits
<1>1. /\ OutgoingUnits \in Nat \ {0} /\ OutgoingUnits \in Nat
      /\ Whole(s) \in Nat /\ o \in Nat
      /\ Len(s) = o + Len(Carry(s)) /\ Len(Carry(s)) \in Nat /\ x - 1 \in Nat
      /\ o = Whole(s) * OutgoingUnits
  <2>1. /\ Whole(s) \in Nat /\ Carry(s) \in Seq(Nat) /\ o \in Nat
        /\ Len(s) = o + Len(Carry(s))
    BY CarryIs
  <2>2. OutgoingUnits \in Nat \ {0} /\ OutgoingUnits \in Nat
    BY RouterAssumption
  <2>3. x - 1 \in Nat /\ Len(Carry(s)) \in Nat
    BY <2>1
  <2>4. o = Whole(s) * OutgoingUnits
    BY <2>1 DEF Start
  <2> QED BY <2>1, <2>2, <2>3, <2>4
<1>2. /\ q \in Nat /\ r \in 0..OutgoingUnits - 1
      /\ x - 1 = q * OutgoingUnits + r
  BY <1>1, DivMod
<1>3. q * OutgoingUnits \in Nat /\ Start(q + 1) = q * OutgoingUnits
  BY <1>1, <1>2, Product DEF Start
<1>4. CASE x > o
  <2> HIDE DEF o, q, r
  <2>1. x - o \in 1..Len(Carry(s)) /\ x = o + (x - o)
    <3>1. /\ o \in Nat /\ Len(Carry(s)) \in Nat /\ x \in Nat
          /\ x <= o + Len(Carry(s))
      BY <1>1
    <3> QED BY <1>4, <3>1
  <2>2. \E j \in 1..Len(Carry(s)) : x = o + j
    BY <2>1
  <2> QED BY <2>2 DEF o
<1>5. CASE x <= o
  <2>1. ~(Whole(s) <= q)
    <3> SUFFICES ASSUME Whole(s) <= q PROVE FALSE
      OBVIOUS
    <3>1. o <= q * OutgoingUnits
      BY <1>1, <1>2, Product
    <3> HIDE DEF o, q, r
    <3> QED BY <1>1, <1>2, <1>3, <1>5, <3>1
  <2> HIDE DEF o, q, r
  <2>2. q + 1 \in 1..Whole(s) /\ r + 1 \in 1..OutgoingUnits
        /\ x = Start(q + 1) + (r + 1)
    BY <1>1, <1>2, <1>3, <2>1
  <2> QED BY <2>2
<1> QED BY <1>1, <1>4, <1>5

-----------------------------------------------------------------------------
(* The invariant                                                           *)

Ordered(s) == \A i, j \in 1..Len(s) : i < j => s[i] < s[j]

Precedes(s, t) == \A i \in 1..Len(s), j \in 1..Len(t) : s[i] < t[j]

Packets == [channel : Channels, number : Nat \ {0}, timestamp : Nat,
            valid : BOOLEAN]

Frames == [channel : Channels, audio : Seq(Nat), timestamp : Nat]

RouterTypeOK ==
  /\ sent \in [Channels -> Nat]
  /\ ingest \in Seq(Packets)
  /\ buffer \in [Channels -> Seq(Nat)] /\ start_ts \in [Channels -> Nat]
  /\ outgoing \in Seq(Frames)
  /\ pc \in {"check", "get"} => outgoing = <<>>
  /\ routed \in Seq(Frames) /\ dropped \in Seq(Frames)
  /\ accepted \in [Channels -> SUBSET (Nat \ {0})]
  /\ lost \in [Channels -> SUBSET Nat]

(* A packet that waits is younger than what its channel had accepted, and  *)
(* stamped up to the jitter after the capture of its last unit.            *)
IngestInOrder ==
  /\ \A i \in 1..Len(ingest) :
       LET p == ingest[i]
       IN  /\ p.number <= sent[p.channel]
           /\ p.timestamp \in First(p.number) + IncomingUnits
                                ..First(p.number) + IncomingUnits + Jitter
           /\ \A k \in accepted[p.channel] : k < p.number
           /\ \A j \in 1..Len(ingest) :
                i < j /\ ingest[j].channel = p.channel =>
                  p.number < ingest[j].number
  /\ \A c \in Channels : \A k \in accepted[c] : k <= sent[c]

(* A unit that an accepted packet brought. *)
Comes(u, acc) == \E k \in acc : u \in Brought(k)

FrameKept(f, acc) ==
  /\ Len(f.audio) = OutgoingUnits /\ Ordered(f.audio)
  /\ \A j \in 1..OutgoingUnits : Comes(f.audio[j], acc)

Recent(first) == {k \in 1..PacketOf(first) : k > PacketOf(first) - Window}

(* Stamped with the capture time of unit u, up to the jitter. *)
OnTime(t, u) == t - u - (IncomingUnits - 1) \in 0..Jitter

Timely(f, acc) ==
  Recent(f.audio[1]) \subseteq acc => OnTime(f.timestamp, f.audio[1])

FramesKept ==
  /\ \A i \in 1..Len(routed) :
       /\ FrameKept(routed[i], accepted[routed[i].channel])
       /\ Timely(routed[i], accepted[routed[i].channel])
  /\ \A i \in 1..Len(outgoing) :
       /\ FrameKept(outgoing[i], accepted[outgoing[i].channel])
       /\ Timely(outgoing[i], accepted[outgoing[i].channel])

(* The carry ends where the last accepted packet does. *)
CarryKept ==
  \A c \in Channels :
    /\ Ordered(buffer[c]) /\ Len(buffer[c]) < OutgoingUnits
    /\ \A j \in 1..Len(buffer[c]) : Comes(buffer[c][j], accepted[c])
    /\ \A j \in 1..Len(buffer[c]), k \in accepted[c] :
         j = Len(buffer[c]) => First(k) + IncomingUnits <= buffer[c][j]

Behind(f, g) == f.channel = g.channel => Precedes(f.audio, g.audio)

HeldInOrder ==
  /\ \A i, j \in 1..Len(routed) : i < j => Behind(routed[i], routed[j])
  /\ \A i, j \in 1..Len(outgoing) : i < j => Behind(outgoing[i], outgoing[j])
  /\ \A i \in 1..Len(routed), j \in 1..Len(outgoing) :
       Behind(routed[i], outgoing[j])
  /\ \A i \in 1..Len(routed) :
       Precedes(routed[i].audio, buffer[routed[i].channel])
  /\ \A i \in 1..Len(outgoing) :
       Precedes(outgoing[i].audio, buffer[outgoing[i].channel])

(* The clock of audio s, which starts at t, was set by packet a; g packets *)
(* were accepted since, a included.  Where none after a was lost, its      *)
(* units have their capture times.                                         *)
Clocked(s, t, acc, a, g) ==
  /\ \A n \in Nat : n - g + 1..n \subseteq acc => n - g + 1 <= a
  /\ \A x \in 1..Len(s) :
       /\ a <= PacketOf(s[x])
       /\ a..PacketOf(s[x]) \subseteq acc => OnTime(t + (x - 1), s[x])

ClockKept ==
  \A c \in Channels : buffer[c] # <<>> =>
    \E a \in Nat \ {0}, g \in 1..Window - 1 :
      /\ Clocked(buffer[c], start_ts[c], accepted[c], a, g)
      /\ Len(buffer[c]) = (g * IncomingUnits) % OutgoingUnits

RouterInv ==
  /\ RouterTypeOK /\ IngestInOrder
  /\ FramesKept /\ CarryKept /\ HeldInOrder /\ ClockKept
  /\ AudioAccounted

-----------------------------------------------------------------------------
(* One packet joins the carry                                              *)

(* After Window packets the carry is empty again. *)
LEMMA WindowIs ==
  /\ Window \in 1..OutgoingUnits
  /\ (Window * IncomingUnits) % OutgoingUnits = 0
<1> DEFINE Ends(w) == (w * IncomingUnits) % OutgoingUnits = 0
           S == {w \in 1..OutgoingUnits : Ends(w)}
<1>1. /\ OutgoingUnits \in Nat \ {0} /\ IncomingUnits \in Nat
      /\ OutgoingUnits * IncomingUnits \in Nat
      /\ OutgoingUnits * IncomingUnits = IncomingUnits * OutgoingUnits + 0
  BY RouterAssumption
<1>2. Ends(OutgoingUnits)
  <2>1. 0 \in 0..OutgoingUnits - 1
    BY <1>1
  <2> QED BY <1>1, <2>1, DivModIs
<1> HIDE DEF Ends
<1>3. S \in SUBSET Nat /\ OutgoingUnits \in S
  BY <1>1, <1>2
<1>4. PICK w \in S : \A v \in S : ~(<<v, w>> \in OpToRel(<, Nat))
  BY <1>3, NatLessThanWellFounded, WFMin
<1>5. \A v \in 1..w - 1 : ~Ends(v)
  <2> SUFFICES ASSUME NEW v \in 1..w - 1, Ends(v) PROVE FALSE
    OBVIOUS
  <2>1. v \in S /\ v \in Nat /\ w \in Nat /\ v < w
    BY <1>1
  <2>2. <<v, w>> \in OpToRel(<, Nat)
    BY <2>1 DEF OpToRel
  <2> QED BY <1>4, <2>1, <2>2
<1>6. w \in 1..OutgoingUnits /\ Ends(w)
  OBVIOUS
<1>7. \E v \in 1..OutgoingUnits :
        /\ (v * IncomingUnits) % OutgoingUnits = 0
        /\ \A u \in 1..v - 1 : (u * IncomingUnits) % OutgoingUnits # 0
  BY <1>5, <1>6 DEF Ends
<1> QED BY <1>7 DEF Window

LEMMA ComesBefore ==
  ASSUME NEW acc \in SUBSET (Nat \ {0}), NEW n \in Nat \ {0},
         \A k \in acc : k < n, NEW u, Comes(u, acc)
  PROVE  u \in Nat /\ u <= First(n) /\ PacketOf(u) \in acc
<1>1. PICK k \in acc : u \in Brought(k)
  BY DEF Comes
<1>2. /\ First(k) \in Nat /\ First(n) \in Nat
      /\ First(k) + IncomingUnits <= First(n) /\ IncomingUnits \in Nat
  BY FirstIs
<1>3. u \in Nat /\ u <= First(n)
  BY <1>1, <1>2 DEF Brought
<1>4. PacketOf(u) = k
  BY <1>1, PacketIs
<1> QED BY <1>3, <1>4

LEMMA JoinIs ==
  ASSUME NEW s \in Seq(Nat), NEW n \in Nat \ {0}
  PROVE  LET w == s \o Samples(n)
         IN  /\ w \in Seq(Nat) /\ Len(w) = Len(s) + IncomingUnits
             /\ \A x \in 1..Len(s) : w[x] = s[x]
             /\ \A i \in 1..IncomingUnits : w[Len(s) + i] = First(n) + i
             /\ \A x \in 1..Len(w) :
                  x \in 1..Len(s) \/ \E i \in 1..IncomingUnits : x = Len(s) + i
<1> DEFINE w == s \o Samples(n)
<1>1. /\ Samples(n) \in Seq(Nat) /\ Len(Samples(n)) = IncomingUnits
      /\ \A i \in 1..IncomingUnits : Samples(n)[i] = First(n) + i
      /\ IncomingUnits \in Nat
  BY SamplesAre, FirstIs
<1>2. /\ w \in Seq(Nat) /\ Len(w) = Len(s) + IncomingUnits
      /\ Len(s) \in Nat
      /\ \A x \in 1..Len(s) : w[x] = s[x]
      /\ \A i \in 1..IncomingUnits : w[Len(s) + i] = Samples(n)[i]
  <2> DEFINE m == Samples(n)
  <2>1. m \in Seq(Nat) /\ Len(m) = IncomingUnits
    BY <1>1
  <2> HIDE DEF m
  <2>2. /\ s \o m \in Seq(Nat) /\ Len(s \o m) = Len(s) + Len(m)
        /\ Len(s) \in Nat
        /\ \A x \in 1..Len(s) : (s \o m)[x] = s[x]
        /\ \A i \in 1..Len(m) : (s \o m)[Len(s) + i] = m[i]
    BY <2>1
  <2> QED BY <2>1, <2>2 DEF m
<1>3. ASSUME NEW x \in 1..Len(w), x \notin 1..Len(s)
      PROVE  \E i \in 1..IncomingUnits : x = Len(s) + i
  <2> HIDE DEF w
  <2>1. x - Len(s) \in 1..IncomingUnits /\ x = Len(s) + (x - Len(s))
    BY <1>1, <1>2, <1>3
  <2> QED BY <2>1
<1> QED BY <1>1, <1>2, <1>3

LEMMA JoinOrdered ==
  ASSUME NEW acc \in SUBSET (Nat \ {0}), NEW n \in Nat \ {0},
         \A k \in acc : k < n, NEW s \in Seq(Nat), Ordered(s),
         \A j \in 1..Len(s) : Comes(s[j], acc)
  PROVE  /\ Ordered(s \o Samples(n))
         /\ \A x \in 1..Len(s \o Samples(n)) :
              Comes((s \o Samples(n))[x], acc \cup {n})
         /\ (s \o Samples(n))[Len(s \o Samples(n))] = First(n) + IncomingUnits
<1> DEFINE w == s \o Samples(n)
<1>1. /\ w \in Seq(Nat) /\ Len(w) = Len(s) + IncomingUnits
      /\ \A x \in 1..Len(s) : w[x] = s[x]
      /\ \A i \in 1..IncomingUnits : w[Len(s) + i] = First(n) + i
      /\ \A x \in 1..Len(w) :
           x \in 1..Len(s) \/ \E i \in 1..IncomingUnits : x = Len(s) + i
  BY JoinIs
<1>2. First(n) \in Nat /\ IncomingUnits \in Nat \ {0} /\ Len(s) \in Nat
  <2>1. Len(s) \in Nat
    OBVIOUS
  <2> QED BY <2>1, FirstIs
<1> HIDE DEF w
<1>3. \A j \in 1..Len(s) : s[j] \in Nat /\ s[j] <= First(n)
  BY ComesBefore
<1>4. ASSUME NEW x \in 1..Len(w), NEW y \in 1..Len(w), x < y
      PROVE  w[x] < w[y]
  <2>1. CASE y \in 1..Len(s)
    <3>1. x \in 1..Len(s)
      BY <1>2, <1>4, <2>1
    <3> QED BY <1>1, <1>4, <2>1, <3>1 DEF Ordered
  <2>2. ASSUME NEW i \in 1..IncomingUnits, y = Len(s) + i
        PROVE  w[x] < w[y]
    <3>1. w[y] = First(n) + i
      BY <1>1, <2>2
    <3>2. CASE x \in 1..Len(s)
      <4>1. w[x] = s[x] /\ s[x] \in Nat /\ s[x] <= First(n)
        BY <1>1, <1>3, <3>2
      <4> QED BY <1>2, <3>1, <4>1
    <3>3. ASSUME NEW j \in 1..IncomingUnits, x = Len(s) + j
          PROVE  w[x] < w[y]
      <4>1. j < i
        BY <1>2, <1>4, <2>2, <3>3
      <4>2. w[x] = First(n) + j
        BY <1>1, <3>3
      <4> QED BY <1>2, <3>1, <4>1, <4>2
    <3> QED BY <1>1, <3>2, <3>3
  <2> QED BY <1>1, <2>1, <2>2
<1>5. ASSUME NEW x \in 1..Len(w)
      PROVE  Comes(w[x], acc \cup {n})
  <2>1. CASE x \in 1..Len(s)
    BY <1>1, <2>1 DEF Comes
  <2>2. ASSUME NEW i \in 1..IncomingUnits, x = Len(s) + i
        PROVE  Comes(w[x], acc \cup {n})
    <3>1. w[x] \in Brought(n)
      BY <1>1, <2>2, SamplesAre
    <3> QED BY <3>1 DEF Comes
  <2> QED BY <1>1, <2>1, <2>2
<1>6. w[Len(w)] = First(n) + IncomingUnits
  <2>1. IncomingUnits \in 1..IncomingUnits
    BY <1>2
  <2> QED BY <1>1, <2>1
<1>7. Ordered(w)
  BY <1>4 DEF Ordered
<1> QED BY <1>5, <1>6, <1>7 DEF w


(* The clock is taken from the packet. *)
LEMMA ClockedStarts ==
  ASSUME NEW acc \in SUBSET (Nat \ {0}), NEW n \in Nat \ {0},
         \A k \in acc : k < n, NEW t \in Nat,
         t \in First(n) + IncomingUnits..First(n) + IncomingUnits + Jitter
  PROVE  Clocked(Samples(n), t, acc \cup {n}, n, 1)
<1>1. /\ Len(Samples(n)) = IncomingUnits
      /\ \A i \in 1..IncomingUnits :
           Samples(n)[i] = First(n) + i /\ First(n) + i \in Brought(n)
      /\ First(n) \in Nat /\ IncomingUnits \in Nat \ {0} /\ Jitter \in Nat
  BY SamplesAre, FirstIs, RouterAssumption
<1>2. ASSUME NEW m \in Nat, m - 1 + 1..m \subseteq acc \cup {n}
      PROVE  m - 1 + 1 <= n
  <2>1. m \in m - 1 + 1..m
    OBVIOUS
  <2>2. m \in acc \cup {n}
    BY <1>2, <2>1
  <2> QED BY <2>2
<1>3. ASSUME NEW x \in 1..IncomingUnits
      PROVE  /\ n <= PacketOf(Samples(n)[x])
             /\ OnTime(t + (x - 1), Samples(n)[x])
  <2>1. PacketOf(First(n) + x) = n
    BY <1>1, PacketIs
  <2>2. t - First(n) - IncomingUnits \in 0..Jitter
    BY <1>1
  <2>3. OnTime(t + (x - 1), First(n) + x)
    <3> DEFINE u == First(n) + x
               m == t + (x - 1)
    <3>1. m - u - (IncomingUnits - 1) = t - First(n) - IncomingUnits
      BY <1>1
    <3> HIDE DEF u, m
    <3>2. OnTime(m, u)
      BY <2>2, <3>1 DEF OnTime
    <3> QED BY <3>2 DEF u, m
  <2>4. Samples(n)[x] = First(n) + x
    BY <1>1
  <2> QED BY <2>1, <2>3, <2>4
<1> QED BY <1>1, <1>2, <1>3 DEF Clocked

LEMMA OnTimeShift ==
  ASSUME NEW t \in Int, NEW u \in Int, NEW i \in Int, OnTime(t, u)
  PROVE  OnTime(t + i, u + i)
<1>1. IncomingUnits \in Nat /\ Jitter \in Nat
  BY RouterAssumption
<1>2. t + i - (u + i) - (IncomingUnits - 1) = t - u - (IncomingUnits - 1)
  BY <1>1
<1> QED BY <1>2 DEF OnTime

(* The clock goes on. *)
LEMMA ClockedExtends ==
  ASSUME NEW acc \in SUBSET (Nat \ {0}), NEW n \in Nat \ {0},
         \A k \in acc : k < n,
         NEW s \in Seq(Nat), s # <<>>, \A j \in 1..Len(s) : Comes(s[j], acc),
         \A k \in acc : First(k) + IncomingUnits <= s[Len(s)],
         NEW t \in Nat, NEW a \in Nat \ {0}, NEW g \in Nat \ {0},
         Clocked(s, t, acc, a, g)
  PROVE  Clocked(s \o Samples(n), t, acc \cup {n}, a, g + 1)
<1> DEFINE w == s \o Samples(n)
<1>0. \A k \in acc : k \in Nat \ {0} /\ k < n
  OBVIOUS
<1>1. /\ w \in Seq(Nat) /\ Len(w) = Len(s) + IncomingUnits
      /\ \A x \in 1..Len(s) : w[x] = s[x]
      /\ \A i \in 1..IncomingUnits : w[Len(s) + i] = First(n) + i
      /\ \A x \in 1..Len(w) :
           x \in 1..Len(s) \/ \E i \in 1..IncomingUnits : x = Len(s) + i
  BY JoinIs
<1>2. Len(s) \in Nat \ {0} /\ Len(s) \in 1..Len(s)
  OBVIOUS
<1>3. First(n) \in Nat /\ IncomingUnits \in Nat \ {0} /\ Jitter \in Nat
  BY FirstIs, RouterAssumption
<1> HIDE DEF w
<1>4. \A j \in 1..Len(s) : /\ s[j] \in Nat /\ s[j] <= First(n)
                           /\ PacketOf(s[j]) \in acc
  BY ComesBefore
<1>5. ASSUME NEW m \in Nat, m - (g + 1) + 1..m \subseteq acc \cup {n}
      PROVE  m - (g + 1) + 1 <= a
  <2>1. m \in m - (g + 1) + 1..m
    OBVIOUS
  <2>2. m \in acc \cup {n} /\ m <= n /\ m \in Nat \ {0}
    BY <1>0, <1>5, <2>1
  <2>3. CASE m < n
    <3>1. m - g + 1..m \subseteq acc
      BY <1>5, <2>3
    <3>2. m - g + 1 <= a
      BY <3>1 DEF Clocked
    <3> QED BY <3>2
  <2>4. CASE m = n
    <3>1. m - 1 \in Nat /\ (m - 1) - g + 1..m - 1 \subseteq acc
      BY <1>5, <2>2, <2>4
    <3>2. (m - 1) - g + 1 <= a
      BY <3>1 DEF Clocked
    <3> QED BY <3>2
  <2> QED BY <2>2, <2>3, <2>4
<1>6. ASSUME NEW x \in 1..Len(s)
      PROVE  /\ a <= PacketOf(s[x])
             /\ a..PacketOf(s[x]) \subseteq acc \cup {n} =>
                  OnTime(t + (x - 1), s[x])
  <2> DEFINE m == PacketOf(s[x])
  <2>1. m \in acc /\ m \in Nat /\ m < n
    BY <1>0, <1>4
  <2> HIDE DEF m
  <2>2. a..m \subseteq acc \cup {n} => a..m \subseteq acc
    BY <2>1
  <2> USE DEF m
  <2> QED BY <2>2 DEF Clocked
<1>7. ASSUME NEW i \in 1..IncomingUnits
      PROVE  /\ a <= PacketOf(First(n) + i)
             /\ a..PacketOf(First(n) + i) \subseteq acc \cup {n} =>
                  OnTime(t + (Len(s) + i - 1), First(n) + i)
  <2>1. PacketOf(First(n) + i) = n
    BY SamplesAre, PacketIs
  <2>2. PacketOf(s[Len(s)]) \in acc /\ a <= PacketOf(s[Len(s)])
    BY <1>2, <1>4 DEF Clocked
  <2>3. a < n /\ PacketOf(s[Len(s)]) < n /\ PacketOf(s[Len(s)]) \in Nat
    <3> DEFINE m == PacketOf(s[Len(s)])
    <3>1. m \in acc /\ a <= m
      BY <2>2
    <3> HIDE DEF m
    <3>2. a < n /\ m < n /\ m \in Nat
      BY <1>0, <3>1
    <3> QED BY <3>2 DEF m
  <2>4. ASSUME a..n \subseteq acc \cup {n}
        PROVE  OnTime(t + (Len(s) + i - 1), First(n) + i)
    <3>1. n - 1 \in Nat \ {0} /\ n - 1 \in acc
      BY <2>3, <2>4
    <3>2. s[Len(s)] = First(n)
      <4>1. First(n - 1 + 1) = First(n - 1) + IncomingUnits
        BY <3>1, FirstIs
      <4>2. n - 1 + 1 = n
        OBVIOUS
      <4>3. First(n) <= s[Len(s)]
        BY <3>1, <4>1, <4>2
      <4>4. s[Len(s)] \in Nat /\ s[Len(s)] <= First(n)
        BY <1>2, <1>4
      <4> QED BY <1>3, <4>3, <4>4
    <3>3. a..PacketOf(s[Len(s)]) \subseteq acc
      <4> DEFINE m == PacketOf(s[Len(s)])
      <4> HIDE DEF m
      <4>1. m \in Nat /\ m < n
        BY <2>3 DEF m
      <4>2. a..m \subseteq acc
        BY <2>4, <4>1
      <4> QED BY <4>2 DEF m
    <3>4. OnTime(t + (Len(s) - 1), First(n))
      BY <1>2, <3>2, <3>3 DEF Clocked
    <3>5. /\ t + (Len(s) + i - 1) = t + (Len(s) - 1) + i
          /\ t + (Len(s) - 1) \in Int /\ First(n) \in Int /\ i \in Int
      BY <1>2, <1>3
    <3> QED BY <3>4, <3>5, OnTimeShift
  <2> QED BY <2>1, <2>3, <2>4
<1>8. ASSUME NEW x \in 1..Len(w)
      PROVE  /\ a <= PacketOf(w[x])
             /\ a..PacketOf(w[x]) \subseteq acc \cup {n} =>
                  OnTime(t + (x - 1), w[x])
  <2>1. CASE x \in 1..Len(s)
    BY <1>1, <1>6, <2>1
  <2>2. ASSUME NEW i \in 1..IncomingUnits, x = Len(s) + i
        PROVE  /\ a <= PacketOf(w[x])
               /\ a..PacketOf(w[x]) \subseteq acc \cup {n} =>
                    OnTime(t + (x - 1), w[x])
    BY <1>1, <1>7, <2>2
  <2> QED BY <1>1, <2>1, <2>2
<1> QED BY <1>5, <1>8 DEF Clocked, w

(* A piece of clocked audio is clocked. *)
LEMMA ClockedPiece ==
  ASSUME NEW acc, NEW w \in Seq(Nat), NEW t \in Nat, NEW a, NEW g,
         Clocked(w, t, acc, a, g),
         NEW s \in Seq(Nat), NEW o \in Nat, o + Len(s) <= Len(w),
         \A j \in 1..Len(s) : s[j] = w[o + j]
  PROVE  Clocked(s, t + o, acc, a, g)
<1>1. ASSUME NEW x \in 1..Len(s)
      PROVE  o + x \in 1..Len(w) /\ t + (o + x - 1) = t + o + (x - 1)
  <2>1. Len(s) \in Nat /\ Len(w) \in Nat
    OBVIOUS
  <2> QED BY <2>1
<1>2. ASSUME NEW x \in 1..Len(s)
      PROVE  /\ a <= PacketOf(s[x])
             /\ a..PacketOf(s[x]) \subseteq acc =>
                  OnTime(t + o + (x - 1), s[x])
  BY <1>1 DEF Clocked
<1> QED BY <1>2 DEF Clocked

(* With Window packets in a row behind it a frame is on time. *)
LEMMA ClockedTimely ==
  ASSUME NEW acc \in SUBSET (Nat \ {0}), NEW s \in Seq(Nat), NEW t \in Nat,
         NEW a \in Nat \ {0}, NEW g \in 1..Window, Clocked(s, t, acc, a, g),
         Len(s) >= 1, PacketOf(s[1]) \in acc, Recent(s[1]) \subseteq acc
  PROVE  OnTime(t, s[1])
<1> DEFINE m == PacketOf(s[1])
<1>1. 1 \in 1..Len(s) /\ t + (1 - 1) = t
  OBVIOUS
<1>2. m \in Nat \ {0} /\ Window \in Nat /\ g \in Nat /\ g <= Window
  <2>1. \A k \in acc : k \in Nat \ {0}
    OBVIOUS
  <2>2. Window \in Nat
    BY WindowIs
  <2>3. m \in Nat \ {0}
    BY <2>1
  <2>4. g \in Nat /\ g <= Window
    BY <2>2
  <2> QED BY <2>2, <2>3, <2>4
<1>3. a..m \subseteq acc
  <2> SUFFICES ASSUME NEW k \in a..m, k \notin acc PROVE FALSE
    OBVIOUS
  <2>1. \A n \in 1..m : n > m - Window => n \in acc
    BY DEF Recent
  <2> HIDE DEF m
  <2>2. k \in 1..m /\ k <= m - Window
    BY <1>2, <2>1
  <2>3. m - g + 1..m \subseteq acc
    <3> SUFFICES ASSUME NEW n \in m - g + 1..m PROVE n \in acc
      OBVIOUS
    <3>1. n \in 1..m /\ n > m - Window
      BY <1>2, <2>2
    <3> QED BY <2>1, <3>1
  <2>4. m - g + 1 <= a
    BY <1>2, <2>3 DEF Clocked
  <2> QED BY <1>2, <2>2, <2>4
<1> QED BY <1>1, <1>3 DEF Clocked

-----------------------------------------------------------------------------
(* What is cut from ordered audio is ordered                               *)

(* s is cut from w after its first o units. *)
Piece(s, w, o) ==
  /\ s \in Seq(Nat) /\ o \in Nat /\ o + Len(s) <= Len(w)
  /\ \A j \in 1..Len(s) : s[j] = w[o + j]

LEMMA PieceIs ==
  ASSUME NEW w \in Seq(Nat), NEW s, NEW o, Piece(s, w, o)
  PROVE  /\ \A j \in 1..Len(s) : o + j \in 1..Len(w) /\ s[j] = w[o + j]
         /\ Ordered(w) => Ordered(s)
         /\ \A r : Precedes(r, w) => Precedes(r, s)
<1>1. /\ s \in Seq(Nat) /\ o \in Nat /\ Len(s) \in Nat /\ Len(w) \in Nat
      /\ o + Len(s) <= Len(w) /\ \A j \in 1..Len(s) : s[j] = w[o + j]
  <2>1. /\ s \in Seq(Nat) /\ o \in Nat
        /\ o + Len(s) <= Len(w) /\ \A j \in 1..Len(s) : s[j] = w[o + j]
    BY DEF Piece
  <2>2. Len(s) \in Nat /\ Len(w) \in Nat
    BY <2>1
  <2> QED BY <2>1, <2>2
<1>2. \A j \in 1..Len(s) : o + j \in 1..Len(w)
  BY <1>1
<1>3. \A i, j \in 1..Len(s) : i < j => o + i < o + j
  BY <1>1
<1> QED BY <1>1, <1>2, <1>3 DEF Ordered, Precedes

LEMMA PiecesAre ==
  ASSUME NEW w \in Seq(Nat)
  PROVE  /\ Piece(Carry(w), w, Start(Whole(w) + 1))
         /\ \A i \in 1..Whole(w) : Piece(FrameAudio(w, i), w, Start(i))
<1>1. Piece(Carry(w), w, Start(Whole(w) + 1))
  <2>1. /\ Carry(w) \in Seq(Nat) /\ Start(Whole(w) + 1) \in Nat
        /\ Len(w) = Start(Whole(w) + 1) + Len(Carry(w))
        /\ \A j \in 1..Len(Carry(w)) :
             Carry(w)[j] = w[Start(Whole(w) + 1) + j]
    BY CarryIs
  <2>2. Len(w) \in Nat
    OBVIOUS
  <2> QED BY <2>1, <2>2 DEF Piece
<1>2. ASSUME NEW i \in 1..Whole(w)
      PROVE  Piece(FrameAudio(w, i), w, Start(i))
  <2>1. /\ FrameAudio(w, i) \in Seq(Nat)
        /\ Len(FrameAudio(w, i)) = OutgoingUnits /\ Start(i) \in Nat
        /\ Start(i) + OutgoingUnits <= Start(Whole(w) + 1)
        /\ \A j \in 1..OutgoingUnits : FrameAudio(w, i)[j] = w[Start(i) + j]
    BY FrameIs
  <2>2. /\ Start(Whole(w) + 1) \in Nat /\ OutgoingUnits \in Nat
        /\ Len(w) = Start(Whole(w) + 1) + Len(Carry(w)) /\ Len(w) \in Nat
        /\ Len(Carry(w)) \in Nat
    <3>1. Carry(w) \in Seq(Nat)
      BY CarryIs
    <3>2. Len(Carry(w)) \in Nat /\ Len(w) \in Nat
      BY <3>1
    <3> QED BY <3>2, CarryIs, StartIs
  <2>3. Start(i) + OutgoingUnits <= Len(w)
    BY <2>1, <2>2
  <2> QED BY <2>1, <2>3 DEF Piece
<1> QED BY <1>1, <1>2

LEMMA CutOrdered ==
  ASSUME NEW w \in Seq(Nat), Ordered(w)
  PROVE  /\ Ordered(Carry(w))
         /\ \A i \in 1..Whole(w) :
              /\ Ordered(FrameAudio(w, i))
              /\ Precedes(FrameAudio(w, i), Carry(w))
              /\ \A j \in 1..Whole(w) :
                   i < j => Precedes(FrameAudio(w, i), FrameAudio(w, j))
<1>1. ASSUME NEW s, NEW o, Piece(s, w, o), NEW r, NEW q, Piece(r, w, q),
             o + Len(s) <= q
      PROVE  Precedes(s, r)
  <2> SUFFICES ASSUME NEW i \in 1..Len(s), NEW j \in 1..Len(r)
               PROVE  s[i] < r[j]
    BY DEF Precedes
  <2>1. /\ o + i \in 1..Len(w) /\ s[i] = w[o + i]
        /\ q + j \in 1..Len(w) /\ r[j] = w[q + j]
    BY <1>1, PieceIs
  <2>2. o + i < q + j
    BY <1>1 DEF Piece
  <2> QED BY <2>1, <2>2 DEF Ordered
<1>2. ASSUME NEW i \in 1..Whole(w)
      PROVE  /\ Ordered(FrameAudio(w, i))
             /\ Precedes(FrameAudio(w, i), Carry(w))
             /\ \A j \in 1..Whole(w) :
                  i < j => Precedes(FrameAudio(w, i), FrameAudio(w, j))
  <2>1. Piece(FrameAudio(w, i), w, Start(i))
        /\ Piece(Carry(w), w, Start(Whole(w) + 1))
    BY PiecesAre
  <2>2. Start(i) + Len(FrameAudio(w, i)) <= Start(Whole(w) + 1)
    BY FrameIs
  <2>3. ASSUME NEW j \in 1..Whole(w), i < j
        PROVE  Precedes(FrameAudio(w, i), FrameAudio(w, j))
    <3>1. Piece(FrameAudio(w, j), w, Start(j))
      BY PiecesAre
    <3>2. Whole(w) \in Nat
      BY CarryIs
    <3>3. i \in Nat \ {0} /\ j \in Nat \ {0}
      BY <3>2
    <3>4. Start(i) + Len(FrameAudio(w, i)) <= Start(j)
      BY <2>3, <3>3, StartIs, FrameIs
    <3> QED BY <1>1, <2>1, <3>1, <3>4
  <2> QED BY <1>1, <2>1, <2>2, <2>3, PieceIs
<1>3. Ordered(Carry(w))
  BY PiecesAre, PieceIs
<1> QED BY <1>2, <1>3

LEMMA CutKept ==
  ASSUME NEW acc \in SUBSET (Nat \ {0}), NEW w \in Seq(Nat), Ordered(w),
         \A x \in 1..Len(w) : Comes(w[x], acc),
         NEW t \in Nat, NEW a \in Nat \ {0}, NEW g \in 1..Window,
         Clocked(w, t, acc, a, g),
         NEW i \in 1..Whole(w), NEW f, f.audio = FrameAudio(w, i),
         f.timestamp = t + Start(i)
  PROVE  FrameKept(f, acc) /\ Timely(f, acc)
<1> DEFINE s == FrameAudio(w, i)
<1>1. Piece(s, w, Start(i))
  BY PiecesAre
<1>2. s \in Seq(Nat) /\ Len(s) = OutgoingUnits /\ Start(i) \in Nat
      /\ OutgoingUnits \in Nat \ {0}
  BY FrameIs, StartIs
<1> HIDE DEF s
<1>3. Ordered(s) /\ \A j \in 1..OutgoingUnits : Comes(s[j], acc)
  <2>1. \A j \in 1..Len(s) :
          Start(i) + j \in 1..Len(w) /\ s[j] = w[Start(i) + j]
    BY <1>1, PieceIs
  <2>2. Ordered(s)
    BY <1>1, PieceIs
  <2> QED BY <1>2, <2>1, <2>2
<1>4. Clocked(s, t + Start(i), acc, a, g)
  BY <1>1, <1>2, ClockedPiece DEF Piece
<1>5. Recent(s[1]) \subseteq acc => OnTime(t + Start(i), s[1])
  <2>1. 1 \in 1..OutgoingUnits /\ Len(s) >= 1 /\ t + Start(i) \in Nat
    BY <1>2
  <2>2. PICK k \in acc : s[1] \in Brought(k)
    BY <1>3, <2>1 DEF Comes
  <2>3. PacketOf(s[1]) \in acc
    BY <2>2, PacketIs
  <2> QED BY <1>2, <1>4, <2>1, <2>3, ClockedTimely
<1> QED BY <1>2, <1>3, <1>5 DEF FrameKept, Timely, s

-----------------------------------------------------------------------------
(* The steps                                                               *)

(* A unit of channel c in a frame, in frames, in a sequence of units. *)
InFrame(u, c, f) ==
  f.channel = c /\ \E j \in 1..Len(f.audio) : f.audio[j] = u

In(u, c, fs) == \E i \in 1..Len(fs) : InFrame(u, c, fs[i])

InSeq(u, s) == \E j \in 1..Len(s) : s[j] = u

Accounted(u, c) ==
  \/ In(u, c, routed) \/ In(u, c, dropped) \/ In(u, c, outgoing)
  \/ InSeq(u, buffer[c]) \/ u \in lost[c]

AllAccounted ==
  \A c \in Channels : \A u : Comes(u, accepted[c]) <=> Accounted(u, c)

LEMMA AudioAccountedIs == RouterTypeOK => (AudioAccounted <=> AllAccounted)
<1> SUFFICES ASSUME accepted \in [Channels -> SUBSET (Nat \ {0})]
             PROVE  AudioAccounted <=> AllAccounted
  BY DEF RouterTypeOK
<1>1. \A c, fs, u : u \in AudioOf(c, fs) <=> In(u, c, fs)
  BY DEF AudioOf, In, InFrame
<1>2. \A c, u : u \in CarryOf(c) <=> InSeq(u, buffer[c])
  BY DEF CarryOf, InSeq
<1>3. ASSUME NEW c \in Channels, NEW u
      PROVE  u \in AcceptedAudio(c) <=> Comes(u, accepted[c])
  <2>1. \A k \in accepted[c] :
          {(k - 1) * IncomingUnits + i : i \in 1..IncomingUnits} = Brought(k)
    <3> SUFFICES ASSUME NEW k \in accepted[c]
                 PROVE  {First(k) + i : i \in 1..IncomingUnits} = Brought(k)
      BY DEF First
    <3>1. First(k) \in Nat /\ IncomingUnits \in Nat
      BY FirstIs
    <3>2. \A x \in Brought(k) : x - First(k) \in 1..IncomingUnits
                                /\ x = First(k) + (x - First(k))
      BY <3>1 DEF Brought
    <3>3. \A i \in 1..IncomingUnits : First(k) + i \in Brought(k)
      BY <3>1 DEF Brought
    <3> QED BY <3>2, <3>3
  <2> QED BY <2>1 DEF AcceptedAudio, Comes
<1>4. ASSUME NEW c \in Channels
      PROVE  AcceptedAudio(c) = AudioOf(c, routed) \cup AudioOf(c, dropped)
               \cup AudioOf(c, outgoing) \cup CarryOf(c) \cup lost[c]
             <=> \A u : Comes(u, accepted[c]) <=> Accounted(u, c)
  BY <1>1, <1>2, <1>3 DEF Accounted
<1> QED BY <1>4 DEF AudioAccounted, AllAccounted

LEMMA AudioAccountedThen ==
  RouterTypeOK' => (AudioAccounted' <=> AllAccounted')
BY AudioAccountedIs, PTL

LEMMA RouterStart == Init => RouterInv
<1> SUFFICES ASSUME Init PROVE RouterInv
  OBVIOUS
<1> USE DEF Init
<1>1. RouterTypeOK /\ IngestInOrder
  BY DEF RouterTypeOK, IngestInOrder
<1>2. FramesKept /\ HeldInOrder /\ ClockKept
  BY DEF FramesKept, HeldInOrder, Precedes, ClockKept
<1>3. CarryKept
  <2>1. \A c \in Channels : buffer[c] = <<>>
    OBVIOUS
  <2>2. Len(<<>>) < OutgoingUnits /\ 1..Len(<<>>) = {}
    BY StartIs
  <2> QED BY <2>1, <2>2 DEF CarryKept, Ordered
<1>4. AudioAccounted
  BY <1>1, AudioAccountedIs DEF AllAccounted, Comes, Accounted, In, InSeq
<1> QED BY <1>1, <1>2, <1>3, <1>4 DEF RouterInv

LEMMA AudioUntouched ==
  ASSUME RouterInv,
         UNCHANGED <<buffer, start_ts, outgoing, routed, dropped, accepted,
                     lost>>
  PROVE  FramesKept' /\ CarryKept' /\ HeldInOrder' /\ ClockKept'
         /\ AudioAccounted'
<1> USE DEF RouterInv
<1>1. FramesKept' /\ CarryKept'
  BY DEF FramesKept, CarryKept
<1>2. HeldInOrder' /\ ClockKept'
  BY DEF HeldInOrder, ClockKept
<1>3. AudioAccounted'
  <2>1. \A c \in Channels :
          /\ AcceptedAudio(c)' = AcceptedAudio(c)
          /\ CarryOf(c)' = CarryOf(c) /\ lost'[c] = lost[c]
          /\ AudioOf(c, routed)' = AudioOf(c, routed)
          /\ AudioOf(c, dropped)' = AudioOf(c, dropped)
          /\ AudioOf(c, outgoing)' = AudioOf(c, outgoing)
    BY DEF AcceptedAudio, AudioOf, CarryOf
  <2> QED BY <2>1 DEF AudioAccounted
<1> QED BY <1>1, <1>2, <1>3

LEMMA WaitingAre ==
  ASSUME RouterTypeOK, NEW i \in 1..Len(ingest)
  PROVE  /\ ingest[i] \in Packets /\ ingest[i].channel \in Channels
         /\ ingest[i].number \in Nat /\ ingest[i].number \in Nat \ {0}
         /\ ingest[i].timestamp \in Nat
<1>1. ingest \in Seq(Packets)
  BY DEF RouterTypeOK
<1>2. ingest[i] \in Packets
  BY <1>1
<1> QED BY <1>2 DEF Packets

LEMMA LoseKeeps ==
  ASSUME RouterInv, NEW c \in Channels, Lose(c)
  PROVE  RouterInv'
<1> USE DEF RouterInv
<1>1. /\ UNCHANGED <<ingest, pc, buffer, start_ts, outgoing, routed, dropped,
                     accepted, lost>>
      /\ sent' = [sent EXCEPT ![c] = @ + 1] /\ sent \in [Channels -> Nat]
  BY DEF Lose, Send, router_vars, RouterTypeOK
<1>2. sent' \in [Channels -> Nat] /\ \A d \in Channels : sent[d] <= sent'[d]
  BY <1>1
<1>3. RouterTypeOK'
  BY <1>1, <1>2 DEF RouterTypeOK
<1>4. IngestInOrder'
  <2>1. \A i \in 1..Len(ingest) :
          ingest[i].channel \in Channels /\ ingest[i].number \in Nat
    BY WaitingAre
  <2>2. \A d \in Channels : sent[d] \in Nat /\ sent'[d] \in Nat
    BY <1>1, <1>2
  <2>3. \A i \in 1..Len(ingest) :
          ingest[i].number <= sent'[ingest[i].channel]
    BY <1>2, <2>1, <2>2 DEF IngestInOrder
  <2>4. \A d \in Channels : \A k \in accepted[d] : k <= sent'[d]
    <3>1. \A d \in Channels : \A k \in accepted[d] : k \in Nat
      BY DEF RouterTypeOK
    <3> QED BY <1>2, <2>2, <3>1 DEF IngestInOrder
  <2> QED BY <1>1, <2>3, <2>4 DEF IngestInOrder
<1> QED BY <1>1, <1>3, <1>4, AudioUntouched

LEMMA OnMessageKeeps ==
  ASSUME RouterInv, NEW c \in Channels,
         NEW t \in Arrivals(c, sent[c] + 1), NEW valid \in BOOLEAN,
         OnMessage(c, t, valid)
  PROVE  RouterInv'
<1> USE DEF RouterInv
<1> DEFINE n == sent[c] + 1
           p == [channel |-> c, number |-> n, timestamp |-> t, valid |-> valid]
<1>1. /\ UNCHANGED <<pc, buffer, start_ts, outgoing, routed, dropped, accepted,
                     lost>>
      /\ sent' = [sent EXCEPT ![c] = @ + 1] /\ sent \in [Channels -> Nat]
      /\ ingest' = IF Len(ingest) < IngestMax
                   THEN Append(ingest, p) ELSE ingest
  BY DEF OnMessage, Send, router_vars, RouterTypeOK
<1>2. /\ sent' \in [Channels -> Nat] /\ n \in Nat \ {0} /\ sent'[c] = n
      /\ \A d \in Channels : sent[d] <= sent'[d]
  BY <1>1
<1>3. t \in First(n) + IncomingUnits..First(n) + IncomingUnits + Jitter
      /\ t \in Nat
  <2>1. n * IncomingUnits = First(n) + IncomingUnits /\ First(n) \in Nat
        /\ IncomingUnits \in Nat /\ Jitter \in Nat
    BY <1>2, FirstIs, RouterAssumption
  <2> QED BY <2>1 DEF Arrivals
<1>4. p \in Packets /\ p.channel = c /\ p.number = n /\ p.timestamp = t
  BY <1>2, <1>3 DEF Packets
<1> HIDE DEF p, n
<1>5. ingest \in Seq(Packets) /\ ingest' \in Seq(Packets)
  BY <1>1, <1>4 DEF RouterTypeOK
<1>6. RouterTypeOK'
  BY <1>1, <1>2, <1>5 DEF RouterTypeOK
<1>7. \A i \in 1..Len(ingest') :
        \/ i \in 1..Len(ingest) /\ ingest'[i] = ingest[i]
        \/ i = Len(ingest) + 1 /\ ingest'[i] = p
  BY <1>1, <1>4, <1>5
<1>8. \A d \in Channels : \A k \in accepted[d] :
        k \in Nat /\ k <= sent[d] /\ k <= sent'[d]
  <2>1. \A d \in Channels : \A k \in accepted[d] : k \in Nat /\ k <= sent[d]
    BY DEF RouterTypeOK, IngestInOrder
  <2> QED BY <1>1, <1>2, <2>1
<1>9. \A i \in 1..Len(ingest) :
        /\ ingest[i] \in Packets /\ ingest[i].channel \in Channels
        /\ ingest[i].number \in Nat
        /\ ingest[i].number <= sent[ingest[i].channel]
        /\ ingest[i].number <= sent'[ingest[i].channel]
  <2>1. \A i \in 1..Len(ingest) :
          /\ ingest[i] \in Packets /\ ingest[i].channel \in Channels
          /\ ingest[i].number \in Nat
          /\ ingest[i].number <= sent[ingest[i].channel]
    BY WaitingAre DEF IngestInOrder
  <2> QED BY <1>1, <1>2, <2>1
<1>10. ASSUME NEW i \in 1..Len(ingest')
       PROVE  LET q == ingest'[i]
              IN  /\ q.number <= sent'[q.channel]
                  /\ q.timestamp \in First(q.number) + IncomingUnits
                                       ..First(q.number) + IncomingUnits
                                           + Jitter
                  /\ \A k \in accepted[q.channel] : k < q.number
                  /\ \A j \in 1..Len(ingest') :
                       i < j /\ ingest'[j].channel = q.channel =>
                         q.number < ingest'[j].number
  <2>1. CASE i \in 1..Len(ingest) /\ ingest'[i] = ingest[i]
    <3>1. ASSUME NEW j \in 1..Len(ingest'), i < j,
                 ingest'[j].channel = ingest[i].channel
          PROVE  ingest[i].number < ingest'[j].number
      <4>1. CASE j \in 1..Len(ingest) /\ ingest'[j] = ingest[j]
        BY <2>1, <3>1, <4>1 DEF IngestInOrder
      <4>2. CASE ingest'[j] = p
        <5>1. ingest[i].number <= sent[c] /\ ingest[i].number \in Nat
              /\ sent[c] \in Nat
          BY <1>1, <1>4, <1>9, <2>1, <3>1, <4>2
        <5> QED BY <1>4, <4>2, <5>1 DEF n
      <4> QED BY <1>7, <4>1, <4>2
    <3> QED BY <1>9, <2>1, <3>1 DEF IngestInOrder
  <2>2. CASE i = Len(ingest) + 1 /\ ingest'[i] = p
    <3>1. \A j \in 1..Len(ingest') : ~(i < j)
      BY <1>5, <1>7, <2>2
    <3>2. n <= sent'[c]
      BY <1>2
    <3>3. \A k \in accepted[c] : k < n
      BY <1>1, <1>8 DEF n
    <3> QED BY <1>3, <1>4, <2>2, <3>1, <3>2, <3>3
  <2> QED BY <1>7, <2>1, <2>2
<1>11. IngestInOrder'
  BY <1>1, <1>8, <1>10 DEF IngestInOrder
<1> QED BY <1>1, <1>6, <1>11, AudioUntouched

LEMMA TailIs ==
  ASSUME NEW S, NEW s \in Seq(S), s # <<>>
  PROVE  /\ Tail(s) \in Seq(S) /\ Len(s) \in Nat \ {0}
         /\ Len(Tail(s)) = Len(s) - 1
         /\ 1 \in 1..Len(s) /\ Head(s) = s[1] /\ Head(s) \in S
         /\ \A i \in 1..Len(Tail(s)) :
              i + 1 \in 1..Len(s) /\ Tail(s)[i] = s[i + 1] /\ 1 < i + 1
<1>1. Len(s) \in Nat \ {0} /\ Head(s) = s[1]
  OBVIOUS
<1>2. Tail(s) \in Seq(S) /\ Len(Tail(s)) = Len(s) - 1
  OBVIOUS
<1>3. \A i \in 1..Len(s) - 1 : Tail(s)[i] = s[i + 1]
  OBVIOUS
<1>4. /\ 1 \in 1..Len(s)
      /\ \A i \in 1..Len(s) - 1 : i + 1 \in 1..Len(s) /\ 1 < i + 1
  BY <1>1
<1>5. s[1] \in S
  BY <1>4
<1> QED BY <1>1, <1>2, <1>3, <1>4, <1>5

(* What the packet got leaves behind is still in order, whether its audio  *)
(* is accepted or not.                                                     *)
LEMMA GetInOrder ==
  ASSUME RouterTypeOK, IngestInOrder, Get, UNCHANGED sent,
         \A d \in Channels : \A k \in accepted'[d] :
           \/ k \in accepted[d]
           \/ d = Head(ingest).channel /\ k = Head(ingest).number
  PROVE  /\ ingest' \in Seq(Packets) /\ IngestInOrder'
         /\ Head(ingest) \in Packets
         /\ \A k \in accepted[Head(ingest).channel] : k < Head(ingest).number
         /\ Head(ingest).timestamp
              \in First(Head(ingest).number) + IncomingUnits
                    ..First(Head(ingest).number) + IncomingUnits + Jitter
<1> DEFINE p == Head(ingest)
<1>1. ingest \in Seq(Packets) /\ ingest # <<>> /\ ingest' = Tail(ingest)
  BY DEF Get, RouterTypeOK
<1>2. /\ ingest' \in Seq(Packets) /\ 1 \in 1..Len(ingest) /\ p = ingest[1]
      /\ p \in Packets
      /\ \A i \in 1..Len(ingest') :
           i + 1 \in 1..Len(ingest) /\ ingest'[i] = ingest[i + 1] /\ 1 < i + 1
  BY <1>1, TailIs
<1>3. p.channel \in Channels /\ p.number \in Nat
  BY <1>2 DEF Packets
<1>4. /\ p.number <= sent[p.channel]
      /\ p.timestamp \in First(p.number) + IncomingUnits
                           ..First(p.number) + IncomingUnits + Jitter
      /\ \A k \in accepted[p.channel] : k < p.number
  BY <1>2 DEF IngestInOrder
<1>5. \A i \in 1..Len(ingest') :
        ingest'[i].channel = p.channel => p.number < ingest'[i].number
  BY <1>2 DEF IngestInOrder
<1> HIDE DEF p
<1>6. ASSUME NEW i \in 1..Len(ingest')
      PROVE  LET q == ingest'[i]
             IN  /\ q.number <= sent'[q.channel]
                 /\ q.timestamp \in First(q.number) + IncomingUnits
                                      ..First(q.number) + IncomingUnits
                                          + Jitter
                 /\ \A k \in accepted'[q.channel] : k < q.number
                 /\ \A j \in 1..Len(ingest') :
                      i < j /\ ingest'[j].channel = q.channel =>
                        q.number < ingest'[j].number
  <2>1. i + 1 \in 1..Len(ingest) /\ ingest'[i] = ingest[i + 1]
    BY <1>2
  <2>2. /\ ingest[i + 1].channel \in Channels
        /\ ingest[i + 1].number <= sent[ingest[i + 1].channel]
        /\ ingest[i + 1].timestamp
             \in First(ingest[i + 1].number) + IncomingUnits
                   ..First(ingest[i + 1].number) + IncomingUnits + Jitter
        /\ \A k \in accepted[ingest[i + 1].channel] : k < ingest[i + 1].number
    BY <2>1, WaitingAre DEF IngestInOrder
  <2>3. \A k \in accepted'[ingest'[i].channel] : k < ingest'[i].number
    BY <1>5, <2>1, <2>2 DEF p
  <2>4. ASSUME NEW j \in 1..Len(ingest'), i < j,
               ingest'[j].channel = ingest'[i].channel
        PROVE  ingest'[i].number < ingest'[j].number
    <3>1. j + 1 \in 1..Len(ingest) /\ ingest'[j] = ingest[j + 1]
      BY <1>2
    <3>2. i + 1 < j + 1
      BY <2>4
    <3> QED BY <2>1, <2>4, <3>1, <3>2 DEF IngestInOrder
  <2> QED BY <2>1, <2>2, <2>3, <2>4
<1>7. \A c \in Channels : \A k \in accepted'[c] : k <= sent'[c]
  BY <1>4 DEF IngestInOrder, p
<1>8. IngestInOrder'
  BY <1>6, <1>7 DEF IngestInOrder
<1> QED BY <1>2, <1>4, <1>8 DEF p

LEMMA RejectKeeps ==
  ASSUME RouterInv, Reject
  PROVE  RouterInv'
<1> USE DEF RouterInv
<1>1. /\ Get /\ pc' = "check"
      /\ UNCHANGED <<sent, buffer, start_ts, outgoing, routed, dropped,
                     accepted, lost>>
  BY DEF Reject
<1>2. ingest' \in Seq(Packets) /\ IngestInOrder'
  BY <1>1, GetInOrder
<1>3. outgoing = <<>>
  BY <1>1 DEF Get, RouterTypeOK
<1>4. RouterTypeOK'
  BY <1>1, <1>2, <1>3 DEF RouterTypeOK
<1> QED BY <1>1, <1>2, <1>4, AudioUntouched

(* The steps that move no audio. *)
LEMMA IdleKeeps ==
  ASSUME RouterInv, CheckStop \/ Empty \/ AllPut \/ TakeFrame \/ Die \/ Signal
  PROVE  RouterInv'
<1> USE DEF RouterInv
<1>1. UNCHANGED <<sent, ingest, buffer, start_ts, outgoing, routed, dropped,
                  accepted, lost>>
  BY DEF CheckStop, Empty, AllPut, TakeFrame, Die, Signal, router_vars
<1>2. pc' \in {"check", "get"} => outgoing = <<>>
  BY DEF CheckStop, Empty, AllPut, TakeFrame, Die, Signal, router_vars,
     RouterTypeOK
<1>3. RouterTypeOK'
  BY <1>1, <1>2 DEF RouterTypeOK
<1>4. IngestInOrder'
  BY <1>1 DEF IngestInOrder
<1> QED BY <1>1, <1>3, <1>4, AudioUntouched

LEMMA InTail ==
  ASSUME NEW s \in Seq(Frames), s # <<>>, NEW u, NEW c
  PROVE  In(u, c, s) <=> InFrame(u, c, Head(s)) \/ In(u, c, Tail(s))
<1>1. /\ Tail(s) \in Seq(Frames) /\ Len(Tail(s)) = Len(s) - 1
      /\ Len(s) \in Nat \ {0} /\ 1 \in 1..Len(s) /\ Head(s) = s[1]
      /\ \A i \in 1..Len(Tail(s)) :
           i + 1 \in 1..Len(s) /\ Tail(s)[i] = s[i + 1]
  BY TailIs
<1>2. \A i \in 1..Len(s) : i # 1 =>
        i - 1 \in 1..Len(Tail(s)) /\ s[i] = Tail(s)[i - 1]
  <2> SUFFICES ASSUME NEW i \in 1..Len(s), i # 1
               PROVE  i - 1 \in 1..Len(Tail(s)) /\ s[i] = Tail(s)[i - 1]
    OBVIOUS
  <2>1. i - 1 \in 1..Len(Tail(s)) /\ i - 1 + 1 = i
    BY <1>1
  <2> QED BY <1>1, <2>1
<1> QED BY <1>1, <1>2 DEF In

LEMMA InAppend ==
  ASSUME NEW s \in Seq(Frames), NEW f \in Frames, NEW u, NEW c
  PROVE  In(u, c, Append(s, f)) <=> In(u, c, s) \/ InFrame(u, c, f)
<1>1. /\ Len(s) \in Nat /\ Len(Append(s, f)) = Len(s) + 1
      /\ Append(s, f)[Len(s) + 1] = f
      /\ \A i \in 1..Len(s) : Append(s, f)[i] = s[i]
  OBVIOUS
<1>2. \A i \in 1..Len(s) + 1 : i \in 1..Len(s) \/ i = Len(s) + 1
  BY <1>1
<1>3. Len(s) + 1 \in 1..Len(s) + 1 /\ 1..Len(s) \subseteq 1..Len(s) + 1
  BY <1>1
<1> QED BY <1>1, <1>2, <1>3 DEF In

LEMMA AppendIs ==
  ASSUME NEW S, NEW s \in Seq(S), NEW e \in S
  PROVE  /\ Append(s, e) \in Seq(S)
         /\ Len(s) \in Nat /\ Len(Append(s, e)) = Len(s) + 1
         /\ \A i \in 1..Len(Append(s, e)) :
              \/ i \in 1..Len(s) /\ Append(s, e)[i] = s[i]
              \/ i = Len(s) + 1 /\ Append(s, e)[i] = e
OBVIOUS

LEMMA PutFrameKeeps ==
  ASSUME RouterInv, PutFrame
  PROVE  RouterInv'
<1> USE DEF RouterInv
<1> DEFINE f == Head(outgoing)
<1>1. /\ UNCHANGED <<sent, ingest, pc, buffer, start_ts, accepted, lost>>
      /\ pc = "put" /\ outgoing # <<>> /\ outgoing' = Tail(outgoing)
      /\ \/ routed' = Append(routed, f) /\ dropped' = dropped
         \/ routed' = routed /\ dropped' = Append(dropped, f)
  BY DEF PutFrame
<1>2. /\ outgoing \in Seq(Frames) /\ routed \in Seq(Frames)
      /\ dropped \in Seq(Frames) /\ buffer \in [Channels -> Seq(Nat)]
      /\ accepted \in [Channels -> SUBSET (Nat \ {0})]
  BY DEF RouterTypeOK
<1>3. /\ outgoing' \in Seq(Frames) /\ f \in Frames
      /\ 1 \in 1..Len(outgoing) /\ f = outgoing[1]
      /\ \A i \in 1..Len(outgoing') : /\ i + 1 \in 1..Len(outgoing)
                                      /\ outgoing'[i] = outgoing[i + 1]
                                      /\ 1 < i + 1
  BY <1>1, <1>2, TailIs
<1> HIDE DEF f
<1>4. routed' \in Seq(Frames) /\ dropped' \in Seq(Frames)
  <2>1. /\ Append(routed, f) \in Seq(Frames)
        /\ Append(dropped, f) \in Seq(Frames)
    BY <1>2, <1>3, AppendIs
  <2> QED BY <1>1, <1>2, <2>1
<1>5. /\ Len(routed) \in Nat
      /\ \A i \in 1..Len(routed') :
           \/ i \in 1..Len(routed) /\ routed'[i] = routed[i]
           \/ i = Len(routed) + 1 /\ routed'[i] = outgoing[1]
  <2>1. CASE routed' = routed
    BY <1>2, <2>1
  <2>2. CASE routed' = Append(routed, f)
    BY <1>2, <1>3, <2>2, AppendIs
  <2> QED BY <1>1, <2>1, <2>2
<1>6. RouterTypeOK'
  BY <1>1, <1>3, <1>4 DEF RouterTypeOK
<1>7. IngestInOrder'
  BY <1>1 DEF IngestInOrder
<1>8. CarryKept' /\ ClockKept'
  BY <1>1 DEF CarryKept, ClockKept
<1>9. FramesKept'
  BY <1>1, <1>3, <1>5 DEF FramesKept
<1>10. HeldInOrder'
  <2>1. ASSUME NEW i \in 1..Len(routed'), NEW j \in 1..Len(routed'), i < j
        PROVE  Behind(routed'[i], routed'[j])
    <3>1. i \in 1..Len(routed) /\ routed'[i] = routed[i]
      <4>1. i \in Nat /\ j \in Nat /\ j <= Len(routed) + 1
        BY <1>5
      <4> QED BY <1>5, <2>1, <4>1
    <3> QED BY <1>3, <1>5, <2>1, <3>1 DEF HeldInOrder
  <2>2. ASSUME NEW i \in 1..Len(outgoing'), NEW j \in 1..Len(outgoing'), i < j
        PROVE  Behind(outgoing'[i], outgoing'[j])
    <3>1. i + 1 < j + 1
      BY <2>2
    <3> QED BY <1>3, <3>1 DEF HeldInOrder
  <2>3. ASSUME NEW i \in 1..Len(routed'), NEW j \in 1..Len(outgoing')
        PROVE  Behind(routed'[i], outgoing'[j])
    BY <1>3, <1>5 DEF HeldInOrder
  <2>4. ASSUME NEW i \in 1..Len(routed')
        PROVE  Precedes(routed'[i].audio, buffer[routed'[i].channel])
    BY <1>3, <1>5 DEF HeldInOrder
  <2>5. ASSUME NEW i \in 1..Len(outgoing')
        PROVE  Precedes(outgoing'[i].audio, buffer[outgoing'[i].channel])
    BY <1>3 DEF HeldInOrder
  <2> QED BY <1>1, <2>1, <2>2, <2>3, <2>4, <2>5 DEF HeldInOrder
<1>11. AudioAccounted'
  <2>1. \A u, c : In(u, c, outgoing) <=>
                    InFrame(u, c, f) \/ In(u, c, outgoing')
    BY <1>1, <1>2, InTail DEF f
  <2>2. \A u, c : \/ /\ In(u, c, routed') <=>
                          In(u, c, routed) \/ InFrame(u, c, f)
                     /\ In(u, c, dropped') <=> In(u, c, dropped)
                  \/ /\ In(u, c, dropped') <=>
                          In(u, c, dropped) \/ InFrame(u, c, f)
                     /\ In(u, c, routed') <=> In(u, c, routed)
    <3>1. CASE routed' = Append(routed, f) /\ dropped' = dropped
      BY <1>2, <1>3, <3>1, InAppend
    <3>2. CASE routed' = routed /\ dropped' = Append(dropped, f)
      BY <1>2, <1>3, <3>2, InAppend
    <3> QED BY <1>1, <3>1, <3>2
  <2>3. ASSUME NEW c \in Channels, NEW u
        PROVE  Accounted(u, c)' <=> Accounted(u, c)
    <3>1. Accounted(u, c)' <=>
            \/ In(u, c, routed') \/ In(u, c, dropped') \/ In(u, c, outgoing')
            \/ InSeq(u, buffer[c]) \/ u \in lost[c]
      BY <1>1 DEF Accounted, In, InSeq
    <3>2. \/ In(u, c, routed') \/ In(u, c, dropped') \/ In(u, c, outgoing')
          <=> \/ In(u, c, routed) \/ In(u, c, dropped) \/ In(u, c, outgoing)
      BY <2>1, <2>2
    <3> QED BY <3>1, <3>2 DEF Accounted
  <2>4. \A c \in Channels : \A u : Comes(u, accepted[c]) <=> Accounted(u, c)
    BY AudioAccountedIs DEF AllAccounted
  <2> QED BY <1>1, <1>6, <2>3, <2>4, AudioAccountedThen DEF AllAccounted
<1> QED BY <1>6, <1>7, <1>8, <1>9, <1>10, <1>11

LEMMA RestartKeeps ==
  ASSUME RouterInv, Restart
  PROVE  RouterInv'
<1> USE DEF RouterInv
<1>1. /\ UNCHANGED <<sent, ingest, routed, dropped, accepted>>
      /\ lost' = [c \in Channels |->
                    lost[c] \cup CarryOf(c) \cup AudioOf(c, outgoing)]
      /\ buffer' = [c \in Channels |-> <<>>]
      /\ start_ts' = [c \in Channels |-> 0]
      /\ outgoing' = <<>>
  BY DEF Restart
<1>2. /\ outgoing' \in Seq(Frames) /\ Len(outgoing') = 0
      /\ 1..Len(outgoing') = {}
  BY <1>1
<1>3. \A c \in Channels : /\ buffer'[c] = <<>> /\ Len(buffer'[c]) = 0
                          /\ 1..Len(buffer'[c]) = {}
  BY <1>1
<1>4. lost' \in [Channels -> SUBSET Nat]
  <2>1. ASSUME NEW c \in Channels
        PROVE  CarryOf(c) \subseteq Nat
    <3>1. buffer[c] \in Seq(Nat)
      BY DEF RouterTypeOK
    <3>2. \A i \in 1..Len(buffer[c]) : buffer[c][i] \in Nat
      BY <3>1
    <3> QED BY <3>2 DEF CarryOf
  <2>2. ASSUME NEW c \in Channels
        PROVE  AudioOf(c, outgoing) \subseteq Nat
    <3>1. outgoing \in Seq(Frames)
      BY DEF RouterTypeOK
    <3>2. \A i \in 1..Len(outgoing) : outgoing[i] \in Frames
      BY <3>1
    <3>3. \A i \in 1..Len(outgoing) : outgoing[i].audio \in Seq(Nat)
      BY <3>2 DEF Frames
    <3>4. \A i \in 1..Len(outgoing) : \A j \in 1..Len(outgoing[i].audio) :
            outgoing[i].audio[j] \in Nat
      BY <3>3
    <3> QED BY <3>4 DEF AudioOf
  <2>3. lost \in [Channels -> SUBSET Nat]
    BY DEF RouterTypeOK
  <2> QED BY <1>1, <2>1, <2>2, <2>3
<1>5. /\ buffer' \in [Channels -> Seq(Nat)] /\ start_ts' \in [Channels -> Nat]
  BY <1>1
<1>6. RouterTypeOK'
  BY <1>1, <1>2, <1>4, <1>5 DEF RouterTypeOK
<1>7. IngestInOrder'
  BY <1>1 DEF IngestInOrder
<1>8. FramesKept'
  BY <1>1, <1>2 DEF FramesKept
<1>9. CarryKept' /\ ClockKept'
  <2>1. 0 < OutgoingUnits
    BY RouterAssumption
  <2>2. CarryKept'
    BY <1>3, <2>1 DEF CarryKept, Ordered
  <2>3. ClockKept'
    BY <1>3 DEF ClockKept
  <2> QED BY <2>2, <2>3
<1>10. HeldInOrder'
  <2>1. \A i \in 1..Len(routed) : routed[i].channel \in Channels
    <3>1. routed \in Seq(Frames)
      BY DEF RouterTypeOK
    <3>2. \A i \in 1..Len(routed) : routed[i] \in Frames
      BY <3>1
    <3> QED BY <3>2 DEF Frames
  <2>2. \A i \in 1..Len(routed) :
          Precedes(routed[i].audio, buffer'[routed[i].channel])
    BY <1>3, <2>1 DEF Precedes
  <2> QED BY <1>1, <1>2, <2>2 DEF HeldInOrder
<1>11. AudioAccounted'
  <2>1. ASSUME NEW c \in Channels, NEW u
        PROVE  Accounted(u, c)' <=> Accounted(u, c)
    <3>1. u \in AudioOf(c, outgoing) <=> In(u, c, outgoing)
      BY DEF AudioOf, In, InFrame
    <3>2. u \in CarryOf(c) <=> InSeq(u, buffer[c])
      BY DEF CarryOf, InSeq
    <3>3. u \in lost'[c] <=> \/ u \in lost[c] \/ InSeq(u, buffer[c])
                             \/ In(u, c, outgoing)
      BY <1>1, <3>1, <3>2
    <3>4. ~In(u, c, outgoing') /\ ~InSeq(u, buffer'[c])
      BY <1>2, <1>3 DEF In, InSeq
    <3>5. Accounted(u, c)' <=>
            \/ In(u, c, routed) \/ In(u, c, dropped) \/ In(u, c, outgoing')
            \/ InSeq(u, buffer'[c]) \/ u \in lost'[c]
      BY <1>1 DEF Accounted, In, InSeq
    <3> QED BY <3>3, <3>4, <3>5 DEF Accounted
  <2>2. \A c \in Channels : \A u : Comes(u, accepted[c]) <=> Accounted(u, c)
    BY AudioAccountedIs DEF AllAccounted
  <2> QED BY <1>1, <1>6, <2>1, <2>2, AudioAccountedThen DEF AllAccounted
<1> QED BY <1>6, <1>7, <1>8, <1>9, <1>10, <1>11

-----------------------------------------------------------------------------
(* A packet processed *)

(* Packet p, the n-th of channel c, joins the carry as audio w, with the   *)
(* clock at t.                                                             *)
Processed(p, c, n, w, t) ==
  /\ p \in Packets /\ c \in Channels /\ n \in Nat \ {0}
  /\ \A k \in accepted[c] : k < n
  /\ p.timestamp \in First(n) + IncomingUnits
                       ..First(n) + IncomingUnits + Jitter
  /\ outgoing = <<>> /\ pc' = "put" /\ IngestInOrder'
  /\ w = buffer[c] \o Samples(n) /\ w \in Seq(Nat) /\ t \in Nat
  /\ t = IF buffer[c] = <<>> THEN p.timestamp ELSE start_ts[c]
  /\ ingest' \in Seq(Packets)
  /\ UNCHANGED <<sent, routed, dropped, lost>>
  /\ accepted' = [accepted EXCEPT ![c] = @ \cup {n}]
  /\ buffer' = [buffer EXCEPT ![c] = Carry(w)]
  /\ start_ts' = [start_ts EXCEPT ![c] = t + Start(Whole(w) + 1)]
  /\ outgoing' = [i \in 1..Whole(w) |->
                    [channel |-> c, audio |-> FrameAudio(w, i),
                     timestamp |-> t + Start(i)]]

LEMMA ProcessIs ==
  ASSUME RouterInv, Process
  PROVE  \E p, c, n, w, t : Processed(p, c, n, w, t)
<1> USE DEF RouterInv
<1>0. PICK p, c, n, w, t :
      /\ p = Head(ingest) /\ c = p.channel /\ n = p.number
      /\ w = WithCarry(p) /\ t = Anchor(p)
  OBVIOUS
<1>1. /\ Get /\ pc' = "put"
      /\ UNCHANGED <<sent, routed, dropped, lost>>
      /\ accepted' = [accepted EXCEPT ![c] = @ \cup {n}]
      /\ buffer' = [buffer EXCEPT ![c] = Carry(w)]
      /\ start_ts' = [start_ts EXCEPT ![c] = t + Whole(w) * OutgoingUnits]
      /\ outgoing' = [i \in 1..Whole(w) |->
                        [channel |-> c, audio |-> FrameAudio(w, i),
                         timestamp |-> t + Start(i)]]
  BY <1>0 DEF Process, Whole, Start
<1>2. \A d \in Channels : \A k \in accepted'[d] :
        k \in accepted[d] \/ (d = c /\ k = n)
  BY <1>1 DEF RouterTypeOK
<1>3. /\ ingest' \in Seq(Packets) /\ IngestInOrder' /\ p \in Packets
      /\ \A k \in accepted[c] : k < n
      /\ p.timestamp \in First(n) + IncomingUnits
                           ..First(n) + IncomingUnits + Jitter
  BY <1>0, <1>1, <1>2, GetInOrder
<1>4. c \in Channels /\ n \in Nat \ {0} /\ p.timestamp \in Nat
  BY <1>0, <1>3 DEF Packets
<1>5. /\ buffer[c] \in Seq(Nat) /\ start_ts[c] \in Nat /\ outgoing = <<>>
  BY <1>1, <1>4 DEF Get, RouterTypeOK
<1>6. w = buffer[c] \o Samples(n) /\ w \in Seq(Nat)
  BY <1>0, <1>4, <1>5, JoinIs DEF WithCarry
<1>7. /\ t = IF buffer[c] = <<>> THEN p.timestamp ELSE start_ts[c]
      /\ t \in Nat
  BY <1>0, <1>4, <1>5 DEF Anchor
<1>8. Start(Whole(w) + 1) = Whole(w) * OutgoingUnits
  <2>1. Whole(w) \in Nat
    BY <1>6, CarryIs
  <2> QED BY <2>1 DEF Start
<1>9. Processed(p, c, n, w, t)
  BY <1>1, <1>3, <1>4, <1>5, <1>6, <1>7, <1>8 DEF Processed
<1> QED BY <1>9

LEMMA ModAdd ==
  ASSUME NEW x \in Nat, NEW y \in Nat, NEW d \in Nat \ {0}
  PROVE  ((x % d) + y) % d = (x + y) % d
<1> DEFINE q == x \div d
           r == x % d
           k == (r + y) \div d
           m == (r + y) % d
<1>1. q \in Nat /\ r \in 0..d - 1 /\ x = q * d + r /\ d \in Nat
  BY DivMod
<1>2. r + y \in Nat
  BY <1>1
<1> HIDE DEF q, r
<1>3. k \in Nat /\ m \in 0..d - 1 /\ r + y = k * d + m
  BY <1>2, DivMod
<1> HIDE DEF k, m
<1>4. q * d \in Int /\ k * d \in Int /\ (q + k) * d = q * d + k * d
  BY <1>1, <1>3, Product
<1>5. q + k \in Nat /\ x + y \in Nat /\ x + y = (q + k) * d + m
  BY <1>1, <1>3, <1>4
<1>6. (x + y) % d = m
  BY <1>3, <1>5, DivModIs
<1> QED BY <1>6 DEF m, r

(* An older frame stays as it is when packet n is accepted. *)
LEMMA KeptLater ==
  ASSUME NEW acc \in SUBSET (Nat \ {0}), NEW n \in Nat \ {0},
         \A k \in acc : k < n,
         NEW f, FrameKept(f, acc), Timely(f, acc)
  PROVE  FrameKept(f, acc \cup {n}) /\ Timely(f, acc \cup {n})
<1>1. FrameKept(f, acc \cup {n})
  BY DEF FrameKept, Comes
<1>2. PacketOf(f.audio[1]) \in acc
  <2>1. 1 \in 1..OutgoingUnits
    BY RouterAssumption
  <2>2. Comes(f.audio[1], acc)
    BY <2>1 DEF FrameKept
  <2> QED BY <2>2, ComesBefore
<1>3. Recent(f.audio[1]) \subseteq acc \cup {n} =>
        Recent(f.audio[1]) \subseteq acc
  <2> DEFINE m == PacketOf(f.audio[1])
  <2>1. \A k \in Recent(f.audio[1]) : k \in 1..m
    BY DEF Recent
  <2>2. m \in Nat /\ m < n
    BY <1>2
  <2> HIDE DEF m
  <2>3. n \notin 1..m
    BY <2>2
  <2> QED BY <2>1, <2>3
<1> QED BY <1>1, <1>3 DEF Timely

(* The clock of the carry with the packet joined to it. *)
ClockRuns(w, t, acc) ==
  \E a \in Nat \ {0}, g \in 1..Window :
    /\ Clocked(w, t, acc, a, g)
    /\ Len(w) % OutgoingUnits = (g * IncomingUnits) % OutgoingUnits

LEMMA ClockJoined ==
  ASSUME RouterInv, NEW c \in Channels, NEW n \in Nat \ {0},
         \A k \in accepted[c] : k < n,
         NEW w \in Seq(Nat), w = buffer[c] \o Samples(n),
         NEW ts \in First(n) + IncomingUnits
                      ..First(n) + IncomingUnits + Jitter,
         NEW t \in Nat,
         t = IF buffer[c] = <<>> THEN ts ELSE start_ts[c]
  PROVE  ClockRuns(w, t, accepted[c] \cup {n})
<1> USE DEF RouterInv, ClockRuns
<1>1. /\ buffer[c] \in Seq(Nat) /\ start_ts[c] \in Nat
      /\ accepted[c] \in SUBSET (Nat \ {0})
  BY DEF RouterTypeOK
<1>2. /\ Len(w) = Len(buffer[c]) + IncomingUnits
      /\ IncomingUnits \in Nat /\ OutgoingUnits \in Nat \ {0}
      /\ Window \in Nat \ {0}
  <2>1. Len(w) = Len(buffer[c]) + IncomingUnits
    BY <1>1, JoinIs
  <2>2. IncomingUnits \in Nat /\ OutgoingUnits \in Nat \ {0}
    BY RouterAssumption
  <2>3. Window \in Nat \ {0}
    BY <2>2, WindowIs
  <2> QED BY <2>1, <2>2, <2>3
<1>3. CASE buffer[c] = <<>>
  <2>1. Samples(n) \in Seq(Nat) /\ Len(buffer[c]) = 0
    BY <1>3, SamplesAre
  <2>2. w = Samples(n) /\ t = ts /\ Len(w) = 1 * IncomingUnits
    BY <1>2, <1>3, <2>1
  <2>3. Clocked(w, t, accepted[c] \cup {n}, n, 1)
    BY <1>1, <2>2, ClockedStarts
  <2>4. 1 \in 1..Window
    BY <1>2
  <2> QED BY <2>2, <2>3, <2>4
<1>4. CASE buffer[c] # <<>>
  <2>1. PICK a \in Nat \ {0}, g \in 1..Window - 1 :
          /\ Clocked(buffer[c], start_ts[c], accepted[c], a, g)
          /\ Len(buffer[c]) = (g * IncomingUnits) % OutgoingUnits
    BY <1>4 DEF ClockKept
  <2>2. g \in Nat \ {0} /\ g + 1 \in 1..Window
    BY <1>2
  <2>3. Len(buffer[c]) \in 1..Len(buffer[c])
    BY <1>1, <1>4
  <2>4. /\ \A j \in 1..Len(buffer[c]) : Comes(buffer[c][j], accepted[c])
        /\ \A k \in accepted[c] :
             First(k) + IncomingUnits <= buffer[c][Len(buffer[c])]
    BY <2>3 DEF CarryKept
  <2>5. Clocked(w, t, accepted[c] \cup {n}, a, g + 1)
    BY <1>1, <1>4, <2>1, <2>2, <2>4, ClockedExtends
  <2>6. /\ g * IncomingUnits \in Nat
        /\ (g + 1) * IncomingUnits = g * IncomingUnits + IncomingUnits
    BY <1>2, <2>2, Product
  <2>7. Len(w) % OutgoingUnits = ((g + 1) * IncomingUnits) % OutgoingUnits
    BY <1>2, <2>1, <2>6, ModAdd
  <2> QED BY <2>2, <2>5, <2>7
<1> QED BY <1>3, <1>4

LEMMA ProcessKeeps ==
  ASSUME RouterInv, Process
  PROVE  RouterInv'
<1> USE DEF RouterInv
<1>1. PICK p, c, n, w, t : Processed(p, c, n, w, t)
  BY ProcessIs
<1>2. PICK acc, now, o : /\ acc = accepted[c] /\ now = acc \cup {n}
                         /\ o = Start(Whole(w) + 1)
  OBVIOUS
<1> DEFINE frame(i) == [channel |-> c, audio |-> FrameAudio(w, i),
                        timestamp |-> t + Start(i)]
<1>3. /\ c \in Channels /\ n \in Nat \ {0} /\ \A k \in acc : k < n
      /\ w \in Seq(Nat) /\ t \in Nat /\ w = buffer[c] \o Samples(n)
  BY <1>1, <1>2 DEF Processed
<1>4. /\ buffer \in [Channels -> Seq(Nat)] /\ start_ts \in [Channels -> Nat]
      /\ accepted \in [Channels -> SUBSET (Nat \ {0})]
      /\ routed \in Seq(Frames)
  BY DEF RouterTypeOK
<1>5. /\ buffer[c] \in Seq(Nat) /\ acc \in SUBSET (Nat \ {0})
      /\ now = acc \cup {n} /\ now \in SUBSET (Nat \ {0})
  BY <1>2, <1>3, <1>4
<1>6. /\ o \in Nat /\ Whole(w) \in Nat /\ Carry(w) \in Seq(Nat)
      /\ Len(Carry(w)) = Len(w) % OutgoingUnits
      /\ Len(Carry(w)) < OutgoingUnits /\ Len(w) = o + Len(Carry(w))
      /\ Len(w) \in Nat /\ Len(Carry(w)) \in Nat
  <2>1. /\ o \in Nat /\ Whole(w) \in Nat /\ Carry(w) \in Seq(Nat)
        /\ Len(Carry(w)) = Len(w) % OutgoingUnits
        /\ Len(Carry(w)) < OutgoingUnits /\ Len(w) = o + Len(Carry(w))
    BY <1>2, <1>3, CarryIs
  <2>2. Len(w) \in Nat /\ Len(Carry(w)) \in Nat
    BY <1>3, <2>1
  <2> QED BY <2>1, <2>2
<1>7. UNCHANGED <<sent, routed, dropped, lost>>
  BY <1>1 DEF Processed
<1>8. /\ accepted' \in [Channels -> SUBSET (Nat \ {0})]
      /\ buffer' \in [Channels -> Seq(Nat)]
      /\ start_ts' \in [Channels -> Nat]
      /\ accepted'[c] = now /\ buffer'[c] = Carry(w) /\ start_ts'[c] = t + o
      /\ \A d \in Channels : d # c =>
           /\ accepted'[d] = accepted[d] /\ buffer'[d] = buffer[d]
           /\ start_ts'[d] = start_ts[d]
  <2>1. t + o \in Nat
    BY <1>3, <1>6
  <2>2. accepted' = [accepted EXCEPT ![c] = now]
    BY <1>1, <1>2 DEF Processed
  <2>3. buffer' = [buffer EXCEPT ![c] = Carry(w)]
    BY <1>1 DEF Processed
  <2>4. start_ts' = [start_ts EXCEPT ![c] = t + o]
    BY <1>1, <1>2 DEF Processed
  <2>5. /\ accepted' \in [Channels -> SUBSET (Nat \ {0})]
        /\ accepted'[c] = now
        /\ \A d \in Channels : d # c => accepted'[d] = accepted[d]
    BY <1>3, <1>4, <1>5, <2>2
  <2>6. /\ buffer' \in [Channels -> Seq(Nat)] /\ buffer'[c] = Carry(w)
        /\ \A d \in Channels : d # c => buffer'[d] = buffer[d]
    BY <1>3, <1>4, <1>6, <2>3
  <2>7. /\ start_ts' \in [Channels -> Nat] /\ start_ts'[c] = t + o
        /\ \A d \in Channels : d # c => start_ts'[d] = start_ts[d]
    BY <1>3, <1>4, <2>1, <2>4
  <2> QED BY <2>5, <2>6, <2>7
<1>9. /\ outgoing' = [i \in 1..Whole(w) |-> frame(i)]
      /\ Len(outgoing') = Whole(w)
      /\ \A i \in 1..Whole(w) :
           /\ outgoing'[i] = frame(i) /\ frame(i).channel = c
           /\ frame(i).audio = FrameAudio(w, i)
           /\ frame(i).timestamp = t + Start(i)
  <2>1. outgoing' = [i \in 1..Whole(w) |-> frame(i)]
    BY <1>1 DEF Processed
  <2> QED BY <1>6, <2>1
<1>10. \A i \in 1..Whole(w) :
         /\ FrameAudio(w, i) \in Seq(Nat) /\ Start(i) \in Nat
         /\ Len(FrameAudio(w, i)) = OutgoingUnits
         /\ \A j \in 1..OutgoingUnits : FrameAudio(w, i)[j] = w[Start(i) + j]
  BY <1>3, FrameIs
<1>11. \A i \in 1..Whole(w) : frame(i) \in Frames
  <2>1. ASSUME NEW i \in 1..Whole(w)
        PROVE  t + Start(i) \in Nat
    BY <1>3, <1>10
  <2> QED BY <1>3, <1>10, <2>1 DEF Frames
<1> HIDE DEF frame
<1>12. RouterTypeOK'
  <2>1. outgoing' \in Seq(Frames)
    BY <1>6, <1>9, <1>11
  <2>2. pc' = "put" /\ ingest' \in Seq(Packets)
    BY <1>1 DEF Processed
  <2> QED BY <1>7, <1>8, <2>1, <2>2 DEF RouterTypeOK
<1>13. /\ Ordered(buffer[c])
       /\ \A j \in 1..Len(buffer[c]) : Comes(buffer[c][j], acc)
  BY <1>2, <1>3 DEF CarryKept
<1>14. /\ Ordered(w) /\ \A x \in 1..Len(w) : Comes(w[x], now)
       /\ w[Len(w)] = First(n) + IncomingUnits
  BY <1>3, <1>5, <1>13, JoinOrdered
<1>15. /\ Len(w) = Len(buffer[c]) + IncomingUnits
       /\ \A x \in 1..Len(buffer[c]) : w[x] = buffer[c][x]
       /\ \A i \in 1..IncomingUnits : w[Len(buffer[c]) + i] = First(n) + i
       /\ \A x \in 1..Len(w) :
            \/ x \in 1..Len(buffer[c])
            \/ \E i \in 1..IncomingUnits : x = Len(buffer[c]) + i
  <2> DEFINE v == buffer[c] \o Samples(n)
  <2>1. /\ Len(v) = Len(buffer[c]) + IncomingUnits
        /\ \A x \in 1..Len(buffer[c]) : v[x] = buffer[c][x]
        /\ \A i \in 1..IncomingUnits : v[Len(buffer[c]) + i] = First(n) + i
        /\ \A x \in 1..Len(v) :
             \/ x \in 1..Len(buffer[c])
             \/ \E i \in 1..IncomingUnits : x = Len(buffer[c]) + i
    BY <1>3, <1>5, JoinIs
  <2> HIDE DEF v
  <2>2. w = v
    BY <1>3 DEF v
  <2> QED BY <2>1, <2>2
<1>16. /\ Piece(Carry(w), w, o)
       /\ \A i \in 1..Whole(w) : Piece(FrameAudio(w, i), w, Start(i))
  BY <1>2, <1>3, PiecesAre
<1>17. /\ \A j \in 1..Len(Carry(w)) :
            o + j \in 1..Len(w) /\ Carry(w)[j] = w[o + j]
       /\ \A r : Precedes(r, w) => Precedes(r, Carry(w))
       /\ \A i \in 1..Whole(w) : \A r :
            Precedes(r, w) => Precedes(r, FrameAudio(w, i))
       /\ \A i \in 1..Whole(w) : \A j \in 1..Len(FrameAudio(w, i)) :
            Start(i) + j \in 1..Len(w) /\ FrameAudio(w, i)[j] = w[Start(i) + j]
  <2> HIDE DEF RouterInv
  <2>1. /\ \A j \in 1..Len(Carry(w)) :
             o + j \in 1..Len(w) /\ Carry(w)[j] = w[o + j]
        /\ \A r : Precedes(r, w) => Precedes(r, Carry(w))
    <3>1. Piece(Carry(w), w, o) /\ w \in Seq(Nat)
      BY <1>3, <1>16
    <3>2. \A j \in 1..Len(Carry(w)) :
            o + j \in 1..Len(w) /\ Carry(w)[j] = w[o + j]
      BY <3>1, PieceIs
    <3>3. \A r : Precedes(r, w) => Precedes(r, Carry(w))
      BY <3>1, PieceIs
    <3> QED BY <3>2, <3>3
  <2>2. ASSUME NEW i \in 1..Whole(w)
        PROVE  /\ \A r : Precedes(r, w) => Precedes(r, FrameAudio(w, i))
               /\ \A j \in 1..Len(FrameAudio(w, i)) :
                    /\ Start(i) + j \in 1..Len(w)
                    /\ FrameAudio(w, i)[j] = w[Start(i) + j]
    <3>1. Piece(FrameAudio(w, i), w, Start(i)) /\ w \in Seq(Nat)
      BY <1>3, <1>16
    <3>2. \A j \in 1..Len(FrameAudio(w, i)) :
            /\ Start(i) + j \in 1..Len(w)
            /\ FrameAudio(w, i)[j] = w[Start(i) + j]
      BY <3>1, PieceIs
    <3>3. \A r : Precedes(r, w) => Precedes(r, FrameAudio(w, i))
      BY <3>1, PieceIs
    <3> QED BY <3>2, <3>3
  <2> QED BY <2>1, <2>2
<1>18. ClockRuns(w, t, now)
  <2>1. /\ p.timestamp \in First(n) + IncomingUnits
                             ..First(n) + IncomingUnits + Jitter
        /\ t = IF buffer[c] = <<>> THEN p.timestamp ELSE start_ts[c]
        /\ \A k \in accepted[c] : k < n
    BY <1>1 DEF Processed
  <2>2. ClockRuns(w, t, accepted[c] \cup {n})
    <3>1. RouterInv
      OBVIOUS
    <3> HIDE DEF RouterInv
    <3> QED BY <1>3, <2>1, <3>1, ClockJoined
  <2> QED BY <1>2, <2>2
<1>19. \A i \in 1..Len(routed) : routed[i].channel \in Channels
  <2>1. \A i \in 1..Len(routed) : routed[i] \in Frames
    BY <1>4
  <2> QED BY <2>1 DEF Frames
<1>20. FramesKept'
  <2>1. ASSUME NEW i \in 1..Len(routed)
        PROVE  /\ FrameKept(routed[i], accepted'[routed[i].channel])
               /\ Timely(routed[i], accepted'[routed[i].channel])
    <3>1. /\ FrameKept(routed[i], accepted[routed[i].channel])
          /\ Timely(routed[i], accepted[routed[i].channel])
      BY DEF FramesKept
    <3>2. CASE routed[i].channel = c
      <4>1. FrameKept(routed[i], acc) /\ Timely(routed[i], acc)
        BY <1>2, <3>1, <3>2
      <4>2. FrameKept(routed[i], now) /\ Timely(routed[i], now)
        BY <1>3, <1>5, <4>1, KeptLater
      <4> QED BY <1>8, <3>2, <4>2
    <3>3. CASE routed[i].channel # c
      BY <1>8, <1>19, <3>1, <3>3
    <3> QED BY <3>2, <3>3
  <2>2. ASSUME NEW i \in 1..Whole(w)
        PROVE  /\ FrameKept(outgoing'[i], accepted'[outgoing'[i].channel])
               /\ Timely(outgoing'[i], accepted'[outgoing'[i].channel])
    <3>1. PICK a \in Nat \ {0}, g \in 1..Window : Clocked(w, t, now, a, g)
      BY <1>18 DEF ClockRuns
    <3>2. /\ frame(i).audio = FrameAudio(w, i)
          /\ frame(i).timestamp = t + Start(i)
      BY <1>9
    <3>3. FrameKept(frame(i), now) /\ Timely(frame(i), now)
      BY <1>3, <1>5, <1>14, <3>1, <3>2, CutKept
    <3> QED BY <1>8, <1>9, <3>3
  <2> QED BY <1>7, <1>9, <2>1, <2>2 DEF FramesKept
<1>21. CarryKept'
  <2>1. Ordered(Carry(w))
    BY <1>3, <1>14, CutOrdered
  <2>2. \A j \in 1..Len(Carry(w)) : Comes(Carry(w)[j], now)
    BY <1>14, <1>17
  <2>3. ASSUME NEW j \in 1..Len(Carry(w)), NEW k \in now, j = Len(Carry(w))
        PROVE  First(k) + IncomingUnits <= Carry(w)[j]
    <3>1. Carry(w)[j] = First(n) + IncomingUnits
      BY <1>6, <1>14, <1>17, <2>3
    <3>2. First(n) \in Nat /\ IncomingUnits \in Nat
      BY <1>3, FirstIs
    <3>3. CASE k = n
      BY <3>1, <3>2, <3>3
    <3>4. CASE k \in acc
      <4>1. k \in Nat \ {0} /\ k < n
        BY <1>3, <1>5, <3>4
      <4>2. First(k) \in Nat /\ First(k) + IncomingUnits <= First(n)
        BY <1>3, <4>1, FirstIs
      <4> QED BY <3>1, <3>2, <4>2
    <3> QED BY <1>5, <3>3, <3>4
  <2>4. ASSUME NEW d \in Channels
        PROVE  /\ Ordered(buffer'[d]) /\ Len(buffer'[d]) < OutgoingUnits
               /\ \A j \in 1..Len(buffer'[d]) :
                    Comes(buffer'[d][j], accepted'[d])
               /\ \A j \in 1..Len(buffer'[d]), k \in accepted'[d] :
                    j = Len(buffer'[d]) =>
                      First(k) + IncomingUnits <= buffer'[d][j]
    <3>1. CASE d = c
      BY <1>6, <1>8, <2>1, <2>2, <2>3, <3>1
    <3>2. CASE d # c
      BY <1>8, <3>2 DEF CarryKept
    <3> QED BY <3>1, <3>2
  <2> QED BY <2>4 DEF CarryKept
<1>22. HeldInOrder'
  <2>1. ASSUME NEW i \in 1..Len(routed), routed[i].channel = c
        PROVE  Precedes(routed[i].audio, w)
    <3> SUFFICES ASSUME NEW j \in 1..Len(routed[i].audio), NEW x \in 1..Len(w)
                 PROVE  routed[i].audio[j] < w[x]
      BY DEF Precedes
    <3>1. CASE x \in 1..Len(buffer[c])
      <4>1. Precedes(routed[i].audio, buffer[c])
        BY <2>1 DEF HeldInOrder
      <4> QED BY <1>15, <3>1, <4>1 DEF Precedes
    <3>2. ASSUME NEW k \in 1..IncomingUnits, x = Len(buffer[c]) + k
          PROVE  routed[i].audio[j] < w[x]
      <4>1. w[x] = First(n) + k
        BY <1>15, <3>2
      <4>2. FrameKept(routed[i], acc)
        BY <1>2, <2>1 DEF FramesKept
      <4>3. Comes(routed[i].audio[j], acc)
        BY <4>2 DEF FrameKept
      <4>4. routed[i].audio[j] \in Nat /\ routed[i].audio[j] <= First(n)
        BY <1>3, <1>5, <4>3, ComesBefore
      <4>5. First(n) \in Nat /\ IncomingUnits \in Nat
        BY <1>3, FirstIs
      <4> QED BY <4>1, <4>4, <4>5
    <3> QED BY <1>15, <3>1, <3>2
  <2>2. ASSUME NEW i \in 1..Len(routed), NEW j \in 1..Whole(w)
        PROVE  Behind(routed[i], outgoing'[j])
    BY <1>9, <1>17, <2>1 DEF Behind
  <2>3. ASSUME NEW i \in 1..Len(routed)
        PROVE  Precedes(routed[i].audio, buffer'[routed[i].channel])
    <3>1. CASE routed[i].channel = c
      BY <1>8, <1>17, <2>1, <3>1
    <3>2. CASE routed[i].channel # c
      BY <1>8, <1>19, <3>2 DEF HeldInOrder
    <3> QED BY <3>1, <3>2
  <2>4. ASSUME NEW i \in 1..Whole(w)
        PROVE  /\ Precedes(outgoing'[i].audio, buffer'[outgoing'[i].channel])
               /\ \A j \in 1..Whole(w) :
                    i < j => Behind(outgoing'[i], outgoing'[j])
    <3>1. /\ Precedes(FrameAudio(w, i), Carry(w))
          /\ \A j \in 1..Whole(w) :
               i < j => Precedes(FrameAudio(w, i), FrameAudio(w, j))
      BY <1>3, <1>14, CutOrdered
    <3> QED BY <1>8, <1>9, <3>1 DEF Behind
  <2> QED BY <1>7, <1>9, <2>2, <2>3, <2>4 DEF HeldInOrder
<1>23. ClockKept'
  <2>1. PICK a \in Nat \ {0}, g \in 1..Window :
          /\ Clocked(w, t, now, a, g)
          /\ Len(w) % OutgoingUnits = (g * IncomingUnits) % OutgoingUnits
    BY <1>18 DEF ClockRuns
  <2>2. ASSUME Carry(w) # <<>>
        PROVE  g \in 1..Window - 1
    <3>1. Len(Carry(w)) # 0
      BY <1>6, <2>2
    <3>2. g # Window
      BY <1>6, <2>1, <3>1, WindowIs
    <3>3. Window \in Nat
      BY WindowIs, RouterAssumption
    <3> QED BY <3>2, <3>3
  <2>3. Clocked(Carry(w), t + o, now, a, g)
    BY <1>3, <1>6, <1>16, <2>1, ClockedPiece DEF Piece
  <2>4. ASSUME NEW d \in Channels, buffer'[d] # <<>>
        PROVE  \E b \in Nat \ {0}, h \in 1..Window - 1 :
                 /\ Clocked(buffer'[d], start_ts'[d], accepted'[d], b, h)
                 /\ Len(buffer'[d]) = (h * IncomingUnits) % OutgoingUnits
    <3>1. CASE d = c
      BY <1>6, <1>8, <2>1, <2>2, <2>3, <2>4, <3>1
    <3>2. CASE d # c
      BY <1>8, <2>4, <3>2 DEF ClockKept
    <3> QED BY <3>1, <3>2
  <2> QED BY <2>4 DEF ClockKept
<1>24. AudioAccounted'
  <2>1. \A d \in Channels : \A u : Comes(u, accepted[d]) <=> Accounted(u, d)
    BY AudioAccountedIs DEF AllAccounted
  <2>2. \A u, d : ~In(u, d, outgoing)
    <3>1. 1..Len(outgoing) = {}
      BY <1>1 DEF Processed
    <3> QED BY <3>1 DEF In
  <2>3. \A d \in Channels : \A u :
          Accounted(u, d)' <=>
            \/ In(u, d, routed) \/ In(u, d, dropped) \/ In(u, d, outgoing')
            \/ InSeq(u, buffer'[d]) \/ u \in lost[d]
    BY <1>7 DEF Accounted, In, InSeq
  <2>4. ASSUME NEW d \in Channels, d # c, NEW u
        PROVE  Comes(u, accepted'[d]) <=> Accounted(u, d)'
    <3>1. ~In(u, d, outgoing')
      BY <1>9, <2>4 DEF In, InFrame
    <3> QED BY <1>8, <2>1, <2>2, <2>3, <2>4, <3>1 DEF Accounted
  <2>5. ASSUME NEW u
        PROVE  InSeq(u, w) <=> In(u, c, outgoing') \/ InSeq(u, Carry(w))
    <3>1. ASSUME NEW x \in 1..Len(w), w[x] = u
          PROVE  In(u, c, outgoing') \/ InSeq(u, Carry(w))
      <4>1. CASE \E j \in 1..Len(Carry(w)) : x = o + j
        BY <1>17, <3>1, <4>1 DEF InSeq
      <4>2. ASSUME NEW i \in 1..Whole(w), NEW j \in 1..OutgoingUnits,
                   x = Start(i) + j
            PROVE  In(u, c, outgoing')
        <5>1. FrameAudio(w, i)[j] = u /\ Len(FrameAudio(w, i)) = OutgoingUnits
          BY <1>10, <3>1, <4>2
        <5> QED BY <1>9, <5>1 DEF In, InFrame
      <4> QED BY <1>2, <1>3, <4>1, <4>2, CutCovers
    <3>2. ASSUME In(u, c, outgoing')
          PROVE  InSeq(u, w)
      <4>1. PICK i \in 1..Whole(w) : InFrame(u, c, frame(i))
        BY <1>9, <3>2 DEF In
      <4>2. PICK j \in 1..Len(FrameAudio(w, i)) : FrameAudio(w, i)[j] = u
        BY <1>9, <4>1 DEF InFrame
      <4> QED BY <1>17, <4>2 DEF InSeq
    <3>3. ASSUME InSeq(u, Carry(w))
          PROVE  InSeq(u, w)
      BY <1>17, <3>3 DEF InSeq
    <3> QED BY <3>1, <3>2, <3>3 DEF InSeq
  <2>6. ASSUME NEW u
        PROVE  InSeq(u, w) <=> InSeq(u, buffer[c]) \/ u \in Brought(n)
    <3>1. /\ First(n) \in Nat /\ IncomingUnits \in Nat
          /\ Len(buffer[c]) \in Nat
      <4>1. Len(buffer[c]) \in Nat
        BY <1>5
      <4> QED BY <1>3, <4>1, FirstIs
    <3>2. \A i \in 1..IncomingUnits :
            /\ First(n) + i \in Brought(n)
            /\ Len(buffer[c]) + i \in 1..Len(w)
      BY <1>15, <3>1 DEF Brought
    <3>3. ASSUME u \in Brought(n)
          PROVE  InSeq(u, w)
      <4>1. u - First(n) \in 1..IncomingUnits /\ u = First(n) + (u - First(n))
        BY <3>1, <3>3 DEF Brought
      <4> QED BY <1>15, <3>2, <4>1 DEF InSeq
    <3>4. \A x \in 1..Len(buffer[c]) : x \in 1..Len(w)
      BY <1>15, <3>1
    <3>5. ASSUME NEW x \in 1..Len(w), w[x] = u
          PROVE  InSeq(u, buffer[c]) \/ u \in Brought(n)
      BY <1>15, <3>2, <3>5 DEF InSeq
    <3> QED BY <1>15, <3>3, <3>4, <3>5 DEF InSeq
  <2>7. ASSUME NEW u
        PROVE  Comes(u, accepted'[c]) <=> Accounted(u, c)'
    <3>1. Comes(u, accepted'[c]) <=> Comes(u, acc) \/ u \in Brought(n)
      BY <1>5, <1>8 DEF Comes
    <3>2. Comes(u, acc) <=>
            \/ In(u, c, routed) \/ In(u, c, dropped)
            \/ InSeq(u, buffer[c]) \/ u \in lost[c]
      BY <1>2, <1>3, <2>1, <2>2 DEF Accounted
    <3> QED BY <1>3, <1>8, <2>3, <2>5, <2>6, <3>1, <3>2
  <2>8. AllAccounted'
    BY <2>4, <2>7 DEF AllAccounted
  <2> QED BY <1>12, <2>8, AudioAccountedThen
<1>25. IngestInOrder'
  BY <1>1 DEF Processed
<1> QED BY <1>12, <1>20, <1>21, <1>22, <1>23, <1>24, <1>25

LEMMA RouterStep == RouterInv /\ [Next]_vars => RouterInv'
<1> SUFFICES ASSUME RouterInv, [Next]_vars PROVE RouterInv'
  OBVIOUS
<1>1. CASE Next
  <2>1. ASSUME NEW c \in Channels, Lose(c)
        PROVE  RouterInv'
    BY <2>1, LoseKeeps
  <2>2. ASSUME NEW c \in Channels, NEW t \in Arrivals(c, sent[c] + 1),
               NEW valid \in BOOLEAN, OnMessage(c, t, valid)
        PROVE  RouterInv'
    BY <2>2, OnMessageKeeps
  <2>3. CASE CheckStop \/ Empty \/ AllPut \/ TakeFrame \/ Die \/ Signal
    BY <2>3, IdleKeeps
  <2>4. CASE Reject
    BY <2>4, RejectKeeps
  <2>5. CASE Process
    BY <2>5, ProcessKeeps
  <2>6. CASE PutFrame
    BY <2>6, PutFrameKeeps
  <2>7. CASE Restart
    BY <2>7, RestartKeeps
  <2> QED BY <1>1, <2>1, <2>2, <2>3, <2>4, <2>5, <2>6, <2>7 DEF Next
<1>2. CASE UNCHANGED vars
  <2>1. UNCHANGED <<sent, ingest, pc, buffer, start_ts, outgoing, routed,
                    dropped, accepted, lost>>
    BY <1>2 DEF vars, router_vars
  <2>2. RouterTypeOK' /\ IngestInOrder'
    BY <2>1 DEF RouterInv, RouterTypeOK, IngestInOrder
  <2> QED BY <2>1, <2>2, AudioUntouched DEF RouterInv
<1> QED BY <1>1, <1>2

-----------------------------------------------------------------------------
(* The theorems *)

THEOREM RouterInvariant == Spec => []RouterInv
<1> QED BY RouterStart, RouterStep, PTL DEF Spec

(* Re-cutting loses no audio of its own, whatever the two frame sizes, the *)
(* queues' capacities and the routers replaced: Repacketizer.process, the  *)
(* routed queue and the supervisor account for every unit accepted.        *)
THEOREM AudioIsAccounted == Spec => []AudioAccounted
<1>1. RouterInv => AudioAccounted
  BY DEF RouterInv
<1> QED BY <1>1, RouterInvariant, PTL

LEMMA ConcatIs ==
  ASSUME NEW s \in Seq(Nat), NEW t \in Seq(Nat)
  PROVE  /\ Len(s) \in Nat /\ Len(t) \in Nat
         /\ s \o t \in Seq(Nat) /\ Len(s \o t) = Len(s) + Len(t)
         /\ \A i \in 1..Len(s) : (s \o t)[i] = s[i]
         /\ \A i \in 1..Len(t) : (s \o t)[Len(s) + i] = t[i]
OBVIOUS

LEMMA ConcatIncreasing ==
  ASSUME NEW s \in Seq(Nat), NEW t \in Seq(Nat),
         Ordered(s), Ordered(t), Precedes(s, t)
  PROVE  Increasing(s \o t)
<1>1. /\ Len(s) \in Nat /\ Len(t) \in Nat
      /\ s \o t \in Seq(Nat) /\ Len(s \o t) = Len(s) + Len(t)
      /\ \A i \in 1..Len(s) : (s \o t)[i] = s[i]
      /\ \A i \in 1..Len(t) : (s \o t)[Len(s) + i] = t[i]
  BY ConcatIs
<1> SUFFICES ASSUME NEW i \in 1..Len(s \o t) - 1
             PROVE  (s \o t)[i] < (s \o t)[i + 1]
  BY DEF Increasing
<1>2. CASE i < Len(s)
  <2>1. i \in 1..Len(s) /\ i + 1 \in 1..Len(s) /\ i < i + 1
    BY <1>1, <1>2
  <2> QED BY <1>1, <2>1 DEF Ordered
<1>3. CASE i = Len(s)
  <2>1. i \in 1..Len(s) /\ 1 \in 1..Len(t) /\ i + 1 = Len(s) + 1
    BY <1>1, <1>3
  <2> QED BY <1>1, <2>1 DEF Precedes
<1>4. CASE i > Len(s)
  <2> DEFINE k == i - Len(s)
  <2>1. /\ k \in 1..Len(t) /\ k + 1 \in 1..Len(t) /\ k < k + 1
        /\ i = Len(s) + k /\ i + 1 = Len(s) + (k + 1)
    BY <1>1, <1>4
  <2> HIDE DEF k
  <2>2. (s \o t)[i] = t[k] /\ (s \o t)[i + 1] = t[k + 1]
    BY <1>1, <2>1
  <2> QED BY <2>1, <2>2 DEF Ordered
<1>5. i < Len(s) \/ i = Len(s) \/ i > Len(s)
  BY <1>1
<1> QED BY <1>2, <1>3, <1>4, <1>5

(* The VAD gets a channel's units in the order they were captured, each at *)
(* most once, and the frames and the carry that the router still holds     *)
(* come after them: across lost packets, full queues and a router that     *)
(* _restart replaced with an empty repacketizer on the same queues.        *)
THEOREM RoutedStaysInOrder == Spec => []RoutedInOrder
<1>1. ASSUME RouterInv PROVE RoutedInOrder
  <2> USE <1>1 DEF RouterInv
  <2> DEFINE held == routed \o outgoing
  <2>1. routed \in Seq(Frames) /\ outgoing \in Seq(Frames)
    BY DEF RouterTypeOK
  <2>2. /\ Len(routed) \in Nat /\ Len(outgoing) \in Nat
        /\ Len(held) = Len(routed) + Len(outgoing) /\ held \in Seq(Frames)
        /\ \A i \in 1..Len(routed) : held[i] = routed[i]
        /\ \A i \in 1..Len(outgoing) : held[Len(routed) + i] = outgoing[i]
    BY <2>1
  <2> HIDE DEF held
  <2>3. \A i \in 1..Len(held) :
          \/ i \in 1..Len(routed) /\ held[i] = routed[i]
          \/ \E k \in 1..Len(outgoing) :
               i = Len(routed) + k /\ held[i] = outgoing[k]
    <3> SUFFICES ASSUME NEW i \in 1..Len(held), i \notin 1..Len(routed)
                 PROVE  \E k \in 1..Len(outgoing) :
                          i = Len(routed) + k /\ held[i] = outgoing[k]
      BY <2>2
    <3> DEFINE k == i - Len(routed)
    <3>1. k \in 1..Len(outgoing) /\ i = Len(routed) + k
      BY <2>2
    <3> HIDE DEF k
    <3> QED BY <2>2, <3>1
  <2>4. ASSUME NEW i \in 1..Len(held)
        PROVE  /\ held[i].audio \in Seq(Nat) /\ held[i].channel \in Channels
               /\ Ordered(held[i].audio)
               /\ Precedes(held[i].audio, buffer[held[i].channel])
    <3>1. held[i] \in Frames
      BY <2>2
    <3>2. /\ Ordered(held[i].audio)
          /\ Precedes(held[i].audio, buffer[held[i].channel])
      BY <2>3 DEF FramesKept, FrameKept, HeldInOrder
    <3> QED BY <3>1, <3>2 DEF Frames
  <2>5. ASSUME NEW i \in 1..Len(held), NEW j \in 1..Len(held), i < j
        PROVE  Behind(held[i], held[j])
    <3>1. CASE j \in 1..Len(routed) /\ held[j] = routed[j]
      <4>1. i \in 1..Len(routed)
        BY <2>2, <2>5, <3>1
      <4> QED BY <2>2, <2>5, <3>1, <4>1 DEF HeldInOrder
    <3>2. ASSUME NEW k \in 1..Len(outgoing), j = Len(routed) + k,
                 held[j] = outgoing[k]
          PROVE  Behind(held[i], held[j])
      <4>1. CASE i \in 1..Len(routed) /\ held[i] = routed[i]
        BY <3>2, <4>1 DEF HeldInOrder
      <4>2. ASSUME NEW h \in 1..Len(outgoing), i = Len(routed) + h,
                   held[i] = outgoing[h]
            PROVE  Behind(held[i], held[j])
        <5>1. h < k
          BY <2>2, <2>5, <3>2, <4>2
        <5> QED BY <3>2, <4>2, <5>1 DEF HeldInOrder
      <4> QED BY <2>3, <4>1, <4>2
    <3> QED BY <2>3, <3>1, <3>2
  <2>6. \A c \in Channels : buffer[c] \in Seq(Nat) /\ Ordered(buffer[c])
    BY DEF RouterTypeOK, CarryKept
  <2>7. ASSUME NEW c \in Channels, NEW i \in 1..Len(held),
               held[i].channel = c
        PROVE  Increasing(held[i].audio \o buffer[c])
    BY <2>4, <2>6, <2>7, ConcatIncreasing
  <2>8. ASSUME NEW c \in Channels, NEW i \in 1..Len(held),
               NEW j \in 1..Len(held), held[i].channel = c,
               held[j].channel = c, i < j
        PROVE  Increasing(held[i].audio \o held[j].audio)
    <3>1. Precedes(held[i].audio, held[j].audio)
      BY <2>5, <2>8 DEF Behind
    <3> QED BY <2>4, <3>1, ConcatIncreasing
  <2> QED BY <2>7, <2>8 DEF RoutedInOrder, held
<1> QED BY <1>1, RouterInvariant, PTL

(* A lost packet shifts the timestamps of the frames cut from the carry    *)
(* that it interrupted and of no others: with Window packets in a row      *)
(* accepted, the clock that process() keeps in _buffer_start_ts has been   *)
(* taken anew, and a frame's stamp is its audio's capture time up to the   *)
(* jitter of one packet.  For every pair of frame sizes.                   *)
THEOREM DriftAlwaysHeals == Spec => []DriftHeals
<1>1. RouterInv => DriftHeals
  BY DEF RouterInv, FramesKept, Timely, Recent, OnTime, DriftHeals
<1> QED BY <1>1, RouterInvariant, PTL
=============================================================================
