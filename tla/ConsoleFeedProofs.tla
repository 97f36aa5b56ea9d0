--------------------------- MODULE ConsoleFeedProofs ---------------------------
(***************************************************************************)
(* What a browser is shown, for any channels, events, connections, backlog *)
(* and queue sizes: the properties of TranscriptHub, and of the console    *)
(* page that the hub feeds in ConsoleFeed.                                 *)
(***************************************************************************)
EXTENDS ConsoleFeed, FiniteSetTheorems, TLAPS

(* Sequences and sets of numbers                                           *)

LEMMA HasMin ==
  ASSUME NEW S \in SUBSET Nat, S # {}
  PROVE  /\ Min(S) \in S
         /\ \A n \in S : Min(S) <= n
<1>1. PICK n \in S : \A i \in S : ~(<<i, n>> \in OpToRel(<, Nat))
  BY NatLessThanWellFounded, WFMin
<1>2. \A i \in S : n <= i
  <2> SUFFICES ASSUME NEW i \in S, ~(n <= i) PROVE FALSE
    OBVIOUS
  <2>1. i < n /\ i \in Nat /\ n \in Nat
    OBVIOUS
  <2>2. <<i, n>> \in OpToRel(<, Nat)
    BY <2>1 DEF OpToRel
  <2> QED BY <1>1, <2>2
<1> QED BY <1>1, <1>2 DEF Min

(* Every message: an event, or the placeholder before the first.           *)
Msg == [channel : Channels, segment : Nat, is_final : BOOLEAN]

(* The replay is the backlog in another order: each of its entries stands  *)
(* in one place, and of two entries the one spoken first, or of equals the *)
(* one published first, stands first.                                      *)
Origin(s, r) == CHOOSE i \in DOMAIN s : Place(s, i) = r

Earlier(s, i) == {j \in DOMAIN s : Before(s, j, i)}

LEMMA BeforeOrders ==
  ASSUME NEW s \in Seq(Msg), NEW i \in DOMAIN s, NEW j \in DOMAIN s
  PROVE  /\ Before(s, i, j) \/ Before(s, j, i) \/ i = j
         /\ ~Before(s, i, i)
         /\ \A l \in DOMAIN s :
              Before(s, l, i) /\ Before(s, i, j) => Before(s, l, j)
<1>1. DOMAIN s = 1..Len(s) /\ Len(s) \in Nat
  OBVIOUS
<1>2. \A l \in DOMAIN s : l \in Nat /\ s[l].segment \in Nat
  <2>1. \A l \in 1..Len(s) : s[l] \in Msg
    OBVIOUS
  <2> QED BY <1>1, <2>1 DEF Msg
<1> QED BY <1>2 DEF Before

LEMMA PlaceInRange ==
  ASSUME NEW s \in Seq(Msg), NEW i \in DOMAIN s
  PROVE  Place(s, i) \in 1..Len(s)
<1>1. DOMAIN s = 1..Len(s) /\ Len(s) \in Nat
  OBVIOUS
<1>2. IsFiniteSet(DOMAIN s) /\ Cardinality(DOMAIN s) = Len(s)
  <2>1. /\ IsFiniteSet(1..Len(s))
        /\ Cardinality(1..Len(s)) = IF 1 > Len(s) THEN 0 ELSE Len(s) - 1 + 1
    BY <1>1, FS_Interval
  <2> QED BY <1>1, <2>1
<1>3. IsFiniteSet(Earlier(s, i)) /\ Cardinality(Earlier(s, i)) \in Nat
      /\ Cardinality(Earlier(s, i)) <= Len(s)
      /\ (Cardinality(DOMAIN s) = Cardinality(Earlier(s, i))
            => DOMAIN s = Earlier(s, i))
  <2>1. Earlier(s, i) \in SUBSET DOMAIN s
    BY DEF Earlier
  <2> QED BY <1>2, <2>1, FS_Subset, FS_CardinalityType
<1>4. i \notin Earlier(s, i)
  BY BeforeOrders DEF Earlier
<1>5. Cardinality(Earlier(s, i)) # Len(s)
  BY <1>2, <1>3, <1>4
<1>6. Place(s, i) = Cardinality(Earlier(s, i)) + 1
  BY DEF Place, Earlier
<1> QED BY <1>1, <1>3, <1>5, <1>6

LEMMA PlaceRises ==
  ASSUME NEW s \in Seq(Msg), NEW i \in DOMAIN s, NEW j \in DOMAIN s,
         Before(s, i, j)
  PROVE  Place(s, i) < Place(s, j)
<1>1. DOMAIN s = 1..Len(s) /\ Len(s) \in Nat
  OBVIOUS
<1>2. IsFiniteSet(DOMAIN s)
  BY <1>1, FS_Interval
<1>3. Earlier(s, i) \in SUBSET Earlier(s, j)
  BY BeforeOrders DEF Earlier
<1>4. i \in Earlier(s, j) /\ i \notin Earlier(s, i)
  BY BeforeOrders DEF Earlier
<1>5. IsFiniteSet(Earlier(s, j))
  <2>1. Earlier(s, j) \in SUBSET DOMAIN s
    BY DEF Earlier
  <2> QED BY <1>2, <2>1, FS_Subset
<1>6. /\ Cardinality(Earlier(s, i)) <= Cardinality(Earlier(s, j))
      /\ Cardinality(Earlier(s, i)) # Cardinality(Earlier(s, j))
      /\ IsFiniteSet(Earlier(s, i))
  BY <1>3, <1>4, <1>5, FS_Subset
<1>7. /\ Cardinality(Earlier(s, i)) \in Nat
      /\ Cardinality(Earlier(s, j)) \in Nat
  BY <1>5, <1>6, FS_CardinalityType
<1>8. /\ Place(s, i) = Cardinality(Earlier(s, i)) + 1
      /\ Place(s, j) = Cardinality(Earlier(s, j)) + 1
  BY DEF Place, Earlier
<1> QED BY <1>6, <1>7, <1>8

LEMMA OriginOf ==
  ASSUME NEW s \in Seq(Msg)
  PROVE  /\ \A r \in DOMAIN s : Origin(s, r) \in DOMAIN s
         /\ \A i \in DOMAIN s : \E r \in DOMAIN s : Origin(s, r) = i
         /\ \A r, u \in DOMAIN s :
              r < u => Before(s, Origin(s, r), Origin(s, u))
<1> DEFINE D == DOMAIN s
           place == [i \in D |-> Place(s, i)]
<1>1. D = 1..Len(s) /\ Len(s) \in Nat
  OBVIOUS
<1>2. IsFiniteSet(D)
  BY <1>1, FS_Interval
<1>3. \A i \in D : Place(s, i) \in D
  BY <1>1, PlaceInRange
<1>4. \A i, j \in D : Place(s, i) = Place(s, j) => i = j
  <2> SUFFICES ASSUME NEW i \in D, NEW j \in D,
                      Place(s, i) = Place(s, j), i # j
               PROVE  FALSE
    OBVIOUS
  <2>1. Before(s, i, j) \/ Before(s, j, i)
    BY BeforeOrders
  <2>2. Place(s, i) < Place(s, j) \/ Place(s, j) < Place(s, i)
    BY <2>1, PlaceRises
  <2>3. Place(s, i) \in Nat /\ Place(s, j) \in Nat
    BY <1>1, <1>3
  <2> QED BY <2>2, <2>3
<1>5. place \in Injection(D, D)
  BY <1>3, <1>4 DEF Injection, IsInjective
<1>6. place \in Surjection(D, D)
  BY <1>2, <1>5, FS_Injection
<1>7. \A r \in D : \E i \in D : Place(s, i) = r
  BY <1>6 DEF Surjection
<1>8. \A r \in D : Origin(s, r) \in D /\ Place(s, Origin(s, r)) = r
  BY <1>7 DEF Origin
<1>9. \A i \in D : Origin(s, Place(s, i)) = i
  BY <1>3, <1>4, <1>8
<1>10. ASSUME NEW r \in D, NEW u \in D, r < u
       PROVE  Before(s, Origin(s, r), Origin(s, u))
  <2> DEFINE i == Origin(s, r)
             j == Origin(s, u)
  <2>1. i \in D /\ j \in D /\ Place(s, i) = r /\ Place(s, j) = u
    BY <1>8
  <2> HIDE DEF i, j
  <2>2. ~Before(s, j, i)
    <3> SUFFICES ASSUME Before(s, j, i) PROVE FALSE
      OBVIOUS
    <3>1. u < r
      BY <2>1, PlaceRises
    <3> QED BY <1>1, <1>10, <3>1
  <2>3. i # j
    BY <1>1, <1>10, <2>1
  <2>4. Before(s, i, j) \/ Before(s, j, i) \/ i = j
    BY <2>1, BeforeOrders
  <2>5. Before(s, i, j)
    BY <2>2, <2>3, <2>4
  <2> QED BY <2>5 DEF i, j
<1> QED BY <1>3, <1>8, <1>9, <1>10

LEMMA SortedIs ==
  ASSUME NEW s \in Seq(Msg)
  PROVE  /\ SortedByStart(s) \in Seq(Msg)
         /\ Len(SortedByStart(s)) = Len(s)
         /\ \A r \in DOMAIN s : SortedByStart(s)[r] = s[Origin(s, r)]
<1>1. SortedByStart(s) = [r \in DOMAIN s |-> s[Origin(s, r)]]
  BY DEF SortedByStart, Origin
<1>2. DOMAIN s = 1..Len(s) /\ Len(s) \in Nat
  OBVIOUS
<1>3. \A r \in DOMAIN s : s[Origin(s, r)] \in Msg
  BY OriginOf, <1>2
<1> QED BY <1>1, <1>2, <1>3
LEMMA NewestIs ==
  ASSUME NEW s \in Seq(Msg)
  PROVE  /\ Newest(s) \in Seq(Msg)
         /\ \E d \in Nat : /\ Len(s) = Len(Newest(s)) + d
                           /\ \A i \in 1..Len(Newest(s)) :
                                Newest(s)[i] = s[i + d]
<1>1. BacklogMax \in Nat /\ Len(s) \in Nat
  BY HubAssumption
<1>2. CASE Len(s) <= BacklogMax
  <2>1. Newest(s) = s
    BY <1>2 DEF Newest
  <2>2. Len(s) = Len(s) + 0 /\ \A i \in 1..Len(s) : s[i] = s[i + 0]
    BY <1>1
  <2> QED BY <2>1, <2>2
<1>3. CASE ~(Len(s) <= BacklogMax)
  <2> DEFINE d == Len(s) - BacklogMax
  <2>1. d \in Nat /\ d + 1 \in 1..Len(s) + 1 /\ Len(s) \in 0..Len(s)
    BY <1>1, <1>3
  <2>2. Newest(s) = SubSeq(s, d + 1, Len(s))
    BY <1>3 DEF Newest
  <2> HIDE DEF d
  <2>3. /\ Newest(s) \in Seq(Msg)
        /\ Len(Newest(s)) = Len(s) - d
        /\ \A i \in 1..Len(Newest(s)) : Newest(s)[i] = s[i + d]
    BY <1>1, <2>1, <2>2
  <2>4. Len(s) = Len(Newest(s)) + d
    BY <1>1, <2>1, <2>3
  <2> QED BY <2>1, <2>3, <2>4
<1> QED BY <1>2, <1>3

-----------------------------------------------------------------------------
(* The hub                                                                 *)

LEMMA FollowsOrders ==
  /\ \A a, b, d \in Msg : Follows(a, b) /\ Follows(b, d) => Follows(a, d)
  /\ \A a \in Msg : ~Follows(a, a)
BY DEF Follows, Msg

HubTypeOK ==
  /\ backlog \in Seq(Msg)
  /\ opened \in 0..MaxConns
  /\ subscribers \subseteq 1..opened
  /\ got \in [Conns -> Seq(Msg)] /\ read \in [Conns -> Nat]
  /\ sending \in [Channels -> Msg]
  /\ targets \in [Channels -> SUBSET (1..opened)]
  /\ dropped \in [Conns -> SUBSET Msg]

(* A connection takes only what was put for it. *)
ReadsWhatWasPut ==
  /\ \A k \in Conns : read[k] <= Len(got[k])
  /\ \A k \in Conns : k > opened => read[k] = 0

(* Of its channel's events one that was published is the last, or older. *)
Published(e) ==
  e = sending[e.channel] \/ Follows(e, sending[e.channel])

BacklogPublished ==
  /\ \A c \in Channels : sending[c].channel = c
  /\ \A i \in 1..Len(backlog) : backlog[i].is_final /\ Published(backlog[i])

(* The backlog is in publishing order. *)
BacklogInOrder ==
  \A i, j \in 1..Len(backlog) :
    i < j /\ backlog[i].channel = backlog[j].channel =>
      Follows(backlog[i], backlog[j])

QueuesPublished ==
  \A k \in Conns : \A i \in 1..Len(got[k]) : Published(got[k][i])

(* What is still to be put into a queue is newer than what the channel put *)
(* there before.                                                           *)
StillToCome ==
  \A c \in Channels : \A k \in targets[c] : \A i \in 1..Len(got[k]) :
    got[k][i].channel = c => Follows(got[k][i], sending[c])

HubInv ==
  /\ HubTypeOK /\ ReadsWhatWasPut
  /\ BacklogPublished /\ BacklogInOrder
  /\ QueuesPublished /\ StillToCome
  /\ ChannelOrder /\ BacklogReachesAll

(* A publisher is of its channel, whatever was seen stays published. *)
LEMMA PublishAges ==
  ASSUME HubInv, NEW c \in Channels, NEW e \in Events, Publish(c, e)
  PROVE  /\ e \in Msg /\ e.channel = c
         /\ sending' \in [Channels -> Msg]
         /\ \A d \in Channels :
              sending'[d] = IF d = c THEN e ELSE sending[d]
         /\ \A x \in Msg : Published(x) => Published(x)'
         /\ \A x \in Msg : Published(x) /\ x.channel = c => Follows(x, e)
<1>1. e \in Msg
  BY HubAssumption DEF Msg
<1>2. sending \in [Channels -> Msg] /\ sending[c].channel = c
  BY DEF HubInv, HubTypeOK, BacklogPublished
<1>3. e.channel = c /\ Follows(sending[c], e)
  BY <1>2 DEF Publish, Follows
<1>4. /\ sending' \in [Channels -> Msg]
      /\ \A d \in Channels : sending'[d] = IF d = c THEN e ELSE sending[d]
  BY <1>1, <1>2 DEF Publish
<1>5. \A x \in Msg : Published(x) /\ x.channel = c => Follows(x, e)
  BY <1>1, <1>2, <1>3, FollowsOrders DEF Published
<1>6. \A x \in Msg : x.channel \in Channels
  BY DEF Msg
<1>7. \A x \in Msg : Published(x) => Published(x)'
  BY <1>4, <1>5, <1>6 DEF Published
<1> QED BY <1>1, <1>3, <1>4, <1>5, <1>7

LEMMA HubStart == HubInit => HubInv
<1> SUFFICES ASSUME HubInit PROVE HubInv
  OBVIOUS
<1>1. HubTypeOK /\ ReadsWhatWasPut
  <2>1. \A c \in Channels : Nothing(c) \in Msg
    BY DEF Nothing, Msg
  <2> QED BY <2>1, HubAssumption DEF HubInit, HubTypeOK, ReadsWhatWasPut, Conns
<1>2. BacklogPublished /\ BacklogInOrder /\ BacklogReachesAll
  BY DEF HubInit, BacklogPublished, BacklogInOrder, BacklogReachesAll, Nothing
<1>3. QueuesPublished /\ StillToCome /\ ChannelOrder
  BY DEF HubInit, QueuesPublished, StillToCome, ChannelOrder
<1> QED BY <1>1, <1>2, <1>3 DEF HubInv

LEMMA PublishKeeps ==
  ASSUME HubInv, NEW c \in Channels, NEW e \in Events, Publish(c, e)
  PROVE  HubInv'
<1> USE DEF HubInv
<1>1. /\ e \in Msg /\ e.channel = c
      /\ sending' \in [Channels -> Msg]
      /\ \A d \in Channels : sending'[d] = IF d = c THEN e ELSE sending[d]
      /\ \A x \in Msg : Published(x) => Published(x)'
      /\ \A x \in Msg : Published(x) /\ x.channel = c => Follows(x, e)
  BY PublishAges
<1>2. /\ targets' \in [Channels -> SUBSET (1..opened)]
      /\ \A d \in Channels :
           targets'[d] = IF d = c THEN subscribers ELSE targets[d]
      /\ targets[c] = {}
  BY DEF Publish, HubTypeOK
<1>3. UNCHANGED <<subscribers, opened, got, read, dropped>>
  BY DEF Publish
<1>4. Published(e)'
  BY <1>1 DEF Published
<1>5. PICK b \in Seq(Msg) :
        /\ b = IF e.is_final THEN Append(backlog, e) ELSE backlog
        /\ backlog' \in Seq(Msg)
        /\ \E d \in Nat : /\ Len(b) = Len(backlog') + d
                          /\ \A i \in 1..Len(backlog') : backlog'[i] = b[i + d]
  <2>1. backlog \in Seq(Msg) /\ Append(backlog, e) \in Seq(Msg)
    BY <1>1 DEF HubTypeOK
  <2>2. CASE e.is_final
    BY <2>1, <2>2, NewestIs DEF Publish
  <2>3. CASE ~e.is_final
    <3>1. /\ Len(backlog) = Len(backlog) + 0
          /\ \A i \in 1..Len(backlog) : backlog[i] = backlog[i + 0]
      BY <2>1
    <3> QED BY <2>1, <2>3, <3>1 DEF Publish
  <2> QED BY <2>2, <2>3
<1>6. PICK d \in Nat : /\ Len(b) = Len(backlog') + d
                       /\ \A i \in 1..Len(backlog') : backlog'[i] = b[i + d]
  BY <1>5
<1>7. \A i \in 1..Len(b) :
        /\ b[i] \in Msg
        /\ \/ i \in 1..Len(backlog) /\ b[i] = backlog[i]
           \/ i = Len(backlog) + 1 /\ b[i] = e /\ e.is_final
  BY <1>1, <1>5 DEF HubTypeOK
<1>8. \A i \in 1..Len(backlog') : i + d \in 1..Len(b)
  BY <1>5, <1>6
<1>9. HubTypeOK'
  BY <1>1, <1>2, <1>3, <1>5 DEF HubTypeOK
<1>10. ReadsWhatWasPut'
  BY <1>3 DEF ReadsWhatWasPut
<1>11. BacklogPublished'
  <2>1. \A i \in 1..Len(b) : b[i].is_final /\ Published(b[i])'
    BY <1>1, <1>4, <1>7 DEF BacklogPublished
  <2> QED BY <1>1, <1>6, <1>8, <2>1 DEF BacklogPublished
<1>12. BacklogInOrder'
  <2>1. \A i, j \in 1..Len(b) :
          i < j /\ b[i].channel = b[j].channel => Follows(b[i], b[j])
    <3> SUFFICES ASSUME NEW i \in 1..Len(b), NEW j \in 1..Len(b),
                        i < j, b[i].channel = b[j].channel
                 PROVE  Follows(b[i], b[j])
      OBVIOUS
    <3>1. i \in 1..Len(backlog) /\ b[i] = backlog[i]
      BY <1>5, <1>7 DEF HubTypeOK
    <3>2. CASE j \in 1..Len(backlog) /\ b[j] = backlog[j]
      BY <3>1, <3>2 DEF BacklogInOrder
    <3>3. CASE b[j] = e
      BY <1>1, <1>7, <3>1, <3>3 DEF BacklogPublished
    <3> QED BY <1>7, <3>2, <3>3
  <2>2. \A i, j \in 1..Len(backlog') : i < j => i + d < j + d
    BY <1>5
  <2> QED BY <1>6, <1>8, <2>1, <2>2 DEF BacklogInOrder
<1>13. QueuesPublished'
  BY <1>1, <1>3 DEF QueuesPublished, HubTypeOK
<1>14. StillToCome'
  <2> SUFFICES ASSUME NEW a \in Channels, NEW k \in targets'[a],
                      NEW i \in 1..Len(got[k]), got[k][i].channel = a
               PROVE  Follows(got[k][i], sending'[a])
    BY <1>3 DEF StillToCome
  <2>1. CASE a = c
    <3>1. k \in Conns
      BY <1>2, HubAssumption DEF HubTypeOK, Conns
    <3>2. got[k][i] \in Msg /\ Published(got[k][i])
      BY <3>1 DEF HubTypeOK, QueuesPublished
    <3> QED BY <1>1, <2>1, <3>2
  <2>2. CASE a # c
    BY <1>1, <1>2, <2>2 DEF StillToCome
  <2> QED BY <2>1, <2>2
<1>15. ChannelOrder'
  BY <1>3 DEF ChannelOrder
<1>16. BacklogReachesAll'
  <2> SUFFICES ASSUME NEW k \in subscribers, NEW i \in 1..Len(backlog')
               PROVE  \/ backlog'[i] \in ToSet(got[k]) \cup dropped[k]
                      \/ \E a \in Channels :
                           sending'[a] = backlog'[i] /\ k \in targets'[a]
    BY <1>3 DEF BacklogReachesAll, InFlight
  <2>1. CASE backlog'[i] = e
    BY <1>1, <1>2, <2>1
  <2>2. CASE \E j \in 1..Len(backlog) : backlog'[i] = backlog[j]
    <3>1. PICK j \in 1..Len(backlog) : backlog'[i] = backlog[j]
      BY <2>2
    <3>2. \/ backlog[j] \in ToSet(got[k]) \cup dropped[k]
          \/ \E a \in Channels : sending[a] = backlog[j] /\ k \in targets[a]
      BY DEF BacklogReachesAll, InFlight
    <3> QED BY <1>1, <1>2, <3>1, <3>2
  <2> QED BY <1>6, <1>7, <1>8, <2>1, <2>2
<1> QED BY <1>9, <1>10, <1>11, <1>12, <1>13, <1>14, <1>15, <1>16

LEMMA PutKeeps ==
  ASSUME HubInv, NEW c \in Channels, NEW k \in targets[c], Put(c, k)
  PROVE  HubInv'
<1> USE DEF HubInv
<1>1. UNCHANGED <<backlog, subscribers, opened, read, sending, dropped>>
  BY DEF Put
<1>2. k \in Conns /\ sending[c] \in Msg /\ sending[c].channel = c
  BY HubAssumption DEF HubTypeOK, Conns, BacklogPublished
<1>3. /\ targets' \in [Channels -> SUBSET (1..opened)]
      /\ \A d \in Channels :
           targets'[d] = IF d = c THEN targets[c] \ {k} ELSE targets[d]
  BY DEF Put, AfterPut, HubTypeOK
<1>4. /\ got' \in [Conns -> Seq(Msg)]
      /\ \A l \in Conns : l # k => got'[l] = got[l]
      /\ got'[k] = Append(got[k], sending[c])
  BY <1>2 DEF Put, HubTypeOK
<1>5. /\ Len(got'[k]) = Len(got[k]) + 1 /\ Len(got[k]) \in Nat
      /\ got'[k][Len(got[k]) + 1] = sending[c]
      /\ \A i \in 1..Len(got[k]) : got'[k][i] = got[k][i] /\ got[k][i] \in Msg
  BY <1>2, <1>4 DEF HubTypeOK
<1>6. \A i \in 1..Len(got'[k]) :
        \/ i \in 1..Len(got[k]) /\ got'[k][i] = got[k][i]
        \/ i = Len(got[k]) + 1 /\ got'[k][i] = sending[c]
  BY <1>5
<1>7. HubTypeOK'
  BY <1>1, <1>3, <1>4 DEF HubTypeOK
<1>8. ReadsWhatWasPut'
  <2>1. Len(got[k]) <= Len(got'[k]) /\ read[k] \in Nat
    BY <1>2, <1>5 DEF HubTypeOK
  <2>2. read[k] <= Len(got'[k])
    BY <1>2, <1>5, <2>1 DEF ReadsWhatWasPut
  <2> QED BY <1>1, <1>4, <2>2 DEF ReadsWhatWasPut
<1>9. BacklogPublished' /\ BacklogInOrder'
  BY <1>1 DEF BacklogPublished, BacklogInOrder, Published
<1>10. QueuesPublished'
  <2>1. Published(sending[c])
    BY <1>2 DEF Published
  <2>2. \A x : Published(x) => Published(x)'
    BY <1>1 DEF Published
  <2>3. \A i \in 1..Len(got'[k]) : Published(got'[k][i])
    BY <1>2, <1>6, <2>1 DEF QueuesPublished
  <2>4. \A l \in Conns : \A i \in 1..Len(got'[l]) : Published(got'[l][i])
    BY <1>4, <2>3 DEF QueuesPublished
  <2> QED BY <1>1, <2>4 DEF QueuesPublished, Published
<1>11. StillToCome'
  <2> SUFFICES ASSUME NEW a \in Channels, NEW l \in targets'[a],
                      NEW i \in 1..Len(got'[l]), got'[l][i].channel = a
               PROVE  Follows(got'[l][i], sending[a])
    BY <1>1 DEF StillToCome
  <2>1. l \in targets[a]
    BY <1>3
  <2>2. l \in Conns
    BY <2>1, HubAssumption DEF HubTypeOK, Conns
  <2>3. CASE i \in 1..Len(got[l]) /\ got'[l][i] = got[l][i]
    BY <2>1, <2>3 DEF StillToCome
  <2>4. CASE l = k /\ got'[l][i] = sending[c]
    BY <1>2, <1>3, <2>4
  <2> QED BY <1>4, <1>6, <2>2, <2>3, <2>4
<1>12. ChannelOrder'
  <2> SUFFICES ASSUME NEW l \in Conns, NEW i \in 1..Len(got'[l]),
                      NEW j \in 1..Len(got'[l]), i < j,
                      got'[l][i].channel = got'[l][j].channel
               PROVE  Follows(got'[l][i], got'[l][j])
    BY DEF ChannelOrder
  <2>1. CASE l # k
    BY <1>4, <2>1 DEF ChannelOrder
  <2>2. CASE l = k /\ j \in 1..Len(got[k])
    <3>1. i \in 1..Len(got[k])
      BY <1>5, <2>2
    <3> QED BY <1>2, <1>5, <2>2, <3>1 DEF ChannelOrder
  <2>3. CASE l = k /\ j = Len(got[k]) + 1
    <3>1. i \in 1..Len(got[k])
      BY <1>5, <2>3
    <3> QED BY <1>2, <1>5, <2>3, <3>1 DEF StillToCome
  <2> QED BY <1>6, <2>1, <2>2, <2>3
<1>13. BacklogReachesAll'
  <2> SUFFICES ASSUME NEW l \in subscribers, NEW i \in 1..Len(backlog)
               PROVE  \/ backlog[i] \in ToSet(got'[l]) \cup dropped[l]
                      \/ \E a \in Channels :
                           sending[a] = backlog[i] /\ l \in targets'[a]
    BY <1>1 DEF BacklogReachesAll, InFlight
  <2>1. l \in Conns
    BY HubAssumption DEF HubTypeOK, Conns
  <2>2. ToSet(got[l]) \subseteq ToSet(got'[l])
    BY <1>4, <1>5, <2>1 DEF ToSet
  <2>3. sending[c] \in ToSet(got'[k])
    BY <1>4, <1>5 DEF ToSet
  <2>4. \/ backlog[i] \in ToSet(got[l]) \cup dropped[l]
        \/ \E a \in Channels : sending[a] = backlog[i] /\ l \in targets[a]
    BY DEF BacklogReachesAll, InFlight
  <2> QED BY <1>3, <2>2, <2>3, <2>4
<1> QED BY <1>7, <1>8, <1>9, <1>10, <1>11, <1>12, <1>13

LEMMA PutFullKeeps ==
  ASSUME HubInv, NEW c \in Channels, NEW k \in targets[c], PutFull(c, k)
  PROVE  HubInv'
<1> USE DEF HubInv
<1>1. UNCHANGED <<backlog, subscribers, opened, got, read, sending>>
  BY DEF PutFull
<1>2. k \in Conns /\ sending[c] \in Msg
  BY HubAssumption DEF HubTypeOK, Conns
<1>3. /\ targets' \in [Channels -> SUBSET (1..opened)]
      /\ \A d \in Channels :
           targets'[d] = IF d = c THEN targets[c] \ {k} ELSE targets[d]
  BY DEF PutFull, AfterPut, HubTypeOK
<1>4. /\ dropped' \in [Conns -> SUBSET Msg]
      /\ \A l \in Conns : dropped[l] \subseteq dropped'[l]
      /\ sending[c] \in dropped'[k]
  BY <1>2 DEF PutFull, HubTypeOK
<1>5. HubTypeOK'
  BY <1>1, <1>3, <1>4 DEF HubTypeOK
<1>6. /\ ReadsWhatWasPut' /\ BacklogPublished' /\ BacklogInOrder'
      /\ QueuesPublished' /\ ChannelOrder'
  BY <1>1 DEF ReadsWhatWasPut, BacklogPublished, BacklogInOrder,
     QueuesPublished, ChannelOrder, Published
<1>7. StillToCome'
  <2>1. \A d \in Channels : targets'[d] \subseteq targets[d]
    BY <1>3
  <2> QED BY <1>1, <2>1 DEF StillToCome
<1>8. BacklogReachesAll'
  <2> SUFFICES ASSUME NEW l \in subscribers, NEW i \in 1..Len(backlog)
               PROVE  \/ backlog[i] \in ToSet(got[l]) \cup dropped'[l]
                      \/ \E a \in Channels :
                           sending[a] = backlog[i] /\ l \in targets'[a]
    BY <1>1 DEF BacklogReachesAll, InFlight
  <2>1. l \in Conns
    BY HubAssumption DEF HubTypeOK, Conns
  <2>2. \/ backlog[i] \in ToSet(got[l]) \cup dropped[l]
        \/ \E a \in Channels : sending[a] = backlog[i] /\ l \in targets[a]
    BY DEF BacklogReachesAll, InFlight
  <2> QED BY <1>3, <1>4, <2>1, <2>2
<1> QED BY <1>5, <1>6, <1>7, <1>8

(* What a connection is seeded with: all of the backlog, each channel in   *)
(* the order it was published.                                             *)
LEMMA SeedIs ==
  ASSUME HubInv
  PROVE  /\ Seed \in Seq(Msg) /\ Len(Seed) = Len(backlog)
         /\ \A r \in 1..Len(Seed) : Published(Seed[r])
         /\ \A i \in 1..Len(backlog) :
              \E r \in 1..Len(Seed) : Seed[r] = backlog[i]
         /\ \A r, u \in 1..Len(Seed) :
              r < u /\ Seed[r].channel = Seed[u].channel =>
                Follows(Seed[r], Seed[u])
<1>1. backlog \in Seq(Msg) /\ DOMAIN backlog = 1..Len(backlog)
  BY DEF HubInv, HubTypeOK
<1>2. /\ Seed \in Seq(Msg) /\ Len(Seed) = Len(backlog)
      /\ \A r \in 1..Len(Seed) : Seed[r] = backlog[Origin(backlog, r)]
  BY <1>1, SortedIs DEF Seed
<1>3. /\ \A r \in 1..Len(Seed) : Origin(backlog, r) \in 1..Len(backlog)
      /\ \A i \in 1..Len(backlog) :
           \E r \in 1..Len(Seed) : Origin(backlog, r) = i
      /\ \A r, u \in 1..Len(Seed) :
           r < u => Before(backlog, Origin(backlog, r), Origin(backlog, u))
  BY <1>1, <1>2, OriginOf
<1>4. \A r \in 1..Len(Seed) : Published(Seed[r])
  BY <1>2, <1>3 DEF HubInv, BacklogPublished
<1>5. ASSUME NEW i \in 1..Len(backlog), NEW j \in 1..Len(backlog),
             Before(backlog, i, j), backlog[i].channel = backlog[j].channel
      PROVE  Follows(backlog[i], backlog[j])
  <2>1. CASE backlog[i].segment < backlog[j].segment
    <3>1. backlog[i] \in Msg /\ backlog[j] \in Msg
      BY <1>1
    <3> QED BY <1>5, <2>1, <3>1 DEF Follows, Msg
  <2>2. CASE i < j
    BY <1>5, <2>2 DEF HubInv, BacklogInOrder
  <2> QED BY <1>5, <2>1, <2>2 DEF Before
<1>6. \A i \in 1..Len(backlog) : \E r \in 1..Len(Seed) : Seed[r] = backlog[i]
  BY <1>2, <1>3
<1>7. ASSUME NEW r \in 1..Len(Seed), NEW u \in 1..Len(Seed), r < u,
             Seed[r].channel = Seed[u].channel
      PROVE  Follows(Seed[r], Seed[u])
  <2>1. /\ Seed[r] = backlog[Origin(backlog, r)]
        /\ Seed[u] = backlog[Origin(backlog, u)]
    BY <1>2
  <2>2. /\ Origin(backlog, r) \in 1..Len(backlog)
        /\ Origin(backlog, u) \in 1..Len(backlog)
        /\ Before(backlog, Origin(backlog, r), Origin(backlog, u))
    BY <1>3, <1>7
  <2> QED BY <1>5, <1>7, <2>1, <2>2
<1> QED BY <1>2, <1>4, <1>6, <1>7

LEMMA SubscribeKeeps ==
  ASSUME HubInv, NEW k \in Conns, Subscribe(k)
  PROVE  HubInv'
<1> USE DEF HubInv
<1>1. UNCHANGED <<backlog, read, sending, targets, dropped>>
  BY DEF Subscribe
<1>2. /\ k = opened + 1 /\ opened' = k /\ subscribers' = subscribers \cup {k}
      /\ opened \in Nat /\ k \in 1..MaxConns /\ MaxConns \in Nat
  BY HubAssumption DEF Subscribe, HubTypeOK, Conns
<1>3. \A c \in Channels : k \notin targets[c] /\ targets[c] \subseteq 1..opened
  BY <1>2 DEF HubTypeOK
<1>4. /\ Seed \in Seq(Msg) /\ Len(Seed) = Len(backlog)
      /\ \A r \in 1..Len(Seed) : Published(Seed[r])
      /\ \A i \in 1..Len(backlog) :
           \E r \in 1..Len(Seed) : Seed[r] = backlog[i]
      /\ \A r, u \in 1..Len(Seed) :
           r < u /\ Seed[r].channel = Seed[u].channel =>
             Follows(Seed[r], Seed[u])
  BY SeedIs
<1>5. /\ got' \in [Conns -> Seq(Msg)]
      /\ \A l \in Conns : got'[l] = IF l = k THEN Seed ELSE got[l]
  BY <1>4 DEF Subscribe, HubTypeOK
<1>6. HubTypeOK'
  <2>1. opened' \in 0..MaxConns /\ 1..opened \subseteq 1..opened'
        /\ k \in 1..opened'
    BY <1>2
  <2>2. targets \in [Channels -> SUBSET (1..opened')]
    BY <2>1 DEF HubTypeOK
  <2> QED BY <1>1, <1>2, <1>5, <2>1, <2>2 DEF HubTypeOK
<1>7. ReadsWhatWasPut'
  <2>1. read[k] = 0 /\ Len(Seed) >= 0
    BY <1>2, <1>4 DEF ReadsWhatWasPut
  <2>2. \A l \in Conns : l > opened' => l > opened
    BY <1>2 DEF Conns
  <2> QED BY <1>1, <1>5, <2>1, <2>2 DEF ReadsWhatWasPut
<1>8. BacklogPublished' /\ BacklogInOrder'
  BY <1>1 DEF BacklogPublished, BacklogInOrder, Published
<1>9. QueuesPublished'
  <2>1. \A l \in Conns : \A i \in 1..Len(got'[l]) : Published(got'[l][i])
    BY <1>4, <1>5 DEF QueuesPublished
  <2> QED BY <1>1, <2>1 DEF QueuesPublished, Published
<1>10. StillToCome'
  <2> SUFFICES ASSUME NEW a \in Channels, NEW l \in targets[a],
                      NEW i \in 1..Len(got'[l]), got'[l][i].channel = a
               PROVE  Follows(got'[l][i], sending[a])
    BY <1>1 DEF StillToCome
  <2>1. l # k /\ l \in Conns
    BY <1>2, <1>3 DEF HubTypeOK, Conns
  <2> QED BY <1>5, <2>1 DEF StillToCome
<1>11. ChannelOrder'
  BY <1>4, <1>5 DEF ChannelOrder
<1>12. BacklogReachesAll'
  <2> SUFFICES ASSUME NEW l \in subscribers', NEW i \in 1..Len(backlog)
               PROVE  \/ backlog[i] \in ToSet(got'[l]) \cup dropped[l]
                      \/ \E a \in Channels :
                           sending[a] = backlog[i] /\ l \in targets[a]
    BY <1>1 DEF BacklogReachesAll, InFlight
  <2>1. CASE l = k
    <3>1. backlog[i] \in ToSet(Seed)
      BY <1>4 DEF ToSet
    <3> QED BY <1>5, <2>1, <3>1
  <2>2. CASE l # k
    <3>1. l \in subscribers /\ l \in Conns
      BY <1>2, <2>2 DEF HubTypeOK, Conns
    <3> QED BY <1>5, <2>2, <3>1 DEF BacklogReachesAll, InFlight
  <2> QED BY <2>1, <2>2
<1> QED BY <1>6, <1>7, <1>8, <1>9, <1>10, <1>11, <1>12

LEMMA SubscribeRaisesKeeps ==
  ASSUME HubInv, NEW k \in Conns, SubscribeRaises(k)
  PROVE  HubInv'
<1> USE DEF HubInv
<1>1. UNCHANGED <<backlog, subscribers, got, read, sending, targets, dropped>>
  BY DEF SubscribeRaises
<1>2. /\ opened \in Nat /\ opened' = opened + 1 /\ opened' \in 0..MaxConns
  BY HubAssumption DEF SubscribeRaises, HubTypeOK, Conns
<1>3. HubTypeOK'
  <2>1. 1..opened \subseteq 1..opened'
    BY <1>2
  <2>2. targets \in [Channels -> SUBSET (1..opened')]
    BY <2>1 DEF HubTypeOK
  <2> QED BY <1>1, <1>2, <2>1, <2>2 DEF HubTypeOK
<1>4. ReadsWhatWasPut'
  <2>1. \A l \in Conns : l > opened' => l > opened
    BY <1>2 DEF Conns
  <2> QED BY <1>1, <2>1 DEF ReadsWhatWasPut
<1> QED BY <1>1, <1>3, <1>4 DEF BacklogPublished, BacklogInOrder,
        QueuesPublished, StillToCome, ChannelOrder, BacklogReachesAll,
        InFlight, Published

LEMMA UnsubscribeKeeps ==
  ASSUME HubInv, NEW k \in Conns, Unsubscribe(k)
  PROVE  HubInv'
<1> USE DEF HubInv
<1>1. UNCHANGED <<backlog, opened, got, read, sending, targets, dropped>>
  BY DEF Unsubscribe
<1>2. subscribers' \subseteq subscribers
  BY DEF Unsubscribe
<1>3. HubTypeOK' /\ ReadsWhatWasPut'
  BY <1>1, <1>2 DEF HubTypeOK, ReadsWhatWasPut
<1>4. BacklogReachesAll'
  BY <1>1, <1>2 DEF BacklogReachesAll, InFlight
<1> QED BY <1>1, <1>3, <1>4 DEF BacklogPublished, BacklogInOrder,
        QueuesPublished, StillToCome, ChannelOrder, Published

LEMMA GetKeeps ==
  ASSUME HubInv, NEW k \in Conns, Get(k)
  PROVE  HubInv'
<1> USE DEF HubInv
<1>1. UNCHANGED <<backlog, subscribers, opened, got, sending, targets,
                  dropped>>
  BY DEF Get
<1>2. /\ read' \in [Conns -> Nat]
      /\ \A l \in Conns : read'[l] = IF l = k THEN read[k] + 1 ELSE read[l]
      /\ read[k] \in Nat /\ Len(got[k]) \in Nat /\ read[k] < Len(got[k])
  BY DEF Get, HubTypeOK
<1>3. HubTypeOK'
  BY <1>1, <1>2 DEF HubTypeOK
<1>4. ReadsWhatWasPut'
  <2>1. k <= opened
    BY HubAssumption DEF Get, HubTypeOK, Conns
  <2>2. opened \in Nat /\ k \in Nat
    BY HubAssumption DEF HubTypeOK, Conns
  <2>3. \A l \in Conns : l > opened => l # k
    BY <2>1, <2>2 DEF Conns
  <2>4. read'[k] <= Len(got[k])
    BY <1>2
  <2> QED BY <1>1, <1>2, <2>3, <2>4 DEF ReadsWhatWasPut
<1> QED BY <1>1, <1>3, <1>4 DEF BacklogPublished, BacklogInOrder,
        QueuesPublished, StillToCome, ChannelOrder, BacklogReachesAll,
        InFlight, Published

LEMMA ClearKeeps == HubInv /\ Clear => HubInv'
<1> SUFFICES ASSUME HubInv, Clear PROVE HubInv'
  OBVIOUS
<1> USE DEF HubInv
<1>1. UNCHANGED <<subscribers, opened, got, read, sending, targets, dropped>>
  BY DEF Clear
<1>2. backlog' = <<>>
  BY DEF Clear
<1>3. HubTypeOK' /\ ReadsWhatWasPut'
  BY <1>1, <1>2 DEF HubTypeOK, ReadsWhatWasPut
<1>4. BacklogPublished' /\ BacklogInOrder' /\ BacklogReachesAll'
  BY <1>1, <1>2 DEF BacklogPublished, BacklogInOrder, BacklogReachesAll
<1> QED BY <1>1, <1>3, <1>4 DEF QueuesPublished, StillToCome, ChannelOrder,
        Published

LEMMA HubStep == HubInv /\ [HubNext]_hub_vars => HubInv'
<1> SUFFICES ASSUME HubInv, [HubNext]_hub_vars PROVE HubInv'
  OBVIOUS
<1>1. ASSUME NEW c \in Channels, NEW e \in Events, Publish(c, e)
      PROVE  HubInv'
  BY <1>1, PublishKeeps
<1>2. ASSUME NEW c \in Channels, NEW k \in targets[c],
             Put(c, k) \/ PutFull(c, k)
      PROVE  HubInv'
  BY <1>2, PutKeeps, PutFullKeeps
<1>3. ASSUME NEW k \in Conns,
             \/ Subscribe(k) \/ SubscribeRaises(k) \/ Unsubscribe(k)
             \/ Get(k)
      PROVE  HubInv'
  BY <1>3, SubscribeKeeps, SubscribeRaisesKeeps, UnsubscribeKeeps, GetKeeps
<1>4. CASE Clear
  BY <1>4, ClearKeeps
<1>5. CASE UNCHANGED hub_vars
  BY <1>5 DEF hub_vars, HubInv, HubTypeOK, ReadsWhatWasPut, BacklogPublished,
     BacklogInOrder, QueuesPublished, StillToCome, ChannelOrder,
     BacklogReachesAll, InFlight, Published
<1> QED BY <1>1, <1>2, <1>3, <1>4, <1>5 DEF HubNext, PublishStep

(* No event stands twice before itself. *)
LEMMA OrderedOnce == HubInv => DeliveredOnce
<1> SUFFICES ASSUME HubInv, NEW k \in Conns, NEW i \in 1..Len(got[k]),
                    NEW j \in 1..Len(got[k]), got[k][i] = got[k][j], i # j
             PROVE  FALSE
  BY DEF DeliveredOnce
<1>1. got[k] \in Seq(Msg) /\ got[k][i] \in Msg
  BY DEF HubInv, HubTypeOK
<1>2. i < j \/ j < i
  BY <1>1
<1>3. Follows(got[k][i], got[k][j]) \/ Follows(got[k][j], got[k][i])
  BY <1>2 DEF HubInv, ChannelOrder
<1> QED BY <1>1, <1>3, FollowsOrders

(* The hub, whoever listens: each event of a channel reaches a subscriber  *)
(* at most once and in the channel's order, replayed or live, and what the *)
(* backlog holds reaches every open connection, unless its queue was full. *)
THEOREM HubDelivers ==
  HubSpec => [](DeliveredOnce /\ ChannelOrder /\ BacklogReachesAll)
<1>1. HubInv => DeliveredOnce /\ ChannelOrder /\ BacklogReachesAll
  BY OrderedOnce DEF HubInv
<1> QED BY <1>1, HubStart, HubStep, PTL DEF HubSpec

-----------------------------------------------------------------------------
(* The page                                                                *)

Bubbles == [id : Ids, partial : BOOLEAN]

FeedTypeOK ==
  /\ page \in Conns \cup {NoConn, Failed}
  /\ bubbles \in Seq(Bubbles)
  /\ page \in Conns => page \in subscribers

(* An event that connection k has not taken from its queue yet. *)
Unread(e, k) ==
  \/ \E j \in read[k] + 1..Len(got[k]) : got[k][j] = e
  \/ e \in dropped[k]
  \/ InFlight(e, k)

(* The final that settles a bubble shown as partial is still to come. *)
SettlesLater ==
  page \in Conns =>
    \A i \in 1..Len(backlog) :
      Live(Id(backlog[i])) => Unread(backlog[i], page)

FeedInv ==
  /\ HubInv /\ FeedTypeOK
  /\ SettlesLater /\ ChronologicalFeed

InOrder(s) == \A i, j \in 1..Len(s) : i < j => s[i].id[2] <= s[j].id[2]

LEMMA InsertAtIs ==
  ASSUME NEW s \in Seq(Bubbles), NEW b \in Bubbles, NEW n \in 1..Len(s)
  PROVE  /\ InsertAt(s, n, b) \in Seq(Bubbles)
         /\ Len(InsertAt(s, n, b)) = Len(s) + 1
         /\ \A i \in 1..Len(s) + 1 :
              InsertAt(s, n, b)[i] = IF i < n THEN s[i]
                                     ELSE IF i = n THEN b ELSE s[i - 1]
<1> DEFINE front == SubSeq(s, 1, n - 1)
           rear == SubSeq(s, n, Len(s))
<1>1. Len(s) \in Nat /\ n \in Nat /\ n >= 1 /\ n <= Len(s)
  OBVIOUS
<1>2. /\ front \in Seq(Bubbles) /\ Len(front) = n - 1
      /\ \A i \in 1..n - 1 : front[i] = s[i]
  BY <1>1
<1>3. /\ rear \in Seq(Bubbles) /\ Len(rear) = Len(s) - n + 1
      /\ \A i \in 1..Len(s) - n + 1 : rear[i] = s[i + n - 1]
  BY <1>1
<1>4. InsertAt(s, n, b) = front \o <<b>> \o rear
  BY DEF InsertAt
<1> HIDE DEF front, rear
<1> DEFINE upto == front \o <<b>>
<1>5. /\ upto \in Seq(Bubbles) /\ Len(upto) = n
      /\ \A i \in 1..n - 1 : upto[i] = front[i]
      /\ upto[n] = b
  BY <1>1, <1>2
<1>6. InsertAt(s, n, b) = upto \o rear
  BY <1>4
<1> HIDE DEF upto
<1>7. /\ upto \o rear \in Seq(Bubbles) /\ Len(upto \o rear) = Len(s) + 1
      /\ \A i \in 1..n : (upto \o rear)[i] = upto[i]
      /\ \A i \in n + 1..Len(s) + 1 : (upto \o rear)[i] = rear[i - n]
  BY <1>1, <1>3, <1>5
<1>8. ASSUME NEW i \in 1..Len(s) + 1
      PROVE  (upto \o rear)[i] = IF i < n THEN s[i]
                                 ELSE IF i = n THEN b ELSE s[i - 1]
  <2>1. CASE i < n
    <3>1. i \in 1..n - 1 /\ i \in 1..n
      BY <1>1, <2>1
    <3> QED BY <1>2, <1>5, <1>7, <2>1, <3>1
  <2>2. CASE i = n
    <3>1. i \in 1..n
      BY <1>1, <2>2
    <3> QED BY <1>5, <1>7, <2>2, <3>1
  <2>3. CASE i > n
    <3>1. /\ i \in n + 1..Len(s) + 1 /\ i - n \in 1..Len(s) - n + 1
          /\ i - n + n - 1 = i - 1
      BY <1>1, <2>3
    <3>2. rear[i - n] = s[i - 1]
      BY <1>3, <3>1
    <3>3. (upto \o rear)[i] = rear[i - n]
      BY <1>7, <3>1
    <3> QED BY <1>1, <2>3, <3>2, <3>3
  <2>4. i < n \/ i = n \/ i > n
    BY <1>1
  <2> QED BY <2>1, <2>2, <2>3, <2>4
<1> QED BY <1>6, <1>7, <1>8

(* A bubble is put in its place, and nothing else changes. *)
LEMMA InsertIs ==
  ASSUME bubbles \in Seq(Bubbles), ChronologicalFeed, NEW b \in Bubbles
  PROVE  /\ Insert(b) \in Seq(Bubbles)
         /\ InOrder(Insert(b))
         /\ \A i \in 1..Len(Insert(b)) :
              Insert(b)[i] = b \/ \E j \in 1..Len(bubbles) :
                                    Insert(b)[i] = bubbles[j]
<1> DEFINE later == {i \in 1..Len(bubbles) : bubbles[i].id[2] > b.id[2]}
           n == Min(later)
<1>1. Len(bubbles) \in Nat /\ \A i \in 1..Len(bubbles) : bubbles[i] \in Bubbles
  OBVIOUS
<1>2. \A x \in Bubbles : x.id[2] \in Nat
  BY DEF Bubbles, Ids
<1>3. \A i, j \in 1..Len(bubbles) :
        i < j => bubbles[i].id[2] <= bubbles[j].id[2]
  BY DEF ChronologicalFeed
<1>4. \A i \in 1..Len(bubbles) : bubbles[i].id[2] \in Nat
  BY <1>1, <1>2
<1>5. CASE later = {}
  <2>1. Insert(b) = Append(bubbles, b)
    BY <1>5 DEF Insert
  <2>2. /\ Append(bubbles, b) \in Seq(Bubbles)
        /\ Len(Append(bubbles, b)) = Len(bubbles) + 1
        /\ \A i \in 1..Len(bubbles) : Append(bubbles, b)[i] = bubbles[i]
        /\ Append(bubbles, b)[Len(bubbles) + 1] = b
    OBVIOUS
  <2>3. \A i \in 1..Len(bubbles) : bubbles[i].id[2] <= b.id[2]
    BY <1>2, <1>4, <1>5
  <2>4. \A i \in 1..Len(bubbles) + 1 :
          i \in 1..Len(bubbles) \/ i = Len(bubbles) + 1
    BY <1>1
  <2>5. \A i, j \in 1..Len(bubbles) + 1 : i < j => i \in 1..Len(bubbles)
    BY <1>1
  <2> QED BY <1>3, <2>1, <2>2, <2>3, <2>4, <2>5 DEF InOrder
<1>6. CASE later # {}
  <2>1. later \in SUBSET Nat
    BY <1>1
  <2>2. n \in later /\ \A i \in later : n <= i
    BY <1>6, <2>1, HasMin
  <2>3. Insert(b) = InsertAt(bubbles, n, b)
    BY <1>6 DEF Insert
  <2>4. /\ n \in 1..Len(bubbles) /\ bubbles[n].id[2] > b.id[2]
        /\ \A i \in 1..Len(bubbles) : i < n => bubbles[i].id[2] <= b.id[2]
    <3>1. \A i \in 1..Len(bubbles) :
            i \in later <=> bubbles[i].id[2] > b.id[2]
      OBVIOUS
    <3>2. n \in 1..Len(bubbles)
      BY <2>2
    <3> HIDE DEF n, later
    <3> QED BY <1>1, <1>2, <1>4, <2>2, <3>1, <3>2
  <2> HIDE DEF later, n
  <2> DEFINE t == InsertAt(bubbles, n, b)
  <2>5. /\ t \in Seq(Bubbles) /\ Len(t) = Len(bubbles) + 1
        /\ \A i \in 1..Len(bubbles) + 1 :
             t[i] = IF i < n THEN bubbles[i]
                    ELSE IF i = n THEN b ELSE bubbles[i - 1]
    BY <2>4, InsertAtIs
  <2> HIDE DEF t
  <2>6. \A i \in 1..Len(t) :
          \/ i < n /\ i \in 1..Len(bubbles) /\ t[i] = bubbles[i]
          \/ i = n /\ t[i] = b
          \/ i > n /\ i - 1 \in 1..Len(bubbles) /\ t[i] = bubbles[i - 1]
    BY <1>1, <2>4, <2>5
  <2>7. ASSUME NEW i \in 1..Len(t), NEW j \in 1..Len(t), i < j
        PROVE  t[i].id[2] <= t[j].id[2]
    <3>1. \A u \in 1..Len(bubbles) : u >= n => b.id[2] <= bubbles[u].id[2]
      <4> SUFFICES ASSUME NEW u \in 1..Len(bubbles), u >= n
                   PROVE  b.id[2] <= bubbles[u].id[2]
        OBVIOUS
      <4>1. bubbles[n].id[2] <= bubbles[u].id[2]
        <5>1. n < u \/ n = u
          BY <2>4
        <5> QED BY <1>3, <1>4, <2>4, <5>1
      <4> QED BY <1>2, <1>4, <2>4, <4>1
    <3>2. CASE i < n
      <4>1. /\ t[i] = bubbles[i] /\ i \in 1..Len(bubbles)
            /\ bubbles[i].id[2] <= b.id[2]
        BY <2>4, <2>6, <3>2
      <4>2. CASE j < n
        BY <1>3, <2>4, <2>6, <2>7, <4>1, <4>2
      <4>3. CASE j = n
        BY <2>4, <2>6, <4>1, <4>3
      <4>4. CASE j > n
        <5>1. /\ t[j] = bubbles[j - 1] /\ j - 1 \in 1..Len(bubbles)
              /\ i < j - 1
          BY <2>4, <2>6, <3>2, <4>4
        <5> QED BY <1>3, <4>1, <5>1
      <4> QED BY <2>4, <4>2, <4>3, <4>4
    <3>3. CASE i = n
      <4>1. t[i] = b /\ t[j] = bubbles[j - 1] /\ j - 1 \in 1..Len(bubbles)
            /\ j - 1 >= n
        BY <2>4, <2>6, <2>7, <3>3
      <4> QED BY <3>1, <4>1
    <3>4. CASE i > n
      <4>1. /\ t[i] = bubbles[i - 1] /\ i - 1 \in 1..Len(bubbles)
            /\ t[j] = bubbles[j - 1] /\ j - 1 \in 1..Len(bubbles)
            /\ i - 1 < j - 1
        BY <2>4, <2>6, <2>7, <3>4
      <4> QED BY <1>3, <4>1
    <3> QED BY <2>4, <3>2, <3>3, <3>4
  <2>8. Insert(b) = t
    BY <2>3 DEF t
  <2> QED BY <2>5, <2>6, <2>7, <2>8 DEF InOrder
<1> QED BY <1>5, <1>6

LiveIn(s, id) == \E i \in 1..Len(s) : s[i].id = id /\ s[i].partial

(* A message makes no bubble live but its own, and a final none. *)
LEMMA ApplyIs ==
  ASSUME bubbles \in Seq(Bubbles), ChronologicalFeed, NEW m \in Msg
  PROVE  /\ Apply(m) \in Seq(Bubbles)
         /\ InOrder(Apply(m))
         /\ \A id : LiveIn(Apply(m), id) =>
              /\ LiveIn(bubbles, id) \/ id = Id(m)
              /\ id = Id(m) => ~m.is_final
<1> DEFINE b == [id |-> Id(m), partial |-> ~m.is_final]
<1>1. b \in Bubbles /\ b.id = Id(m) /\ b.partial = ~m.is_final
  BY DEF Bubbles, Ids, Id, Msg
<1> HIDE DEF b
<1>2. CASE Live(Id(m))
  <2>1. Apply(m) = Rewrite(m)
    BY <1>2 DEF Apply
  <2>2. \A i \in 1..Len(bubbles) : bubbles[i] \in Bubbles
    OBVIOUS
  <2>3. /\ Rewrite(m) \in Seq(Bubbles) /\ Len(Rewrite(m)) = Len(bubbles)
        /\ \A i \in 1..Len(bubbles) :
             /\ Rewrite(m)[i].id = bubbles[i].id
             /\ Rewrite(m)[i].partial <=>
                  IF bubbles[i].id = Id(m) /\ bubbles[i].partial
                  THEN ~m.is_final ELSE bubbles[i].partial
    <3>1. \A x \in Bubbles, v \in BOOLEAN :
            /\ [x EXCEPT !.partial = v] \in Bubbles
            /\ [x EXCEPT !.partial = v].id = x.id
            /\ [x EXCEPT !.partial = v].partial = v
      BY DEF Bubbles
    <3>2. (~m.is_final) \in BOOLEAN
      BY DEF Msg
    <3>3. \A i \in 1..Len(bubbles) :
            [bubbles[i] EXCEPT !.partial = ~m.is_final] \in Bubbles
      BY <2>2, <3>1, <3>2
    <3>4. /\ Rewrite(m) \in Seq(Bubbles) /\ Len(Rewrite(m)) = Len(bubbles)
          /\ \A i \in 1..Len(bubbles) :
               Rewrite(m)[i] =
                 IF bubbles[i].id = Id(m) /\ bubbles[i].partial
                 THEN [bubbles[i] EXCEPT !.partial = ~m.is_final]
                 ELSE bubbles[i]
      BY <2>2, <3>3 DEF Rewrite
    <3> QED BY <2>2, <3>1, <3>2, <3>4
  <2>4. InOrder(Rewrite(m))
    BY <2>3 DEF InOrder, ChronologicalFeed
  <2>5. ASSUME NEW id, LiveIn(Rewrite(m), id)
        PROVE  /\ LiveIn(bubbles, id)
               /\ id = Id(m) => ~m.is_final
    <3>1. PICK i \in 1..Len(bubbles) :
            Rewrite(m)[i].id = id /\ Rewrite(m)[i].partial
      BY <2>3, <2>5 DEF LiveIn
    <3>2. bubbles[i].id = id /\ bubbles[i].partial
      BY <2>3, <3>1
    <3> QED BY <2>3, <3>1, <3>2 DEF LiveIn
  <2> QED BY <2>1, <2>3, <2>4, <2>5
<1>3. CASE ~Live(Id(m))
  <2>1. Apply(m) = Insert(b)
    BY <1>3 DEF Apply, b
  <2>2. /\ Insert(b) \in Seq(Bubbles) /\ InOrder(Insert(b))
        /\ \A i \in 1..Len(Insert(b)) :
             Insert(b)[i] = b \/ \E j \in 1..Len(bubbles) :
                                   Insert(b)[i] = bubbles[j]
    BY <1>1, InsertIs
  <2>3. ASSUME NEW id, LiveIn(Insert(b), id)
        PROVE  /\ LiveIn(bubbles, id) \/ id = Id(m)
               /\ id = Id(m) => ~m.is_final
    <3>1. PICK i \in 1..Len(Insert(b)) :
            Insert(b)[i].id = id /\ Insert(b)[i].partial
      BY <2>3 DEF LiveIn
    <3>2. CASE Insert(b)[i] = b
      BY <1>1, <3>1, <3>2
    <3>3. CASE \E j \in 1..Len(bubbles) : Insert(b)[i] = bubbles[j]
      <4>1. LiveIn(bubbles, id)
        BY <3>1, <3>3 DEF LiveIn
      <4>2. id # Id(m)
        BY <1>3, <4>1 DEF Live, LiveIn
      <4> QED BY <4>1, <4>2
    <3> QED BY <2>2, <3>2, <3>3
  <2> QED BY <2>1, <2>2, <2>3
<1> QED BY <1>2, <1>3

(* What is published shows up in the backlog only, and is put to every     *)
(* connection.                                                             *)
LEMMA PublishAdds ==
  ASSUME HubInv, NEW c \in Channels, NEW e \in Events, Publish(c, e)
  PROVE  /\ \A i \in 1..Len(backlog') :
              \/ backlog'[i] = e
              \/ \E j \in 1..Len(backlog) : backlog'[i] = backlog[j]
         /\ \A k \in subscribers :
              \E a \in Channels : sending'[a] = e /\ k \in targets'[a]
         /\ \A k, x : InFlight(x, k) =>
              \E a \in Channels : sending'[a] = x /\ k \in targets'[a]
<1>1. /\ e \in Msg
      /\ \A d \in Channels : sending'[d] = IF d = c THEN e ELSE sending[d]
  BY PublishAges
<1>2. /\ \A d \in Channels :
           targets'[d] = IF d = c THEN subscribers ELSE targets[d]
      /\ targets[c] = {}
  BY DEF Publish, HubInv, HubTypeOK
<1>3. backlog \in Seq(Msg)
  BY DEF HubInv, HubTypeOK
<1>4. \A i \in 1..Len(backlog') :
        \/ backlog'[i] = e
        \/ \E j \in 1..Len(backlog) : backlog'[i] = backlog[j]
  <2>1. CASE e.is_final
    <3> DEFINE b == Append(backlog, e)
    <3>1. b \in Seq(Msg) /\ backlog' = Newest(b)
      BY <1>1, <1>3, <2>1 DEF Publish
    <3>2. \A i \in 1..Len(b) :
            b[i] = e \/ \E j \in 1..Len(backlog) : b[i] = backlog[j]
      BY <1>1, <1>3
    <3> HIDE DEF b
    <3>3. PICK d \in Nat : /\ Len(b) = Len(Newest(b)) + d
                           /\ \A i \in 1..Len(Newest(b)) :
                                Newest(b)[i] = b[i + d]
      BY <3>1, NewestIs
    <3>4. \A i \in 1..Len(backlog') : i + d \in 1..Len(b)
      BY <3>1, <3>3, NewestIs
    <3> QED BY <3>1, <3>2, <3>3, <3>4
  <2>2. CASE ~e.is_final
    BY <2>2 DEF Publish
  <2> QED BY <2>1, <2>2
<1> QED BY <1>1, <1>2, <1>4 DEF InFlight

LEMMA FeedHubStep == Next => [HubNext]_hub_vars
BY DEF Next, hub_vars, HubNext, Connect, ConnectFails, StreamEnds,
   StreamSends, Disconnect, Reload, ClearPage, ClearArrives, ClearLost

(* SettlesLater, spelled out. *)
LEMMA SettlesLaterIs ==
  SettlesLater <=>
    (page \in Conns =>
       \A i \in 1..Len(backlog) :
         LiveIn(bubbles, Id(backlog[i])) => Unread(backlog[i], page))
BY DEF SettlesLater, Live, LiveIn

LEMMA FeedStart == Init => FeedInv
<1> SUFFICES ASSUME Init PROVE FeedInv
  OBVIOUS
<1>1. HubInv
  BY HubStart DEF Init
<1>2. 0 \notin Conns
  BY DEF Conns
<1>3. FeedTypeOK
  BY <1>2 DEF Init, FeedTypeOK, NoConn
<1>4. SettlesLater /\ ChronologicalFeed
  BY <1>2 DEF Init, SettlesLater, ChronologicalFeed, NoConn
<1> QED BY <1>1, <1>3, <1>4 DEF FeedInv

LEMMA PublishFeedKeeps ==
  ASSUME FeedInv, PublishStep, UNCHANGED page_vars
  PROVE  SettlesLater'
<1> USE DEF FeedInv
<1>1. UNCHANGED <<page, bubbles>>
  BY DEF page_vars
<1> SUFFICES ASSUME page \in Conns, NEW i \in 1..Len(backlog'),
                    LiveIn(bubbles, Id(backlog'[i]))
             PROVE  \/ \E j \in read'[page] + 1..Len(got'[page]) :
                         got'[page][j] = backlog'[i]
                    \/ backlog'[i] \in dropped'[page]
                    \/ \E a \in Channels :
                         sending'[a] = backlog'[i] /\ page \in targets'[a]
  BY <1>1 DEF SettlesLater, Live, LiveIn, Unread, InFlight
<1>2. page \in subscribers
  BY DEF FeedTypeOK
<1>3. \A j \in 1..Len(backlog) : LiveIn(bubbles, Id(backlog[j])) =>
        \/ \E n \in read[page] + 1..Len(got[page]) : got[page][n] = backlog[j]
        \/ backlog[j] \in dropped[page]
        \/ InFlight(backlog[j], page)
  BY SettlesLaterIs DEF Unread
<1>4. ASSUME NEW c \in Channels, NEW e \in Events, Publish(c, e)
      PROVE  \/ \E j \in read'[page] + 1..Len(got'[page]) :
                  got'[page][j] = backlog'[i]
             \/ backlog'[i] \in dropped'[page]
             \/ \E a \in Channels :
                  sending'[a] = backlog'[i] /\ page \in targets'[a]
  <2>1. UNCHANGED <<got, read, dropped>>
    BY <1>4 DEF Publish
  <2>2. /\ \/ backlog'[i] = e
           \/ \E j \in 1..Len(backlog) : backlog'[i] = backlog[j]
        /\ \E a \in Channels : sending'[a] = e /\ page \in targets'[a]
        /\ \A x : InFlight(x, page) =>
             \E a \in Channels : sending'[a] = x /\ page \in targets'[a]
    BY <1>2, <1>4, PublishAdds
  <2>3. CASE backlog'[i] = e
    BY <2>2, <2>3
  <2>4. CASE \E j \in 1..Len(backlog) : backlog'[i] = backlog[j]
    BY <1>3, <2>1, <2>2, <2>4
  <2> QED BY <2>2, <2>3, <2>4
<1>5. ASSUME NEW c \in Channels, NEW k \in targets[c],
             Put(c, k) \/ PutFull(c, k)
      PROVE  \/ \E j \in read'[page] + 1..Len(got'[page]) :
                  got'[page][j] = backlog'[i]
             \/ backlog'[i] \in dropped'[page]
             \/ \E a \in Channels :
                  sending'[a] = backlog'[i] /\ page \in targets'[a]
  <2>1. UNCHANGED <<backlog, read, sending>>
    BY <1>5 DEF Put, PutFull
  <2>2. /\ got[page] \in Seq(Msg) /\ read[page] \in Nat
        /\ read[page] <= Len(got[page])
    BY DEF HubInv, HubTypeOK, ReadsWhatWasPut
  <2>3. \A d \in Channels : \A l \in targets[d] :
          l \in targets'[d] \/ (d = c /\ l = k)
    BY <1>5 DEF Put, PutFull, AfterPut, HubInv, HubTypeOK
  <2>4. CASE page = k /\ Put(c, k)
    <3>1. got'[page] = Append(got[page], sending[c]) /\ dropped' = dropped
      BY <2>4 DEF Put, HubInv, HubTypeOK
    <3>2. /\ Len(got[page]) + 1 \in read[page] + 1..Len(got'[page])
          /\ got'[page][Len(got[page]) + 1] = sending[c]
          /\ \A n \in read[page] + 1..Len(got[page]) :
               /\ n \in read[page] + 1..Len(got'[page])
               /\ got'[page][n] = got[page][n]
      BY <2>2, <3>1
    <3>3. \/ \E n \in read[page] + 1..Len(got[page]) :
               got[page][n] = backlog[i]
          \/ backlog[i] \in dropped[page]
          \/ InFlight(backlog[i], page)
      BY <1>3, <2>1
    <3>4. CASE \E n \in read[page] + 1..Len(got[page]) :
                 got[page][n] = backlog[i]
      BY <2>1, <3>2, <3>4
    <3>5. CASE InFlight(backlog[i], page)
      <4>1. PICK a \in Channels :
              sending[a] = backlog[i] /\ page \in targets[a]
        BY <3>5 DEF InFlight
      <4>2. page \in targets'[a] \/ a = c
        BY <2>3, <4>1
      <4> QED BY <2>1, <3>2, <4>1, <4>2
    <3> QED BY <2>1, <3>1, <3>3, <3>4, <3>5
  <2>5. CASE page = k /\ PutFull(c, k)
    <3>1. /\ got' = got /\ dropped[page] \subseteq dropped'[page]
          /\ sending[c] \in dropped'[page]
      BY <2>5 DEF PutFull, HubInv, HubTypeOK
    <3> QED BY <1>3, <2>1, <2>3, <3>1 DEF InFlight
  <2>6. CASE page # k
    <3>1. got'[page] = got[page] /\ dropped'[page] = dropped[page]
      BY <1>5, <2>6 DEF Put, PutFull, HubInv, HubTypeOK
    <3> QED BY <1>3, <2>1, <2>3, <2>6, <3>1 DEF InFlight
  <2> QED BY <1>5, <2>4, <2>5, <2>6
<1> QED BY <1>4, <1>5 DEF PublishStep

LEMMA StreamSendsFeedKeeps ==
  ASSUME FeedInv, NEW k \in Conns, StreamSends(k), page = k
  PROVE  /\ bubbles' \in Seq(Bubbles)
         /\ ChronologicalFeed'
         /\ SettlesLater'
<1> USE DEF FeedInv
<1> DEFINE n == read[k] + 1
           m == got[k][n]
<1>1. /\ UNCHANGED <<backlog, got, sending, targets, dropped, page>>
      /\ bubbles' = Apply(m)
  BY DEF StreamSends, Get
<1>2. /\ got[k] \in Seq(Msg) /\ read[k] \in Nat /\ Len(got[k]) \in Nat
      /\ n \in 1..Len(got[k]) /\ read'[k] = n
  BY DEF StreamSends, Get, HubInv, HubTypeOK
<1>3. m \in Msg
  BY <1>2
<1> HIDE DEF n, m
<1>4. /\ Apply(m) \in Seq(Bubbles) /\ InOrder(Apply(m))
      /\ \A id : LiveIn(Apply(m), id) =>
           /\ LiveIn(bubbles, id) \/ id = Id(m)
           /\ id = Id(m) => ~m.is_final
  BY <1>3, ApplyIs DEF FeedTypeOK
<1>5. ChronologicalFeed'
  BY <1>1, <1>4 DEF ChronologicalFeed, InOrder
<1>6. ASSUME NEW i \in 1..Len(backlog), LiveIn(Apply(m), Id(backlog[i]))
      PROVE  \/ \E j \in n + 1..Len(got[k]) : got[k][j] = backlog[i]
             \/ backlog[i] \in dropped[k]
             \/ InFlight(backlog[i], k)
  <2> DEFINE b == backlog[i]
  <2>1. b \in Msg /\ b.is_final
    BY DEF HubInv, HubTypeOK, BacklogPublished
  <2>2. k \in subscribers
    BY DEF FeedTypeOK
  <2>3. CASE Id(b) = Id(m)
    <3>1. ~m.is_final /\ b.channel = m.channel /\ b.segment = m.segment
      BY <1>4, <1>6, <2>3 DEF Id
    <3>2. b \in ToSet(got[k]) \cup dropped[k] \/ InFlight(b, k)
      BY <2>2 DEF HubInv, BacklogReachesAll
    <3>3. CASE b \in ToSet(got[k])
      <4>1. PICK j \in 1..Len(got[k]) : got[k][j] = b
        BY <1>2, <3>3 DEF ToSet
      <4>2. j # n
        BY <2>1, <3>1, <4>1 DEF m
      <4>3. ~(j < n)
        <5> SUFFICES ASSUME j < n PROVE FALSE
          OBVIOUS
        <5>1. Follows(b, m)
          BY <1>2, <3>1, <4>1 DEF HubInv, ChannelOrder, m
        <5> QED BY <1>3, <2>1, <3>1, <5>1 DEF Follows, Msg
      <4>4. j \in n + 1..Len(got[k])
        BY <1>2, <4>2, <4>3
      <4> QED BY <4>1, <4>4
    <3> QED BY <3>2, <3>3
  <2>4. CASE Id(b) # Id(m)
    <3>1. LiveIn(bubbles, Id(b))
      BY <1>4, <1>6, <2>4
    <3>2. \/ \E j \in n..Len(got[k]) : got[k][j] = b
          \/ b \in dropped[k]
          \/ InFlight(b, k)
      BY <3>1, SettlesLaterIs DEF Unread, n
    <3>3. \A j \in n..Len(got[k]) : got[k][j] = b => j \in n + 1..Len(got[k])
      <4> SUFFICES ASSUME NEW j \in n..Len(got[k]), got[k][j] = b
                   PROVE  j \in n + 1..Len(got[k])
        OBVIOUS
      <4>1. j # n
        BY <2>4 DEF m
      <4> QED BY <1>2, <4>1
    <3> QED BY <3>2, <3>3
  <2> QED BY <2>3, <2>4
<1>7. SettlesLater'
  <2> SUFFICES ASSUME NEW i \in 1..Len(backlog),
                      LiveIn(Apply(m), Id(backlog[i]))
               PROVE  \/ \E j \in n + 1..Len(got[k]) : got[k][j] = backlog[i]
                      \/ backlog[i] \in dropped[k]
                      \/ \E a \in Channels :
                           sending[a] = backlog[i] /\ k \in targets[a]
    BY <1>1, <1>2 DEF SettlesLater, Live, LiveIn, Unread, InFlight
  <2> QED BY <1>6 DEF InFlight
<1> QED BY <1>1, <1>4, <1>5, <1>7

LEMMA FeedTypeKept ==
  ASSUME FeedInv, [Next]_vars
  PROVE  FeedTypeOK'
<1> USE DEF FeedInv, FeedTypeOK
<1>1. ASSUME PublishStep, UNCHANGED page_vars
      PROVE  FeedTypeOK'
  <2>1. subscribers' = subscribers
    BY <1>1 DEF PublishStep, Publish, Put, PutFull
  <2> QED BY <1>1, <2>1 DEF page_vars
<1>2. ASSUME NEW k \in Conns, Connect(k)
      PROVE  FeedTypeOK'
  BY <1>2 DEF Connect, Subscribe
<1>3. ASSUME NEW k \in Conns, ConnectFails(k)
      PROVE  FeedTypeOK'
  <2>1. Failed \notin Conns
    BY DEF Failed, Conns
  <2> QED BY <1>3, <2>1 DEF ConnectFails, SubscribeRaises
<1>4. ASSUME NEW k \in Conns, StreamEnds(k)
      PROVE  FeedTypeOK'
  BY <1>4 DEF StreamEnds, Unsubscribe, page_vars
<1>5. ASSUME NEW k \in Conns, StreamSends(k)
      PROVE  FeedTypeOK'
  <2>1. subscribers' = subscribers /\ page' = page
    BY <1>5 DEF StreamSends, Get
  <2>2. bubbles' \in Seq(Bubbles)
    BY <1>5, StreamSendsFeedKeeps DEF StreamSends
  <2> QED BY <2>1, <2>2
<1>6. ASSUME \/ Disconnect \/ Reload \/ ClearPage \/ ClearArrives \/ ClearLost
             \/ UNCHANGED vars
      PROVE  FeedTypeOK'
  <2>1. subscribers' = subscribers
    BY <1>6 DEF Disconnect, Reload, ClearPage, ClearArrives, Clear, ClearLost,
       vars, hub_vars
  <2>2. NoConn \notin Conns /\ <<>> \in Seq(Bubbles)
    BY DEF NoConn, Conns
  <2>3. page' \in {page, NoConn} /\ bubbles' \in {bubbles, <<>>}
    BY <1>6 DEF Disconnect, Reload, ClearPage, ClearArrives, ClearLost,
       vars, page_vars
  <2> QED BY <2>1, <2>2, <2>3
<1> QED BY <1>1, <1>2, <1>3, <1>4, <1>5, <1>6 DEF Next

LEMMA PagePromiseKept ==
  ASSUME FeedInv, [Next]_vars
  PROVE  SettlesLater' /\ ChronologicalFeed'
<1> USE DEF FeedInv
<1>1. ASSUME PublishStep, UNCHANGED page_vars
      PROVE  SettlesLater' /\ ChronologicalFeed'
  <2>1. bubbles' = bubbles
    BY <1>1 DEF page_vars
  <2> QED BY <1>1, <2>1, PublishFeedKeeps DEF ChronologicalFeed
<1>2. ASSUME NEW k \in Conns, Connect(k)
      PROVE  SettlesLater' /\ ChronologicalFeed'
  <2>1. /\ UNCHANGED <<backlog, bubbles>> /\ page' = k /\ read'[k] = 0
        /\ got'[k] = Seed
    <3>1. opened \in Nat /\ k = opened + 1 /\ k > opened
      BY <1>2, HubAssumption DEF Connect, Subscribe, HubInv, HubTypeOK
    <3>2. read[k] = 0
      BY <3>1 DEF HubInv, ReadsWhatWasPut
    <3> QED BY <1>2, <3>2 DEF Connect, Subscribe, HubInv, HubTypeOK
  <2>2. \A i \in 1..Len(backlog) : \E r \in 0 + 1..Len(Seed) :
          Seed[r] = backlog[i]
    BY SeedIs
  <2>3. ChronologicalFeed'
    BY <2>1 DEF ChronologicalFeed
  <2>4. \A i \in 1..Len(backlog) : \E r \in read'[k] + 1..Len(got'[k]) :
          got'[k][r] = backlog[i]
    BY <2>1, <2>2
  <2>5. SettlesLater'
    BY <2>1, <2>4 DEF SettlesLater, Unread
  <2> QED BY <2>3, <2>5
<1>3. ASSUME NEW k \in Conns, ConnectFails(k)
      PROVE  SettlesLater' /\ ChronologicalFeed'
  <2>1. Failed \notin Conns
    BY DEF Failed, Conns
  <2> QED BY <1>3, <2>1 DEF ConnectFails, SettlesLater, ChronologicalFeed
<1>4. ASSUME NEW k \in Conns, StreamEnds(k)
      PROVE  SettlesLater' /\ ChronologicalFeed'
  BY <1>4 DEF StreamEnds, Unsubscribe, page_vars, SettlesLater,
     ChronologicalFeed, Live, Unread, InFlight
<1>5. ASSUME NEW k \in Conns, StreamSends(k)
      PROVE  SettlesLater' /\ ChronologicalFeed'
  <2>1. CASE page = k
    BY <1>5, <2>1, StreamSendsFeedKeeps
  <2>2. CASE page # k
    <3>1. /\ UNCHANGED <<page, bubbles, backlog, got, sending, targets,
                         dropped>>
          /\ page \in Conns => read'[page] = read[page]
      BY <1>5, <2>2 DEF StreamSends, Get, HubInv, HubTypeOK
    <3> QED BY <3>1 DEF SettlesLater, ChronologicalFeed, Live, Unread,
            InFlight
  <2> QED BY <2>1, <2>2
<1>6. ASSUME Disconnect
      PROVE  SettlesLater' /\ ChronologicalFeed'
  <2>1. NoConn \notin Conns
    BY DEF NoConn, Conns
  <2> QED BY <1>6, <2>1 DEF Disconnect, SettlesLater, ChronologicalFeed
<1>7. ASSUME Reload \/ ClearPage
      PROVE  SettlesLater' /\ ChronologicalFeed'
  <2>1. bubbles' = <<>>
    BY <1>7 DEF Reload, ClearPage
  <2> QED BY <2>1 DEF SettlesLater, ChronologicalFeed, Live
<1>8. ASSUME ClearArrives
      PROVE  SettlesLater' /\ ChronologicalFeed'
  <2>1. backlog' = <<>> /\ bubbles' = bubbles
    BY <1>8 DEF ClearArrives, Clear
  <2> QED BY <2>1 DEF SettlesLater, ChronologicalFeed
<1>9. ASSUME ClearLost \/ UNCHANGED vars
      PROVE  SettlesLater' /\ ChronologicalFeed'
  <2>1. UNCHANGED <<hub_vars, page, bubbles>>
    BY <1>9 DEF ClearLost, vars, page_vars
  <2> QED BY <2>1 DEF hub_vars, SettlesLater, ChronologicalFeed, Live,
          Unread, InFlight
<1> QED BY <1>1, <1>2, <1>3, <1>4, <1>5, <1>6, <1>7, <1>8, <1>9 DEF Next

LEMMA FeedStep == FeedInv /\ [Next]_vars => FeedInv'
<1> SUFFICES ASSUME FeedInv, [Next]_vars PROVE FeedInv'
  OBVIOUS
<1>1. [HubNext]_hub_vars
  BY FeedHubStep DEF vars
<1>2. HubInv'
  BY <1>1, HubStep DEF FeedInv
<1> QED BY <1>2, FeedTypeKept, PagePromiseKept DEF FeedInv

LEMMA AlwaysFeedInv == Spec => []FeedInv
BY FeedStart, FeedStep, PTL DEF Spec

(* The page drives the hub only through its operations (FeedHubStep), so   *)
(* what the hub promises every subscriber holds of the page's connections. *)

(* An event reaches a connection at most once, though the page subscribes  *)
(* while publish is between its lock and its puts.                         *)
THEOREM EachAtMostOnce == Spec => []DeliveredOnce
<1>1. FeedInv => DeliveredOnce
  BY OrderedOnce DEF FeedInv
<1> QED BY <1>1, AlwaysFeedInv, PTL

(* Replayed or live, the events of a channel reach a connection in the     *)
(* order in which they were published.                                     *)
THEOREM ChannelsStayInOrder == Spec => []ChannelOrder
<1>1. FeedInv => ChannelOrder
  BY DEF FeedInv, HubInv
<1> QED BY <1>1, AlwaysFeedInv, PTL

(* What the backlog holds has reached every open connection whose queue    *)
(* had room, or publish is still to put it there.                          *)
THEOREM BacklogReaches == Spec => []BacklogReachesAll
<1>1. FeedInv => BacklogReachesAll
  BY DEF FeedInv, HubInv
<1> QED BY <1>1, AlwaysFeedInv, PTL

(* The bubbles stand in the order of what was spoken, whatever overtakes,  *)
(* is replayed, or is revised.                                             *)
THEOREM FeedIsChronological == Spec => []ChronologicalFeed
<1>1. FeedInv => ChronologicalFeed
  BY DEF FeedInv
<1> QED BY <1>1, AlwaysFeedInv, PTL

(* After any broken connection the replay settles what it left             *)
(* half-written: when the page has caught up, no bubble whose final the    *)
(* backlog holds is shown as partial.                                      *)
THEOREM ReplaySettles == Spec => []SettledWhenCaughtUp
<1>1. ASSUME FeedInv PROVE SettledWhenCaughtUp
  <2> SUFFICES ASSUME page \in Conns, CaughtUp(page),
                      NEW i \in 1..Len(backlog), Live(Id(backlog[i]))
               PROVE  FALSE
    BY DEF SettledWhenCaughtUp
  <2>1. Unread(backlog[i], page)
    BY <1>1 DEF FeedInv, SettlesLater
  <2>2. read[page] \in Nat /\ read[page] = Len(got[page])
    BY <1>1 DEF FeedInv, HubInv, HubTypeOK, CaughtUp
  <2>3. read[page] + 1..Len(got[page]) = {}
    BY <2>2
  <2> QED BY <2>1, <2>3 DEF CaughtUp, Unread, InFlight
<1> QED BY <1>1, AlwaysFeedInv, PTL
=============================================================================
