---------------------------- MODULE UtteranceStream ---------------------------
(***************************************************************************)
(* What one channel's segment queue promises whoever reads it: utterances  *)
(* begin one after the other, each may be shown in partials while it is in *)
(* progress, and each is closed once, by a final that is on the queue or   *)
(* was reported lost because the queue was full.  VadWorker implements it. *)
(*                                                                         *)
(* How speech is found and where it is cut is left open: an entry of the   *)
(* queue is any record with an id and is_partial.                          *)
(***************************************************************************)
EXTENDS Integers, Sequences

CONSTANT Capacity

VARIABLES
  opened,   (* utterances begun so far; each id is its number              *)
  current,  (* the one in progress; 0 if none is                           *)
  out,      (* everything put on the queue                                 *)
  lost,     (* the finals that were not                                    *)
  taken     (* how many of out the reader has                              *)

stream == <<opened, current, out, lost, taken>>

Init ==
  /\ opened = 0 /\ current = 0
  /\ out = <<>> /\ lost = <<>> /\ taken = 0

Elements(s) == {s[i] : i \in 1..Len(s)}

Room(q) == Len(q) - taken < Capacity

(* r is q with a partial of id, or without one. *)
Shown(id, q, r) ==
  \/ r = q
  \/ /\ Room(q)
     /\ \E seg \in Elements(r) : /\ seg.id = id /\ seg.is_partial
                                 /\ r = Append(q, seg)

(* r and m are q and l with the final of id in one of the two. *)
Closed(id, q, r, l, m) ==
  \/ /\ Room(q) /\ m = l
     /\ \E seg \in Elements(r) : /\ seg.id = id /\ ~seg.is_partial
                                 /\ r = Append(q, seg)
  \/ /\ ~Room(q) /\ r = q
     /\ \E seg \in Elements(m) : /\ seg.id = id /\ ~seg.is_partial
                                 /\ m = Append(l, seg)

Begin ==
  /\ current = 0
  /\ opened' = opened + 1 /\ current' = opened + 1
  /\ UNCHANGED <<out, lost, taken>>

Revise ==
  /\ current # 0
  /\ Shown(current, out, out')
  /\ UNCHANGED <<opened, current, lost, taken>>

End ==
  /\ current # 0 /\ current' = 0
  /\ Closed(current, out, out', lost, lost')
  /\ UNCHANGED <<opened, taken>>

(* The end of one utterance is the beginning of the next. *)
Cut ==
  /\ current # 0
  /\ opened' = opened + 1 /\ current' = opened + 1
  /\ \E q \in {out', SubSeq(out', 1, Len(out') - 1)} :
       /\ Closed(current, out, q, lost, lost')
       /\ Shown(opened + 1, q, out')
  /\ UNCHANGED taken

Take ==
  /\ taken < Len(out) /\ taken' = taken + 1
  /\ UNCHANGED <<opened, current, out, lost>>

Next == Begin \/ Revise \/ End \/ Cut \/ Take

Spec == Init /\ [][Next]_stream
-----------------------------------------------------------------------------
(* Properties *)

FinalsOf(id) ==
  {i \in 1..Len(out) : out[i].id = id /\ ~out[i].is_partial}
LostOf(id) == {i \in 1..Len(lost) : lost[i].id = id}

(* Of every utterance that is over exactly one final was handed on or      *)
(* reported lost, and the queue shows them in the order they began.        *)
ClosedOnce ==
  /\ \A id \in 1..opened : id # current =>
       \/ LostOf(id) = {} /\ \E i \in FinalsOf(id) : FinalsOf(id) = {i}
       \/ FinalsOf(id) = {} /\ \E i \in LostOf(id) : LostOf(id) = {i}
  /\ \A i, j \in 1..Len(out) : i < j => out[i].id <= out[j].id
=============================================================================
