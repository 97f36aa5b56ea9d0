-------------------------------- MODULE Fanout --------------------------------
(***************************************************************************)
(* A stage that hands its items on with fanout_put                         *)
(* (src/edge_voice/pipeline/fanout.py), in time: the next stage's queue    *)
(* and the queue of a debugging copy each make the stage wait for up to    *)
(* Wait, one after the other, while its own input goes on arriving.  The   *)
(* copies are written by                                                   *)
(* src/edge_voice/audio_ingest/segment_audio_dump.py, one file each.       *)
(*                                                                         *)
(* Items are numbered in the order they arrive.  A tick is the resolution  *)
(* of time; what can happen at once does before the next tick.             *)
(***************************************************************************)
EXTENDS Integers, Sequences

CONSTANTS
  SourceMax, DstMax, DumpMax, (* capacity of the three queues              *)
  Wait,      (* put_timeout, in ticks                                      *)
  Period,    (* ticks between two arrivals, at least                       *)
  Lag,       (* ticks the next stage leaves an item in its queue, at most  *)
  GetWait,   (* the dump thread's get(timeout=1.0), in ticks               *)
  WriteTime, (* ticks a file takes, at most                                *)
  MaxItems   (* BOUND                                                      *)

ASSUME FanoutAssumption ==
  /\ {SourceMax, DstMax, DumpMax, Period, GetWait} \subseteq Nat \ {0}
  /\ {Wait, Lag, WriteTime, MaxItems} \subseteq Nat

VARIABLES
  made, gap,        (* the last item, and the ticks since it came          *)
  source,           (* the stage's input queue                             *)
  at, item, waited, (* the stage: get, dst, dump, off; what it hands on    *)
  dst, lag,         (* the next stage's queue, and how long it is unread   *)
  served,           (* what the next stage got                             *)
  dump,             (* the queue of copies                                 *)
  writer,           (* the dump thread: test, get, write, dead, off        *)
  writer_stop,
  counter,          (* its _counter                                        *)
  written,          (* its list of files to write                          *)
  left,             (* ticks until they are written, or get gives up       *)
  files,            (* the files, in the order they were written           *)
  lost              (* history: dropped before or by the stage             *)

stage == <<at, item, waited>>
consumer == <<dst, lag, served>>
dumper == <<writer, writer_stop, counter, written, left, files>>
fanout == <<made, gap, source, stage, consumer, dump, dumper, lost>>

FanoutInit ==
  /\ made = 0 /\ gap = Period
  /\ source = <<>>
  /\ at = "get" /\ item = 0 /\ waited = 0
  /\ dst = <<>> /\ lag = 0 /\ served = {}
  /\ dump = <<>>
  /\ writer = "test" /\ writer_stop = FALSE
  /\ counter = 0 /\ written = <<>> /\ left = 0 /\ files = <<>>
  /\ lost = {}

Arrive ==
  /\ at # "off"   (* stop() takes the producers first *)
  /\ made < MaxItems /\ gap = Period
  /\ made' = made + 1 /\ gap' = 0
  /\ IF Len(source) < SourceMax
     THEN source' = Append(source, made') /\ UNCHANGED lost
     ELSE lost' = lost \cup {made'} /\ UNCHANGED source
  /\ UNCHANGED <<stage, consumer, dump, dumper>>

-----------------------------------------------------------------------------
(* The stage. *)

Take ==
  /\ at = "get" /\ source # <<>>
  /\ item' = Head(source) /\ source' = Tail(source)
  /\ at' = "dst" /\ waited' = 0
  /\ UNCHANGED <<made, gap, consumer, dump, dumper, lost>>

TimedOutMutant == FALSE

(* queue.Full *)
TimedOut == waited = Wait

PutDst ==
  /\ at = "dst"
  /\ \/ /\ Len(dst) < DstMax
        /\ dst' = Append(dst, item) /\ UNCHANGED lost
     \/ /\ Len(dst) = DstMax /\ TimedOut
        /\ lost' = lost \cup {item} /\ UNCHANGED dst
  /\ at' = "dump" /\ waited' = 0
  /\ UNCHANGED <<made, gap, source, item, lag, served, dump, dumper>>

(* What the next stage could not take is copied all the same. *)
PutDump ==
  /\ at = "dump"
  /\ \/ Len(dump) < DumpMax /\ dump' = Append(dump, item)
     \/ Len(dump) = DumpMax /\ TimedOut /\ UNCHANGED dump
  /\ at' = "get" /\ item' = 0 /\ waited' = 0
  /\ UNCHANGED <<made, gap, source, consumer, dumper, lost>>

Consume ==
  /\ dst # <<>>
  /\ served' = served \cup {Head(dst)} /\ dst' = Tail(dst) /\ lag' = 0
  /\ UNCHANGED <<made, gap, source, stage, dump, dumper, lost>>

-----------------------------------------------------------------------------
(* The dump thread. *)

(* The loop's test of the event; a get under way does not see it. *)
WriterTests ==
  /\ writer = "test"
  /\ IF writer_stop THEN writer' = "off" /\ UNCHANGED left
     ELSE writer' = "get" /\ left' = GetWait
  /\ UNCHANGED <<made, gap, source, stage, consumer, dump, writer_stop,
                 counter, written, files, lost>>

(* queue.Empty *)
WriterEmpty ==
  /\ writer = "get" /\ dump = <<>> /\ left = 0
  /\ writer' = "test"
  /\ UNCHANGED <<made, gap, source, stage, consumer, dump, writer_stop,
                 counter, written, left, files, lost>>

WriterGets ==
  /\ writer = "get" /\ dump # <<>>
  /\ dump' = Tail(dump)
  /\ counter' = counter + 1
  /\ written' = Append(written, [idx |-> counter', item |-> Head(dump)])
  /\ left' = WriteTime * Len(written')
  /\ writer' = "write"
  /\ UNCHANGED <<made, gap, source, stage, consumer, writer_stop, files, lost>>

ClearedMutant == written

(* written.clear() *)
Cleared == <<>>

WriterDone ==
  /\ writer = "write"
  /\ files' = files \o written
  /\ written' = Cleared
  /\ writer' = "test" /\ left' = 0
  /\ UNCHANGED <<made, gap, source, stage, consumer, dump, writer_stop,
                 counter, lost>>

(* A full disk raises out of run(): the thread ends. *)
WriteFails ==
  /\ writer = "write" /\ writer' = "dead"
  /\ UNCHANGED <<made, gap, source, stage, consumer, dump, writer_stop,
                 counter, written, left, files, lost>>

-----------------------------------------------------------------------------
(* stop(): the stage, and when it is joined the dump thread. *)

StopStage ==
  /\ at = "get" /\ at' = "off"
  /\ UNCHANGED <<made, gap, source, item, waited, consumer, dump, dumper,
                 lost>>

StopWriter ==
  /\ at = "off" /\ ~writer_stop /\ writer_stop' = TRUE
  /\ UNCHANGED <<made, gap, source, stage, consumer, dump, writer, counter,
                 written, left, files, lost>>

(* Time passes when nothing is due. *)
Tick ==
  /\ ~(at = "get" /\ source # <<>>)
  /\ at = "dst" => Len(dst) = DstMax /\ ~TimedOut
  /\ at = "dump" => Len(dump) = DumpMax /\ ~TimedOut
  /\ dst # <<>> => lag < Lag
  /\ writer # "test"
  /\ writer = "get" => dump = <<>>
  /\ writer \in {"get", "write"} => left > 0
  /\ gap' = IF gap < Period THEN gap + 1 ELSE gap
  /\ waited' = IF at \in {"dst", "dump"} /\ waited < Wait THEN waited + 1
               ELSE waited
  /\ lag' = IF dst # <<>> THEN lag + 1 ELSE 0
  /\ left' = IF writer \in {"get", "write"} THEN left - 1 ELSE left
  /\ UNCHANGED <<made, source, at, item, dst, served, dump, writer,
                 writer_stop, counter, written, files, lost>>

FanoutNext ==
  \/ Arrive \/ Take \/ PutDst \/ PutDump \/ Consume
  \/ WriterTests \/ WriterEmpty \/ WriterGets \/ WriterDone \/ WriteFails
  \/ StopStage \/ StopWriter \/ Tick

(* Threads run and time passes; nobody makes items come or stops anything. *)
FanoutFairness ==
  /\ WF_fanout(Take) /\ WF_fanout(PutDst) /\ WF_fanout(PutDump)
  /\ WF_fanout(Consume)
  /\ WF_fanout(WriterTests) /\ WF_fanout(WriterEmpty)
  /\ WF_fanout(WriterGets) /\ WF_fanout(WriterDone)
  /\ WF_fanout(Tick)

FanoutSpec == FanoutInit /\ [][FanoutNext]_fanout

FanoutFairSpec == FanoutSpec /\ FanoutFairness
-----------------------------------------------------------------------------
(* Properties *)

(* Two queues are waited for one after the other, and yet the copy costs   *)
(* the pipeline nothing while its writer lives and a write takes no longer *)
(* than the items are apart: no item is dropped by the stage or before it. *)
MainPathKept == writer # "dead" => lost = {}

(* A dump thread that died with its queue full delays the stage and does   *)
(* not stop it: every item that came in is served or its drop reported,    *)
(* until the pipeline is stopped.                                          *)
EveryItemThrough ==
  \A i \in 1..MaxItems :
    (\E k \in 1..Len(source) : source[k] = i)
      ~> (i \in served \/ i \in lost \/ at = "off")

(* What fanout.py says of a dropped copy: losing it costs nothing the      *)
(* pipeline needs.                                                         *)
CopyCostsNothing == lost = {}

(* What the comment in run() says: trailing segments are flushed.          *)
TrailingFlushed == writer = "off" => dump = <<>>

(* is_alive() is overridden. *)
IsAlive == ~writer_stop

(* What get_status says of a thread for which is_alive() holds: running.   *)
AliveIsRunning == IsAlive => writer # "dead"
=============================================================================
