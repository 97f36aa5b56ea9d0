------------------------------ MODULE AudioDump ------------------------------
(***************************************************************************)
(* AudioDumpWorker (audio_ingest/audio_dump.py) and atomic_sf_write        *)
(* (audio_ingest/atomic_write.py): the thread that cuts what the router    *)
(* copies to it into numbered WAV files, one series per channel, and the   *)
(* temp-file-then-os.replace write it uses, on a device that can lose its  *)
(* power between any two steps.                                            *)
(*                                                                         *)
(* Audio is counted in units numbered 1, 2, ... per channel; a packet      *)
(* carries PacketUnits of them and a full file Threshold.  The file system *)
(* has two views: what a reader of the running system sees (`files`) and   *)
(* what is on the medium (`durable`), which the kernel brings up to date   *)
(* when it likes and in the order it likes, a file's name before its data  *)
(* if it comes to that: nothing in the code calls fsync.                   *)
(***************************************************************************)
EXTENDS Naturals, FiniteSets, SequencesExt

CONSTANTS
  Channels,     \* channel ids
  PacketUnits,  \* audio units in one AudioPacket
  Threshold,    \* audio units in one full file (_threshold)
  QueueMax,     \* maxsize of the dump queue
  MaxPackets,   \* bound: packets sent on each channel in one boot
  MaxBoots      \* bound: starts of the process

ASSUME SizesAssumption ==
  /\ PacketUnits \in Nat \ {0}
  /\ Threshold \in Nat \ {0}
  /\ QueueMax \in Nat \ {0}

ASSUME BoundsAssumption ==
  /\ MaxPackets \in Nat
  /\ MaxBoots \in Nat \ {0}

VARIABLES
  queue,     \* the dump queue
  sent,      \* per channel, the packets sent in this boot
  pc,        \* where the thread is in run()
  stopping,  \* _stop_event
  buffers,   \* _buffers: audio not yet in a file
  segments,  \* _segments: the next file number
  written,   \* the files cut and not yet written
  flushing,  \* channels the final loop has not come to
  tmp,       \* the temp file being written, or NoFile
  files,     \* the directory as a running process reads it
  durable,   \* the directory on the medium
  stray,     \* whether a temp file was left behind
  taken,     \* history: per channel, the audio taken in this boot
  boot       \* which start of the process this is

worker == <<pc, buffers, segments, written, flushing, taken>>
vars == <<queue, sent, worker, stopping, tmp, files, durable, stray, boot>>

NoFile == [kind |-> "none"]
Torn == [kind |-> "torn"]

\* The names the worker gives: {ch}_{id:03d}.wav, and {ch}_{id:03d}_end.wav.
Names == [channel : Channels, id : 0..MaxPackets * PacketUnits, end : BOOLEAN]

Absent == [kind |-> "absent"]
Content(audio) == [kind |-> "wav", audio |-> audio, boot |-> boot]

Init ==
  /\ queue = <<>>
  /\ sent = [c \in Channels |-> 0]
  /\ pc = "check"
  /\ stopping = FALSE
  /\ buffers = [c \in Channels |-> <<>>]
  /\ segments = [c \in Channels |-> 0]
  /\ written = <<>>
  /\ flushing = {}
  /\ tmp = NoFile
  /\ files = [n \in Names |-> Absent]
  /\ durable = files
  /\ stray = FALSE
  /\ taken = [c \in Channels |-> <<>>]
  /\ boot = 1

(***************************************************************************)
(* The producer and stop().                                                *)
(***************************************************************************)

HasRoom(q) == Len(q) < QueueMax

Packet(c, n) ==
  [channel |-> c,
   samples |-> [i \in 1..PacketUnits |-> (n - 1) * PacketUnits + i]]

\* fanout_put: the copy is put, or dropped when the queue stays full.
Copy(c) ==
  /\ sent[c] < MaxPackets
  /\ sent' = [sent EXCEPT ![c] = @ + 1]
  /\ queue' = IF HasRoom(queue) THEN Append(queue, Packet(c, sent'[c])) ELSE queue
  /\ UNCHANGED <<worker, stopping, tmp, files, durable, stray, boot>>

Stop ==
  /\ ~stopping
  /\ stopping' = TRUE
  /\ UNCHANGED <<queue, sent, worker, tmp, files, durable, stray, boot>>

(***************************************************************************)
(* run(): one packet at a time; a write is atomic_sf_write, in steps.      *)
(***************************************************************************)

CheckStop ==
  /\ pc = "check"
  /\ pc' = IF stopping THEN "flush" ELSE "get"
  /\ flushing' = IF stopping THEN Channels ELSE flushing
  /\ UNCHANGED <<queue, sent, stopping, buffers, segments, written, tmp, files,
                 durable, stray, taken, boot>>

Empty ==
  /\ pc = "get"
  /\ queue = <<>>
  /\ pc' = "check"
  /\ UNCHANGED <<queue, sent, stopping, buffers, segments, written, flushing, tmp,
                 files, durable, stray, taken, boot>>

\* Every full segment at the head of a buffer, as files numbered from id.
FullFiles(c, buffer, id) ==
  [k \in 1..Len(buffer) \div Threshold |->
     [name |-> [channel |-> c, id |-> id + k - 1, end |-> FALSE],
      audio |-> SubSeq(buffer, (k - 1) * Threshold + 1, k * Threshold)]]

\* Wrong: a buffer that filled a file is emptied.
RestMutant(buffer) == IF Len(buffer) < Threshold THEN buffer ELSE <<>>

\* What stays in the buffer when its full segments are gone.
Rest(buffer) ==
  SubSeq(buffer, (Len(buffer) \div Threshold) * Threshold + 1, Len(buffer))

Take ==
  /\ pc = "get"
  /\ queue # <<>>
  /\ LET c == Head(queue).channel
         buffer == buffers[c] \o Head(queue).samples
         full == FullFiles(c, buffer, segments[c])
     IN /\ queue' = Tail(queue)
        /\ taken' = [taken EXCEPT ![c] = @ \o Head(queue).samples]
        /\ written' = full
        /\ buffers' = [buffers EXCEPT ![c] = Rest(buffer)]
        /\ segments' = [segments EXCEPT ![c] = @ + Len(full)]
        /\ pc' = IF full = <<>> THEN "check" ELSE "write"
  /\ UNCHANGED <<sent, stopping, flushing, tmp, files, durable, stray, boot>>

\* sf.write opens the temp file ...
BeginWrite ==
  /\ pc = "write"
  /\ tmp = NoFile
  /\ tmp' = [kind |-> "tmp", whole |-> FALSE]
  /\ UNCHANGED <<queue, sent, worker, stopping, files, durable, stray, boot>>

\* ... and has written all of it.
EndWrite ==
  /\ tmp.kind = "tmp"
  /\ ~tmp.whole
  /\ tmp' = [tmp EXCEPT !.whole = TRUE]
  /\ UNCHANGED <<queue, sent, worker, stopping, files, durable, stray, boot>>

\* Wrong: the temp file is renamed as soon as it exists.
MayReplaceMutant(t) == t.kind = "tmp"

\* os.replace comes after sf.write has returned.
MayReplace(t) == t.kind = "tmp" /\ t.whole

Replaced == IF tmp.whole THEN Content(Head(written).audio) ELSE Torn

\* os.replace, and the next file of the list, if there is one.
Replace ==
  /\ pc = "write"
  /\ MayReplace(tmp)
  /\ files' = [files EXCEPT ![Head(written).name] = Replaced]
  /\ tmp' = NoFile
  /\ written' = Tail(written)
  /\ pc' = IF Tail(written) # <<>> THEN "write"
           ELSE IF flushing # {} \/ Head(written).name.end THEN "flush"
           ELSE "check"
  /\ UNCHANGED <<queue, sent, stopping, buffers, segments, flushing, durable, stray,
                 taken, boot>>

\* Either call raises (a full disk): the temp file is unlinked, and nothing
\* in run() catches the exception, so the thread is gone.
WriteFails ==
  /\ pc = "write"
  /\ tmp' = NoFile
  /\ pc' = "dead"
  /\ UNCHANGED <<queue, sent, stopping, buffers, segments, written, flushing, files,
                 durable, stray, taken, boot>>

\* Wrong: only what fills a file is worth one.
RemainsMutant(buffer) == Len(buffer) >= Threshold

Remains(buffer) == buffer # <<>>

FlushEnd(c) ==
  /\ pc = "flush"
  /\ c \in flushing
  /\ flushing' = flushing \ {c}
  /\ IF Remains(buffers[c])
     THEN /\ written' = <<[name |-> [channel |-> c, id |-> segments[c], end |-> TRUE],
                           audio |-> buffers[c]]>>
          /\ buffers' = [buffers EXCEPT ![c] = <<>>]
          /\ pc' = "write"
     ELSE UNCHANGED <<written, buffers, pc>>
  /\ UNCHANGED <<queue, sent, stopping, segments, tmp, files, durable, stray, taken, boot>>

Done ==
  /\ pc = "flush"
  /\ flushing = {}
  /\ pc' = "done"
  /\ UNCHANGED <<queue, sent, stopping, buffers, segments, written, flushing, tmp,
                 files, durable, stray, taken, boot>>

(***************************************************************************)
(* The kernel, the power and systemd.                                      *)
(***************************************************************************)

\* A changed file reaches the medium, at once or its name before its data.
Settle(n) ==
  /\ durable[n] # files[n]
  /\ \/ durable' = [durable EXCEPT ![n] = files[n]]
     \/ durable[n] # Torn /\ durable' = [durable EXCEPT ![n] = Torn]
  /\ UNCHANGED <<queue, sent, worker, stopping, tmp, files, stray, boot>>

\* The process starts again, with nothing of its own.
Reboot ==
  /\ boot < MaxBoots
  /\ boot' = boot + 1
  /\ queue' = <<>>
  /\ sent' = [c \in Channels |-> 0]
  /\ pc' = "check"
  /\ stopping' = FALSE
  /\ buffers' = [c \in Channels |-> <<>>]
  /\ segments' = [c \in Channels |-> 0]
  /\ written' = <<>>
  /\ flushing' = {}
  /\ taken' = [c \in Channels |-> <<>>]
  /\ tmp' = NoFile
  /\ stray' = (stray \/ tmp # NoFile)

\* SIGKILL or the systemd watchdog: the kernel still holds every write.
ProcessDies == Reboot /\ UNCHANGED <<files, durable>>

PowerLoss == Reboot /\ files' = durable /\ UNCHANGED durable

Next ==
  \/ \E c \in Channels : Copy(c) \/ FlushEnd(c)
  \/ Stop
  \/ CheckStop
  \/ Empty
  \/ Take
  \/ BeginWrite
  \/ EndWrite
  \/ Replace
  \/ WriteFails
  \/ Done
  \/ \E n \in Names : Settle(n)
  \/ ProcessDies
  \/ PowerLoss

Spec == Init /\ [][Next]_vars

-----------------------------------------------------------------------------
(***************************************************************************)
(* Properties.                                                             *)
(***************************************************************************)

\* The audio of channel c that this boot's files hold, in the order of their
\* numbers, the trailing file last.
OnDisk(c) ==
  LET Mine(n) == files[n].kind = "wav" /\ files[n].boot = boot
      Audio(n) == IF Mine(n) THEN files[n].audio ELSE <<>>
  IN FlattenSeq([i \in 1..MaxPackets * PacketUnits + 1 |->
                   Audio([channel |-> c, id |-> i - 1, end |-> FALSE])
                   \o Audio([channel |-> c, id |-> i - 1, end |-> TRUE])])

Unwritten(c) ==
  FlattenSeq([i \in 1..Len(written) |->
                IF written[i].name.channel = c THEN written[i].audio ELSE <<>>])

\* The recording is the audio the thread took, in its order, with nothing
\* twice, missing or overwritten: what the files of this boot hold in the
\* order of their numbers, then the files still to be written, then the
\* buffer (run, _flush_full_segment, _flush_end).
RecordingInOrder ==
  \A c \in Channels : OnDisk(c) \o Unwritten(c) \o buffers[c] = taken[c]

\* A thread that ended by itself after stop() has written everything it took,
\* the trailing part of every channel included (_flush_end).
StopFlushes == pc = "done" => \A c \in Channels : OnDisk(c) = taken[c]

\* Nothing but the power tears a file: no step of a write, and no death of the
\* process before, in or after one, puts a part of a file where a reader or the
\* next boot finds it (sf.write to a temp file, then os.replace).
OnlyPowerTears ==
  [][~PowerLoss => \A n \in Names : files'[n] = Torn => files[n] = Torn]_vars

\* "a reader (or the next boot) sees either the old file or the complete new
\* one, never a torn one" on a device that "can lose power at any instant"
\* (atomic_write.py:3-9).
NoTornFile == \A n \in Names : files[n] # Torn

\* "a crashed write never leaves a stray .tmp behind" (atomic_write.py:38-39).
NoStrayTmp == ~stray
=============================================================================
