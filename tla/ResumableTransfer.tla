------------------------- MODULE ResumableTransfer -------------------------
(* The bytes of one transfer of SftpTransferService: performDownload,      *)
(* performUploadFile and performUploadUri over the shell commands of exec, *)
(* run again and again on the same two files.                              *)
(*                                                                         *)
(* A file is a sequence of cells, a block of the code some cells, and a    *)
(* hash of a range the range itself.  A run may fail, be canceled or die   *)
(* with the process between any two steps and in the middle of a write;    *)
(* what it left is what the next run finds.  The source does not change,   *)
(* and a command of a run that died ends or dies before the next run asks. *)
(*                                                                         *)
(* exec (ssh_bridge.c:528-566) has no way to tell an error from an answer. *)
(* It is "refused" when no channel opens or the command cannot be sent,    *)
(* and "cut" when the answer, or what the command does, stops half-way.    *)
EXTENDS Naturals, Sequences, SequencesExt

CONSTANTS
  Source,     \* the contents the file to copy may have
  Prior,      \* the contents the copy may have at first; <<>> if there is none
  Block,      \* getTransferBlockSize, in cells
  TailSize,   \* RESUME_HASH_TAIL_SIZE, in cells
  Batch,      \* MAX_DOWNLOAD_BATCH_CHUNKS
  Garbage,    \* the cell that Base64 makes of "Error: Open Channel"
  Runs        \* bound: how often the transfer is started

ASSUME ResumeAssumption ==
  /\ Block \in Nat \ {0, 1} /\ TailSize \in Nat \ {0} /\ Batch \in Nat \ {0}
  /\ Runs \in Nat

VARIABLES
  job,        \* the direction, the source, whether its size is known, the copy at first
  dest,       \* the copy
  pc,         \* where the run is; "idle" between two runs
  pos,        \* pos of a download, sent of an upload
  parts,      \* the chunks of the last answer that wait to be written
  reported,   \* what the last run said
  kept,       \* history: the copy as this run took it over, and where it went on
  clean,      \* history: no exec of this run was refused or cut
  unread,     \* history: this run could not hash its local file
  stacked,    \* history: a run has appended to a copy that it meant to empty
  runs

vars == <<job, dest, pc, pos, parts, reported, kept, clean, unread, stacked, runs>>

Cells == {Garbage} \cup UNION {Range(s) : s \in Source \cup Prior}

ASSUME FilesAssumption == Source \cup Prior \subseteq Seq(Cells)

TypeOK ==
  /\ job \in [dir : {"download", "upload"}, source : Source, known : BOOLEAN,
              before : Prior]
  /\ dest \in Seq(Cells) /\ kept \in [text : Seq(Cells), from : Nat]
  /\ pc \in {"idle", "compare", "truncate", "fetch", "write", "send"}
  /\ pos \in 0 .. Len(job.source) /\ parts \in Seq(Seq(Cells))
  /\ reported \in {"none", "done", "failed"}
  /\ clean \in BOOLEAN /\ unread \in BOOLEAN /\ stacked \in BOOLEAN /\ runs \in 0 .. Runs

Init ==
  /\ job \in [dir : {"download", "upload"}, source : Source, known : BOOLEAN,
              before : Prior]
  /\ dest = job.before /\ pc = "idle" /\ pos = 0 /\ parts = <<>>
  /\ reported = "none" /\ kept = [text |-> dest, from |-> 0] /\ clean = TRUE
  /\ unread = FALSE /\ stacked = FALSE /\ runs = 0

source == job.source
total  == IF job.known THEN Len(source) ELSE 0     \* totalBytes

Lesser(m, n) == IF m < n THEN m ELSE n
Aligned(n) == (n \div Block) * Block

(* The hash of the last cells of the copy is that of the same range of the *)
(* source.  Mutant: the copy's is taken from its first cells.              *)
SameHead ==
  LET first == Len(dest) - Lesser(TailSize, Len(dest)) + 1
  IN  SubSeq(dest, 1, Len(dest) - first + 1) = SubSeq(source, first, Len(dest))
SameTail ==
  LET first == Len(dest) - Lesser(TailSize, Len(dest)) + 1
  IN  SubSeq(dest, first, Len(dest)) = SubSeq(source, first, Len(dest))
(* raf.write at pos: over what is there, and past its end.                 *)
(* Mutant: at the end of the file, wherever pos is.                        *)
Appended(at, part) == dest \o part
Overwritten(at, part) ==
  SubSeq(dest, 1, at) \o part \o SubSeq(dest, at + Len(part) + 1, Len(dest))
(* The block that dd or read takes at a place, short or empty at the end.  *)
ChunkAt(at) == SubSeq(source, at + 1, Lesser(at + Block, Len(source)))

Report(what) ==
  /\ reported' = what /\ pc' = "idle" /\ pos' = 0 /\ parts' = <<>>
  /\ UNCHANGED <<job, unread, stacked, runs>>
(* The run takes over what the copy holds now and goes on from there.      *)
GoOn(step, from) ==
  /\ pc' = step /\ pos' = from /\ kept' = [text |-> dest', from |-> from]
-----------------------------------------------------------------------------
NewRun ==
  /\ pc = "idle" /\ runs < Runs /\ runs' = runs + 1 /\ unread' = FALSE
  /\ UNCHANGED <<job, parts, stacked>>
(* The copy is as long as the source: nothing is compared.                 *)
LooksComplete == total > 0 /\ Len(dest) >= total
TakenAsIs ==
  /\ reported' = "done" /\ kept' = [text |-> dest, from |-> Len(dest)]
  /\ UNCHANGED <<dest, pc, pos>>

(* performDownload looks at the local file, and cuts it to whole blocks.   *)
(* Of a source whose size it does not know it starts at 0 and cuts nothing.*)
CutToBlocks == SubSeq(dest, 1, Aligned(Len(dest)))
StartDownload ==
  /\ job.dir = "download" /\ NewRun /\ clean' = TRUE
  /\ IF LooksComplete THEN TakenAsIs
     ELSE /\ reported' = "none"
          /\ dest' = IF total > 0 THEN CutToBlocks ELSE dest
          /\ IF total > 0 /\ dest' # <<>>
             THEN pc' = "compare" /\ UNCHANGED <<pos, kept>>
             ELSE GoOn("fetch", 0)
(* The tail of the local file is hashed, then the remote one: a hash that  *)
(* cannot be had, on either side, counts as a different one.               *)
CompareDownload ==
  /\ job.dir = "download" /\ pc = "compare"
  /\ unread' \in BOOLEAN
  /\ \E answered \in BOOLEAN :
       /\ clean' = answered
       /\ IF ~unread' /\ answered /\ SameTail
          THEN UNCHANGED dest /\ GoOn("fetch", Len(dest))
          ELSE dest' = <<>> /\ GoOn("fetch", 0)
  /\ UNCHANGED <<job, parts, reported, stacked, runs>>

(* The answer to a batch of dd commands, each with a marker after it: all  *)
(* its chunks, or only the first and a piece of the next; when no channel  *)
(* opens, a text that decodes to something.                                *)
BatchCount ==
  IF total = 0 THEN Batch ELSE Lesser(Batch, (total - pos + Block - 1) \div Block)
Chunks == [i \in 1 .. BatchCount |-> ChunkAt(Aligned(pos) + (i - 1) * Block)]
ShortOf(i, n) == SubSeq(Chunks[i], 1, Lesser(n, Len(Chunks[i])))
CutAnswers ==
  {Append(SubSeq(Chunks, 1, i - 1), ShortOf(i, n)) :
     i \in 1 .. BatchCount, n \in 0 .. Block} \ {Chunks}
Refusals == { << <<Garbage>> >>, << <<>> >> }
Fetch ==
  /\ pc = "fetch"
  /\ IF total > 0 /\ pos >= total
     THEN Report("done") /\ UNCHANGED <<dest, kept, clean>>
     ELSE /\ \E answer \in {Chunks} \cup CutAnswers \cup Refusals :
               parts' = answer /\ clean' = (clean /\ answer = Chunks)
          /\ pc' = "write" /\ UNCHANGED <<job, dest, pos, reported, kept, unread, stacked, runs>>
(* One part of the answer; an empty or a short one is the end of the file. *)
(* Mutant: an empty part is skipped, and asked for again.                  *)
EndsWhenShort(part) == Len(part) \in 1 .. Block - 1
EndOfFile(part) == Len(part) < Block
WritePart ==
  /\ pc = "write"
  /\ IF parts = <<>>
     THEN /\ pc' = "fetch"
          /\ UNCHANGED <<job, dest, pos, parts, reported, unread, stacked, runs>>
     ELSE /\ dest' = Overwritten(pos, Head(parts))
          /\ IF EndOfFile(Head(parts))
             THEN Report("done")
             ELSE /\ pos' = pos + Len(Head(parts)) /\ parts' = Tail(parts)
                  /\ UNCHANGED <<job, pc, reported, unread, stacked, runs>>
  /\ UNCHANGED <<kept, clean>>
-----------------------------------------------------------------------------
(* An upload asks for the size of the remote file with stat.               *)
StartUpload ==
  /\ job.dir = "upload" /\ NewRun
  /\ \E answered \in BOOLEAN :
       /\ clean' = answered
       /\ IF answered /\ LooksComplete THEN TakenAsIs
          ELSE /\ reported' = "none"
               /\ pc' = IF answered /\ dest # <<>> /\ Len(dest) < total
                        THEN "compare" ELSE "truncate"
               /\ UNCHANGED <<dest, pos, kept>>
(* Mutant: a tail that differs is taken for the source's own.              *)
TailTrustedAlways == TRUE
TailTrusted == SameTail
CompareUpload ==
  /\ job.dir = "upload" /\ pc = "compare"
  /\ unread' \in BOOLEAN
  /\ \E answered \in BOOLEAN :
       /\ clean' = answered
       /\ IF ~unread' /\ answered /\ TailTrusted
          THEN UNCHANGED dest /\ GoOn("send", Len(dest))
          ELSE pc' = "truncate" /\ UNCHANGED <<dest, pos, kept>>
  /\ UNCHANGED <<job, parts, reported, stacked, runs>>
(* The result of a truncation or an append is not looked at.               *)
Truncate ==
  /\ pc = "truncate"
  /\ \E done \in BOOLEAN :
       /\ dest' = IF done THEN <<>> ELSE dest
       /\ clean' = (clean /\ done)
       /\ stacked' = (stacked \/ (~done /\ dest # <<>>))
  /\ GoOn("send", 0) /\ UNCHANGED <<job, parts, reported, unread, runs>>
(* One chunk of the file: its base64 text is longer than                   *)
(* MAX_UPLOAD_CMD_LENGTH, so that every whole block is a batch.            *)
(* Mutant: the size of the buffer is counted.                              *)
SentBuffer == pos + Block
Sent == pos + Len(ChunkAt(pos))
Send ==
  /\ pc = "send"
  /\ IF pos >= Len(source)
     THEN Report("done") /\ UNCHANGED <<dest, clean>>
     ELSE /\ \E n \in 0 .. Len(ChunkAt(pos)) :
               /\ dest' = dest \o SubSeq(ChunkAt(pos), 1, n)
               /\ clean' = (clean /\ n = Len(ChunkAt(pos)))
          /\ pos' = Sent
          /\ UNCHANGED <<job, pc, parts, reported, unread, stacked, runs>>
  /\ UNCHANGED kept
-----------------------------------------------------------------------------
(* The run fails or is canceled (then it says so), or its process dies,    *)
(* with any part of the write or append it was at done.                    *)
HalfWritten ==
  IF pc = "write" /\ parts # <<>>
  THEN {Overwritten(pos, SubSeq(Head(parts), 1, n)) : n \in 0 .. Len(Head(parts))}
  ELSE IF pc = "send"
  THEN {dest \o SubSeq(ChunkAt(pos), 1, n) : n \in 0 .. Len(ChunkAt(pos))}
  ELSE {dest}
Interrupted ==
  /\ pc # "idle"
  /\ dest' \in HalfWritten
  /\ \E what \in {"failed", "none"} : Report(what)
  /\ UNCHANGED <<kept, clean>>

Step ==
  CompareDownload \/ Fetch \/ WritePart \/ CompareUpload \/ Truncate \/ Send
Next == StartDownload \/ StartUpload \/ Step \/ Interrupted
Spec == Init /\ [][Next]_vars /\ WF_vars(Step)
-----------------------------------------------------------------------------
(* A run that says it is done, and whose commands were all answered in     *)
(* full, has made the copy equal to the source, however the runs before it *)
(* ended: provided that what it took over was no longer than the source    *)
(* and the part it went on from was the source's.  (The code cannot tell:  *)
(* it compares the last 64 KiB, and nothing at all of a file that is long  *)
(* enough.)                                                                *)
TookOverWell ==
  /\ Len(kept.text) <= Len(source)
  /\ IsPrefix(SubSeq(kept.text, 1, kept.from), source)
Intact == reported = "done" /\ clean /\ TookOverWell => dest = source

(* A copy that only this transfer has written is gone on with only from a  *)
(* part of it that is right, whatever commands were refused or cut and     *)
(* wherever earlier runs stopped: no run goes on behind a chunk that was   *)
(* lost, or a text taken for one.  So it is of a source whose cells all    *)
(* differ; in one that repeats itself, or in a copy that a lost truncation *)
(* made the run append to, the tail may look right in a wrong place.  And  *)
(* it says nothing of a copy that is as long as the source: a text that    *)
(* fills the last, short block makes it so, and the next run goes on from  *)
(* nothing but reports it done (TakenAsIs).                                *)
OwnWorkIsSound ==
  job.before = <<>> /\ ~stacked /\ IsInjective(source) /\ pc \in {"fetch", "write", "send"}
    => IsPrefix(SubSeq(kept.text, 1, kept.from), source)

(* A right beginning of the copy is never thrown away but for its last,    *)
(* partial block, by a run whose commands are answered and that can read   *)
(* its local file: neither its failure, cancellation or death costs more,  *)
(* nor the start after it.  (A run that cannot hash the local file starts  *)
(* from zero, and empties the copy although every command is answered; an  *)
(* upload may then find that it cannot open the file either.)              *)
ProgressKept ==
  [][job.known /\ clean' /\ ~unread' /\ IsPrefix(dest, source)
       => Len(dest') >= Aligned(Len(dest))]_vars

(* A run ends, whatever it is answered: a refusal, a part, or a text that   *)
(* is none.  It has to be answered: exec itself may wait for ever on a     *)
(* handle without a timeout (NativeBridge).                                *)
Ends == (pc # "idle") ~> (pc = "idle")
=============================================================================
