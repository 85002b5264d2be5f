----------------------------- MODULE PartialImage -----------------------------
(***************************************************************************)
(* One acquisition destination of imaging/mod.rs: the ".partial" file, its *)
(* ".partial.json" checkpoint and the finished image, and the process that *)
(* copies a source to them, skips what it cannot read, retries the skipped *)
(* ranges, and may be cancelled or killed and started again.               *)
(*                                                                         *)
(* A step changes at most one file, so that a crash can fall between any   *)
(* two.  A crash ends the process, not the machine: what was written to a  *)
(* file stays, what is in the BufWriter is lost.  Offsets count units, and *)
(* a unit of a file is <<source, offset>> or Zero.                         *)
(***************************************************************************)
EXTENDS Integers, Sequences, SequencesExt, FiniteSets, StableSort

CONSTANTS
    Sources,           \* source path, slice and length: what a checkpoint identifies
    Length,            \* units of a source
    Bad,               \* offsets whose reads can fail (and can succeed later)
    ReadLimit,         \* units of the read buffer
    SkipSpan,          \* units skipped at an unreadable offset: 4096 bytes
    Capacity,          \* units of the BufWriter: 8192 bytes
    Passes,            \* refinement passes
    WriteMayFail,      \* whether writing the partial image can fail
    CheckpointFailsAt, \* where writing the checkpoint can fail: when it is opened
                       \* ("truncate"), when it is filled ("fill")
    MaxStarts,         \* bound: acquisitions started
    Absent, Torn, Zero \* no file; a checkpoint cut short; a zero-filled unit

(* A unit of a file, an unreadable range within the source, a checkpoint.  *)
Units == (Sources \X (0 .. Length - 1)) \cup {Zero}
Unreadable == {r \in [start : 0 .. Length - 1, length : 1 .. Length] :
                  r.start + r.length <= Length}
Tallies == [count : Nat, units : Nat]
Checkpoints == [source : Sources, ranges : Seq(Unreadable), tally : Tallies,
                passes : 0 .. Passes]

ASSUME PartialImageAssumption ==
    /\ Length \in Nat \ {0} /\ ReadLimit \in Nat \ {0}
    /\ SkipSpan \in Nat \ {0} /\ Capacity \in Nat /\ SkipSpan < Capacity
    /\ Passes \in Nat /\ MaxStarts \in Nat
    /\ Bad \subseteq 0 .. Length - 1
    /\ WriteMayFail \in BOOLEAN /\ CheckpointFailsAt \subseteq {"truncate", "fill"}
    /\ Absent \notin Sources /\ Absent \notin Seq(Units)
    /\ Zero \notin Sources \X (0 .. Length - 1)
    /\ {Absent, Torn} \cap Checkpoints = {}

VARIABLES
    (* on disk *)
    partial, checkpoint, image,
    (* the acquisition process *)
    place,       \* where it is
    after,       \* where it continues once the checkpoint is written
    source, profile,
    copied,      \* offset of the next unit, which is also the reader's position
    buffer,      \* units in the BufWriter
    pending,     \* units being handed to it
    ranges,      \* unreadable ranges
    lastEnd,     \* end of the range the last read extended, or NoEnd
    tally,       \* the running issue summary
    passes,      \* refinement passes completed
    work,        \* segments the current pass has not read
    starts,      \* acquisitions started
    (* history *)
    told         \* ranges and tally returned with the image that is on disk

disk == <<partial, checkpoint, image>>
copying == <<source, profile, copied, buffer, pending, ranges, lastEnd, tally, passes, work>>
vars == <<partial, checkpoint, image, place, after, source, profile, copied, buffer,
          pending, ranges, lastEnd, tally, passes, work, starts, told>>

NoEnd == Length + 1
NoIssues == [count |-> 0, units |-> 0]

Covers(r, offset) == r.start <= offset /\ offset < r.start + r.length
Listed(rs, offset) == \E i \in DOMAIN rs : Covers(rs[i], offset)
Data(s, from, n) == [i \in 1 .. n |-> <<s, from + i - 1>>]
Zeros(n) == [i \in 1 .. n |-> Zero]
Least(a, b) == IF a < b THEN a ELSE b

-----------------------------------------------------------------------------
(* Range bookkeeping.                                                      *)

(* push_merged_unreadable_range: the new range extends the last one when   *)
(* it starts where the last read left off.                                 *)
PushMerged(rs, end, start, length) ==
    IF end # start THEN Append(rs, [start |-> start, length |-> length])
    ELSE IF rs # <<>> /\ Last(rs).start + Last(rs).length = start
         THEN [rs EXCEPT ![Len(rs)].length = @ + length]
         ELSE rs

(* summarize_unreadable_ranges, as running totals.                       *)
UnitsUpTo(rs) ==
    LET units[n \in 0 .. Len(rs)] == IF n = 0 THEN 0 ELSE units[n - 1] + rs[n].length
    IN  units

Summarize(rs) == [count |-> Len(rs), units |-> UnitsUpTo(rs)[Len(rs)]]

EndOf(rs) == IF rs = <<>> THEN NoEnd ELSE Last(rs).start + Last(rs).length

(* The first n ranges merged: empty ones are dropped, ones that touch are  *)
(* joined, ones that overlap are not.                                      *)
MergedUpTo(rs) ==
    LET merged[n \in 0 .. Len(rs)] ==
            IF n = 0 THEN <<>>
            ELSE IF rs[n].length = 0 THEN merged[n - 1]
            ELSE PushMerged(merged[n - 1], EndOf(merged[n - 1]), rs[n].start, rs[n].length)
    IN  merged

MergeRanges(rs) ==
    MergedUpTo(SortedBy(rs, [i \in DOMAIN rs |-> rs[i].start]))[Len(rs)]

(* subtract_resolved_span, for the segment that holds the span.            *)
Segment(start, end) ==
    IF start < end THEN <<[start |-> start, length |-> end - start]>> ELSE <<>>

Without(rs, i, start, length) ==
    SubSeq(rs, 1, i - 1)
    \o Segment(rs[i].start, start)
    \o Segment(start + length, rs[i].start + rs[i].length)
    \o SubSeq(rs, i + 1, Len(rs))

-----------------------------------------------------------------------------
Idle ==
    /\ place = "idle" /\ after = "idle"
    /\ source = Absent /\ profile = "standard" /\ copied = 0
    /\ buffer = <<>> /\ pending = <<>> /\ ranges = <<>> /\ lastEnd = NoEnd
    /\ tally = NoIssues /\ passes = 0 /\ work = <<>>

Init ==
    /\ partial = Absent /\ checkpoint = Absent /\ image = Absent
    /\ Idle
    /\ starts = 0
    /\ told = Absent

(* The process is gone, and with it everything it held.                    *)
Forget ==
    /\ place' = "idle" /\ after' = "idle"
    /\ source' = Absent /\ profile' = "standard" /\ copied' = 0
    /\ buffer' = <<>> /\ pending' = <<>> /\ ranges' = <<>> /\ lastEnd' = NoEnd
    /\ tally' = NoIssues /\ passes' = 0 /\ work' = <<>>

Saved == checkpoint \notin {Absent, Torn}
Resumable == partial # Absent /\ Saved

-----------------------------------------------------------------------------
(* persist_partial_image_rescue_state: fs::write truncates, then writes.   *)

Persist(next) == place' = "truncate" /\ after' = next

TruncateCheckpoint ==
    /\ place = "truncate"
    /\ checkpoint' = Torn
    /\ place' = "fill"
    /\ UNCHANGED <<partial, image, after, copying, starts, told>>

FillCheckpoint ==
    /\ place = "fill"
    /\ checkpoint' = [source |-> source, ranges |-> ranges, tally |-> tally,
                      passes |-> passes]
    /\ place' = after
    /\ UNCHANGED <<partial, image, after, copying, starts, told>>

-----------------------------------------------------------------------------
(* prepare_partial_image_destination.                                      *)

Start(s, p) ==
    /\ place = "idle" /\ starts < MaxStarts
    /\ starts' = starts + 1
    /\ source' = s /\ profile' = p

(* The bug of resuming whatever is there.                                  *)
MatchesAny(s) == Resumable /\ Len(partial) <= Length

Matches(s) == Resumable /\ checkpoint.source = s /\ Len(partial) <= Length

(* What the checkpoint describes is continued at the end of the partial    *)
(* file.                                                                   *)
Resume(s, p) ==
    /\ Start(s, p)
    /\ Matches(s)
    /\ copied' = Len(partial)
    /\ ranges' = checkpoint.ranges
    /\ tally' = checkpoint.tally
    /\ passes' = checkpoint.passes
    /\ lastEnd' = EndOf(checkpoint.ranges)
    /\ Persist("open")
    /\ UNCHANGED <<disk, buffer, pending, work, told>>

(* A partial file without its checkpoint, a checkpoint without its partial *)
(* file, one that cannot be parsed or one of another source: both files go. *)
Discard(s, p) ==
    /\ Start(s, p)
    /\ partial # Absent \/ checkpoint # Absent
    /\ ~Matches(s)
    /\ partial' = Absent
    /\ place' = "discard"
    /\ UNCHANGED <<checkpoint, image, after, copied, buffer, pending, ranges, lastEnd,
                   tally, passes, work, told>>

DiscardCheckpoint ==
    /\ place = "discard"
    /\ checkpoint' = Absent
    /\ Persist("open")
    /\ UNCHANGED <<partial, image, copying, starts, told>>

Fresh(s, p) ==
    /\ Start(s, p)
    /\ partial = Absent /\ checkpoint = Absent
    /\ Persist("open")
    /\ UNCHANGED <<disk, copied, buffer, pending, ranges, lastEnd, tally, passes, work,
                   told>>

(* The bug of always truncating.                                           *)
OpenTruncated == <<>>

Opened == IF copied > 0 THEN partial ELSE <<>>

(* open_partial_image_writer: appends when there is something to append to, *)
(* truncates otherwise.  Only a resumed copy reports its progress first.   *)
OpenWriter ==
    /\ place = "open"
    /\ partial' = Opened
    /\ place' = IF copied > 0 THEN "progress" ELSE "copy"
    /\ UNCHANGED <<checkpoint, image, after, copying, starts, told>>

-----------------------------------------------------------------------------
(* The copy loop of copy_source_bytes_to_image.                            *)

Room == Least(ReadLimit, Length - copied)

(* The bug of skipping a full span at the end of the source.               *)
SkipFullSpan == SkipSpan

SkipLength == Least(Room, SkipSpan)

ReadChunk ==
    /\ place = "copy" /\ copied < Length
    /\ \E n \in 1 .. Room : pending' = Data(source, copied, n)
    /\ place' = "write"
    /\ UNCHANGED <<disk, after, source, profile, copied, buffer, ranges, lastEnd, tally,
                   passes, work, starts, told>>

(* All attempts failed.  The standard profile gives up; the cautious one   *)
(* writes zeros instead.                                                   *)
ReadFails ==
    /\ place = "copy" /\ copied < Length /\ copied \in Bad
    /\ IF profile = "cautious"
       THEN pending' = Zeros(SkipLength) /\ place' = "write"
       ELSE UNCHANGED pending /\ place' = "error"
    /\ UNCHANGED <<disk, after, source, profile, copied, buffer, ranges, lastEnd, tally,
                   passes, work, starts, told>>

(* BufWriter::write_all flushes first when the data do not fit.            *)
Fits == Len(buffer) + Len(pending) <= Capacity

Spill ==
    /\ place = "write" /\ ~Fits /\ buffer # <<>>
    /\ partial' = partial \o buffer
    /\ buffer' = <<>>
    /\ UNCHANGED <<checkpoint, image, place, after, source, profile, copied, pending,
                   ranges, lastEnd, tally, passes, work, starts, told>>

(* The bug of writing without a buffer.                                    *)
StoreThrough ==
    /\ partial' = partial \o buffer \o pending
    /\ buffer' = <<>>

(* Data as large as the buffer pass it by, smaller ones stay in it.        *)
Store ==
    IF Len(pending) >= Capacity
    THEN partial' = partial \o pending /\ UNCHANGED buffer
    ELSE buffer' = buffer \o pending /\ UNCHANGED partial

WriteData ==
    /\ place = "write" /\ pending[1] # Zero
    /\ Fits \/ buffer = <<>>
    /\ Store
    /\ copied' = copied + Len(pending)
    /\ pending' = <<>>
    /\ lastEnd' = NoEnd
    /\ place' = "progress"
    /\ UNCHANGED <<checkpoint, image, after, source, profile, ranges, tally, passes,
                   work, starts, told>>

(* The bug of counting by the end the read has just moved.                 *)
CountEveryRead == tally.count + 1

CountRange == IF lastEnd = copied THEN tally.count ELSE tally.count + 1

(* track_unreadable_range, and the checkpoint before anything else.        *)
WriteSkip ==
    /\ place = "write" /\ pending[1] = Zero
    /\ Fits \/ buffer = <<>>
    /\ Store
    /\ pending' = <<>>
    /\ ranges' = PushMerged(ranges, lastEnd, copied, SkipLength)
    /\ tally' = [count |-> CountRange,
                 units |-> tally.units + SkipLength]
    /\ lastEnd' = copied + SkipLength
    /\ Persist("skip")
    /\ UNCHANGED <<checkpoint, image, source, profile, copied, passes, work, starts,
                   told>>

Skip ==
    /\ place = "skip"
    /\ copied' = copied + SkipLength
    /\ place' = "progress"
    /\ UNCHANGED <<disk, after, source, profile, buffer, pending, ranges, lastEnd, tally,
                   passes, work, starts, told>>

(* The progress callback waits while paused and fails once cancelled.      *)
Progress ==
    /\ place = "progress"
    /\ place' \in {"copy", "error"}
    /\ UNCHANGED <<disk, after, copying, starts, told>>

(* The bug of forgetting the flush.                                        *)
KeepBuffered == UNCHANGED <<partial, buffer>>

Flush == partial' = partial \o buffer /\ buffer' = <<>>

EndCopy ==
    /\ place = "copy" /\ copied = Length
    /\ Flush
    /\ place' = "pass"
    /\ UNCHANGED <<checkpoint, image, after, source, profile, copied, pending, ranges,
                   lastEnd, tally, passes, work, starts, told>>

-----------------------------------------------------------------------------
(* recover_unreadable_ranges_with_refinement, the block sizes and the      *)
(* order of a pass left open: it patches what it can read this time.       *)

MorePasses == profile = "cautious" /\ ranges # <<>> /\ passes < Passes

BeginPass ==
    /\ place = "pass" /\ MorePasses
    /\ work' = ranges
    /\ place' = "refine"
    /\ UNCHANGED <<disk, after, source, profile, copied, buffer, pending, ranges, lastEnd,
                   tally, passes, starts, told>>

PatchChunk ==
    /\ place = "refine"
    /\ \E i \in DOMAIN work : \E start \in 0 .. Length - 1, n \in 1 .. work[i].length :
          /\ \A offset \in start .. start + n - 1 : Covers(work[i], offset)
          /\ partial' = [k \in DOMAIN partial |->
                            IF k - 1 \in start .. start + n - 1 THEN <<source, k - 1>>
                            ELSE partial[k]]
          /\ work' = Without(work, i, start, n)
    /\ UNCHANGED <<checkpoint, image, place, after, source, profile, copied, buffer,
                   pending, ranges, lastEnd, tally, passes, starts, told>>

(* The bug of a pass that does not count.                                  *)
PassAgain == passes

PassDone == passes + 1

EndPass ==
    /\ place = "refine"
    /\ ranges' = MergeRanges(work)
    /\ tally' = Summarize(ranges')
    /\ passes' = PassDone
    /\ work' = <<>>
    /\ Persist("pass")
    /\ UNCHANGED <<disk, source, profile, copied, buffer, pending, lastEnd, starts, told>>

EndRefinement ==
    /\ place = "pass" /\ ~MorePasses
    /\ tally' = Summarize(ranges)
    /\ Persist("replace")
    /\ UNCHANGED <<disk, source, profile, copied, buffer, pending, ranges, lastEnd, passes,
                   work, starts, told>>

-----------------------------------------------------------------------------
(* finalize_partial_image.                                                 *)

Replace ==
    /\ place = "replace"
    /\ image' = Absent /\ told' = Absent
    /\ place' = "rename"
    /\ UNCHANGED <<partial, checkpoint, after, copying, starts>>

Rename ==
    /\ place = "rename"
    /\ image' = partial /\ partial' = Absent
    /\ place' = "clean"
    /\ UNCHANGED <<checkpoint, after, copying, starts, told>>

Clean ==
    /\ place = "clean"
    /\ checkpoint' = Absent
    /\ told' = [source |-> source, ranges |-> ranges, tally |-> tally]
    /\ Forget
    /\ UNCHANGED <<partial, image, starts>>

-----------------------------------------------------------------------------
(* Failures.                                                               *)

(* What is on its way to the partial file at this place; a crash or a      *)
(* failed write lets any part of it through.                               *)
InFlight ==
    CASE place = "write" /\ ~Fits /\ buffer # <<>> -> buffer
      [] place = "write" /\ buffer = <<>> /\ Len(pending) >= Capacity -> pending
      [] (place = "copy" /\ copied = Length) \/ place = "error" -> buffer
      [] OTHER -> <<>>

PutPartly(data, n) ==
    partial' = IF n = 0 THEN partial ELSE partial \o SubSeq(data, 1, n)

CheckpointFails ==
    /\ place \in CheckpointFailsAt
    /\ place' = "error"
    /\ UNCHANGED <<disk, after, copying, starts, told>>

WriteFails ==
    /\ WriteMayFail
    /\ place \in {"write", "refine"} \/ (place = "copy" /\ copied = Length)
    /\ \E n \in 0 .. Len(InFlight) :
          /\ PutPartly(InFlight, n)
          /\ buffer' = IF InFlight = buffer THEN SubSeq(buffer, n + 1, Len(buffer))
                       ELSE buffer
    /\ pending' = <<>>
    /\ place' = "error"
    /\ UNCHANGED <<checkpoint, image, after, source, profile, copied, ranges, lastEnd,
                   tally, passes, work, starts, told>>

(* An error returns, and dropping the BufWriter tries to flush it.         *)
Error ==
    /\ place = "error"
    /\ \E n \in IF WriteMayFail THEN 0 .. Len(buffer) ELSE {Len(buffer)} :
          PutPartly(buffer, n)
    /\ Forget
    /\ UNCHANGED <<checkpoint, image, starts, told>>

Crash ==
    /\ place # "idle"
    /\ \E n \in 0 .. Len(InFlight) : PutPartly(InFlight, n)
    /\ Forget
    /\ UNCHANGED <<checkpoint, image, starts, told>>

-----------------------------------------------------------------------------
Process ==
    \/ TruncateCheckpoint \/ FillCheckpoint \/ CheckpointFails
    \/ DiscardCheckpoint \/ OpenWriter
    \/ ReadChunk \/ ReadFails \/ Spill \/ WriteData \/ WriteSkip \/ WriteFails
    \/ Skip \/ Progress \/ EndCopy
    \/ BeginPass \/ PatchChunk \/ EndPass \/ EndRefinement
    \/ Replace \/ Rename \/ Clean \/ Error

Acquire(s, p) == Resume(s, p) \/ Discard(s, p) \/ Fresh(s, p)

Done == place = "idle" /\ starts = MaxStarts /\ UNCHANGED vars

Next ==
    \/ \E s \in Sources, p \in {"standard", "cautious"} : Acquire(s, p)
    \/ Process
    \/ Crash
    \/ Done

(* The process runs; nobody has to start it again.                         *)
Spec == Init /\ [][Next]_vars /\ WF_vars(Process)

-----------------------------------------------------------------------------
(* Properties.                                                             *)

Places == {"idle", "truncate", "fill", "discard", "open", "copy", "write", "skip",
           "progress", "pass", "refine", "replace", "rename", "clean", "error"}

(* No range reaches past the source and no file outgrows it.               *)
TypeOK ==
    /\ partial # Absent => partial \in Seq(Units) /\ Len(partial) <= Length
    /\ Saved => checkpoint \in Checkpoints
    /\ image # Absent => image \in Seq(Units)
    /\ place \in Places /\ after \in Places
    /\ source \in Sources \cup {Absent} /\ profile \in {"standard", "cautious"}
    /\ copied \in 0 .. Length /\ passes \in 0 .. Passes /\ starts \in 0 .. MaxStarts
    /\ buffer \in Seq(Units) /\ Len(buffer) <= Capacity /\ pending \in Seq(Units)
    /\ ranges \in Seq(Unreadable) /\ work \in Seq(Unreadable)
    /\ lastEnd \in 1 .. NoEnd /\ tally \in Tallies

(* cautious zero-fill is traced: the ranges returned with an image list    *)
(* every zero-filled unit of it.                                           *)
ZerosTraced ==
    told # Absent => \A i \in DOMAIN image : image[i] = Zero => Listed(told.ranges, i - 1)

(* So do, whenever the process dies, the ranges of a checkpoint that the   *)
(* next acquisition will resume from.  The zeros of a skip stay in the     *)
(* BufWriter until the checkpoint that lists them is written.              *)
NoSilentGap ==
    /\ ZerosTraced
    /\ Resumable => \A i \in DOMAIN partial :
                       partial[i] = Zero => Listed(checkpoint.ranges, i - 1)

(* Whatever was interrupted and resumed before, an image holds the units   *)
(* of one source, all of them, each at its own offset.                     *)
InPlace ==
    /\ Resumable => \A i \in DOMAIN partial :
                       partial[i] \in {Zero, <<checkpoint.source, i - 1>>}
    /\ told # Absent => /\ Len(image) = Length
                        /\ \A i \in DOMAIN image : image[i] \in {Zero, <<told.source, i - 1>>}

(* resume subtracts what a checkpoint lists from what it counts and        *)
(* carries the difference as issues of an older format: for a checkpoint   *)
(* this code wrote there is none.                                          *)
TallyMatches == Saved => checkpoint.tally = Summarize(checkpoint.ranges)

(* finalize_partial_image: an image is removed only when its replacement   *)
(* is whole on disk and could be finished by another acquisition.          *)
ReplaceLast ==
    [][image # Absent /\ image' = Absent =>
          Resumable /\ Len(partial) = Length /\ checkpoint.source = source]_vars

(* Starting again on the same source, and all that follows short of the    *)
(* end of the process, keeps each captured unit, or the file is the image. *)
CapturedKept ==
    [][Resumable /\ source' = checkpoint.source =>
          \/ /\ partial' # Absent /\ Len(partial') >= Len(partial)
             /\ \A i \in DOMAIN partial : partial[i] # Zero => partial'[i] = partial[i]
          \/ image' = partial]_vars

(* Every acquisition returns.                                              *)
Ends == place # "idle" ~> place = "idle"

-----------------------------------------------------------------------------
(* What the plan says and the code does not keep: unreadable_bytes is the  *)
(* count of the holes that remain.                                         *)
CountsHoles ==
    told # Absent =>
        told.tally.units <= Cardinality({o \in 0 .. Length - 1 : Listed(told.ranges, o)})
=============================================================================
