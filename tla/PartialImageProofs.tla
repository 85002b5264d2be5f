-------------------------- MODULE PartialImageProofs --------------------------
(***************************************************************************)
(* Theorems about PartialImage, for every set of sources, every length,    *)
(* buffer and skip, and whatever can fail.                                 *)
(***************************************************************************)
EXTENDS PartialImage, ListLemmas

(* What the partial file will hold once the BufWriter is flushed.          *)
Held == IF partial = Absent THEN <<>> ELSE partial
Stream == Held \o buffer

Aligned(content, s) == \A i \in DOMAIN content : content[i] \in {Zero, <<s, i - 1>>}
Traced(content, rs) == \A i \in DOMAIN content : content[i] = Zero => Listed(rs, i - 1)

(* Where the acquisition is, writing a checkpoint counted as part of what  *)
(* follows it.                                                             *)
Persisting(next) == place \in {"truncate", "fill"} /\ after = next
Opening == place = "open" \/ Persisting("open")
Copying == place \in {"copy", "write", "progress"}
Skipping == place = "skip" \/ Persisting("skip")
Refining == place \in {"pass", "refine", "replace", "rename"}
            \/ Persisting("pass") \/ Persisting("replace")
Owner == place \notin {"idle", "discard"}

(* What an acquisition has in its hands: copied is the end of the stream,  *)
(* one skip behind it between the zeros and the step over them; once it    *)
(* refines, the whole source is in the partial file.                       *)
StreamInv ==
    /\ place \in {"truncate", "fill"} => after \in {"open", "skip", "pass", "replace"}
    /\ place # "idle" => source \in Sources
    /\ place \in {"idle", "discard"} =>
          copied = 0 /\ buffer = <<>> /\ ranges = <<>> /\ lastEnd = NoEnd /\ passes = 0
    /\ place = "discard" => partial = Absent
    /\ Opening => buffer = <<>> /\ copied = Len(Held)
    /\ Copying => partial # Absent /\ copied = Len(Stream)
    /\ place = "write" =>
          /\ copied < Length
          /\ \/ pending = Zeros(SkipLength)
             \/ \E n \in 1 .. Room : pending = Data(source, copied, n)
    /\ Skipping => partial # Absent /\ copied < Length /\ Len(Stream) = copied + SkipLength
    /\ Opening \/ Copying \/ Skipping => lastEnd \in {NoEnd, EndOf(ranges)}
    /\ Refining => partial # Absent /\ buffer = <<>> /\ Len(partial) = Length
    /\ place = "refine" => passes < Passes
    /\ buffer # <<>> => partial # Absent
    /\ Len(Stream) <= Length
    /\ place = "clean" => partial = Absent /\ image # Absent /\ Len(image) = Length
    /\ place \in {"rename", "clean"} => told = Absent
    /\ told # Absent => image # Absent /\ Len(image) = Length

(* What the checkpoint says of the acquisition: nothing while it is being  *)
(* written, everything at all other places, and after an error at least    *)
(* the source.                                                             *)
SavedInv ==
    /\ place \notin {"idle", "discard", "truncate", "fill", "error"} =>
          checkpoint = [source |-> source, ranges |-> ranges, tally |-> tally,
                        passes |-> passes]
    /\ place = "fill" => checkpoint = Torn
    /\ Owner /\ Saved => checkpoint.source = source

TallyInv == tally = Summarize(ranges) /\ TallyMatches

(* Every unit is where it belongs: on disk, in the buffer, in the image.   *)
AlignInv ==
    /\ Resumable => Aligned(partial, checkpoint.source)
    /\ Owner => Aligned(Stream, source)
    /\ place = "clean" => Aligned(image, source)
    /\ told # Absent => Aligned(image, told.source)

(* Every zero is listed by the ranges in memory and, what is on disk, by   *)
(* the checkpoint that is there.                                           *)
TraceInv ==
    /\ Resumable => Traced(partial, checkpoint.ranges)
    /\ Owner => Traced(Stream, ranges)
    /\ Owner /\ Saved /\ place # "truncate" => checkpoint.ranges = ranges
    /\ place = "refine" => Traced(partial, work)
    /\ place = "clean" => Traced(image, ranges)
    /\ told # Absent => Traced(image, told.ranges)

-----------------------------------------------------------------------------
(* Running over a list of ranges.                                          *)

LEMMA UnitsUpToIs ==
    ASSUME NEW rs \in Seq(Unreadable)
    PROVE  /\ UnitsUpTo(rs)[0] = 0
           /\ \A n \in 1 .. Len(rs) : UnitsUpTo(rs)[n] = UnitsUpTo(rs)[n - 1] + rs[n].length
<1> DEFINE N == Len(rs)
           Step(f) == [n \in 0 .. N |-> IF n = 0 THEN 0 ELSE f[n - 1] + rs[n].length]
           next == [x \in (1 .. N) \X Nat |-> x[2] + rs[x[1]].length]
<1>1. N \in Nat /\ \A n \in 1 .. N : rs[n].length \in Nat
    BY PartialImageAssumption DEF Unreadable
<1>2. \E f : f = Step(f)
    <2>1. next \in [(1 .. N) \X Nat -> Nat]
        BY <1>1
    <2>2. PICK f \in [0 .. N -> Nat] : Iterated(f, 0, N, next)
        <3>1. N \in Nat /\ 0 \in Nat
            BY <1>1
        <3> HIDE DEF next, N
        <3> QED
            BY <3>1, <2>1, Iterates
    <2>3. f = Step(f)
        <3>1. ASSUME NEW n \in 0 .. N PROVE f[n] = IF n = 0 THEN 0 ELSE f[n - 1] + rs[n].length
            <4>1. CASE n = 0
                BY <4>1, <2>2 DEF Iterated
            <4>2. CASE n # 0
                <5>1. n \in 1 .. N /\ n - 1 \in 0 .. N
                    BY <4>2, <1>1
                <5>2. f[n - 1] \in Nat
                    <6> HIDE DEF N
                    <6> QED
                        BY <5>1, <2>2
                <5> QED
                    BY <5>1, <5>2, <4>2, <2>2 DEF Iterated
            <4> QED
                BY <4>1, <4>2
        <3> QED
            BY <3>1
    <2> QED
        BY <2>3
<1>3. UnitsUpTo(rs) = CHOOSE f : f = Step(f)
    BY DEF UnitsUpTo
<1>4. UnitsUpTo(rs) = Step(UnitsUpTo(rs))
    <2> HIDE DEF Step
    <2> QED
        BY <1>2, <1>3, Zenon
<1>5. \A n \in 0 .. N : UnitsUpTo(rs)[n] = IF n = 0 THEN 0 ELSE UnitsUpTo(rs)[n - 1] + rs[n].length
    BY <1>4
<1> QED
    BY <1>1, <1>5

(* The totals of two lists agree as far as the lists do.                   *)
LEMMA UnitsAgree ==
    ASSUME NEW rs \in Seq(Unreadable), NEW ss \in Seq(Unreadable), NEW m \in Nat,
           m <= Len(rs), m <= Len(ss), \A i \in 1 .. m : rs[i] = ss[i]
    PROVE  UnitsUpTo(rs)[m] = UnitsUpTo(ss)[m] /\ UnitsUpTo(rs)[m] \in Nat
<1> DEFINE Agrees(n) == UnitsUpTo(rs)[n] = UnitsUpTo(ss)[n] /\ UnitsUpTo(rs)[n] \in Nat
           failing == {n \in 0 .. m : ~Agrees(n)}
<1>1. SUFFICES ASSUME failing # {} PROVE FALSE
    <2> HIDE DEF Agrees
    <2>1. m \in 0 .. m
        OBVIOUS
    <2>2. (\A n \in 0 .. m : Agrees(n)) => Agrees(m)
        BY <2>1
    <2> QED
        BY <2>2 DEF Agrees
<1>2. PICK n \in failing : \A k \in failing : n <= k
    <2>1. failing \in SUBSET Nat
        OBVIOUS
    <2> HIDE DEF failing
    <2> QED
        BY <1>1, <2>1, LeastNumber
<1>3. n # 0
    BY <1>2, UnitsUpToIs
<1>4. Agrees(n - 1)
    <2>1. n - 1 \in 0 .. m
        BY <1>3
    <2> HIDE DEF Agrees
    <2> QED
        BY <2>1, <1>2
<1>5. n \in 1 .. Len(rs) /\ n \in 1 .. Len(ss) /\ rs[n] = ss[n] /\ rs[n].length \in Nat
    <2>1. n \in 1 .. Len(rs) /\ n \in 1 .. Len(ss) /\ n \in 1 .. m
        BY <1>3
    <2>2. rs[n] = ss[n] /\ rs[n] \in Unreadable
        BY <2>1
    <2>3. \A r \in Unreadable : r.length \in Nat
        BY PartialImageAssumption DEF Unreadable
    <2> QED
        BY <2>1, <2>2, <2>3
<1>6. /\ UnitsUpTo(rs)[n] = UnitsUpTo(rs)[n - 1] + rs[n].length
      /\ UnitsUpTo(ss)[n] = UnitsUpTo(ss)[n - 1] + ss[n].length
    BY <1>5, UnitsUpToIs
<1> QED
    BY <1>4, <1>5, <1>6

LEMMA SummarizeType ==
    ASSUME NEW rs \in Seq(Unreadable)
    PROVE  Summarize(rs) \in Tallies
<1>1. UnitsUpTo(rs)[Len(rs)] \in Nat
    BY UnitsAgree
<1> QED
    BY <1>1 DEF Summarize, Tallies

LEMMA SummarizeNone == Summarize(<<>>) = NoIssues
<1>1. <<>> \in Seq(Unreadable) /\ Len(<<>>) = 0
    OBVIOUS
<1>2. UnitsUpTo(<<>>)[0] = 0
    BY <1>1, UnitsUpToIs
<1> QED
    BY <1>1, <1>2 DEF Summarize, NoIssues

-----------------------------------------------------------------------------
(* Adding a range.                                                         *)

LEMMA UnreadableIs ==
    /\ \A r \in Unreadable : /\ r.start \in 0 .. Length - 1 /\ r.length \in 1 .. Length
                             /\ r.start + r.length <= Length
                             /\ r = [start |-> r.start, length |-> r.length]
    /\ \A start \in 0 .. Length - 1, length \in 1 .. Length :
          start + length <= Length => [start |-> start, length |-> length] \in Unreadable
BY PartialImageAssumption DEF Unreadable

LEMMA EndOfType ==
    ASSUME NEW rs \in Seq(Unreadable)
    PROVE  /\ EndOf(rs) \in 1 .. NoEnd
           /\ EndOf(rs) # NoEnd => rs # <<>>
           /\ rs # <<>> => /\ EndOf(rs) = rs[Len(rs)].start + rs[Len(rs)].length
                           /\ EndOf(rs) <= Length
<1>1. CASE rs = <<>>
    BY <1>1, PartialImageAssumption DEF EndOf, NoEnd
<1>2. CASE rs # <<>>
    <2>1. rs[Len(rs)] \in Unreadable
        BY <1>2
    <2>2. EndOf(rs) = rs[Len(rs)].start + rs[Len(rs)].length
        BY <1>2 DEF EndOf, Last
    <2> QED
        BY <1>2, <2>1, <2>2, UnreadableIs, PartialImageAssumption DEF NoEnd
<1> QED
    BY <1>1, <1>2

(* What push_merged_unreadable_range does when the end it is given is the  *)
(* end of the list or none: the range is listed and nothing else is lost.  *)
LEMMA PushMergedIs ==
    ASSUME NEW rs \in Seq(Unreadable), NEW end \in {NoEnd, EndOf(rs)},
           NEW start \in 0 .. Length - 1, NEW length \in 1 .. Length,
           start + length <= Length
    PROVE  /\ PushMerged(rs, end, start, length) \in Seq(Unreadable)
           /\ EndOf(PushMerged(rs, end, start, length)) = start + length
           /\ PushMerged(rs, end, start, length) # <<>>
           /\ \A o \in 0 .. Length - 1 :
                 Listed(rs, o) \/ (start <= o /\ o < start + length)
                     => Listed(PushMerged(rs, end, start, length), o)
           /\ Summarize(PushMerged(rs, end, start, length)) =
                 [count |-> IF end = start THEN Summarize(rs).count ELSE Summarize(rs).count + 1,
                  units |-> Summarize(rs).units + length]
<1> DEFINE r == [start |-> start, length |-> length]
           next == PushMerged(rs, end, start, length)
<1>1. r \in Unreadable
    BY UnreadableIs
<1>2. CASE end # start
    <2>1. next = Append(rs, r)
        BY <1>2 DEF PushMerged
    <2>2. /\ next \in Seq(Unreadable) /\ Len(next) = Len(rs) + 1 /\ next # <<>>
          /\ next[Len(next)] = r /\ \A i \in 1 .. Len(rs) : next[i] = rs[i]
        BY <1>1, <2>1
    <2> HIDE DEF next
    <2>3. EndOf(next) = start + length
        BY <2>2 DEF EndOf, Last
    <2>4. ASSUME NEW o \in 0 .. Length - 1, Listed(rs, o) \/ (start <= o /\ o < start + length)
          PROVE  Listed(next, o)
        <3>1. CASE Listed(rs, o)
            <4>1. PICK i \in DOMAIN rs : Covers(rs[i], o)
                BY <3>1 DEF Listed
            <4>2. i \in DOMAIN next /\ next[i] = rs[i]
                BY <2>2
            <4> QED
                BY <4>1, <4>2 DEF Listed
        <3>2. CASE start <= o /\ o < start + length
            <4>1. Len(next) \in DOMAIN next /\ Covers(next[Len(next)], o)
                BY <3>2, <2>2 DEF Covers
            <4> QED
                BY <4>1 DEF Listed
        <3> QED
            BY <2>4, <3>1, <3>2
    <2>5. Summarize(next) = [count |-> Summarize(rs).count + 1,
                             units |-> Summarize(rs).units + length]
        <3>1. UnitsUpTo(next)[Len(rs)] = UnitsUpTo(rs)[Len(rs)]
            <4>1. /\ Len(rs) \in Nat /\ Len(rs) <= Len(rs) /\ Len(rs) <= Len(next)
                  /\ \A i \in 1 .. Len(rs) : next[i] = rs[i]
                BY <2>2
            <4> HIDE DEF r
            <4> QED
                BY <4>1, <2>2, UnitsAgree
        <3>2. UnitsUpTo(next)[Len(rs) + 1] = UnitsUpTo(next)[Len(rs)] + length
            <4>1. Len(rs) + 1 \in 1 .. Len(next) /\ next[Len(rs) + 1].length = length
                BY <2>2
            <4>2. UnitsUpTo(next)[Len(rs) + 1]
                     = UnitsUpTo(next)[Len(rs) + 1 - 1] + next[Len(rs) + 1].length
                BY <4>1, <2>2, UnitsUpToIs
            <4>3. Len(rs) + 1 - 1 = Len(rs)
                OBVIOUS
            <4> QED
                BY <4>1, <4>2, <4>3
        <3> QED
            BY <3>1, <3>2, <2>2 DEF Summarize
    <2> QED
        BY <1>2, <2>2, <2>3, <2>4, <2>5 DEF next
<1>3. CASE end = start
    <2>1. /\ rs # <<>> /\ EndOf(rs) = start
          /\ EndOf(rs) = rs[Len(rs)].start + rs[Len(rs)].length
        <3>1. start # NoEnd
            BY PartialImageAssumption DEF NoEnd
        <3>2. EndOf(rs) = start /\ EndOf(rs) # NoEnd
            BY <1>3, <3>1
        <3> QED
            BY <3>2, EndOfType
    <2>2. Len(rs) \in 1 .. Len(rs) /\ rs[Len(rs)] \in Unreadable
        BY <2>1
    <2> DEFINE joined == [start |-> rs[Len(rs)].start, length |-> rs[Len(rs)].length + length]
    <2>3. joined \in Unreadable
        <3>1. /\ rs[Len(rs)].start \in 0 .. Length - 1 /\ rs[Len(rs)].length \in 1 .. Length
            BY <2>2, UnreadableIs
        <3>2. rs[Len(rs)].start + (rs[Len(rs)].length + length) <= Length
            BY <3>1, <2>1, PartialImageAssumption
        <3>3. rs[Len(rs)].length + length \in 1 .. Length
            BY <3>1, <3>2, PartialImageAssumption
        <3> QED
            BY <3>1, <3>2, <3>3, UnreadableIs
    <2>4. next = [rs EXCEPT ![Len(rs)] = joined]
        <3>1. next = [rs EXCEPT ![Len(rs)].length = @ + length]
            BY <1>3, <2>1 DEF PushMerged, Last
        <3>2. [rs[Len(rs)] EXCEPT !.length = @ + length] = joined
            <4>1. PICK u \in Unreadable : rs[Len(rs)] = u
                BY <2>2
            <4>2. u = [start |-> u.start, length |-> u.length]
                BY UnreadableIs
            <4> QED
                BY <4>1, <4>2
        <3> QED
            BY <3>1, <3>2
    <2>5. /\ next \in Seq(Unreadable) /\ Len(next) = Len(rs) /\ next # <<>>
          /\ next[Len(rs)] = joined /\ \A i \in 1 .. Len(rs) - 1 : next[i] = rs[i]
        BY <2>1, <2>2, <2>3, <2>4
    <2> HIDE DEF next
    <2>6. EndOf(next) = start + length
        <3>1. EndOf(next) = joined.start + joined.length
            BY <2>5 DEF EndOf, Last
        <3> QED
            BY <3>1, <2>1, <2>2, UnreadableIs
    <2>7. ASSUME NEW o \in 0 .. Length - 1, Listed(rs, o) \/ (start <= o /\ o < start + length)
          PROVE  Listed(next, o)
        <3>1. CASE \E i \in 1 .. Len(rs) - 1 : Covers(rs[i], o)
            <4>1. PICK i \in 1 .. Len(rs) - 1 : Covers(rs[i], o)
                BY <3>1
            <4>2. i \in DOMAIN next /\ next[i] = rs[i]
                BY <2>5
            <4> QED
                BY <4>1, <4>2 DEF Listed
        <3>2. CASE Covers(rs[Len(rs)], o) \/ (start <= o /\ o < start + length)
            <4>1. Covers(joined, o)
                BY <3>2, <2>1, <2>2, UnreadableIs DEF Covers
            <4>2. Len(rs) \in DOMAIN next
                BY <2>2, <2>5
            <4> QED
                BY <4>1, <4>2, <2>5 DEF Listed
        <3> QED
            BY <2>7, <3>1, <3>2 DEF Listed
    <2>8. Summarize(next) = [count |-> Summarize(rs).count, units |-> Summarize(rs).units + length]
        <3> DEFINE m == Len(rs) - 1
        <3>1. m \in Nat /\ m + 1 = Len(rs) /\ Len(rs) - 1 = m
            BY <2>2
        <3>2. UnitsUpTo(next)[m] = UnitsUpTo(rs)[m] /\ UnitsUpTo(rs)[m] \in Nat
            <4>1. m <= Len(rs) /\ m <= Len(next) /\ \A i \in 1 .. m : next[i] = rs[i]
                BY <3>1, <2>5
            <4> HIDE DEF m
            <4> QED
                BY <3>1, <4>1, <2>5, UnitsAgree
        <3>3. /\ UnitsUpTo(next)[Len(rs)] = UnitsUpTo(next)[m] + next[Len(rs)].length
              /\ UnitsUpTo(rs)[Len(rs)] = UnitsUpTo(rs)[m] + rs[Len(rs)].length
            BY <3>1, <2>2, <2>5, UnitsUpToIs
        <3>4. UnitsUpTo(next)[Len(rs)] = UnitsUpTo(rs)[Len(rs)] + length
            <4>1. next[Len(rs)].length = rs[Len(rs)].length + length
                BY <2>5
            <4>2. rs[Len(rs)].length \in Nat
                BY <2>2, UnreadableIs
            <4> HIDE DEF m
            <4> QED
                BY <3>2, <3>3, <4>1, <4>2
        <3> QED
            BY <3>4, <2>5 DEF Summarize
    <2> QED
        BY <1>3, <2>5, <2>6, <2>7, <2>8 DEF next
<1> QED
    BY <1>2, <1>3

-----------------------------------------------------------------------------
(* Merging ranges, and taking a span out of them.                          *)

LEMMA MergedUpToIs ==
    ASSUME NEW rs \in Seq(Unreadable)
    PROVE  /\ MergedUpTo(rs)[0] = <<>>
           /\ \A n \in 1 .. Len(rs) :
                 MergedUpTo(rs)[n] =
                    PushMerged(MergedUpTo(rs)[n - 1], EndOf(MergedUpTo(rs)[n - 1]),
                               rs[n].start, rs[n].length)
<1> DEFINE N == Len(rs)
           D == Seq(Unreadable)
           Push(f, n) == PushMerged(f[n - 1], EndOf(f[n - 1]), rs[n].start, rs[n].length)
           Step(f) == [n \in 0 .. N |-> IF n = 0 THEN <<>>
                                        ELSE IF rs[n].length = 0 THEN f[n - 1]
                                        ELSE Push(f, n)]
           next == [x \in (1 .. N) \X D |->
                       PushMerged(x[2], EndOf(x[2]), rs[x[1]].start, rs[x[1]].length)]
<1>1. N \in Nat /\ \A n \in 1 .. N : rs[n] \in Unreadable
    OBVIOUS
<1>2. \A n \in 1 .. N : rs[n].length # 0
    BY <1>1, UnreadableIs
<1>3. \E f : f = Step(f)
    <2>1. next \in [(1 .. N) \X D -> D]
        <3> SUFFICES ASSUME NEW n \in 1 .. N, NEW ms \in D
                     PROVE  PushMerged(ms, EndOf(ms), rs[n].start, rs[n].length) \in D
            BY Zenon
        <3>1. /\ rs[n].start \in 0 .. Length - 1 /\ rs[n].length \in 1 .. Length
              /\ rs[n].start + rs[n].length <= Length
            BY <1>1, UnreadableIs
        <3> QED
            BY <3>1, PushMergedIs
    <2>2. PICK f \in [0 .. N -> D] : Iterated(f, <<>>, N, next)
        <3>1. N \in Nat /\ <<>> \in D
            BY <1>1
        <3> HIDE DEF next, N, D
        <3> QED
            BY <3>1, <2>1, Iterates
    <2>3. f = Step(f)
        <3>1. ASSUME NEW n \in 0 .. N PROVE f[n] = Step(f)[n]
            <4>1. CASE n = 0
                BY <4>1, <2>2 DEF Iterated
            <4>2. CASE n # 0
                <5>1. n \in 1 .. N /\ n - 1 \in 0 .. N
                    BY <4>2, <1>1
                <5>2. f[n - 1] \in D
                    <6> HIDE DEF N, D
                    <6> QED
                        BY <5>1, <2>2
                <5>3. f[n] = next[<<n, f[n - 1]>>]
                    BY <5>1, <2>2 DEF Iterated
                <5>4. next[<<n, f[n - 1]>>] = Push(f, n)
                    BY <5>1, <5>2
                <5>5. Step(f)[n] = Push(f, n)
                    BY <5>1, <4>2, <1>2
                <5> QED
                    BY <5>3, <5>4, <5>5
            <4> QED
                BY <4>1, <4>2
        <3>2. DOMAIN f = 0 .. N /\ DOMAIN Step(f) = 0 .. N
            BY <2>2
        <3>3. f = [n \in 0 .. N |-> f[n]] /\ Step(f) = [n \in 0 .. N |-> Step(f)[n]]
            BY <2>2, Zenon
        <3> HIDE DEF Step
        <3> QED
            BY <3>1, <3>3
    <2> QED
        BY <2>3
<1>4. MergedUpTo(rs) = CHOOSE f : f = Step(f)
    BY DEF MergedUpTo
<1>5. MergedUpTo(rs) = Step(MergedUpTo(rs))
    <2> HIDE DEF Step
    <2> QED
        BY <1>3, <1>4, Zenon
<1>6. \A n \in 0 .. N : MergedUpTo(rs)[n] = IF n = 0 THEN <<>>
                                            ELSE IF rs[n].length = 0 THEN MergedUpTo(rs)[n - 1]
                                            ELSE Push(MergedUpTo(rs), n)
    BY <1>5, Zenon
<1>7. \A n \in 1 .. N : n \in 0 .. N /\ n # 0
    BY <1>1
<1>8. 0 \in 0 .. N
    BY <1>1
<1> QED
    BY <1>2, <1>6, <1>7, <1>8, Zenon

LEMMA MergedLists ==
    ASSUME NEW rs \in Seq(Unreadable)
    PROVE  /\ MergedUpTo(rs)[Len(rs)] \in Seq(Unreadable)
           /\ \A o \in 0 .. Length - 1 : Listed(rs, o) => Listed(MergedUpTo(rs)[Len(rs)], o)
<1> DEFINE Good(n) == /\ MergedUpTo(rs)[n] \in Seq(Unreadable)
                      /\ \A i \in 1 .. n, o \in 0 .. Length - 1 :
                            Covers(rs[i], o) => Listed(MergedUpTo(rs)[n], o)
           failing == {n \in 0 .. Len(rs) : ~Good(n)}
<1>1. SUFFICES ASSUME failing # {} PROVE FALSE
    <2>1. Len(rs) \in 0 .. Len(rs) /\ DOMAIN rs = 1 .. Len(rs)
        OBVIOUS
    <2>2. failing = {} => Good(Len(rs))
        <3> HIDE DEF Good
        <3> QED
            BY <2>1
    <2> QED
        BY <2>1, <2>2 DEF Listed
<1>2. PICK n \in failing : \A k \in failing : n <= k
    <2>1. failing \in SUBSET Nat
        OBVIOUS
    <2> HIDE DEF failing
    <2> QED
        BY <1>1, <2>1, LeastNumber
<1>3. Good(0)
    <2>1. MergedUpTo(rs)[0] = <<>> /\ <<>> \in Seq(Unreadable) /\ 1 .. 0 = {}
        BY MergedUpToIs
    <2> QED
        BY <2>1
<1>4. n \in 1 .. Len(rs) /\ n - 1 \in 0 .. Len(rs) /\ ~Good(n)
    <2> HIDE DEF Good
    <2> QED
        BY <1>2, <1>3
<1>5. Good(n - 1)
    <2> HIDE DEF Good
    <2> QED
        BY <1>2, <1>4
<1> DEFINE before == MergedUpTo(rs)[n - 1]
           now == MergedUpTo(rs)[n]
<1>6. now = PushMerged(before, EndOf(before), rs[n].start, rs[n].length)
    BY <1>4, MergedUpToIs
<1>7. /\ rs[n].start \in 0 .. Length - 1 /\ rs[n].length \in 1 .. Length
      /\ rs[n].start + rs[n].length <= Length
    <2>1. rs[n] \in Unreadable
        BY <1>4
    <2> QED
        BY <2>1, UnreadableIs
<1>8. before \in Seq(Unreadable)
    BY <1>5
<1>9. /\ now \in Seq(Unreadable)
      /\ \A o \in 0 .. Length - 1 :
            Listed(before, o) \/ (rs[n].start <= o /\ o < rs[n].start + rs[n].length)
               => Listed(now, o)
    <2> HIDE DEF before, now
    <2> QED
        BY <1>6, <1>7, <1>8, PushMergedIs
<1>10. ASSUME NEW i \in 1 .. n, NEW o \in 0 .. Length - 1, Covers(rs[i], o)
       PROVE  Listed(now, o)
    <2>1. CASE i = n
        BY <2>1, <1>9, <1>10 DEF Covers
    <2>2. CASE i # n
        <3>1. i \in 1 .. n - 1
            BY <2>2, <1>4
        <3> QED
            BY <3>1, <1>5, <1>9, <1>10
    <2> QED
        BY <2>1, <2>2
<1> QED
    BY <1>4, <1>9, <1>10

\* merge_unreadable_ranges loses no offset.
LEMMA MergeRangesKeep ==
    ASSUME NEW rs \in Seq(Unreadable)
    PROVE  /\ MergeRanges(rs) \in Seq(Unreadable)
           /\ \A o \in 0 .. Length - 1 : Listed(rs, o) => Listed(MergeRanges(rs), o)
<1> DEFINE key == [i \in DOMAIN rs |-> rs[i].start]
           sorted == SortedBy(rs, key)
<1>1. key \in [1 .. Len(rs) -> Int]
    <2>1. DOMAIN rs = 1 .. Len(rs) /\ \A i \in 1 .. Len(rs) : rs[i] \in Unreadable
        OBVIOUS
    <2>2. \A r \in Unreadable : r.start \in Int
        BY UnreadableIs, PartialImageAssumption
    <2> QED
        BY <2>1, <2>2
<1>2. /\ sorted \in Seq(Unreadable) /\ Len(sorted) = Len(rs)
      /\ Order(key) \in Bijection(1 .. Len(rs), 1 .. Len(rs))
      /\ \A i \in 1 .. Len(rs) : sorted[i] = rs[Order(key)[i]]
    <2> HIDE DEF key
    <2> QED
        BY <1>1, SortedIsOrdered
<1> HIDE DEF key, sorted
<1>3. ASSUME NEW o \in 0 .. Length - 1, Listed(rs, o) PROVE Listed(sorted, o)
    <2>1. PICK j \in 1 .. Len(rs) : Covers(rs[j], o)
        BY <1>3 DEF Listed
    <2>2. PICK i \in 1 .. Len(rs) : Order(key)[i] = j
        BY <1>2 DEF Bijection, Surjection
    <2>3. sorted[i] = rs[j] /\ i \in DOMAIN sorted
        BY <1>2, <2>2
    <2> QED
        BY <2>1, <2>3 DEF Listed
<1>4. MergeRanges(rs) = MergedUpTo(sorted)[Len(sorted)]
    BY <1>2 DEF MergeRanges, key, sorted
<1> QED
    BY <1>2, <1>3, <1>4, MergedLists

LEMMA ListedConcat ==
    ASSUME NEW S, NEW a \in Seq(S), NEW b \in Seq(S), NEW o,
           Listed(a, o) \/ Listed(b, o)
    PROVE  Listed(a \o b, o)
<1>1. CASE Listed(a, o)
    <2>1. PICK i \in DOMAIN a : Covers(a[i], o)
        BY <1>1 DEF Listed
    <2>2. i \in DOMAIN (a \o b) /\ (a \o b)[i] = a[i]
        OBVIOUS
    <2> QED
        BY <2>1, <2>2 DEF Listed
<1>2. CASE Listed(b, o)
    <2>1. PICK i \in DOMAIN b : Covers(b[i], o)
        BY <1>2 DEF Listed
    <2>2. Len(a) + i \in DOMAIN (a \o b) /\ (a \o b)[Len(a) + i] = b[i]
        OBVIOUS
    <2> QED
        BY <2>1, <2>2 DEF Listed
<1> QED
    BY <1>1, <1>2

LEMMA SegmentIs ==
    ASSUME NEW start \in 0 .. Length, NEW end \in 0 .. Length
    PROVE  /\ Segment(start, end) \in Seq(Unreadable)
           /\ \A o \in start .. end - 1 : Listed(Segment(start, end), o)
<1>1. CASE start < end
    <2> DEFINE r == [start |-> start, length |-> end - start]
    <2>1. r \in Unreadable
        <3>1. start \in 0 .. Length - 1 /\ end - start \in 1 .. Length /\ start + (end - start) <= Length
            BY <1>1, PartialImageAssumption
        <3> QED
            BY <3>1, UnreadableIs
    <2>2. Segment(start, end) = <<r>>
        BY <1>1 DEF Segment
    <2>3. \A o \in start .. end - 1 : Covers(r, o)
        BY PartialImageAssumption DEF Covers
    <2>4. <<r>> \in Seq(Unreadable) /\ 1 \in DOMAIN <<r>> /\ <<r>>[1] = r
        BY <2>1
    <2> QED
        BY <2>2, <2>3, <2>4 DEF Listed
<1>2. CASE ~(start < end)
    <2>1. Segment(start, end) = <<>> /\ start .. end - 1 = {}
        BY <1>2, PartialImageAssumption DEF Segment
    <2> QED
        BY <2>1
<1> QED
    BY <1>1, <1>2

\* subtract_resolved_span loses no offset but those of the span.
LEMMA WithoutKeeps ==
    ASSUME NEW rs \in Seq(Unreadable), NEW i \in DOMAIN rs,
           NEW start \in 0 .. Length - 1, NEW n \in 1 .. rs[i].length,
           \A offset \in start .. start + n - 1 : Covers(rs[i], offset)
    PROVE  /\ Without(rs, i, start, n) \in Seq(Unreadable)
           /\ \A o \in 0 .. Length - 1 :
                 Listed(rs, o) /\ o \notin start .. start + n - 1
                    => Listed(Without(rs, i, start, n), o)
<1> DEFINE from == rs[i].start
           to == rs[i].start + rs[i].length
           a == SubSeq(rs, 1, i - 1)
           b == Segment(from, start)
           c == Segment(start + n, to)
           d == SubSeq(rs, i + 1, Len(rs))
<1>1. rs[i] \in Unreadable /\ i \in 1 .. Len(rs)
    OBVIOUS
<1>2. /\ from \in 0 .. Length - 1 /\ rs[i].length \in 1 .. Length /\ to \in 1 .. Length
    <2>1. /\ rs[i].start \in 0 .. Length - 1 /\ rs[i].length \in 1 .. Length
          /\ rs[i].start + rs[i].length <= Length
        BY <1>1, UnreadableIs
    <2> QED
        BY <2>1, PartialImageAssumption
<1>3. from <= start /\ start + n <= to
    <2>1. start \in start .. start + n - 1 /\ start + n - 1 \in start .. start + n - 1
        BY <1>2
    <2>2. Covers(rs[i], start) /\ Covers(rs[i], start + n - 1)
        BY <2>1
    <2> QED
        BY <2>2, <1>2 DEF Covers
<1>4. from \in 0 .. Length /\ start \in 0 .. Length /\ start + n \in 0 .. Length /\ to \in 0 .. Length
    BY <1>2, <1>3, PartialImageAssumption
<1>5. a \in Seq(Unreadable) /\ d \in Seq(Unreadable)
    BY <1>1
<1>6. b \in Seq(Unreadable) /\ c \in Seq(Unreadable)
    <2> HIDE DEF from, to
    <2> QED
        BY <1>4, SegmentIs
<1>7. Without(rs, i, start, n) = a \o b \o c \o d
    BY DEF Without
<1>8. a \o b \in Seq(Unreadable) /\ a \o b \o c \in Seq(Unreadable)
      /\ a \o b \o c \o d \in Seq(Unreadable)
    <2> HIDE DEF a, b, c, d
    <2> QED
        BY <1>5, <1>6
<1>9. ASSUME NEW o \in 0 .. Length - 1, Listed(rs, o), o \notin start .. start + n - 1
      PROVE  Listed(a, o) \/ Listed(b, o) \/ Listed(c, o) \/ Listed(d, o)
    <2>1. PICK k \in 1 .. Len(rs) : Covers(rs[k], o)
        BY <1>9 DEF Listed
    <2>2. CASE k < i
        <3>1. k \in DOMAIN a /\ a[k] = rs[k]
            BY <2>2, <1>1
        <3> QED
            BY <3>1, <2>1 DEF Listed
    <2>3. CASE k > i
        <3>1. k - i \in DOMAIN d /\ d[k - i] = rs[k]
            BY <2>3, <1>1
        <3> QED
            BY <3>1, <2>1 DEF Listed
    <2>4. CASE k = i
        <3>1. from <= o /\ o < to
            BY <2>1, <2>4 DEF Covers
        <3>2. o \in from .. start - 1 \/ o \in start + n .. to - 1
            BY <3>1, <1>2, <1>3, <1>9
        <3> HIDE DEF from, to
        <3> QED
            BY <3>2, <1>4, SegmentIs
    <2> QED
        BY <1>1, <2>2, <2>3, <2>4
<1>10. ASSUME NEW o, Listed(a, o) \/ Listed(b, o) \/ Listed(c, o) \/ Listed(d, o)
       PROVE  Listed(a \o b \o c \o d, o)
    <2> HIDE DEF a, b, c, d
    <2>1. Listed(a, o) \/ Listed(b, o) => Listed(a \o b, o)
        BY <1>5, <1>6, ListedConcat
    <2>2. Listed(a \o b, o) \/ Listed(c, o) => Listed(a \o b \o c, o)
        BY <1>6, <1>8, ListedConcat
    <2>3. Listed(a \o b \o c, o) \/ Listed(d, o) => Listed(a \o b \o c \o d, o)
        BY <1>5, <1>8, ListedConcat
    <2> QED
        BY <1>10, <2>1, <2>2, <2>3
<1> QED
    BY <1>7, <1>8, <1>9, <1>10

-----------------------------------------------------------------------------
(* Types, and where the stream ends                                        *)

LEMMA SkipFits ==
    ASSUME copied \in 0 .. Length, copied < Length
    PROVE  /\ Room \in 1 .. Length /\ copied + Room <= Length
           /\ SkipLength \in 1 .. Room /\ SkipLength < Capacity
BY PartialImageAssumption DEF Room, SkipLength, Least

LEMMA StreamIs ==
    ASSUME TypeOK
    PROVE  /\ Held \in Seq(Units) /\ Stream \in Seq(Units) /\ buffer \in Seq(Units)
           /\ Len(Stream) = Len(Held) + Len(buffer)
           /\ buffer = <<>> => Stream = Held
<1>1. Held \in Seq(Units) /\ buffer \in Seq(Units)
    BY DEF TypeOK, Held
<1> HIDE DEF Held
<1> QED
    BY <1>1 DEF Stream

\* What is handed to the BufWriter: data in their places, or zeros.
LEMMA PendingIs ==
    ASSUME TypeOK, StreamInv, place = "write"
    PROVE  /\ copied < Length /\ source \in Sources
           /\ pending \in Seq(Units) /\ pending # <<>> /\ Len(pending) \in 1 .. Length
           /\ copied + Len(pending) <= Length
           /\ pending[1] = Zero => pending = Zeros(SkipLength) /\ Len(pending) = SkipLength
           /\ pending[1] # Zero => \A k \in 1 .. Len(pending) :
                                      /\ pending[k] = <<source, copied + k - 1>>
                                      /\ pending[k] # Zero
<1>1. copied \in 0 .. Length /\ copied < Length /\ source \in Sources
    BY DEF TypeOK, StreamInv
<1>2. /\ Room \in 1 .. Length /\ copied + Room <= Length
      /\ SkipLength \in 1 .. Room
    BY <1>1, SkipFits
<1>3. pending \in Seq(Units)
    BY DEF TypeOK
<1>4. pending = Zeros(SkipLength) \/ \E n \in 1 .. Room : pending = Data(source, copied, n)
    BY DEF StreamInv
<1> HIDE DEF Room, SkipLength
<1>5. CASE pending = Zeros(SkipLength)
    <2>1. Len(pending) = SkipLength /\ pending[1] = Zero
        BY <1>2, <1>5 DEF Zeros
    <2> QED
        BY <1>1, <1>2, <1>3, <1>5, <2>1, PartialImageAssumption
<1>6. CASE \E n \in 1 .. Room : pending = Data(source, copied, n)
    <2>1. PICK n \in 1 .. Room : pending = Data(source, copied, n)
        BY <1>6
    <2>2. Len(pending) = n /\ \A k \in 1 .. n : pending[k] = <<source, copied + k - 1>>
        BY <1>2, <2>1 DEF Data
    <2>3. \A k \in 1 .. n : <<source, copied + k - 1>> # Zero
        <3>1. \A k \in 1 .. n : copied + k - 1 \in 0 .. Length - 1
            BY <1>1, <1>2, PartialImageAssumption
        <3> QED
            BY <3>1, <1>1, PartialImageAssumption
    <2>4. n \in 1 .. Length /\ copied + n <= Length /\ 1 \in 1 .. n
        BY <1>1, <1>2, PartialImageAssumption
    <2>5. pending[1] # Zero /\ \A k \in 1 .. n : pending[k] # Zero
        BY <2>2, <2>3, <2>4
    <2>6. pending # <<>>
        BY <2>2, <2>4
    <2> QED
        BY <1>1, <1>3, <2>2, <2>4, <2>5, <2>6
<1> QED
    BY <1>4, <1>5, <1>6

LEMMA CheckpointStepsType ==
    ASSUME TypeOK, StreamInv,
           TruncateCheckpoint \/ FillCheckpoint \/ CheckpointFails \/ DiscardCheckpoint
    PROVE  TypeOK' /\ StreamInv'
<1>1. Held' = Held /\ Stream' = Stream
    BY DEF Held, Stream, TruncateCheckpoint, FillCheckpoint, CheckpointFails,
           DiscardCheckpoint, copying, disk
<1>2. CASE TruncateCheckpoint
    <2>1. TypeOK'
        BY <1>2 DEF TruncateCheckpoint, TypeOK, Saved, Places, copying
    <2>2. StreamInv'
        BY <1>1, <1>2 DEF TruncateCheckpoint, StreamInv, TypeOK, Places, copying,
            Persisting, Opening, Copying, Skipping, Refining, Room, SkipLength
    <2> QED
        BY <2>1, <2>2
<1>3. CASE FillCheckpoint
    <2>1. checkpoint' \in Checkpoints
        <3>1. source \in Sources
            BY <1>3 DEF FillCheckpoint, StreamInv
        <3> QED
            BY <1>3, <3>1 DEF FillCheckpoint, TypeOK, Checkpoints
    <2>2. TypeOK'
        BY <1>3, <2>1 DEF FillCheckpoint, TypeOK, Saved, Places, copying, StreamInv
    <2>3. StreamInv'
        BY <1>1, <1>3 DEF FillCheckpoint, StreamInv, TypeOK, Places, copying,
            Persisting, Opening, Copying, Skipping, Refining, Room, SkipLength
    <2> QED
        BY <2>2, <2>3
<1>4. CASE CheckpointFails
    <2>1. TypeOK'
        BY <1>4 DEF CheckpointFails, TypeOK, Saved, Places, copying, disk
    <2>2. StreamInv'
        BY <1>1, <1>4, PartialImageAssumption DEF CheckpointFails, StreamInv, TypeOK, Places,
            copying, disk, Persisting, Opening, Copying, Skipping, Refining, Room, SkipLength
    <2> QED
        BY <2>1, <2>2
<1>5. CASE DiscardCheckpoint
    <2>1. TypeOK'
        BY <1>5 DEF DiscardCheckpoint, Persist, TypeOK, Saved, Places, copying
    <2>2. Stream = <<>> /\ Held = <<>>
        BY <1>5 DEF DiscardCheckpoint, StreamInv, Stream, Held
    <2>3. StreamInv'
        BY <1>1, <1>5, <2>2 DEF DiscardCheckpoint, Persist, StreamInv, TypeOK, Places, copying,
            Persisting, Opening, Copying, Skipping, Refining, Room, SkipLength
    <2> QED
        BY <2>1, <2>3
<1> QED
    BY <1>2, <1>3, <1>4, <1>5

LEMMA StartStepsType ==
    ASSUME TypeOK, StreamInv,
           NEW s \in Sources, NEW p \in {"standard", "cautious"}, Acquire(s, p)
    PROVE  TypeOK' /\ StreamInv'
<1>1. /\ place = "idle" /\ starts' \in 0 .. MaxStarts /\ source' = s /\ profile' = p
      /\ UNCHANGED <<checkpoint, image, buffer, pending, work, told>>
      /\ after' \in Places
    BY PartialImageAssumption DEF Acquire, Resume, Discard, Fresh, Start, Persist, TypeOK, disk, Places
<1>2. buffer = <<>> /\ copied = 0 /\ lastEnd = NoEnd /\ passes = 0 /\ ranges = <<>>
    BY <1>1 DEF StreamInv
<1>3. CASE Resume(s, p)
    <2>1. /\ partial' = partial /\ partial # Absent /\ Saved /\ copied' = Len(partial)
          /\ ranges' = checkpoint.ranges /\ tally' = checkpoint.tally
          /\ passes' = checkpoint.passes /\ lastEnd' = EndOf(ranges')
          /\ place' = "truncate" /\ after' = "open"
        BY <1>3 DEF Resume, Matches, Resumable, Persist, disk
    <2>2. ranges' \in Seq(Unreadable) /\ tally' \in Tallies /\ passes' \in 0 .. Passes
        BY <2>1 DEF TypeOK, Checkpoints
    <2>3. lastEnd' \in 1 .. NoEnd
        BY <2>1, <2>2, EndOfType
    <2>4. copied' \in 0 .. Length /\ Held = partial /\ Held' = Held
        BY <2>1 DEF TypeOK, Held
    <2>5. Stream' = Held /\ Len(Stream') <= Length
        BY <1>1, <1>2, <2>1, <2>4, StreamIs DEF Stream, TypeOK
    <2>6. TypeOK'
        BY <1>1, <2>1, <2>2, <2>3, <2>4 DEF TypeOK, Saved, Places
    <2>7. StreamInv'
        BY <1>1, <1>2, <2>1, <2>3, <2>4, <2>5 DEF StreamInv, Persisting, Opening, Copying,
            Skipping, Refining, EndOf, Places
    <2> QED
        BY <2>6, <2>7
<1>4. CASE Discard(s, p)
    <2>1. /\ partial' = Absent /\ place' = "discard"
          /\ UNCHANGED <<after, copied, ranges, lastEnd, tally, passes>>
        BY <1>4 DEF Discard
    <2>2. Held' = <<>> /\ Stream' = <<>>
        BY <1>1, <1>2, <2>1 DEF Held, Stream
    <2>3. TypeOK'
        BY <1>1, <1>2, <2>1 DEF TypeOK, Saved, Places
    <2>4. StreamInv'
        BY <1>1, <1>2, <2>1, <2>2, PartialImageAssumption DEF StreamInv, Persisting, Opening,
            Copying, Skipping, Refining
    <2> QED
        BY <2>3, <2>4
<1>5. CASE Fresh(s, p)
    <2>1. /\ partial = Absent /\ partial' = Absent /\ place' = "truncate" /\ after' = "open"
          /\ UNCHANGED <<copied, ranges, lastEnd, tally, passes>>
        BY <1>5 DEF Fresh, Persist, disk
    <2>2. Held' = <<>> /\ Stream' = <<>>
        BY <1>1, <1>2, <2>1 DEF Held, Stream
    <2>3. TypeOK'
        BY <1>1, <1>2, <2>1 DEF TypeOK, Saved, Places
    <2>4. StreamInv'
        BY <1>1, <1>2, <2>1, <2>2, PartialImageAssumption DEF StreamInv, Persisting, Opening,
            Copying, Skipping, Refining
    <2> QED
        BY <2>3, <2>4
<1> QED
    BY <1>3, <1>4, <1>5 DEF Acquire

\* The steps of the copy loop that leave the file and the buffer alone.
LEMMA ReadStepsType ==
    ASSUME TypeOK, StreamInv, ReadChunk \/ ReadFails \/ Skip \/ Progress
    PROVE  TypeOK' /\ StreamInv'
<1>1. Held' = Held /\ Stream' = Stream
    BY DEF Held, Stream, ReadChunk, ReadFails, Skip, Progress, copying, disk
<1>2. copied \in 0 .. Length /\ (copied < Length => /\ Room \in 1 .. Length
                                                    /\ copied + Room <= Length
                                                    /\ SkipLength \in 1 .. Room)
    BY SkipFits DEF TypeOK
<1>3. (copied' = copied) => Room' = Room /\ SkipLength' = SkipLength
    BY DEF Room, SkipLength
<1> HIDE DEF Room, SkipLength
<1>4. CASE ReadChunk
    <2>1. PICK n \in 1 .. Room : pending' = Data(source, copied, n)
        BY <1>4 DEF ReadChunk
    <2>2. source \in Sources
        BY <1>4 DEF ReadChunk, StreamInv
    <2>3. pending' \in Seq(Units)
        <3>1. \A k \in 1 .. n : <<source, copied + k - 1>> \in Units
            <4>1. \A k \in 1 .. n : copied + k - 1 \in 0 .. Length - 1
                <5>1. copied \in Nat /\ Room \in Nat /\ copied + Room <= Length
                    BY <1>2, <1>4, PartialImageAssumption DEF ReadChunk
                <5> QED
                    BY <5>1, PartialImageAssumption
            <4> QED
                BY <2>2, <4>1 DEF Units
        <3>2. n \in Nat
            BY <1>2, <1>4 DEF ReadChunk
        <3> QED
            BY <2>1, <3>1, <3>2 DEF Data
    <2>4. /\ place = "copy" /\ place' = "write" /\ copied < Length
          /\ UNCHANGED <<partial, checkpoint, image, after, source, profile, copied, buffer,
                         ranges, lastEnd, tally, passes, work, starts, told>>
        BY <1>4 DEF ReadChunk, disk
    <2>5. TypeOK'
        BY <2>3, <2>4 DEF TypeOK, Saved, Places
    <2>6. \E m \in 1 .. Room' : pending' = Data(source', copied', m)
        BY <1>3, <2>1, <2>4
    <2>7. StreamInv'
        BY <1>1, <2>4, <2>6 DEF StreamInv, Persisting, Opening, Copying, Skipping, Refining
    <2> QED
        BY <2>5, <2>7
<1>5. CASE ReadFails
    <2>1. /\ place = "copy" /\ copied < Length
          /\ \/ place' = "error" /\ pending' = pending
             \/ place' = "write" /\ pending' = Zeros(SkipLength)
          /\ UNCHANGED <<partial, checkpoint, image, after, source, profile, copied, buffer,
                         ranges, lastEnd, tally, passes, work, starts, told>>
        BY <1>5 DEF ReadFails, disk
    <2>2. pending' \in Seq(Units)
        <3>1. Zero \in Units /\ SkipLength \in Nat
            BY <1>2, <2>1 DEF Units
        <3> QED
            BY <2>1, <3>1 DEF Zeros, TypeOK
    <2>3. TypeOK'
        BY <2>1, <2>2 DEF TypeOK, Saved, Places
    <2>4. place' = "write" => pending' = Zeros(SkipLength')
        BY <1>3, <2>1
    <2>5. StreamInv'
        BY <1>1, <2>1, <2>4 DEF StreamInv, Persisting, Opening, Copying, Skipping, Refining
    <2> QED
        BY <2>3, <2>5
<1>6. CASE Skip
    <2>1. /\ place = "skip" /\ place' = "progress" /\ copied' = copied + SkipLength
          /\ UNCHANGED <<partial, checkpoint, image, after, source, profile, pending, buffer,
                         ranges, lastEnd, tally, passes, work, starts, told>>
        BY <1>6 DEF Skip, disk
    <2>2. copied < Length /\ Len(Stream) = copied + SkipLength
        BY <2>1 DEF StreamInv, Skipping
    <2>3. copied' \in 0 .. Length
        BY <1>2, <2>1, <2>2, PartialImageAssumption
    <2>4. TypeOK'
        BY <2>1, <2>3 DEF TypeOK, Saved, Places
    <2>5. StreamInv'
        BY <1>1, <2>1, <2>2 DEF StreamInv, Persisting, Opening, Copying, Skipping, Refining
    <2> QED
        BY <2>4, <2>5
<1>7. CASE Progress
    <2>1. /\ place = "progress" /\ place' \in {"copy", "error"}
          /\ UNCHANGED <<partial, checkpoint, image, after, source, profile, copied, pending,
                         buffer, ranges, lastEnd, tally, passes, work, starts, told>>
        BY <1>7 DEF Progress, disk, copying
    <2>2. TypeOK'
        BY <2>1 DEF TypeOK, Saved, Places
    <2>3. StreamInv'
        BY <1>1, <2>1 DEF StreamInv, Persisting, Opening, Copying, Skipping, Refining
    <2> QED
        BY <2>2, <2>3
<1> QED
    BY <1>4, <1>5, <1>6, <1>7

\* Whatever the buffer does, the stream is extended by what was handed to it.
LEMMA StoreIs ==
    ASSUME TypeOK, StreamInv, place = "write", Fits \/ buffer = <<>>, Store
    PROVE  /\ partial' \in Seq(Units) /\ partial' # Absent
           /\ buffer' \in Seq(Units) /\ Len(buffer') <= Capacity
           /\ Stream' = Stream \o pending /\ Len(Stream') = copied + Len(pending)
           /\ Len(partial') <= Length
           /\ pending[1] = Zero => partial' = partial
<1>1. /\ partial \in Seq(Units) /\ partial # Absent /\ Held = partial
      /\ copied = Len(Stream) /\ copied \in Nat
    BY DEF TypeOK, StreamInv, Copying, Held
<1>2. /\ pending \in Seq(Units) /\ pending # <<>> /\ copied + Len(pending) <= Length
      /\ pending[1] = Zero => Len(pending) < Capacity
    <2>1. SkipLength < Capacity
        BY PendingIs, SkipFits DEF TypeOK
    <2> QED
        BY <2>1, PendingIs
<1>3. buffer \in Seq(Units) /\ Len(buffer) <= Capacity
    BY DEF TypeOK
<1>4. partial' \in Seq(Units) => partial' # Absent /\ Held' = partial'
    BY PartialImageAssumption DEF Held
<1>5. CASE Len(pending) >= Capacity
    <2>1. partial' = partial \o pending /\ buffer' = buffer
        BY <1>5 DEF Store
    <2>2. buffer = <<>>
        <3>1. Len(buffer) = 0 \/ buffer = <<>>
            BY <1>2, <1>3, <1>5, PartialImageAssumption DEF Fits
        <3> QED
            BY <1>3, <3>1
    <2>3. partial' \in Seq(Units) /\ Stream = partial /\ Len(partial') = Len(partial) + Len(pending)
        BY <1>1, <1>2, <2>1, <2>2 DEF Stream
    <2>4. Stream' = partial \o pending
        BY <1>4, <2>1, <2>2, <2>3 DEF Stream
    <2>5. Len(Stream') = copied + Len(pending) /\ Len(partial') <= Length
        BY <1>1, <1>2, <2>1, <2>3, <2>4
    <2>6. pending[1] # Zero
        BY <1>2, <1>5, PartialImageAssumption
    <2> QED
        BY <1>3, <1>4, <2>1, <2>3, <2>4, <2>5, <2>6
<1>6. CASE ~(Len(pending) >= Capacity)
    <2>1. partial' = partial /\ buffer' = buffer \o pending
        BY <1>6 DEF Store
    <2>2. buffer' \in Seq(Units) /\ Len(buffer') = Len(buffer) + Len(pending)
        BY <1>2, <1>3, <2>1
    <2>3. Len(buffer') <= Capacity
        BY <1>2, <1>3, <1>6, <2>2, PartialImageAssumption DEF Fits
    <2>4. Stream' = partial \o (buffer \o pending) /\ Stream = partial \o buffer
        BY <1>1, <1>4, <2>1 DEF Stream
    <2>5. /\ partial \o (buffer \o pending) = (partial \o buffer) \o pending
          /\ Len(partial \o (buffer \o pending)) = Len(partial \o buffer) + Len(pending)
        BY <1>1, <1>2, <1>3
    <2>6. Len(partial') <= Length
        BY <2>1, <1>1 DEF TypeOK
    <2> QED
        BY <1>1, <1>4, <2>1, <2>2, <2>3, <2>4, <2>5, <2>6
<1> QED
    BY <1>5, <1>6

LEMMA FlushIs ==
    ASSUME TypeOK, StreamInv, partial # Absent, Flush
    PROVE  /\ partial' \in Seq(Units) /\ partial' # Absent /\ partial' = Stream /\ buffer' = <<>>
           /\ Stream' = Stream /\ Len(partial') <= Length
<1>1. partial' = Stream /\ buffer' = <<>>
    BY DEF Flush, Stream, Held
<1>2. Stream \in Seq(Units) /\ Len(Stream) <= Length
    BY StreamIs DEF StreamInv
<1>3. partial' # Absent /\ Held' = partial'
    BY <1>1, <1>2, PartialImageAssumption DEF Held
<1>4. Stream' = Stream
    BY <1>1, <1>2, <1>3 DEF Stream
<1> QED
    BY <1>1, <1>2, <1>3, <1>4

LEMMA WriteStepsType ==
    ASSUME TypeOK, StreamInv, OpenWriter \/ Spill \/ WriteData \/ WriteSkip \/ EndCopy
    PROVE  TypeOK' /\ StreamInv'
<1>1. copied \in 0 .. Length /\ (copied < Length => /\ Room \in 1 .. Length
                                                    /\ copied + Room <= Length
                                                    /\ SkipLength \in 1 .. Room)
    BY SkipFits DEF TypeOK
<1>2. (copied' = copied) => Room' = Room /\ SkipLength' = SkipLength
    BY DEF Room, SkipLength
<1> HIDE DEF Room, SkipLength
<1>3. CASE OpenWriter
    <2>1. /\ place = "open" /\ place' \in {"copy", "progress"}
          /\ UNCHANGED <<checkpoint, image, after, source, profile, copied, pending, buffer,
                         ranges, lastEnd, tally, passes, work, starts, told>>
          /\ partial' = IF copied > 0 THEN partial ELSE <<>>
        BY <1>3 DEF OpenWriter, Opened, copying
    <2>2. buffer = <<>> /\ copied = Len(Held) /\ Stream = Held /\ Held \in Seq(Units)
        BY <2>1, StreamIs DEF StreamInv, Opening
    <2>3. partial' = Held /\ partial' \in Seq(Units)
        <3>1. copied > 0 => partial # Absent
            BY <2>2 DEF Held
        <3> QED
            BY <1>1, <2>1, <2>2, <3>1 DEF Held
    <2>4. partial' # Absent /\ Held' = Held
        BY <2>3, PartialImageAssumption DEF Held
    <2>5. Stream' = Stream
        BY <2>1, <2>4 DEF Stream
    <2>6. TypeOK'
        BY <1>1, <2>1, <2>2, <2>3 DEF TypeOK, Saved, Places
    <2>7. StreamInv'
        BY <2>1, <2>2, <2>4, <2>5 DEF StreamInv, Persisting, Opening, Copying, Skipping, Refining
    <2> QED
        BY <2>6, <2>7
<1>4. CASE Spill
    <2>1. /\ place = "write" /\ place' = "write" /\ Flush
          /\ UNCHANGED <<checkpoint, image, after, source, profile, copied, pending,
                         ranges, lastEnd, tally, passes, work, starts, told>>
        BY <1>4 DEF Spill, Flush
    <2>2. partial # Absent
        BY <2>1 DEF StreamInv, Copying
    <2>3. /\ partial' \in Seq(Units) /\ partial' # Absent /\ buffer' = <<>>
          /\ Stream' = Stream /\ Len(partial') <= Length
        BY <2>1, <2>2, FlushIs
    <2>4. TypeOK'
        BY <2>1, <2>3, PartialImageAssumption DEF TypeOK, Saved, Places
    <2>5. (\E n \in 1 .. Room : pending = Data(source, copied, n))
              => (\E n \in 1 .. Room' : pending' = Data(source', copied', n))
        BY <1>2, <2>1
    <2>6. StreamInv'
        BY <1>2, <2>1, <2>3, <2>5 DEF StreamInv, Persisting, Opening, Copying, Skipping, Refining
    <2> QED
        BY <2>4, <2>6
<1>5. CASE WriteData
    <2>1. /\ place = "write" /\ place' = "progress" /\ Store /\ (Fits \/ buffer = <<>>)
          /\ copied' = copied + Len(pending) /\ pending' = <<>> /\ lastEnd' = NoEnd
          /\ UNCHANGED <<checkpoint, image, after, source, profile, ranges, tally, passes,
                         work, starts, told>>
        BY <1>5 DEF WriteData
    <2>2. /\ partial' \in Seq(Units) /\ partial' # Absent
          /\ buffer' \in Seq(Units) /\ Len(buffer') <= Capacity
          /\ Len(Stream') = copied + Len(pending) /\ Len(partial') <= Length
        BY <2>1, StoreIs
    <2>3. copied' \in 0 .. Length /\ copied' = Len(Stream')
        BY <1>1, <2>1, <2>2, PendingIs, PartialImageAssumption
    <2>4. TypeOK'
        BY <2>1, <2>2, <2>3, PartialImageAssumption DEF TypeOK, Saved, Places, NoEnd
    <2>5. StreamInv'
        BY <2>1, <2>2, <2>3 DEF StreamInv, Persisting, Opening, Copying, Skipping, Refining
    <2> QED
        BY <2>4, <2>5
<1>6. CASE WriteSkip
    <2>1. /\ place = "write" /\ place' = "truncate" /\ after' = "skip"
          /\ Store /\ (Fits \/ buffer = <<>>) /\ pending[1] = Zero /\ pending' = <<>>
          /\ ranges' = PushMerged(ranges, lastEnd, copied, SkipLength)
          /\ tally' = [count |-> CountRange, units |-> tally.units + SkipLength]
          /\ lastEnd' = copied + SkipLength
          /\ UNCHANGED <<checkpoint, image, source, profile, copied, passes, work, starts, told>>
        BY <1>6 DEF WriteSkip, Persist
    <2>2. /\ partial' \in Seq(Units) /\ partial' # Absent
          /\ buffer' \in Seq(Units) /\ Len(buffer') <= Capacity
          /\ Len(Stream') = copied + Len(pending) /\ Len(partial') <= Length
        BY <2>1, StoreIs
    <2>3. Len(pending) = SkipLength /\ copied < Length
        BY <2>1, PendingIs
    <2>4. /\ SkipLength \in 1 .. Length /\ copied \in 0 .. Length - 1
          /\ copied + SkipLength <= Length
        BY <1>1, <2>3, PartialImageAssumption
    <2>5. ranges \in Seq(Unreadable) /\ lastEnd \in {NoEnd, EndOf(ranges)}
        BY <2>1 DEF TypeOK, StreamInv, Copying
    <2>6. ranges' \in Seq(Unreadable) /\ EndOf(ranges') = lastEnd'
        BY <2>1, <2>4, <2>5, PushMergedIs
    <2>7. lastEnd' \in 1 .. NoEnd /\ tally' \in Tallies
        BY <2>1, <2>4, PartialImageAssumption DEF NoEnd, TypeOK, Tallies, CountRange
    <2>8. TypeOK'
        BY <2>1, <2>2, <2>6, <2>7, PartialImageAssumption DEF TypeOK, Saved, Places
    <2>9. StreamInv'
        BY <1>2, <2>1, <2>2, <2>3, <2>4, <2>6 DEF StreamInv, Persisting, Opening, Copying,
            Skipping, Refining
    <2> QED
        BY <2>8, <2>9
<1>7. CASE EndCopy
    <2>1. /\ place = "copy" /\ copied = Length /\ place' = "pass" /\ Flush
          /\ UNCHANGED <<checkpoint, image, after, source, profile, copied, pending, ranges,
                         lastEnd, tally, passes, work, starts, told>>
        BY <1>7 DEF EndCopy
    <2>2. partial # Absent /\ Len(Stream) = Length
        BY <2>1 DEF StreamInv, Copying
    <2>3. /\ partial' \in Seq(Units) /\ partial' # Absent /\ buffer' = <<>>
          /\ partial' = Stream /\ Stream' = Stream /\ Len(partial') <= Length
        BY <2>1, <2>2, FlushIs
    <2>4. TypeOK'
        BY <2>1, <2>3, PartialImageAssumption DEF TypeOK, Saved, Places
    <2>5. StreamInv'
        BY <2>1, <2>2, <2>3 DEF StreamInv, Persisting, Opening, Copying, Skipping, Refining
    <2> QED
        BY <2>4, <2>5
<1> QED
    BY <1>3, <1>4, <1>5, <1>6, <1>7

\* A unit of the stream is the one that was there, or what the source has at
\* its offset: true of every step but the one that adds zeros.
GrowsInPlace ==
    \A k \in 1 .. Len(Stream') :
       Stream'[k] = <<source, k - 1>> \/ (k <= Len(Stream) /\ Stream'[k] = Stream[k])

LEMMA PatchIs ==
    ASSUME TypeOK, StreamInv, PatchChunk
    PROVE  /\ source \in Sources /\ partial # Absent /\ buffer = <<>> /\ Stream = partial
           /\ partial' \in Seq(Units) /\ partial' # Absent
           /\ Len(partial) = Length /\ Len(partial') = Length
           /\ Stream' = partial' /\ GrowsInPlace
           /\ work' \in Seq(Unreadable)
           /\ \A k \in 1 .. Length :
                 partial'[k] = Zero =>
                    partial[k] = Zero /\ (Listed(work, k - 1) => Listed(work', k - 1))
<1>1. /\ source \in Sources /\ partial # Absent /\ buffer = <<>> /\ buffer' = <<>>
      /\ partial \in Seq(Units) /\ Len(partial) = Length /\ work \in Seq(Unreadable)
    BY DEF PatchChunk, StreamInv, Refining, TypeOK
<1>2. PICK i \in DOMAIN work : \E start \in 0 .. Length - 1, n \in 1 .. work[i].length :
          /\ \A offset \in start .. start + n - 1 : Covers(work[i], offset)
          /\ partial' = [k \in DOMAIN partial |->
                            IF k - 1 \in start .. start + n - 1 THEN <<source, k - 1>>
                            ELSE partial[k]]
          /\ work' = Without(work, i, start, n)
    BY DEF PatchChunk
<1>3. PICK start \in 0 .. Length - 1, n \in 1 .. work[i].length :
          /\ \A offset \in start .. start + n - 1 : Covers(work[i], offset)
          /\ partial' = [k \in DOMAIN partial |->
                            IF k - 1 \in start .. start + n - 1 THEN <<source, k - 1>>
                            ELSE partial[k]]
          /\ work' = Without(work, i, start, n)
    BY <1>2
<1>4. /\ work' \in Seq(Unreadable)
      /\ \A o \in 0 .. Length - 1 :
            Listed(work, o) /\ o \notin start .. start + n - 1 => Listed(work', o)
    BY <1>1, <1>3, WithoutKeeps
<1>5. /\ DOMAIN partial = 1 .. Length /\ Length \in Nat
      /\ \A k \in 1 .. Length : partial[k] \in Units /\ k - 1 \in 0 .. Length - 1
    BY <1>1, PartialImageAssumption
<1>6. \A k \in 1 .. Length : <<source, k - 1>> \in Units /\ <<source, k - 1>> # Zero
    BY <1>1, <1>5, PartialImageAssumption DEF Units
<1>7. partial' = [k \in 1 .. Length |-> IF k - 1 \in start .. start + n - 1 THEN <<source, k - 1>>
                                        ELSE partial[k]]
    BY <1>3, <1>5
<1>8. partial' \in [1 .. Length -> Units]
    BY <1>5, <1>6, <1>7
<1>9. partial' \in Seq(Units) /\ Len(partial') = Length
    BY <1>5, <1>8
<1>10. partial' # Absent /\ Stream = partial /\ Stream' = partial'
    BY <1>1, <1>9, PartialImageAssumption DEF Stream, Held
<1>11. \A k \in 1 .. Length : partial'[k] = <<source, k - 1>> \/ partial'[k] = partial[k]
    BY <1>7
<1>12. ASSUME NEW k \in 1 .. Length, partial'[k] = Zero
       PROVE  partial[k] = Zero /\ (Listed(work, k - 1) => Listed(work', k - 1))
    <2>1. k - 1 \notin start .. start + n - 1 /\ partial[k] = Zero
        BY <1>6, <1>7, <1>12
    <2> QED
        BY <1>4, <1>5, <2>1
<1>13. GrowsInPlace
    BY <1>1, <1>9, <1>10, <1>11 DEF GrowsInPlace
<1> QED
    BY <1>1, <1>4, <1>9, <1>10, <1>12, <1>13

LEMMA PutIs ==
    ASSUME TypeOK, partial # Absent, NEW data \in Seq(Units), NEW n \in 0 .. Len(data),
           PutPartly(data, n)
    PROVE  /\ partial' = partial \o SubSeq(data, 1, n)
           /\ partial' \in Seq(Units) /\ partial' # Absent /\ Len(partial') = Len(partial) + n
           /\ Held = partial /\ Held' = partial'
           /\ \A k \in 1 .. Len(partial) : partial'[k] = partial[k]
           /\ \A k \in 1 .. n : partial'[Len(partial) + k] = data[k]
<1>1. partial \in Seq(Units)
    BY DEF TypeOK
<1>2. SubSeq(data, 1, n) \in Seq(Units) /\ Len(SubSeq(data, 1, n)) = n
      /\ \A k \in 1 .. n : SubSeq(data, 1, n)[k] = data[k]
    OBVIOUS
<1>3. n = 0 => SubSeq(data, 1, n) = <<>>
    OBVIOUS
<1>4. partial' = partial \o SubSeq(data, 1, n)
    BY <1>1, <1>3 DEF PutPartly
<1>5. partial' \in Seq(Units) /\ Len(partial') = Len(partial) + n
    BY <1>1, <1>2, <1>4
<1>6. partial' # Absent /\ Held = partial /\ Held' = partial'
    BY <1>5, PartialImageAssumption DEF Held
<1> QED
    BY <1>1, <1>2, <1>4, <1>5, <1>6

\* What a failure leaves: it may cut the stream short, and may add to it part
\* of data that were too large for the buffer.
FailLeaves ==
    /\ partial = Absent => partial' = Absent
    /\ partial # Absent => /\ partial' \in Seq(Units) /\ partial' # Absent
                           /\ Len(partial) <= Len(partial')
    /\ buffer' \in Seq(Units) /\ Len(buffer') <= Capacity
    /\ partial' = Absent => buffer' = <<>>
    /\ Len(Stream') <= Length
    /\ GrowsInPlace

LEMMA FailIs ==
    ASSUME TypeOK, StreamInv, NEW data, NEW n \in 0 .. Len(data), PutPartly(data, n),
           \/ data = buffer
           \/ data = <<>>
           \/ data = pending /\ place = "write" /\ buffer = <<>> /\ Len(pending) >= Capacity,
           \/ buffer' = <<>>
           \/ buffer' = IF data = buffer THEN SubSeq(buffer, n + 1, Len(buffer)) ELSE buffer
    PROVE  FailLeaves
<1>1. /\ buffer \in Seq(Units) /\ pending \in Seq(Units) /\ Len(buffer) <= Capacity
      /\ Len(Stream) <= Length /\ (buffer # <<>> => partial # Absent)
      /\ partial # Absent => partial \in Seq(Units)
    BY DEF TypeOK, StreamInv
<1>2. data \in Seq(Units) /\ n \in Nat /\ <<>> \in Seq(Units)
    <2>1. <<>> \in Seq(Units)
        OBVIOUS
    <2>2. data \in {buffer, pending, <<>>}
        OBVIOUS
    <2>3. data \in Seq(Units)
        BY <1>1, <2>1, <2>2
    <2> QED
        BY <2>1, <2>3
<1>3. CASE partial = Absent
    <2>1. buffer = <<>> /\ place # "write"
        BY <1>1, <1>3 DEF StreamInv, Copying
    <2>2. data = <<>> /\ n = 0 /\ partial' = Absent /\ buffer' = <<>>
        BY <2>1, <1>3 DEF PutPartly
    <2>3. Stream' = <<>> /\ Stream = <<>>
        BY <2>1, <2>2, <1>3 DEF Stream, Held
    <2> QED
        BY <1>3, <2>2, <2>3, PartialImageAssumption DEF FailLeaves, GrowsInPlace
<1>4. CASE partial # Absent
    <2>1. /\ partial' = partial \o SubSeq(data, 1, n)
          /\ partial' \in Seq(Units) /\ partial' # Absent /\ Len(partial') = Len(partial) + n
          /\ Held = partial /\ Held' = partial'
          /\ \A k \in 1 .. Len(partial) : partial'[k] = partial[k]
          /\ \A k \in 1 .. n : partial'[Len(partial) + k] = data[k]
        BY <1>2, <1>4, PutIs
    <2>2. /\ Stream = partial \o buffer /\ Len(Stream) = Len(partial) + Len(buffer)
          /\ \A k \in 1 .. Len(partial) : Stream[k] = partial[k]
          /\ \A k \in 1 .. Len(buffer) : Stream[Len(partial) + k] = buffer[k]
        BY <1>1, <1>4, <2>1 DEF Stream
    <2>3. partial \in Seq(Units) /\ Len(partial) \in Nat
        BY <1>1, <1>4
    <2>9. Len(partial) <= Len(partial')
        BY <2>1, <2>3, <1>2
    <2>4. CASE data = pending /\ place = "write" /\ buffer = <<>> /\ Len(pending) >= Capacity
        <3>1. /\ pending[1] # Zero /\ pending # <<>> /\ copied + Len(pending) <= Length
              /\ \A k \in 1 .. Len(pending) : pending[k] = <<source, copied + k - 1>>
            <4>1. SkipLength < Capacity
                BY <2>4, PendingIs, SkipFits DEF TypeOK
            <4>2. pending[1] # Zero
                BY <4>1, <2>4, PendingIs, <1>1, PartialImageAssumption
            <4> QED
                BY <4>2, <2>4, PendingIs
        <3>2. buffer' = <<>>
            BY <2>4, <3>1
        <3>3. Stream' = partial' /\ copied = Len(partial) /\ copied \in Nat
            BY <2>1, <2>2, <2>3, <2>4, <3>2 DEF Stream, StreamInv, Copying
        <3>4. ASSUME NEW k \in 1 .. Len(partial')
              PROVE  partial'[k] = <<source, k - 1>> \/ (k <= Len(Stream) /\ partial'[k] = Stream[k])
            <4>1. CASE k <= Len(partial)
                BY <4>1, <2>1, <2>2, <2>3
            <4>2. CASE ~(k <= Len(partial))
                <5>1. k - Len(partial) \in 1 .. n /\ k = Len(partial) + (k - Len(partial))
                    BY <4>2, <2>1, <2>3, <1>2
                <5>2. k - Len(partial) \in 1 .. Len(pending)
                    BY <5>1, <2>4
                <5>3. partial'[k] = pending[k - Len(partial)]
                    BY <5>1, <2>1, <2>4
                <5>4. copied + (k - Len(partial)) - 1 = k - 1
                    BY <3>3
                <5> QED
                    BY <5>2, <5>3, <5>4, <3>1
            <4> QED
                BY <4>1, <4>2
        <3>5. Len(Stream') <= Length
            BY <2>1, <2>4, <3>1, <3>3, PartialImageAssumption
        <3>6. GrowsInPlace
            BY <3>3, <3>4 DEF GrowsInPlace
        <3>7. 0 <= Capacity /\ Len(<<>>) = 0
            BY PartialImageAssumption
        <3> QED
            BY <1>2, <1>4, <2>1, <2>9, <3>2, <3>5, <3>6, <3>7 DEF FailLeaves
    <2>5. CASE data \in {buffer, <<>>}
        <3>1. n <= Len(buffer) /\ \A k \in 1 .. n : data[k] = buffer[k]
            BY <2>5, <1>1
        <3>2. \A k \in 1 .. Len(partial') : k <= Len(Stream) /\ partial'[k] = Stream[k]
            <4> SUFFICES ASSUME NEW k \in 1 .. Len(partial')
                         PROVE  k <= Len(Stream) /\ partial'[k] = Stream[k]
                OBVIOUS
            <4>1. CASE k <= Len(partial)
                BY <4>1, <2>1, <2>2, <2>3, <1>1
            <4>2. CASE ~(k <= Len(partial))
                <5>1. k - Len(partial) \in 1 .. n /\ k = Len(partial) + (k - Len(partial))
                    BY <4>2, <2>1, <2>3, <1>2
                <5>2. k - Len(partial) \in 1 .. Len(buffer)
                    BY <5>1, <3>1, <1>1
                <5>3. partial'[k] = buffer[k - Len(partial)] /\ Stream[k] = buffer[k - Len(partial)]
                    BY <5>1, <5>2, <2>1, <2>2, <3>1
                <5>4. k <= Len(Stream)
                    BY <5>2, <2>2, <2>3, <1>1
                <5> QED
                    BY <5>3, <5>4
            <4> QED
                BY <4>1, <4>2
        <3>3. CASE buffer' = <<>>
            <4>1. Stream' = partial'
                BY <2>1, <3>3 DEF Stream
            <4>2. Len(Stream') <= Length
                BY <4>1, <2>1, <2>2, <2>3, <3>1, <1>1, <1>2, PartialImageAssumption
            <4>3. GrowsInPlace
                BY <3>2, <4>1 DEF GrowsInPlace
            <4>4. 0 <= Capacity /\ Len(<<>>) = 0
                BY PartialImageAssumption
            <4> QED
                BY <1>2, <1>4, <2>1, <2>9, <3>3, <4>2, <4>3, <4>4 DEF FailLeaves
        <3>4. CASE buffer' = IF data = buffer THEN SubSeq(buffer, n + 1, Len(buffer)) ELSE buffer
            <4>1. /\ buffer' \in Seq(Units) /\ Len(buffer') = Len(buffer) - n
                  /\ \A k \in 1 .. Len(buffer') : buffer'[k] = buffer[n + k]
                <5>1. CASE data = buffer
                    BY <5>1, <3>1, <3>4, <1>1, <1>2
                <5>2. CASE data # buffer
                    <6>1. data = <<>> /\ n = 0 /\ buffer' = buffer
                        BY <5>2, <2>5, <3>4
                    <6> QED
                        BY <6>1, <1>1
                <5> QED
                    BY <5>1, <5>2
            <4>2. /\ Stream' = partial' \o buffer' /\ Len(Stream') = Len(partial') + Len(buffer')
                  /\ \A k \in 1 .. Len(partial') : Stream'[k] = partial'[k]
                  /\ \A k \in 1 .. Len(buffer') : Stream'[Len(partial') + k] = buffer'[k]
                <5>1. Stream' = partial' \o buffer'
                    BY <2>1 DEF Stream
                <5>2. PICK x \in Seq(Units) : x = partial'
                    BY <2>1
                <5>3. PICK y \in Seq(Units) : y = buffer'
                    BY <4>1
                <5>4. /\ Len(x \o y) = Len(x) + Len(y)
                      /\ \A k \in 1 .. Len(x) : (x \o y)[k] = x[k]
                      /\ \A k \in 1 .. Len(y) : (x \o y)[Len(x) + k] = y[k]
                    OBVIOUS
                <5> QED
                    BY <5>1, <5>2, <5>3, <5>4
            <4>3. Len(Stream') = Len(Stream)
                <5>1. Len(buffer) \in Nat
                    BY <1>1
                <5>2. Len(Stream') = (Len(partial) + n) + (Len(buffer) - n)
                    BY <2>1, <4>1, <4>2
                <5> QED
                    BY <5>1, <5>2, <2>2, <2>3, <1>2
            <4>4. ASSUME NEW k \in 1 .. Len(Stream') PROVE Stream'[k] = Stream[k]
                <5>1. CASE k <= Len(partial')
                    BY <5>1, <3>2, <4>2, <2>1
                <5>2. CASE ~(k <= Len(partial'))
                    <6> DEFINE j == k - Len(partial')
                    <6>1. j \in 1 .. Len(buffer') /\ k = Len(partial') + j
                        BY <5>2, <4>1, <4>2, <2>1
                    <6> HIDE DEF j
                    <6>2. n + j \in 1 .. Len(buffer) /\ k = Len(partial) + (n + j)
                        <7>1. Len(buffer) \in Nat /\ n \in Nat /\ Len(partial) \in Nat
                            BY <1>1, <1>2, <2>3
                        <7>2. Len(buffer') = Len(buffer) - n /\ Len(partial') = Len(partial) + n
                            BY <4>1, <2>1
                        <7>3. j \in 1 .. Len(buffer) - n /\ k = Len(partial) + n + j
                            BY <6>1, <7>2
                        <7> QED
                            BY <7>1, <7>3
                    <6>3. Stream'[k] = buffer'[j] /\ buffer'[j] = buffer[n + j]
                        BY <6>1, <4>1, <4>2
                    <6>4. Stream[k] = buffer[n + j]
                        BY <6>2, <2>2
                    <6> QED
                        BY <6>3, <6>4
                <5> QED
                    BY <5>1, <5>2
            <4>5. Len(buffer') <= Capacity /\ Len(Stream') <= Length
                BY <4>1, <4>3, <1>1, <1>2, PartialImageAssumption
            <4>6. GrowsInPlace
                BY <4>3, <4>4 DEF GrowsInPlace
            <4> QED
                BY <1>4, <2>1, <2>9, <4>1, <4>5, <4>6 DEF FailLeaves
        <3> QED
            BY <3>3, <3>4
    <2> QED
        BY <2>4, <2>5
<1> QED
    BY <1>3, <1>4

LEMMA InFlightIs ==
    ASSUME TypeOK, StreamInv
    PROVE  \/ InFlight = buffer
           \/ InFlight = <<>>
           \/ InFlight = pending /\ place = "write" /\ buffer = <<>> /\ Len(pending) >= Capacity
<1>1. CASE place = "write" /\ ~Fits /\ buffer # <<>>
    BY <1>1 DEF InFlight
<1>2. CASE place = "write" /\ buffer = <<>> /\ Len(pending) >= Capacity
    BY <1>2 DEF InFlight
<1>3. CASE (place = "copy" /\ copied = Length) \/ place = "error"
    BY <1>3 DEF InFlight
<1>4. CASE /\ ~(place = "write" /\ ~Fits /\ buffer # <<>>)
           /\ ~(place = "write" /\ buffer = <<>> /\ Len(pending) >= Capacity)
           /\ ~((place = "copy" /\ copied = Length) \/ place = "error")
    BY <1>4 DEF InFlight
<1> QED
    BY <1>1, <1>2, <1>3, <1>4

LEMMA FailStepsLeave ==
    ASSUME TypeOK, StreamInv, WriteFails \/ Error \/ Crash
    PROVE  FailLeaves
<1>1. CASE WriteFails
    <2>1. PICK n \in 0 .. Len(InFlight) :
             /\ PutPartly(InFlight, n)
             /\ buffer' = IF InFlight = buffer THEN SubSeq(buffer, n + 1, Len(buffer)) ELSE buffer
        BY <1>1 DEF WriteFails
    <2> QED
        BY <2>1, InFlightIs, FailIs
<1>2. CASE Error
    <2>1. PICK n \in 0 .. Len(buffer) : PutPartly(buffer, n)
        <3>1. Len(buffer) \in 0 .. Len(buffer)
            BY DEF TypeOK
        <3> QED
            BY <1>2, <3>1 DEF Error
    <2>2. buffer' = <<>>
        BY <1>2 DEF Error, Forget
    <2> QED
        BY <2>1, <2>2, FailIs
<1>3. CASE Crash
    <2>1. PICK n \in 0 .. Len(InFlight) : PutPartly(InFlight, n)
        BY <1>3 DEF Crash
    <2>2. buffer' = <<>>
        BY <1>3 DEF Crash, Forget
    <2> QED
        BY <2>1, <2>2, InFlightIs, FailIs
<1> QED
    BY <1>1, <1>2, <1>3

LEMMA FailStepsType ==
    ASSUME TypeOK, StreamInv, WriteFails \/ Error \/ Crash
    PROVE  TypeOK' /\ StreamInv'
<1>1. FailLeaves
    BY FailStepsLeave
<1>2. /\ buffer' \in Seq(Units) /\ Len(buffer') <= Capacity /\ Len(Stream') <= Length
      /\ buffer' # <<>> => partial' # Absent
    BY <1>1 DEF FailLeaves
<1>3. partial' # Absent => partial' \in Seq(Units) /\ Len(partial') <= Length
    <2> SUFFICES ASSUME partial' # Absent PROVE partial' \in Seq(Units) /\ Len(partial') <= Length
        OBVIOUS
    <2>1. partial' \in Seq(Units)
        BY <1>1 DEF FailLeaves
    <2>2. Len(Stream') = Len(partial') + Len(buffer')
        BY <1>2, <2>1 DEF Stream, Held
    <2> QED
        BY <1>2, <2>1, <2>2, PartialImageAssumption
<1>4. CASE WriteFails
    <2>1. /\ place' = "error" /\ place # "idle" /\ place \notin {"rename", "clean"}
          /\ pending' = <<>>
          /\ UNCHANGED <<checkpoint, image, after, source, profile, copied, ranges, lastEnd,
                         tally, passes, work, starts, told>>
        BY <1>4 DEF WriteFails
    <2>2. TypeOK'
        BY <1>2, <1>3, <2>1 DEF TypeOK, Saved, Places
    <2>3. StreamInv'
        BY <1>2, <2>1 DEF StreamInv, Persisting, Opening, Copying, Skipping, Refining
    <2> QED
        BY <2>2, <2>3
<1>5. CASE Error \/ Crash
    <2>1. /\ place' = "idle" /\ after' = "idle" /\ source' = Absent /\ profile' = "standard"
          /\ copied' = 0 /\ buffer' = <<>> /\ pending' = <<>> /\ ranges' = <<>>
          /\ lastEnd' = NoEnd /\ tally' = NoIssues /\ passes' = 0 /\ work' = <<>>
          /\ UNCHANGED <<checkpoint, image, starts, told>>
        BY <1>5 DEF Error, Crash, Forget
    <2>2. NoIssues \in Tallies /\ NoEnd \in 1 .. NoEnd /\ 0 \in 0 .. Length /\ 0 \in 0 .. Passes
        BY PartialImageAssumption DEF NoIssues, Tallies, NoEnd
    <2>3. TypeOK'
        BY <1>2, <1>3, <2>1, <2>2 DEF TypeOK, Saved, Places
    <2>4. StreamInv'
        BY <1>2, <2>1 DEF StreamInv, Persisting, Opening, Copying, Skipping, Refining
    <2> QED
        BY <2>3, <2>4
<1> QED
    BY <1>4, <1>5

LEMMA RefineStepsType ==
    ASSUME TypeOK, StreamInv, BeginPass \/ PatchChunk \/ EndPass \/ EndRefinement
    PROVE  TypeOK' /\ StreamInv'
<1>1. CASE BeginPass
    <2>1. /\ place = "pass" /\ place' = "refine" /\ passes < Passes /\ work' = ranges
          /\ UNCHANGED <<partial, checkpoint, image, after, source, profile, copied, buffer,
                         pending, ranges, lastEnd, tally, passes, starts, told>>
        BY <1>1 DEF BeginPass, MorePasses, disk
    <2>2. Held' = Held /\ Stream' = Stream
        BY <2>1 DEF Held, Stream
    <2>3. TypeOK'
        BY <2>1 DEF TypeOK, Saved, Places
    <2>4. StreamInv'
        BY <2>1, <2>2 DEF StreamInv, Persisting, Opening, Copying, Skipping, Refining
    <2> QED
        BY <2>3, <2>4
<1>2. CASE PatchChunk
    <2>1. /\ place = "refine" /\ place' = "refine"
          /\ UNCHANGED <<checkpoint, image, after, source, profile, copied, buffer,
                         pending, ranges, lastEnd, tally, passes, starts, told>>
        BY <1>2 DEF PatchChunk
    <2>2. /\ partial' \in Seq(Units) /\ partial' # Absent /\ Len(partial') = Length
          /\ Stream' = partial' /\ work' \in Seq(Unreadable)
        BY <1>2, PatchIs
    <2>3. TypeOK'
        BY <2>1, <2>2, PartialImageAssumption DEF TypeOK, Saved, Places
    <2>4. StreamInv'
        BY <2>1, <2>2, PartialImageAssumption DEF StreamInv, Persisting, Opening, Copying,
            Skipping, Refining
    <2> QED
        BY <2>3, <2>4
<1>3. CASE EndPass
    <2>1. /\ place = "refine" /\ place' = "truncate" /\ after' = "pass" /\ passes' = passes + 1
          /\ ranges' = MergeRanges(work) /\ tally' = Summarize(ranges') /\ work' = <<>>
          /\ UNCHANGED <<partial, checkpoint, image, source, profile, copied, buffer,
                         pending, lastEnd, starts, told>>
        BY <1>3 DEF EndPass, PassDone, Persist, disk
    <2>2. Held' = Held /\ Stream' = Stream
        BY <2>1 DEF Held, Stream
    <2>3. ranges' \in Seq(Unreadable) /\ tally' \in Tallies
        BY <2>1, MergeRangesKeep, SummarizeType DEF TypeOK
    <2>4. passes' \in 0 .. Passes
        BY <2>1, PartialImageAssumption DEF TypeOK, StreamInv
    <2>5. TypeOK'
        BY <2>1, <2>3, <2>4 DEF TypeOK, Saved, Places
    <2>6. StreamInv'
        BY <2>1, <2>2 DEF StreamInv, Persisting, Opening, Copying, Skipping, Refining
    <2> QED
        BY <2>5, <2>6
<1>4. CASE EndRefinement
    <2>1. /\ place = "pass" /\ place' = "truncate" /\ after' = "replace"
          /\ tally' = Summarize(ranges)
          /\ UNCHANGED <<partial, checkpoint, image, source, profile, copied, buffer,
                         pending, ranges, lastEnd, passes, work, starts, told>>
        BY <1>4 DEF EndRefinement, Persist, disk
    <2>2. Held' = Held /\ Stream' = Stream
        BY <2>1 DEF Held, Stream
    <2>3. tally' \in Tallies
        BY <2>1, SummarizeType DEF TypeOK
    <2>4. TypeOK'
        BY <2>1, <2>3 DEF TypeOK, Saved, Places
    <2>5. StreamInv'
        BY <2>1, <2>2 DEF StreamInv, Persisting, Opening, Copying, Skipping, Refining
    <2> QED
        BY <2>4, <2>5
<1> QED
    BY <1>1, <1>2, <1>3, <1>4

LEMMA FinalStepsType ==
    ASSUME TypeOK, StreamInv, Replace \/ Rename \/ Clean
    PROVE  TypeOK' /\ StreamInv'
<1>1. CASE Replace
    <2>1. /\ place = "replace" /\ place' = "rename" /\ image' = Absent /\ told' = Absent
          /\ UNCHANGED <<partial, checkpoint, after, source, profile, copied, buffer, pending,
                         ranges, lastEnd, tally, passes, work, starts>>
        BY <1>1 DEF Replace, copying
    <2>2. Held' = Held /\ Stream' = Stream
        BY <2>1 DEF Held, Stream
    <2>3. TypeOK'
        BY <2>1 DEF TypeOK, Saved, Places
    <2>4. StreamInv'
        BY <2>1, <2>2 DEF StreamInv, Persisting, Opening, Copying, Skipping, Refining
    <2> QED
        BY <2>3, <2>4
<1>2. CASE Rename
    <2>1. /\ place = "rename" /\ place' = "clean" /\ image' = partial /\ partial' = Absent
          /\ UNCHANGED <<checkpoint, after, source, profile, copied, buffer, pending,
                         ranges, lastEnd, tally, passes, work, starts, told>>
        BY <1>2 DEF Rename, copying
    <2>2. partial # Absent /\ Len(partial) = Length /\ buffer = <<>> /\ told = Absent
        BY <2>1 DEF StreamInv, Refining
    <2>3. Stream' = <<>>
        BY <2>1, <2>2 DEF Held, Stream
    <2>4. TypeOK'
        BY <2>1, <2>2 DEF TypeOK, Saved, Places
    <2>5. StreamInv'
        BY <2>1, <2>2, <2>3, PartialImageAssumption DEF StreamInv, Persisting, Opening, Copying,
            Skipping, Refining
    <2> QED
        BY <2>4, <2>5
<1>3. CASE Clean
    <2>1. /\ place = "clean" /\ place' = "idle" /\ after' = "idle" /\ source' = Absent
          /\ profile' = "standard" /\ copied' = 0 /\ buffer' = <<>> /\ pending' = <<>>
          /\ ranges' = <<>> /\ lastEnd' = NoEnd /\ tally' = NoIssues /\ passes' = 0
          /\ work' = <<>> /\ checkpoint' = Absent
          /\ UNCHANGED <<partial, image, starts>>
        BY <1>3 DEF Clean, Forget
    <2>2. NoIssues \in Tallies /\ NoEnd \in 1 .. NoEnd /\ 0 \in 0 .. Length /\ 0 \in 0 .. Passes
        BY PartialImageAssumption DEF NoIssues, Tallies, NoEnd
    <2>3. partial = Absent /\ image # Absent /\ Len(image) = Length
        BY <2>1 DEF StreamInv
    <2>4. Stream' = <<>>
        BY <2>1, <2>3 DEF Held, Stream
    <2>5. TypeOK'
        BY <2>1, <2>2, <2>3, PartialImageAssumption DEF TypeOK, Saved, Places
    <2>6. StreamInv'
        BY <2>1, <2>3, <2>4, PartialImageAssumption DEF StreamInv, Persisting, Opening, Copying,
            Skipping, Refining
    <2> QED
        BY <2>5, <2>6
<1> QED
    BY <1>1, <1>2, <1>3

LEMMA TypeStarts == Init => TypeOK /\ StreamInv
<1> SUFFICES ASSUME Init PROVE TypeOK /\ StreamInv
    OBVIOUS
<1>1. NoIssues \in Tallies /\ NoEnd \in 1 .. NoEnd /\ 0 \in 0 .. Length /\ 0 \in 0 .. Passes
      /\ 0 \in 0 .. MaxStarts /\ 0 <= Capacity /\ 0 <= Length
    BY PartialImageAssumption DEF NoIssues, Tallies, NoEnd
<1>2. Stream = <<>>
    BY DEF Init, Idle, Stream, Held
<1>3. TypeOK
    BY <1>1 DEF Init, Idle, TypeOK, Saved, Places
<1>4. StreamInv
    BY <1>1, <1>2 DEF Init, Idle, StreamInv, Persisting, Opening, Copying, Skipping, Refining
<1> QED
    BY <1>3, <1>4

LEMMA TypeSteps ==
    ASSUME TypeOK, StreamInv, [Next]_vars
    PROVE  TypeOK' /\ StreamInv'
<1>1. CASE UNCHANGED vars
    <2>1. Held' = Held /\ Stream' = Stream /\ Room' = Room /\ SkipLength' = SkipLength
        BY <1>1 DEF vars, Held, Stream, Room, SkipLength
    <2>2. TypeOK'
        BY <1>1 DEF vars, TypeOK, Saved, Places
    <2>3. StreamInv'
        BY <1>1, <2>1 DEF vars, StreamInv, Persisting, Opening, Copying, Skipping, Refining
    <2> QED
        BY <2>2, <2>3
<1>2. CASE \E s \in Sources, p \in {"standard", "cautious"} : Acquire(s, p)
    BY <1>2, StartStepsType
<1>3. CASE Process
    BY <1>3, CheckpointStepsType, ReadStepsType, WriteStepsType, RefineStepsType, FinalStepsType,
       FailStepsType DEF Process
<1>4. CASE Crash
    BY <1>4, FailStepsType
<1> QED
    BY <1>1, <1>2, <1>3, <1>4 DEF Next, Done

\* No range reaches past the source, and no file outgrows it.
THEOREM ImageTypeCorrect == Spec => []TypeOK
<1>1. TypeOK /\ StreamInv /\ [Next]_vars => TypeOK' /\ StreamInv'
    BY TypeSteps
<1> QED
    BY TypeStarts, <1>1, PTL DEF Spec

-----------------------------------------------------------------------------
(* What the checkpoint says                                                *)

LEMMA SavedSteps ==
    ASSUME TypeOK, StreamInv, SavedInv, [Next]_vars
    PROVE  SavedInv'
<1> USE DEF SavedInv, Owner, Saved
<1>1. CASE UNCHANGED vars
    BY <1>1 DEF vars
<1>2. ASSUME NEW s \in Sources, NEW p \in {"standard", "cautious"}, Acquire(s, p)
      PROVE  SavedInv'
    <2>1. CASE Resume(s, p)
        BY <2>1 DEF Resume, Start, Matches, Resumable, Persist, disk
    <2>2. CASE Discard(s, p)
        BY <2>2 DEF Discard, Start
    <2>3. CASE Fresh(s, p)
        BY <2>3 DEF Fresh, Start, Persist, disk
    <2> QED
        BY <1>2, <2>1, <2>2, <2>3 DEF Acquire
<1>3. CASE TruncateCheckpoint
    BY <1>3 DEF TruncateCheckpoint, copying
<1>4. CASE FillCheckpoint
    <2>1. after \in {"open", "skip", "pass", "replace"}
        BY <1>4 DEF FillCheckpoint, StreamInv
    <2> QED
        BY <1>4, <2>1 DEF FillCheckpoint, copying
<1>5. CASE CheckpointFails
    BY <1>5, PartialImageAssumption DEF CheckpointFails, copying, disk
<1>6. CASE DiscardCheckpoint
    BY <1>6 DEF DiscardCheckpoint, Persist, copying
<1>7. CASE OpenWriter \/ ReadChunk \/ ReadFails \/ Spill \/ WriteData \/ Skip \/ Progress \/ EndCopy
    BY <1>7 DEF OpenWriter, ReadChunk, ReadFails, Spill, WriteData, Skip, Progress, EndCopy,
        copying, disk
<1>8. CASE WriteSkip \/ EndPass \/ EndRefinement
    BY <1>8 DEF WriteSkip, EndPass, EndRefinement, Persist, disk
<1>9. CASE BeginPass \/ PatchChunk \/ Replace \/ Rename
    BY <1>9 DEF BeginPass, PatchChunk, Replace, Rename, copying, disk
<1>10. CASE Clean \/ Error \/ Crash
    BY <1>10 DEF Clean, Error, Crash, Forget
<1>11. CASE WriteFails
    BY <1>11 DEF WriteFails
<1> QED
    BY <1>1, <1>2, <1>3, <1>4, <1>5, <1>6, <1>7, <1>8, <1>9, <1>10, <1>11 DEF Next, Process, Done

-----------------------------------------------------------------------------
(* The tally                                                               *)

LEMMA TallySteps ==
    ASSUME TypeOK, StreamInv, TallyInv, [Next]_vars
    PROVE  TallyInv'
<1> USE DEF TallyInv, TallyMatches, Saved
<1>1. CASE UNCHANGED vars
    BY <1>1 DEF vars
<1>2. ASSUME NEW s \in Sources, NEW p \in {"standard", "cautious"}, Acquire(s, p)
      PROVE  TallyInv'
    <2>1. CASE Resume(s, p)
        BY <2>1 DEF Resume, Matches, Resumable, disk
    <2>2. CASE Discard(s, p)
        BY <2>2 DEF Discard
    <2>3. CASE Fresh(s, p)
        BY <2>3 DEF Fresh, disk
    <2> QED
        BY <1>2, <2>1, <2>2, <2>3 DEF Acquire
<1>3. CASE TruncateCheckpoint \/ FillCheckpoint \/ CheckpointFails \/ DiscardCheckpoint
    BY <1>3 DEF TruncateCheckpoint, FillCheckpoint, CheckpointFails, DiscardCheckpoint, copying, disk
<1>4. CASE OpenWriter \/ ReadChunk \/ ReadFails \/ Spill \/ WriteData \/ Skip \/ Progress \/ EndCopy
    BY <1>4 DEF OpenWriter, ReadChunk, ReadFails, Spill, WriteData, Skip, Progress, EndCopy,
        copying, disk
<1>5. CASE WriteSkip
    <2>1. /\ place = "write" /\ pending[1] = Zero /\ checkpoint' = checkpoint
          /\ ranges' = PushMerged(ranges, lastEnd, copied, SkipLength)
          /\ tally' = [count |-> IF lastEnd = copied THEN tally.count ELSE tally.count + 1,
                       units |-> tally.units + SkipLength]
        BY <1>5 DEF WriteSkip, CountRange
    <2>2. /\ ranges \in Seq(Unreadable) /\ lastEnd \in {NoEnd, EndOf(ranges)}
          /\ copied \in 0 .. Length /\ copied < Length
        BY <2>1 DEF TypeOK, StreamInv, Copying
    <2>3. /\ SkipLength \in 1 .. Length /\ copied \in 0 .. Length - 1 /\ copied + SkipLength <= Length
        <3>1. /\ Room \in 1 .. Length /\ copied + Room <= Length /\ SkipLength \in 1 .. Room
            BY <2>2, SkipFits
        <3> HIDE DEF Room, SkipLength
        <3> QED
            BY <2>2, <3>1, PartialImageAssumption
    <2>4. Summarize(ranges') = [count |-> IF lastEnd = copied THEN Summarize(ranges).count
                                          ELSE Summarize(ranges).count + 1,
                                units |-> Summarize(ranges).units + SkipLength]
        BY <2>1, <2>2, <2>3, PushMergedIs
    <2> QED
        BY <2>1, <2>4
<1>6. CASE EndPass \/ EndRefinement
    BY <1>6 DEF EndPass, EndRefinement, disk
<1>7. CASE BeginPass \/ PatchChunk \/ Replace \/ Rename \/ WriteFails
    BY <1>7 DEF BeginPass, PatchChunk, Replace, Rename, WriteFails, copying, disk
<1>8. CASE Clean \/ Error \/ Crash
    BY <1>8, SummarizeNone DEF Clean, Error, Crash, Forget
<1> QED
    BY <1>1, <1>2, <1>3, <1>4, <1>5, <1>6, <1>7, <1>8 DEF Next, Process, Done

\* A checkpoint counts exactly what it lists.
THEOREM TallyIsRight == Spec => []TallyMatches
<1>1. Init => TallyInv
    BY SummarizeNone DEF Init, Idle, TallyInv, TallyMatches, Saved
<1>2. TypeOK /\ StreamInv /\ TallyInv /\ [Next]_vars => TypeOK' /\ StreamInv' /\ TallyInv'
    BY TypeSteps, TallySteps
<1>3. TallyInv => TallyMatches
    BY DEF TallyInv
<1> QED
    BY TypeStarts, <1>1, <1>2, <1>3, PTL DEF Spec

-----------------------------------------------------------------------------
(* Units in their places                                                   *)

LEMMA PrefixKeeps ==
    ASSUME NEW S, NEW x \in Seq(S), NEW y \in Seq(S)
    PROVE  /\ \A s : Aligned(x \o y, s) => Aligned(x, s)
           /\ \A rs : Traced(x \o y, rs) => Traced(x, rs)
<1>1. \A i \in DOMAIN x : i \in DOMAIN (x \o y) /\ (x \o y)[i] = x[i]
    OBVIOUS
<1> QED
    BY <1>1 DEF Aligned, Traced

\* The steps of an acquisition that do not add zeros and do not rename.
GrowStep ==
    \/ TruncateCheckpoint \/ FillCheckpoint \/ CheckpointFails \/ OpenWriter
    \/ ReadChunk \/ ReadFails \/ Spill \/ WriteData \/ WriteFails \/ Skip \/ Progress
    \/ EndCopy \/ BeginPass \/ PatchChunk \/ EndPass \/ EndRefinement \/ Replace
    \/ Error \/ Crash

LEMMA GrowStepsGrow ==
    ASSUME TypeOK, StreamInv, GrowStep
    PROVE  GrowsInPlace /\ Len(Stream') <= Length /\ Stream' \in Seq(Units)
<1>0. Stream' \in Seq(Units)
    <2>1. [Next]_vars
        BY DEF GrowStep, Next, Process
    <2>2. TypeOK'
        BY <2>1, TypeSteps
    <2>3. Held' \in Seq(Units) /\ buffer' \in Seq(Units)
        BY <2>2 DEF TypeOK, Held
    <2>4. Stream' = Held' \o buffer'
        BY DEF Stream
    <2> QED
        BY <2>3, <2>4
<1> DEFINE Grown == GrowsInPlace /\ Len(Stream') <= Length
<1> SUFFICES Grown
    BY <1>0
<1>1. Len(Stream) <= Length /\ Stream \in Seq(Units)
    BY StreamIs DEF StreamInv
<1>2. Stream' = Stream => Grown
    BY <1>1 DEF GrowsInPlace
<1>3. CASE \/ TruncateCheckpoint \/ FillCheckpoint \/ CheckpointFails
           \/ ReadChunk \/ ReadFails \/ Skip \/ Progress
           \/ BeginPass \/ EndPass \/ EndRefinement \/ Replace
    <2>1. UNCHANGED <<partial, buffer>>
        BY <1>3 DEF TruncateCheckpoint, FillCheckpoint, CheckpointFails, ReadChunk, ReadFails,
            Skip, Progress, BeginPass, EndPass, EndRefinement, Replace, copying, disk
    <2>2. Stream' = Stream
        BY <2>1 DEF Stream, Held
    <2> QED
        BY <1>2, <2>2
<1>4. CASE OpenWriter
    <2>1. buffer = <<>> /\ copied = Len(Held) /\ Stream = Held /\ copied \in Nat
        BY <1>4, StreamIs DEF OpenWriter, StreamInv, Opening, TypeOK
    <2>2. partial' = Held
        <3>1. copied > 0 => partial # Absent
            BY <2>1 DEF Held
        <3>2. Held \in Seq(Units)
            BY StreamIs
        <3> QED
            BY <1>4, <2>1, <3>1, <3>2 DEF OpenWriter, Opened, Held
    <2>3. buffer' = buffer
        BY <1>4 DEF OpenWriter, copying
    <2>4. Held' = partial'
        BY <1>1, <2>1, <2>2, PartialImageAssumption DEF Held
    <2>5. Stream' = Stream
        BY <1>1, <2>1, <2>2, <2>3, <2>4 DEF Stream
    <2> QED
        BY <1>2, <2>5
<1>5. CASE Spill \/ EndCopy
    <2>1. Flush /\ partial # Absent
        BY <1>5 DEF Spill, EndCopy, Flush, StreamInv, Copying
    <2>2. Stream' = Stream
        BY <2>1, FlushIs
    <2> QED
        BY <1>2, <2>2
<1>6. CASE WriteData
    <2>1. place = "write" /\ Store /\ (Fits \/ buffer = <<>>) /\ pending[1] # Zero
        BY <1>6 DEF WriteData
    <2>2. Stream' = Stream \o pending /\ Len(Stream') = copied + Len(pending)
        BY <2>1, StoreIs
    <2>3. /\ pending \in Seq(Units) /\ copied + Len(pending) <= Length
          /\ \A k \in 1 .. Len(pending) : pending[k] = <<source, copied + k - 1>>
        BY <2>1, PendingIs
    <2>4. Len(Stream) = copied /\ copied \in Nat
        BY <2>1 DEF StreamInv, Copying, TypeOK
    <2>5. ASSUME NEW k \in 1 .. Len(Stream')
          PROVE  Stream'[k] = <<source, k - 1>> \/ (k <= Len(Stream) /\ Stream'[k] = Stream[k])
        <3>1. CASE k <= Len(Stream)
            BY <3>1, <1>1, <2>2, <2>3, <2>4
        <3>2. CASE ~(k <= Len(Stream))
            <4> DEFINE j == k - copied
            <4>1. j \in 1 .. Len(pending) /\ k = Len(Stream) + j
                BY <3>2, <2>2, <2>3, <2>4
            <4>2. copied + j - 1 = k - 1
                BY <2>4
            <4> HIDE DEF j
            <4>3. (Stream \o pending)[k] = pending[j]
                BY <4>1, <1>1, <2>3
            <4> QED
                BY <4>1, <4>2, <4>3, <2>2, <2>3
        <3> QED
            BY <3>1, <3>2
    <2> QED
        BY <2>2, <2>3, <2>5 DEF GrowsInPlace
<1>7. CASE WriteFails \/ Error \/ Crash
    BY <1>7, FailStepsLeave DEF FailLeaves
<1>8. CASE PatchChunk
    BY <1>8, PatchIs, PartialImageAssumption
<1> QED
    BY <1>3, <1>4, <1>5, <1>6, <1>7, <1>8 DEF GrowStep

LEMMA GrowingKeeps ==
    ASSUME TypeOK, GrowsInPlace, Stream' \in Seq(Units), Len(Stream') <= Length
    PROVE  /\ Aligned(Stream, source) => Aligned(Stream', source)
           /\ source \in Sources =>
                 \A rs : Traced(Stream, rs) => Traced(Stream', rs)
<1>1. Stream \in Seq(Units) /\ DOMAIN Stream = 1 .. Len(Stream) /\ Len(Stream) \in Nat
    BY StreamIs
<1>2. DOMAIN Stream' = 1 .. Len(Stream') /\ Len(Stream') \in Nat
    OBVIOUS
<1>3. ASSUME NEW k \in DOMAIN Stream'
      PROVE  Stream'[k] = <<source, k - 1>> \/ (k \in DOMAIN Stream /\ Stream'[k] = Stream[k])
    <2>1. k \in 1 .. Len(Stream')
        BY <1>2, <1>3
    <2>2. k \in Nat /\ 1 <= k
        BY <1>2, <2>1
    <2>3. Stream'[k] = <<source, k - 1>> \/ (k <= Len(Stream) /\ Stream'[k] = Stream[k])
        BY <2>1 DEF GrowsInPlace
    <2>4. k <= Len(Stream) => k \in DOMAIN Stream
        BY <1>1, <2>2
    <2> QED
        BY <2>3, <2>4
<1>4. Aligned(Stream, source) => Aligned(Stream', source)
    BY <1>3 DEF Aligned
<1>5. ASSUME source \in Sources, NEW rs, Traced(Stream, rs) PROVE Traced(Stream', rs)
    <2>1. ASSUME NEW k \in DOMAIN Stream' PROVE <<source, k - 1>> # Zero
        <3>1. k - 1 \in 0 .. Length - 1
            BY <1>2, <2>1, PartialImageAssumption
        <3> QED
            BY <1>5, <3>1, PartialImageAssumption
    <2> QED
        BY <1>3, <1>5, <2>1 DEF Traced
<1> QED
    BY <1>4, <1>5

LEMMA WriteSkipAdds ==
    ASSUME TypeOK, StreamInv, WriteSkip
    PROVE  /\ place = "write" /\ place' = "truncate" /\ after' = "skip"
           /\ partial' = partial /\ partial # Absent /\ Len(Stream) = copied
           /\ Stream' = Stream \o Zeros(SkipLength) /\ SkipLength \in 1 .. Length
           /\ copied \in 0 .. Length - 1 /\ copied + SkipLength <= Length
           /\ Stream' \in Seq(Units)
           /\ ranges \in Seq(Unreadable) /\ lastEnd \in {NoEnd, EndOf(ranges)}
           /\ ranges' = PushMerged(ranges, lastEnd, copied, SkipLength)
           /\ UNCHANGED <<checkpoint, image, source, told>>
<1>1. /\ place = "write" /\ place' = "truncate" /\ after' = "skip"
      /\ Store /\ (Fits \/ buffer = <<>>) /\ pending[1] = Zero
      /\ ranges' = PushMerged(ranges, lastEnd, copied, SkipLength)
      /\ UNCHANGED <<checkpoint, image, source, told>>
    BY DEF WriteSkip, Persist
<1>2. Stream' = Stream \o pending /\ partial' = partial
    BY <1>1, StoreIs
<1>3. pending = Zeros(SkipLength) /\ copied < Length /\ pending \in Seq(Units)
    BY <1>1, PendingIs
<1>4. /\ partial # Absent /\ Len(Stream) = copied /\ copied \in 0 .. Length
      /\ ranges \in Seq(Unreadable) /\ lastEnd \in {NoEnd, EndOf(ranges)}
    BY <1>1 DEF StreamInv, Copying, TypeOK
<1>5. /\ Room \in 1 .. Length /\ copied + Room <= Length /\ SkipLength \in 1 .. Room
    BY <1>3, <1>4, SkipFits
<1> HIDE DEF Room, SkipLength
<1>6. /\ SkipLength \in 1 .. Length /\ copied \in 0 .. Length - 1 /\ copied + SkipLength <= Length
    BY <1>3, <1>4, <1>5, PartialImageAssumption
<1>7. Stream' \in Seq(Units)
    BY <1>2, <1>3, StreamIs
<1> QED
    BY <1>1, <1>2, <1>3, <1>4, <1>6, <1>7

LEMMA ZerosAdded ==
    ASSUME NEW x \in Seq(Units), NEW n \in Nat
    PROVE  /\ Len(x \o Zeros(n)) = Len(x) + n
           /\ \A k \in 1 .. Len(x) : (x \o Zeros(n))[k] = x[k]
           /\ \A k \in Len(x) + 1 .. Len(x) + n : (x \o Zeros(n))[k] = Zero
<1>1. Zeros(n) \in Seq({Zero}) /\ Len(Zeros(n)) = n /\ \A k \in 1 .. n : Zeros(n)[k] = Zero
    BY DEF Zeros
<1>2. Zeros(n) \in Seq(Units)
    BY <1>1 DEF Units
<1> DEFINE z == Zeros(n)
<1> HIDE DEF z
<1>3. z \in Seq(Units) /\ Len(z) = n /\ \A k \in 1 .. n : z[k] = Zero
    BY <1>1, <1>2 DEF z
<1>4. /\ Len(x \o z) = Len(x) + n /\ \A k \in 1 .. Len(x) : (x \o z)[k] = x[k]
      /\ \A k \in Len(x) + 1 .. Len(x) + n : (x \o z)[k] = z[k - Len(x)]
    BY <1>3
<1>5. \A k \in Len(x) + 1 .. Len(x) + n : k - Len(x) \in 1 .. n
    OBVIOUS
<1> QED
    BY <1>3, <1>4, <1>5 DEF z

\* What the steps that grow the stream do to the rest.
LEMMA GrowStepsElse ==
    ASSUME TypeOK, StreamInv, GrowStep
    PROVE  /\ Error \/ Crash =>
                 /\ place # "idle" /\ place' = "idle" /\ FailLeaves /\ buffer' = <<>>
                 /\ UNCHANGED <<checkpoint, image, told>>
           /\ ~(Error \/ Crash) =>
                 /\ Owner /\ Owner' /\ source' = source /\ source \in Sources
                 /\ place \notin {"rename", "clean"} /\ place' # "clean"
                 /\ UNCHANGED <<image, told>> \/ told' = Absent
<1>1. CASE Error \/ Crash
    BY <1>1, FailStepsLeave DEF Error, Crash, Forget
<1>2. CASE \/ TruncateCheckpoint \/ FillCheckpoint \/ CheckpointFails \/ OpenWriter
    <2>1. place = "fill" => after \in {"open", "skip", "pass", "replace"}
        BY DEF StreamInv
    <2> QED
        BY <1>2, <2>1, PartialImageAssumption DEF TruncateCheckpoint, FillCheckpoint,
            CheckpointFails, OpenWriter, Owner, StreamInv, copying, disk, Error, Crash, Forget
<1>3. CASE \/ ReadChunk \/ ReadFails \/ Spill \/ WriteData \/ WriteFails \/ Skip \/ Progress
           \/ EndCopy
    BY <1>3 DEF ReadChunk, ReadFails, Spill, WriteData, WriteFails, Skip, Progress, EndCopy,
        Owner, StreamInv, copying, disk, Error, Crash, Forget
<1>4. CASE BeginPass \/ PatchChunk \/ EndPass \/ EndRefinement \/ Replace
    BY <1>4 DEF BeginPass, PatchChunk, EndPass, EndRefinement, Replace, Persist,
        Owner, StreamInv, copying, disk, Error, Crash, Forget
<1> QED
    BY <1>1, <1>2, <1>3, <1>4 DEF GrowStep

LEMMA NextIs ==
    ASSUME [Next]_vars
    PROVE  \/ UNCHANGED vars
           \/ \E s \in Sources, p \in {"standard", "cautious"} : Acquire(s, p)
           \/ DiscardCheckpoint \/ GrowStep \/ WriteSkip \/ Rename \/ Clean
BY DEF Next, Process, Done, GrowStep

LEMMA AlignSteps ==
    ASSUME TypeOK, StreamInv, SavedInv, AlignInv, [Next]_vars
    PROVE  AlignInv'
<1>1. TypeOK' /\ StreamInv' /\ SavedInv'
    BY TypeSteps, SavedSteps
<1>2. ASSUME Owner', Aligned(Stream', source'), Resumable'
      PROVE  Aligned(partial', checkpoint'.source)
    <2>1. partial' # Absent /\ checkpoint'.source = source'
        BY <1>1, <1>2 DEF SavedInv, Resumable
    <2>2. partial' \in Seq(Units) /\ buffer' \in Seq(Units) /\ Stream' = partial' \o buffer'
        BY <1>1, <2>1 DEF TypeOK, Stream, Held
    <2> QED
        BY <1>2, <2>1, <2>2, PrefixKeeps
<1>3. \A s : Aligned(<<>>, s)
    BY DEF Aligned
<1>4. CASE UNCHANGED vars
    <2>1. Stream' = Stream /\ (Owner' <=> Owner) /\ (Resumable' <=> Resumable)
        BY <1>4 DEF vars, Stream, Held, Owner, Resumable, Saved
    <2> QED
        BY <1>4, <2>1 DEF vars, AlignInv
<1>5. ASSUME NEW s \in Sources, NEW p \in {"standard", "cautious"}, Acquire(s, p)
      PROVE  AlignInv'
    <2>1. place = "idle" /\ place' # "clean" /\ buffer' = <<>> /\ source' = s
          /\ UNCHANGED <<image, told>>
        BY <1>5 DEF Acquire, Resume, Discard, Fresh, Start, Persist, StreamInv, disk
    <2>2. CASE Resume(s, p)
        <3>1. partial' = partial /\ partial # Absent /\ Resumable /\ checkpoint.source = s
            BY <2>2 DEF Resume, Matches, Resumable, disk
        <3>2. Stream' = partial
            BY <2>1, <3>1 DEF Stream, Held, TypeOK
        <3>3. Aligned(Stream', source') /\ Owner'
            BY <2>1, <2>2, <3>1, <3>2 DEF AlignInv, Resume, Persist, Owner
        <3> QED
            BY <1>2, <2>1, <3>3 DEF AlignInv
    <2>3. CASE Discard(s, p)
        <3>1. partial' = Absent /\ place' = "discard"
            BY <2>3 DEF Discard
        <3> QED
            BY <2>1, <3>1 DEF AlignInv, Owner, Resumable
    <2>4. CASE Fresh(s, p)
        <3>1. partial' = Absent
            BY <2>4 DEF Fresh, disk
        <3>2. Stream' = <<>>
            BY <2>1, <3>1 DEF Stream, Held
        <3> QED
            BY <1>3, <2>1, <3>1, <3>2 DEF AlignInv, Resumable
    <2> QED
        BY <1>5, <2>2, <2>3, <2>4 DEF Acquire
<1>6. CASE DiscardCheckpoint
    <2>1. /\ partial' = Absent /\ buffer' = <<>> /\ place' = "truncate"
          /\ UNCHANGED <<image, told>>
        BY <1>6 DEF DiscardCheckpoint, Persist, StreamInv, copying
    <2>2. Stream' = <<>>
        BY <2>1 DEF Stream, Held
    <2> QED
        BY <1>3, <2>1, <2>2 DEF AlignInv, Resumable
<1>7. CASE GrowStep
    <2>1. Aligned(Stream, source) => Aligned(Stream', source)
        BY <1>7, GrowStepsGrow, GrowingKeeps
    <2>2. CASE Error \/ Crash
        <3>1. /\ place # "idle" /\ place' = "idle" /\ FailLeaves /\ buffer' = <<>>
              /\ UNCHANGED <<checkpoint, image, told>>
            BY <1>7, <2>2, GrowStepsElse
        <3>2. ASSUME Resumable' PROVE Aligned(partial', checkpoint'.source)
            <4>1. partial # Absent /\ Saved /\ partial' # Absent
                BY <3>1, <3>2 DEF FailLeaves, Resumable, Saved
            <4>2. Owner
                BY <3>1, <4>1 DEF Owner, StreamInv
            <4>3. checkpoint'.source = source
                BY <3>1, <4>1, <4>2 DEF SavedInv
            <4>4. Stream' = partial'
                BY <1>1, <3>1, <4>1 DEF Stream, Held, TypeOK
            <4> QED
                BY <2>1, <4>2, <4>3, <4>4 DEF AlignInv
        <3> QED
            BY <3>1, <3>2 DEF AlignInv, Owner
    <2>3. CASE ~(Error \/ Crash)
        <3>1. /\ Owner /\ Owner' /\ source' = source /\ place' # "clean"
              /\ UNCHANGED <<image, told>> \/ told' = Absent
            BY <1>7, <2>3, GrowStepsElse
        <3>2. Aligned(Stream', source')
            BY <2>1, <3>1 DEF AlignInv
        <3> QED
            BY <1>2, <3>1, <3>2 DEF AlignInv
    <2> QED
        BY <2>2, <2>3
<1>8. CASE WriteSkip
    <2>1. /\ place = "write" /\ place' = "truncate" /\ Stream' = Stream \o Zeros(SkipLength)
          /\ SkipLength \in 1 .. Length /\ Stream' \in Seq(Units)
          /\ UNCHANGED <<checkpoint, image, source, told>>
        BY <1>8, WriteSkipAdds
    <2>2. Stream \in Seq(Units) /\ Aligned(Stream, source)
        BY <2>1, StreamIs DEF AlignInv, Owner
    <2>3. Aligned(Stream', source)
        <3>1. SkipLength \in Nat
            BY <2>1, PartialImageAssumption
        <3> HIDE DEF SkipLength
        <3>2. /\ Len(Stream') = Len(Stream) + SkipLength
              /\ \A k \in 1 .. Len(Stream) : Stream'[k] = Stream[k]
              /\ \A k \in Len(Stream) + 1 .. Len(Stream) + SkipLength : Stream'[k] = Zero
            BY <2>1, <2>2, <3>1, ZerosAdded
        <3>3. /\ DOMAIN Stream' = 1 .. Len(Stream') /\ DOMAIN Stream = 1 .. Len(Stream)
              /\ Len(Stream) \in Nat
            BY <2>1, <2>2
        <3>4. ASSUME NEW k \in DOMAIN Stream'
              PROVE  (k \in DOMAIN Stream /\ Stream'[k] = Stream[k]) \/ Stream'[k] = Zero
            BY <3>1, <3>2, <3>3, <3>4
        <3> QED
            BY <2>2, <3>4 DEF Aligned
    <2>4. Owner'
        BY <2>1 DEF Owner
    <2> QED
        BY <1>2, <2>1, <2>3, <2>4 DEF AlignInv
<1>9. CASE Rename
    <2>1. /\ place = "rename" /\ place' = "clean" /\ image' = partial /\ partial' = Absent
          /\ UNCHANGED <<buffer, source, told>>
        BY <1>9 DEF Rename, copying
    <2>2. partial # Absent /\ buffer = <<>> /\ told = Absent /\ Owner
        BY <2>1 DEF StreamInv, Refining, Owner
    <2>3. Stream = partial /\ Stream' = <<>>
        BY <2>1, <2>2 DEF Stream, Held, TypeOK
    <2> QED
        BY <1>3, <2>1, <2>2, <2>3 DEF AlignInv, Resumable
<1>10. CASE Clean
    <2>1. /\ place = "clean" /\ place' = "idle" /\ UNCHANGED <<partial, image>>
          /\ told'.source = source
        BY <1>10 DEF Clean, Forget
    <2>2. partial = Absent
        BY <2>1 DEF StreamInv
    <2> QED
        BY <2>1, <2>2 DEF AlignInv, Resumable, Owner
<1> QED
    BY <1>4, <1>5, <1>6, <1>7, <1>8, <1>9, <1>10, NextIs

\* What every step of the engine keeps: stream, saved state, tally, alignment.
ImageInv == TypeOK /\ StreamInv /\ SavedInv /\ TallyInv /\ AlignInv

LEMMA ImageStarts == Init => ImageInv
<1> SUFFICES ASSUME Init PROVE SavedInv /\ TallyInv /\ AlignInv
    BY TypeStarts DEF ImageInv
<1>1. SavedInv
    BY DEF Init, Idle, SavedInv, Owner, Saved
<1>2. TallyInv
    BY SummarizeNone DEF Init, Idle, TallyInv, TallyMatches, Saved
<1>3. AlignInv
    BY DEF Init, Idle, AlignInv, Owner, Resumable
<1> QED
    BY <1>1, <1>2, <1>3

LEMMA ImageSteps == ImageInv /\ [Next]_vars => ImageInv'
BY TypeSteps, SavedSteps, TallySteps, AlignSteps DEF ImageInv

\* However acquisitions are started, cancelled, cut off and resumed, the bytes
\* written, the checkpoint, its tally and the place of every unit agree: the
\* inductive invariant the imaging theorems are read off.
THEOREM ImageInvHolds == Spec => []ImageInv
BY ImageStarts, ImageSteps, PTL DEF Spec

\* An image, and what an acquisition will be resumed from, holds the units of
\* one source, each at its own offset.
THEOREM UnitsAreInPlace == Spec => []InPlace
<1>1. ImageInv => InPlace
    BY DEF ImageInv, AlignInv, StreamInv, InPlace, Aligned
<1> QED
    BY <1>1, ImageInvHolds, PTL

-----------------------------------------------------------------------------
(* Every zero is listed                                                    *)

\* A crash while a checkpoint is about to be written leaves the partial file
\* as it is, and so does every step that has nothing to write.
LEMMA CrashAtTruncate ==
    ASSUME place = "truncate", Crash
    PROVE  partial' = partial
<1>1. InFlight = <<>>
    BY DEF InFlight
<1> QED
    BY <1>1 DEF Crash, PutPartly

\* Steps of the acquisition that change neither the ranges nor what the
\* checkpoint says, or write the checkpoint.
LEMMA RangesStay ==
    ASSUME TypeOK, StreamInv, SavedInv, GrowStep, ~(Error \/ Crash),
           ~(PatchChunk \/ EndPass \/ BeginPass), "truncate" \notin CheckpointFailsAt
    PROVE  /\ ranges' = ranges /\ place' # "refine"
           /\ Saved' /\ place' # "truncate" =>
                 \/ checkpoint' = checkpoint /\ place # "truncate"
                 \/ checkpoint'.ranges = ranges
           /\ Saved' /\ place' = "truncate" => place # "truncate" /\ checkpoint' = checkpoint
<1>1. CASE TruncateCheckpoint \/ FillCheckpoint
    <2>1. place = "fill" => after \in {"open", "skip", "pass", "replace"}
        BY DEF StreamInv
    <2> QED
        BY <1>1, <2>1 DEF TruncateCheckpoint, FillCheckpoint, Saved, copying
<1>2. CASE CheckpointFails
    BY <1>2, PartialImageAssumption DEF CheckpointFails, Saved, copying, disk
<1>3. CASE \/ OpenWriter \/ ReadChunk \/ ReadFails \/ Spill \/ WriteData \/ WriteFails \/ Skip
           \/ Progress \/ EndCopy
    BY <1>3 DEF OpenWriter, ReadChunk, ReadFails, Spill, WriteData, WriteFails, Skip, Progress,
        EndCopy, Saved, copying, disk
<1>4. CASE EndRefinement \/ Replace
    BY <1>4 DEF EndRefinement, Replace, Persist, Saved, copying, disk
<1> QED
    BY <1>1, <1>2, <1>3, <1>4 DEF GrowStep

LEMMA TraceSteps ==
    ASSUME TypeOK, StreamInv, SavedInv, TraceInv, "truncate" \notin CheckpointFailsAt,
           [Next]_vars
    PROVE  TraceInv'
<1>1. TypeOK' /\ StreamInv' /\ SavedInv'
    BY TypeSteps, SavedSteps
<1>2. ASSUME Traced(Stream', ranges'), Resumable', checkpoint'.ranges = ranges'
      PROVE  Traced(partial', checkpoint'.ranges)
    <2>1. partial' # Absent
        BY <1>2 DEF Resumable
    <2>2. partial' \in Seq(Units) /\ buffer' \in Seq(Units) /\ Stream' = partial' \o buffer'
        BY <1>1, <2>1 DEF TypeOK, Stream, Held
    <2> QED
        BY <1>2, <2>2, PrefixKeeps
<1>3. \A rs : Traced(<<>>, rs)
    BY DEF Traced
<1>4. CASE UNCHANGED vars
    <2>1. Stream' = Stream /\ (Owner' <=> Owner) /\ (Resumable' <=> Resumable) /\ (Saved' <=> Saved)
        BY <1>4 DEF vars, Stream, Held, Owner, Resumable, Saved
    <2> QED
        BY <1>4, <2>1 DEF vars, TraceInv
<1>5. ASSUME NEW s \in Sources, NEW p \in {"standard", "cautious"}, Acquire(s, p)
      PROVE  TraceInv'
    <2>1. /\ place = "idle" /\ place' \in {"truncate", "discard"} /\ buffer' = <<>>
          /\ UNCHANGED <<image, told>>
        BY <1>5 DEF Acquire, Resume, Discard, Fresh, Start, Persist, StreamInv, disk
    <2>2. CASE Resume(s, p)
        <3>1. /\ UNCHANGED <<partial, checkpoint>> /\ partial # Absent /\ Resumable
              /\ ranges' = checkpoint.ranges
            BY <2>2 DEF Resume, Matches, Resumable, disk
        <3>2. Stream' = partial
            BY <2>1, <3>1 DEF Stream, Held, TypeOK
        <3> QED
            BY <2>1, <3>1, <3>2 DEF TraceInv, Resumable, Saved
    <2>3. CASE Discard(s, p)
        <3>1. partial' = Absent /\ place' = "discard"
            BY <2>3 DEF Discard
        <3> QED
            BY <2>1, <3>1 DEF TraceInv, Owner, Resumable
    <2>4. CASE Fresh(s, p)
        <3>1. partial' = Absent /\ place' = "truncate"
            BY <2>4 DEF Fresh, Persist, disk
        <3>2. Stream' = <<>>
            BY <2>1, <3>1 DEF Stream, Held
        <3> QED
            BY <1>3, <2>1, <3>1, <3>2 DEF TraceInv, Resumable
    <2> QED
        BY <1>5, <2>2, <2>3, <2>4 DEF Acquire
<1>6. CASE DiscardCheckpoint
    <2>1. /\ partial' = Absent /\ buffer' = <<>> /\ place' = "truncate"
          /\ UNCHANGED <<image, told>>
        BY <1>6 DEF DiscardCheckpoint, Persist, StreamInv, copying
    <2>2. Stream' = <<>>
        BY <2>1 DEF Stream, Held
    <2> QED
        BY <1>3, <2>1, <2>2 DEF TraceInv, Resumable
<1>7. CASE GrowStep
    <2>1. source \in Sources => \A rs : Traced(Stream, rs) => Traced(Stream', rs)
        BY <1>7, GrowStepsGrow, GrowingKeeps
    <2>2. CASE Error \/ Crash
        <3>1. /\ place # "idle" /\ place' = "idle" /\ FailLeaves /\ buffer' = <<>>
              /\ UNCHANGED <<checkpoint, image, told>>
            BY <1>7, <2>2, GrowStepsElse
        <3>2. ASSUME Resumable' PROVE Traced(partial', checkpoint'.ranges)
            <4>1. partial # Absent /\ Saved /\ partial' # Absent /\ Resumable
                BY <3>1, <3>2 DEF FailLeaves, Resumable, Saved
            <4>2. Owner /\ source \in Sources
                BY <3>1, <4>1 DEF Owner, StreamInv
            <4>3. CASE place = "truncate"
                <5>1. partial' = partial
                    BY <2>2, <4>3, CrashAtTruncate DEF Error
                <5> QED
                    BY <3>1, <4>1, <5>1 DEF TraceInv
            <4>4. CASE place # "truncate"
                <5>1. checkpoint.ranges = ranges /\ Traced(Stream, ranges)
                    BY <4>1, <4>2, <4>4 DEF TraceInv
                <5>2. Stream' = partial'
                    BY <1>1, <3>1, <4>1 DEF Stream, Held, TypeOK
                <5> QED
                    BY <2>1, <3>1, <4>2, <5>1, <5>2
            <4> QED
                BY <4>3, <4>4
        <3> QED
            BY <3>1, <3>2 DEF TraceInv, Owner
    <2>3. ASSUME ~(Error \/ Crash)
          PROVE  /\ Owner /\ Owner' /\ place' # "clean" /\ source \in Sources
                 /\ told' # Absent => Traced(image', told'.ranges)
                 /\ Traced(Stream, ranges) /\ Traced(Stream', ranges)
        <3>1. /\ Owner /\ Owner' /\ source \in Sources /\ place' # "clean"
              /\ UNCHANGED <<image, told>> \/ told' = Absent
            BY <1>7, <2>3, GrowStepsElse
        <3> QED
            BY <2>1, <3>1 DEF TraceInv
    <2>4. CASE PatchChunk
        <3>1. /\ place = "refine" /\ UNCHANGED <<place, checkpoint, ranges>>
              /\ ~(Error \/ Crash)
            BY <2>4 DEF PatchChunk, Error, Crash, Forget
        <3>2. /\ partial \in Seq(Units) /\ Len(partial) = Length
              /\ partial' \in Seq(Units) /\ Len(partial') = Length
              /\ \A k \in 1 .. Length :
                    partial'[k] = Zero =>
                       partial[k] = Zero /\ (Listed(work, k - 1) => Listed(work', k - 1))
            BY <2>4, PatchIs DEF TypeOK
        <3>3. Traced(partial', work')
            <4>1. DOMAIN partial = 1 .. Length /\ DOMAIN partial' = 1 .. Length
                BY <3>2
            <4> QED
                BY <3>1, <3>2, <4>1 DEF TraceInv, Traced
        <3>4. Saved' => checkpoint'.ranges = ranges'
            BY <2>3, <3>1 DEF TraceInv, Saved
        <3>5. Resumable' => Traced(partial', checkpoint'.ranges)
            BY <1>2, <2>3, <3>1, <3>4 DEF Resumable
        <3> QED
            BY <2>3, <3>1, <3>3, <3>4, <3>5 DEF TraceInv
    <2>5. CASE EndPass
        <3>1. /\ place = "refine" /\ place' = "truncate" /\ ranges' = MergeRanges(work)
              /\ UNCHANGED <<partial, checkpoint, buffer>> /\ ~(Error \/ Crash)
            BY <2>5 DEF EndPass, Persist, Error, Crash, Forget, disk
        <3>2. /\ partial # Absent /\ buffer = <<>> /\ Len(partial) = Length
              /\ partial \in Seq(Units) /\ work \in Seq(Unreadable) /\ Traced(partial, work)
            BY <3>1 DEF StreamInv, Refining, TypeOK, TraceInv
        <3>3. Stream' = partial
            BY <3>1, <3>2 DEF Stream, Held
        <3>4. \A o \in 0 .. Length - 1 : Listed(work, o) => Listed(ranges', o)
            BY <3>1, <3>2, MergeRangesKeep
        <3>5. \A i \in DOMAIN partial : i - 1 \in 0 .. Length - 1
            BY <3>2, PartialImageAssumption
        <3>6. Traced(Stream', ranges')
            BY <3>2, <3>3, <3>4, <3>5 DEF Traced
        <3>7. Resumable' => Traced(partial', checkpoint'.ranges)
            BY <3>1 DEF TraceInv, Resumable, Saved
        <3> QED
            BY <2>3, <3>1, <3>6, <3>7 DEF TraceInv
    <2>6. CASE BeginPass
        <3>1. /\ place = "pass" /\ place' = "refine" /\ work' = ranges
              /\ UNCHANGED <<partial, checkpoint, buffer, ranges>> /\ ~(Error \/ Crash)
            BY <2>6 DEF BeginPass, Error, Crash, Forget, disk
        <3>2. partial # Absent /\ buffer = <<>> /\ partial \in Seq(Units)
            BY <3>1 DEF StreamInv, Refining, TypeOK
        <3>3. Stream' = partial'
            BY <3>1, <3>2 DEF Stream, Held
        <3>4. Saved' => checkpoint'.ranges = ranges'
            BY <2>3, <3>1 DEF TraceInv, Saved
        <3>5. Resumable' => Traced(partial', checkpoint'.ranges)
            BY <1>2, <2>3, <3>1, <3>4 DEF Resumable
        <3> QED
            BY <2>3, <3>1, <3>3, <3>4, <3>5 DEF TraceInv
    <2>7. CASE ~(Error \/ Crash) /\ ~(PatchChunk \/ EndPass \/ BeginPass)
        <3>1. /\ ranges' = ranges /\ place' # "refine"
              /\ Saved' /\ place' # "truncate" =>
                    \/ checkpoint' = checkpoint /\ place # "truncate"
                    \/ checkpoint'.ranges = ranges
              /\ Saved' /\ place' = "truncate" => place # "truncate" /\ checkpoint' = checkpoint
            BY <1>7, <2>7, RangesStay
        <3>2. Saved' => checkpoint'.ranges = ranges'
            BY <2>3, <2>7, <3>1 DEF TraceInv, Saved
        <3>3. Resumable' => Traced(partial', checkpoint'.ranges)
            BY <1>2, <2>3, <2>7, <3>1, <3>2 DEF Resumable
        <3> QED
            BY <2>3, <2>7, <3>1, <3>2, <3>3 DEF TraceInv
    <2> QED
        BY <2>2, <2>4, <2>5, <2>6, <2>7
<1>8. CASE WriteSkip
    <2>1. /\ place = "write" /\ place' = "truncate" /\ Stream' = Stream \o Zeros(SkipLength)
          /\ partial' = partial /\ Len(Stream) = copied
          /\ SkipLength \in 1 .. Length /\ Stream' \in Seq(Units)
          /\ copied \in 0 .. Length - 1 /\ copied + SkipLength <= Length
          /\ ranges \in Seq(Unreadable) /\ lastEnd \in {NoEnd, EndOf(ranges)}
          /\ ranges' = PushMerged(ranges, lastEnd, copied, SkipLength)
          /\ UNCHANGED <<checkpoint, image, source, told>>
        BY <1>8, WriteSkipAdds
    <2> HIDE DEF SkipLength
    <2>2. Stream \in Seq(Units) /\ Traced(Stream, ranges)
        BY <2>1, StreamIs DEF TraceInv, Owner
    <2>3. \A o \in 0 .. Length - 1 :
             Listed(ranges, o) \/ (copied <= o /\ o < copied + SkipLength) => Listed(ranges', o)
        BY <2>1, PushMergedIs
    <2>4. Traced(Stream', ranges')
        <3>1. SkipLength \in Nat /\ copied \in Nat /\ Length \in Nat
            BY <2>1, PartialImageAssumption
        <3>2. /\ Len(Stream') = copied + SkipLength
              /\ \A k \in 1 .. copied : Stream'[k] = Stream[k]
            BY <2>1, <2>2, <3>1, ZerosAdded
        <3>3. DOMAIN Stream' = 1 .. copied + SkipLength /\ DOMAIN Stream = 1 .. copied
            BY <2>1, <2>2, <3>2
        <3>4. ASSUME NEW k \in DOMAIN Stream', Stream'[k] = Zero
              PROVE  Listed(ranges', k - 1)
            <4>1. k \in 1 .. copied + SkipLength /\ k - 1 \in 0 .. Length - 1
                BY <2>1, <3>1, <3>3
            <4>2. CASE k \in 1 .. copied
                BY <2>2, <2>3, <3>2, <3>3, <3>4, <4>1, <4>2 DEF Traced
            <4>3. CASE k \notin 1 .. copied
                <5>1. copied <= k - 1 /\ k - 1 < copied + SkipLength
                    BY <3>1, <4>1, <4>3
                <5> QED
                    BY <2>3, <4>1, <5>1
            <4> QED
                BY <4>2, <4>3
        <3> QED
            BY <3>4 DEF Traced
    <2>5. Resumable' => Traced(partial', checkpoint'.ranges)
        BY <2>1 DEF TraceInv, Resumable, Saved
    <2> QED
        BY <2>1, <2>4, <2>5 DEF TraceInv
<1>9. CASE Rename
    <2>1. /\ place = "rename" /\ place' = "clean" /\ image' = partial /\ partial' = Absent
          /\ UNCHANGED <<buffer, ranges, checkpoint, told>>
        BY <1>9 DEF Rename, copying
    <2>2. partial # Absent /\ buffer = <<>> /\ told = Absent /\ Owner
        BY <2>1 DEF StreamInv, Refining, Owner
    <2>3. Stream = partial /\ Stream' = <<>>
        BY <2>1, <2>2 DEF Stream, Held, TypeOK
    <2>4. Saved' => checkpoint'.ranges = ranges'
        BY <2>1, <2>2 DEF TraceInv, Saved
    <2> QED
        BY <1>3, <2>1, <2>2, <2>3, <2>4 DEF TraceInv, Resumable
<1>10. CASE Clean
    <2>1. /\ place = "clean" /\ place' = "idle" /\ UNCHANGED <<partial, image>>
          /\ told'.ranges = ranges
        BY <1>10 DEF Clean, Forget
    <2>2. partial = Absent
        BY <2>1 DEF StreamInv
    <2> QED
        BY <2>1, <2>2 DEF TraceInv, Resumable, Owner
<1> QED
    BY <1>4, <1>5, <1>6, <1>7, <1>8, <1>9, <1>10, NextIs

\* Unless creating the checkpoint can fail, whatever dies, every zero of an
\* image is listed by what was returned with it, and every zero of a partial
\* file by the checkpoint it will be resumed from.
THEOREM NoGapIsSilent ==
    "truncate" \notin CheckpointFailsAt => (Spec => []NoSilentGap)
<1> SUFFICES ASSUME "truncate" \notin CheckpointFailsAt
             PROVE  Spec => []NoSilentGap
    OBVIOUS
<1>1. Init => ImageInv /\ TraceInv
    <2>1. Init => TraceInv
        BY DEF Init, Idle, TraceInv, Owner, Resumable
    <2>2. Init => ImageInv
        BY ImageStarts
    <2> QED
        BY <2>1, <2>2
<1>2. ImageInv /\ TraceInv /\ [Next]_vars => ImageInv' /\ TraceInv'
    BY ImageSteps, TraceSteps DEF ImageInv
<1>3. ImageInv /\ TraceInv => NoSilentGap
    BY DEF ImageInv, TraceInv, StreamInv, NoSilentGap, ZerosTraced, Traced
<1> QED
    BY <1>1, <1>2, <1>3, PTL DEF Spec

-----------------------------------------------------------------------------
(* What a step may never take away                                         *)

LEMMA SavedIsACheckpoint ==
    ASSUME TypeOK, StreamInv, SavedInv, place = "replace"
    PROVE  Saved /\ checkpoint.source = source
<1>1. checkpoint = [source |-> source, ranges |-> ranges, tally |-> tally, passes |-> passes]
    BY DEF SavedInv
<1>2. source \in Sources
    BY DEF StreamInv
<1>3. checkpoint \in Checkpoints
    BY <1>1, <1>2 DEF TypeOK, Checkpoints
<1> QED
    BY <1>1, <1>3, PartialImageAssumption DEF Saved

\* finalize_partial_image: an image goes only when its replacement is whole on
\* disk, in a partial file another acquisition of the source could resume.
THEOREM ImagesAreReplacedLast == Spec => ReplaceLast
<1>1. ASSUME ImageInv, [Next]_vars, image # Absent, image' = Absent
      PROVE  Resumable /\ Len(partial) = Length /\ checkpoint.source = source
    <2>1. CASE Replace
        <3>1. place = "replace" /\ source \in Sources
            BY <1>1, <2>1 DEF Replace, ImageInv, StreamInv
        <3>2. partial # Absent /\ Len(partial) = Length
            BY <1>1, <3>1 DEF ImageInv, StreamInv, Refining
        <3>3. Saved /\ checkpoint.source = source
            BY <1>1, <3>1, SavedIsACheckpoint DEF ImageInv
        <3> QED
            BY <3>2, <3>3 DEF Resumable
    <2>2. CASE Rename
        BY <1>1, <2>2 DEF Rename, ImageInv, StreamInv, Refining
    <2>3. CASE ~Replace /\ ~Rename
        <3>1. image' = image
            <4>1. CASE UNCHANGED vars
                BY <4>1 DEF vars
            <4>2. ASSUME NEW s \in Sources, NEW p \in {"standard", "cautious"}, Acquire(s, p)
                  PROVE  image' = image
                BY <4>2 DEF Acquire, Resume, Discard, Fresh, disk
            <4>3. CASE DiscardCheckpoint \/ WriteSkip \/ Clean
                BY <4>3 DEF DiscardCheckpoint, WriteSkip, Clean
            <4>4. CASE GrowStep
                BY <2>3, <4>4 DEF GrowStep, TruncateCheckpoint, FillCheckpoint, CheckpointFails,
                    OpenWriter, ReadChunk, ReadFails, Spill, WriteData, WriteFails, Skip,
                    Progress, EndCopy, BeginPass, PatchChunk, EndPass, EndRefinement, Error,
                    Crash, disk
            <4> QED
                BY <1>1, <2>3, <4>1, <4>2, <4>3, <4>4, NextIs
        <3> QED
            BY <1>1, <3>1
    <2> QED
        BY <2>1, <2>2, <2>3
<1>2. ImageInv /\ [Next]_vars =>
         [image # Absent /\ image' = Absent =>
             Resumable /\ Len(partial) = Length /\ checkpoint.source = source]_vars
    BY <1>1
<1> QED
    BY <1>2, ImageInvHolds, PTL DEF ReplaceLast, Spec

\* Starting again on the same source, and everything that follows short of the
\* end of the process, keeps the units captured or renames them to the image.
THEOREM CapturesAreKept == Spec => CapturedKept
<1> DEFINE Kept ==
              \/ /\ partial' # Absent /\ Len(partial') >= Len(partial)
                 /\ \A i \in DOMAIN partial : partial[i] # Zero => partial'[i] = partial[i]
              \/ image' = partial
<1>1. ASSUME ImageInv, [Next]_vars, Resumable, source' = checkpoint.source
      PROVE  Kept
    <2>1. /\ TypeOK /\ StreamInv /\ partial # Absent /\ Saved
          /\ partial \in Seq(Units) /\ Len(partial) \in Nat /\ Len(partial) <= Length
          /\ source' \in Sources
        BY <1>1 DEF ImageInv, Resumable, TypeOK, Checkpoints
    <2>2. partial' = partial => Kept
        BY <2>1
    <2>3. ASSUME NEW data \in Seq(Units), partial' = partial \o data
          PROVE  Kept
        <3>1. partial' \in Seq(Units) /\ Len(partial') = Len(partial) + Len(data)
            BY <2>1, <2>3
        <3>2. Len(data) \in Nat
            OBVIOUS
        <3>3. partial' # Absent
            BY <3>1, PartialImageAssumption
        <3>4. \A i \in DOMAIN partial : partial'[i] = partial[i]
            BY <2>1, <2>3
        <3> QED
            BY <2>1, <3>1, <3>2, <3>3, <3>4
    <2> HIDE DEF Kept
    <2>4. CASE UNCHANGED vars
        BY <2>2, <2>4 DEF vars
    <2>5. ASSUME NEW s \in Sources, NEW p \in {"standard", "cautious"}, Acquire(s, p)
          PROVE  Kept
        <3>1. CASE Discard(s, p)
            <4>1. source' = s /\ ~Matches(s)
                BY <3>1 DEF Discard, Start
            <4> QED
                BY <1>1, <2>1, <4>1 DEF Matches
        <3>2. CASE Resume(s, p) \/ Fresh(s, p)
            BY <2>2, <3>2 DEF Resume, Fresh, disk
        <3> QED
            BY <2>5, <3>1, <3>2 DEF Acquire
    <2>6. CASE \/ DiscardCheckpoint \/ TruncateCheckpoint \/ FillCheckpoint \/ CheckpointFails
               \/ ReadChunk \/ ReadFails \/ Skip \/ Progress \/ BeginPass \/ EndPass
               \/ EndRefinement \/ Replace
        BY <2>2, <2>6 DEF DiscardCheckpoint, TruncateCheckpoint, FillCheckpoint,
            CheckpointFails, ReadChunk, ReadFails, Skip, Progress, BeginPass, EndPass,
            EndRefinement, Replace, disk
    <2>7. CASE OpenWriter
        <3>1. copied = Len(partial) /\ partial' = Opened
            BY <2>1, <2>7 DEF OpenWriter, StreamInv, Opening, Held
        <3>2. copied = 0 => partial = <<>>
            <4>1. \A x \in Seq(Units) : Len(x) = 0 => x = <<>>
                OBVIOUS
            <4>2. partial \in Seq(Units)
                BY <2>1
            <4> QED
                BY <3>1, <4>1, <4>2
        <3>3. partial' = partial
            BY <2>1, <3>1, <3>2 DEF Opened
        <3> QED
            BY <2>2, <3>3
    <2>8. CASE Spill \/ EndCopy
        <3>1. partial' = partial \o buffer /\ buffer \in Seq(Units)
            BY <2>1, <2>8 DEF Spill, EndCopy, Flush, TypeOK
        <3> QED
            BY <2>3, <3>1
    <2>9. CASE WriteData \/ WriteSkip
        <3>1. Store /\ pending \in Seq(Units)
            BY <2>1, <2>9 DEF WriteData, WriteSkip, TypeOK
        <3> QED
            BY <2>2, <2>3, <3>1 DEF Store
    <2>10. CASE PatchChunk
        <3>1. /\ partial' # Absent /\ Len(partial) = Length /\ Len(partial') = Length
              /\ partial' \in Seq(Units) /\ Stream = partial /\ Stream' = partial' /\ GrowsInPlace
            BY <2>1, <2>10, PatchIs
        <3>2. source = checkpoint.source
            BY <1>1, <2>10 DEF PatchChunk
        <3>3. \A i \in DOMAIN partial : partial[i] \in {Zero, <<source, i - 1>>}
            BY <1>1, <3>2 DEF ImageInv, AlignInv, Aligned
        <3>4. DOMAIN partial = 1 .. Length /\ DOMAIN partial' = 1 .. Length
            BY <2>1, <3>1
        <3>5. \A i \in 1 .. Length : partial'[i] = <<source, i - 1>> \/ partial'[i] = partial[i]
            BY <3>1, <3>4 DEF GrowsInPlace
        <3> QED
            BY <2>1, <3>1, <3>3, <3>4, <3>5 DEF Kept
    <2>11. CASE WriteFails
        <3>1. PICK n \in 0 .. Len(InFlight) : PutPartly(InFlight, n)
            BY <2>11 DEF WriteFails
        <3>2. InFlight \in Seq(Units)
            <4>1. buffer \in Seq(Units) /\ pending \in Seq(Units) /\ <<>> \in Seq(Units)
                BY <2>1 DEF TypeOK
            <4> QED
                BY <2>1, <4>1, InFlightIs
        <3>3. SubSeq(InFlight, 1, n) \in Seq(Units)
            BY <3>2
        <3> QED
            BY <2>2, <2>3, <3>1, <3>3 DEF PutPartly
    <2>12. CASE Rename
        BY <2>12 DEF Rename, Kept
    <2>13. CASE Clean \/ Error \/ Crash
        BY <2>1, <2>13, PartialImageAssumption DEF Clean, Error, Crash, Forget
    <2> QED
        BY <1>1, <2>4, <2>5, <2>6, <2>7, <2>8, <2>9, <2>10, <2>11, <2>12, <2>13 DEF Next, Process, Done
<1>2. ImageInv /\ [Next]_vars =>
         [Resumable /\ source' = checkpoint.source =>
             \/ /\ partial' # Absent /\ Len(partial') >= Len(partial)
                /\ \A i \in DOMAIN partial : partial[i] # Zero => partial'[i] = partial[i]
             \/ image' = partial]_vars
    BY <1>1 DEF Kept
<1> QED
    BY <1>2, ImageInvHolds, PTL DEF CapturedKept, Spec
=============================================================================
