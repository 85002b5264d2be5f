------------------------------- MODULE Carving -------------------------------
(***************************************************************************)
(* Signature carving: the scan of an image window by window, the end of a  *)
(* candidate by the footer strategy of its signature, the validators, the  *)
(* removal of gaps from a fragmented candidate, and the scan in parallel   *)
(* segments.                                                               *)
(*                                                                         *)
(* An image is a sequence of cells.  A cell stands for the bytes of a      *)
(* marker, a length field or a piece of data; Erased is what TRIM leaves   *)
(* and Filled a run of 0xff.  Lengths and offsets count cells.             *)
(***************************************************************************)
EXTENDS Integers, SequencesExt, StableSort

CONSTANTS CarvingChunkSize, CarvingOverlapSize, ErasedPageSize,
          FragmentGapMinSize, MaxRemovableGaps, MaxAssemblySegments,
          MaxFragmentGapCandidates, MinSegmentSize

Erased == 0
Filled == 99

NoEnd == -1

(*------------------------------- Signatures ------------------------------*)
\* One signature of each footer strategy; "sub" is what must follow the header.
Signature(ext, header, sub, kind, footer, low, high) ==
  [ext |-> ext, header |-> header, sub |-> sub, kind |-> kind, footer |-> footer,
   minSize |-> low, maxSize |-> high]

Signatures ==
  << Signature("jpg", <<11, 12>>, <<>>, "fixed", <<13>>, 4, 12),
     Signature("png", <<21>>, <<>>, "fixed", <<22, 23>>, 5, 12),
     Signature("zip", <<31>>, <<>>, "eocd", <<32>>, 3, 12),
     Signature("avi", <<41>>, <<42>>, "riff", <<>>, 1, 12),
     Signature("bmp", <<51>>, <<>>, "size", <<>>, 3, 12),
     Signature("mp4", <<2, 61>>, <<>>, "atom", <<>>, 4, 12),
     Signature("mkv", <<71>>, <<>>, "ebml", <<72>>, 3, 12),
     Signature("doc", <<81>>, <<>>, "ole", <<>>, 3, 12),
     Signature("tif", <<91>>, <<>>, "max", <<>>, 2, 4),
     Signature("mp3", <<95>>, <<>>, "id3", <<96>>, 3, 12) >>

\* read_window, and the byte at an offset.
Window(image, at, length) == SubSeq(image, at + 1, Min({at + length, Len(image)}))

CellAt(image, at) == image[at + 1]

Places(buffer, needle) ==
  {p \in 0..(Len(buffer) - Len(needle)) : Window(buffer, p, Len(needle)) = needle}

\* find_bytes.
FindBytes(buffer, needle) ==
  IF Places(buffer, needle) = {} THEN NoEnd ELSE Min(Places(buffer, needle))

\* What must follow the header at a place does, one cell behind it.
SubFollows(buffer, at, s) ==
  s.sub # <<>> => Window(buffer, at + Len(s.header) + 1, Len(s.sub)) = s.sub

\* The cells from the header on that tell a signature.
Reach(s) == Len(s.header) + (IF s.sub = <<>> THEN 0 ELSE 1 + Len(s.sub))

\* find_next_signature: of each signature only the first place of its header is
\* looked at; the earliest match wins, and of two at one place the first listed.
SignatureMatches(buffer) ==
  LET At(i) == FindBytes(buffer, Signatures[i].header)
      Matches(i) == At(i) # NoEnd /\ SubFollows(buffer, At(i), Signatures[i])
  IN {<<At(i), i>> : i \in {i \in DOMAIN Signatures : Matches(i)}}

FirstMatch(matches) ==
  CHOOSE m \in matches : \A n \in matches : m[1] < n[1] \/ (m[1] = n[1] /\ m[2] <= n[2])

(*---------------------------- Footer strategies --------------------------*)
\* find_zip_end_offset: the first end record that is cut off, or whose comment
\* ends inside the window.  The record is its marker and the comment's length.
ZipEnd(searchStart, buffer, limit) ==
  LET cut == {m \in Places(buffer, <<32>>) : m + 2 > Len(buffer)}
      End(m) == m + 2 + CellAt(buffer, m + 1)
      whole == {m \in Places(buffer, <<32>>) \ cut : End(m) <= Len(buffer)}
  IN CASE cut \cup whole = {} -> NoEnd
       [] cut \cup whole # {} -> IF Min(cut \cup whole) \in cut THEN limit
                                 ELSE searchStart + End(Min(whole))

\* resolve_container_atom_end: atoms of <<size, type>> one after the other.  The
\* walk goes past the limit by the last atom, and is cut to it.
ContainerEnd(image, start, limit) ==
  LET Starts(at) == at + 1 < Len(image) /\ CellAt(image, at) >= 2
      walk[at \in Nat] ==      \* <<where the walk stops, an atom of data was met>>
        IF at >= limit \/ at + 1 >= Len(image) THEN <<at, FALSE>>
        ELSE IF CellAt(image, at) = 0 THEN <<limit, TRUE>>
        ELSE IF ~Starts(at) THEN <<at, FALSE>>
        ELSE LET rest == walk[at + CellAt(image, at)]
             IN <<rest[1], rest[2] \/ CellAt(image, at + 1) \in {62, 63}>>
      end == walk[start]
  IN IF end[2] \/ end[1] > start + 4 THEN Min({end[1], limit}) ELSE NoEnd

\* resolve_ebml_end, parse_ebml_vint: the header's size, then the segment's.
EbmlEnd(image, start, limit) ==
  LET after == start + 2 + CellAt(image, start + 1)
  IN IF start + 1 >= Len(image) THEN NoEnd
     ELSE IF Window(image, after, 1) # <<72>> \/ after + 1 >= Len(image) THEN NoEnd
     ELSE Min({after + 2 + CellAt(image, after + 1), limit})

\* resolve_mp3_end: after the ID3 tag, three frames <<96, size>> at least.
Mp3End(image, start, limit) ==
  LET tag == IF start + 1 < Len(image) THEN start + 2 + CellAt(image, start + 1) ELSE start
      walk[at \in Nat] ==      \* <<where the frames end, how many>>
        IF at >= limit \/ at + 1 >= Len(image) THEN <<at, 0>>
        ELSE IF CellAt(image, at) # 96 \/ CellAt(image, at + 1) < 2 THEN <<at, 0>>
        ELSE LET rest == walk[at + CellAt(image, at + 1)] IN <<rest[1], rest[2] + 1>>
  IN IF walk[tag][2] >= 3 THEN Min({walk[tag][1], limit}) ELSE NoEnd

\* The first half of carve_candidate: where a candidate ends; NoEnd when the
\* strategy fails, and the candidate is what the largest size allows.
StrategyEnd(image, start, s, limit) ==
  LET searchStart == start + Len(s.header)
      buffer == Window(image, searchStart, Max({0, limit - searchStart}))
      found == FindBytes(buffer, s.footer)
      field == IF start + 1 < limit THEN CellAt(image, start + 1) ELSE NoEnd
      Within(end, size) == IF field # NoEnd /\ end <= limit /\ size >= s.minSize THEN end ELSE NoEnd
  IN CASE s.kind = "fixed" -> IF found = NoEnd THEN NoEnd ELSE searchStart + found + Len(s.footer)
       [] s.kind = "eocd" -> ZipEnd(searchStart, buffer, limit)
       [] s.kind = "riff" -> Within(start + field + 2, field)
       [] s.kind = "size" -> Within(start + field, field)
       [] s.kind = "ole" -> Within(start + (field + 1) * 2, IF field > 0 THEN s.minSize ELSE 0)
       [] s.kind = "atom" -> ContainerEnd(image, start, limit)
       [] s.kind = "ebml" -> EbmlEnd(image, start, limit)
       [] s.kind = "id3" -> Mp3End(image, start, limit)
       [] s.kind = "max" -> NoEnd

(*------------------------------- Validators ------------------------------*)
\* validate_png_bytes: the signature, then chunks <<length, type, data, crc>>
\* whose crc fits, the header's first and the end's last.
ValidPng(bytes) ==
  LET walk[at \in Nat] ==
        IF at + 3 > Len(bytes) THEN FALSE
        ELSE LET end == at + 3 + CellAt(bytes, at)
                 data == Window(bytes, at + 1, CellAt(bytes, at) + 1)
             IN IF end > Len(bytes) THEN FALSE
                ELSE /\ CellAt(bytes, end - 1) = FoldLeft(+, 0, data) % 10
                     /\ at = 1 => CellAt(bytes, at + 1) = 24
                     /\ IF CellAt(bytes, at + 1) = 22 THEN end = Len(bytes) ELSE walk[end]
  IN IsPrefix(<<21>>, bytes) /\ walk[1]

\* The zip library reads an archive that was not overwritten.
ZipOpens(bytes) == Range(bytes) \cap {Erased, Filled} = {}

\* validate_candidate_bytes; a bitmap is asked for its header and its length.
Validates(s, bytes) ==
  CASE s.ext = "jpg" -> IsPrefix(<<11, 12>>, bytes) /\ IsSuffix(<<13>>, bytes)
    [] s.ext = "png" -> ValidPng(bytes)
    [] s.ext = "zip" -> ZipOpens(bytes)
    [] s.ext = "bmp" -> IsPrefix(<<51>>, bytes) /\ Len(bytes) >= 3
    [] OTHER -> TRUE

\* is_office_zip, validated_status_for_signature.
ValidatedStatus(s, bytes, reassembled) ==
  CASE s.ext = "zip" -> IF 33 \in Range(bytes) THEN "office-validated" ELSE "zip-validated"
    [] s.ext # "zip" -> IF reassembled THEN "reassembled" ELSE "validated"

(*----------------------------- Fragmentation -----------------------------*)
\* removable_gap_ranges: runs of one fill value, the longest first.
GapRanges(bytes) ==
  LET Fill(from, to) == \E v \in {Erased, Filled} : \A i \in from..(to - 1) : CellAt(bytes, i) = v
      IsRun(from, to) == /\ to - from >= FragmentGapMinSize /\ Fill(from, to)
                         /\ from > 0 => ~Fill(from - 1, to)
                         /\ to < Len(bytes) => ~Fill(from, to + 1)
      runs == {run \in (0..Len(bytes)) \X (0..Len(bytes)) : IsRun(run[1], run[2])}
      Before(g, h) == \/ g[2] - g[1] > h[2] - h[1]
                      \/ g[2] - g[1] = h[2] - h[1] /\ g[1] < h[1]
  IN Ranked(runs, {p \in runs \X runs : Before(p[1], p[2])})

\* gaps_overlap_or_touch.
Touch(g, h) == g[1] <= h[2] /\ h[1] <= g[2]

\* byte_runs_without_gaps, of a set of gaps: <<from, to>> of each piece left.
PiecesLeft(length, gaps) ==
  LET cuts == {0} \cup {g[2] : g \in gaps}
      Stop(from) == Min({length} \cup {g[1] : g \in {g \in gaps : g[1] >= from}})
      left == {<<from, Stop(from)>> : from \in {c \in cuts : c < Stop(c)}}
  IN Ranked(left, {p \in left \X left : p[1][1] < p[2][1]})

\* stitched_bytes_without_gaps.
Stitched(bytes, pieces) ==
  FlattenSeq([i \in DOMAIN pieces |-> Window(bytes, pieces[i][1], pieces[i][2] - pieces[i][1])])

\* recover_fragmented_candidate_runs_with_gap_count: one choice, "chosen", of the gaps
\* "ranges", and the bytes it leaves.
Works(s, bytes, ranges, chosen) ==
  LET pieces == PiecesLeft(Len(bytes), {ranges[i] : i \in chosen})
      Inner(i) == ranges[i][1] > 0 /\ ranges[i][2] < Len(bytes)
  IN /\ chosen # {}
     /\ Cardinality(chosen) <= Min({MaxRemovableGaps, MaxAssemblySegments - 1})
     /\ \A i \in chosen : Inner(i) /\ \A j \in chosen \ {i} : ~Touch(ranges[i], ranges[j])
     /\ Len(pieces) <= MaxAssemblySegments
     /\ \E left \in {Stitched(bytes, pieces)} : Len(left) >= s.minSize /\ Validates(s, left)

\* The fewest gaps, and of those the first in the order of the ranges.
FewestGaps(choices) ==
  LET Earlier(a, b) == \/ Cardinality(a) < Cardinality(b)
                       \/ /\ Cardinality(a) = Cardinality(b) /\ a # b
                          /\ Min((a \ b) \cup (b \ a)) \in a
  IN CHOOSE a \in choices : \A b \in choices : a = b \/ Earlier(a, b)

\* recover_fragmented_candidate_runs: the pieces that make a valid file.  <<>> when
\* none do.
FragmentedPieces(s, bytes, ranges) ==
  LET tried == SubSeq(ranges, 1, Min({Len(ranges), MaxFragmentGapCandidates}))
      working == {chosen \in SUBSET DOMAIN tried : Works(s, bytes, tried, chosen)}
  IN IF working = {} THEN <<>> ELSE PiecesLeft(Len(bytes), {ranges[i] : i \in FewestGaps(working)})

(*------------------------------- Candidates ------------------------------*)
\* What a candidate whose end the strategy found turns out to be.
Judged(s, start, bytes, pieces) ==
  CASE Validates(s, bytes) ->
         [integrity |-> "intact", runs |-> <<<<start, start + Len(bytes)>>>>,
          status |-> ValidatedStatus(s, bytes, FALSE)]
    [] ~Validates(s, bytes) /\ pieces = <<>> ->
         [integrity |-> "corrupt", runs |-> <<<<start, start + Len(bytes)>>>>, status |-> "failed"]
    [] ~Validates(s, bytes) /\ pieces # <<>> ->
         [integrity |-> "fragmented",
          runs |-> [i \in DOMAIN pieces |-> <<start + pieces[i][1], start + pieces[i][2]>>],
          status |-> ValidatedStatus(s, Stitched(bytes, pieces), TRUE)]

\* The second half of carve_candidate.  Bytes that fall short of the end are what
\* the strategy could not read.
Candidate(s, start, end, met, bytes) ==
  LET judged == IF met /\ Len(bytes) = end - start
                THEN Judged(s, start, bytes, FragmentedPieces(s, bytes, GapRanges(bytes)))
                ELSE [integrity |-> "partial", runs |-> <<<<start, end>>>>, status |-> "partial-unvalidated"]
  IN [start |-> start, size |-> end - start, ext |-> s.ext,
      integrity |-> judged.integrity, runs |-> judged.runs, status |-> judged.status]

CarveCandidate(image, start, s, limit, strategy) ==
  LET end == IF strategy = NoEnd THEN limit ELSE strategy
  IN Candidate(s, start, end, strategy # NoEnd, Window(image, start, end - start))

\* carve_candidate gives up on a candidate below the smallest credible size, and
\* with it the whole carve.
TooSmall(candidate, s) == candidate.size < s.minSize

\* carving_candidate_end_offset.
CandidateEnd(candidate) == Last(candidate.runs)[2]

(*--------------------------------- Scans ---------------------------------*)
\* carve_segment skips a window that is erased, or whose pages mostly are.
SkipsWindow(window) ==
  LET Page(k) == Window(window, k * ErasedPageSize, ErasedPageSize)
      AllErased(bytes) == Range(bytes) = {Erased}
      zero == Cardinality({k \in 0..((Len(window) - 1) \div ErasedPageSize) : AllErased(Page(k))})
  IN \/ AllErased(window)
     \/ Len(window) >= ErasedPageSize /\ (zero * 100) \div (Len(window) \div ErasedPageSize) > 80

\* The bug of moving on by the whole window.
AdvanceWholeWindow(window) == Len(window)

\* How far a scan moves on from a window without a match.
WindowAdvance(window) == Max({0, Len(window) - CarvingOverlapSize})

Carved(ok, found) == [ok |-> ok, found |-> found]

\* A candidate of signature s at "start".
CarvedAt(image, start, s) ==
  LET limit == Min({Len(image), start + s.maxSize})
  IN CarveCandidate(image, start, s, limit, StrategyEnd(image, start, s, limit))

\* What one window says to do: stop, move on by so much, or keep a candidate.
WindowStep(image, at, window, matches) ==
  CASE window = <<>> -> [do |-> "stop"]
    [] window # <<>> /\ SkipsWindow(window) -> [do |-> "move", by |-> Len(window)]
    [] window # <<>> /\ ~SkipsWindow(window) ->
         IF matches # {}
         THEN \* The match is <<place, signature>>.
              LET match == FirstMatch(matches)
              IN [do |-> "carve", start |-> at + match[1], sign |-> Signatures[match[2]]]
         ELSE IF WindowAdvance(window) = 0 THEN [do |-> "stop"]
         ELSE [do |-> "move", by |-> WindowAdvance(window)]

\* carve_segment: the candidates from "at" on, or an error.
CarveSegment(image, segmentStart, segmentEnd) ==
  LET scan[at \in Nat] ==
        LET Keep(candidate, tooSmall, rest) ==
              IF tooSmall THEN Carved(FALSE, <<>>)
              ELSE Carved(rest.ok, <<candidate>> \o rest.found)
            After(candidate, s, start) ==
              Keep(candidate, TooSmall(candidate, s), scan[Max({CandidateEnd(candidate), start + 1})])
            Follow(step) ==
              CASE step.do = "stop" -> Carved(TRUE, <<>>)
                [] step.do = "move" -> scan[at + step.by]
                [] step.do = "carve" -> After(CarvedAt(image, step.start, step.sign), step.sign, step.start)
            Look(window) == WindowStep(image, at, window, SignatureMatches(window))
        IN IF at >= segmentEnd THEN Carved(TRUE, <<>>)
           ELSE Follow(Look(Window(image, at, CarvingChunkSize)))
  IN scan[segmentStart]

\* carve_signatures: what the segments found, in order; of candidates at one
\* offset the first is kept.
Merged(parts) ==
  LET finds == UNION {{<<i, k>> : k \in DOMAIN parts[i].found} : i \in DOMAIN parts}
      At(f) == parts[f[1]].found[f[2]]
      First(f) == \A e \in finds : (e[1] < f[1] \/ (e[1] = f[1] /\ e[2] < f[2])) => At(e).start # At(f).start
      kept == {At(f) : f \in {f \in finds : First(f)}}
  IN Carved(\A i \in DOMAIN parts : parts[i].ok,
            Ranked(kept, {p \in kept \X kept : p[1].start < p[2].start}))

\* carve_signatures: one segment for a small image, or one for each thread.
Segments(size, threads) ==
  LET segment == Max({size \div threads, MinSegmentSize})
      overlap == 2 + CarvingOverlapSize
      Bounds(i) == <<IF i = 0 THEN 0 ELSE Max({0, i * segment - overlap}), Min({(i + 1) * segment, size})>>
  IN IF size < MinSegmentSize * 2 \/ threads <= 1 THEN <<<<0, size>>>>
     ELSE [i \in 1..threads |-> Bounds(i - 1)]

CarveSignatures(image, threads) ==
  LET pieces == Segments(Len(image), threads)
  IN Merged([i \in DOMAIN pieces |-> CarveSegment(image, pieces[i][1], pieces[i][2])])

(*------------------------------ Its promise ------------------------------*)
\* A window holds whole pages and is longer than the overlap, which is no shorter than
\* a header and what must follow it.
WindowsOverlap ==
  /\ {CarvingChunkSize, ErasedPageSize, FragmentGapMinSize, MinSegmentSize} \subseteq Nat \ {0}
  /\ {CarvingOverlapSize, MaxRemovableGaps, MaxAssemblySegments, MaxFragmentGapCandidates} \subseteq Nat
  /\ CarvingChunkSize % ErasedPageSize = 0 /\ CarvingOverlapSize < CarvingChunkSize
  /\ \A s \in Range(Signatures) : Reach(s) <= CarvingOverlapSize

IsCarvable(image, threads) == image \in Seq(Nat) /\ threads \in Nat \ {0}

\* A header that something must follow is passed over when a window starts with the
\* same header without it, or when a window that does not reach so far holds another
\* header further on.
Hidden(image, p, s) ==
  /\ s.sub # <<>>
  /\ \/ \E q \in Places(image, s.header) :
          q < p /\ p < q + CarvingChunkSize /\ ~SubFollows(image, q, s)
     \/ \E t \in Range(Signatures) : \E q \in Places(image, t.header) : p < q /\ q < p + Reach(s)

\* The headers of an image with what must follow them and room for the smallest
\* credible file, but for those that can be hidden.
Headers(image) ==
  {p \in 0..(Len(image) - 1) : \E s \in Range(Signatures) :
     /\ p \in Places(image, s.header) /\ SubFollows(image, p, s) /\ ~Hidden(image, p, s)
     /\ p + s.minSize <= Len(image)}

NoErasedPage(image) ==
  \A p \in 0..(Len(image) - 1) : Range(Window(image, p, ErasedPageSize)) # {Erased}

\* Segments of one length, when they are longer than the smallest there are, leave fewer
\* cells than there are threads at the end of the image to none of them: a header so near
\* the end is met only when the last window of the last segment gets that far.
InSomeSegment(p, image, threads) ==
  \/ Len(image) < MinSegmentSize * 2
  \/ p < threads * MinSegmentSize
  \/ p + threads <= Len(image)

\* In an image without an erased page: every header of Headers starts a candidate or
\* lies inside one, wherever the windows and the segments fall; what is called intact or fragmented validates; and what one
\* scan finds does not overlap.
FoundMeets(image, threads, found) ==
  LET SignatureOf(c) == CHOOSE s \in Range(Signatures) : s.ext = c.ext
  IN /\ NoErasedPage(image) =>
          \A p \in Headers(image) : InSomeSegment(p, image, threads) =>
            \E i \in DOMAIN found : found[i].start <= p /\ p < CandidateEnd(found[i])
     /\ \A i \in DOMAIN found :
          /\ CandidateEnd(found[i]) <= Len(image)
          /\ found[i].integrity \in {"intact", "fragmented"} =>
               Validates(SignatureOf(found[i]), Stitched(image, found[i].runs))
          /\ threads = 1 /\ i > 1 => CandidateEnd(found[i - 1]) <= found[i].start

CarvingMeetsEveryHeader(image, threads) ==
  \A carved \in {CarveSignatures(image, threads)} :
    carved.ok => FoundMeets(image, threads, carved.found)
=============================================================================
