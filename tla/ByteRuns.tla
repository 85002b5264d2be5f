------------------------------ MODULE ByteRuns ------------------------------
(***************************************************************************)
(* The byte runs of a recovered file, which every file-system analyser     *)
(* builds: pieces of the image, merged when one continues the other, and   *)
(* runs of zeros where the file has a hole.                                *)
(***************************************************************************)
EXTENDS Integers, SequencesExt

\* ByteRun::physical and ByteRun::synthetic_zero_fill.
Physical(offset, length) == [offset |-> offset, length |-> length, zero |-> FALSE]
ZeroFill(length) == [offset |-> 0, length |-> length, zero |-> TRUE]

\* append_byte_run, append_zero_fill_run.
Continues(last, run) ==
  /\ last.zero = run.zero
  /\ run.zero \/ last.offset + last.length = run.offset

AppendRun(runs, run) ==
  IF run.length = 0 THEN runs
  ELSE IF runs # <<>> /\ Continues(Last(runs), run)
  THEN [runs EXCEPT ![Len(runs)].length = @ + run.length] ELSE Append(runs, run)

MergedRuns(pieces) == FoldLeft(AppendRun, <<>>, pieces)

\* physical_run_count.
PhysicalRunCount(runs) == Cardinality({i \in DOMAIN runs : ~runs[i].zero})

RunsLength(runs) == FoldLeft(LAMBDA sum, run : sum + run.length, 0, runs)

\* What an export of the runs writes, of an image that is a sequence of cells.
ZeroCell == [data |-> 0]

RunCells(image, runs) ==
  FlattenSeq([i \in DOMAIN runs |->
    IF runs[i].zero THEN [k \in 1..runs[i].length |-> ZeroCell]
    ELSE SubSeq(image, runs[i].offset + 1, runs[i].offset + runs[i].length)])
=============================================================================
