--------------------------- MODULE ImportedSources ---------------------------
(***************************************************************************)
(* The register of imported recovery sources and the read-only image each  *)
(* container is normalised into before it is analysed.  Commands run one   *)
(* after another on the program's main thread; the containers are files    *)
(* other programs write, and the program may end at any step.              *)
(***************************************************************************)
EXTENDS Integers, Sequences

CONSTANTS Containers,        \* paths of containers that need normalising
          MaxSourceWrites    \* bound: how often the containers are written

\* A container and its image hold two cells, each the number of the write it
\* comes from; the time of a file is the number of the last write.
NoFile == [there |-> FALSE, cells |-> <<0, 0>>, time |-> 0]

Unregistered == "unregistered"

\* The file of the register: the containers it lists, or one that does not parse.
Registered(paths) == [intact |-> TRUE, paths |-> paths]
TornRegister == [intact |-> FALSE, paths |-> {}]

VARIABLES register,   \* the file of the register
          sources,    \* [Containers -> the container's file]
          caches,     \* [Containers -> the image at analysis_cache_path_for_record]
          partials,   \* [Containers -> cells an interrupted or running copy wrote]
          copying,    \* the container being normalised, or "none"
          served,     \* the last container a command gave an analysis path for
          writes,     \* how many writes the containers had
          disturbed   \* containers written during a copy, or put back by an older file

importVars == <<register, sources, caches, partials, copying, served, writes, disturbed>>

Idle == copying = "none"

\* load_records: what cannot be read or parsed counts as no records.
LoadedRecords == register.paths

\* The bug of taking any image for the current one.
CacheIsThere(c) == sources[c].there /\ caches[c].there

\* analysis_cache_is_current.
CacheIsCurrent(c) ==
  sources[c].there /\ caches[c].there /\ caches[c].time >= sources[c].time

ImportInit ==
  /\ register \in {Registered({}), TornRegister}
  /\ sources = [c \in Containers |-> [there |-> TRUE, cells |-> <<1, 1>>, time |-> 1]]
  /\ caches = [c \in Containers |-> NoFile]
  /\ partials = [c \in Containers |-> <<>>]
  /\ copying = "none"
  /\ served = Unregistered
  /\ writes = 1
  /\ disturbed = {}

\* import_recovery_source, of a container that can be opened.
ImportSource(c) ==
  /\ Idle
  /\ sources[c].there
  /\ register' = Registered(LoadedRecords \cup {c})
  /\ served' = Unregistered
  /\ UNCHANGED <<sources, caches, partials, copying, writes, disturbed>>

\* remove_imported_recovery_source: the record, then the image; deleting it may
\* fail without a word.
RemoveSource(c) ==
  /\ Idle
  /\ c \in LoadedRecords
  /\ register' = Registered(LoadedRecords \ {c})
  /\ \E deleted \in BOOLEAN :
       caches' = [caches EXCEPT ![c] = IF deleted THEN NoFile ELSE @]
  /\ served' = Unregistered
  /\ UNCHANGED <<sources, partials, copying, writes, disturbed>>

\* persist_records writes the register in place: the program may end, or the
\* disk be full, in the middle.
TearRegister ==
  /\ Idle
  /\ register' = TornRegister
  /\ served' = Unregistered
  /\ UNCHANGED <<sources, caches, partials, copying, writes, disturbed>>

\* resolve_analysis_source_path_if_imported and prepare_imported_source, when the
\* image of the container can be used as it is.
ServeCache(c) ==
  /\ Idle
  /\ c \in LoadedRecords
  /\ CacheIsCurrent(c)
  /\ served' = c
  /\ UNCHANGED <<register, sources, caches, partials, copying, writes, disturbed>>

\* prepare_analysis_cache_for_record, when it cannot: a copy into the partial file
\* begins, or goes on where an earlier one of a source as long as this one ended.
BeginCopy(c) ==
  /\ Idle
  /\ c \in LoadedRecords
  /\ sources[c].there
  /\ ~CacheIsCurrent(c)
  /\ copying' = c
  /\ served' = Unregistered
  /\ disturbed' = IF partials[c] = <<>> THEN disturbed \ {c} ELSE disturbed
  /\ UNCHANGED <<register, sources, caches, partials, writes>>

\* copy_recovery_source_file_to_image: one buffer.
CopyCell ==
  /\ ~Idle
  /\ sources[copying].there
  /\ Len(partials[copying]) < 2
  /\ partials' = [partials EXCEPT ![copying] = Append(@, sources[copying].cells[Len(@) + 1])]
  /\ UNCHANGED <<register, sources, caches, copying, served, writes, disturbed>>

\* finalize_partial_image: the image gets its name; it was written last now.
FinishCopy ==
  /\ ~Idle
  /\ Len(partials[copying]) = 2
  /\ caches' = [caches EXCEPT ![copying] = [there |-> TRUE, cells |-> partials[copying], time |-> writes]]
  /\ partials' = [partials EXCEPT ![copying] = <<>>]
  /\ served' = copying
  /\ copying' = "none"
  /\ UNCHANGED <<register, sources, writes, disturbed>>

\* The copy fails, or the program ends: the partial file and its checkpoint stay.
CopyEnds ==
  /\ ~Idle
  /\ copying' = "none"
  /\ UNCHANGED <<register, sources, caches, partials, served, writes, disturbed>>

\* Another program writes one cell of the container, at a time of its own.
WriteSource(c) ==
  /\ sources[c].there
  /\ writes < MaxSourceWrites
  /\ writes' = writes + 1
  /\ \E cell \in {1, 2} :
       sources' = [sources EXCEPT ![c].cells[cell] = writes + 1, ![c].time = writes + 1]
  /\ served' = IF served = c THEN Unregistered ELSE served
  /\ disturbed' = IF partials[c] # <<>> \/ copying = c THEN disturbed \cup {c} ELSE disturbed
  /\ UNCHANGED <<register, caches, partials, copying>>

\* A container is put back by an older file, with the time that file had.
RestoreSource(c) ==
  /\ writes < MaxSourceWrites
  /\ writes' = writes + 1
  /\ sources' = [sources EXCEPT ![c] = [there |-> TRUE, cells |-> <<1, 1>>, time |-> 1]]
  /\ served' = IF served = c THEN Unregistered ELSE served
  /\ disturbed' = disturbed \cup {c}
  /\ UNCHANGED <<register, caches, partials, copying>>

\* A container is moved away.
DropSource(c) ==
  /\ sources[c].there
  /\ sources' = [sources EXCEPT ![c].there = FALSE]
  /\ served' = IF served = c THEN Unregistered ELSE served
  /\ UNCHANGED <<register, caches, partials, copying, writes, disturbed>>

ImportNext ==
  \/ \E c \in Containers : ImportSource(c) \/ RemoveSource(c) \/ ServeCache(c) \/ BeginCopy(c)
  \/ \E c \in Containers : WriteSource(c) \/ RestoreSource(c) \/ DropSource(c)
  \/ TearRegister \/ CopyCell \/ FinishCopy \/ CopyEnds

\* The image a command gives for a container holds what the container holds,
\* whatever removals, failed deletions, interrupted copies and restarts came
\* before, unless the container was written while a copy of it was under way or
\* unfinished, or was put back by an older file.
AnalysisSeesTheSource ==
  served # Unregistered /\ served \notin disturbed =>
    caches[served].cells = sources[served].cells
=============================================================================
