----------------------------- MODULE SessionFiles -----------------------------
(***************************************************************************)
(* The output files of one Core: samples, the raw writer's queue, CSV      *)
(* files whose header grows, computed results, the two diagnostics writers, *)
(* and the STOP that drains them all, archives the session directory and   *)
(* removes it.                                                             *)
(*                                                                         *)
(* Threads: the sensor callback (_on_data), the raw writer, the compute    *)
(* worker, the session-diagnostics writer, the pipeline-diagnostics writer *)
(* and its snapshot timer, and the command thread.  The phases of a start  *)
(* are those of CoreStream, reduced to what the files depend on; the races *)
(* between START, STOP and the startup gate are studied there.             *)
(*                                                                         *)
(* A sample is its shape, the sequence of its keys.  A cell of a CSV row   *)
(* is the key whose value it holds, or Blank.  A session directory is a    *)
(* pair <<base root, session>>.                                            *)
(***************************************************************************)
EXTENDS Naturals, Sequences, FiniteSets, SequencesExt

CONSTANTS
  Subjects,      \* the subjects, each with one sensor
  Roots,         \* the output roots: the local disk and the USB disk
  Shapes,        \* the shapes of samples: sequences of distinct keys
  Block,         \* f_block_size: the samples of a raw block
  FaultyIO,      \* the I/O that may fail: "raw", "zip", "remove" or "pipeline"
  Hotplug,       \* whether the output root may change while a session is under way
  Diagnostics,   \* whether pipeline diagnostics are enabled
  MaxSessions,   \* bound: START commands
  MaxEvents,     \* bound: START and STOP commands, samples and I/O errors together
  MaxRecords     \* bound: queued records of the pipeline diagnostics

ASSUME FilesAssumption ==
  /\ IsFiniteSet(Subjects) /\ "none" \notin Subjects
  /\ Shapes \subseteq Seq(STRING)
  /\ \A shape \in Shapes : shape # <<>> /\ IsInjective(shape)
  /\ Block \in Nat \ {0}
  /\ FaultyIO \subseteq {"raw", "zip", "remove", "pipeline"}
  /\ {Hotplug, Diagnostics} \subseteq BOOLEAN
  /\ {MaxSessions, MaxEvents, MaxRecords} \subseteq Nat

VARIABLES
  \* Core
  root,       \* base_root
  session,    \* session_timestamp, 0 before the first START
  archived,   \* archived_session_timestamp
  phase,      \* stream_phase: "idle", "warming", "official" or "stopping"
  outputs,    \* _official_outputs_active
  members,    \* _startup_subject_ids
  streaming,  \* the subjects with is_streaming
  stopping,   \* _stopping_subject_ids
  stop,       \* the STOP, or the cleanup of a failed start, under way
  \* The sample path
  data,       \* the sample that has passed the tests of _on_data and is not yet ingested
  buffer,     \* of each sensor: raw_data
  entry,      \* of each sensor: its file_path and raw_headers
  rawq,       \* _raw_write_queue
  failures,   \* of each subject: the directory of its first raw write failure
  \* The compute manager
  computeq,   \* its queue, by subject
  known,      \* whether the orchestrator holds the algorithm's executors for registered
  stages,     \* whether the stages hold those executors
  perf,       \* whether the worker is about to queue a performance record
  \* The diagnostics
  diag,       \* _session_diagnostics_state: the directory it writes to
  diagq,      \* _session_diagnostics_queue: the sessions of the events
  sealed,     \* _finalized_diagnostics_sessions
  pipe,       \* the pipeline diagnostics: output directory, queued records, writer thread
  \* The disks
  disk,       \* the session directories
  zips,       \* the archives
  events,     \* how many commands, samples and I/O errors there were
  \* History
  accepted,   \* of each session and subject: the samples ingested, in order
  home,       \* of each session and subject: the directory its files were opened in
  ended,      \* of each session and subject: "no", or how its STOP reported it, "ok" or "partial"
  removed,    \* the directories removed after archiving
  reports     \* the drain reports

core     == <<root, session, archived, phase, outputs, members, streaming, stopping>>
samples  == <<data, buffer, entry, rawq, failures>>
compute  == <<computeq, known, stages, perf>>
diags    == <<diag, diagq, sealed, pipe>>
disks    == <<disk, zips>>
history  == <<accepted, home, ended, removed, reports>>
filesVars == <<core, stop, samples, compute, diags, disks, events, history>>

Sessions == 1..MaxSessions
Dirs     == Roots \X Sessions
NoDir    == <<>>
Blank    == ""
NoFile   == [present |-> FALSE, header |-> <<>>, rows |-> <<>>]
NoTree   == [present |-> FALSE, raw |-> [s \in Subjects |-> NoFile], inter |-> {}, cons |-> {},
             marked |-> {}]
NoData   == [subject |-> "none", shape |-> <<>>]
NoStop   == [pc |-> "none", subjects |-> {}, shared |-> FALSE, partial |-> {}, error |-> FALSE,
             source |-> NoDir]
Here     == <<root, session>>     \* _session_dir of the current session

FilesInit ==
  /\ root \in Roots /\ session = 0 /\ archived = 0 /\ phase = "idle" /\ outputs = FALSE
  /\ members = {} /\ streaming = {} /\ stopping = {} /\ stop = NoStop
  /\ data = NoData /\ buffer = [s \in Subjects |-> <<>>]
  /\ entry = [s \in Subjects |-> [path |-> NoDir, headers |-> <<>>]]
  /\ rawq = <<>> /\ failures = [s \in Subjects |-> NoDir]
  /\ computeq = <<>> /\ known = FALSE /\ stages = FALSE /\ perf = FALSE
  /\ diag = NoDir /\ diagq = <<>> /\ sealed = {}
  /\ pipe = [out |-> NoDir, records |-> <<>>, alive |-> TRUE]
  /\ disk = [d \in Dirs |-> NoTree] /\ zips = [d \in Dirs |-> NoTree]
  /\ events = 0
  /\ accepted = [k \in Sessions |-> [s \in Subjects |-> <<>>]]
  /\ home = [k \in Sessions |-> [s \in Subjects |-> NoDir]]
  /\ ended = [k \in Sessions |-> [s \in Subjects |-> "no"]]
  /\ removed = {} /\ reports = {}

Happens   == events < MaxEvents /\ events' = events + 1
Fails(io) == io \in FaultyIO /\ Happens

-----------------------------------------------------------------------------
(* CSV files *)

Keys(block) == UNION {ToSet(block[i]) : i \in DOMAIN block}

\* Where key first appears in a block, other has not appeared yet.
Earlier(block, key, other) ==
  \E i \in DOMAIN block : \E m \in DOMAIN block[i] :
    /\ block[i][m] = key
    /\ \A j \in 1..i : \A n \in DOMAIN block[j] : block[j][n] = other => j = i /\ m < n

\* These keys of a block in the order of their first appearance.
InOrder(block, K) ==
  [n \in 1..Cardinality(K) |->
     CHOOSE key \in K : Cardinality({other \in K : Earlier(block, other, key)}) = n - 1]

\* _derive_headers, and the ones of them that a header does not have.
DeriveHeaders(block)    == InOrder(block, Keys(block))
Missing(headers, block) == InOrder(block, Keys(block) \ ToSet(headers))

\* _sample_to_row
Row(shape, headers) ==
  [i \in DOMAIN headers |-> IF headers[i] \in ToSet(shape) THEN headers[i] ELSE Blank]

\* A row read by its file's header and written under another one.
Relaid(row, old, new) ==
  [i \in DOMAIN new |->
     IF \E j \in DOMAIN old : old[j] = new[i] /\ j <= Len(row)
     THEN row[CHOOSE j \in DOMAIN old : old[j] = new[i] /\ j <= Len(row)]
     ELSE Blank]

\* _ensure_raw_headers: the first block writes the header, a block with new
\* keys rewrites the file under the longer header.
EnsureRawHeaders(headers, file, block) ==
  LET derived  == DeriveHeaders(block)
      expanded == headers \o Missing(headers, block)
  IN CASE headers = <<>> ->
            [headers |-> derived, file |-> [present |-> TRUE, header |-> derived, rows |-> <<>>]]
       [] headers # <<>> /\ expanded = headers -> [headers |-> headers, file |-> file]
       [] OTHER ->
            [headers |-> expanded,
             file |-> [present |-> TRUE, header |-> expanded,
                       rows |-> [i \in DOMAIN file.rows |->
                                   Relaid(file.rows[i], file.header, expanded)]]]

\* write_block, after the header: the rows are appended.
Appended(ensured, block) ==
  [ensured EXCEPT !.file.rows =
     @ \o [i \in DOMAIN block |-> Row(block[i], ensured.headers)]]

\* An I/O error leaves a file as it was, or rewritten up to some row with the
\* header in memory not yet replaced, or with the first rows of the block.
TornWrites(headers, file, block) ==
  LET ensured == EnsureRawHeaders(headers, file, block)
  IN {[headers |-> headers, file |-> file]}
     \cup (IF ensured.file = file THEN {}
           ELSE {[headers |-> headers, file |-> [file EXCEPT !.header = <<>>, !.rows = <<>>]]}
                \cup {[headers |-> headers, file |-> [ensured.file EXCEPT !.rows = SubSeq(@, 1, n)]] :
                        n \in 0..Len(ensured.file.rows)})
     \cup {Appended(ensured, SubSeq(block, 1, n)) : n \in 0..(Len(block) - 1)}

-----------------------------------------------------------------------------
(* Diagnostics *)

\* start_session_diagnostics: makes the directory under the current root,
\* unless the session's diagnostics are finished; a state of the same session
\* keeps the directory it was created with.
StartDiagnostics(k) ==
  IF k = 0 \/ k \in sealed THEN UNCHANGED <<diag, disk>>
  ELSE /\ disk' = [disk EXCEPT ![<<root, k>>].present = TRUE]
       /\ diag' = IF diag # NoDir /\ diag[2] = k THEN diag ELSE <<root, k>>

\* record_event and the snapshots: only while an output is attached.
Recorded(p) == IF Diagnostics /\ p.out # NoDir THEN [p EXCEPT !.records = Append(@, p.out)] ELSE p

\* The raw writer and the compute worker report to the pipeline diagnostics
\* through the snapshots, whose timer queues a record.
Snapshot ==
  /\ Diagnostics /\ pipe.out # NoDir /\ Len(pipe.records) < MaxRecords
  /\ pipe' = Recorded(pipe)
  /\ UNCHANGED <<core, stop, samples, compute, diag, diagq, sealed, disks, events, history>>

\* _writer_loop of the pipeline diagnostics creates the directory of a record.
\* Nothing catches an I/O error: it ends the thread.
PipelineWrite ==
  /\ pipe.alive /\ pipe.records # <<>>
  /\ \/ /\ pipe' = [pipe EXCEPT !.records = Tail(@)]
        /\ disk' = [disk EXCEPT ![Head(pipe.records)].present = TRUE]
        /\ UNCHANGED events
     \/ /\ Fails("pipeline")
        /\ pipe' = [pipe EXCEPT !.records = Tail(@), !.alive = FALSE]
        /\ UNCHANGED disk
  /\ UNCHANGED <<core, stop, samples, compute, diag, diagq, sealed, zips, history>>

\* _session_diagnostics_writer_loop and append_session_diagnostics_event.
DiagnosticsWrite ==
  /\ diagq # <<>> /\ diagq' = Tail(diagq)
  /\ StartDiagnostics(Head(diagq))
  /\ UNCHANGED <<core, stop, samples, compute, sealed, pipe, zips, events, history>>

-----------------------------------------------------------------------------
(* Configuration and START *)

Quiet == phase = "idle" /\ streaming = {} /\ stop = NoStop

\* set_file_path: the disk monitor and the gateway call it at any time.
SetFilePath ==
  /\ Hotplug \/ Quiet
  /\ root' \in Roots \ {root}
  /\ UNCHANGED <<session, archived, phase, outputs, members, streaming, stopping, stop, samples,
                 compute, diags, disks, events, history>>

\* register_algorithms, after a discovery: once per algorithm name.
RegisterAlgorithms ==
  /\ ~known /\ known' = TRUE /\ stages' = TRUE
  /\ UNCHANGED <<core, stop, samples, computeq, perf, diags, disks, events, history>>

\* ComputeOrchestrator.reset, in init_core and in a Reset.
ResetCompute ==
  /\ Quiet /\ known
  /\ known' = FALSE /\ stages' = FALSE /\ computeq' = <<>>
  /\ UNCHANGED <<core, stop, samples, perf, diags, disks, events, history>>

\* start_stream and start_stream_for_subjects.  A client starts subjects that
\* do not stream.
Start(S) ==
  /\ stop = NoStop /\ S # {} /\ S \cap streaming = {}
  /\ session < MaxSessions /\ known /\ Happens
  /\ session' = session + 1
  /\ archived' = 0 /\ phase' = "warming" /\ outputs' = FALSE /\ members' = S
  /\ buffer' = [s \in Subjects |-> IF s \in S THEN <<>> ELSE buffer[s]]
  /\ StartDiagnostics(session + 1)
  /\ UNCHANGED <<root, streaming, stopping, stop, data, entry, rawq, failures, compute, diagq, sealed,
                 pipe, zips, history>>

\* FileManager.start_stream of every subject: empty files and no columns yet.
StartStream(S) ==
  /\ entry' = [s \in Subjects |-> IF s \in S THEN [path |-> Here, headers |-> <<>>] ELSE entry[s]]
  /\ failures' = [s \in Subjects |-> IF s \in S THEN NoDir ELSE failures[s]]
  /\ disk' = [disk EXCEPT ![Here].present = TRUE,
                          ![Here].raw = [s \in Subjects |->
                             IF s \in S THEN [NoFile EXCEPT !.present = TRUE] ELSE @[s]]]

\* PipelineDiagnostics.start_session
Attached == IF Diagnostics THEN Recorded([pipe EXCEPT !.out = Here]) ELSE pipe

\* ComputeManager.reset_session: it also empties the registries of the stages.
ResetSession == stages' = FALSE /\ computeq' = <<>>

\* _activate_official_streaming
Activate ==
  /\ phase = "warming" /\ stop = NoStop
  /\ ResetSession
  /\ StartStream(members)
  /\ pipe' = Attached
  /\ streaming' = streaming \cup members
  /\ phase' = "official" /\ outputs' = TRUE
  /\ home' = [home EXCEPT ![session] = [s \in Subjects |-> IF s \in members THEN Here ELSE @[s]]]
  /\ UNCHANGED <<root, session, archived, members, stopping, stop, data, buffer, rawq, known, perf,
                 diag, diagq, sealed, zips, events, accepted, ended, removed, reports>>

-----------------------------------------------------------------------------
(* Samples and results *)

\* _on_data: the tests.
OnData(s, shape) ==
  /\ data = NoData /\ Happens
  /\ phase = "official" /\ outputs
  /\ s \in streaming \ stopping
  /\ data' = [subject |-> s, shape |-> shape]
  /\ accepted' = [accepted EXCEPT ![entry[s].path[2]][s] = Append(@, shape)]
  /\ UNCHANGED <<core, stop, buffer, entry, rawq, failures, compute, diags, disks, home, ended, removed,
                 reports>>

\* Only a sensor with an open file queues its blocks.
EnqueueBlock(queue, s, block) ==
  IF entry[s].path # NoDir THEN Append(queue, [subject |-> s, block |-> block]) ELSE queue

\* Subject.ingest_sample, FileManager.enqueue_block and ComputeManager.ingest_sample.
Ingest ==
  /\ data # NoData /\ data' = NoData
  /\ LET s    == data.subject
         pile == Append(buffer[s], data.shape)
         full == Len(pile) >= Block
     IN /\ buffer' = [buffer EXCEPT ![s] = IF full THEN SubSeq(pile, Block + 1, Len(pile)) ELSE pile]
        /\ rawq' = IF full THEN EnqueueBlock(rawq, s, SubSeq(pile, 1, Block)) ELSE rawq
        /\ computeq' = Append(computeq, s)
  /\ UNCHANGED <<core, stop, entry, failures, known, stages, perf, diags, disks, events, history>>

\* write_block reads the path when it writes; a block without one is dropped.
\* An error is recorded against the subject.
WriteBlock ==
  /\ rawq # <<>> /\ rawq' = Tail(rawq)
  /\ LET s     == Head(rawq).subject
         block == Head(rawq).block
         d     == entry[s].path
         file  == disk[d].raw[s]
         Put(w) == /\ entry' = [entry EXCEPT ![s].headers = w.headers]
                   /\ disk' = [disk EXCEPT ![d].raw[s] = w.file]
         Blame  == failures' = [failures EXCEPT ![s] = IF @ = NoDir THEN d ELSE @]
     IN IF d = NoDir THEN UNCHANGED <<entry, disk, failures, events>>
        ELSE \/ /\ disk[d].present
                /\ Put(Appended(EnsureRawHeaders(entry[s].headers, file, block), block))
                /\ UNCHANGED <<failures, events>>
             \/ /\ ~disk[d].present /\ Blame
                /\ UNCHANGED <<entry, disk, events>>
             \/ /\ disk[d].present /\ Fails("raw") /\ Blame
                /\ \E w \in TornWrites(entry[s].headers, file, block) : Put(w)
  /\ UNCHANGED <<core, stop, data, buffer, compute, diags, zips, history>>

WriteIntermediate(d, s) ==
  IF disk[d].present THEN [disk EXCEPT ![d].inter = @ \cup {s}] ELSE disk

\* The compute worker takes a sample.  When a window is complete, the result
\* goes to Core, then to the intermediate stage, then to the performance
\* listener, which tests whether the subject still streams and queues its
\* record later.  Whether a window is complete and whether an intermediate
\* result is due is the plugin's choice.
Compute ==
  /\ computeq # <<>> /\ ~perf
  /\ computeq' = Tail(computeq)
  /\ LET s    == Head(computeq)
         d    == entry[s].path
         live == outputs /\ s \in streaming /\ d # NoDir
     IN \/ UNCHANGED <<perf, disk>>
        \/ \E ready \in BOOLEAN :
             /\ live
             /\ perf' = disk[d].present
             /\ disk' = IF ready /\ stages THEN WriteIntermediate(d, s) ELSE disk
  /\ UNCHANGED <<core, stop, samples, known, stages, diags, zips, events, accepted, home, ended,
                 removed, reports>>

\* _on_compute_performance: enqueue_session_diagnostics_event.
QueuePerformance ==
  /\ perf /\ perf' = FALSE
  /\ diagq' = Append(diagq, session)
  /\ UNCHANGED <<core, stop, samples, computeq, known, stages, diag, sealed, pipe, disks, events, history>>

-----------------------------------------------------------------------------
(* STOP *)

To(pc) == stop' = [stop EXCEPT !.pc = pc]

\* _stop_stream_impl, up to the end of the physical stop.  A STOP with a
\* stop_session_id is a distributed one.
Stop(S, shared) ==
  /\ stop = NoStop /\ S # {} /\ session > 0 /\ Happens
  /\ stop' = [NoStop EXCEPT !.pc = "settle", !.subjects = S, !.shared = shared]
  /\ stopping' = stopping \cup S
  /\ phase' = IF streaming \subseteq S /\ phase # "idle" THEN "stopping" ELSE phase
  /\ UNCHANGED <<root, session, archived, outputs, members, streaming, samples, compute, diags, disks,
                 history>>

\* Mutant: STOP does not wait for the callbacks that are still running.
FlushAtOnce ==
  /\ stop.pc = "settle"
  /\ LET tails == {s \in stop.subjects : buffer[s] # <<>> /\ entry[s].path # NoDir}
     IN rawq' = rawq \o [i \in 1..Cardinality(tails) |->
                  [subject |-> SetToSeq(tails)[i], block |-> buffer[SetToSeq(tails)[i]]]]
  /\ buffer' = [s \in Subjects |-> IF s \in stop.subjects THEN <<>> ELSE buffer[s]]
  /\ To("join")
  /\ UNCHANGED <<core, data, entry, failures, compute, diags, disks, events, history>>

\* The sleep of two seconds, taken to outlast a callback that has passed the
\* tests of _on_data, and _flush_pending_samples.
Flush ==
  /\ stop.pc = "settle" /\ data.subject \notin stop.subjects
  /\ LET tails == {s \in stop.subjects : buffer[s] # <<>> /\ entry[s].path # NoDir}
     IN rawq' = rawq \o [i \in 1..Cardinality(tails) |->
                  [subject |-> SetToSeq(tails)[i], block |-> buffer[SetToSeq(tails)[i]]]]
  /\ buffer' = [s \in Subjects |-> IF s \in stop.subjects THEN <<>> ELSE buffer[s]]
  /\ To("join")
  /\ UNCHANGED <<core, data, entry, failures, compute, diags, disks, events, history>>

\* Mutant: the path of the raw file stays.
NotClosed(S) == entry

\* FileManager.stop_stream: the entries lose their paths.
Closed(S) == [s \in Subjects |-> IF s \in S THEN [entry[s] EXCEPT !.path = NoDir] ELSE entry[s]]
Ends(S, partial) ==
  ended' = [k \in Sessions |-> [s \in Subjects |->
              IF s \in S /\ entry[s].path # NoDir /\ entry[s].path[2] = k
              THEN IF s \in partial THEN "partial" ELSE "ok"
              ELSE ended[k][s]]]

\* run_consolidation: for the subjects with intermediate records.
Consolidated(dk, S) ==
  [d \in Dirs |->
     [dk[d] EXCEPT !.cons = @ \cup {s \in S : entry[s].path = d /\ s \in dk[d].inter /\ stages}]]

RawWriteFailures(S) == {s \in S : failures[s] # NoDir}

\* The marker file of a subject is put beside its first failed file.
MarkPartial(dk, partial) ==
  [d \in Dirs |-> [dk[d] EXCEPT !.marked = @ \cup {s \in partial : failures[s] = d}]]

\* flush has joined the raw queue.  Consolidation, the failures, their marker
\* files, and the end of every subject's files.  A marker that cannot be
\* written ends the STOP with an exception.
WrittenAndClosed ==
  /\ stop.pc = "join" /\ rawq = <<>>
  /\ LET S       == stop.subjects
         partial == RawWriteFailures(S)
         dk      == Consolidated(disk, S)
     IN /\ pipe' = Recorded(pipe)
        /\ IF \A s \in partial : disk[failures[s]].present
           THEN /\ disk' = MarkPartial(dk, partial)
                /\ entry' = Closed(S) /\ streaming' = streaming \ S
                /\ Ends(S, partial)
                /\ stop' = [stop EXCEPT !.pc = "summary", !.partial = partial]
           ELSE /\ disk' = dk /\ stop' = [stop EXCEPT !.pc = "failed", !.partial = partial]
                /\ UNCHANGED <<entry, streaming, ended>>
  /\ UNCHANGED <<root, session, archived, phase, outputs, members, stopping, data, buffer, rawq,
                 failures, compute, diag, diagq, sealed, zips, events, accepted, home, removed, reports>>

\* finalize_session_diagnostics or update_session_diagnostics_summary, and the
\* record of the pipeline diagnostics.
Summarise ==
  /\ stop.pc = "summary" /\ StartDiagnostics(session)
  /\ pipe' = Recorded(pipe)
  /\ To("flushed")
  /\ UNCHANGED <<core, samples, compute, diagq, sealed, zips, events, history>>

\* PipelineDiagnostics.flush joins the records; then, once nothing streams,
\* finish_session detaches the output.
Detach ==
  /\ stop.pc = "flushed" /\ pipe.records = <<>>
  /\ IF streaming # {} \/ (~stop.shared /\ archived = session)
     THEN To("report") /\ UNCHANGED pipe
     ELSE To("detached") /\ pipe' = [pipe EXCEPT !.out = NoDir]
  /\ UNCHANGED <<core, samples, compute, diag, diagq, sealed, disks, events, history>>

\* finish_session joins the records again, finish_session_diagnostics its queue.
JoinDiagnostics ==
  /\ stop.pc = "detached" /\ pipe.records = <<>> /\ diagq = <<>>
  /\ To("joined")
  /\ UNCHANGED <<core, samples, compute, diags, disks, events, history>>

\* Mutant: the state is dropped, but the session may be opened again.
SealNothing ==
  /\ stop.pc = "joined"
  /\ diag' = IF diag # NoDir /\ diag[2] = session THEN NoDir ELSE diag
  /\ To(IF stop.shared THEN "report" ELSE "archive")
  /\ UNCHANGED <<core, samples, compute, diagq, sealed, pipe, disks, events, history>>

\* finish_session_diagnostics, under the lock.
Seal ==
  /\ stop.pc = "joined"
  /\ sealed' = sealed \cup {session}
  /\ diag' = IF diag # NoDir /\ diag[2] = session THEN NoDir ELSE diag
  /\ To(IF stop.shared THEN "report" ELSE "archive")
  /\ UNCHANGED <<core, samples, compute, diagq, pipe, disks, events, history>>

\* Mutant: an error while the archive is written is only logged.
ArchiveForgiving ==
  /\ stop.pc = "archive" /\ disk[Here].present
  /\ \/ zips' = [zips EXCEPT ![Here] = disk[Here]] /\ UNCHANGED events
     \/ Fails("zip") /\ zips' = [zips EXCEPT ![Here] = [NoTree EXCEPT !.present = TRUE]]
  /\ stop' = [stop EXCEPT !.pc = "remove", !.source = Here]
  /\ UNCHANGED <<core, samples, compute, diags, disk, history>>

\* archive_session_directory: the archive of the directory under the current
\* root, its source.  An error leaves an archive without the remaining files.
Archive ==
  /\ stop.pc = "archive"
  /\ \/ /\ disk[Here].present /\ zips' = [zips EXCEPT ![Here] = disk[Here]]
        /\ stop' = [stop EXCEPT !.pc = "remove", !.source = Here] /\ UNCHANGED events
     \/ /\ ~disk[Here].present /\ To("failed") /\ UNCHANGED <<zips, events>>
     \/ /\ disk[Here].present /\ Fails("zip")
        /\ zips' = [zips EXCEPT ![Here] = [NoTree EXCEPT !.present = TRUE]]
        /\ To("failed")
  /\ UNCHANGED <<core, samples, compute, diags, disk, history>>

\* The removal of that directory.  An error leaves some of its files.
RemoveDirectory ==
  /\ stop.pc = "remove"
  /\ \/ /\ disk' = [disk EXCEPT ![stop.source] = NoTree]
        /\ archived' = session /\ removed' = removed \cup {stop.source}
        /\ To("report") /\ UNCHANGED events
     \/ /\ Fails("remove")
        /\ disk' = [disk EXCEPT ![stop.source] = [NoTree EXCEPT !.present = TRUE]]
        /\ To("failed") /\ UNCHANGED <<archived, removed>>
  /\ UNCHANGED <<root, session, phase, outputs, members, streaming, stopping, samples, compute, diags,
                 zips, accepted, home, ended, reports>>

\* The end of _stop_stream_impl, its finally clause included.
Finish(report) ==
  /\ reports' = reports \cup {report}
  /\ stop' = NoStop
  /\ stopping' = stopping \ stop.subjects
  /\ phase' = IF streaming = {} THEN "idle" ELSE phase
  /\ outputs' = (outputs /\ streaming # {})
  /\ members' = IF streaming = {} THEN {} ELSE members
  /\ UNCHANGED <<root, session, archived, streaming, samples, compute, diagq, sealed, pipe, zips, events,
                 accepted, home, ended, removed>>

Report ==
  /\ stop.pc = "report"
  /\ Finish([session |-> session, shared |-> stop.shared, drained |-> TRUE,
             archived |-> archived = session, ok |-> stop.partial = {} /\ ~stop.error])
  /\ UNCHANGED <<diag, disk>>

\* The exception handler of _stop_stream_impl.
ReportFailure ==
  /\ stop.pc = "failed" /\ StartDiagnostics(session)
  /\ Finish([session |-> session, shared |-> stop.shared, drained |-> FALSE, archived |-> FALSE, ok |-> FALSE])

\* _cleanup_failed_startup_session: no outputs were opened; the directory with
\* the diagnostics is archived once nothing streams.
StartFails ==
  /\ phase = "warming" /\ stop = NoStop
  /\ entry' = Closed(members) /\ streaming' = streaming \ members
  /\ Ends(members, {})
  /\ StartDiagnostics(session)
  /\ IF streaming \subseteq members
     THEN /\ stop' = [NoStop EXCEPT !.pc = "detached", !.subjects = members, !.error = TRUE]
          /\ pipe' = [pipe EXCEPT !.out = NoDir]
     ELSE /\ stop' = [NoStop EXCEPT !.pc = "report", !.subjects = members, !.error = TRUE]
          /\ UNCHANGED pipe
  /\ phase' = IF streaming \subseteq members THEN "stopping" ELSE phase
  /\ UNCHANGED <<root, session, archived, outputs, members, stopping, data, buffer, rawq, failures,
                 compute, diagq, sealed, zips, events, accepted, home, removed, reports>>

\* finalize_distributed_session, by the master after every node has drained.
FinalizeDistributed ==
  /\ stop = NoStop /\ streaming = {} /\ archived # session
  /\ \E r \in reports : r.session = session /\ r.shared /\ r.drained
  /\ stop' = [NoStop EXCEPT !.pc = "detached"]
  /\ pipe' = [pipe EXCEPT !.out = NoDir]
  /\ UNCHANGED <<core, samples, compute, diag, diagq, sealed, disks, events, history>>

FilesNext ==
  \/ Snapshot \/ PipelineWrite \/ DiagnosticsWrite
  \/ SetFilePath \/ RegisterAlgorithms \/ ResetCompute
  \/ \E S \in SUBSET Subjects : Start(S)
  \/ Activate \/ StartFails
  \/ \E s \in Subjects, shape \in Shapes : OnData(s, shape)
  \/ Ingest \/ WriteBlock \/ Compute \/ QueuePerformance
  \/ \E S \in SUBSET Subjects, shared \in BOOLEAN : Stop(S, shared)
  \/ Flush \/ WrittenAndClosed \/ Summarise \/ Detach \/ JoinDiagnostics \/ Seal
  \/ Archive \/ RemoveDirectory \/ Report \/ ReportFailure \/ FinalizeDistributed

FilesSpec == FilesInit /\ [][FilesNext]_filesVars

-----------------------------------------------------------------------------
(* Properties *)

Names == UNION {ToSet(shape) : shape \in Shapes}   \* the keys of samples
Cells == Names \cup {Blank}
Files == [present: BOOLEAN, header: Seq(Names), rows: Seq(Seq(Cells))]
Trees == [present: BOOLEAN, raw: [Subjects -> Files], inter: SUBSET Subjects, cons: SUBSET Subjects,
          marked: SUBSET Subjects]
Places == Dirs \cup {NoDir}

\* The types of the state; a path belongs to a session that was started, only
\* streaming subjects hold paths, and a queued block is never empty.
FilesTypeOK ==
  /\ root \in Roots /\ session \in 0..MaxSessions /\ archived \in {0, session}
  /\ phase \in {"idle", "warming", "official", "stopping"} /\ outputs \in BOOLEAN
  /\ {members, streaming, stopping} \subseteq SUBSET Subjects
  /\ \A s \in Subjects : /\ entry[s].path \in Places
                         /\ entry[s].path # NoDir <=> s \in streaming
                         /\ entry[s].path # NoDir => entry[s].path[2] \in 1..session
                         /\ buffer[s] \in Seq(Shapes) /\ Len(buffer[s]) < Block
                         /\ failures[s] \in Places
  /\ \A i \in DOMAIN rawq : rawq[i].subject \in Subjects /\ rawq[i].block \in Seq(Shapes) \ {<<>>}
  /\ diag \in Places /\ pipe.out \in Places /\ sealed \subseteq 1..session
  /\ disk \in [Dirs -> Trees] /\ zips \in [Dirs -> Trees]

\* The samples of s in the i-th block of the queue, and those not yet in a block.
Waiting(s, i) == IF rawq[i].subject = s THEN rawq[i].block ELSE <<>>
Unqueued(s)  == buffer[s] \o (IF data.subject = s THEN <<data.shape>> ELSE <<>>)

\* A part of a sequence, found after so many of its elements.
Follows(part, sequence, n) ==
  n + Len(part) <= Len(sequence) /\ \A j \in DOMAIN part : sequence[n + j] = part[j]

\* The rows of a file are these samples, in order, each value in its column.
Holds(file, sequence) ==
  /\ Len(file.rows) = Len(sequence)
  /\ \A i \in DOMAIN sequence :
       /\ ToSet(sequence[i]) \subseteq ToSet(file.header)
       /\ Relaid(file.rows[i], file.header, file.header) = Row(sequence[i], file.header)

\* No accepted sample is lost, doubled, reordered or written into another
\* column or another session without the failure being recorded: what is in
\* the file, then in the writer's queue, then in the sensor's buffer or on its
\* way there is what _on_data accepted; after the STOP it is all in the file or
\* in the archive, or the STOP reported the subject's output as partial.
RowsAccounted ==
  \A k \in Sessions, s \in Subjects : home[k][s] # NoDir =>
    LET d   == home[k][s]
        all == accepted[k][s]
    IN /\ (entry[s].path = d /\ failures[s] = NoDir) =>
            \E cut \in [0..Len(rawq) -> 0..Len(all)] :
              /\ Holds(disk[d].raw[s], SubSeq(all, 1, cut[0]))
              /\ \A i \in DOMAIN rawq : /\ Follows(Waiting(s, i), all, cut[i - 1])
                                        /\ cut[i] = cut[i - 1] + Len(Waiting(s, i))
              /\ Follows(Unqueued(s), all, cut[Len(rawq)])
              /\ cut[Len(rawq)] + Len(Unqueued(s)) = Len(all)
       /\ ended[k][s] = "ok" =>
            Holds(disk[d].raw[s], all) \/ Holds(zips[d].raw[s], all)

\* A session directory that was archived and removed is never made again by an
\* event, a snapshot or a block that comes late.
ArchivedStaysGone == \A d \in removed : ~disk[d].present

\* A STOP that reports its session archived and complete has put the files of
\* every subject of the session into the archive it names.
ArchiveHoldsSession ==
  \A r \in reports : (r.archived /\ r.ok) =>
    \A s \in Subjects : (home[r.session][s] # NoDir /\ ended[r.session][s] = "ok")
      => /\ home[r.session][s] \in removed
         /\ Holds(zips[home[r.session][s]].raw[s], accepted[r.session][s])

\* The executors that the orchestrator holds for registered are registered
\* while a session is recorded: without them no intermediate result is written
\* and nothing is consolidated at the STOP.
ExecutorsStayRegistered == (known /\ outputs) => stages
=============================================================================
