-------------------------- MODULE CombinePipeline ---------------------------
(***************************************************************************)
(* The ETL that combines the backtests of a grid search: lambda_handler    *)
(* with its workflows, run by the messages of a queue in containers whose  *)
(* disk survives an invocation.  Backtests may still be writing to the     *)
(* input bucket; a message is delivered at least once; an exception or the *)
(* function's time limit ends an invocation at any step, and the message   *)
(* comes again.                                                            *)
(*                                                                         *)
(* A segment's results and its grid summary are each one object, whose     *)
(* version counts how often it was written.  A summary has a row for each  *)
(* measure, or lacks some.  Of the output the model keeps, per segment and *)
(* measure, which version of the summary the row comes from, or that it is *)
(* a dummy; the values and the prices are left out, and with them the      *)
(* files of the CoinGecko bucket: every segment has a row of prices.       *)
(***************************************************************************)
EXTENDS Integers, FiniteSets, Sequences

CONSTANTS
    NumSegments,   \* of the grid search, in the order of their keys
    StartTimes,    \* of the segments, keys of a dictionary
    Measures,      \* summaryMetric.<type>.<group>: a row of a summary, a frame of the export
    Contents,      \* bound, per segment: the sets of measures its summary may have rows for
    NumFiles,      \* of an export folder
    Containers,
    MaxVersion,    \* bound, per kind and segment: how often the object is written
    MaxDeliveries  \* bound: deliveries of the messages for this grid search

Segments == 1 .. NumSegments
Kinds == {"results", "grid"}   \* combinedSegmentResults, gridSummary

ASSUME CombineAssumption ==
    /\ NumSegments \in Nat \ {0}
    /\ Contents \in [Segments -> SUBSET SUBSET Measures]
    /\ MaxVersion \in [Kinds -> [Segments -> Nat \ {0}]]
    /\ MaxDeliveries \in Nat /\ NumFiles \in Nat \ {0}

VARIABLES
    startTime,   \* per segment: constant, as its results say
    input,       \* the input bucket: per kind and segment the version, 0 if absent
    summaries,   \* per segment: the contents of its grid summary's versions
    local,       \* per container: the same of the files on its disk
    run,         \* per container: its invocation
    exports,     \* the export folders, with their files in the output bucket
    deliveries

combineVars == <<startTime, input, summaries, local, run, exports, deliveries>>

Versions == [Kinds -> [Segments -> Nat]]
NoFiles == [k \in Kinds |-> [s \in Segments |-> 0]]
Idle == [at |-> "idle"]

\* began, warm: history; the input bucket, and the summaries on the disk, when the
\* invocation began.
RunType ==
    {Idle}
    \cup [at : {"listing results"}, began : Versions, warm : [Segments -> Nat]]
    \cup [at : {"results", "grid"}, began : Versions, warm : [Segments -> Nat],
          listed : SUBSET Segments, todo : SUBSET Segments, segments : SUBSET Segments]
    \cup [at : {"uploading"}, began : Versions, warm : [Segments -> Nat], folder : Nat]

\* A folder with the frames of the segments S.  rows: per segment and measure the version
\* of the summary that the row is from, 0 for dummy values (NaN).
ExportType(S) ==
    [rows : [S -> [Measures -> Nat]], files : 0 .. NumFiles,
     answered : BOOLEAN, began : Versions, warm : [Segments -> Nat]]

CombineTypeOK ==
    /\ startTime \in [Segments -> StartTimes]
    /\ input \in Versions
    /\ summaries \in [Segments -> Seq(SUBSET Measures)]
    /\ local \in [Containers -> Versions]
    /\ run \in [Containers -> RunType]
    /\ \A i \in DOMAIN exports : LET S == DOMAIN exports[i].rows IN
         S \subseteq Segments /\ exports[i] \in ExportType(S)
    /\ deliveries \in 0 .. MaxDeliveries

CombineInit ==
    /\ startTime \in [Segments -> StartTimes]
    /\ input = NoFiles
    /\ summaries = [s \in Segments |-> <<>>]
    /\ local = [c \in Containers |-> NoFiles]
    /\ run = [c \in Containers |-> Idle]
    /\ exports = <<>>
    /\ deliveries = 0

-----------------------------------------------------------------------------
\* backtest-combine, outside: writes an object, or writes it again.
PutInput(k, s) ==
    /\ input[k][s] < MaxVersion[k][s]
    /\ input' = [input EXCEPT ![k][s] = @ + 1]
    /\ \/ k = "results" /\ UNCHANGED summaries
       \/ /\ k = "grid"
          /\ \E content \in Contents[s] :
                summaries' = [summaries EXCEPT ![s] = Append(@, content)]
    /\ UNCHANGED <<startTime, local, run, exports, deliveries>>

\* The queue: a delivery to a container that is free, or to a new one in its place.
Deliver(c, isNew) ==
    /\ run[c] = Idle /\ deliveries < MaxDeliveries
    /\ deliveries' = deliveries + 1
    /\ local' = IF isNew THEN [local EXCEPT ![c] = NoFiles] ELSE local
    /\ run' = [run EXCEPT ![c] = [at |-> "listing results", began |-> input,
                                  warm |-> local'[c]["grid"]]]
    /\ UNCHANGED <<startTime, input, summaries, exports>>

\* An exception nobody catches (a summary whose rows have another length than the columns
\* of the first one, among others), or the time limit.  The files stay on the disk.
Fail(c) ==
    /\ run[c] # Idle
    /\ run' = [run EXCEPT ![c] = Idle]
    /\ UNCHANGED <<startTime, input, summaries, local, exports, deliveries>>

\* listObjects_filtered.  Mutated: the first page of the bucket's objects.
Listed_FirstPage(k) == {s \in Segments : input[k][s] > 0 /\ s < NumSegments}
Listed(k) == {s \in Segments : input[k][s] > 0}

ListResults(c) ==
    /\ run[c].at = "listing results"
    /\ LET L == Listed("results")
       IN run' = [run EXCEPT ![c] = [at |-> "results", began |-> @.began, warm |-> @.warm,
                                     listed |-> L, todo |-> L, segments |-> {}]]
    /\ UNCHANGED <<startTime, input, summaries, local, exports, deliveries>>

\* downloadObjects_filtered, the next file: what is on the disk is taken to be the object.
Download(c) ==
    LET k == run[c].at
        s == CHOOSE t \in run[c].todo : \A u \in run[c].todo : t <= u
    IN  /\ k \in Kinds /\ run[c].todo # {}
        /\ local' = IF local[c][k][s] # 0 THEN local
                    ELSE [local EXCEPT ![c][k][s] = input[k][s]]
        /\ run' = [run EXCEPT ![c].todo = @ \ {s}]
        /\ UNCHANGED <<startTime, input, summaries, exports, deliveries>>

\* getOrderedSegmentIds: one segment per start time, the last that was listed.
\* Mutated: the keys of the map instead of its values.
OrderedSegments_Times(L) == {startTime[s] : s \in L}
OrderedSegments(L) ==
    {s \in L : \A t \in L : startTime[t] = startTime[s] => t <= s}

\* The segments are known, their summaries are listed; downloadedFiles[0] throws if
\* there is no segment.
ListGridSummaries(c) ==
    /\ run[c].at = "results" /\ run[c].todo = {} /\ run[c].listed # {}
    /\ LET L == Listed("grid")
       IN run' = [run EXCEPT ![c].at = "grid", ![c].listed = L, ![c].todo = L,
                             ![c].segments = OrderedSegments(run[c].listed)]
    /\ UNCHANGED <<startTime, input, summaries, local, exports, deliveries>>

\* buildTimeSeriesFrame, the frames of all measures: a segment's row is that of its
\* summary.  Looking it up throws if the summary was not listed or has no such row, and
\* the exception, caught, leaves dummy values.
RowsOf(s, version) ==
    [m \in Measures |-> IF m \in summaries[s][version] THEN version ELSE 0]
Dummies == [m \in Measures |-> 0]

\* Mutated: the summaries that are there, in the order of the segments.
Rows_Shifted(S, L, versions) ==
    [s \in S |-> IF Cardinality({t \in S : t <= s}) <= Cardinality(S \cap L)
                 THEN LET other == CHOOSE u \in S \cap L :
                            Cardinality({t \in S \cap L : t <= u})
                                = Cardinality({t \in S : t <= s})
                      IN RowsOf(other, versions[other])
                 ELSE Dummies]
Rows(S, L, versions) == [s \in S |-> IF s \in L THEN RowsOf(s, versions[s]) ELSE Dummies]

\* exportTimeSeriesFrames into a folder with a fresh id (a random number and the time),
\* and the metadata; segmentGridSummaries[0] throws if no segment has a summary.
Export(c) ==
    LET r == run[c]
    IN  /\ r.at = "grid" /\ r.todo = {} /\ r.segments \cap r.listed # {}
        /\ exports' = Append(exports,
             [rows |-> Rows(r.segments, r.listed, local[c]["grid"]), files |-> 0,
              answered |-> FALSE, began |-> r.began, warm |-> r.warm])
        /\ run' = [run EXCEPT ![c] = [at |-> "uploading", began |-> r.began, warm |-> r.warm,
                                      folder |-> Len(exports')]]
        /\ UNCHANGED <<startTime, input, summaries, local, deliveries>>

\* uploadSubFolder, the next file.
Upload(c) ==
    /\ run[c].at = "uploading" /\ exports[run[c].folder].files < NumFiles
    /\ exports' = [exports EXCEPT ![run[c].folder].files = @ + 1]
    /\ UNCHANGED <<startTime, input, summaries, local, run, deliveries>>

\* Mutated: the handler does not wait for the upload.
Uploaded_Begun(folder) == folder.files > 0
Uploaded(folder) == folder.files = NumFiles

\* statusCode 200 with the name of the folder.
Answer(c) ==
    /\ run[c].at = "uploading" /\ Uploaded(exports[run[c].folder])
    /\ exports' = [exports EXCEPT ![run[c].folder].answered = TRUE]
    /\ run' = [run EXCEPT ![c] = Idle]
    /\ UNCHANGED <<startTime, input, summaries, local, deliveries>>

CombineNext ==
    \/ \E k \in Kinds, s \in Segments : PutInput(k, s)
    \/ \E c \in Containers :
         \/ \E isNew \in BOOLEAN : Deliver(c, isNew)
         \/ Fail(c)
         \/ ListResults(c) \/ Download(c) \/ ListGridSummaries(c)
         \/ Export(c) \/ Upload(c) \/ Answer(c)

CombineSpec == CombineInit /\ [][CombineNext]_combineVars

-----------------------------------------------------------------------------
\* However the deliveries overlap and fail, and whatever backtests write meanwhile: in all
\* frames of a folder, a segment's rows are those of one version of its summary, with dummy
\* values exactly for the measures that this version has no row for.  There is no such
\* version, and all is dummies, only if the bucket had no summary of the segment when the
\* invocation began; and it is older than the one the bucket had then only if the
\* container had that file from an earlier invocation.
RowsAreExplained ==
    \A i \in DOMAIN exports : LET e == exports[i] IN
        \A s \in DOMAIN e.rows : \E version \in 0 .. Len(summaries[s]) :
            /\ \A m \in Measures :
                 e.rows[s][m] = IF version # 0 /\ m \in summaries[s][version]
                                THEN version ELSE 0
            /\ version = 0 => e.began["grid"][s] = 0
            /\ version < e.began["grid"][s] => version = e.warm[s]

\* A folder that was announced is whole: all its files are in the bucket, and it covers
\* the start time of every segment whose results were there when the invocation began
\* (of segments with one start time it has one).
AnnouncedIsWhole ==
    \A i \in DOMAIN exports : LET e == exports[i] IN
        e.answered =>
            /\ e.files = NumFiles
            /\ \A s \in Segments :
                 e.began["results"][s] > 0 =>
                     \E t \in DOMAIN e.rows : startTime[t] = startTime[s]
=============================================================================
