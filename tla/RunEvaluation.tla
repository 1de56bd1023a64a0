---------------------------- MODULE RunEvaluation ----------------------------
(***************************************************************************)
(* What tool/android_validate.py makes of the output of one run of the     *)
(* native test: the reports in it (parse_reports), what they show          *)
(* (evaluate_run) and the status of the run (execute).  Operators only;    *)
(* AndroidValidate uses them.                                              *)
(*                                                                         *)
(* A line of output is a report, or the broken piece of one; lines without *)
(* a marker are left out.  A report has every field: FALSE, 0 and          *)
(* "not_reported" stand for one that is missing or of another type.        *)
(***************************************************************************)
EXTENDS Integers, Sequences, SequencesExt

CONSTANTS
    Phase,    \* "cold_engine" and "warm_disk_cache"
    Position, \* of the secret in the prompt: .05, .5, .95
    Media,    \* "image", "audio": scenarios media_image and media_audio
    Broken    \* a line with a marker and no JSON object behind it

NoPhase    == "no phase"
NoPosition == "no position"

Report == [run : [backend : STRING, context : Nat],
           scenario : {"retrieval", "cancel_prefill", "cancel_decode",
                       "multi_turn_full", "summary"} \union Media,
           phase : Phase \union {NoPhase},
           position : Position \union {NoPosition},
           retrievalCorrect : BOOLEAN,
           identified : BOOLEAN,    \* model, runtime and context are the pinned ones
           exact : BOOLEAN, requiredTokens : Nat,            \* its budget
           cancelled : BOOLEAN, phaseConfirmed : BOOLEAN,
           retried : BOOLEAN,       \* retry is a text that is not empty
           contextFull : BOOLEAN,   \* failure is 'context-full'
           status : {"passed", "unsupported_by_artifact", "not_run_no_file",
                     "not_reported"}]       \* of media

-----------------------------------------------------------------------------

parse_reports(lines) ==
    [reports |-> ToSet(lines) \ {Broken}, errors |-> Broken \in ToSet(lines)]

\* reports.json: the rows of both logs, each of them once.
Retained(stdout, logcat) ==
    parse_reports(stdout).reports \union parse_reports(logcat).reports

Relevant(lines, run) == {row \in parse_reports(lines).reports : row.run = run}

Found(rows, phase, scenario) ==
    {row \in rows : row.phase = phase /\ row.scenario = scenario}

Retrievals(rows, phase, position) ==
    {row \in Found(rows, phase, "retrieval") : row.position = position}

\* "exact near-capacity evidence"
NearCapacity(row) ==
    /\ row.exact
    /\ (row.run.context * 97) \div 100 <= row.requiredTokens
    /\ row.requiredTokens <= row.run.context

Cancellation == {"cancel_prefill", "cancel_decode"}

CancelConfirmed(row) ==
    /\ row.cancelled
    /\ row.scenario = "cancel_decode" => row.phaseConfirmed
    /\ row.retried

Problems(rows) ==
    \E phase \in Phase :
        \/ \E position \in Position :
             \E row \in Retrievals(rows, phase, position) :
               ~(row.retrievalCorrect /\ row.identified /\ NearCapacity(row))
        \/ \E row \in Found(rows, phase, "multi_turn_full") : ~row.contextFull
        \/ \E scenario \in Cancellation :
             \E row \in Found(rows, phase, scenario) : ~CancelConfirmed(row)

\* The last report of a kind counts.
MediaAcceptance(lines, run, kind) ==
    LET found == {i \in DOMAIN lines : /\ lines[i] # Broken
                                       /\ lines[i].run = run
                                       /\ lines[i].scenario = kind}
    IN  IF found = {} THEN "not_reported" ELSE lines[Max(found)].status

MediaMissing(lines, run, requested) ==
    \E kind \in requested :
        MediaAcceptance(lines, run, kind) \notin {"passed", "unsupported_by_artifact"}

Missing(rows) ==
    \/ \E phase \in Phase :
         \/ \E position \in Position : Retrievals(rows, phase, position) = {}
         \/ \E scenario \in Cancellation \union {"multi_turn_full"} :
              Found(rows, phase, scenario) = {}
    \/ {row \in rows : row.scenario = "summary"} = {}

evaluate_run(lines, exitCode, run, requested) ==
    IF exitCode # 0 \/ Problems(Relevant(lines, run)) THEN "failed"
    ELSE IF Missing(Relevant(lines, run)) \/ MediaMissing(lines, run, requested)
    THEN "incomplete" ELSE "passed"

\* Mutant: the rows of both logs are evaluated.
StatusOfRetained(stdout, logcat, exitCode, run, requested) ==
    IF parse_reports(stdout).errors
    THEN IF exitCode = 0 THEN "incomplete" ELSE "failed"
    ELSE evaluate_run(stdout \o logcat, exitCode, run, requested)

\* automatedStatus in execute: a report that cannot be read decides it.
AutomatedStatus(stdout, logcat, exitCode, run, requested) ==
    IF parse_reports(stdout).errors
    THEN IF exitCode = 0 THEN "incomplete" ELSE "failed"
    ELSE evaluate_run(stdout, exitCode, run, requested)
=============================================================================
