--------------------------- MODULE AndroidValidate ---------------------------
(***************************************************************************)
(* The collector tool/android_validate.py --run: it deploys the pinned     *)
(* files to a device, runs the native test for every requested backend and *)
(* context with a logcat process and a memory sampler thread beside it,    *)
(* and writes down what the reports show (RunEvaluation).                  *)
(*                                                                         *)
(* The main thread is cut where it can fail, wait, be interrupted or be    *)
(* seen by the sampler; main.at is where it is.  An exception goes to the  *)
(* handler of that place (Handler).  A process stands for its group.       *)
(* The test's output is chosen when it is read, after its process ended;   *)
(* of logcat's, only an older last line matters.  Host files change        *)
(* and the device goes until the runs begin: later no one asks for them.   *)
(* The collector may be interrupted (KeyboardInterrupt), or killed and     *)
(* started again: the device's files are what the next attempt finds.      *)
(* Names, the journal of commands, plans that are only printed (--plan)    *)
(* and what counters say are left out, and so are the processes that a     *)
(* killed collector leaves.                                                *)
(***************************************************************************)
EXTENDS RunEvaluation, FiniteSets

CONSTANTS
    Run,           \* requested runs: [backend, context]
    File,          \* "model" and the media files that were given
    Version,       \* contents of host, by their digest
    OnHost,        \* those that each file may have on the host
    Pinned,        \* the one whose digest the manifest pins
    Cut,           \* a part of a file
    None,
    Harness,       \* the native test's reports: [scenario, phase, position]
    Unsure,        \* runs whose test may print something else
    MaxSamples,    \* rows of the sampler in a run
    MaxInterrupts  \* in an attempt

ASSUME CollectorAssumption ==
    /\ "model" \in File
    /\ File \ {"model"} \subseteq Media
    /\ Pinned \in Version
    /\ OnHost \in [File -> SUBSET Version]
    /\ None \notin Version /\ Cut \notin Version /\ Cut # None
    /\ None \notin Nat
    /\ MaxSamples \in Nat

\* What native_model_test.dart reports of a run in which all is well; of a media
\* file that was not given it only says so, which is left out.
Wanted ==
    [scenario : {"retrieval"}, phase : Phase, position : Position]
    \union [scenario : Cancellation \union {"multi_turn_full"}, phase : Phase,
            position : {NoPosition}]
    \union [scenario : (File \ {"model"}) \union {"summary"}, phase : {NoPhase},
            position : {NoPosition}]

\* Each once; and a context is one of the tiers in CONTEXTS.
ASSUME HarnessAssumption ==
    /\ Harness \in Seq(Wanted) /\ IsInjective(Harness)
    /\ \A run \in Run : run.context \in Nat /\ run.context > 1
    /\ Media \intersect ({"retrieval", "multi_turn_full", "summary"}
                         \union Cancellation) = {}

VARIABLES
    host,       \* the files on the host
    device,     \* what is under each file's final name on the device
    partial,    \* the upload of this attempt, or None
    online,     \* the device answers
    main,       \* the main thread
    planned,    \* the identities (digests) of the plan
    process,    \* its child processes
    sampler,    \* its thread
    folder,     \* the evidence of each run
    result,     \* result.json of each run, or None
    recorded,   \* report["runs"]
    validation, \* validation.json
    interrupts

phone    == <<device, partial, online>>
evidence == <<result, recorded, validation>>
others   == <<host, phone, planned, process, sampler, folder, evidence, interrupts>>
vars == <<host, device, partial, online, main, planned, process, sampler,
          folder, result, recorded, validation, interrupts>>

-----------------------------------------------------------------------------

\* file: the one that is deployed; waits: the process that is waited for; unremoved:
\* the command that removes an unfinished upload failed.
Start == [at |-> "plan", file |-> "model", done |-> {}, run |-> None,
          waits |-> "bootstrap", timedOut |-> FALSE, raised |-> "nothing",
          exposed |-> FALSE, unremoved |-> FALSE, status |-> "running", code |-> None]

NotStarted == [state |-> "none", code |-> None]
Started    == [state |-> "running", code |-> None]

\* A file that was not written to its end.
Torn == [status |-> "torn", runs |-> {}]

NoSampler == [at |-> "none", stopped |-> FALSE]

\* A report of the native test that is as it should be.
Reported(run, report) ==
    [run |-> run, scenario |-> report.scenario, phase |-> report.phase,
     position |-> report.position, retrievalCorrect |-> TRUE, identified |-> TRUE,
     exact |-> TRUE, requiredTokens |-> run.context, cancelled |-> TRUE,
     phaseConfirmed |-> TRUE, retried |-> TRUE, contextFull |-> TRUE,
     status |-> "passed"]

Empty == [stdout |-> <<>>, logcat |-> <<>>, samples |-> 0]

\* The device may hold anything under the names of the files.
Init ==
    /\ host \in [File -> Version] /\ \A f \in File : host[f] \in OnHost[f]
    /\ device \in [File -> Version \union {Cut, None}]
    /\ online = TRUE
    /\ main = Start
    /\ planned = [f \in File |-> None]
    /\ process = [p \in {"bootstrap", "test", "logcat"} |-> NotStarted]
    /\ sampler = NoSampler
    /\ folder = [r \in Run |-> Empty]
    /\ result = [r \in Run |-> None]
    /\ recorded = {}
    /\ validation = [status |-> "none", runs |-> {}]
    /\ partial = None
    /\ interrupts = 0

\* Only what is on the host and under the final names outlives a collector.
New(place) ==
    /\ main' = [Start EXCEPT !.at = place]
    /\ planned' = [f \in File |-> None]
    /\ process' = [p \in {"bootstrap", "test", "logcat"} |-> NotStarted]
    /\ sampler' = NoSampler
    /\ folder' = [r \in Run |-> Empty]
    /\ result' = [r \in Run |-> None]
    /\ recorded' = {}
    /\ validation' = [status |-> "none", runs |-> {}]
    /\ partial' = None
    /\ online' = TRUE
    /\ interrupts' = 0
    /\ UNCHANGED <<host, device>>

Ended == main.at \in {"exited", "killed"}

Goto(place) == main' = [main EXCEPT !.at = place]

\* Where an exception goes from the place the main thread is at.
Handler ==
    CASE main.at \in {"upload", "digest", "rename"} -> "remove"
      [] main.at = "wait" -> "stop"
      [] main.at \in {"popen", "launched", "stop", "term", "kill"}
         /\ main.waits = "test" -> "signal"
      [] main.at \in {"plan", "output", "final"} -> "exited"
      [] OTHER -> "except"

CodeOf(raised) ==
    CASE raised = "interrupt" -> 130
      [] raised = "error"     -> 2
      [] raised = "timeout"   -> 1   \* TimeoutExpired is not caught by main

Raise(exception) ==
    main' = [main EXCEPT !.at = Handler, !.raised = exception,
                         !.code = IF Handler = "exited" THEN CodeOf(exception) ELSE @]

-----------------------------------------------------------------------------
(* Before the runs.                                                        *)

file_identity(f) == host[f]

verify_file(f, digest) == file_identity(f) = digest

make_plan ==
    /\ main.at = "plan"
    /\ \/ /\ verify_file("model", Pinned)
          /\ planned' = [f \in File |-> file_identity(f)]
          /\ Goto("output")
       \/ Raise("error") /\ UNCHANGED planned
    /\ UNCHANGED <<host, phone, process, sampler, folder, evidence, interrupts>>

\* Commands.capture: a command that fails, cannot be started or overruns its time
\* limit raises; one that succeeds was answered by the device.
capture(Then) == Raise("error") \/ (online /\ Then)

\* The output directory must be new.
OpenOutput ==
    /\ main.at = "output"
    /\ Raise("error") \/ Goto("metadata")
    /\ UNCHANGED others

device_metadata == main.at = "metadata" /\ capture(Goto("popen")) /\ UNCHANGED others

InstallApk == main.at = "install" /\ capture(Goto("locate")) /\ UNCHANGED others

\* run-as names the application's own directory and its user.
Locate == main.at = "locate" /\ capture(Goto("deploy")) /\ UNCHANGED others

\* Mutant: a file of that name is taken for the right one.
LookupName ==
    /\ main.at = "deploy"
    /\ capture(\/ device[main.file] # None /\ Goto("deployed")
               \/ Goto("upload"))
    /\ UNCHANGED others

\* deploy_file begins: a file whose digest is right is not sent again; one that
\* has another, or whose digest cannot be had, is.
Lookup ==
    /\ main.at = "deploy"
    /\ capture(\/ device[main.file] = planned[main.file] /\ Goto("deployed")
               \/ Goto("upload"))
    /\ UNCHANGED others

\* The host's file as it is now, or a part of it, whatever the command says.
Upload ==
    /\ main.at = "upload"
    /\ partial' \in IF online THEN {None, Cut, host[main.file]} ELSE {None}
    /\ \/ Raise("error")
       \/ partial' # None /\ Goto("digest")
    /\ UNCHANGED <<host, device, online, planned, process, sampler, folder, evidence, interrupts>>

\* Mutant: the digest of the upload is not compared.
DigestIgnored ==
    /\ main.at = "digest"
    /\ capture(Goto("rename"))
    /\ UNCHANGED others

Digest ==
    /\ main.at = "digest"
    /\ capture(partial = planned[main.file] /\ Goto("rename"))
    /\ UNCHANGED others

\* mv is atomic; it may have happened though its command timed out.
Rename ==
    /\ main.at = "rename"
    /\ \/ /\ online
          /\ device' = [device EXCEPT ![main.file] = partial]
          /\ partial' = None
          /\ Goto("remove") \/ Raise("error")
       \/ Raise("error") /\ UNCHANGED <<device, partial>>
    /\ UNCHANGED <<host, online, planned, process, sampler, folder, evidence, interrupts>>

\* finally: rm -f, whatever it says (check=False): it may fail, or overrun its time
\* limit before or after it did its work, on a device that answers too.  Only its
\* entry in the journal can raise.
RemovePartial ==
    /\ main.at = "remove"
    /\ \E failed \in BOOLEAN, raised \in {main.raised, "error"} :
         /\ failed \/ online
         /\ partial' \in (IF online THEN {None} ELSE {})
                         \union (IF failed THEN {partial} ELSE {})
         /\ main' = [main EXCEPT !.at = IF raised = "nothing" THEN "deployed" ELSE "except",
                        !.raised = raised, !.unremoved = failed /\ partial # None]
    /\ UNCHANGED <<host, device, online, planned, process, sampler, folder, evidence, interrupts>>

\* The model first, then the others.
Deployed ==
    LET done == main.done \union {main.file} IN
    /\ main.at = "deployed"
    /\ \/ File \ done = {} /\ main' = [main EXCEPT !.at = "next", !.done = done]
       \/ \E f \in File \ done :
            main' = [main EXCEPT !.at = "deploy", !.done = done, !.file = f]
    /\ UNCHANGED others

-----------------------------------------------------------------------------
(* Processes: run_logged and stop_process of the process main waits for.   *)

Popen ==
    /\ main.at = "popen"
    /\ \/ Raise("error") /\ UNCHANGED process
       \/ /\ process' = [process EXCEPT ![main.waits] = Started]
          /\ main' = [main EXCEPT !.at = "launched", !.timedOut = FALSE]
    /\ UNCHANGED <<host, phone, planned, sampler, folder, evidence, interrupts>>

EnterTry == main.at = "launched" /\ Goto("wait") /\ UNCHANGED others

HasEnded == process[main.waits].state = "ended"

\* Mutant: the test may take its time.
WaitForever ==
    /\ main.at = "wait" /\ HasEnded
    /\ Goto("stop")
    /\ UNCHANGED others

\* process.wait(timeout=...)
Wait ==
    /\ main.at = "wait"
    /\ main' = [main EXCEPT !.at = "stop", !.timedOut = ~HasEnded]
    /\ UNCHANGED others

\* What follows stop_process.
Stopped ==
    CASE main.waits = "bootstrap" ->
           IF main.raised # "nothing" THEN Goto("except")
           ELSE IF process["bootstrap"].code # 0 THEN Raise("error")
           ELSE Goto("install")
      [] main.waits = "test" -> Goto("signal")
      [] main.waits = "logcat" ->
           Goto(IF main.raised # "nothing" THEN "except" ELSE "joined")

\* Mutant: who ignores SIGTERM is left alone.
StopOnce ==
    /\ main.at \in {"stop", "term", "kill"}
    /\ \/ (HasEnded \/ main.at = "term") /\ Stopped /\ UNCHANGED process
       \/ ~HasEnded /\ main.at = "stop" /\ Goto("term") /\ UNCHANGED process
    /\ UNCHANGED <<host, phone, planned, sampler, folder, evidence, interrupts>>

\* SIGTERM, ten seconds, SIGKILL, ten seconds.
stop_process ==
    /\ main.at \in {"stop", "term", "kill"}
    /\ \/ HasEnded /\ Stopped /\ UNCHANGED process
       \/ ~HasEnded /\ main.at = "stop" /\ Goto("term") /\ UNCHANGED process
       \/ /\ ~HasEnded /\ main.at = "term"
          /\ Goto("kill")
          /\ process' = [process EXCEPT ![main.waits].state = "killed"]
       \/ ~HasEnded /\ main.at = "kill" /\ Raise("timeout") /\ UNCHANGED process
    /\ UNCHANGED <<host, phone, planned, sampler, folder, evidence, interrupts>>

-----------------------------------------------------------------------------
(* What the native test prints.                                            *)

\* A report with one thing in it that is not as it should be, or a media file
\* that the artifact does not support.
Flawed(row) ==
    CASE row.scenario = "retrieval" ->
           {[row EXCEPT !.retrievalCorrect = FALSE], [row EXCEPT !.identified = FALSE],
            [row EXCEPT !.exact = FALSE], [row EXCEPT !.requiredTokens = 0],
            [row EXCEPT !.requiredTokens = row.run.context + 1]}
      [] row.scenario = "cancel_prefill" ->
           {[row EXCEPT !.cancelled = FALSE], [row EXCEPT !.retried = FALSE]}
      [] row.scenario = "cancel_decode" ->
           {[row EXCEPT !.cancelled = FALSE], [row EXCEPT !.phaseConfirmed = FALSE],
            [row EXCEPT !.retried = FALSE]}
      [] row.scenario = "multi_turn_full" -> {[row EXCEPT !.contextFull = FALSE]}
      [] row.scenario \in Media ->
           {[row EXCEPT !.status = status] :
              status \in {"not_run_no_file", "unsupported_by_artifact"}}
      [] OTHER -> {}

Complete(run) == [i \in 1 .. Len(Harness) |-> Reported(run, Harness[i])]

\* What may be wrong with an output: a line that is broken, one report, reports
\* that are missing (all of them, if the test was skipped).
FlawedOutputs(run) ==
    {<<>>, Append(Complete(run), Broken)} \union UNION {
        {ReplaceAt(Complete(run), i, row) : row \in Flawed(Complete(run)[i])}
        \union {RemoveAt(Complete(run), i)} : i \in 1 .. Len(Harness)}

Outputs(run) ==
    {Complete(run)} \union (IF run \in Unsure THEN FlawedOutputs(run) ELSE {})

-----------------------------------------------------------------------------
(* The runs, and the end.                                                  *)

\* Each run in its turn: its folder, and its logcat, which may show an older
\* last line.
NextRun ==
    /\ main.at = "next" /\ Run \ recorded # {}
    /\ \/ Raise("error") /\ UNCHANGED <<process, sampler, folder>>
       \/ LET run == CHOOSE r \in Run : r \notin recorded
          IN  /\ main' = [main EXCEPT !.at = "watch", !.run = run, !.waits = "test"]
              /\ process' = [process EXCEPT !["logcat"] = Started, !["test"] = NotStarted]
              /\ sampler' = NoSampler
              /\ folder' = [folder EXCEPT ![run].logcat = <<Reported(run, Last(Harness))>>]
    /\ UNCHANGED <<host, phone, planned, evidence, interrupts>>

StartSampler ==
    /\ main.at = "watch" /\ Goto("popen")
    /\ sampler' = [sampler EXCEPT !.at = "top"]
    /\ UNCHANGED <<host, phone, planned, process, folder, evidence, interrupts>>

\* finally: stopped.set()
Signal ==
    /\ main.at = "signal" /\ Goto("join")
    /\ sampler' = [sampler EXCEPT !.stopped = TRUE]
    /\ UNCHANGED <<host, phone, planned, process, folder, evidence, interrupts>>

\* sampler.join(timeout=60), which says nothing; then logcat is stopped.
Join ==
    /\ main.at = "join"
    /\ main' = [main EXCEPT !.at = "stop", !.waits = "logcat"]
    /\ UNCHANGED others

\* Mutant: a sampler that did not stop is not looked at.
JoinedAnyway == main.at = "joined" /\ Goto("evaluate") /\ UNCHANGED others

Joined ==
    /\ main.at = "joined"
    /\ IF sampler.at = "ended" THEN Goto("evaluate") ELSE Raise("error")
    /\ UNCHANGED others

Verdict(run, output) ==
    LET logcat   == folder[run].logcat
        exitCode == process["test"].code
    IN  [status |-> AutomatedStatus(output, logcat, exitCode, run, File \ {"model"}),
         exitCode |-> exitCode, timedOut |-> main.timedOut,
         reports |-> Retained(output, logcat), sampleCount |-> folder[run].samples]

\* Reads the logs and the samples, and writes result.json.
Evaluate ==
    /\ main.at = "evaluate"
    /\ \/ Raise("error") /\ UNCHANGED <<folder, result>>
       \/ \E output \in Outputs(main.run) :
            /\ folder' = [folder EXCEPT ![main.run].stdout = output]
            /\ result' = [result EXCEPT ![main.run] = Verdict(main.run, output)]
            /\ Goto("record")
    /\ UNCHANGED <<host, phone, planned, process, sampler, recorded, validation, interrupts>>

Record ==
    /\ main.at = "record"
    /\ recorded' = recorded \union {main.run}
    /\ \/ Raise("error") /\ UNCHANGED validation
       \/ validation' = [status |-> "running", runs |-> recorded'] /\ Goto("next")
    /\ UNCHANGED <<host, phone, planned, process, sampler, folder, result, interrupts>>

Conclude ==
    /\ main.at = "next" /\ Run \subseteq recorded
    /\ main' = [main EXCEPT !.at = "final",
                   !.status = IF \A run \in Run : result[run].status = "passed"
                              THEN "passed" ELSE "failed_or_incomplete"]
    /\ UNCHANGED others

Blocked ==
    /\ main.at = "except"
    /\ main' = [main EXCEPT !.at = "final", !.status = "blocked_or_interrupted"]
    /\ UNCHANGED others

\* finally: validation.json, then main returns or reports the exception.
Finish ==
    /\ main.at = "final"
    /\ \/ Raise("error") /\ validation' \in {validation, Torn}
       \/ /\ validation' = [status |-> main.status, runs |-> recorded]
          /\ main' = [main EXCEPT !.at = "exited",
                         !.code = IF main.raised # "nothing" THEN CodeOf(main.raised)
                                  ELSE IF main.status = "passed" THEN 0 ELSE 1]
    /\ UNCHANGED <<host, phone, planned, process, sampler, folder, result, recorded, interrupts>>

Main ==
    \/ make_plan \/ OpenOutput \/ device_metadata \/ InstallApk \/ Locate
    \/ Lookup \/ Upload \/ Digest \/ Rename \/ RemovePartial
    \/ Deployed \/ Popen \/ EnterTry \/ Wait \/ stop_process
    \/ NextRun \/ StartSampler \/ Signal \/ Join \/ Joined \/ Evaluate \/ Record
    \/ Conclude \/ Blocked \/ Finish

-----------------------------------------------------------------------------
(* The sampler thread: sample_memory in memory_worker.  A daemon: it is    *)
(* gone when the collector is.                                             *)

\* One more row, or none because it was stopped in the middle of a round.
Sample ==
    /\ ~Ended
    /\ sampler.at \in {"top", "asked", "read", "wait"}
    /\ \/ /\ sampler.at \in {"top", "asked"}
          /\ sampler' = [sampler EXCEPT !.at = IF sampler.stopped THEN "ended"
                                      ELSE IF @ = "top" THEN "asked" ELSE "read"]
          /\ sampler.at = "top" => sampler.stopped \/ folder[main.run].samples < MaxSamples
          /\ UNCHANGED folder
       \/ /\ sampler.at = "read"
          /\ folder' = [folder EXCEPT ![main.run].samples = @ + 1]
          /\ sampler' = [sampler EXCEPT !.at = "wait"]
       \/ /\ sampler.at = "wait"
          /\ sampler' = [sampler EXCEPT !.at = "top"]
          /\ UNCHANGED folder
    /\ UNCHANGED <<host, phone, main, planned, process, evidence, interrupts>>

\* memory_worker: any exception ends it.
SamplerFails ==
    /\ ~Ended /\ sampler.at \in {"top", "asked", "read"}
    /\ sampler' = [sampler EXCEPT !.at = "ended"]
    /\ UNCHANGED <<host, phone, main, planned, process, folder, evidence, interrupts>>

-----------------------------------------------------------------------------
(* What the collector watches: the native test, processes, host, a user.  *)

\* A process ends by itself, or after a signal; SIGKILL is no success.
ProcessEnds(p) ==
    /\ process[p].state \in {"running", "killed"}
    /\ \E code \in {0, 1} :
         /\ process[p].state = "killed" => code = 1
         /\ p = "logcat" => code = 1
         /\ process' = [process EXCEPT ![p] = [state |-> "ended", code |-> code]]
    /\ UNCHANGED <<host, phone, main, planned, sampler, folder, evidence, interrupts>>

\* Until the runs begin.
Preparing == ~Ended /\ main.run = None

Disconnect ==
    /\ Preparing /\ online
    /\ online' = FALSE
    /\ UNCHANGED <<host, device, partial, main, planned, process, sampler, folder,
                   evidence, interrupts>>

EditHost(f) ==
    /\ Preparing
    /\ \E version \in OnHost[f] : host' = [host EXCEPT ![f] = version]
    /\ UNCHANGED <<phone, main, planned, process, sampler, folder, evidence, interrupts>>

\* Where an exception skips what would have been cleaned up: between a Popen and
\* its try, and in a finally.
Exposed == {"launched", "watch", "signal", "join", "stop", "term", "kill", "remove"}

Interrupt ==
    /\ ~Ended /\ interrupts < MaxInterrupts
    /\ interrupts' = interrupts + 1
    /\ main' = [main EXCEPT !.at = Handler, !.raised = "interrupt",
                   !.code = IF Handler = "exited" THEN 130 ELSE @,
                   !.exposed = @ \/ main.at \in Exposed]
    /\ validation' \in {validation} \union (IF main.at \in {"record", "final"}
                                           THEN {Torn} ELSE {})
    /\ UNCHANGED <<host, phone, planned, process, sampler, folder, result, recorded>>

\* The collector is killed; later, a new attempt in a new output directory.
Crash ==
    /\ ~Ended
    /\ New("killed")

Again ==
    /\ Ended
    /\ New("plan")

Next ==
    \/ Main \/ Sample \/ SamplerFails
    \/ \E p \in {"bootstrap", "test", "logcat"} : ProcessEnds(p)
    \/ Disconnect
    \/ \E f \in File : EditHost(f)
    \/ Interrupt \/ Crash \/ Again

\* Every command and every wait of the main thread has its time limit.
Spec == Init /\ [][Next]_vars /\ WF_vars(Main)

-----------------------------------------------------------------------------

Content == Version \union {Cut, None}

ValidateTypeOK ==
    /\ host \in [File -> Version]
    /\ device \in [File -> Content]
    /\ partial \in Content
    /\ online \in BOOLEAN
    /\ planned \in [File -> Version \union {None}]
    /\ main.file \in File /\ main.done \subseteq File
    /\ main.run \in Run \union {None}
    /\ main.code \in IF main.at = "exited" THEN {0, 1, 2, 130} ELSE {None}
    /\ sampler.stopped \in BOOLEAN
    /\ \A p \in DOMAIN process : process[p].state \in {"none", "running", "killed", "ended"}
    /\ \A r \in Run : folder[r].samples \in 0 .. MaxSamples
    /\ recorded \subseteq Run

\* "SHA-256 verified before atomic rename" (make_plan): while a native test of
\* this collector runs, every file it is given has the planned digest, and the
\* model the pinned one, whatever the device held, whoever edits the host's file
\* during the upload and whichever command failed in an earlier attempt.
DeployedIsPinned ==
    process["test"].state = "running" /\ main.at # "killed" =>
        /\ device = planned
        /\ planned["model"] = Pinned

\* The final name never shows an upload that was not verified: what appears
\* there is the file of the plan, whole, even if the collector is killed.
FinalIsVerified ==
    [][\A f \in File : device'[f] # device[f] => device'[f] = planned[f]]_vars

\* A collector that is not killed leaves nothing of its own behind, though it fails
\* or is interrupted, unless that is while it cleans up: no process runs, except
\* one that SIGKILL did not end, and an unfinished upload stays on the device only
\* if the command that removes it was sent and failed.
NothingIsLeft ==
    main.at = "exited" /\ ~main.exposed =>
        /\ \A p \in DOMAIN process : process[p].state # "running"
        /\ partial # None => main.unremoved

\* What a result says of its folder stays true: the sampler writes no row after
\* they were counted, and every report that was evaluated is retained.
ResultsAreFinal ==
    \A r \in Run : result[r] # None =>
        /\ result[r].sampleCount = folder[r].samples
        /\ parse_reports(folder[r].stdout).reports \subseteq result[r].reports

\* All along the collector's state and evidence are consistent.
Consistent == ValidateTypeOK /\ ResultsAreFinal

\* What a run needs to pass (doc/android-validation.md, Evidence files): every
\* report of the test, read from its own output, is as it should be, or says that
\* the artifact does not support a media file, and the test succeeded.
Earned(run) ==
    LET lines == ToSet(folder[run].stdout)
        Judged(row) == IF row.status = "unsupported_by_artifact"
                       THEN [row EXCEPT !.status = "passed"] ELSE row
    IN
    /\ result[run].exitCode = 0
    /\ Broken \notin lines
    /\ {Judged(row) : row \in lines} = {Reported(run, Harness[i]) : i \in 1 .. Len(Harness)}

\* validation.json says passed, or the exit code is 0, only if all the runs were
\* made and every one of them earned it.
PassedIsEarned ==
    validation.status = "passed" \/ main.code = 0 =>
        /\ validation.status = "passed"
        /\ validation.runs = Run
        /\ \A r \in Run : Earned(r)

\* "A timeout is a failure" (doc/android-validation.md): a test that overran its
\* time limit does not pass.
TimeoutIsFailure ==
    \A r \in Run : result[r] # None =>
        (result[r].timedOut => result[r].status # "passed")

\* Every attempt comes to its end, though the device is gone, the processes
\* ignore signals and the sampler never stops.
CollectorEnds == ~Ended ~> Ended
=============================================================================
