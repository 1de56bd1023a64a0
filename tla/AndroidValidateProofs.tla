------------------------- MODULE AndroidValidateProofs -------------------------
(***************************************************************************)
(* Proofs about the collector, for any runs, files, contents, outputs,     *)
(* failures, interrupts, kills and restarts.  Its deployment: what a       *)
(* native test is given, and what is ever seen under a final name.  Its    *)
(* cleaning up: nothing of its own stays behind.  Its evidence: what a     *)
(* result says stays true, and no pass is given that was not earned.       *)
(***************************************************************************)
EXTENDS AndroidValidate, TLAPS

-----------------------------------------------------------------------------
(* The deployment.  The inductive invariant.                               *)

Place == {"plan", "output", "metadata", "install", "locate", "deploy", "upload",
          "digest", "rename", "remove", "deployed", "popen", "launched", "wait",
          "stop", "term", "kill", "next", "watch", "signal", "join", "joined",
          "evaluate", "record", "except", "final", "exited", "killed"}

MainThread ==
    [at : Place, file : File, done : SUBSET File, run : Run \union {None},
     waits : {"bootstrap", "test", "logcat"}, timedOut : BOOLEAN,
     raised : {"nothing", "error", "timeout", "interrupt"}, exposed : BOOLEAN,
     unremoved : BOOLEAN,
     status : {"running", "passed", "failed_or_incomplete",
               "blocked_or_interrupted"}, code : Nat \union {None}]

Process == [state : {"none", "running", "killed", "ended"}, code : Nat \union {None}]

Typed ==
    /\ main \in MainThread
    /\ device \in [File -> Content]
    /\ host \in [File -> Version]
    /\ planned \in [File -> Version \union {None}]
    /\ process \in [{"bootstrap", "test", "logcat"} -> Process]

\* Where the main thread is tells how far the file it deploys has come.
FileInHand ==
    LET f == main.file IN
    /\ main.at = "rename" => partial = planned[f]
    /\ main.at = "remove" /\ main.raised = "nothing" => device[f] = planned[f]
    /\ main.at = "deployed" => device[f] = planned[f]

\* A file that is done is the planned one, the plan is the pinned one from its
\* making on, and a test is only waited for when all files are done.
PlanHolds ==
    /\ \A f \in main.done : device[f] = planned[f]
    /\ main.at \notin {"plan", "exited", "killed"} => planned["model"] = Pinned
    /\ main.at = "plan" => main.done = {}
    /\ main.at = "next" => main.done = File
    /\ main.at \in {"watch", "signal", "join"} => main.waits = "test"
    /\ main.at \in {"joined", "evaluate", "record"} => main.waits # "bootstrap"
    /\ main.at # "killed" /\ main.waits # "bootstrap" => main.done = File

TestHasPlan ==
    process["test"].state = "running" =>
        /\ main.at \notin {"plan", "killed"}
        /\ main.done = File
        /\ planned["model"] = Pinned

DeployInv == Typed /\ FileInHand /\ PlanHolds /\ TestHasPlan

USE CollectorAssumption

-----------------------------------------------------------------------------
(* How the main thread moves.                                              *)

Same == /\ main'.file = main.file /\ main'.done = main.done
        /\ main'.run = main.run /\ main'.waits = main.waits

LEMMA Goes ==
    ASSUME main \in MainThread, NEW place \in Place, Goto(place)
    PROVE  main' \in MainThread /\ Same /\ main'.at = place /\ main'.raised = main.raised
BY DEF Goto, MainThread, Same

LEMMA Handlers ==
    /\ Handler \in {"remove", "stop", "signal", "exited", "except"}
    /\ Handler = "signal" => main.waits = "test"
BY DEF Handler

\* An exception changes the place and what was raised.
LEMMA Raises ==
    ASSUME main \in MainThread, NEW exception \in {"error", "timeout"}, Raise(exception)
    PROVE  main' \in MainThread /\ Same /\ main'.at = Handler /\ main'.raised = exception
<1>1. CodeOf(exception) \in Nat
  BY DEF CodeOf
<1>2. Handler \in Place
  BY Handlers DEF Place
<1>3. (IF Handler = "exited" THEN CodeOf(exception) ELSE main.code) \in Nat \union {None}
  BY <1>1 DEF MainThread
<1>. QED
  BY <1>2, <1>3 DEF Raise, MainThread, Same

\* What a step keeps that neither deploys a file nor begins a process.
LEMMA Quiet ==
    ASSUME DeployInv, Typed', Same, UNCHANGED <<device, planned>>,
           process'["test"].state = "running" => process["test"].state = "running",
           main.at \notin {"exited", "killed"},
           main.at = "plan" => main'.at = "exited",
           \/ main'.at \notin {"plan", "killed", "next", "rename", "remove", "deployed",
                               "watch", "signal", "join", "joined", "evaluate", "record"}
           \/ main'.at \in {"joined", "evaluate", "record"} /\ main.waits # "bootstrap"
           \/ main'.at \in {"watch", "signal", "join"} /\ main.waits = "test"
           \/ main'.at = "remove" /\ main'.raised # "nothing"
           \/ main'.at = "next" /\ main.done = File
    PROVE  DeployInv'
<1>1. FileInHand'
  BY DEF DeployInv, FileInHand
<1>2. PlanHolds'
  BY DEF DeployInv, PlanHolds, Same
<1>3. TestHasPlan'
  BY DEF DeployInv, TestHasPlan, Same
<1>. QED
  BY <1>1, <1>2, <1>3 DEF DeployInv

LEMMA Unmoved ==
    ASSUME DeployInv, Typed', UNCHANGED <<main, device, planned, partial>>,
           process'["test"].state = "running" => process["test"].state = "running"
    PROVE  DeployInv'
<1>1. FileInHand'
  BY DEF DeployInv, FileInHand
<1>2. PlanHolds'
  BY DEF DeployInv, PlanHolds
<1>3. TestHasPlan'
  BY DEF DeployInv, TestHasPlan
<1>. QED
  BY <1>1, <1>2, <1>3 DEF DeployInv

LEMMA QuietRaise ==
    ASSUME DeployInv, NEW exception \in {"error", "timeout"}, Raise(exception),
           UNCHANGED <<host, device, planned>>,
           process' \in [{"bootstrap", "test", "logcat"} -> Process],
           process'["test"].state = "running" => process["test"].state = "running",
           main.at \notin {"exited", "killed"}
    PROVE  DeployInv'
<1>1. main' \in MainThread /\ Same /\ main'.at = Handler /\ main'.raised = exception
  BY Raises DEF DeployInv, Typed
<1>2. main.at = "plan" => Handler = "exited"
  BY DEF Handler
<1>3. Typed'
  BY <1>1 DEF DeployInv, Typed
<1>. QED
  BY <1>1, <1>2, <1>3, Handlers, Quiet

\* So does going to a place that asks nothing of the deployment.
LEMMA QuietGo ==
    ASSUME DeployInv, NEW place \in Place, Goto(place),
           UNCHANGED <<host, device, planned>>,
           process' \in [{"bootstrap", "test", "logcat"} -> Process],
           process'["test"].state = "running" => process["test"].state = "running",
           main.at \notin {"plan", "exited", "killed"},
           \/ place \notin {"plan", "killed", "next", "rename", "remove", "deployed",
                            "watch", "signal", "join", "joined", "evaluate", "record"}
           \/ place \in {"joined", "evaluate", "record"} /\ main.waits # "bootstrap"
           \/ place \in {"watch", "signal", "join"} /\ main.waits = "test"
           \/ place = "next" /\ main.done = File
    PROVE  DeployInv'
<1>1. main' \in MainThread /\ Same /\ main'.at = place /\ main'.raised = main.raised
  BY Goes DEF DeployInv, Typed
<1>2. Typed'
  BY <1>1 DEF DeployInv, Typed
<1>. QED
  BY <1>1, <1>2, Quiet

-----------------------------------------------------------------------------
(* One lemma for each group of actions.                                    *)

LEMMA PlanStep == ASSUME DeployInv, make_plan PROVE DeployInv'
<1>1. CASE Raise("error") /\ UNCHANGED planned
  BY <1>1, QuietRaise DEF make_plan, DeployInv, Typed, phone
<1>2. CASE /\ host["model"] = Pinned
           /\ planned' = [f \in File |-> host[f]]
           /\ Goto("output")
  <2>1. main' \in MainThread /\ Same /\ main'.at = "output"
    BY <1>2, Goes DEF DeployInv, Typed, Place
  <2>2. Typed'
    BY <1>2, <2>1 DEF make_plan, DeployInv, Typed, phone
  <2>3. FileInHand'
    BY <2>1 DEF FileInHand
  <2>4. PlanHolds'
    BY <1>2, <2>1 DEF make_plan, DeployInv, PlanHolds, Same
  <2>5. TestHasPlan'
    BY <1>2, <2>1 DEF make_plan, DeployInv, TestHasPlan
  <2>. QED
    BY <2>2, <2>3, <2>4, <2>5 DEF DeployInv
<1>. QED
  BY <1>1, <1>2 DEF make_plan, verify_file, file_identity

LEMMA PrepareStep ==
    ASSUME DeployInv, OpenOutput \/ device_metadata \/ InstallApk \/ Locate
    PROVE  DeployInv'
<1>1. /\ UNCHANGED <<host, device, planned, process>>
      /\ main.at \in {"output", "metadata", "install", "locate"}
  BY DEF OpenOutput, device_metadata, InstallApk, Locate, others, phone
<1>2. process' \in [{"bootstrap", "test", "logcat"} -> Process]
  BY <1>1 DEF DeployInv, Typed
<1>3. CASE Raise("error")
  BY <1>1, <1>2, <1>3, QuietRaise
<1>4. CASE \E place \in {"metadata", "popen", "locate", "deploy"} : Goto(place)
  BY <1>1, <1>2, <1>4, QuietGo DEF Place
<1>. QED
  BY <1>3, <1>4 DEF OpenOutput, device_metadata, InstallApk, Locate, capture

LEMMA LookupStep == ASSUME DeployInv, Lookup PROVE DeployInv'
<1>. UNCHANGED <<host, device, planned, process, partial>>
  BY DEF Lookup, others, phone
<1>. process' \in [{"bootstrap", "test", "logcat"} -> Process]
  BY DEF DeployInv, Typed
<1>1. CASE Raise("error")
  BY <1>1, QuietRaise DEF Lookup
<1>2. CASE Goto("upload")
  BY <1>2, QuietGo DEF Lookup, Place
<1>3. CASE device[main.file] = planned[main.file] /\ Goto("deployed")
  <2>1. main' \in MainThread /\ Same /\ main'.at = "deployed"
    BY <1>3, Goes DEF DeployInv, Typed, Place
  <2>2. Typed'
    BY <2>1 DEF DeployInv, Typed
  <2>3. FileInHand'
    BY <1>3, <2>1 DEF FileInHand, Same
  <2>4. PlanHolds' /\ TestHasPlan'
    BY <2>1 DEF Lookup, DeployInv, PlanHolds, TestHasPlan, Same
  <2>. QED
    BY <2>2, <2>3, <2>4 DEF DeployInv
<1>. QED
  BY <1>1, <1>2, <1>3 DEF Lookup, capture

LEMMA UploadStep == ASSUME DeployInv, Upload PROVE DeployInv'
<1>. UNCHANGED <<host, device, planned, process>>
  BY DEF Upload
<1>. process' \in [{"bootstrap", "test", "logcat"} -> Process]
  BY DEF DeployInv, Typed
<1>1. CASE Raise("error")
  BY <1>1, QuietRaise DEF Upload
<1>2. CASE Goto("digest")
  BY <1>2, QuietGo DEF Upload, Place
<1>. QED
  BY <1>1, <1>2 DEF Upload

LEMMA DigestStep == ASSUME DeployInv, Digest PROVE DeployInv'
<1>. UNCHANGED <<host, device, planned, process, partial>>
  BY DEF Digest, others, phone
<1>. process' \in [{"bootstrap", "test", "logcat"} -> Process]
  BY DEF DeployInv, Typed
<1>1. CASE Raise("error")
  BY <1>1, QuietRaise DEF Digest
<1>2. CASE partial = planned[main.file] /\ Goto("rename")
  <2>1. main' \in MainThread /\ Same /\ main'.at = "rename"
    BY <1>2, Goes DEF DeployInv, Typed, Place
  <2>2. Typed'
    BY <2>1 DEF DeployInv, Typed
  <2>3. FileInHand'
    BY <1>2, <2>1 DEF FileInHand, Same
  <2>4. PlanHolds' /\ TestHasPlan'
    BY <2>1 DEF Digest, DeployInv, PlanHolds, TestHasPlan, Same
  <2>. QED
    BY <2>2, <2>3, <2>4 DEF DeployInv
<1>. QED
  BY <1>1, <1>2 DEF Digest, capture

\* The heart: what is renamed was verified, so the device moves to the plan.
LEMMA RenameMoves ==
    ASSUME DeployInv, Rename, device' # device
    PROVE  /\ device' = [device EXCEPT ![main.file] = planned[main.file]]
           /\ planned[main.file] \in Content
BY DEF Rename, DeployInv, FileInHand, Typed, MainThread, Content

LEMMA RenameStep == ASSUME DeployInv, Rename PROVE DeployInv'
<1>. UNCHANGED <<host, planned, process>>
  BY DEF Rename
<1>. process' \in [{"bootstrap", "test", "logcat"} -> Process]
  BY DEF DeployInv, Typed
<1>1. CASE UNCHANGED device /\ Raise("error")
  BY <1>1, QuietRaise DEF Rename
<1>2. CASE /\ device' = [device EXCEPT ![main.file] = partial]
           /\ Goto("remove") \/ Raise("error")
  <2>1. main' \in MainThread /\ Same /\ main'.at = "remove"
    BY <1>2, Goes, Raises DEF Rename, DeployInv, Typed, Place, Handler
  <2>2. device' = [device EXCEPT ![main.file] = planned[main.file]]
    BY <1>2 DEF Rename, DeployInv, FileInHand
  <2>3. main.file \in File /\ main.done \subseteq File
    BY DEF DeployInv, Typed, MainThread
  <2>4. Typed'
    BY <2>1, <2>2, <2>3 DEF DeployInv, Typed, Content
  <2>5. FileInHand'
    BY <2>1, <2>2, <2>3 DEF FileInHand, Same, DeployInv, Typed
  <2>6. PlanHolds'
    BY <2>1, <2>2, <2>3 DEF Rename, DeployInv, PlanHolds, Same, Typed
  <2>7. TestHasPlan'
    BY <2>1 DEF Rename, DeployInv, TestHasPlan, Same
  <2>. QED
    BY <2>4, <2>5, <2>6, <2>7 DEF DeployInv
<1>. QED
  BY <1>1, <1>2 DEF Rename

LEMMA RemoveStep == ASSUME DeployInv, RemovePartial PROVE DeployInv'
<1>. UNCHANGED <<host, device, planned, process>>
  BY DEF RemovePartial
<1>. process' \in [{"bootstrap", "test", "logcat"} -> Process]
  BY DEF DeployInv, Typed
<1>1. PICK failed \in BOOLEAN, raised \in {main.raised, "error"} :
          main' = [main EXCEPT !.at = IF raised = "nothing" THEN "deployed" ELSE "except",
                     !.raised = raised, !.unremoved = failed /\ partial # None]
  BY DEF RemovePartial
<1>2. /\ main' \in MainThread /\ Same
      /\ main'.at = IF raised = "nothing" THEN "deployed" ELSE "except"
  <2>. DEFINE place == IF raised = "nothing" THEN "deployed" ELSE "except"
              unremoved == failed /\ partial # None
  <2>1. main \in MainThread /\ place \in Place /\ unremoved \in BOOLEAN
    BY DEF DeployInv, Typed, Place
  <2>2. raised \in {"nothing", "error", "timeout", "interrupt"}
    BY <2>1 DEF MainThread
  <2>3. main' = [main EXCEPT !.at = place, !.raised = raised, !.unremoved = unremoved]
    BY <1>1
  <2>. HIDE DEF place, unremoved
  <2>4. main' \in MainThread /\ Same /\ main'.at = place
    BY <2>1, <2>2, <2>3 DEF MainThread, Same
  <2>. QED
    BY <2>4 DEF place
<1>3. Typed'
  BY <1>2 DEF DeployInv, Typed
<1>4. FileInHand'
  <2>1. main.at = "remove" /\ (raised = "nothing" => main.raised = "nothing")
    BY <1>1 DEF RemovePartial
  <2>. QED
    BY <1>2, <2>1 DEF DeployInv, FileInHand, Same
<1>5. PlanHolds' /\ TestHasPlan'
  <2>1. main.at = "remove"
    BY DEF RemovePartial
  <2>. QED
    BY <1>2, <2>1 DEF DeployInv, PlanHolds, TestHasPlan, Same
<1>. QED
  BY <1>3, <1>4, <1>5 DEF DeployInv

LEMMA DeployedStep == ASSUME DeployInv, Deployed PROVE DeployInv'
<1>. DEFINE done == main.done \union {main.file}
<1>. UNCHANGED <<host, device, planned, process, partial>>
  BY DEF Deployed, others, phone
<1>1. main.file \in File /\ main.done \subseteq File /\ main \in MainThread
  BY DEF DeployInv, Typed, MainThread
<1>2. \A f \in done : device[f] = planned[f]
  BY DEF Deployed, DeployInv, FileInHand, PlanHolds
<1>3. /\ main' \in MainThread /\ main'.done = done /\ main'.waits = main.waits
      /\ \/ main'.at = "next" /\ done = File
         \/ main'.at = "deploy"
  <2>1. done \in SUBSET File
    BY <1>1
  <2>2. CASE File \ done = {} /\ main' = [main EXCEPT !.at = "next", !.done = done]
    BY <1>1, <2>1, <2>2 DEF MainThread, Place
  <2>3. ASSUME NEW f \in File \ done,
               main' = [main EXCEPT !.at = "deploy", !.done = done, !.file = f]
        PROVE  main' \in MainThread /\ main'.done = done /\ main'.waits = main.waits
               /\ main'.at = "deploy"
    BY <1>1, <2>1, <2>3 DEF MainThread, Place
  <2>. QED
    BY <2>2, <2>3 DEF Deployed
<1>4. Typed'
  BY <1>3 DEF DeployInv, Typed
<1>5. FileInHand'
  BY <1>3 DEF FileInHand
<1>6. PlanHolds'
  BY <1>1, <1>2, <1>3 DEF Deployed, DeployInv, PlanHolds
<1>7. TestHasPlan'
  BY <1>1, <1>3 DEF Deployed, DeployInv, TestHasPlan
<1>. QED
  BY <1>4, <1>5, <1>6, <1>7 DEF DeployInv

LEMMA PopenStep == ASSUME DeployInv, Popen PROVE DeployInv'
<1>. UNCHANGED <<host, device, planned, partial>>
  BY DEF Popen, phone
<1>1. CASE Raise("error") /\ UNCHANGED process
  BY <1>1, QuietRaise DEF Popen, DeployInv, Typed
<1>2. CASE /\ process' = [process EXCEPT ![main.waits] = Started]
           /\ main' = [main EXCEPT !.at = "launched", !.timedOut = FALSE]
  <2>1. main' \in MainThread /\ Same /\ main'.at = "launched"
    BY <1>2 DEF DeployInv, Typed, MainThread, Same, Place
  <2>2. process' \in [{"bootstrap", "test", "logcat"} -> Process]
    BY <1>2 DEF DeployInv, Typed, Process, Started
  <2>3. Typed'
    BY <2>1, <2>2 DEF DeployInv, Typed
  <2>4. FileInHand'
    BY <2>1 DEF FileInHand
  <2>5. PlanHolds'
    BY <2>1 DEF Popen, DeployInv, PlanHolds, Same
  <2>6. TestHasPlan'
    <3>1. CASE main.waits = "test"
      BY <2>1, <3>1 DEF Popen, DeployInv, PlanHolds, TestHasPlan, Same
    <3>2. CASE main.waits # "test"
      BY <1>2, <2>1, <3>2 DEF DeployInv, Typed, TestHasPlan, Same
    <3>. QED
      BY <3>1, <3>2
  <2>. QED
    BY <2>3, <2>4, <2>5, <2>6 DEF DeployInv
<1>. QED
  BY <1>1, <1>2 DEF Popen

LEMMA WaitStep == ASSUME DeployInv, EnterTry \/ Wait PROVE DeployInv'
<1>. UNCHANGED <<host, device, planned, process, partial>>
  BY DEF EnterTry, Wait, others, phone
<1>. process' \in [{"bootstrap", "test", "logcat"} -> Process]
  BY DEF DeployInv, Typed
<1>1. CASE EnterTry
  BY <1>1, QuietGo DEF EnterTry, Place
<1>2. CASE Wait
  <2>1. main' \in MainThread /\ Same /\ main'.at = "stop" /\ main'.raised = main.raised
    <3>1. PICK late \in BOOLEAN : main' = [main EXCEPT !.at = "stop", !.timedOut = late]
      BY <1>2 DEF Wait
    <3>2. main \in MainThread /\ "stop" \in Place
      BY DEF DeployInv, Typed, Place
    <3>. QED  BY <3>1, <3>2 DEF MainThread, Same
  <2>2. Typed'
    BY <2>1 DEF DeployInv, Typed
  <2>. QED
    BY <1>2, <2>1, <2>2, Quiet DEF Wait
<1>. QED
  BY <1>1, <1>2

LEMMA StopStep == ASSUME DeployInv, stop_process PROVE DeployInv'
<1>. UNCHANGED <<host, device, planned>> /\ main.at \notin {"plan", "exited", "killed"}
  BY DEF stop_process, phone
<1>1. main \in MainThread /\ process \in [{"bootstrap", "test", "logcat"} -> Process]
  BY DEF DeployInv, Typed
<1>2. /\ process' \in [{"bootstrap", "test", "logcat"} -> Process]
      /\ process'["test"].state = "running" => process["test"].state = "running"
  BY <1>1 DEF stop_process, Process, MainThread
<1>3. CASE Stopped
  <2>1. CASE Raise("error")
    BY <1>2, <2>1, QuietRaise
  <2>2. CASE \E place \in {"except", "install"} : Goto(place)
    BY <1>2, <2>2, QuietGo DEF Place
  <2>4. CASE main.waits = "logcat" /\ Goto("joined")
    BY <1>2, <2>4, QuietGo DEF Place
  <2>3. CASE main.waits = "test" /\ Goto("signal")
    BY <1>2, <2>3, QuietGo DEF Place
  <2>. QED
    BY <1>1, <1>3, <2>1, <2>2, <2>3, <2>4 DEF Stopped, MainThread
<1>4. CASE Goto("term") \/ Goto("kill")
  BY <1>2, <1>4, QuietGo DEF Place
<1>5. CASE Raise("timeout")
  BY <1>2, <1>5, QuietRaise
<1>. QED
  BY <1>3, <1>4, <1>5 DEF stop_process

LEMMA NextRunStep == ASSUME DeployInv, NextRun PROVE DeployInv'
<1>. UNCHANGED <<host, device, planned, partial>> /\ main.at = "next"
  BY DEF NextRun, phone
<1>1. CASE Raise("error") /\ UNCHANGED process
  BY <1>1, QuietRaise DEF DeployInv, Typed
<1>2. CASE ~(Raise("error") /\ UNCHANGED process)
  <2>1. PICK run \in Run :
          /\ main' = [main EXCEPT !.at = "watch", !.run = run, !.waits = "test"]
          /\ process' = [process EXCEPT !["logcat"] = Started, !["test"] = NotStarted]
    <3>1. \E r \in Run : r \notin recorded
      BY <1>2 DEF NextRun
    <3>2. (CHOOSE r \in Run : r \notin recorded) \in Run
      BY <3>1
    <3>. QED
      BY <1>2, <3>2 DEF NextRun
  <2>2. main' \in MainThread /\ main'.file = main.file /\ main'.done = main.done
        /\ main'.at = "watch" /\ main'.waits = "test"
    BY <2>1 DEF DeployInv, Typed, MainThread, Place
  <2>3. /\ process' \in [{"bootstrap", "test", "logcat"} -> Process]
        /\ process'["test"].state # "running"
    BY <2>1 DEF DeployInv, Typed, Process, Started, NotStarted
  <2>4. Typed' /\ FileInHand' /\ TestHasPlan'
    BY <2>2, <2>3 DEF DeployInv, Typed, FileInHand, TestHasPlan
  <2>5. PlanHolds'
    BY <2>2 DEF DeployInv, PlanHolds
  <2>. QED
    BY <2>4, <2>5 DEF DeployInv
<1>. QED
  BY <1>1, <1>2

\* From the run's start to the end only places and exceptions change.
LEMMA RunStep ==
    ASSUME DeployInv, StartSampler \/ Signal \/ Joined \/ Evaluate \/ Record
    PROVE  DeployInv'
<1>1. /\ UNCHANGED <<host, device, planned, process, partial>>
      /\ main.at \notin {"plan", "exited", "killed"}
  BY DEF StartSampler, Signal, Joined, Evaluate, Record, others, phone
<1>2. process' \in [{"bootstrap", "test", "logcat"} -> Process]
  BY <1>1 DEF DeployInv, Typed
<1>3. CASE Raise("error")
  BY <1>1, <1>2, <1>3, QuietRaise
<1>4. CASE Goto("popen")
  BY <1>1, <1>2, <1>4, QuietGo DEF Place
<1>7. CASE main.at \in {"joined", "evaluate"} /\ (Goto("evaluate") \/ Goto("record"))
  <2>1. main.waits # "bootstrap"
    BY <1>7 DEF DeployInv, PlanHolds
  <2>. QED
    BY <1>1, <1>2, <1>7, <2>1, QuietGo DEF Place
<1>5. CASE Signal
  <2>1. main.waits = "test" /\ Goto("join")
    BY <1>5 DEF Signal, DeployInv, PlanHolds
  <2>. QED
    BY <1>1, <1>2, <2>1, QuietGo DEF Place
<1>6. CASE Record /\ Goto("next")
  <2>1. main.done = File
    BY <1>6 DEF Record, DeployInv, PlanHolds
  <2>. QED
    BY <1>1, <1>2, <1>6, <2>1, QuietGo DEF Place
<1>. QED
  BY <1>3, <1>4, <1>5, <1>6, <1>7 DEF StartSampler, Joined, Evaluate, Record

LEMMA EndStep ==
    ASSUME DeployInv, Join \/ Conclude \/ Blocked \/ Finish
    PROVE  DeployInv'
<1>1. /\ UNCHANGED <<host, device, planned, process, partial>>
      /\ main.at \notin {"plan", "exited", "killed"}
  BY DEF Join, Conclude, Blocked, Finish, others, phone
<1>2. process' \in [{"bootstrap", "test", "logcat"} -> Process]
  BY <1>1 DEF DeployInv, Typed
<1>3. CASE Raise("error")
  BY <1>1, <1>2, <1>3, QuietRaise
<1>4. CASE Join
  <2>1. /\ main' \in MainThread /\ main'.at = "stop" /\ main'.waits = "logcat"
        /\ main'.done = main.done
    BY <1>4 DEF Join, DeployInv, Typed, MainThread, Place
  <2>2. main.done = File
    BY <1>4 DEF Join, DeployInv, PlanHolds
  <2>3. Typed' /\ FileInHand'
    BY <1>1, <2>1 DEF DeployInv, Typed, FileInHand
  <2>4. PlanHolds' /\ TestHasPlan'
    BY <1>1, <2>1, <2>2 DEF DeployInv, PlanHolds, TestHasPlan
  <2>. QED
    BY <2>3, <2>4 DEF DeployInv
<1>5. CASE /\ main' \in MainThread /\ Same /\ main'.raised = main.raised
           /\ main'.at \in {"final", "exited"}
  <2>1. Typed'
    BY <1>1, <1>5 DEF DeployInv, Typed
  <2>. QED
    BY <1>1, <1>5, <2>1, Quiet
<1>6. ASSUME Conclude \/ Blocked
      PROVE  /\ main' \in MainThread /\ Same /\ main'.raised = main.raised
             /\ main'.at \in {"final", "exited"}
  <2>1. main \in MainThread /\ "final" \in Place
    BY DEF DeployInv, Typed, Place
  <2>2. PICK status \in {"passed", "failed_or_incomplete", "blocked_or_interrupted"} :
          main' = [main EXCEPT !.at = "final", !.status = status]
    BY <1>6 DEF Conclude, Blocked
  <2>. QED
    BY <2>1, <2>2 DEF MainThread, Same
<1>7. ASSUME Finish, ~Raise("error")
      PROVE  /\ main' \in MainThread /\ Same /\ main'.raised = main.raised
             /\ main'.at \in {"final", "exited"}
  <2>. DEFINE code == IF main.raised # "nothing" THEN CodeOf(main.raised)
                      ELSE IF main.status = "passed" THEN 0 ELSE 1
  <2>1. main \in MainThread
    BY DEF DeployInv, Typed
  <2>2. code \in Nat
    BY <2>1 DEF CodeOf, MainThread
  <2>3. main' = [main EXCEPT !.at = "exited", !.code = code]
    BY <1>7 DEF Finish
  <2>. HIDE DEF code
  <2>. QED
    BY <2>1, <2>2, <2>3 DEF MainThread, Same, Place
<1>. QED
  BY <1>3, <1>4, <1>5, <1>6, <1>7

LEMMA MainStep == ASSUME DeployInv, Main PROVE DeployInv'
BY PlanStep, PrepareStep, LookupStep, UploadStep, DigestStep, RenameStep, RemoveStep,
   DeployedStep, PopenStep, WaitStep, StopStep, NextRunStep, RunStep, EndStep DEF Main

\* What the main thread does not do itself.
LEMMA BesideStep ==
    ASSUME DeployInv,
           \/ Sample \/ SamplerFails \/ Disconnect
           \/ \E p \in {"bootstrap", "test", "logcat"} : ProcessEnds(p)
           \/ \E f \in File : EditHost(f)
    PROVE  DeployInv'
<1>1. UNCHANGED <<main, device, planned, partial>>
  BY DEF Sample, SamplerFails, Disconnect, ProcessEnds, EditHost, phone
<1>2. /\ process' \in [{"bootstrap", "test", "logcat"} -> Process]
      /\ process'["test"].state = "running" => process["test"].state = "running"
  <2>1. CASE UNCHANGED process
    BY <2>1 DEF DeployInv, Typed
  <2>2. ASSUME NEW p \in {"bootstrap", "test", "logcat"}, ProcessEnds(p)
        PROVE  <1>2!1 /\ <1>2!2
    BY <2>2 DEF ProcessEnds, DeployInv, Typed, Process
  <2>. QED
    BY <2>1, <2>2 DEF Sample, SamplerFails, Disconnect, EditHost
<1>3. host' \in [File -> Version]
  <2>1. CASE UNCHANGED host
    BY <2>1 DEF DeployInv, Typed
  <2>2. ASSUME NEW f \in File, EditHost(f)
        PROVE  host' \in [File -> Version]
    BY <2>2 DEF EditHost, DeployInv, Typed
  <2>. QED
    BY <2>1, <2>2 DEF Sample, SamplerFails, Disconnect, ProcessEnds
<1>4. Typed'
  BY <1>1, <1>2, <1>3 DEF DeployInv, Typed
<1>. QED
  BY <1>1, <1>2, <1>4, Unmoved

LEMMA InterruptStep == ASSUME DeployInv, Interrupt PROVE DeployInv'
<1>1. /\ UNCHANGED <<host, device, planned, process>>
      /\ main.at \notin {"exited", "killed"}
  BY DEF Interrupt, phone, Ended
<1>2. main' \in MainThread /\ Same /\ main'.at = Handler /\ main'.raised = "interrupt"
  <2>. DEFINE code == IF Handler = "exited" THEN 130 ELSE main.code
              exposed == main.exposed \/ main.at \in Exposed
  <2>1. main \in MainThread /\ Handler \in Place
    BY Handlers DEF DeployInv, Typed, Place
  <2>2. code \in Nat \union {None} /\ exposed \in BOOLEAN
    BY <2>1 DEF MainThread
  <2>3. main' = [main EXCEPT !.at = Handler, !.raised = "interrupt", !.code = code,
                             !.exposed = exposed]
    BY DEF Interrupt
  <2>. HIDE DEF code, exposed
  <2>. QED
    BY <2>1, <2>2, <2>3 DEF MainThread, Same
<1>3. main.at = "plan" => Handler = "exited"
  BY DEF Handler
<1>4. Typed'
  BY <1>1, <1>2 DEF DeployInv, Typed
<1>. QED
  BY <1>1, <1>2, <1>3, <1>4, Handlers, Quiet

LEMMA NewStep ==
    ASSUME DeployInv, NEW place \in {"plan", "killed"}, New(place)
    PROVE  DeployInv'
<1>1. /\ main' = [Start EXCEPT !.at = place]
      /\ UNCHANGED <<host, device>>
      /\ planned' = [f \in File |-> None]
      /\ process' = [p \in {"bootstrap", "test", "logcat"} |-> NotStarted]
  BY DEF New
<1>2. main' \in MainThread /\ main'.at = place /\ main'.done = {} /\ main'.waits = "bootstrap"
  BY <1>1 DEF Start, MainThread, Place
<1>3. Typed'
  BY <1>1, <1>2 DEF DeployInv, Typed, Process, NotStarted
<1>4. FileInHand' /\ PlanHolds' /\ TestHasPlan'
  BY <1>1, <1>2 DEF FileInHand, PlanHolds, TestHasPlan, NotStarted
<1>. QED
  BY <1>3, <1>4 DEF DeployInv

LEMMA InitInv == Init => DeployInv
<1>. SUFFICES ASSUME Init PROVE DeployInv
  OBVIOUS
<1>1. main \in MainThread
  BY DEF Init, Start, MainThread, Place
<1>2. Typed
  BY <1>1 DEF Init, Typed, Process, NotStarted, Content
<1>3. FileInHand /\ PlanHolds /\ TestHasPlan
  BY DEF Init, Start, FileInHand, PlanHolds, TestHasPlan, NotStarted
<1>. QED
  BY <1>2, <1>3 DEF DeployInv

LEMMA NextInv == DeployInv /\ [Next]_vars => DeployInv'
<1>. SUFFICES ASSUME DeployInv, [Next]_vars PROVE DeployInv'
  OBVIOUS
<1>1. CASE UNCHANGED vars
  <2>1. Typed'
    BY <1>1 DEF DeployInv, Typed, vars
  <2>. QED
    BY <1>1, <2>1, Unmoved DEF vars
<1>2. CASE Crash \/ Again
  BY <1>2, NewStep DEF Crash, Again
<1>. QED
  BY <1>1, <1>2, MainStep, BesideStep, InterruptStep DEF Next

-----------------------------------------------------------------------------
(* Theorems.                                                               *)

\* The invariant of the deployment holds in every reachable state.
THEOREM DeploymentInvariant == Spec => []DeployInv
BY InitInv, NextInv, PTL DEF Spec

\* While a native test runs, the device holds the planned files and the pinned
\* model (deploy_file, make_plan), for any files, contents, attempts and failures.
THEOREM TestsUsePinnedFiles == Spec => []DeployedIsPinned
<1>1. DeployInv => DeployedIsPinned
  <2>. SUFFICES ASSUME DeployInv, process["test"].state = "running"
                PROVE  device = planned /\ planned["model"] = Pinned
    BY DEF DeployedIsPinned
  <2>1. main.done = File /\ planned["model"] = Pinned
    BY DEF DeployInv, TestHasPlan
  <2>2. \A f \in File : device[f] = planned[f]
    BY <2>1 DEF DeployInv, PlanHolds
  <2>. QED
    BY <2>1, <2>2 DEF DeployInv, Typed
<1>. QED
  BY <1>1, DeploymentInvariant, PTL

\* Nothing appears under a final name but the planned file, verified and whole
\* (deploy_file): no step of anyone, an interrupt or a kill among them, shows more.
THEOREM FinalNamesAreVerified == Spec => FinalIsVerified
<1>1. DeployInv /\ [Next]_vars
      => [\A f \in File : device'[f] # device[f] => device'[f] = planned[f]]_vars
  <2>. SUFFICES ASSUME DeployInv, Next, NEW f \in File, device'[f] # device[f]
                PROVE  device'[f] = planned[f]
    OBVIOUS
  <2>1. Rename
    BY DEF Next, Main, make_plan, OpenOutput, device_metadata, InstallApk, Locate, capture, Lookup, Upload, Digest,
           RemovePartial, Deployed,
           Popen, EnterTry, Wait, stop_process, NextRun, StartSampler, Signal, Join, Joined,
           Evaluate, Record, Conclude, Blocked, Finish, Sample, SamplerFails, ProcessEnds,
           Disconnect, EditHost, Interrupt, Crash, Again, New, others, phone
  <2>2. device' = [device EXCEPT ![main.file] = planned[main.file]]
    BY <2>1, RenameMoves
  <2>. QED
    BY <2>2 DEF DeployInv, Typed
<1>. QED
  BY <1>1, DeploymentInvariant, PTL DEF FinalIsVerified, Spec

-----------------------------------------------------------------------------
(* Cleaning up.  The inductive invariant; the deployment's says that the   *)
(* state is typed and the places are in order.                             *)

\* From a Popen to the signal that ends its process.
Busy == {"launched", "wait", "stop", "term"}

\* A process that runs is on the main thread's hands: the one it waits for, or
\* the logcat of the run it is in.
ProcessesHeld ==
    /\ \A p \in {"bootstrap", "test"} :
         process[p].state = "running" => main.waits = p /\ main.at \in Busy
    /\ process["logcat"].state = "running" =>
         \/ /\ main.waits = "test"
            /\ main.at \in Busy \union {"watch", "popen", "kill", "signal", "join"}
         \/ main.waits = "logcat" /\ main.at \in {"stop", "term"}

\* So is an upload, until it is removed or that failed.
UploadHeld ==
    partial # None =>
        main.at \in {"upload", "digest", "rename", "remove"} \/ main.unremoved

\* What run_logged is called for.
WaitsInOrder ==
    /\ main.at \in {"plan", "output", "metadata"} => main.waits = "bootstrap"
    /\ main.at \in {"popen", "launched", "wait"} => main.waits # "logcat"

CleanupInv ==
    /\ WaitsInOrder
    /\ ~main.exposed => ProcessesHeld /\ UploadHeld

-----------------------------------------------------------------------------

LEMMA GoesOn ==
    ASSUME main \in MainThread, NEW place \in Place, Goto(place)
    PROVE  /\ main'.at = place
           /\ main'.waits = main.waits /\ main'.exposed = main.exposed
           /\ main'.unremoved = main.unremoved
BY DEF Goto, MainThread

LEMMA RaisesOn ==
    ASSUME main \in MainThread, NEW exception, Raise(exception)
    PROVE  /\ main'.at = Handler
           /\ main'.waits = main.waits /\ main'.exposed = main.exposed
           /\ main'.unremoved = main.unremoved
BY DEF Raise, MainThread

\* No process begins and no upload: what was held stays held, if the main thread
\* moves on where it has nothing in hand, or keeps it in hand.
LEMMA KeepsHold ==
    ASSUME DeployInv, CleanupInv, main'.waits = main.waits,
           main'.exposed = main.exposed, main'.unremoved = main.unremoved,
           UNCHANGED <<process, partial>>,
           \/ main.at = "plan" /\ main'.at \in {"output", "exited"}
           \/ main.at = "output" /\ main'.at \in {"metadata", "exited"}
           \/ main.at = "metadata" /\ main'.at \in {"popen", "except"}
           \/ main.at \in {"install", "locate", "deploy", "deployed", "next", "joined",
                           "evaluate", "record", "except", "final"}
              /\ main'.at \in {"locate", "deploy", "upload", "deployed", "next",
                               "evaluate", "record", "except", "final", "exited"}
           \/ main.at \in {"digest", "rename"} /\ main'.at \in {"rename", "remove"}
           \/ main.at = "popen" /\ main'.at = Handler
           \/ main.at = "launched" /\ main'.at = "wait"
           \/ main.at = "wait" /\ main'.at = "stop"
           \/ main.at = "watch" /\ main'.at = "popen"
           \/ main.at = "signal" /\ main'.at = "join"
    PROVE  CleanupInv'
<1>1. main.at \in {"watch", "signal", "join"} => main.waits = "test"
  BY DEF DeployInv, PlanHolds
<1>2. WaitsInOrder'
  BY <1>1 DEF CleanupInv, WaitsInOrder, Handler
<1>3. ASSUME ~main.exposed PROVE ProcessesHeld'
  BY <1>1, <1>3 DEF CleanupInv, WaitsInOrder, ProcessesHeld, Busy, Handler, DeployInv,
                    Typed, MainThread
<1>4. ASSUME ~main.exposed PROVE UploadHeld'
  BY <1>4 DEF CleanupInv, UploadHeld, Handler
<1>. QED
  BY <1>2, <1>3, <1>4 DEF CleanupInv

-----------------------------------------------------------------------------
(* One lemma for each group of actions.                                    *)

\* Steps that begin, end and send nothing.
LEMMA IdleStep ==
    ASSUME DeployInv, CleanupInv,
           \/ make_plan \/ OpenOutput \/ device_metadata \/ InstallApk \/ Locate \/ Lookup
           \/ Digest \/ EnterTry \/ Wait \/ StartSampler \/ Signal \/ Joined \/ Evaluate
           \/ Record
    PROVE  CleanupInv'
<1>1. UNCHANGED <<process, partial, online>> /\ main \in MainThread
  BY DEF make_plan, OpenOutput, device_metadata, InstallApk, Locate, Lookup, Digest,
         EnterTry, Wait, StartSampler, Signal, Joined, Evaluate, Record, others, phone,
         DeployInv, Typed
<1>2. CASE Wait
  <2>1. /\ main'.at = "stop" /\ main'.waits = main.waits /\ main'.exposed = main.exposed
        /\ main'.unremoved = main.unremoved
    BY <1>1, <1>2 DEF Wait, MainThread
  <2>. QED
    BY <1>1, <1>2, <2>1, KeepsHold DEF Wait
<1>3. CASE /\ main.at \in {"plan", "output", "metadata", "install", "locate", "deploy",
                           "digest", "joined", "evaluate", "record"}
           /\ Raise("error")
  <2>1. /\ main'.at = Handler
        /\ main'.waits = main.waits /\ main'.exposed = main.exposed
        /\ main'.unremoved = main.unremoved
    BY <1>1, <1>3, RaisesOn
  <2>2. /\ main.at \in {"plan", "output"} => Handler = "exited"
        /\ main.at = "digest" => Handler = "remove"
        /\ main.at \notin {"plan", "output", "digest"} => Handler = "except"
    BY <1>3 DEF Handler
  <2>. QED
    BY <1>1, <1>3, <2>1, <2>2, KeepsHold
<1>4. CASE \/ main.at = "plan" /\ Goto("output")
           \/ main.at = "output" /\ Goto("metadata")
           \/ main.at = "metadata" /\ Goto("popen")
           \/ main.at = "install" /\ Goto("locate")
           \/ main.at = "locate" /\ Goto("deploy")
           \/ main.at = "deploy" /\ (Goto("deployed") \/ Goto("upload"))
           \/ main.at = "digest" /\ Goto("rename")
           \/ main.at = "launched" /\ Goto("wait")
           \/ main.at = "watch" /\ Goto("popen")
           \/ main.at = "signal" /\ Goto("join")
           \/ main.at = "joined" /\ Goto("evaluate")
           \/ main.at = "evaluate" /\ Goto("record")
           \/ main.at = "record" /\ Goto("next")
  <2>1. ASSUME NEW place \in Place, Goto(place)
        PROVE  /\ main'.at = place
               /\ main'.waits = main.waits /\ main'.exposed = main.exposed
               /\ main'.unremoved = main.unremoved
    BY <1>1, <2>1, GoesOn
  <2>. QED
    BY <1>1, <1>4, <2>1, KeepsHold DEF Place
<1>. QED
  BY <1>2, <1>3, <1>4 DEF make_plan, OpenOutput, device_metadata, InstallApk, Locate, Lookup,
     Digest, EnterTry, StartSampler, Signal, Joined, Evaluate, Record, capture

\* An upload begins, gets its final name, is removed.
LEMMA TransferStep ==
    ASSUME DeployInv, CleanupInv, Upload \/ Rename \/ RemovePartial
    PROVE  CleanupInv'
<1>1. UNCHANGED <<process, online>> /\ main \in MainThread
      /\ main.at \in {"upload", "rename", "remove"}
  BY DEF Upload, Rename, RemovePartial, DeployInv, Typed
<1>2. /\ main'.waits = main.waits /\ main'.exposed = main.exposed
      /\ \/ main'.at \in {"digest", "remove"}
         \/ main'.at \in {"deployed", "except"} /\ (partial' # None => main'.unremoved)
  <2>1. CASE RemovePartial
    <3>1. PICK failed \in BOOLEAN, raised \in {main.raised, "error"} :
              /\ partial' \in (IF online THEN {None} ELSE {})
                             \union (IF failed THEN {partial} ELSE {})
              /\ main' = [main EXCEPT
                            !.at = IF raised = "nothing" THEN "deployed" ELSE "except",
                            !.raised = raised, !.unremoved = failed /\ partial # None]
      BY <2>1, Zenon DEF RemovePartial
    <3>2. /\ main'.waits = main.waits /\ main'.exposed = main.exposed
          /\ main'.at \in {"deployed", "except"}
      BY <1>1, <3>1 DEF MainThread
    <3>3. main'.unremoved = (failed /\ partial # None)
      BY <1>1, <3>1 DEF MainThread
    <3>4. partial' # None => failed /\ partial # None
      BY <3>1
    <3>. QED
      BY <3>2, <3>3, <3>4
  <2>2. CASE Goto("digest") \/ (Rename /\ Goto("remove"))
    BY <1>1, <2>2, GoesOn DEF Place
  <2>3. CASE Raise("error") /\ (Upload \/ Rename)
    BY <1>1, <2>3, RaisesOn DEF Handler, Upload, Rename
  <2>. QED
    BY <2>1, <2>2, <2>3 DEF Upload, Rename
<1>3. WaitsInOrder'
  BY <1>2 DEF WaitsInOrder
<1>4. ASSUME ~main.exposed PROVE ProcessesHeld' /\ UploadHeld'
  BY <1>1, <1>2, <1>4 DEF CleanupInv, ProcessesHeld, UploadHeld, Busy
<1>. QED
  BY <1>2, <1>3, <1>4 DEF CleanupInv

\* A bootstrap or a test begins.
LEMMA BeginStep == ASSUME DeployInv, CleanupInv, Popen PROVE CleanupInv'
<1>1. UNCHANGED <<partial, online>> /\ main \in MainThread /\ main.at = "popen"
      /\ process \in [{"bootstrap", "test", "logcat"} -> Process]
  BY DEF Popen, phone, DeployInv, Typed
<1>2. CASE Raise("error") /\ UNCHANGED process
  <2>1. /\ main'.at = Handler
        /\ main'.waits = main.waits /\ main'.exposed = main.exposed
        /\ main'.unremoved = main.unremoved
    BY <1>1, <1>2, RaisesOn
  <2>. QED
    BY <1>1, <1>2, <2>1, KeepsHold
<1>3. CASE /\ process' = [process EXCEPT ![main.waits] = Started]
           /\ main' = [main EXCEPT !.at = "launched", !.timedOut = FALSE]
  <2>1. /\ main'.at = "launched"
        /\ main'.waits = main.waits /\ main'.exposed = main.exposed
        /\ main'.unremoved = main.unremoved
    BY <1>1, <1>3 DEF MainThread
  <2>2. main.waits \in {"bootstrap", "test"}
    BY <1>1 DEF CleanupInv, WaitsInOrder, MainThread
  <2>3. \A p \in {"bootstrap", "test", "logcat"} : p # main.waits => process'[p] = process[p]
    BY <1>1, <1>3
  <2>4. WaitsInOrder'
    BY <2>1, <2>2 DEF WaitsInOrder
  <2>5. ASSUME ~main.exposed PROVE ProcessesHeld' /\ UploadHeld'
    BY <1>1, <2>1, <2>2, <2>3, <2>5 DEF CleanupInv, ProcessesHeld, UploadHeld, Busy
  <2>. QED
    BY <2>1, <2>4, <2>5 DEF CleanupInv
<1>. QED
  BY <1>2, <1>3 DEF Popen

LEMMA StopsHeld == ASSUME DeployInv, CleanupInv, stop_process PROVE CleanupInv'
<1>1. UNCHANGED <<partial, online>> /\ main \in MainThread
      /\ main.at \in {"stop", "term", "kill"}
      /\ process \in [{"bootstrap", "test", "logcat"} -> Process]
  BY DEF stop_process, phone, DeployInv, Typed
<1>2. /\ main'.waits = main.waits /\ main'.exposed = main.exposed
      /\ main'.unremoved = main.unremoved
  BY <1>1, GoesOn, RaisesOn DEF stop_process, Stopped, Place, MainThread
<1>3. \A p \in {"bootstrap", "test", "logcat"} :
        process'[p].state = "running" => process[p].state = "running"
  BY <1>1 DEF stop_process, Process
\* The process that is waited for has ended, or the main thread stays with it.
<1>4. \/ main.at = "stop" /\ main'.at = "term"
      \/ /\ process'[main.waits].state # "running" \/ main.at = "kill"
         /\ main'.at \in {"kill", "signal", "install", "joined", "except"}
         /\ main'.at = "signal" => main.waits = "test"
         /\ main'.at = "kill" => process'[main.waits].state # "running"
         /\ main.waits = "test" => main'.at \in {"kill", "signal"}
  <2>1. CASE HasEnded /\ Stopped /\ UNCHANGED process
    <3>1. process'[main.waits].state # "running"
      BY <2>1 DEF HasEnded
    <3>2. CASE main.waits = "test"
      BY <1>1, <2>1, <3>1, <3>2, GoesOn DEF Stopped, Place
    <3>3. CASE main.waits = "logcat"
      BY <1>1, <2>1, <3>1, <3>3, GoesOn DEF Stopped, Place
    <3>4. CASE main.waits = "bootstrap"
      BY <1>1, <2>1, <3>1, <3>4, GoesOn, RaisesOn DEF Stopped, Place, Handler
    <3>. QED
      BY <1>1, <3>2, <3>3, <3>4 DEF MainThread
  <2>2. CASE main.at = "stop" /\ Goto("term")
    BY <1>1, <2>2, GoesOn DEF Place
  <2>3. CASE Goto("kill") /\ process' = [process EXCEPT ![main.waits].state = "killed"]
    BY <1>1, <2>3, GoesOn DEF Place, MainThread, Process
  <2>4. CASE main.at = "kill" /\ Raise("timeout")
    BY <1>1, <2>4, RaisesOn DEF Handler
  <2>. QED
    BY <2>1, <2>2, <2>3, <2>4 DEF stop_process
<1>5. WaitsInOrder'
  BY <1>4 DEF WaitsInOrder
<1>6. ASSUME ~main.exposed PROVE ProcessesHeld' /\ UploadHeld'
  BY <1>1, <1>2, <1>3, <1>4, <1>6 DEF CleanupInv, ProcessesHeld, UploadHeld, Busy, MainThread
<1>. QED
  BY <1>2, <1>5, <1>6 DEF CleanupInv

\* A run begins, with its logcat.
LEMMA RunBegins == ASSUME DeployInv, CleanupInv, NextRun PROVE CleanupInv'
<1>1. UNCHANGED <<partial, online>> /\ main \in MainThread /\ main.at = "next"
      /\ process \in [{"bootstrap", "test", "logcat"} -> Process]
  BY DEF NextRun, phone, DeployInv, Typed
<1>2. CASE Raise("error") /\ UNCHANGED process
  <2>1. /\ main'.at = "except"
        /\ main'.waits = main.waits /\ main'.exposed = main.exposed
        /\ main'.unremoved = main.unremoved
    BY <1>1, <1>2, RaisesOn DEF Handler
  <2>. QED
    BY <1>1, <1>2, <2>1, KeepsHold
<1>3. CASE ~(Raise("error") /\ UNCHANGED process)
  <2>1. \E run : main' = [main EXCEPT !.at = "watch", !.run = run, !.waits = "test"]
    BY <1>3 DEF NextRun
  <2>2. /\ main'.at = "watch" /\ main'.waits = "test" /\ main'.exposed = main.exposed
        /\ main'.unremoved = main.unremoved
    BY <1>1, <2>1 DEF MainThread
  <2>3. /\ process'["bootstrap"] = process["bootstrap"]
        /\ process'["test"].state # "running"
    BY <1>1, <1>3 DEF NextRun, NotStarted
  <2>4. WaitsInOrder'
    BY <2>2 DEF WaitsInOrder
  <2>5. ASSUME ~main.exposed PROVE ProcessesHeld' /\ UploadHeld'
    BY <1>1, <2>2, <2>3, <2>5 DEF CleanupInv, ProcessesHeld, UploadHeld, Busy
  <2>. QED
    BY <2>2, <2>4, <2>5 DEF CleanupInv
<1>. QED
  BY <1>2, <1>3

\* From the test to its logcat.
LEMMA JoinStep == ASSUME DeployInv, CleanupInv, Join PROVE CleanupInv'
<1>1. UNCHANGED <<process, partial, online>> /\ main.at = "join" /\ main.waits = "test"
  BY DEF Join, others, phone, DeployInv, PlanHolds
<1>2. /\ main'.at = "stop" /\ main'.waits = "logcat" /\ main'.exposed = main.exposed
      /\ main'.unremoved = main.unremoved
  BY DEF Join, DeployInv, Typed, MainThread
<1>3. WaitsInOrder'
  BY <1>2 DEF WaitsInOrder
<1>4. ASSUME ~main.exposed PROVE ProcessesHeld' /\ UploadHeld'
  BY <1>1, <1>2, <1>4 DEF CleanupInv, ProcessesHeld, UploadHeld, Busy
<1>. QED
  BY <1>2, <1>3, <1>4 DEF CleanupInv

\* Where nothing is in hand.
LEMMA FreeStep ==
    ASSUME DeployInv, CleanupInv, Deployed \/ Conclude \/ Blocked \/ Finish
    PROVE  CleanupInv'
<1>1. UNCHANGED <<process, partial, online>> /\ main \in MainThread
      /\ main.at \in {"deployed", "next", "except", "final"}
  BY DEF Deployed, Conclude, Blocked, Finish, others, phone, DeployInv, Typed
<1>2. /\ main'.at \in {"deploy", "next", "final", "exited"}
      /\ main'.waits = main.waits /\ main'.exposed = main.exposed
      /\ main'.unremoved = main.unremoved
  <2>1. CASE Raise("error") /\ Finish
    BY <1>1, <2>1, RaisesOn DEF Handler, Finish
  <2>2. CASE ~Raise("error") /\ Finish
    BY <1>1, <2>2 DEF Finish, MainThread
  <2>3. CASE Deployed
    BY <1>1, <2>3 DEF Deployed, MainThread
  <2>4. CASE Conclude \/ Blocked
    BY <1>1, <2>4 DEF Conclude, Blocked, MainThread
  <2>. QED
    BY <2>1, <2>2, <2>3, <2>4
<1>. QED
  BY <1>1, <1>2, KeepsHold

\* Processes end, the device goes; nothing begins.
LEMMA AsideStep ==
    ASSUME DeployInv, CleanupInv,
           \/ Sample \/ SamplerFails \/ Disconnect
           \/ \E p \in {"bootstrap", "test", "logcat"} : ProcessEnds(p)
           \/ \E f \in File : EditHost(f)
    PROVE  CleanupInv'
<1>1. UNCHANGED <<main, partial>>
  BY DEF Sample, SamplerFails, Disconnect, ProcessEnds, EditHost, phone
<1>2. \A p \in {"bootstrap", "test", "logcat"} :
        process'[p].state = "running" => process[p].state = "running"
  <2>1. CASE UNCHANGED process
    BY <2>1
  <2>2. ASSUME NEW p \in {"bootstrap", "test", "logcat"}, ProcessEnds(p)
        PROVE  <1>2
    BY <2>2 DEF ProcessEnds, DeployInv, Typed, Process
  <2>. QED
    BY <2>1, <2>2 DEF Sample, SamplerFails, Disconnect, EditHost
<1>. QED
  BY <1>1, <1>2 DEF CleanupInv, WaitsInOrder, ProcessesHeld, UploadHeld

\* An interrupt that finds something in hand is where an exception is caught, or
\* exposes it.
LEMMA InterruptHeld == ASSUME DeployInv, CleanupInv, Interrupt PROVE CleanupInv'
<1>1. UNCHANGED <<process, partial, online>> /\ main \in MainThread
      /\ main.at \notin {"exited", "killed"}
  BY DEF Interrupt, phone, Ended, DeployInv, Typed
<1>2. /\ main'.at = Handler /\ main'.waits = main.waits
      /\ main'.unremoved = main.unremoved
      /\ ~main'.exposed => ~main.exposed /\ main.at \notin Exposed
  BY <1>1 DEF Interrupt, MainThread
<1>3. WaitsInOrder'
  BY <1>2, Handlers DEF WaitsInOrder
<1>4. ASSUME ~main.exposed, main.at \notin Exposed PROVE ProcessesHeld' /\ UploadHeld'
  BY <1>1, <1>2, <1>4 DEF CleanupInv, WaitsInOrder, ProcessesHeld, UploadHeld, Busy,
                          Exposed, Handler, MainThread
<1>. QED
  BY <1>2, <1>3, <1>4 DEF CleanupInv

LEMMA BeginsAnew ==
    ASSUME NEW place \in {"plan", "killed"}, New(place)
    PROVE  CleanupInv'
<1>1. /\ main'.at = place /\ main'.waits = "bootstrap" /\ partial' = None
      /\ \A p \in {"bootstrap", "test", "logcat"} : process'[p].state = "none"
  BY DEF New, Start, NotStarted
<1>. QED
  BY <1>1 DEF CleanupInv, WaitsInOrder, ProcessesHeld, UploadHeld

LEMMA InitHeld == Init => CleanupInv
BY DEF Init, Start, NotStarted, CleanupInv, WaitsInOrder, ProcessesHeld, UploadHeld

LEMMA NextHeld == DeployInv /\ CleanupInv /\ [Next]_vars => CleanupInv'
<1>. SUFFICES ASSUME DeployInv, CleanupInv, [Next]_vars PROVE CleanupInv'
  OBVIOUS
<1>1. CASE UNCHANGED vars
  BY <1>1 DEF CleanupInv, WaitsInOrder, ProcessesHeld, UploadHeld, vars
<1>2. CASE Main
  BY <1>2, IdleStep, TransferStep, BeginStep, StopsHeld, RunBegins, JoinStep, FreeStep DEF Main
<1>3. CASE Crash \/ Again
  BY <1>3, BeginsAnew DEF Crash, Again
<1>. QED
  BY <1>1, <1>2, <1>3, AsideStep, InterruptHeld DEF Next

-----------------------------------------------------------------------------

\* A collector that is not killed leaves no running process, and an unfinished
\* upload only where the command that removes it was sent and failed (run_logged,
\* stop_process, deploy_file's finally), however it fails and wherever it is
\* interrupted, except where nothing protects it.
THEOREM NothingStaysBehind == Spec => []NothingIsLeft
<1>1. DeployInv /\ CleanupInv => NothingIsLeft
  <2>. SUFFICES ASSUME DeployInv, CleanupInv, main.at = "exited", ~main.exposed
                PROVE  /\ \A p \in DOMAIN process : process[p].state # "running"
                       /\ partial # None => main.unremoved
    BY DEF NothingIsLeft
  <2>1. DOMAIN process = {"bootstrap", "test", "logcat"}
    BY DEF DeployInv, Typed
  <2>. QED
    BY <2>1 DEF CleanupInv, ProcessesHeld, UploadHeld, Busy
<1>. QED
  BY <1>1, InitHeld, NextHeld, DeploymentInvariant, PTL DEF Spec

-----------------------------------------------------------------------------
(* The verdict.  First what evaluate_run says of an output of the native   *)
(* test.                                                                   *)

Judged(row) == IF row.status = "unsupported_by_artifact"
               THEN [row EXCEPT !.status = "passed"] ELSE row

Wished(run) == {Reported(run, Harness[i]) : i \in 1 .. Len(Harness)}

\* An output that a run may pass with, and the exit code it needs.
Earns(run, lines, code) ==
    /\ code = 0
    /\ Broken \notin ToSet(lines)
    /\ {Judged(row) : row \in ToSet(lines)} = Wished(run)

LEMMA ReportedIs ==
    ASSUME NEW run, NEW w, NEW row, row = Reported(run, w)
    PROVE  /\ row.run = run /\ row.scenario = w.scenario /\ row.phase = w.phase
           /\ row.position = w.position /\ row.status = "passed"
           /\ Judged(row) = row
BY DEF Reported, Judged

\* What Harness names, and where.
LEMMA HarnessIs ==
    /\ Len(Harness) \in Nat
    /\ \A i \in 1 .. Len(Harness) : Harness[i] \in Wanted
    /\ \A i, j \in 1 .. Len(Harness) : Harness[i] = Harness[j] => i = j
    /\ \A run : /\ Complete(run) \in Seq({Reported(run, w) : w \in Wanted})
                /\ Len(Complete(run)) = Len(Harness)
                /\ DOMAIN Complete(run) = 1 .. Len(Harness)
                /\ \A i \in 1 .. Len(Harness) :
                     Complete(run)[i] = Reported(run, Harness[i])
BY HarnessAssumption DEF Complete, IsInjective

\* A report of a run in which all is well.
LEMMA RowIs ==
    ASSUME NEW run, NEW j \in 1 .. Len(Harness)
    PROVE  /\ Complete(run)[j] = Reported(run, Harness[j])
           /\ Complete(run)[j].run = run
           /\ Complete(run)[j].scenario = Harness[j].scenario
           /\ Complete(run)[j].phase = Harness[j].phase
           /\ Complete(run)[j].position = Harness[j].position
           /\ Judged(Complete(run)[j]) = Complete(run)[j]
<1>1. Complete(run)[j] = Reported(run, Harness[j])
  BY HarnessIs
<1>. QED  BY <1>1, ReportedIs

\* What a report is, by its scenario.
LEMMA WantedIs ==
    ASSUME NEW w \in Wanted
    PROVE  \/ /\ w.scenario = "retrieval" /\ w.phase \in Phase /\ w.position \in Position
              /\ w = [scenario |-> "retrieval", phase |-> w.phase,
                      position |-> w.position]
           \/ /\ w.scenario \in Cancellation \union {"multi_turn_full"}
              /\ w.phase \in Phase
              /\ w = [scenario |-> w.scenario, phase |-> w.phase,
                      position |-> NoPosition]
           \/ /\ w.scenario \in (File \ {"model"}) \union {"summary"}
              /\ w = [scenario |-> w.scenario, phase |-> NoPhase,
                      position |-> NoPosition]
<1>1. CASE w \in [scenario : {"retrieval"}, phase : Phase, position : Position]
  BY <1>1
<1>2. CASE w \in [scenario : Cancellation \union {"multi_turn_full"}, phase : Phase,
                  position : {NoPosition}]
  BY <1>2
<1>3. CASE w \in [scenario : (File \ {"model"}) \union {"summary"}, phase : {NoPhase},
                  position : {NoPosition}]
  BY <1>3
<1>. QED  BY <1>1, <1>2, <1>3 DEF Wanted

\* No scenario is of two kinds.
LEMMA KindsDiffer ==
    /\ "retrieval" \notin Cancellation \union {"multi_turn_full", "summary"}
    /\ "summary" \notin Cancellation \union {"multi_turn_full"}
    /\ "multi_turn_full" \notin Cancellation
    /\ \A kind \in File \ {"model"} :
         kind \notin Cancellation \union {"retrieval", "multi_turn_full", "summary"}
BY HarnessAssumption, CollectorAssumption DEF Cancellation

\* A report is known by its scenario, phase and position; one that is of no phase
\* by its scenario alone.
LEMMA ReportOnce ==
    ASSUME NEW i \in 1 .. Len(Harness), NEW j \in 1 .. Len(Harness),
           Harness[j].scenario = Harness[i].scenario,
           \/ Harness[i].scenario \in (File \ {"model"}) \union {"summary"}
           \/ /\ Harness[j].phase = Harness[i].phase
              /\ \/ Harness[i].scenario # "retrieval"
                 \/ Harness[j].position = Harness[i].position
    PROVE  i = j
<1>. DEFINE v == Harness[i]
            w == Harness[j]
<1>1. v \in Wanted /\ w \in Wanted
  BY HarnessIs
<1>. HIDE DEF v, w
<1>2. v.scenario = w.scenario
  BY DEF v, w
<1>3. v = w
  <2>1. CASE v.scenario = "retrieval"
    <3>1. v.phase = w.phase /\ v.position = w.position
      BY <2>1, KindsDiffer DEF v, w
    <3>2. /\ v = [scenario |-> "retrieval", phase |-> v.phase, position |-> v.position]
          /\ w = [scenario |-> "retrieval", phase |-> w.phase, position |-> w.position]
      <4>1. \A x \in Wanted : x.scenario = "retrieval" =>
              x = [scenario |-> "retrieval", phase |-> x.phase, position |-> x.position]
        BY WantedIs, KindsDiffer
      <4>. QED  BY <1>1, <1>2, <2>1, <4>1
    <3>. QED  BY <3>1, <3>2, Zenon
  <2>2. CASE v.scenario \in Cancellation \union {"multi_turn_full"}
    <3>1. v.phase = w.phase
      BY <2>2, KindsDiffer DEF v, w
    <3>. QED  BY <1>1, <1>2, <2>2, <3>1, WantedIs, KindsDiffer
  <2>3. CASE v.scenario \in (File \ {"model"}) \union {"summary"}
    BY <1>1, <1>2, <2>3, WantedIs, KindsDiffer
  <2>. QED  BY <1>1, <2>1, <2>2, <2>3, WantedIs
<1>. QED  BY <1>3, HarnessIs DEF v, w

\* What a status "passed" means: of the test and its lines,
LEMMA PassedOver ==
    ASSUME NEW run, NEW lines, NEW logcat, NEW code,
           AutomatedStatus(lines, logcat, code, run, File \ {"model"}) = "passed"
    PROVE  code = 0 /\ Broken \notin ToSet(lines)
BY DEF AutomatedStatus, parse_reports, evaluate_run

\* and of the reports in them.
LEMMA PassedIs ==
    ASSUME NEW run, NEW lines, NEW logcat, NEW code,
           AutomatedStatus(lines, logcat, code, run, File \ {"model"}) = "passed"
    PROVE  /\ ~Problems(Relevant(lines, run)) /\ ~Missing(Relevant(lines, run))
           /\ \A kind \in File \ {"model"} :
                MediaAcceptance(lines, run, kind) \in {"passed", "unsupported_by_artifact"}
           /\ Relevant(lines, run) = {row \in ToSet(lines) : row.run = run}
BY DEF AutomatedStatus, parse_reports, evaluate_run, MediaMissing, Relevant

\* Where the elements of a concatenation are.
LEMMA JoinedAre ==
    ASSUME NEW X, NEW p \in Seq(X), NEW q \in Seq(X)
    PROVE  /\ DOMAIN (p \o q) = 1 .. Len(p) + Len(q)
           /\ \A k \in 1 .. Len(p) : (p \o q)[k] = p[k]
           /\ \A k \in 1 .. Len(q) : (p \o q)[Len(p) + k] = q[k]
OBVIOUS

\* RemoveAt leaves the other elements, and no more.
LEMMA RemovedIs ==
    ASSUME NEW S, NEW s \in Seq(S), NEW i \in 1 .. Len(s)
    PROVE  \A k \in DOMAIN RemoveAt(s, i) :
             \E j \in 1 .. Len(s) : j # i /\ RemoveAt(s, i)[k] = s[j]
<1>. DEFINE a == SubSeq(s, 1, i - 1)
            b == SubSeq(s, i + 1, Len(s))
            u == a \o b
<1>1. /\ a \in Seq(S) /\ Len(a) = i - 1
      /\ \A k \in 1 .. i - 1 : a[k] = s[k]
  OBVIOUS
<1>2. /\ b \in Seq(S) /\ Len(b) = Len(s) - i
      /\ \A k \in 1 .. Len(s) - i : b[k] = s[i + k]
  OBVIOUS
<1>3. RemoveAt(s, i) = u
  BY DEF RemoveAt
<1>. HIDE DEF a, b
<1>4. /\ DOMAIN u = 1 .. Len(a) + Len(b)
      /\ \A k \in 1 .. Len(a) : u[k] = a[k]
      /\ \A k \in 1 .. Len(b) : u[Len(a) + k] = b[k]
  <2>1. a \in Seq(S) /\ b \in Seq(S)
    BY <1>1, <1>2
  <2>. QED  BY <2>1, JoinedAre
<1>. HIDE DEF u
<1>5. ASSUME NEW k \in DOMAIN u
      PROVE  \E j \in 1 .. Len(s) : j # i /\ u[k] = s[j]
  <2>1. Len(s) \in Nat /\ i \in 1 .. Len(s) /\ k \in 1 .. Len(s) - 1
    BY <1>1, <1>2, <1>4
  <2>2. CASE k < i
    <3>1. k \in 1 .. Len(a) /\ k \in 1 .. i - 1 /\ k \in 1 .. Len(s) /\ k # i
      BY <1>1, <2>1, <2>2
    <3>2. u[k] = s[k]
      BY <1>1, <1>4, <3>1
    <3>. QED  BY <3>1, <3>2
  <2>3. CASE ~(k < i)
    <3>. DEFINE m == k - (i - 1)
    <3>1. /\ m \in 1 .. Len(s) - i /\ m \in 1 .. Len(b) /\ Len(a) + m = k
          /\ i + m \in 1 .. Len(s) /\ i + m # i
      BY <1>1, <1>2, <2>1, <2>3
    <3>. HIDE DEF m
    <3>2. u[k] = s[i + m]
      BY <1>2, <1>4, <3>1
    <3>. QED  BY <3>1, <3>2
  <2>. QED  BY <2>2, <2>3
<1>. QED  BY <1>3, <1>5

\* A report is missed.
LEMMA RemovedFails ==
    ASSUME NEW run \in Run, NEW i \in 1 .. Len(Harness), NEW lines,
           lines = RemoveAt(Complete(run), i), NEW logcat, NEW code
    PROVE  AutomatedStatus(lines, logcat, code, run, File \ {"model"}) # "passed"
<1>. SUFFICES ASSUME AutomatedStatus(lines, logcat, code, run, File \ {"model"}) = "passed"
              PROVE  FALSE
  OBVIOUS
<1>. DEFINE c == Complete(run)
            w == Harness[i]
            rows == Relevant(lines, run)
<1>1. \A k \in DOMAIN lines : \E j \in 1 .. Len(Harness) : j # i /\ lines[k] = c[j]
  <2>1. c \in Seq({Reported(run, x) : x \in Wanted}) /\ Len(c) = Len(Harness)
    BY HarnessIs
  <2>. QED  BY <2>1, RemovedIs
<1>2. \A row \in ToSet(lines) : \E j \in 1 .. Len(Harness) : j # i /\ row = c[j]
  BY <1>1 DEF ToSet
<1>3. \A row \in rows : \E j \in 1 .. Len(Harness) :
          /\ j # i /\ row.scenario = Harness[j].scenario
          /\ row.phase = Harness[j].phase /\ row.position = Harness[j].position
  <2>1. rows = {row \in ToSet(lines) : row.run = run}
    BY PassedIs
  <2>2. \A j \in 1 .. Len(Harness) :
            /\ c[j].scenario = Harness[j].scenario
            /\ c[j].phase = Harness[j].phase /\ c[j].position = Harness[j].position
    BY RowIs
  <2>. QED  BY <1>2, <2>1, <2>2
<1>4. w \in Wanted /\ ~Missing(rows)
  BY HarnessIs, PassedIs
<1>. HIDE DEF rows
<1>5. CASE w.scenario = "retrieval" /\ w.phase \in Phase /\ w.position \in Position
  <2>1. PICK row \in rows : /\ row.scenario = "retrieval" /\ row.phase = w.phase
                            /\ row.position = w.position
    BY <1>4, <1>5 DEF Missing, Retrievals, Found
  <2>. QED  BY <1>3, <1>5, <2>1, ReportOnce
<1>6. CASE w.scenario \in Cancellation \union {"multi_turn_full"} /\ w.phase \in Phase
  <2>1. Found(rows, w.phase, w.scenario) # {}
    BY <1>4, <1>6 DEF Missing
  <2>2. PICK row \in rows : row.scenario = w.scenario /\ row.phase = w.phase
    BY <2>1 DEF Found
  <2>. QED  BY <1>3, <1>6, <2>2, ReportOnce, KindsDiffer
<1>7. CASE w.scenario = "summary"
  <2>1. PICK row \in rows : row.scenario = "summary"
    BY <1>4 DEF Missing
  <2>. QED  BY <1>3, <1>7, <2>1, ReportOnce
<1>8. CASE w.scenario \in File \ {"model"}
  <2>1. \A j \in 1 .. Len(Harness) : j # i => c[j].scenario # w.scenario
    <3>1. \A j \in 1 .. Len(Harness) : c[j].scenario = Harness[j].scenario
      BY RowIs
    <3>. HIDE DEF c
    <3>. QED  BY <1>8, <3>1, ReportOnce
  <2>2. \A k \in DOMAIN lines : lines[k].scenario # w.scenario
    BY <1>1, <2>1
  <2>3. MediaAcceptance(lines, run, w.scenario) = "not_reported"
    BY <2>2 DEF MediaAcceptance
  <2>. QED  BY <1>8, <2>3, PassedIs
<1>. QED  BY <1>4, <1>5, <1>6, <1>7, <1>8, WantedIs

\* What is wrong with a report is not which one it is.
LEMMA FlawedIs ==
    ASSUME NEW run, NEW w \in Wanted, NEW row \in Flawed(Reported(run, w))
    PROVE  /\ row.run = run /\ row.scenario = w.scenario /\ row.phase = w.phase
           /\ row.position = w.position
           /\ \/ /\ w.scenario = "retrieval"
                 /\ \/ ~row.retrievalCorrect \/ ~row.identified \/ ~row.exact
                    \/ row.requiredTokens = 0 \/ row.requiredTokens = run.context + 1
              \/ w.scenario \in Cancellation /\ ~CancelConfirmed(row)
              \/ w.scenario = "multi_turn_full" /\ ~row.contextFull
              \/ /\ w.scenario \in File \ {"model"}
                 /\ row.status \in {"not_run_no_file", "unsupported_by_artifact"}
                 /\ Judged(row) = IF row.status = "unsupported_by_artifact"
                                  THEN Reported(run, w) ELSE row
<1>. DEFINE r == Reported(run, w)
<1>1. /\ r.run = run /\ r.scenario = w.scenario /\ r.phase = w.phase
      /\ r.position = w.position /\ r.status = "passed"
      /\ r.cancelled /\ r.phaseConfirmed /\ r.retried
      /\ r = [run |-> r.run, scenario |-> r.scenario, phase |-> r.phase,
              position |-> r.position, retrievalCorrect |-> r.retrievalCorrect,
              identified |-> r.identified, exact |-> r.exact,
              requiredTokens |-> r.requiredTokens, cancelled |-> r.cancelled,
              phaseConfirmed |-> r.phaseConfirmed, retried |-> r.retried,
              contextFull |-> r.contextFull, status |-> r.status]
  BY DEF Reported
<1>2. row \in Flawed(r)
  OBVIOUS
<1>3. w.scenario \in {"retrieval", "multi_turn_full", "summary"} \union Cancellation
                     \union (File \ {"model"})
  BY WantedIs
<1>. HIDE DEF r
<1>4. CASE w.scenario = "retrieval"
  <2>1. row \in {[r EXCEPT !.retrievalCorrect = FALSE], [r EXCEPT !.identified = FALSE],
                 [r EXCEPT !.exact = FALSE], [r EXCEPT !.requiredTokens = 0],
                 [r EXCEPT !.requiredTokens = r.run.context + 1]}
    BY <1>1, <1>2, <1>4, HarnessAssumption DEF Flawed
  <2>2. CASE row \in {[r EXCEPT !.retrievalCorrect = FALSE], [r EXCEPT !.identified = FALSE],
                      [r EXCEPT !.exact = FALSE]}
    BY <1>1, <1>4, <2>2
  <2>3. CASE row \in {[r EXCEPT !.requiredTokens = 0],
                      [r EXCEPT !.requiredTokens = r.run.context + 1]}
    BY <1>1, <1>4, <2>3
  <2>. QED  BY <2>1, <2>2, <2>3
<1>5. CASE w.scenario = "cancel_prefill"
  <2>1. row \in {[r EXCEPT !.cancelled = FALSE], [r EXCEPT !.retried = FALSE]}
    BY <1>1, <1>2, <1>5, HarnessAssumption DEF Flawed, Cancellation
  <2>2. /\ row.run = run /\ row.scenario = w.scenario /\ row.phase = w.phase
        /\ row.position = w.position /\ (~row.cancelled \/ ~row.retried)
    BY <1>1, <2>1
  <2>. QED  BY <1>5, <2>2 DEF Cancellation, CancelConfirmed
<1>6. CASE w.scenario = "cancel_decode"
  <2>1. row \in {[r EXCEPT !.cancelled = FALSE], [r EXCEPT !.phaseConfirmed = FALSE],
                 [r EXCEPT !.retried = FALSE]}
    BY <1>1, <1>2, <1>6, HarnessAssumption DEF Flawed, Cancellation
  <2>2. /\ row.run = run /\ row.scenario = w.scenario /\ row.phase = w.phase
        /\ row.position = w.position
        /\ (~row.cancelled \/ ~row.phaseConfirmed \/ ~row.retried)
    BY <1>1, <2>1
  <2>. QED  BY <1>6, <2>2 DEF Cancellation, CancelConfirmed
<1>7. CASE w.scenario = "multi_turn_full"
  <2>1. row = [r EXCEPT !.contextFull = FALSE]
    BY <1>1, <1>2, <1>7, HarnessAssumption DEF Flawed, Cancellation
  <2>. QED  BY <1>1, <1>7, <2>1
<1>8. CASE w.scenario \in File \ {"model"}
  <2>1. w.scenario \in Media /\ w.scenario \notin Cancellation
                           \union {"retrieval", "multi_turn_full", "summary"}
    BY <1>8, KindsDiffer, CollectorAssumption
  <2>2. PICK status \in {"not_run_no_file", "unsupported_by_artifact"} :
          row = [r EXCEPT !.status = status]
    BY <1>1, <1>2, <2>1 DEF Flawed, Cancellation
  <2>3. /\ row.run = run /\ row.scenario = w.scenario /\ row.phase = w.phase
        /\ row.position = w.position /\ row.status = status
    BY <1>1, <2>2
  <2>4. [row EXCEPT !.status = "passed"] = r
    BY <1>1, <2>2
  <2>. QED  BY <1>8, <2>2, <2>3, <2>4 DEF Judged, r
<1>9. CASE w.scenario = "summary"
  <2>1. w.scenario \notin Media /\ w.scenario \notin Cancellation
    BY <1>9, KindsDiffer, HarnessAssumption
  <2>2. Flawed(r) = {}
    BY <1>1, <1>9, <2>1 DEF Flawed, Cancellation
  <2>. QED  BY <1>2, <2>2
<1>. QED  BY <1>3, <1>4, <1>5, <1>6, <1>7, <1>8, <1>9 DEF Cancellation

\* One report that is not as it should be.
LEMMA ReplacedEarns ==
    ASSUME NEW run \in Run, NEW i \in 1 .. Len(Harness),
           NEW row \in Flawed(Complete(run)[i]),
           NEW lines, lines = ReplaceAt(Complete(run), i, row),
           NEW logcat, NEW code,
           AutomatedStatus(lines, logcat, code, run, File \ {"model"}) = "passed",
           code = 0, Broken \notin ToSet(lines)
    PROVE  Earns(run, lines, code)
<1>. DEFINE c == Complete(run)
            w == Harness[i]
            rows == Relevant(lines, run)
<1>1. /\ DOMAIN c = 1 .. Len(Harness) /\ DOMAIN lines = 1 .. Len(Harness)
      /\ lines[i] = row
      /\ \A k \in 1 .. Len(Harness) : k # i => lines[k] = c[k]
  BY HarnessIs DEF ReplaceAt
<1>2. /\ w \in Wanted /\ c[i] = Reported(run, w)
      /\ row \in Flawed(Reported(run, w))
  BY HarnessIs
<1>. HIDE DEF w, c
<1>3. /\ row.run = run /\ row.scenario = w.scenario /\ row.phase = w.phase
      /\ row.position = w.position
  BY <1>2, FlawedIs
<1>4. row \in rows
  <2>1. rows = {x \in ToSet(lines) : x.run = run}
    BY PassedIs
  <2>. QED  BY <1>1, <1>3, <2>1 DEF ToSet
<1>5. ~Problems(rows)
  BY PassedIs, Zenon
<1>. HIDE DEF rows
<1>6. ~(w.scenario = "retrieval"
        /\ (\/ ~row.retrievalCorrect \/ ~row.identified \/ ~row.exact
            \/ row.requiredTokens = 0 \/ row.requiredTokens = run.context + 1))
  <2>. SUFFICES ASSUME w.scenario = "retrieval"
                PROVE  /\ row.retrievalCorrect /\ row.identified /\ row.exact
                       /\ row.requiredTokens # 0 /\ row.requiredTokens # run.context + 1
    OBVIOUS
  <2>1. w.phase \in Phase /\ w.position \in Position
    BY <1>2, WantedIs, KindsDiffer
  <2>2. row \in Retrievals(rows, w.phase, w.position)
    BY <1>3, <1>4 DEF Retrievals, Found
  <2>3. row.retrievalCorrect /\ row.identified /\ NearCapacity(row)
    BY <1>5, <2>1, <2>2 DEF Problems
  <2>4. run.context \in Nat /\ run.context > 1
    BY HarnessAssumption
  <2>5. (run.context * 97) \div 100 >= 1
    BY <2>4
  <2>. QED  BY <1>3, <2>3, <2>4, <2>5 DEF NearCapacity
<1>7. ~(w.scenario \in Cancellation /\ ~CancelConfirmed(row))
  <2>. SUFFICES ASSUME w.scenario \in Cancellation
                PROVE  CancelConfirmed(row)
    OBVIOUS
  <2>1. w.phase \in Phase
    BY <1>2, WantedIs, KindsDiffer
  <2>2. row \in Found(rows, w.phase, w.scenario)
    BY <1>3, <1>4 DEF Found
  <2>. QED  BY <1>5, <2>1, <2>2 DEF Problems
<1>8. ~(w.scenario = "multi_turn_full" /\ ~row.contextFull)
  <2>. SUFFICES ASSUME w.scenario = "multi_turn_full"
                PROVE  row.contextFull
    OBVIOUS
  <2>1. w.phase \in Phase
    BY <1>2, WantedIs, KindsDiffer
  <2>2. row \in Found(rows, w.phase, "multi_turn_full")
    BY <1>3, <1>4 DEF Found
  <2>. QED  BY <1>5, <2>1, <2>2 DEF Problems
<1>9. /\ w.scenario \in File \ {"model"}
      /\ row.status \in {"not_run_no_file", "unsupported_by_artifact"}
      /\ Judged(row) = IF row.status = "unsupported_by_artifact"
                       THEN Reported(run, w) ELSE row
  BY <1>2, <1>6, <1>7, <1>8, FlawedIs
<1>10. row.status = "unsupported_by_artifact"
  <2>. DEFINE found == {k \in DOMAIN lines : /\ lines[k] # Broken
                                             /\ lines[k].run = run
                                             /\ lines[k].scenario = w.scenario}
  <2>1. \A k \in 1 .. Len(Harness) : k # i => lines[k].scenario # w.scenario
    <3>1. \A k \in 1 .. Len(Harness) : c[k].scenario = Harness[k].scenario
      BY RowIs DEF c
    <3>2. \A k \in 1 .. Len(Harness) : k # i => Harness[k].scenario # w.scenario
      BY <1>9, ReportOnce DEF w
    <3>. QED  BY <1>1, <3>1, <3>2
  <2>2. lines[i] # Broken
    BY <1>1 DEF ToSet
  <2>3. found = {i}
    BY <1>1, <1>3, <2>1, <2>2
  <2>4. i \in Int
    BY HarnessIs
  <2>5. Max(found) = i
    <3>. HIDE DEF found
    <3>. QED  BY <2>3, <2>4 DEF Max
  <2>6. MediaAcceptance(lines, run, w.scenario) = row.status
    <3>1. MediaAcceptance(lines, run, w.scenario)
            = IF found = {} THEN "not_reported" ELSE lines[Max(found)].status
      BY DEF MediaAcceptance
    <3>. HIDE DEF found
    <3>. QED  BY <1>1, <2>3, <2>5, <3>1
  <2>7. MediaAcceptance(lines, run, w.scenario) \in {"passed", "unsupported_by_artifact"}
    BY <1>9, PassedIs
  <2>. QED  BY <1>9, <2>6, <2>7
<1>11. \A k \in 1 .. Len(Harness) : Judged(lines[k]) = Reported(run, Harness[k])
  <2>1. \A k \in 1 .. Len(Harness) : Judged(c[k]) = Reported(run, Harness[k])
    BY RowIs DEF c
  <2>. QED  BY <1>1, <1>9, <1>10, <2>1 DEF w
<1>12. {Judged(x) : x \in ToSet(lines)} = Wished(run)
  BY <1>1, <1>11 DEF ToSet, Wished
<1>. QED  BY <1>12 DEF Earns

\* A run that passes earned it, whichever way its output is wrong.
LEMMA PassIsEarned ==
    ASSUME NEW run \in Run, NEW lines \in Outputs(run), NEW logcat, NEW code,
           AutomatedStatus(lines, logcat, code, run, File \ {"model"}) = "passed"
    PROVE  Earns(run, lines, code)
<1>1. code = 0 /\ Broken \notin ToSet(lines)
  BY PassedOver
<1>2. CASE lines = Complete(run)
  <2>1. /\ DOMAIN lines = 1 .. Len(Harness)
        /\ \A k \in 1 .. Len(Harness) : Judged(lines[k]) = Reported(run, Harness[k])
    BY <1>2, HarnessIs, RowIs
  <2>2. {Judged(x) : x \in ToSet(lines)} = Wished(run)
    BY <2>1 DEF ToSet, Wished
  <2>. QED  BY <1>1, <2>2 DEF Earns
<1>3. CASE lines = <<>>
  <2>1. ToSet(lines) = {}
    BY <1>3 DEF ToSet
  <2>2. Relevant(lines, run) = {}
    BY <2>1 DEF Relevant, parse_reports
  <2>3. ~Missing(Relevant(lines, run))
    BY PassedIs
  <2>. QED  BY <2>2, <2>3 DEF Missing
<1>4. CASE lines = Append(Complete(run), Broken)
  <2>. DEFINE c == Complete(run)
  <2>1. c \in Seq({Reported(run, w) : w \in Wanted})
    BY HarnessIs
  <2>. HIDE DEF c
  <2>2. c \in Seq({Reported(run, w) : w \in Wanted} \union {Broken})
    BY <2>1
  <2>3. /\ Len(c) + 1 \in DOMAIN Append(c, Broken)
        /\ Append(c, Broken)[Len(c) + 1] = Broken
    BY <2>2
  <2>4. Broken \in ToSet(Append(c, Broken))
    BY <2>3, Zenon DEF ToSet
  <2>. QED  BY <1>1, <1>4, <2>4 DEF c
<1>5. ASSUME NEW i \in 1 .. Len(Harness), NEW row \in Flawed(Complete(run)[i]),
             lines = ReplaceAt(Complete(run), i, row)
      PROVE  Earns(run, lines, code)
  BY <1>1, <1>5, ReplacedEarns
<1>6. ASSUME NEW i \in 1 .. Len(Harness), lines = RemoveAt(Complete(run), i)
      PROVE  FALSE
  BY <1>6, RemovedFails
<1>7. \/ lines \in {Complete(run), <<>>, Append(Complete(run), Broken)}
      \/ \E i \in 1 .. Len(Harness) :
           \/ \E row \in Flawed(Complete(run)[i]) : lines = ReplaceAt(Complete(run), i, row)
           \/ lines = RemoveAt(Complete(run), i)
  BY DEF Outputs, FlawedOutputs
<1>. QED  BY <1>2, <1>3, <1>4, <1>5, <1>6, <1>7

-----------------------------------------------------------------------------
(* The invariant of the evidence.                                          *)

\* In a run, before its result counts.
Running == {"watch", "popen", "launched", "wait", "stop", "term", "kill", "signal",
            "join", "joined", "evaluate", "record"}

Lines == {<<>>} \union {<<Reported(run, Last(Harness))>> : run \in Run}
                \union UNION {Outputs(run) : run \in Run}

Filed ==
    /\ partial \in Content /\ online \in BOOLEAN
    /\ sampler \in [at : {"none", "top", "asked", "read", "wait", "ended"},
                    stopped : BOOLEAN]
    /\ folder \in [Run -> [stdout : Lines, logcat : Lines, samples : 0 .. MaxSamples]]
    /\ DOMAIN result = Run /\ recorded \subseteq Run
    /\ main.code \in IF main.at = "exited" THEN {0, 1, 2, 130} ELSE {None}

\* Its result is written, and it is in the report, or the next to be.
Evaluated(run) == run \in recorded \/ (main.at = "record" /\ run = main.run)

\* A run is evaluated once, after its sampler ended.
InRun ==
    /\ main.at \in Running /\ main.waits # "bootstrap" => main.run \in Run \ recorded
    /\ main.at \in {"evaluate", "record"} => sampler.at = "ended"
    /\ main.at \notin {"except", "final", "exited"} =>
         \A run \in Run : result[run] # None => Evaluated(run)

\* The sampler writes to the folder of the run that is under way, while that has no
\* result.
Sampled ==
    /\ sampler.at # "none" => main.run \in Run
    /\ sampler.at \in {"asked", "read"} => folder[main.run].samples < MaxSamples
    /\ sampler.at \notin {"none", "ended"} => result[main.run] = None

\* From the output of a run to the exit code.
Passing ==
    /\ \A run \in Run : Evaluated(run) /\ result[run].status = "passed" =>
         Earns(run, folder[run].stdout, result[run].exitCode)
    /\ main.status = "passed" =>
         /\ main.at \in {"final", "exited"}
         /\ Run \subseteq recorded
         /\ \A run \in Run : result[run].status = "passed"
    /\ validation.status = "passed" =>
         main.at = "exited" /\ main.status = "passed" /\ validation.runs = Run
    /\ main.code = 0 => validation.status = "passed"

EvidenceInv == Filed /\ InRun /\ Sampled /\ Passing /\ ResultsAreFinal

-----------------------------------------------------------------------------
(* How the main thread moves, and what that leaves of the invariant.       *)

LEMMA GoesTo ==
    ASSUME main \in MainThread, NEW place \in Place, Goto(place)
    PROVE  /\ main'.at = place /\ main'.run = main.run /\ main'.waits = main.waits
           /\ main'.status = main.status /\ main'.code = main.code
BY DEF Goto, MainThread

LEMMA RaisesTo ==
    ASSUME main \in MainThread, NEW exception, Raise(exception)
    PROVE  /\ main'.at = Handler /\ main'.run = main.run /\ main'.waits = main.waits
           /\ main'.status = main.status
           /\ main'.code = IF Handler = "exited" THEN CodeOf(exception) ELSE main.code
BY DEF Raise, MainThread

\* The main thread does not move, and no evidence changes.
LEMMA Rests ==
    ASSUME EvidenceInv, UNCHANGED <<main, sampler, folder, result, recorded, validation>>,
           partial' \in Content, online' \in BOOLEAN
    PROVE  EvidenceInv'
<1>1. Filed'
  BY DEF EvidenceInv, Filed
<1>2. InRun'
  BY DEF EvidenceInv, InRun, Evaluated
<1>3. Sampled'
  BY DEF EvidenceInv, Sampled
<1>4. Passing'
  BY DEF EvidenceInv, Passing, Evaluated
<1>5. ResultsAreFinal'
  BY DEF EvidenceInv, ResultsAreFinal
<1>. QED  BY <1>1, <1>2, <1>3, <1>4, <1>5 DEF EvidenceInv

\* It moves, and no evidence changes but that validation.json may be torn.
LEMMA Moves ==
    ASSUME EvidenceInv, UNCHANGED <<sampler, folder, result, recorded>>,
           validation' = validation \/ validation'.status # "passed",
           partial' \in Content, online' \in BOOLEAN, main'.run = main.run,
           main'.status = main.status \/ main'.status # "passed",
           main.at # "exited", main'.at # "record",
           main.at = "final" => main'.at = "exited",
           main'.code \in IF main'.at = "exited" THEN {1, 2, 130} ELSE {None},
           main'.at \in Running /\ main'.waits # "bootstrap" =>
               main.at \in Running /\ main.waits # "bootstrap",
           main'.at = "evaluate" => sampler.at = "ended",
           \/ main'.at \in {"except", "final", "exited"}
           \/ main.at \notin {"except", "record"}
    PROVE  EvidenceInv'
<1>1. \A run : /\ Evaluated(run)' => Evaluated(run)
              /\ main.at # "record" /\ Evaluated(run) => Evaluated(run)'
  BY DEF Evaluated
<1>2. Filed'
  BY DEF EvidenceInv, Filed
<1>3. InRun'
  BY <1>1 DEF EvidenceInv, InRun
<1>4. Sampled'
  BY DEF EvidenceInv, Sampled
<1>5. Passing'
  <2>1. validation'.status # "passed"
    BY DEF EvidenceInv, Passing
  <2>2. main'.code # 0
    BY CollectorAssumption
  <2>3. ASSUME NEW run \in Run, Evaluated(run)', result'[run].status = "passed"
        PROVE  Earns(run, folder'[run].stdout, result'[run].exitCode)
    <3>1. Evaluated(run) /\ result[run].status = "passed"
      BY <2>3 DEF Evaluated
    <3>2. Earns(run, folder[run].stdout, result[run].exitCode)
      BY <3>1 DEF EvidenceInv, Passing
    <3>. QED  BY <3>2
  <2>4. ASSUME main'.status = "passed"
        PROVE  /\ main'.at \in {"final", "exited"} /\ Run \subseteq recorded'
               /\ \A run \in Run : result'[run].status = "passed"
    BY <2>4 DEF EvidenceInv, Passing
  <2>. QED  BY <2>1, <2>2, <2>3, <2>4 DEF Passing
<1>6. ResultsAreFinal'
  BY DEF EvidenceInv, ResultsAreFinal
<1>. QED  BY <1>2, <1>3, <1>4, <1>5, <1>6 DEF EvidenceInv

LEMMA MovesOn ==
    ASSUME DeployInv, EvidenceInv, NEW place \in Place, Goto(place),
           UNCHANGED <<sampler, folder, result, recorded, validation>>,
           partial' \in Content, online' \in BOOLEAN,
           main.at \notin {"except", "record", "final", "exited"},
           place \notin {"record", "exited"},
           place \in Running => main.at \in Running \/ main.waits = "bootstrap",
           place = "evaluate" => sampler.at = "ended"
    PROVE  EvidenceInv'
<1>1. /\ main'.at = place /\ main'.run = main.run /\ main'.waits = main.waits
      /\ main'.status = main.status /\ main'.code = main.code
  BY GoesTo DEF DeployInv, Typed
<1>2. main.code = None
  BY DEF EvidenceInv, Filed
<1>. QED  BY <1>1, <1>2, Moves

LEMMA MovesBack ==
    ASSUME DeployInv, EvidenceInv, NEW exception \in {"error", "timeout"}, Raise(exception),
           UNCHANGED <<sampler, folder, result, recorded, validation>>,
           partial' \in Content, online' \in BOOLEAN,
           main.at \notin {"except", "final", "exited"}
    PROVE  EvidenceInv'
<1>1. /\ main'.at = Handler /\ main'.run = main.run /\ main'.waits = main.waits
      /\ main'.status = main.status
      /\ main'.code = IF Handler = "exited" THEN CodeOf(exception) ELSE main.code
  BY RaisesTo DEF DeployInv, Typed
<1>2. main.code = None
  BY DEF EvidenceInv, Filed
<1>3. CodeOf(exception) \in {1, 2}
  BY DEF CodeOf
<1>4. /\ Handler \in {"remove", "stop", "signal", "exited", "except"}
      /\ Handler \in {"stop", "signal"} => main.at \in Running
      /\ main.at = "record" => Handler = "except"
  BY DEF Handler, Running
<1>. QED  BY <1>1, <1>2, <1>3, <1>4, Moves DEF Running

-----------------------------------------------------------------------------
(* One lemma for each group of actions.                                    *)

\* What evidence there is, and how the device is.
Untouched ==
    /\ UNCHANGED <<sampler, folder, result, recorded, validation>>
    /\ partial' \in Content /\ online' \in BOOLEAN

\* Before the runs.
LEMMA BeforeStep ==
    ASSUME DeployInv, CleanupInv, EvidenceInv,
           \/ make_plan \/ OpenOutput \/ device_metadata \/ InstallApk \/ Locate
           \/ Lookup \/ Digest \/ Upload \/ Rename \/ RemovePartial
    PROVE  EvidenceInv'
<1>1. UNCHANGED <<sampler, folder, result, recorded, validation>> /\ online' \in BOOLEAN
  BY DEF make_plan, OpenOutput, device_metadata, InstallApk, Locate, Lookup, Digest,
         Upload, Rename, RemovePartial, others, phone, evidence, EvidenceInv, Filed
<1>2. partial' \in Content
  <2>1. CASE Upload
    <3>1. host[main.file] \in Content
      BY DEF DeployInv, Typed, MainThread, Content
    <3>. QED  BY <2>1, <3>1 DEF Upload, Content
  <2>2. None \in Content /\ partial \in Content
    BY DEF Content, EvidenceInv, Filed
  <2>. QED
    BY <2>1, <2>2 DEF make_plan, OpenOutput, device_metadata, InstallApk, Locate, Lookup,
       Digest, Rename, RemovePartial, others, phone
<1>3. main.at \in {"plan", "output", "metadata", "install", "locate", "deploy", "digest",
                  "upload", "rename", "remove"}
  BY DEF make_plan, OpenOutput, device_metadata, InstallApk, Locate, Lookup, Digest,
         Upload, Rename, RemovePartial
<1>4. CASE Raise("error")
  BY <1>1, <1>2, <1>3, <1>4, MovesBack
<1>5. CASE main.at = "metadata" /\ Goto("popen")
  <2>1. main.waits = "bootstrap"
    BY <1>5 DEF CleanupInv, WaitsInOrder
  <2>. QED  BY <1>1, <1>2, <1>3, <1>5, <2>1, MovesOn DEF Place
<1>6. CASE \E place \in {"output", "metadata", "locate", "deploy", "deployed", "upload",
                         "digest", "rename", "remove"} : Goto(place)
  BY <1>1, <1>2, <1>3, <1>6, MovesOn DEF Place, Running
<1>7. CASE RemovePartial
  <2>1. /\ main'.at \in {"deployed", "except"} /\ main'.run = main.run
        /\ main'.status = main.status /\ main'.code = main.code
    <3>1. PICK failed \in BOOLEAN, raised \in {main.raised, "error"} :
              main' = [main EXCEPT
                        !.at = IF raised = "nothing" THEN "deployed" ELSE "except",
                        !.raised = raised, !.unremoved = failed /\ partial # None]
      BY <1>7 DEF RemovePartial
    <3>2. main \in MainThread
      BY DEF DeployInv, Typed
    <3>. QED  BY <3>1, <3>2 DEF MainThread
  <2>2. main.code = None /\ main.at = "remove"
    BY <1>7 DEF RemovePartial, EvidenceInv, Filed
  <2>. QED  BY <1>1, <1>2, <2>1, <2>2, Moves DEF Running
<1>. QED
  BY <1>4, <1>5, <1>6, <1>7 DEF make_plan, OpenOutput, device_metadata, InstallApk, Locate, Lookup,
     Digest, Upload, Rename, RemovePartial, capture

\* The files are deployed; a process begins, and is waited for.
LEMMA WaitingStep ==
    ASSUME DeployInv, CleanupInv, EvidenceInv,
           Deployed \/ Popen \/ EnterTry \/ Wait \/ Join \/ Joined
    PROVE  EvidenceInv'
<1>1. UNCHANGED <<sampler, folder, result, recorded, validation, partial, online>>
      /\ main \in MainThread
  BY DEF Deployed, Popen, EnterTry, Wait, Join, Joined, others, phone, evidence,
         DeployInv, Typed
<1>2. partial' \in Content /\ online' \in BOOLEAN
  BY <1>1 DEF EvidenceInv, Filed
<1>3. main.at \in {"deployed", "popen", "launched", "wait", "join", "joined"}
  BY DEF Deployed, Popen, EnterTry, Wait, Join, Joined
<1>4. CASE Raise("error")
  BY <1>1, <1>2, <1>3, <1>4, MovesBack
<1>5. CASE (EnterTry /\ Goto("wait"))
           \/ (Joined /\ sampler.at = "ended" /\ Goto("evaluate"))
  <2>1. main.at \in {"launched", "joined"}
    BY <1>5 DEF EnterTry, Joined
  <2>. QED  BY <1>1, <1>2, <1>5, <2>1, MovesOn DEF Place, Running
<1>6. CASE (Popen /\ ~Raise("error")) \/ Wait \/ Deployed \/ Join
  <2>1. /\ main'.run = main.run /\ main'.status = main.status /\ main'.code = main.code
        /\ main'.at \in {"next", "deploy", "launched", "stop"}
        /\ main'.waits = main.waits \/ Join
        /\ main'.at \in {"next", "deploy"} \/ main.at \in {"popen", "wait", "join"}
    <3>1. CASE Popen /\ ~Raise("error")
      BY <1>1, <3>1 DEF Popen, MainThread
    <3>2. CASE Wait
      BY <1>1, <3>2 DEF Wait, MainThread
    <3>3. CASE Deployed
      BY <1>1, <3>3 DEF Deployed, MainThread
    <3>4. CASE Join
      BY <1>1, <3>4 DEF Join, MainThread
    <3>. QED  BY <1>6, <3>1, <3>2, <3>3, <3>4
  <2>2. main.code = None
    BY <1>3 DEF EvidenceInv, Filed
  <2>3. Join => main.waits = "test"
    BY DEF Join, DeployInv, PlanHolds
  <2>. QED  BY <1>1, <1>2, <1>3, <2>1, <2>2, <2>3, Moves DEF Running
<1>. QED  BY <1>4, <1>5, <1>6 DEF Popen, EnterTry, Joined

\* A process is stopped.
LEMMA StoppingStep ==
    ASSUME DeployInv, CleanupInv, EvidenceInv, stop_process
    PROVE  EvidenceInv'
<1>1. UNCHANGED <<sampler, folder, result, recorded, validation, partial, online>>
      /\ main.at \in {"stop", "term", "kill"} /\ main \in MainThread
  BY DEF stop_process, phone, evidence, DeployInv, Typed
<1>2. partial' \in Content /\ online' \in BOOLEAN
  BY <1>1 DEF EvidenceInv, Filed
<1>3. CASE Raise("error") \/ Raise("timeout")
  BY <1>1, <1>2, <1>3, MovesBack
<1>4. CASE \E place \in {"except", "install", "signal", "joined", "term", "kill"} :
             Goto(place)
  BY <1>1, <1>2, <1>4, MovesOn DEF Place, Running
<1>5. Stopped => \/ Raise("error")
                 \/ \E place \in {"except", "install", "signal", "joined"} : Goto(place)
  BY <1>1 DEF Stopped, MainThread
<1>. QED  BY <1>3, <1>4, <1>5 DEF stop_process

\* A run begins, in its own folder, where nothing was evaluated.
LEMMA BeginningStep ==
    ASSUME DeployInv, CleanupInv, EvidenceInv, NextRun
    PROVE  EvidenceInv'
<1>1. /\ UNCHANGED <<partial, online, result, recorded, validation>>
      /\ main.at = "next" /\ main \in MainThread
  BY DEF NextRun, phone, evidence, DeployInv, Typed
<1>2. partial' \in Content /\ online' \in BOOLEAN
  BY <1>1 DEF EvidenceInv, Filed
<1>3. CASE Raise("error") /\ UNCHANGED <<process, sampler, folder>>
  BY <1>1, <1>2, <1>3, MovesBack
<1>4. CASE ~(Raise("error") /\ UNCHANGED <<process, sampler, folder>>)
  <2>. DEFINE run == CHOOSE r \in Run : r \notin recorded
  <2>1. run \in Run /\ run \notin recorded
    <3>1. \E r \in Run : r \notin recorded
      BY DEF NextRun
    <3>. QED  BY <3>1
  <2>2. /\ main' = [main EXCEPT !.at = "watch", !.run = run, !.waits = "test"]
        /\ sampler' = NoSampler
        /\ folder' = [folder EXCEPT ![run].logcat = <<Reported(run, Last(Harness))>>]
    BY <1>4 DEF NextRun
  <2>. HIDE DEF run
  <2>3. /\ main'.at = "watch" /\ main'.run = run /\ main'.waits = "test"
        /\ main'.status = main.status /\ main'.code = main.code
    BY <1>1, <2>2 DEF MainThread
  <2>4. /\ sampler'.at = "none" /\ sampler'.stopped = FALSE /\ sampler' = NoSampler
    BY <2>2 DEF NoSampler
  <2>5. /\ folder' \in [Run -> [stdout : Lines, logcat : Lines, samples : 0 .. MaxSamples]]
        /\ \A r \in Run : /\ folder'[r].stdout = folder[r].stdout
                          /\ folder'[r].samples = folder[r].samples
    <3>. DEFINE line == <<Reported(run, Last(Harness))>>
    <3>1. line \in Lines
      BY <2>1 DEF Lines
    <3>. HIDE DEF line
    <3>2. folder' = [folder EXCEPT ![run].logcat = line]
      BY <2>2 DEF line
    <3>. HIDE DEF Lines
    <3>3. folder \in [Run -> [stdout : Lines, logcat : Lines, samples : 0 .. MaxSamples]]
      BY DEF EvidenceInv, Filed
    <3>. QED  BY <2>1, <3>1, <3>2, <3>3
  <2>6. Filed'
    BY <1>1, <1>2, <2>3, <2>4, <2>5 DEF EvidenceInv, Filed, NoSampler
  <2>7. InRun'
    BY <1>1, <2>1, <2>3 DEF EvidenceInv, InRun, Evaluated
  <2>8. Sampled'
    BY <2>4 DEF Sampled
  <2>9. Passing'
    <3>1. main'.status # "passed" /\ validation'.status # "passed"
      BY <1>1, <2>3 DEF EvidenceInv, Passing
    <3>2. main'.code # 0
      BY <1>1, <2>3, CollectorAssumption DEF EvidenceInv, Filed
    <3>3. ASSUME NEW r \in Run, Evaluated(r)', result'[r].status = "passed"
          PROVE  Earns(r, folder'[r].stdout, result'[r].exitCode)
      <4>1. Evaluated(r) /\ result[r].status = "passed"
        BY <1>1, <2>3, <3>3 DEF Evaluated
      <4>2. Earns(r, folder[r].stdout, result[r].exitCode)
        BY <4>1 DEF EvidenceInv, Passing
      <4>. QED  BY <1>1, <2>5, <4>2
    <3>. QED  BY <3>1, <3>2, <3>3 DEF Passing
  <2>10. ResultsAreFinal'
    BY <1>1, <2>5 DEF EvidenceInv, ResultsAreFinal
  <2>. QED  BY <2>6, <2>7, <2>8, <2>9, <2>10 DEF EvidenceInv
<1>. QED  BY <1>3, <1>4

\* The sampler begins and is told to stop.
LEMMA SamplerStep ==
    ASSUME DeployInv, CleanupInv, EvidenceInv, StartSampler \/ Signal
    PROVE  EvidenceInv'
<1>1. /\ UNCHANGED <<partial, online, folder, result, recorded, validation>>
      /\ main.at \in {"watch", "signal"} /\ main \in MainThread /\ main.waits = "test"
      /\ sampler \in [at : {"none", "top", "asked", "read", "wait", "ended"},
                      stopped : BOOLEAN]
  BY DEF StartSampler, Signal, phone, evidence, DeployInv, Typed, PlanHolds, EvidenceInv,
         Filed
<1>2. /\ main'.at \in {"popen", "join"} /\ main'.run = main.run
      /\ main'.waits = main.waits /\ main'.status = main.status /\ main'.code = main.code
  BY <1>1, GoesTo DEF StartSampler, Signal, Place
<1>3. /\ sampler' \in [at : {"none", "top", "asked", "read", "wait", "ended"},
                       stopped : BOOLEAN]
      /\ sampler'.at = sampler.at \/ sampler'.at = "top"
  BY <1>1 DEF StartSampler, Signal
<1>4. main.run \in Run /\ main.run \notin recorded /\ result[main.run] = None
  BY <1>1 DEF EvidenceInv, InRun, Running, Evaluated
<1>5. Filed'
  BY <1>1, <1>2, <1>3 DEF EvidenceInv, Filed
<1>6. InRun'
  BY <1>1, <1>2, <1>4 DEF EvidenceInv, InRun, Evaluated
<1>7. Sampled'
  BY <1>1, <1>2, <1>3, <1>4 DEF EvidenceInv, Sampled
<1>8. Passing'
  <2>1. main'.status # "passed" /\ validation'.status # "passed"
    BY <1>1, <1>2 DEF EvidenceInv, Passing
  <2>2. main'.code # 0
    BY <1>1, <1>2, CollectorAssumption DEF EvidenceInv, Filed
  <2>3. ASSUME NEW r \in Run, Evaluated(r)', result'[r].status = "passed"
        PROVE  Earns(r, folder'[r].stdout, result'[r].exitCode)
    <3>1. Evaluated(r) /\ result[r].status = "passed"
      BY <1>1, <1>2, <2>3 DEF Evaluated
    <3>2. Earns(r, folder[r].stdout, result[r].exitCode)
      BY <3>1 DEF EvidenceInv, Passing
    <3>. QED  BY <1>1, <3>2
  <2>. QED  BY <2>1, <2>2, <2>3 DEF Passing
<1>9. ResultsAreFinal'
  BY <1>1 DEF EvidenceInv, ResultsAreFinal
<1>. QED  BY <1>5, <1>6, <1>7, <1>8, <1>9 DEF EvidenceInv

\* A run is evaluated, and its result written; its sampler ended.
LEMMA EvaluatingStep ==
    ASSUME DeployInv, CleanupInv, EvidenceInv, Evaluate
    PROVE  EvidenceInv'
<1>1. /\ UNCHANGED <<partial, online, sampler, recorded, validation>>
      /\ main.at = "evaluate" /\ main \in MainThread /\ main.waits # "bootstrap"
  BY DEF Evaluate, phone, DeployInv, Typed, PlanHolds
<1>2. partial' \in Content /\ online' \in BOOLEAN
  BY <1>1 DEF EvidenceInv, Filed
<1>3. CASE Raise("error") /\ UNCHANGED <<folder, result>>
  BY <1>1, <1>2, <1>3, MovesBack
<1>4. ASSUME NEW output \in Outputs(main.run),
             folder' = [folder EXCEPT ![main.run].stdout = output],
             result' = [result EXCEPT ![main.run] = Verdict(main.run, output)],
             Goto("record")
      PROVE  EvidenceInv'
  <2>. DEFINE run == main.run
              logcat == folder[run].logcat
              code == process["test"].code
              verdict == Verdict(run, output)
  <2>1. run \in Run /\ run \notin recorded /\ sampler.at = "ended"
    BY <1>1 DEF EvidenceInv, InRun, Running
  <2>2. /\ main'.at = "record" /\ main'.run = run /\ main'.waits = main.waits
        /\ main'.status = main.status /\ main'.code = main.code
    BY <1>1, <1>4, GoesTo DEF Place
  <2>3. /\ verdict.status = AutomatedStatus(output, logcat, code, run, File \ {"model"})
        /\ verdict.exitCode = code /\ verdict.sampleCount = folder[run].samples
        /\ verdict.reports = Retained(output, logcat)
    BY DEF Verdict
  <2>. HIDE DEF verdict
  <2>4. /\ DOMAIN result = Run /\ DOMAIN result' = Run /\ result'[run] = verdict
        /\ \A r \in Run : r # run => result'[r] = result[r]
    BY <1>4, <2>1 DEF EvidenceInv, Filed, verdict
  <2>5. /\ folder' \in [Run -> [stdout : Lines, logcat : Lines, samples : 0 .. MaxSamples]]
        /\ folder'[run].stdout = output
        /\ \A r \in Run : /\ folder'[r].samples = folder[r].samples
                          /\ r # run => folder'[r] = folder[r]
    <3>1. output \in Lines
      BY <1>4, <2>1 DEF Lines
    <3>2. folder \in [Run -> [stdout : Lines, logcat : Lines, samples : 0 .. MaxSamples]]
      BY DEF EvidenceInv, Filed
    <3>. QED  BY <1>4, <2>1, <3>1, <3>2
  <2>. HIDE DEF run, logcat, code
  <2>6. Filed'
    BY <1>1, <1>2, <2>2, <2>4, <2>5 DEF EvidenceInv, Filed
  <2>7. InRun'
    BY <1>1, <2>1, <2>2, <2>4 DEF EvidenceInv, InRun, Evaluated
  <2>8. Sampled'
    BY <1>1, <2>1, <2>2 DEF Sampled
  <2>9. Passing'
    <3>1. main'.status # "passed" /\ validation'.status # "passed"
      BY <1>1, <2>2 DEF EvidenceInv, Passing
    <3>2. main'.code # 0
      BY <1>1, <2>2, CollectorAssumption DEF EvidenceInv, Filed
    <3>3. ASSUME NEW r \in Run, Evaluated(r)', result'[r].status = "passed"
          PROVE  Earns(r, folder'[r].stdout, result'[r].exitCode)
      <4>1. CASE r = run
        <5>1. AutomatedStatus(output, logcat, code, run, File \ {"model"}) = "passed"
          BY <2>3, <2>4, <3>3, <4>1
        <5>2. Earns(run, output, code)
          BY <1>4, <2>1, <5>1, PassIsEarned DEF run
        <5>. QED  BY <2>3, <2>4, <2>5, <4>1, <5>2
      <4>2. CASE r # run
        <5>1. Evaluated(r) /\ result[r].status = "passed"
          BY <1>1, <2>2, <2>4, <3>3, <4>2 DEF Evaluated
        <5>2. Earns(r, folder[r].stdout, result[r].exitCode)
          BY <5>1 DEF EvidenceInv, Passing
        <5>. QED  BY <2>4, <2>5, <4>2, <5>2
      <4>. QED  BY <4>1, <4>2
    <3>. QED  BY <3>1, <3>2, <3>3 DEF Passing
  <2>10. ResultsAreFinal'
    <3>. SUFFICES ASSUME NEW r \in Run, result'[r] # None
                  PROVE  /\ result'[r].sampleCount = folder'[r].samples
                         /\ parse_reports(folder'[r].stdout).reports
                              \subseteq result'[r].reports
      BY DEF ResultsAreFinal
    <3>1. CASE r = run
      BY <2>1, <2>3, <2>4, <2>5, <3>1 DEF Retained
    <3>2. CASE r # run
      BY <2>4, <2>5, <3>2 DEF EvidenceInv, ResultsAreFinal
    <3>. QED  BY <3>1, <3>2
  <2>. QED  BY <2>6, <2>7, <2>8, <2>9, <2>10 DEF EvidenceInv
<1>. QED  BY <1>3, <1>4 DEF Evaluate

\* Its result counts.
LEMMA RecordingStep ==
    ASSUME DeployInv, CleanupInv, EvidenceInv, Record
    PROVE  EvidenceInv'
<1>1. /\ UNCHANGED <<partial, online, sampler, folder, result>>
      /\ main.at = "record" /\ main \in MainThread /\ main.waits # "bootstrap"
      /\ recorded' = recorded \union {main.run}
  BY DEF Record, phone, DeployInv, Typed, PlanHolds
<1>2. main.run \in Run
  BY <1>1 DEF EvidenceInv, InRun, Running
<1>3. /\ main'.at \in {"next", "except"} /\ main'.run = main.run
      /\ main'.status = main.status /\ main'.code = main.code
      /\ validation' = validation \/ validation'.status = "running"
  <2>1. CASE Raise("error") /\ UNCHANGED validation
    <3>1. Handler = "except"
      BY <1>1 DEF Handler
    <3>. QED  BY <1>1, <2>1, <3>1, RaisesTo
  <2>2. CASE validation' = [status |-> "running", runs |-> recorded'] /\ Goto("next")
    BY <1>1, <2>2, GoesTo DEF Place
  <2>. QED  BY <2>1, <2>2 DEF Record
<1>4. Filed'
  BY <1>1, <1>2, <1>3 DEF EvidenceInv, Filed
<1>5. InRun'
  BY <1>1, <1>3 DEF EvidenceInv, InRun, Evaluated, Running
<1>6. Sampled'
  BY <1>1, <1>3 DEF EvidenceInv, Sampled
<1>7. Passing'
  <2>1. main'.status # "passed" /\ validation'.status # "passed"
    BY <1>1, <1>3 DEF EvidenceInv, Passing
  <2>2. main'.code # 0
    BY <1>1, <1>3, CollectorAssumption DEF EvidenceInv, Filed
  <2>3. ASSUME NEW r \in Run, Evaluated(r)', result'[r].status = "passed"
        PROVE  Earns(r, folder'[r].stdout, result'[r].exitCode)
    <3>1. Evaluated(r) /\ result[r].status = "passed"
      BY <1>1, <1>3, <2>3 DEF Evaluated
    <3>2. Earns(r, folder[r].stdout, result[r].exitCode)
      BY <3>1 DEF EvidenceInv, Passing
    <3>. QED  BY <1>1, <3>2
  <2>. QED  BY <2>1, <2>2, <2>3 DEF Passing
<1>8. ResultsAreFinal'
  BY <1>1 DEF EvidenceInv, ResultsAreFinal
<1>. QED  BY <1>4, <1>5, <1>6, <1>7, <1>8 DEF EvidenceInv

\* All runs are made, or an exception ended them.
LEMMA EndingStep ==
    ASSUME DeployInv, CleanupInv, EvidenceInv, Conclude \/ Blocked
    PROVE  EvidenceInv'
<1>1. /\ UNCHANGED <<partial, online, sampler, folder, result, recorded, validation>>
      /\ main.at \in {"next", "except"} /\ main \in MainThread
      /\ partial' \in Content /\ online' \in BOOLEAN /\ main.code = None
  BY DEF Conclude, Blocked, others, phone, evidence, DeployInv, Typed, EvidenceInv, Filed
<1>2. CASE Blocked
  <2>1. /\ main'.at = "final" /\ main'.run = main.run /\ main'.code = main.code
        /\ main'.status # "passed"
    BY <1>1, <1>2 DEF Blocked, MainThread
  <2>. QED  BY <1>1, <2>1, Moves DEF Running
<1>3. CASE Conclude
  <2>1. /\ main'.at = "final" /\ main'.run = main.run /\ main'.code = main.code
        /\ Run \subseteq recorded /\ main.at = "next"
        /\ main'.status = "passed" => \A run \in Run : result[run].status = "passed"
    BY <1>1, <1>3 DEF Conclude, MainThread
  <2>2. Filed'
    BY <1>1, <2>1 DEF EvidenceInv, Filed
  <2>3. InRun'
    BY <2>1 DEF InRun, Running
  <2>4. Sampled'
    BY <1>1, <2>1 DEF EvidenceInv, Sampled
  <2>5. Passing'
    <3>1. validation'.status # "passed"
      BY <1>1 DEF EvidenceInv, Passing
    <3>2. main'.code # 0
      BY <1>1, <2>1, CollectorAssumption
    <3>3. ASSUME NEW r \in Run, Evaluated(r)', result'[r].status = "passed"
          PROVE  Earns(r, folder'[r].stdout, result'[r].exitCode)
      <4>1. Evaluated(r) /\ result[r].status = "passed"
        BY <1>1, <2>1, <3>3 DEF Evaluated
      <4>2. Earns(r, folder[r].stdout, result[r].exitCode)
        BY <4>1 DEF EvidenceInv, Passing
      <4>. QED  BY <1>1, <4>2
    <3>. QED  BY <1>1, <2>1, <3>1, <3>2, <3>3 DEF Passing
  <2>6. ResultsAreFinal'
    BY <1>1 DEF EvidenceInv, ResultsAreFinal
  <2>. QED  BY <2>2, <2>3, <2>4, <2>5, <2>6 DEF EvidenceInv
<1>. QED  BY <1>2, <1>3

\* validation.json is written, and the exit code is chosen.
LEMMA FinishingStep ==
    ASSUME DeployInv, CleanupInv, EvidenceInv, Finish
    PROVE  EvidenceInv'
<1>1. /\ UNCHANGED <<partial, online, sampler, folder, result, recorded>>
      /\ main.at = "final" /\ main \in MainThread
      /\ partial' \in Content /\ online' \in BOOLEAN /\ main.code = None
  BY DEF Finish, phone, DeployInv, Typed, EvidenceInv, Filed
<1>2. CASE Raise("error") /\ validation' \in {validation, Torn}
  <2>1. Handler = "exited" /\ CodeOf("error") = 2
    BY <1>1 DEF Handler, CodeOf
  <2>2. /\ main'.at = "exited" /\ main'.run = main.run /\ main'.status = main.status
        /\ main'.code = 2
    BY <1>1, <1>2, <2>1, RaisesTo
  <2>3. validation' = validation \/ validation'.status # "passed"
    BY <1>2 DEF Torn
  <2>. QED  BY <1>1, <2>2, <2>3, Moves DEF Running
<1>3. CASE /\ validation' = [status |-> main.status, runs |-> recorded]
           /\ main' = [main EXCEPT !.at = "exited",
                          !.code = IF main.raised # "nothing" THEN CodeOf(main.raised)
                                   ELSE IF main.status = "passed" THEN 0 ELSE 1]
  <2>. DEFINE code == IF main.raised # "nothing" THEN CodeOf(main.raised)
                      ELSE IF main.status = "passed" THEN 0 ELSE 1
  <2>1. code \in {0, 1, 2, 130} /\ (code = 0 => main.status = "passed")
    BY <1>1 DEF CodeOf, MainThread
  <2>. HIDE DEF code
  <2>2. main'.at = "exited" /\ main'.status = main.status /\ main'.run = main.run
        /\ main'.code = code
    <3>1. main' = [main EXCEPT !.at = "exited", !.code = code]
      BY <1>3 DEF code
    <3>. QED  BY <1>1, <3>1 DEF MainThread
  <2>3. Filed'
    BY <1>1, <2>1, <2>2 DEF EvidenceInv, Filed
  <2>4. InRun'
    BY <2>2 DEF InRun, Running
  <2>5. Sampled'
    BY <1>1, <2>2 DEF EvidenceInv, Sampled
  <2>6. Passing'
    <3>1. main.status = "passed" =>
            Run \subseteq recorded /\ \A run \in Run : result[run].status = "passed"
      BY DEF EvidenceInv, Passing
    <3>2. recorded \subseteq Run
      BY DEF EvidenceInv, Filed
    <3>3. validation'.status = main.status /\ validation'.runs = recorded
      BY <1>3
    <3>4. validation'.status = "passed" => validation'.runs = Run
      BY <3>1, <3>2, <3>3
    <3>5. ASSUME NEW r \in Run, Evaluated(r)', result'[r].status = "passed"
          PROVE  Earns(r, folder'[r].stdout, result'[r].exitCode)
      <4>1. Evaluated(r) /\ result[r].status = "passed"
        BY <1>1, <2>2, <3>5 DEF Evaluated
      <4>2. Earns(r, folder[r].stdout, result[r].exitCode)
        BY <4>1 DEF EvidenceInv, Passing
      <4>. QED  BY <1>1, <4>2
    <3>. QED  BY <1>1, <2>1, <2>2, <3>1, <3>3, <3>4, <3>5 DEF Passing
  <2>7. ResultsAreFinal'
    BY <1>1 DEF EvidenceInv, ResultsAreFinal
  <2>. QED  BY <2>3, <2>4, <2>5, <2>6, <2>7 DEF EvidenceInv
<1>. QED  BY <1>2, <1>3 DEF Finish

\* The sampler writes a row, or ends: not for a run that has its result.
LEMMA SamplingStep ==
    ASSUME DeployInv, CleanupInv, EvidenceInv, Sample \/ SamplerFails
    PROVE  EvidenceInv'
<1>1. /\ UNCHANGED <<partial, online, main, result, recorded, validation>>
      /\ sampler.at \in {"top", "asked", "read", "wait"}
      /\ sampler \in [at : {"none", "top", "asked", "read", "wait", "ended"},
                      stopped : BOOLEAN]
      /\ folder \in [Run -> [stdout : Lines, logcat : Lines, samples : 0 .. MaxSamples]]
  BY DEF Sample, SamplerFails, phone, evidence, EvidenceInv, Filed
<1>2. main.run \in Run /\ result[main.run] = None /\ main.at \notin {"evaluate", "record"}
  BY <1>1 DEF EvidenceInv, Sampled, InRun
<1>3. /\ sampler' \in [at : {"none", "top", "asked", "read", "wait", "ended"},
                       stopped : BOOLEAN]
      /\ sampler'.at # "none"
  BY <1>1 DEF Sample, SamplerFails
<1>4. /\ folder' \in [Run -> [stdout : Lines, logcat : Lines, samples : 0 .. MaxSamples]]
      /\ \A r \in Run : /\ folder'[r].stdout = folder[r].stdout
                        /\ r # main.run => folder'[r] = folder[r]
  <2>1. CASE UNCHANGED folder
    BY <1>1, <2>1
  <2>2. CASE sampler.at = "read" /\ folder' = [folder EXCEPT ![main.run].samples = @ + 1]
    <3>1. folder[main.run].samples < MaxSamples /\ MaxSamples \in Nat
      BY <2>2, CollectorAssumption DEF EvidenceInv, Sampled
    <3>2. folder[main.run].samples + 1 \in 0 .. MaxSamples
      BY <1>1, <1>2, <3>1
    <3>. QED  BY <1>1, <1>2, <2>2, <3>2
  <2>. QED  BY <2>1, <2>2 DEF Sample, SamplerFails
<1>5. sampler'.at \in {"asked", "read"} => folder'[main.run].samples < MaxSamples
  BY <1>1 DEF Sample, SamplerFails, EvidenceInv, Sampled
<1>6. Filed'
  BY <1>1, <1>3, <1>4 DEF EvidenceInv, Filed
<1>7. InRun'
  BY <1>1, <1>2 DEF EvidenceInv, InRun, Evaluated
<1>8. Sampled'
  BY <1>1, <1>2, <1>3, <1>5 DEF Sampled
<1>9. Passing'
  <2>1. ASSUME NEW r \in Run, Evaluated(r)', result'[r].status = "passed"
        PROVE  Earns(r, folder'[r].stdout, result'[r].exitCode)
    <3>1. Evaluated(r) /\ result[r].status = "passed"
      BY <1>1, <2>1 DEF Evaluated
    <3>2. Earns(r, folder[r].stdout, result[r].exitCode)
      BY <3>1 DEF EvidenceInv, Passing
    <3>. QED  BY <1>1, <1>4, <3>2
  <2>. QED  BY <1>1, <2>1 DEF EvidenceInv, Passing
<1>10. ResultsAreFinal'
  BY <1>1, <1>2, <1>4 DEF EvidenceInv, ResultsAreFinal
<1>. QED  BY <1>6, <1>7, <1>8, <1>9, <1>10 DEF EvidenceInv

\* What else goes on around the collector.
LEMMA AroundStep ==
    ASSUME DeployInv, CleanupInv, EvidenceInv,
           \/ Disconnect \/ \E f \in File : EditHost(f)
           \/ \E p \in {"bootstrap", "test", "logcat"} : ProcessEnds(p)
    PROVE  EvidenceInv'
<1>1. /\ UNCHANGED <<main, sampler, folder, result, recorded, validation, partial>>
      /\ online' = online \/ online' = FALSE
  BY DEF Disconnect, EditHost, ProcessEnds, phone, evidence
<1>. QED  BY <1>1, Rests DEF EvidenceInv, Filed

\* An interrupt may come while validation.json is written.
LEMMA InterruptingStep ==
    ASSUME DeployInv, CleanupInv, EvidenceInv, Interrupt
    PROVE  EvidenceInv'
<1>1. /\ UNCHANGED <<partial, online, sampler, folder, result, recorded>>
      /\ main.at \notin {"exited", "killed"} /\ main \in MainThread
      /\ partial' \in Content /\ online' \in BOOLEAN /\ main.code = None
  BY DEF Interrupt, Ended, phone, DeployInv, Typed, EvidenceInv, Filed
<1>2. /\ main'.at = Handler /\ main'.run = main.run /\ main'.status = main.status
      /\ main'.waits = main.waits
      /\ main'.code = IF Handler = "exited" THEN 130 ELSE main.code
  BY <1>1 DEF Interrupt, MainThread
<1>3. validation' = validation \/ validation'.status # "passed"
  BY DEF Interrupt, Torn
<1>4. /\ Handler \in {"remove", "stop", "signal", "exited", "except"}
      /\ Handler \in {"stop", "signal"} => main.at \in Running
      /\ main.at \in {"record", "except"} => Handler = "except"
      /\ main.at = "final" => Handler = "exited"
  BY DEF Handler, Running
<1>. QED  BY <1>1, <1>2, <1>3, <1>4, Moves DEF Running

\* A new attempt knows nothing of the last.
LEMMA BeginningAnew ==
    ASSUME NEW place \in {"plan", "killed"}, New(place)
    PROVE  EvidenceInv'
<1>1. /\ main'.at = place /\ main'.waits = "bootstrap" /\ main'.status = "running"
      /\ main'.code = None
      /\ sampler' = NoSampler /\ folder' = [r \in Run |-> Empty]
      /\ result' = [r \in Run |-> None] /\ recorded' = {}
      /\ validation'.status = "none" /\ partial' = None /\ online' = TRUE
  BY DEF New, Start
<1>2. Empty \in [stdout : Lines, logcat : Lines, samples : 0 .. MaxSamples]
  BY CollectorAssumption DEF Empty, Lines
<1>3. Filed'
  BY <1>1, <1>2 DEF Filed, NoSampler, Content
<1>4. InRun' /\ Sampled' /\ Passing'
  BY <1>1, CollectorAssumption DEF InRun, Sampled, Passing, NoSampler, Evaluated
<1>5. ResultsAreFinal'
  BY <1>1 DEF ResultsAreFinal
<1>. QED  BY <1>3, <1>4, <1>5 DEF EvidenceInv

LEMMA InitFiled == Init => EvidenceInv
<1>. SUFFICES ASSUME Init PROVE EvidenceInv
  OBVIOUS
<1>1. /\ main.at = "plan" /\ main.waits = "bootstrap" /\ main.status = "running"
      /\ main.code = None
      /\ sampler = NoSampler /\ folder = [r \in Run |-> Empty]
      /\ result = [r \in Run |-> None] /\ recorded = {}
      /\ validation.status = "none" /\ partial = None /\ online = TRUE
  BY DEF Init, Start
<1>2. Empty \in [stdout : Lines, logcat : Lines, samples : 0 .. MaxSamples]
  BY CollectorAssumption DEF Empty, Lines
<1>3. Filed
  BY <1>1, <1>2 DEF Filed, NoSampler, Content
<1>4. InRun /\ Sampled /\ Passing
  BY <1>1, CollectorAssumption DEF InRun, Sampled, Passing, NoSampler, Evaluated
<1>5. ResultsAreFinal
  BY <1>1 DEF ResultsAreFinal
<1>. QED  BY <1>3, <1>4, <1>5 DEF EvidenceInv

LEMMA NextFiled == DeployInv /\ CleanupInv /\ EvidenceInv /\ [Next]_vars => EvidenceInv'
<1>. SUFFICES ASSUME DeployInv, CleanupInv, EvidenceInv, [Next]_vars PROVE EvidenceInv'
  OBVIOUS
<1>1. CASE UNCHANGED vars
  <2>1. /\ UNCHANGED <<main, sampler, folder, result, recorded, validation>>
        /\ partial' \in Content /\ online' \in BOOLEAN
    BY <1>1 DEF vars, EvidenceInv, Filed
  <2>. QED  BY <2>1, Rests
<1>2. CASE Main
  BY <1>2, BeforeStep, WaitingStep, StoppingStep, BeginningStep, SamplerStep,
     EvaluatingStep, RecordingStep, EndingStep, FinishingStep DEF Main
<1>3. CASE Crash \/ Again
  BY <1>3, BeginningAnew DEF Crash, Again
<1>. QED
  BY <1>1, <1>2, <1>3, SamplingStep, AroundStep, InterruptingStep DEF Next

-----------------------------------------------------------------------------

LEMMA EvidenceInvariant == Spec => [](DeployInv /\ EvidenceInv)
BY InitInv, InitHeld, InitFiled, NextInv, NextHeld, NextFiled, PTL DEF Spec

\* Nothing about the collector's state or evidence goes astray: the sampler, which
\* runs beside the main thread, writes no row after a run's rows were counted
\* (memory_worker, run_logged), and no report that was evaluated is missing from
\* result.json (execute), whatever fails and whenever it is interrupted.
THEOREM EvidenceIsConsistent == Spec => []Consistent
<1>1. DeployInv /\ EvidenceInv => Consistent
  <2>. SUFFICES ASSUME DeployInv, EvidenceInv PROVE ValidateTypeOK
    BY DEF Consistent, EvidenceInv
  <2>1. DOMAIN process = {"bootstrap", "test", "logcat"}
        /\ \A p \in {"bootstrap", "test", "logcat"} :
             process[p].state \in {"none", "running", "killed", "ended"}
    BY DEF DeployInv, Typed, Process
  <2>2. main.file \in File /\ main.done \subseteq File /\ main.run \in Run \union {None}
    BY DEF DeployInv, Typed, MainThread
  <2>3. sampler.stopped \in BOOLEAN /\ \A r \in Run : folder[r].samples \in 0 .. MaxSamples
    BY DEF EvidenceInv, Filed
  <2>. QED  BY <2>1, <2>2, <2>3 DEF ValidateTypeOK, DeployInv, Typed, EvidenceInv, Filed
<1>. QED  BY <1>1, EvidenceInvariant, PTL

\* validation.json says passed, and the collector exits with 0 (execute, main), only
\* if every requested run was made in this attempt and every one passed on its own
\* output (evaluate_run): where the native test prints all its reports, or all but for
\* one flaw (Outputs), and logcat shows an older last report, no broken, failed,
\* missing or older one passes, for any runs, failures, interrupts and restarts.
THEOREM PassesAreEarned == Spec => []PassedIsEarned
<1>1. EvidenceInv => PassedIsEarned
  <2>. SUFFICES ASSUME EvidenceInv, validation.status = "passed" \/ main.code = 0
                PROVE  /\ validation.status = "passed" /\ validation.runs = Run
                       /\ \A r \in Run : Earned(r)
    BY DEF PassedIsEarned
  <2>1. /\ validation.status = "passed" /\ validation.runs = Run
        /\ Run \subseteq recorded /\ \A r \in Run : result[r].status = "passed"
    BY DEF EvidenceInv, Passing
  <2>2. ASSUME NEW r \in Run PROVE Earned(r)
    <3>1. Earns(r, folder[r].stdout, result[r].exitCode)
      BY <2>1 DEF EvidenceInv, Passing, Evaluated
    <3>. QED  BY <3>1 DEF Earned, Earns, Judged, Wished
  <2>. QED  BY <2>1, <2>2
<1>. QED  BY <1>1, EvidenceInvariant, PTL
=============================================================================
