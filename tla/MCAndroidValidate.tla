-------------------------- MODULE MCAndroidValidate --------------------------
(* AndroidValidate for TLC: the runs, and what the native test reports.    *)
EXTENDS AndroidValidate

OneRun  == {[backend |-> "cpu", context |-> 100]}
\* The other run comes second.
TwoRuns == OneRun \union {[backend |-> "gpu", context |-> 100]}

LastRun == TwoRuns \ OneRun

CONSTANTS v1, v2

\* The model may be another file, or change while it is uploaded.
Contents == [f \in {"model", "image"} |-> IF f = "model" THEN {v1, v2} ELSE {v1}]

At(scenario, phase, position) ==
    [scenario |-> scenario, phase |-> phase, position |-> position]

\* native_model_test.dart with a position for each phase, and an image.
Reports ==
    <<At("retrieval", "cold_engine", 5),
      At("cancel_prefill", "cold_engine", NoPosition),
      At("cancel_decode", "cold_engine", NoPosition),
      At("multi_turn_full", "cold_engine", NoPosition),
      At("image", NoPhase, NoPosition),
      At("summary", NoPhase, NoPosition)>>
=============================================================================
