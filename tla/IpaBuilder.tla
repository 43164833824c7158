------------------------------ MODULE IpaBuilder ------------------------------
(* The build of the Windows IPA builder (ipa_builder.c).  The window's thread  *)
(* starts a worker, which starts the build process suspended, assigns it to a  *)
(* job object, and looks for a cancellation before it lets it run.  A message  *)
(* box dispatches posted messages and keeps the user away from the window.     *)
(* Windows is external; the process may hang.                                  *)
EXTENDS Naturals, Sequences, SequencesExt
CONSTANT Outputs        \* paths an .ipa may be saved to
VARIABLES boxes,        \* the message boxes that are open, innermost last
          form,         \* the output, approved_overwrite, and the files that exist
          state,        \* running, aborted, cancel_requested, ui_state, active_job
          worker,       \* where run_build is
          process,      \* the build process
          job,          \* of the build: overwrite_output; ghost: the user agreed
          consent,      \* ghost: what the user agreed to replace in the next build
          scratch       \* the private workspace: "none", "used" or "retained"
builder == <<boxes, form, state, worker, process, job, consent, scratch>>
-----------------------------------------------------------------------------
NoPath == "no path"
NoProcess == [life |-> "none", inJob |-> FALSE, code |-> 1]
Init ==
    /\ boxes = <<>> /\ worker = "none" /\ process = NoProcess
    /\ \E files \in SUBSET Outputs : form = [output |-> NoPath, approved |-> NoPath, files |-> files]
    /\ state = [running |-> FALSE, aborted |-> FALSE, cancel_requested |-> FALSE,
                ui_state |-> "idle", active_job |-> "none"]
    /\ job = [overwrite |-> FALSE, agreed |-> FALSE] /\ consent = NoPath /\ scratch = "none"

-----------------------------------------------------------------------------
(* The window's thread.  What is disabled during a build is not offered. *)
Idle == boxes = <<>> /\ ~state.running

\* pick_into the destination: the dialog asks before an existing file is chosen.
pick_into(p) ==
    /\ Idle
    /\ form' = [form EXCEPT !.output = p, !.approved = IF p \in form.files THEN p ELSE NoPath]
    /\ consent' = IF p \in form.files THEN p ELSE NoPath
    /\ UNCHANGED <<boxes, state, worker, process, job, scratch>>

\* The end of start_build: set up, or given up without a workspace.
SetUp(overwrite, agreed) ==
    /\ \/ /\ state' = [running |-> TRUE, aborted |-> FALSE, cancel_requested |-> FALSE,
                       ui_state |-> "busy", active_job |-> "open"]
          /\ job' = [overwrite |-> overwrite, agreed |-> agreed]
          /\ worker' = "start" /\ process' = NoProcess /\ scratch' = "used"
       \/ UNCHANGED <<state, job, worker, process, scratch>>
       \/ state' = [state EXCEPT !.ui_state = "failed", !.aborted = FALSE, !.cancel_requested = FALSE]
          /\ scratch' = "none" /\ UNCHANGED <<job, worker, process>>

Consume == [form EXCEPT !.approved = NoPath]

\* start_build: an existing output is replaced only when the user agrees.
start_build ==
    LET exists == form.output \in form.files
    IN  /\ Idle /\ form.output # NoPath
        /\ IF exists /\ form.approved # form.output
           THEN boxes' = <<"overwrite">> /\ UNCHANGED <<form, state, worker, process, job, consent, scratch>>
           ELSE /\ SetUp(exists, consent = form.output)
                /\ form' = Consume /\ consent' = NoPath /\ UNCHANGED boxes
AnswerOverwrite(yes) ==
    /\ boxes = <<"overwrite">> /\ boxes' = <<>>
    /\ IF yes THEN SetUp(TRUE, TRUE) /\ form' = Consume /\ consent' = NoPath
       ELSE UNCHANGED <<form, state, worker, process, job, consent, scratch>>

\* stop_build, from the button or from closing the window; the question may
\* outlast the build.
stop_build ==
    /\ boxes = <<>> /\ state.running
    /\ boxes' = <<"cancel">>
    /\ UNCHANGED <<form, state, worker, process, job, consent, scratch>>
Requested == [state EXCEPT !.aborted = TRUE, !.cancel_requested = TRUE, !.ui_state = "busy"]
\* A mutation: the build is not looked at again after the question.
AnswerCancel_Unchecked(yes) ==
    /\ boxes = <<"cancel">>
    /\ IF yes THEN boxes' = <<"terminate">> /\ state' = Requested ELSE boxes' = <<>> /\ UNCHANGED state
    /\ UNCHANGED <<form, worker, process, job, consent, scratch>>
AnswerCancel(yes) ==
    /\ boxes = <<"cancel">>
    /\ IF yes /\ state.running /\ state.active_job = "open"
       THEN boxes' = <<"terminate">> /\ state' = Requested
       ELSE boxes' = <<>> /\ UNCHANGED state
    /\ UNCHANGED <<form, worker, process, job, consent, scratch>>
Dead(p) == [p EXCEPT !.life = "dead", !.code = 1]
Alive == process.life \in {"suspended", "running"}
\* TerminateJobObject: what is in the job now.
Terminate ==
    /\ boxes = <<"terminate">> /\ boxes' = <<>>
    /\ process' = IF Alive /\ process.inJob THEN Dead(process) ELSE process
    /\ UNCHANGED <<form, state, worker, job, consent, scratch>>

\* finish_build: WM_BUILD_DONE, also dispatched by an open message box.
finish_build ==
    LET completed == process.code = 0 /\ form.output \in form.files
    IN  /\ worker = "done" /\ boxes # <<"terminate">>
        /\ worker' = "none"
        /\ state' = [state EXCEPT !.running = FALSE, !.active_job = "none",
                        !.ui_state = IF completed THEN "ok" ELSE IF state.aborted THEN "stopped" ELSE "failed"]
        /\ boxes' = IF completed THEN Append(boxes, "done") ELSE boxes
        /\ UNCHANGED <<form, process, job, consent, scratch>>
CloseNotice ==
    /\ boxes # <<>> /\ Last(boxes) = "done" /\ boxes' = Front(boxes)
    /\ UNCHANGED <<form, state, worker, process, job, consent, scratch>>
-----------------------------------------------------------------------------
(* run_build on the worker, and the process. *)
Worker(at, next) == worker = at /\ worker' = next /\ UNCHANGED <<boxes, form, state, job, consent>>

Create ==
    \/ Worker("start", "ending") /\ UNCHANGED <<process, scratch>>
    \/ /\ Worker("start", "assign")
       /\ process' = [process EXCEPT !.life = "suspended"] /\ UNCHANGED scratch
Assign ==
    /\ Worker("assign", "check")
    /\ \E assigned \in BOOLEAN : process' = [process EXCEPT !.inJob = assigned]
    /\ UNCHANGED scratch
Resumed(p) == [p EXCEPT !.life = IF @ = "suspended" THEN "running" ELSE @]
\* A mutation: a cancellation from before the assignment is not looked for.
Check_Blind ==
    /\ Worker("check", "read")
    /\ process' = IF ~process.inJob THEN Dead(process) ELSE Resumed(process)
    /\ UNCHANGED scratch
\* "A cancel that arrived before assignment could not reach the process."
Check ==
    /\ Worker("check", "read")
    /\ process' = IF ~process.inJob \/ state.cancel_requested THEN Dead(process) ELSE Resumed(process)
    /\ UNCHANGED scratch
\* The log is read until the process ends.
Read == Worker("read", "ending") /\ process.life = "dead" /\ UNCHANGED <<process, scratch>>
\* A workspace that cannot be removed stays.
CleanUp ==
    /\ Worker("ending", "done")
    /\ scratch' \in IF process.code = 0 \/ state.cancel_requested THEN {"none", "retained"} ELSE {"retained"}
    /\ UNCHANGED process
\* The process replaces a file only when it was told to.
ProcessEnds(code) ==
    /\ process.life = "running"
    /\ code = 0 => job.overwrite \/ form.output \notin form.files
    /\ process' = [process EXCEPT !.life = "dead", !.code = code]
    /\ form' = IF code = 0 THEN [form EXCEPT !.files = @ \cup {form.output}] ELSE form
    /\ UNCHANGED <<boxes, state, worker, job, consent, scratch>>

WorkerStep == Create \/ Assign \/ Check \/ Read \/ CleanUp
User ==
    \/ \E p \in Outputs : pick_into(p)
    \/ start_build \/ stop_build \/ CloseNotice
    \/ \E yes \in BOOLEAN : AnswerOverwrite(yes) \/ AnswerCancel(yes)
Next == User \/ Terminate \/ finish_build \/ WorkerStep \/ \E code \in {0, 1} : ProcessEnds(code)
Spec == Init /\ [][Next]_builder

(* The worker runs, TerminateJobObject returns, and the message loop, which   *)
(* takes posted messages before input, comes round to the end of the build.   *)
Fairness == WF_builder(WorkerStep) /\ WF_builder(Terminate) /\ SF_builder(finish_build)
-----------------------------------------------------------------------------
(* What the window shows and offers is what is going on: it is busy exactly    *)
(* while a build runs and its job object is open, also when the build ends     *)
(* under the question whether to stop it; and a build replaces a file only     *)
(* when the user agreed to it for this build.                                  *)
WindowTellsTheTruth ==
    /\ state.ui_state = "busy" <=> state.running
    /\ state.running <=> state.active_job = "open"
    /\ job.overwrite => job.agreed

(* A build that the user stopped ends, wherever the worker was and even when   *)
(* the build process hangs.  Fairness: the worker runs, and the window's       *)
(* message loop, which takes posted messages before input.                     *)
CancelEndsTheBuild == (state.running /\ state.aborted) ~> ~state.running
=============================================================================
