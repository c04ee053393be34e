-------------------------------- MODULE Gates --------------------------------
(***************************************************************************)
(* How the quality and the security gate (factory/gates/) turn what comes  *)
(* of running tools in the sandbox (factory/sandbox/), or a reviewing      *)
(* agent, into a check result, and check results into a verdict.           *)
(***************************************************************************)

\* Decided by the exit status: the profiles' lint and test commands, ...
ExitChecks == {"lint", "tests", "actionlint", "npm-audit"}

\* ... by the JSON on stdout, ...
JsonChecks == {"bandit", "sast", "pip-audit"}

\* ... by a report file, or by the answer of an agent.
OtherChecks == {"gitleaks", "coverage", "llm_review"}

Checks == ExitChecks \cup JsonChecks \cup OtherChecks

\* The tool runs a check consists of, in a project with the detected
\* language profiles: lint and tests run once for every profile.
Needs(check, detected) ==
    CASE check \in {"lint", "tests"} -> detected
      [] check \in {"bandit", "pip-audit", "coverage"} -> detected \cap {"python"}
      [] check = "npm-audit" -> detected \cap {"node"}
      [] OTHER -> {"project"}
-----------------------------------------------------------------------------
(* The sandbox. *)

\* SandboxExecutor.__init__ (which refuses "docker" without its daemon).
SandboxMode(configured, dockerAnswers) ==
    IF configured = "docker" \/ (configured = "auto" /\ dockerAnswers)
      THEN "docker" ELSE "subprocess"

\* A tool is ready, not installed (in the image, or on the PATH), or not on
\* the allowlist, which docker does not ask for.
Tools == {"ready", "missing", "forbidden"}

\* What comes of running a tool: SandboxError, so it did not start; or it
\* ended, well or not (timed out), and its output is missing, unusable, or
\* tells that there are findings or that there are none.
NotStarted == [started |-> FALSE, ok |-> FALSE, says |-> "nothing"]
Ended == [started : {TRUE}, ok : BOOLEAN, says : {"nothing", "garbage", "clean", "findings"}]

Exec(mode, tool) ==
    CASE mode = "subprocess" /\ tool # "ready" -> {NotStarted}
      [] mode = "docker" /\ tool = "missing" ->   \* exit status 127
           {[started |-> TRUE, ok |-> FALSE, says |-> "nothing"]}
      [] OTHER -> Ended

\* What may come of a run of the check with the tool as it is.  It may not even
\* start: the check finds nothing to look at (no rules, requirements, workflow,
\* diff), or the gate's worktree is gone, which another process removes when it
\* starts up and finds it unregistered (SandboxExecutor.run refuses the cwd).
Runs(mode, tool) == Exec(mode, tool) \cup {NotStarted}
-----------------------------------------------------------------------------
(* Check results: CheckResult, with its passed and skipped flags. *)

\* extract_json, or a report file, gives something to judge.
Usable(run) == run.says \notin {"nothing", "garbage"}

PassIf(condition) == IF condition THEN "pass" ELSE "fail"

JudgeExit(run) == PassIf(run.ok)
JudgeJson(run) ==                                           \* stdout or "{}"
    IF run.says = "garbage" THEN "skip" ELSE PassIf(run.says # "findings")
JudgeGitleaks(run) == PassIf(run.says # "findings")         \* no report: no finding
JudgeAnswer(run) ==
    IF run.ok /\ Usable(run) THEN PassIf(run.says = "clean") ELSE "skip"

JudgeRun(check, run) ==
    CASE ~run.started -> "skip"
      [] run.started /\ check \in ExitChecks -> JudgeExit(run)
      [] run.started /\ check \in JsonChecks -> JudgeJson(run)
      [] run.started /\ check = "gitleaks" -> JudgeGitleaks(run)
      [] run.started /\ check \in {"coverage", "llm_review"} -> JudgeAnswer(run)

\* A check fails if one of its runs does, and is skipped if all are (or if it
\* has none).
Judge(check, runs) ==
    LET results == {JudgeRun(check, runs[r]) : r \in DOMAIN runs}
    IN  IF results \subseteq {"skip"} THEN "skip" ELSE PassIf("fail" \notin results)

\* GateReport.passed.
Passed(report) == \A c \in DOMAIN report : report[c] \in {"pass", "skip"}
=============================================================================
