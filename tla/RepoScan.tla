------------------------------ MODULE RepoScan -------------------------------
(***************************************************************************)
(* One of semgrep, gitleaks and osv-scanner: the repository is cloned into *)
(* a temporary directory, with a second one for the script that hands git  *)
(* the token; a tool is run over the clone in a container; and the         *)
(* directories go whichever way that ends, unless the worker dies          *)
(* (apps/worker/src/checks/github: sast-runner.ts and its three callers).  *)
(***************************************************************************)
EXTENDS CheckRegistry

VARIABLES tool,
          repoStep,      \* "start", "aux", "clone", "tool", "cleanup" or "done"
          token,         \* whether the worker has a token for GitHub
          dirs,          \* directories on disk that this job has made, "clone" and "askpass"
          abandoned,     \* those a worker that died has left
          toolSaw,       \* what came of the tool
          repoRows

repoVars == <<tool, repoStep, token, dirs, abandoned, toolSaw, repoRows>>

\* What a run of the tool leaves to be read: nothing, when it cannot be started or takes too long.
\* A number as exit code counts as a run, whatever it printed.
ToolRuns == {"report", "exit code without report", "not run"}

RepoInit == /\ tool \in Tools /\ token \in BOOLEAN
            /\ repoStep = "start" /\ dirs = {} /\ abandoned = {} /\ toolSaw = "nothing yet" /\ repoRows = {}

JudgeTool(sees, F) == CASE tool = "semgrep"  -> SemgrepCheck(sees, F)
                        [] tool = "gitleaks" -> GitleaksCheck(sees, F)
                        [] OTHER             -> OsvScannerCheck(sees, F)

\* No usable address or no room in the limit ends the check; so does a directory that cannot be made.
StartTool ==
    /\ repoStep = "start"
    /\ \/ \E why \in {"no repository", "not cloned"} : repoRows' = JudgeTool(why, {})
          /\ repoStep' = "done" /\ UNCHANGED dirs
       \/ dirs' = {"clone"} /\ UNCHANGED repoRows
          /\ repoStep' = IF token THEN "aux" ELSE "clone"
    /\ UNCHANGED <<tool, token, abandoned, toolSaw>>

\* What the error path of cloneRepo removes.
RemovedOnError == {"clone", "askpass"}

CloneFails ==
    /\ repoStep \in {"aux", "clone"}
    /\ \/ dirs' = dirs \ RemovedOnError
       \/ repoStep = "aux" /\ dirs' = (dirs \union {"askpass"}) \ RemovedOnError   \* the script cannot be written
    /\ repoRows' = JudgeTool("not cloned", {})
    /\ repoStep' = "done"
    /\ UNCHANGED <<tool, token, abandoned, toolSaw>>

WriteAskpass ==
    /\ repoStep = "aux"
    /\ dirs' = dirs \union {"askpass"} /\ repoStep' = "clone"
    /\ UNCHANGED <<tool, token, abandoned, toolSaw, repoRows>>

CloneRepo ==
    /\ repoStep = "clone" /\ repoStep' = "tool"
    /\ UNCHANGED <<tool, token, dirs, abandoned, toolSaw, repoRows>>

\* runSastTool
RunTool ==
    /\ repoStep = "tool"
    /\ toolSaw' \in ToolRuns
    /\ \E F \in (IF toolSaw' = "report" THEN ToolFacts(tool) ELSE {{}}) :
         repoRows' = JudgeTool(IF toolSaw' = "not run" THEN "tool failed" ELSE "ok", F)
    /\ repoStep' = "cleanup"
    /\ UNCHANGED <<tool, token, dirs, abandoned>>

\* finally: removing a directory is taken to work, its error is dropped.
Cleanup ==
    /\ repoStep = "cleanup"
    /\ dirs' = dirs \ {"clone", "askpass"} /\ repoStep' = "done"
    /\ UNCHANGED <<tool, token, abandoned, toolSaw, repoRows>>

\* The worker dies; the job is done again by another, with directories of its own.
WorkerDies ==
    /\ repoStep \notin {"start", "done"}
    /\ abandoned' = abandoned \union dirs
    /\ dirs' = {} /\ repoStep' = "start" /\ toolSaw' = "nothing yet" /\ repoRows' = {}
    /\ UNCHANGED <<tool, token>>

RepoNext == \/ StartTool \/ CloneFails \/ WriteAskpass \/ CloneRepo \/ RunTool \/ Cleanup \/ WorkerDies

\* The clone and the script with the token are gone once the check is over.
NothingLeftOnDisk == repoStep = "done" => dirs = {}

\* A tool that did not run, or a repository that was not read, never passes.
ToolPassesOnRun == \A r \in repoRows : r.status = "pass" => toolSaw # "not run" /\ toolSaw # "nothing yet"
=============================================================================
