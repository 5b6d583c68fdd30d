------------------------------ MODULE QaRunner ------------------------------
(***************************************************************************)
(* The QA command line tool (scripts/jorqeth-qa.mjs).  One invocation, a   *)
(* run, works through the checks of its command one after the other, adds  *)
(* up their verdicts, writes three artifacts and exits.                    *)
(*                                                                         *)
(* A check looks at the repository, asks the deployment, or runs a shell   *)
(* command.  A command is a child process that may leave descendants       *)
(* behind; a timer kills the shell, and the check ends when the pipes are  *)
(* closed.  Nothing keeps two runs from working in one checkout, and a run *)
(* may be killed at any point.                                             *)
(*                                                                         *)
(* What a check finds in files and answers is left open; what is modelled  *)
(* is the verdict it may give.  The report is its tally.                   *)
(***************************************************************************)
EXTENDS Naturals, Sequences, SequencesExt

CONSTANTS
    MaxRuns,     \* how many invocations
    Commands,    \* what a user may type
    Toolsets,    \* the sets of tools that may be installed
    Pages,       \* the entries of ROUTES and STATIC_ASSETS, in order
    SiteStates   \* subset of Sites: how the deployment may be

Tools == {"git", "npm", "next", "tsc", "forge", "go", "playwright"}

Sites == {"current",   \* every page is served, with its marker
          "outdated",  \* pages are served, with text that was replaced since
          "broken",    \* error pages
          "down"}      \* no answer

\* Invocations, numbered in the order they start in.
Runs == 1 .. MaxRuns

NoRun == 0

ASSUME RunAssumption  == MaxRuns \in Nat \ {0}
ASSUME ToolAssumption == Toolsets \subseteq SUBSET Tools
ASSUME SiteAssumption == SiteStates \subseteq Sites

\* A page is a check of its own, "route-..." or "asset-..."; the others that ask the
\* deployment have other names.
ASSUME PageAssumption ==
    /\ Pages \in Seq(STRING)
    /\ ToSet(Pages) \cap {"security-headers", "copy-drift",
                          "fce-health", "invalid-instruction"} = {}

VARIABLES
    tools,   \* what is installed on this machine
    site,    \* the deployment
    run,     \* the runs
    child,   \* the shell command of each run
    files    \* artifacts/qa: which run each artifact is of

vars == <<tools, site, run, child, files>>

-----------------------------------------------------------------------------
(* What each command checks.                                               *)

Doctor == <<"required-files", "runtime", "dependencies", "toolchains", "browser-harness">>
Config == <<"env-template", "local-runtime", "secret-scan">>
Source == <<"route-drift", "primary-copy", "fallback-description">>
Tests  == <<"web-unit", "site-typecheck", "site-build">>
FullTests == <<"forge-format", "forge-build", "forge-tests", "go-fce", "go-signer",
               "browser-replay">>
Live   == Pages \o <<"security-headers", "copy-drift">>
Api    == <<"fce-health", "invalid-instruction">>
Proof  == <<"static-consistency", "coston2-receipts">>
Flow   == <<"primary-signed-out">>

Qa(tests) == Config \o Source \o tests \o Live \o Api \o Flow \o Proof

Plan(command) ==
    CASE command = "doctor" -> Doctor
      [] command = "config" -> Config
      [] command = "test" -> Tests
      [] command = "test --full" -> Tests \o FullTests
      [] command = "health" -> Live \o Api
      [] command = "deploy check" -> Live \o Api \o Proof
      [] command = "flow run primary" -> Flow \o Api
      [] command = "flow run other" -> <<"unsupported">>
      [] command = "qa" -> Qa(Tests)
      [] command = "qa --full" -> Qa(Tests \o FullTests)

Reporting == {"doctor", "config", "test", "test --full", "health", "deploy check",
              "flow run primary", "flow run other", "qa", "qa --full"}

Shell == ToSet(Tests \o FullTests)
Asked == ToSet(Live \o Api \o Flow) \cup {"coston2-receipts"}

\* What has to be there before the command of a check is tried.
Needs(id) ==
    CASE id = "site-typecheck" -> {"tsc"}
      [] id = "site-build" -> {"next"}
      [] id \in {"forge-format", "forge-build", "forge-tests"} -> {"forge"}
      [] id \in {"go-fce", "go-signer"} -> {"go"}
      [] id = "browser-replay" -> {"npm", "playwright"}
      [] id = "secret-scan" -> {"git"}
      [] OTHER -> {}

-----------------------------------------------------------------------------
(* State.                                                                  *)

Statuses == {"PASS", "FAIL", "WARN", "SKIP"}

NoVerdicts == [status \in Statuses |-> 0]

\* `alone` is history: no other run was under way at the same time.
Run == [command : Commands \cup {"none"},
        at : {"new", "check", "command", "summary", "markdown", "junit", "exited", "killed"},
        tally : [Statuses -> Nat], code : {0, 1, 2}, alone : BOOLEAN]

NoChild == [shell |-> "none", code |-> 0, held |-> FALSE, timedOut |-> FALSE,
            notFound |-> FALSE]

\* held says that a process holds the pipes, the shell or one it started.
Child == [shell : {"none", "running", "terminated", "ended"}, code : {0, 1, 127},
          held : BOOLEAN, timedOut : BOOLEAN, notFound : BOOLEAN]

Artifacts == {"summary", "markdown", "junit"}

QaTypeOK ==
    /\ tools \in Toolsets
    /\ site \in SiteStates
    /\ run \in [Runs -> Run]
    /\ child \in [Runs -> Child]
    /\ files \in [Artifacts -> Runs \cup {NoRun}]

Init ==
    /\ tools \in Toolsets
    /\ site \in SiteStates
    /\ run = [r \in Runs |-> [command |-> "none", at |-> "new", tally |-> NoVerdicts,
                              code |-> 0, alone |-> TRUE]]
    /\ child = [r \in Runs |-> NoChild]
    /\ files = [f \in Artifacts |-> NoRun]

Active(r) == run[r].at \notin {"new", "exited", "killed"}

Done(r) == LET t == run[r].tally IN t["PASS"] + t["FAIL"] + t["WARN"] + t["SKIP"]

\* The check a run is at.
Current(r) == Plan(run[r].command)[Done(r) + 1]

\* A run is between two checks, or in front of the first one.
Checking(r) == run[r].at = "check" /\ Done(r) < Len(Plan(run[r].command))

-----------------------------------------------------------------------------
(* Slips, each excluded by a property.                                     *)

ClosesOn_Exit(r) == child[r].shell = "ended"

KillFires_TermAgain(r) ==
    /\ run[r].at = "command" /\ child[r].shell = "terminated"
    /\ child' = [child EXCEPT ![r].timedOut = TRUE]
    /\ UNCHANGED <<tools, site, run, files>>

\* The code that a shell would give to a process that died of SIGKILL.
KillFires_ShellCode(r) ==
    /\ run[r].at = "command" /\ child[r].shell = "terminated"
    /\ child' = [child EXCEPT ![r].shell = "ended", ![r].code = 137]
    /\ UNCHANGED <<tools, site, run, files>>

After_JunitFirst(artifact) ==
    CASE artifact = "none" -> "junit" [] artifact = "junit" -> "markdown"
      [] artifact = "markdown" -> "summary" [] artifact = "summary" -> "exited"

Classify_CodeFirst(c) ==
    IF c.code = 0 THEN "PASS" ELSE IF c.code = 127 \/ c.notFound THEN "SKIP" ELSE "FAIL"

-----------------------------------------------------------------------------
(* Starting.                                                               *)

Begins(r, command, at, code) ==
    /\ run' = [q \in Runs |->
                 IF q = r
                 THEN [command |-> command, at |-> at, tally |-> NoVerdicts, code |-> code,
                       alone |-> \A p \in Runs : ~Active(p)]
                 ELSE [run[q] EXCEPT !.alone = @ /\ ~Active(q)]]
    /\ UNCHANGED <<tools, site, child, files>>

IsNext(r) == run[r].at = "new" /\ \A q \in 1 .. (r - 1) : run[q].at # "new"

StartRun(r) ==
    /\ IsNext(r)
    /\ \E command \in Commands \cap Reporting : Begins(r, command, "check", 0)

\* An unknown option, the help (also for an unknown command), the list of flows, and
\* the last report, which there may be none of.
StartOther(r) ==
    /\ IsNext(r)
    /\ \E command \in Commands \ Reporting :
         Begins(r, command, "exited",
                CASE command = "bad option" -> 2
                  [] command = "report" -> IF files["summary"] = NoRun THEN 1 ELSE 0
                  [] OTHER -> 0)

-----------------------------------------------------------------------------
(* Verdicts.  collectCheck: a check gives one, also when it throws.        *)

Verdict(r, status) ==
    run' = [run EXCEPT ![r].at = "check", ![r].tally[status] = @ + 1]

\* A check reads files; any of them may be missing, and then it throws.
ConfigVerdict(id) ==
    CASE id = "local-runtime" -> {"PASS", "WARN"}
         \* "git grep" has found nothing when it ends with 1; so does what stands in
         \* for a git that is not there.
      [] id = "secret-scan" -> IF "git" \in tools THEN {"PASS", "FAIL"} ELSE {"PASS"}
      [] OTHER -> {"PASS", "FAIL"}

SourceVerdict(id) == {"PASS", "FAIL"}

DoctorVerdict(id) ==
    CASE id = "runtime" -> IF "npm" \in tools THEN {"PASS", "FAIL"} ELSE {"FAIL"}
      [] id = "dependencies" -> IF {"next", "tsc"} \subseteq tools THEN {"PASS"} ELSE {"WARN"}
      [] id = "toolchains" -> IF {"forge", "go"} \subseteq tools THEN {"PASS"} ELSE {"SKIP"}
      [] id = "browser-harness" ->
           IF {"npm", "playwright"} \subseteq tools THEN {"PASS"} ELSE {"SKIP"}
      [] OTHER -> {"PASS", "FAIL"}

Inspect(r) ==
    /\ Checking(r)
    /\ Current(r) \notin Asked \cup Shell
    /\ \E status \in
           CASE Current(r) \in ToSet(Config) -> ConfigVerdict(Current(r))
             [] Current(r) \in ToSet(Doctor) -> DoctorVerdict(Current(r))
             [] Current(r) = "unsupported" -> {"SKIP"}
             [] OTHER -> SourceVerdict(Current(r)) :
         Verdict(r, status)
    /\ UNCHANGED <<tools, site, child, files>>

\* checkHttpResponse: the expected status, then the marker.
PageVerdict(answer) ==
    CASE answer = "current" -> {"PASS"}
      [] answer = "outdated" -> {"PASS", "FAIL"}
      [] OTHER -> {"FAIL"}

\* Neither of these two looks at the HTTP status.
LiveVerdict(id, answer) ==
    CASE id = "security-headers" -> IF answer = "down" THEN {"FAIL"} ELSE {"PASS", "WARN"}
      [] id = "copy-drift" -> IF answer \in {"down", "outdated"} THEN {"FAIL"} ELSE {"PASS"}
      [] OTHER -> PageVerdict(answer)

\* The proxy behind the route may be away.
ApiVerdict(answer) == IF answer \in {"broken", "down"} THEN {"FAIL"} ELSE {"PASS", "FAIL"}

\* The chain is asked, not the site.
ReceiptVerdict == {"PASS", "FAIL"}

\* A request that is not answered in time counts as "down".
Ask(r) ==
    /\ Checking(r)
    /\ Current(r) \in Asked
    /\ \E answer \in {site, "down"} :
         \E status \in
              CASE Current(r) \in ToSet(Live \o Flow) -> LiveVerdict(Current(r), answer)
                [] Current(r) \in ToSet(Api) -> ApiVerdict(answer)
                [] OTHER -> ReceiptVerdict :
            Verdict(r, status)
    /\ UNCHANGED <<tools, site, child, files>>

-----------------------------------------------------------------------------
(* Shell commands.                                                         *)

SkipCommand(r) ==
    /\ Checking(r)
    /\ Current(r) \in Shell
    /\ ~(Needs(Current(r)) \subseteq tools)
    /\ Verdict(r, "SKIP")
    /\ UNCHANGED <<tools, site, child, files>>

Spawn(r) ==
    /\ Checking(r)
    /\ Current(r) \in Shell
    /\ Needs(Current(r)) \subseteq tools
    /\ child' = [child EXCEPT ![r] = [NoChild EXCEPT !.shell = "running", !.held = TRUE]]
    /\ run' = [run EXCEPT ![r].at = "command"]
    /\ UNCHANGED <<tools, site, files>>

\* The shell ends by itself, before or after it was told to; what it started may
\* live on and hold the pipes.  Any part of the command may have been "not found".
ShellEnds(r) ==
    /\ child[r].shell \in {"running", "terminated"}
    /\ \E code \in {0, 1, 127}, held, notFound \in BOOLEAN :
         child' = [child EXCEPT ![r].shell = "ended", ![r].code = code, ![r].held = held,
                                ![r].notFound = notFound]
    /\ UNCHANGED <<tools, site, run, files>>

\* The timer sends SIGTERM to the shell only.
TimerFires(r) ==
    /\ run[r].at = "command"
    /\ ~child[r].timedOut
    /\ child' = [child EXCEPT ![r].timedOut = TRUE,
                              ![r].shell = IF @ = "running" THEN "terminated" ELSE @]
    /\ UNCHANGED <<tools, site, run, files>>

\* A second later, SIGKILL; a process that dies of a signal counts as code 1.
KillFires(r) ==
    /\ run[r].at = "command" /\ child[r].shell = "terminated"
    /\ \E held \in BOOLEAN :
         child' = [child EXCEPT ![r].shell = "ended", ![r].code = 1, ![r].held = held]
    /\ UNCHANGED <<tools, site, run, files>>

DescendantsEnd(r) ==
    /\ child[r].shell \notin {"running", "terminated"} /\ child[r].held
    /\ child' = [child EXCEPT ![r].held = FALSE]
    /\ UNCHANGED <<tools, site, run, files>>

\* Nobody looks at the child any more; its processes may go on.
Forget(r) == child' = [child EXCEPT ![r] = [NoChild EXCEPT !.held = child[r].held]]

\* The "close" event comes when nobody holds the pipes any more.
ClosesOn(r) == child[r].shell = "ended" /\ ~child[r].held

Classify(c) ==
    IF c.code = 127 \/ c.notFound THEN "SKIP"
    ELSE IF c.timedOut THEN "FAIL"
    ELSE IF c.code = 0 THEN "PASS" ELSE "FAIL"

CommandCloses(r) ==
    /\ run[r].at = "command"
    /\ ClosesOn(r)
    /\ Verdict(r, Classify(child[r]))
    /\ Forget(r)
    /\ UNCHANGED <<tools, site, files>>

\* The shell could not be started, or its log not be written.
CommandThrows(r) ==
    /\ run[r].at = "command"
    /\ ClosesOn(r) \/ child[r] = [NoChild EXCEPT !.shell = "running", !.held = TRUE]
    /\ child' = [child EXCEPT ![r] = NoChild]
    /\ Verdict(r, "FAIL")
    /\ UNCHANGED <<tools, site, files>>

-----------------------------------------------------------------------------
(* The end of a run.                                                       *)

After(artifact) ==
    CASE artifact = "none" -> "summary" [] artifact = "summary" -> "markdown"
      [] artifact = "markdown" -> "junit" [] artifact = "junit" -> "exited"

\* summaryFor counts, and the exit code follows from the count of failures.
Summarise(r) ==
    /\ run[r].at = "check" /\ ~Checking(r)
    /\ run' = [run EXCEPT ![r].at = After("none"),
                          ![r].code = IF run[r].tally["FAIL"] > 0 THEN 1 ELSE 0]
    /\ UNCHANGED <<tools, site, child, files>>

WriteArtifact(r) ==
    /\ run[r].at \in Artifacts
    /\ files' = [files EXCEPT ![run[r].at] = r]
    /\ run' = [run EXCEPT ![r].at = After(@)]
    /\ UNCHANGED <<tools, site, child>>

\* A file that cannot be written ends the process with code 1.
WriteFails(r) ==
    /\ run[r].at \in Artifacts
    /\ run' = [run EXCEPT ![r].at = "killed", ![r].code = 1]
    /\ UNCHANGED <<tools, site, child, files>>

\* Interrupted; a command it was waiting for goes on without it.
Killed(r) ==
    /\ Active(r)
    /\ run' = [run EXCEPT ![r].at = "killed"]
    /\ Forget(r)
    /\ UNCHANGED <<tools, site, files>>

Deploys ==
    /\ site' \in SiteStates
    /\ UNCHANGED <<tools, run, child, files>>

RunStep(r) ==
    \/ Inspect(r) \/ Ask(r) \/ SkipCommand(r) \/ Spawn(r)
    \/ CommandCloses(r) \/ CommandThrows(r)
    \/ Summarise(r) \/ WriteArtifact(r) \/ WriteFails(r)

Next ==
    \/ \E r \in Runs :
         \/ StartRun(r) \/ StartOther(r)
         \/ RunStep(r)
         \/ ShellEnds(r) \/ TimerFires(r) \/ KillFires(r) \/ DescendantsEnd(r)
         \/ Killed(r)
    \/ Deploys

Spec == Init /\ [][Next]_vars

-----------------------------------------------------------------------------
(* Safety.                                                                 *)

\* No command of a run is still at work when its next check begins, or when the run
\* reports: builds and tests of one run never disturb each other.
ChecksDoNotOverlap ==
    \A r \in Runs : Active(r) /\ run[r].at # "command" => ~child[r].held

\* A command passes only if it ended by itself, with success, before the timer: one
\* that answers SIGTERM by ending with 0 has not passed.
PassedInTime ==
    [][\A r \in Runs :
          /\ run[r].at = "command"
          /\ run'[r].tally["PASS"] > run[r].tally["PASS"]
          => child[r].code = 0 /\ ~child[r].timedOut]_vars

\* The artifacts are written in one order, so a run that is killed in between leaves
\* a summary.json that is newer than what CI reads, never an older one: the report
\* that "report" prints is never of a run before the one in junit.xml.  Runs that
\* overlap may mix their artifacts.
SummaryIsNewest ==
    \A f, g \in Artifacts :
        /\ <<f, g>> \in {<<"summary", "markdown">>, <<"markdown", "junit">>}
        /\ \A r \in {files[f], files[g]} \ {NoRun} : run[r].alone
        => files[g] <= files[f]

-----------------------------------------------------------------------------
(* Progress.                                                               *)

\* Node goes on, its timers fire, and what a killed shell leaves behind ends some
\* time; the shell itself need not.
FairSpec ==
    /\ Spec
    /\ \A r \in Runs : /\ WF_vars(RunStep(r))
                       /\ WF_vars(TimerFires(r))
                       /\ WF_vars(KillFires(r))
                       /\ WF_vars(DescendantsEnd(r))

\* A run ends, also with a command that never returns and ignores SIGTERM.
RunsEnd == \A r \in Runs : Active(r) ~> ~Active(r)

=============================================================================
