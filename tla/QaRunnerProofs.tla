--------------------------- MODULE QaRunnerProofs ---------------------------
(***************************************************************************)
(* What holds of QaRunner for every number of runs, whatever commands the  *)
(* user types, tools are installed and pages the deployment has.           *)
(*                                                                         *)
(* The inductive invariant QaInv has a part for each property: a child is  *)
(* there while its run waits for it (ChildrenOK), runs that overlap know   *)
(* it (OrderOK), and an artifact is of the run that is alone and past      *)
(* writing it (FilesOK).                                                   *)
(***************************************************************************)
EXTENDS QaRunner, TLAPS

-----------------------------------------------------------------------------
(* The invariant.                                                          *)

\* There is a shell only while its run waits for it, and descendants outlive the wait
\* only if the run was killed.
ChildrenOK ==
    \A r \in Runs :
        /\ run[r].at # "command" => child[r].shell = "none"
        /\ run[r].at \notin {"command", "killed"} => ~child[r].held

\* Runs start in order, and neither of two that overlap is alone; the later one is not
\* even after the earlier one has ended.
OrderOK ==
    \A q, r \in Runs :
        /\ q < r /\ run[r].at # "new" => run[q].at # "new"
        /\ q # r /\ Active(q) /\ Active(r) => ~run[r].alone
        /\ q < r /\ Active(q) /\ run[r].at # "new" => ~run[r].alone

FilesOK ==
    /\ \A f \in Artifacts : files[f] # NoRun => run[files[f]].at # "new"
    /\ \A r \in Runs :
         /\ run[r].at = "markdown" /\ run[r].alone => files["summary"] = r
         /\ run[r].at = "junit" /\ run[r].alone => files["markdown"] = r
    /\ SummaryIsNewest

QaInv == QaTypeOK /\ ChildrenOK /\ OrderOK /\ FilesOK

LEMMA InitInv == Init => QaInv
<1> SUFFICES ASSUME Init PROVE QaInv
  OBVIOUS
<1>1. NoVerdicts \in [Statuses -> Nat]
  BY DEF NoVerdicts
<1>2. QaTypeOK
  BY <1>1 DEF Init, QaTypeOK, Run, NoChild, Child, NoRun, Artifacts
<1>3. \A r \in Runs : run[r].at = "new" /\ child[r] = NoChild
  BY DEF Init
<1>4. \A f \in Artifacts : files[f] = NoRun
  BY DEF Init
<1>5. ChildrenOK
  BY <1>3 DEF ChildrenOK, NoChild
<1>6. OrderOK
  BY <1>3 DEF OrderOK, Active
<1>7. FilesOK
  BY <1>3, <1>4 DEF FilesOK, SummaryIsNewest, NoRun, Artifacts
<1> QED BY <1>2, <1>5, <1>6, <1>7 DEF QaInv

-----------------------------------------------------------------------------
(* Verdicts.                                                               *)

\* Whatever a check looks at, it gives one of the four verdicts.
LEMMA VerdictTypes ==
    /\ \A id : ConfigVerdict(id) \subseteq Statuses
    /\ \A id : DoctorVerdict(id) \subseteq Statuses
    /\ \A id : SourceVerdict(id) \subseteq Statuses
    /\ \A id, answer : LiveVerdict(id, answer) \subseteq Statuses
    /\ \A answer : ApiVerdict(answer) \subseteq Statuses
    /\ ReceiptVerdict \subseteq Statuses
    /\ \A c : Classify(c) \in Statuses
BY DEF ConfigVerdict, DoctorVerdict, SourceVerdict, LiveVerdict, PageVerdict, ApiVerdict,
       ReceiptVerdict, Classify, Statuses

-----------------------------------------------------------------------------
(* Steps of one run.                                                       *)

\* A run that goes on, or ends, changes nothing of the order runs are in.
LEMMA OrderKept ==
    ASSUME QaInv, NEW r \in Runs, NEW t, run[r].at # "new",
           run' = [run EXCEPT ![r] = t], t.at # "new", t.alone = run[r].alone,
           t.at \notin {"exited", "killed"} => Active(r)
    PROVE  OrderOK'
<1>1. \A q \in Runs : run'[q] = IF q = r THEN t ELSE run[q]
  BY DEF QaInv, QaTypeOK
<1>2. \A q \in Runs : /\ Active(q)' => Active(q)
                      /\ run'[q].at = "new" <=> run[q].at = "new"
                      /\ run'[q].alone = run[q].alone
  BY <1>1 DEF Active
<1> QED BY <1>2 DEF QaInv, OrderOK

\* An artifact that nobody writes stays of the same run.
LEMMA FilesKept ==
    ASSUME QaInv, NEW r \in Runs, NEW t, run[r].at # "new",
           run' = [run EXCEPT ![r] = t], t.at # "new", t.alone = run[r].alone,
           t.at \in {"markdown", "junit"} => t.at = run[r].at,
           UNCHANGED files
    PROVE  FilesOK'
<1>1. \A q \in Runs : run'[q] = IF q = r THEN t ELSE run[q]
  BY DEF QaInv, QaTypeOK
<1>2. \A q \in Runs : /\ run'[q].at = "new" <=> run[q].at = "new"
                      /\ run'[q].alone = run[q].alone
                      /\ run'[q].at \in {"markdown", "junit"} => run'[q].at = run[q].at
  BY <1>1
<1>3. \A f \in Artifacts : files[f] \in Runs \cup {NoRun}
  BY DEF QaInv, QaTypeOK
<1> QED BY <1>2, <1>3 DEF QaInv, FilesOK, SummaryIsNewest

\* The next verdict: one more of its status.
LEMMA VerdictKeeps ==
    ASSUME QaInv, NEW r \in Runs, run[r].at \in {"check", "command"},
           NEW status \in Statuses, Verdict(r, status),
           child' \in [Runs -> Child],
           child'[r].shell = "none" /\ ~child'[r].held,
           \A q \in Runs \ {r} : child'[q] = child[q],
           UNCHANGED <<tools, site, files>>
    PROVE  QaInv'
<1> DEFINE n == [run[r].tally EXCEPT ![status] = @ + 1]
           t == [run[r] EXCEPT !.at = "check", !.tally = n]
<1>1. run[r] \in Run /\ run[r].tally \in [Statuses -> Nat]
  BY DEF QaInv, QaTypeOK, Run
<1>2. n \in [Statuses -> Nat]
  BY <1>1
<1>3. run' = [run EXCEPT ![r] = t]
  BY DEF Verdict
<1> HIDE DEF n
<1>4. t \in Run /\ t.at = "check" /\ t.alone = run[r].alone
  BY <1>1, <1>2 DEF Run
<1> HIDE DEF t
<1>5. \A q \in Runs : run'[q] = IF q = r THEN t ELSE run[q]
  BY <1>3 DEF QaInv, QaTypeOK
<1>6. QaTypeOK'
  BY <1>3, <1>4 DEF QaInv, QaTypeOK
<1>7. ChildrenOK'
  BY <1>4, <1>5 DEF QaInv, ChildrenOK
<1>8. OrderOK'
  BY <1>3, <1>4, OrderKept DEF Active
<1>9. FilesOK'
  BY <1>3, <1>4, FilesKept
<1> QED BY <1>6, <1>7, <1>8, <1>9 DEF QaInv

\* The checks that are no shell command.
LEMMA CheckKeeps ==
    ASSUME QaInv, NEW r \in Runs, Inspect(r) \/ Ask(r) \/ SkipCommand(r)
    PROVE  QaInv'
<1>1. run[r].at = "check" /\ UNCHANGED <<tools, site, child, files>>
  BY DEF Inspect, Ask, SkipCommand, Checking
<1>2. /\ run[r] \in Run /\ child' \in [Runs -> Child]
      /\ child'[r].shell = "none" /\ ~child'[r].held
      /\ \A q \in Runs \ {r} : child'[q] = child[q]
  BY <1>1 DEF QaInv, QaTypeOK, ChildrenOK
<1>3. ASSUME NEW status \in Statuses, Verdict(r, status) PROVE QaInv'
  BY <1>1, <1>2, <1>3, VerdictKeeps
<1>4. CASE Inspect(r)
  <2>1. PICK status \in
           CASE Current(r) \in ToSet(Config) -> ConfigVerdict(Current(r))
             [] Current(r) \in ToSet(Doctor) -> DoctorVerdict(Current(r))
             [] Current(r) = "unsupported" -> {"SKIP"}
             [] OTHER -> SourceVerdict(Current(r)) : Verdict(r, status)
    BY <1>4 DEF Inspect
  <2>2. status \in Statuses
    BY VerdictTypes DEF Statuses
  <2> QED BY <1>3, <2>1, <2>2
<1>5. CASE Ask(r)
  <2>1. PICK answer \in {site, "down"} :
          \E status \in
               CASE Current(r) \in ToSet(Live \o Flow) -> LiveVerdict(Current(r), answer)
                 [] Current(r) \in ToSet(Api) -> ApiVerdict(answer)
                 [] OTHER -> ReceiptVerdict :
             Verdict(r, status)
    BY <1>5 DEF Ask
  <2>2. PICK status \in
               CASE Current(r) \in ToSet(Live \o Flow) -> LiveVerdict(Current(r), answer)
                 [] Current(r) \in ToSet(Api) -> ApiVerdict(answer)
                 [] OTHER -> ReceiptVerdict :
             Verdict(r, status)
    BY <2>1
  <2>3. status \in Statuses
    BY VerdictTypes DEF Statuses
  <2> QED BY <1>3, <2>2, <2>3
<1>6. CASE SkipCommand(r)
  BY <1>3, <1>6 DEF SkipCommand, Statuses
<1> QED BY <1>4, <1>5, <1>6

\* The end of a shell command, one way or the other.
LEMMA CommandKeeps ==
    ASSUME QaInv, NEW r \in Runs, CommandCloses(r) \/ CommandThrows(r)
    PROVE  QaInv'
<1>1. run[r].at = "command" /\ UNCHANGED <<tools, site, files>>
  BY DEF CommandCloses, CommandThrows
<1>2. child \in [Runs -> Child] /\ run[r] \in Run
  BY DEF QaInv, QaTypeOK
<1>3. PICK status \in Statuses : Verdict(r, status)
  BY VerdictTypes DEF CommandCloses, CommandThrows, Statuses
<1>4. /\ child' \in [Runs -> Child]
      /\ child'[r].shell = "none" /\ ~child'[r].held
      /\ \A q \in Runs \ {r} : child'[q] = child[q]
  <2>1. CASE CommandCloses(r)
    BY <1>2, <2>1 DEF CommandCloses, ClosesOn, Forget, NoChild, Child
  <2>2. CASE CommandThrows(r)
    BY <1>2, <2>2 DEF CommandThrows, NoChild, Child
  <2> QED BY <2>1, <2>2
<1> QED BY <1>1, <1>3, <1>4, VerdictKeeps

Gone(t, at, code) == [t EXCEPT !.at = at, !.code = code]

\* What becomes of its child, and the code, fit where the run goes.
Fits(r, at, code) ==
    /\ at \in {"command", "summary", "markdown", "junit", "exited", "killed"}
    /\ code \in {0, 1, 2}
    /\ child' \in [Runs -> Child] /\ \A q \in Runs \ {r} : child'[q] = child[q]
    /\ at # "command" => child'[r].shell = "none"
    /\ at \notin {"command", "killed"} => ~child'[r].held

\* A run that goes on without a verdict, or ends.
LEMMA RunGoes ==
    ASSUME QaInv, NEW r \in Runs, NEW at, NEW code, Active(r), Fits(r, at, code),
           run' = [run EXCEPT ![r] = Gone(run[r], at, code)],
           files' \in [Artifacts -> Runs \cup {NoRun}],
           (UNCHANGED files /\ at \notin {"markdown", "junit"}) \/ FilesOK',
           UNCHANGED <<tools, site>>
    PROVE  QaInv'
<1> DEFINE t == [run[r] EXCEPT !.at = at, !.code = code]
<1> USE DEF Fits
<1>1. run[r] \in Run /\ run[r].at # "new"
  BY DEF QaInv, QaTypeOK, Active
<1>2. /\ t \in Run /\ t.at = at
      /\ t.alone = run[r].alone /\ t.code = code
  BY <1>1 DEF Run
<1>3. run' = [run EXCEPT ![r] = t]
  BY DEF Gone
<1> HIDE DEF t
<1>4. \A q \in Runs : run'[q] = IF q = r THEN t ELSE run[q]
  BY <1>3 DEF QaInv, QaTypeOK
<1>5. QaTypeOK'
  BY <1>2, <1>3 DEF QaInv, QaTypeOK
<1>6. ChildrenOK'
  BY <1>2, <1>4 DEF QaInv, ChildrenOK
<1>7. OrderOK'
  BY <1>1, <1>2, <1>3, OrderKept
<1>8. FilesOK'
  BY <1>1, <1>2, <1>3, FilesKept
<1> QED BY <1>5, <1>6, <1>7, <1>8 DEF QaInv

LEMMA QuietKeeps ==
    ASSUME QaInv, NEW r \in Runs, Spawn(r) \/ Summarise(r) \/ WriteFails(r) \/ Killed(r)
    PROVE  QaInv'
<1>1. /\ run \in [Runs -> Run] /\ run[r] \in Run /\ child \in [Runs -> Child]
      /\ files \in [Artifacts -> Runs \cup {NoRun}]
  BY DEF QaInv, QaTypeOK
<1>2. run[r].code \in {0, 1, 2} /\ run[r].tally["FAIL"] \in Nat
  BY <1>1 DEF Run, Statuses
<1>3. run[r].at # "command" => child[r].shell = "none"
  BY DEF QaInv, ChildrenOK
<1>4. run[r].at \notin {"command", "killed"} => ~child[r].held
  BY DEF QaInv, ChildrenOK
<1>5. CASE Spawn(r)
  <2>1. run' = [run EXCEPT ![r] = Gone(run[r], "command", run[r].code)]
    BY <1>1, <1>5 DEF Spawn, Gone, Run
  <2>2. Fits(r, "command", run[r].code)
    BY <1>1, <1>2, <1>5 DEF Spawn, NoChild, Child, Fits, Artifacts
  <2>3. Active(r) /\ UNCHANGED <<tools, site, files>>
    BY <1>5 DEF Spawn, Checking, Active
  <2> QED BY <1>1, <2>1, <2>2, <2>3, RunGoes
<1>6. CASE Summarise(r)
  <2>1. PICK code \in {0, 1} : code = IF run[r].tally["FAIL"] > 0 THEN 1 ELSE 0
    OBVIOUS
  <2>2. run' = [run EXCEPT ![r] = Gone(run[r], "summary", code)]
    BY <1>1, <1>6, <2>1 DEF Summarise, After, Gone
  <2>3. run[r].at = "check" /\ Active(r) /\ UNCHANGED <<tools, site, child, files>>
    BY <1>6 DEF Summarise, Active
  <2>4. Fits(r, "summary", code)
    BY <1>1, <1>3, <1>4, <2>1, <2>3 DEF Fits
  <2> QED BY <1>1, <2>2, <2>3, <2>4, RunGoes
<1>7. CASE WriteFails(r)
  <2>1. run' = [run EXCEPT ![r] = Gone(run[r], "killed", 1)]
    BY <1>1, <1>7 DEF WriteFails, Gone
  <2>2. run[r].at \in Artifacts /\ Active(r) /\ UNCHANGED <<tools, site, child, files>>
    BY <1>7 DEF WriteFails, Active, Artifacts
  <2>3. Fits(r, "killed", 1)
    BY <1>1, <1>3, <2>2 DEF Fits, Artifacts
  <2> QED BY <1>1, <2>1, <2>2, <2>3, RunGoes
<1>8. CASE Killed(r)
  <2>1. run' = [run EXCEPT ![r] = Gone(run[r], "killed", run[r].code)]
    BY <1>1, <1>8 DEF Killed, Gone, Run
  <2>2. Fits(r, "killed", run[r].code)
    BY <1>1, <1>2, <1>8 DEF Killed, Forget, NoChild, Child, Fits, Artifacts
  <2>3. Active(r) /\ UNCHANGED <<tools, site, files>>
    BY <1>8 DEF Killed
  <2> QED BY <1>1, <2>1, <2>2, <2>3, RunGoes
<1> QED BY <1>5, <1>6, <1>7, <1>8

\* Whoever writes an artifact alone has written the one before it, and nobody since; the
\* run whose file it replaces started earlier, unless that one was not alone.
LEMMA WriteKeeps ==
    ASSUME QaInv, NEW r \in Runs, WriteArtifact(r)
    PROVE  QaInv'
<1>1. /\ run \in [Runs -> Run] /\ run[r] \in Run /\ child \in [Runs -> Child]
      /\ files \in [Artifacts -> Runs \cup {NoRun}]
  BY DEF QaInv, QaTypeOK
<1> DEFINE f == run[r].at
<1>2. PICK at : at = After(f)
  OBVIOUS
<1>3. /\ f \in Artifacts /\ files' = [files EXCEPT ![f] = r]
      /\ run' = [run EXCEPT ![r] = [run[r] EXCEPT !.at = at]]
      /\ UNCHANGED <<tools, site, child>>
  BY <1>1, <1>2 DEF WriteArtifact
<1>4. /\ f = "summary" => at = "markdown"
      /\ f = "markdown" => at = "junit"
      /\ f = "junit" => at = "exited"
  BY <1>2 DEF After
<1>5. Active(r) /\ run[r].at # "new"
  BY <1>3 DEF Active, Artifacts
<1>6. \A q \in Runs : /\ run'[q].at = IF q = r THEN at ELSE run[q].at
                      /\ run'[q].alone = run[q].alone
  BY <1>1, <1>3 DEF Run
<1>7. \A g \in Artifacts : files'[g] = IF g = f THEN r ELSE files[g]
  BY <1>1, <1>3
<1> HIDE DEF f
<1>8. at # "new"
  BY <1>3, <1>4 DEF Artifacts
<1>9. \A g \in Artifacts : files'[g] # NoRun => run'[files'[g]].at # "new"
  BY <1>1, <1>5, <1>6, <1>7, <1>8 DEF QaInv, FilesOK
<1>10. ASSUME NEW q \in Runs, run[q].alone, run'[q].at = "markdown"
       PROVE  files'["summary"] = q
  <2>1. CASE q = r
    BY <1>3, <1>4, <1>6, <1>7, <1>10, <2>1 DEF Artifacts
  <2>2. CASE q # r
    <3>1. Active(q) /\ run[q].at = "markdown"
      BY <1>6, <1>10, <2>2 DEF Active
    <3> QED BY <1>5, <1>10, <2>2, <3>1 DEF QaInv, OrderOK
  <2> QED BY <2>1, <2>2
<1>11. ASSUME NEW q \in Runs, run[q].alone, run'[q].at = "junit"
       PROVE  files'["markdown"] = q
  <2>1. CASE q = r
    BY <1>3, <1>4, <1>6, <1>7, <1>11, <2>1 DEF Artifacts
  <2>2. CASE q # r
    <3>1. Active(q) /\ run[q].at = "junit"
      BY <1>6, <1>11, <2>2 DEF Active
    <3> QED BY <1>5, <1>11, <2>2, <3>1 DEF QaInv, OrderOK
  <2> QED BY <2>1, <2>2
<1>12. ASSUME NEW e \in Artifacts, NEW g \in Artifacts,
              <<e, g>> \in {<<"summary", "markdown">>, <<"markdown", "junit">>},
              \A q \in {files'[e], files'[g]} \ {NoRun} : run'[q].alone
       PROVE  files'[g] <= files'[e]
  <2>1. e # g /\ \/ e = "summary" /\ g = "markdown"
                 \/ e = "markdown" /\ g = "junit"
    BY <1>12
  <2>2. files[e] \in Runs \cup {NoRun} /\ files[g] \in Runs \cup {NoRun}
    BY <1>1
  <2>3. CASE f \notin {e, g}
    BY <1>6, <1>7, <1>12, <2>2, <2>3 DEF QaInv, FilesOK, SummaryIsNewest
  <2>4. CASE f = e
    <3>1. files'[e] = r /\ files'[g] = files[g]
      BY <1>7, <2>1, <2>4
    <3>2. CASE files[g] = NoRun
      BY <3>1, <3>2, RunAssumption DEF NoRun, Runs
    <3>3. CASE files[g] # NoRun
      <4>1. run[files[g]].alone /\ run[files[g]].at # "new"
        BY <1>6, <1>12, <2>2, <3>1, <3>3 DEF QaInv, FilesOK
      <4>2. ~(r < files[g])
        BY <1>5, <2>2, <3>3, <4>1 DEF QaInv, OrderOK
      <4> QED BY <2>2, <3>1, <3>3, <4>2 DEF Runs
    <3> QED BY <3>2, <3>3
  <2>5. CASE f = g
    <3>1. files'[g] = r /\ files'[e] = files[e]
      BY <1>7, <2>1, <2>5
    <3>2. run[r].alone
      BY <1>6, <1>12, <3>1, RunAssumption DEF NoRun, Runs
    <3>3. files[e] = r
      BY <2>1, <2>5, <3>2 DEF QaInv, FilesOK, f
    <3> QED BY <3>1, <3>3 DEF Runs
  <2> QED BY <2>3, <2>4, <2>5
<1>13. FilesOK'
  BY <1>6, <1>9, <1>10, <1>11, <1>12 DEF FilesOK, SummaryIsNewest
<1>14. child[r].shell = "none" /\ ~child[r].held
  BY <1>3 DEF QaInv, ChildrenOK, f, Artifacts
<1>15. run[r].code \in {0, 1, 2}
  BY <1>1 DEF Run
<1>16. run' = [run EXCEPT ![r] = Gone(run[r], at, run[r].code)]
  BY <1>1, <1>3 DEF Run, Gone
<1>17. files' \in [Artifacts -> Runs \cup {NoRun}]
  BY <1>1, <1>3
<1>18. at \in {"markdown", "junit", "exited"}
  BY <1>3, <1>4 DEF Artifacts
<1>19. Fits(r, at, run[r].code)
  BY <1>1, <1>3, <1>14, <1>15, <1>18 DEF Fits
<1> QED BY <1>3, <1>5, <1>13, <1>16, <1>17, <1>19, RunGoes

-----------------------------------------------------------------------------
(* Processes, new runs and the deployment.                                 *)

\* What happens to processes does not reach the runs; a shell or a timer is there only
\* while its run waits.
LEMMA ChildKeeps ==
    ASSUME QaInv, NEW r \in Runs,
           ShellEnds(r) \/ TimerFires(r) \/ KillFires(r) \/ DescendantsEnd(r)
    PROVE  QaInv'
<1>1. child \in [Runs -> Child] /\ child[r] \in Child
  BY DEF QaInv, QaTypeOK
<1>2. UNCHANGED <<tools, site, run, files>>
  BY DEF ShellEnds, TimerFires, KillFires, DescendantsEnd
<1>3. PICK c \in Child :
        /\ child' = [child EXCEPT ![r] = c]
        /\ run[r].at # "command" => c.shell = "none" /\ (c.held => child[r].held)
  <2>1. run[r].at # "command" => child[r].shell = "none"
    BY DEF QaInv, ChildrenOK
  <2>2. CASE ShellEnds(r)
    <3>1. PICK code \in {0, 1, 127}, held \in BOOLEAN, notFound \in BOOLEAN :
            child' = [child EXCEPT ![r].shell = "ended", ![r].code = code, ![r].held = held,
                                   ![r].notFound = notFound]
      BY <2>2 DEF ShellEnds
    <3> DEFINE c == [child[r] EXCEPT !.shell = "ended", !.code = code, !.held = held,
                                     !.notFound = notFound]
    <3>2. c \in Child /\ child' = [child EXCEPT ![r] = c] /\ run[r].at = "command"
      BY <1>1, <2>1, <2>2, <3>1 DEF Child, ShellEnds
    <3> QED BY <3>2
  <2>3. CASE TimerFires(r)
    <3>1. PICK shell : shell = IF child[r].shell = "running" THEN "terminated" ELSE child[r].shell
      OBVIOUS
    <3> DEFINE c == [child[r] EXCEPT !.timedOut = TRUE, !.shell = shell]
    <3>2. c \in Child /\ child' = [child EXCEPT ![r] = c] /\ run[r].at = "command"
      BY <1>1, <2>3, <3>1 DEF Child, TimerFires
    <3> QED BY <3>2
  <2>4. CASE KillFires(r)
    <3>1. PICK held \in BOOLEAN :
            child' = [child EXCEPT ![r].shell = "ended", ![r].code = 1, ![r].held = held]
      BY <2>4 DEF KillFires
    <3> DEFINE c == [child[r] EXCEPT !.shell = "ended", !.code = 1, !.held = held]
    <3>2. c \in Child /\ child' = [child EXCEPT ![r] = c] /\ run[r].at = "command"
      BY <1>1, <2>4, <3>1 DEF Child, KillFires
    <3> QED BY <3>2
  <2>5. CASE DescendantsEnd(r)
    <3> DEFINE c == [child[r] EXCEPT !.held = FALSE]
    <3>2. c \in Child /\ child' = [child EXCEPT ![r] = c] /\ c.shell = child[r].shell /\ ~c.held
      BY <1>1, <2>5 DEF Child, DescendantsEnd
    <3> QED BY <2>1, <3>2
  <2> QED BY <2>2, <2>3, <2>4, <2>5
<1>4. QaTypeOK'
  BY <1>1, <1>2, <1>3 DEF QaInv, QaTypeOK
<1>5. ChildrenOK'
  BY <1>1, <1>2, <1>3 DEF QaInv, ChildrenOK
<1>6. OrderOK' /\ FilesOK'
  BY <1>2 DEF QaInv, OrderOK, FilesOK, SummaryIsNewest, Active
<1> QED BY <1>4, <1>5, <1>6 DEF QaInv

\* Who is under way when a run begins is alone no more, and neither is the new run.
LEMMA BeginKeeps ==
    ASSUME QaInv, NEW r \in Runs, IsNext(r),
           NEW command \in Commands, NEW at \in {"check", "exited"}, NEW code \in {0, 1, 2},
           Begins(r, command, at, code)
    PROVE  QaInv'
<1>1. /\ run \in [Runs -> Run] /\ child \in [Runs -> Child]
      /\ files \in [Artifacts -> Runs \cup {NoRun}]
  BY DEF QaInv, QaTypeOK
<1>2. UNCHANGED <<tools, site, child, files>>
  BY DEF Begins
<1> DEFINE idle == \A p \in Runs : ~Active(p)
           t == [command |-> command, at |-> at, tally |-> NoVerdicts, code |-> code,
                 alone |-> idle]
           others(q) == [run[q] EXCEPT !.alone = @ /\ ~Active(q)]
<1>3. run' = [q \in Runs |-> IF q = r THEN t ELSE others(q)]
  BY DEF Begins
<1>4. /\ t \in Run /\ t.at = at /\ t.code = code
      /\ t.alone => \A p \in Runs : ~Active(p)
  BY DEF Run, NoVerdicts, Statuses
<1>5. ASSUME NEW q \in Runs
      PROVE  /\ others(q) \in Run /\ others(q).at = run[q].at
             /\ others(q).alone => run[q].alone /\ ~Active(q)
  <2>1. PICK alone \in BOOLEAN : alone = (run[q].alone /\ ~Active(q))
    OBVIOUS
  <2>2. PICK o : o = [run[q] EXCEPT !.alone = alone]
    OBVIOUS
  <2>3. run[q] \in Run
    BY <1>1
  <2>4. /\ o \in Run /\ o.at = run[q].at /\ o.alone = alone
    BY <2>2, <2>3 DEF Run
  <2>5. others(q) = o
    BY <2>1, <2>2
  <2> HIDE DEF others
  <2> QED BY <2>1, <2>4, <2>5
<1> HIDE DEF t, others
<1>6. run'[r] = t /\ \A q \in Runs \ {r} : run'[q] = others(q)
  BY <1>3
<1>7. run[r].at = "new" /\ \A q \in 1 .. (r - 1) : run[q].at # "new"
  BY DEF IsNext
<1>8. QaTypeOK'
  BY <1>1, <1>2, <1>3, <1>4, <1>5 DEF QaInv, QaTypeOK
<1>9. ChildrenOK'
  BY <1>2, <1>4, <1>5, <1>6, <1>7 DEF QaInv, ChildrenOK
<1>10. \A q \in Runs \ {r} : /\ run'[q].at = run[q].at /\ (Active(q)' <=> Active(q))
                             /\ run'[q].alone => run[q].alone /\ ~Active(q)
  BY <1>5, <1>6 DEF Active
<1>11. run'[r].alone => \A p \in Runs : ~Active(p)
  BY <1>4, <1>6
<1>12. run'[r].at # "new" /\ run'[r].at \notin {"markdown", "junit"}
  BY <1>4, <1>6
<1>13. \A q \in Runs : q < r <=> q \in 1 .. (r - 1)
  BY RunAssumption DEF Runs
<1>14. \A q \in Runs : r < q => run[q].at = "new"
  BY <1>7 DEF QaInv, OrderOK
<1>15. OrderOK'
  <2> SUFFICES ASSUME NEW q \in Runs, NEW s \in Runs
               PROVE  /\ q < s /\ run'[s].at # "new" => run'[q].at # "new"
                      /\ q # s /\ Active(q)' /\ Active(s)' => ~run'[s].alone
                      /\ q < s /\ Active(q)' /\ run'[s].at # "new" => ~run'[s].alone
    BY DEF OrderOK
  <2>1. CASE q # r /\ s # r
    BY <1>10, <2>1 DEF QaInv, OrderOK
  <2>2. CASE s = r /\ q # r
    BY <1>7, <1>10, <1>11, <1>12, <1>13, <2>2
  <2>3. CASE q = r /\ s # r
    BY <1>10, <1>12, <1>14, <2>3
  <2>4. CASE q = r /\ s = r
    BY <1>12, <2>4 DEF Runs
  <2> QED BY <2>1, <2>2, <2>3, <2>4
<1>16. FilesOK'
  <2>1. \A f \in Artifacts : files[f] # r
    BY <1>1, <1>7, RunAssumption DEF QaInv, FilesOK, NoRun, Runs
  <2> QED BY <1>1, <1>2, <1>10, <1>12, <2>1 DEF QaInv, FilesOK, SummaryIsNewest
<1> QED BY <1>8, <1>9, <1>15, <1>16 DEF QaInv

LEMMA StartKeeps ==
    ASSUME QaInv, NEW r \in Runs, StartRun(r) \/ StartOther(r)
    PROVE  QaInv'
<1>1. CASE StartRun(r)
  BY <1>1, BeginKeeps DEF StartRun
<1>2. CASE StartOther(r)
  <2>1. PICK command \in Commands \ Reporting :
          Begins(r, command, "exited",
                 CASE command = "bad option" -> 2
                   [] command = "report" -> IF files["summary"] = NoRun THEN 1 ELSE 0
                   [] OTHER -> 0)
    BY <1>2 DEF StartOther
  <2>2. PICK code \in {0, 1, 2} : Begins(r, command, "exited", code)
    BY <2>1
  <2> QED BY <1>2, <2>2, BeginKeeps DEF StartOther
<1> QED BY <1>1, <1>2

LEMMA NextInv == QaInv /\ [Next]_vars => QaInv'
<1> SUFFICES ASSUME QaInv, [Next]_vars PROVE QaInv'
  OBVIOUS
<1>1. ASSUME NEW r \in Runs, StartRun(r) \/ StartOther(r) PROVE QaInv'
  BY <1>1, StartKeeps
<1>2. ASSUME NEW r \in Runs, RunStep(r) PROVE QaInv'
  BY <1>2, CheckKeeps, CommandKeeps, QuietKeeps, WriteKeeps DEF RunStep
<1>3. ASSUME NEW r \in Runs, ShellEnds(r) \/ TimerFires(r) \/ KillFires(r) \/ DescendantsEnd(r)
      PROVE  QaInv'
  BY <1>3, ChildKeeps
<1>4. ASSUME NEW r \in Runs, Killed(r) PROVE QaInv'
  BY <1>4, QuietKeeps
<1>5. CASE Deploys \/ UNCHANGED vars
  BY <1>5 DEF Deploys, vars, QaInv, QaTypeOK, ChildrenOK, OrderOK, FilesOK,
              SummaryIsNewest, Active
<1> QED BY <1>1, <1>2, <1>3, <1>4, <1>5 DEF Next

-----------------------------------------------------------------------------
(* The results.                                                            *)

LEMMA Invariant == Spec => []QaInv
<1>1. QaInv /\ [Next]_vars => QaInv'
  BY NextInv
<1> QED BY <1>1, InitInv, PTL DEF Spec

\* Runs, their children and the artifacts keep their types: every check gives one of the
\* four verdicts, and every exit code is one the tool documents.
THEOREM TypeCorrect == Spec => []QaTypeOK
<1>1. QaInv => QaTypeOK
  BY DEF QaInv
<1> QED BY <1>1, Invariant, PTL

\* The next check of a run begins, and its report is written, only when nothing that an
\* earlier command started is at work.
THEOREM NoOverlap == Spec => []ChecksDoNotOverlap
<1>1. QaInv => ChecksDoNotOverlap
  BY DEF QaInv, ChildrenOK, ChecksDoNotOverlap, Active
<1> QED BY <1>1, Invariant, PTL

\* Whatever runs are killed between two artifacts, the summary is never of an earlier run
\* than the report for CI, unless runs overlapped.
THEOREM SummaryNewest == Spec => []SummaryIsNewest
<1>1. QaInv => SummaryIsNewest
  BY DEF QaInv, FilesOK
<1> QED BY <1>1, Invariant, PTL

-----------------------------------------------------------------------------
(* What a verdict says of a command.                                       *)

Passes(r) == run[r].at = "command" /\ run'[r].tally["PASS"] > run[r].tally["PASS"]

\* Only the end of its own command gives a waiting run a verdict.
LEMMA WaitingRuns ==
    ASSUME QaInv, NEW r \in Runs, run[r].at = "command", NEW q \in Runs,
           \/ q # r /\ RunStep(q)
           \/ StartRun(q) \/ StartOther(q) \/ Killed(q)
           \/ ShellEnds(q) \/ TimerFires(q) \/ KillFires(q) \/ DescendantsEnd(q)
    PROVE  run'[r].tally = run[r].tally
<1>1. run \in [Runs -> Run] /\ run[r] \in Run
  BY DEF QaInv, QaTypeOK
<1>2. CASE q # r /\ RunStep(q)
  BY <1>1, <1>2 DEF RunStep, Inspect, Ask, SkipCommand, Spawn, CommandCloses, CommandThrows,
                    Summarise, WriteArtifact, WriteFails, Verdict
<1>3. CASE StartRun(q) \/ StartOther(q)
  <2>1. q # r
    BY <1>3 DEF StartRun, StartOther, IsNext
  <2>2. PICK command, at, code : Begins(q, command, at, code)
    BY <1>3 DEF StartRun, StartOther
  <2>3. run'[r] = [run[r] EXCEPT !.alone = @ /\ ~Active(r)]
    BY <2>1, <2>2 DEF Begins
  <2> QED BY <1>1, <2>3 DEF Run
<1>4. CASE Killed(q)
  BY <1>1, <1>4 DEF Killed, Run
<1>5. CASE ShellEnds(q) \/ TimerFires(q) \/ KillFires(q) \/ DescendantsEnd(q)
  BY <1>5 DEF ShellEnds, TimerFires, KillFires, DescendantsEnd
<1> QED BY <1>2, <1>3, <1>4, <1>5

LEMMA OwnStepPasses ==
    ASSUME QaInv, NEW r \in Runs, RunStep(r), Passes(r)
    PROVE  child[r].code = 0 /\ ~child[r].timedOut
<1>1. run \in [Runs -> Run] /\ run[r] \in Run /\ run[r].tally \in [Statuses -> Nat]
  BY DEF QaInv, QaTypeOK, Run
<1>2. ASSUME NEW status \in Statuses \ {"PASS"}, Verdict(r, status) PROVE FALSE
  <2> DEFINE n == [run[r].tally EXCEPT ![status] = @ + 1]
  <2>1. run'[r].tally = n
    BY <1>1, <1>2 DEF Verdict, Run
  <2>2. n["PASS"] = run[r].tally["PASS"]
    BY <1>1 DEF Statuses
  <2>3. run[r].tally["PASS"] \in Nat
    BY <1>1 DEF Statuses
  <2> QED BY <2>1, <2>2, <2>3 DEF Passes
<1>3. CASE CommandCloses(r)
  <2>1. Classify(child[r]) = "PASS"
    BY <1>2, <1>3, VerdictTypes DEF CommandCloses
  <2> QED BY <2>1 DEF Classify
<1>4. CASE CommandThrows(r)
  BY <1>2, <1>4 DEF CommandThrows, Statuses
<1>5. CASE ~CommandCloses(r) /\ ~CommandThrows(r)
  BY <1>5 DEF Passes, RunStep, Inspect, Ask, SkipCommand, Spawn, Checking, Summarise,
              WriteArtifact, WriteFails, Artifacts
<1> QED BY <1>3, <1>4, <1>5

\* A command that answers the SIGTERM of its timer by ending with 0 has not passed, in
\* any run: the verdict PASS is for a command that ended in time and by itself.
THEOREM PassesCorrect == Spec => PassedInTime
<1> DEFINE InTime == \A r \in Runs :
                        /\ run[r].at = "command"
                        /\ run'[r].tally["PASS"] > run[r].tally["PASS"]
                        => child[r].code = 0 /\ ~child[r].timedOut
<1>1. QaInv /\ [Next]_vars => [InTime]_vars
  <2> SUFFICES ASSUME QaInv, Next, NEW r \in Runs, Passes(r)
               PROVE  child[r].code = 0 /\ ~child[r].timedOut
    BY DEF Passes
  <2>1. run[r].at = "command" /\ run'[r].tally # run[r].tally
    <3>1. run[r].tally["PASS"] \in Nat
      BY DEF QaInv, QaTypeOK, Run, Statuses
    <3> QED BY <3>1 DEF Passes
  <2>2. CASE \E q \in Runs : \/ q # r /\ RunStep(q)
                             \/ StartRun(q) \/ StartOther(q) \/ Killed(q)
                             \/ ShellEnds(q) \/ TimerFires(q) \/ KillFires(q) \/ DescendantsEnd(q)
    BY <2>1, <2>2, WaitingRuns
  <2>3. CASE RunStep(r)
    BY <2>3, OwnStepPasses
  <2>4. CASE Deploys
    BY <2>1, <2>4 DEF Deploys
  <2> QED BY <2>2, <2>3, <2>4 DEF Next
<1> QED BY <1>1, Invariant, PTL DEF Spec, PassedInTime

=============================================================================
