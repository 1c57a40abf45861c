-------------------------- MODULE ReleasePipeline --------------------------
(***************************************************************************)
(* The repository's build and release workflow (.github/workflows/         *)
(* master.yml).  Pushes to main, pushes of tags and manual dispatches each *)
(* start a run; a run is one job that looks at what changed and one build  *)
(* job per package, which compiles, packages, signs and, on a tag of its   *)
(* family, publishes two files on the release of that tag.  Runs are not   *)
(* serialised (the workflow has no concurrency group), so the runs of a    *)
(* tag that is pushed again, or dispatched while it builds, overlap.       *)
(*                                                                         *)
(* Any step that needs the network or a compiler may fail; steps run under *)
(* bash -e, so a failed step ends its job and the later ones are skipped.  *)
(***************************************************************************)
EXTENDS Naturals, Sequences

CONSTANTS Tag,                \* the tags that may be pushed
          Family,             \* [Tag -> the prefix the tag's name starts with]
          Enabled,            \* the packages whose ENABLE_* flag is 'true'
          EnableTagReleases,  \* ENABLE_TAG_RELEASES == 'true'
          EnablePushBuilds,   \* ENABLE_PUSH_BUILDS == 'true'
          SigningKey,         \* what the secret may be: "unset", "valid", "invalid"
          MaxCommit,          \* bound: commits of main
          MaxRuns             \* bound: runs of the workflow

Package == {"ffmpeg", "python", "quickjs"}
Main    == "main"             \* refs/heads/main
File    == {"signed", "unsigned"}   \* <package>-<file>-arm64-v8a.apk
Missing == [commit |-> 0, sealed |-> FALSE]   \* no file of that name
Ended   == {"skipped", "done", "failed"}

ASSUME PipelineAssumption ==
  /\ Main \notin Tag
  /\ Family \in [Tag -> {"ffmpeg-v", "python-v", "quickjs-v", "v"}]
  /\ Enabled \subseteq Package
  /\ EnableTagReleases \in BOOLEAN /\ EnablePushBuilds \in BOOLEAN
  /\ SigningKey \subseteq {"unset", "valid", "invalid"}
  /\ MaxCommit \in Nat \ {0} /\ MaxRuns \in Nat

VARIABLES head,    \* the newest commit of main
          tagged,  \* [Tag -> the commit the tag names, 0 when it does not exist]
          raced,   \* history: tags a run started on while another was under way
          runs,    \* the runs started so far, in order
          check,   \* [run -> state of its "check" job]
          job,     \* [run -> [package -> stage of the build job]]
          sealed,  \* [run -> [package -> the "signed" file bears a signature]]
          todo,    \* [run -> [package -> files the release step has to upload]]
          assets   \* [tag -> [package -> [file -> Missing or what was uploaded]]]

jobs == <<sealed, todo, assets>>
refs == <<head, tagged, raced>>
vars == <<head, tagged, raced, runs, check, job, sealed, todo, assets>>

Run == [event : {"push", "workflow_dispatch"}, ref : Tag \cup {Main},
        commit : 1..MaxCommit, inputs : SUBSET Package,
        changed : SUBSET Package]

Init ==
  /\ head = 1 /\ tagged = [t \in Tag |-> 0] /\ raced = {}
  /\ runs = <<>> /\ check = <<>> /\ job = <<>> /\ sealed = <<>> /\ todo = <<>>
  /\ assets = [t \in Tag |-> [p \in Package |-> [f \in File |-> Missing]]]

---------------------------------------------------------------------------
(* Triggers *)

OnTag(r, family) == runs[r].ref \in Tag /\ Family[runs[r].ref] = family

UnderWay(r) == check[r] = "queued" \/ \E p \in Package : job[r][p] \notin Ended

\* Of what changed and what was ticked, the conditions below only look at the
\* enabled packages.
StartRun(run) ==
  /\ Len(runs) < MaxRuns
  /\ raced'  = IF \E r \in DOMAIN runs : runs[r].ref = run.ref /\ UnderWay(r)
               THEN raced \cup {run.ref} ELSE raced
  /\ runs'   = Append(runs, [run EXCEPT !.inputs = @ \cap Enabled,
                                        !.changed = @ \cap Enabled])
  /\ check'  = Append(check, "queued")
  /\ job'    = Append(job, [p \in Package |-> "waiting"])
  /\ sealed' = Append(sealed, [p \in Package |-> FALSE])
  /\ todo'   = Append(todo, [p \in Package |-> {}])
  /\ UNCHANGED assets

\* Wrong: the branch is checked out, not the ref of the run.
ShaOfMain(ref) == head'

\* What a checkout of the ref that triggers the run gives: github.sha.
Sha(ref) == IF ref = Main THEN head' ELSE tagged'[ref]

\* A push to main that touches a package (or the workflow: all three) starts
\* a run; one that touches none is filtered out by "paths".
PushMain(changed) ==
  /\ head < MaxCommit
  /\ head' = head + 1
  /\ \/ changed = {} /\ UNCHANGED <<raced, runs, check, job, jobs>>
     \/ changed # {} /\ StartRun([event |-> "push", ref |-> Main,
                          commit |-> Sha(Main), inputs |-> {}, changed |-> changed])
  /\ UNCHANGED tagged

\* "paths" does not filter tag pushes.  What paths-filter then reports
\* depends on the base it compares with: any answer.
PushTag(t, c, changed) ==
  /\ tagged[t] # c
  /\ tagged' = [tagged EXCEPT ![t] = c] /\ UNCHANGED head
  /\ StartRun([event |-> "push", ref |-> t, commit |-> Sha(t),
               inputs |-> {}, changed |-> changed])

\* A manual run, from main or from an existing tag, with the boxes ticked.
Dispatch(ref, inputs) ==
  /\ ref \in {Main} \cup {t \in Tag : tagged[t] # 0}
  /\ UNCHANGED <<head, tagged>>
  /\ StartRun([event |-> "workflow_dispatch", ref |-> ref,
               commit |-> Sha(ref),
               inputs |-> inputs, changed |-> {}])

---------------------------------------------------------------------------
(* The jobs of a run *)

Wanted(r, p, onTag) ==
  /\ p \in Enabled
  /\ \/ runs[r].event = "workflow_dispatch" /\ p \in runs[r].inputs
     \/ EnableTagReleases /\ onTag
     \/ EnablePushBuilds /\ runs[r].event = "push" /\ p \in runs[r].changed

\* Wrong: only one of the two families of FFmpeg tags.
BuildFfmpegIfNoV(r) == Wanted(r, "ffmpeg", OnTag(r, "ffmpeg-v"))

BuildFfmpegIf(r)  == Wanted(r, "ffmpeg", OnTag(r, "ffmpeg-v") \/ OnTag(r, "v"))
BuildPythonIf(r)  == Wanted(r, "python", OnTag(r, "python-v"))
BuildQuickjsIf(r) == Wanted(r, "quickjs", OnTag(r, "quickjs-v"))

BuildIf(r, p) ==
  CASE p = "ffmpeg"  -> BuildFfmpegIf(r)
    [] p = "python"  -> BuildPythonIf(r)
    [] p = "quickjs" -> BuildQuickjsIf(r)

\* Wrong: any tag will do.
PythonReleaseIfTag(r) == runs[r].ref \in Tag

FfmpegReleaseIf(r)  == OnTag(r, "ffmpeg-v") \/ OnTag(r, "v")
PythonReleaseIf(r)  == OnTag(r, "python-v")
QuickjsReleaseIf(r) == OnTag(r, "quickjs-v")

ReleaseIf(r, p) ==
  CASE p = "ffmpeg"  -> FfmpegReleaseIf(r)
    [] p = "python"  -> PythonReleaseIf(r)
    [] p = "quickjs" -> QuickjsReleaseIf(r)

Move(r, p, from, to) ==
  /\ job[r][p] = from
  /\ job' = [job EXCEPT ![r][p] = to]
  /\ UNCHANGED <<refs, runs, check>>

\* The check job ends; the conditions of the three build jobs, which need it,
\* are evaluated.  A failed check skips them.
Check(r) ==
  /\ check[r] = "queued"
  /\ \E result \in {"ok", "failed"} :
       /\ check' = [check EXCEPT ![r] = result]
       /\ job' = [job EXCEPT ![r] = [p \in Package |->
                    IF result = "ok" /\ BuildIf(r, p) THEN "build" ELSE "skipped"]]
  /\ UNCHANGED <<refs, runs, jobs>>

\* Checkout of the run's commit, compilation, Gradle, permissions, the copy
\* to <package>-unsigned-arm64-v8a.apk.
Build(r, p) == Move(r, p, "build", "sign") /\ UNCHANGED jobs

\* Without a key the "signed" file is a copy of the unsigned one.  With one,
\* apksigner signs and verifies; a bad key makes it fail.
Sign(r, p) ==
  /\ \/ "unset" \in SigningKey /\ UNCHANGED sealed
     \/ "valid" \in SigningKey /\ sealed' = [sealed EXCEPT ![r][p] = TRUE]
  /\ Move(r, p, "sign", "artifact")
  /\ UNCHANGED <<todo, assets>>

\* Both files are kept as artifacts; the release step runs only on a tag of
\* the package.
UploadArtifact(r, p) ==
  /\ Move(r, p, "artifact", IF ReleaseIf(r, p) THEN "release" ELSE "done")
  /\ todo' = [todo EXCEPT ![r][p] = IF ReleaseIf(r, p) THEN File ELSE {}]
  /\ UNCHANGED <<sealed, assets>>

\* action-gh-release uploads the files one by one, in any order, over those
\* that are there.
Release(r, p, f) ==
  /\ f \in todo[r][p]
  /\ todo' = [todo EXCEPT ![r][p] = @ \ {f}]
  /\ assets' = [assets EXCEPT ![runs[r].ref][p][f] =
                  [commit |-> runs[r].commit,
                   sealed |-> f = "signed" /\ sealed[r][p]]]
  /\ Move(r, p, "release", IF todo[r][p] = {f} THEN "done" ELSE "release")
  /\ UNCHANGED sealed

StepFails(r, p) ==
  /\ \E stage \in {"build", "sign", "artifact", "release"} :
        Move(r, p, stage, "failed")
  /\ todo' = [todo EXCEPT ![r][p] = {}]
  /\ UNCHANGED <<sealed, assets>>

JobStep(r, p) ==
  \/ Build(r, p) \/ Sign(r, p) \/ UploadArtifact(r, p)
  \/ \E f \in File : Release(r, p, f)
  \/ StepFails(r, p)

Next ==
  \/ \E changed \in SUBSET Package : PushMain(changed)
  \/ \E t \in Tag, c \in 1..head, changed \in SUBSET Package :
        PushTag(t, c, changed)
  \/ \E ref \in Tag \cup {Main}, inputs \in SUBSET Package : Dispatch(ref, inputs)
  \/ \E r \in DOMAIN runs : Check(r) \/ \E p \in Package : JobStep(r, p)

Spec == Init /\ [][Next]_vars

---------------------------------------------------------------------------
(* Properties *)

\* Every variable keeps to its range.
TypeOK ==
  /\ head \in 1..MaxCommit /\ tagged \in [Tag -> 0..MaxCommit]
  /\ raced \subseteq Tag \cup {Main}
  /\ runs \in Seq(Run) /\ Len(runs) <= MaxRuns
  /\ DOMAIN check = DOMAIN runs /\ DOMAIN job = DOMAIN runs
  /\ DOMAIN sealed = DOMAIN runs /\ DOMAIN todo = DOMAIN runs
  /\ \A r \in DOMAIN runs :
       /\ check[r] \in {"queued", "ok", "failed"}
       /\ job[r] \in [Package -> Ended \cup
                        {"waiting", "build", "sign", "artifact", "release"}]
       /\ sealed[r] \in [Package -> BOOLEAN]
       /\ \A p \in Package : /\ todo[r][p] \subseteq File
                             /\ todo[r][p] # {} => job[r][p] = "release"

\* README, "Workflow Triggers": the format of the tag decides which package
\* is published, whatever was changed, ticked or built along with it.
Publishes(t) ==
  CASE Family[t] \in {"ffmpeg-v", "v"} -> "ffmpeg"
    [] Family[t] = "python-v"          -> "python"
    [] Family[t] = "quickjs-v"         -> "quickjs"

CorrectPackage ==
  \A t \in Tag, p \in Package, f \in File :
     assets[t][p][f] # Missing => p = Publishes(t) /\ p \in Enabled

\* When the secret is always set, a published file called "signed" bears a
\* signature, also when the key turns out to be bad in the middle of a job.
SignedIsSigned ==
  "unset" \notin SigningKey =>
     \A t \in Tag, p \in Package :
        assets[t][p]["signed"] # Missing => assets[t][p]["signed"].sealed

\* What is published is the tag's own package, under names that are true of
\* it, whatever overlaps and whichever step fails.
RightPackage == TypeOK /\ CorrectPackage /\ SignedIsSigned

\* If the runs on a tag never overlap, then once the newest one has published
\* the release holds both its files, built from the commit the tag names:
\* nothing is left of earlier runs, of a tag that was moved, of a failed upload.
ReleaseIsNewest ==
  \A r \in DOMAIN runs, p \in Package :
     LET t == runs[r].ref IN
     /\ job[r][p] = "done" /\ ReleaseIf(r, p) /\ t \notin raced
     /\ \A s \in DOMAIN runs : s > r => runs[s].ref # t
     => \A f \in File :
          assets[t][p][f] = [commit |-> tagged[t], sealed |-> f = "signed" /\ sealed[r][p]]

\* A run on a tag of an enabled package that comes to its end has published
\* the package, or a step of it failed: no condition quietly skips it.
TagPublishes ==
  EnableTagReleases =>
     \A r \in DOMAIN runs :
        LET t == runs[r].ref IN
        /\ t \in Tag /\ ~UnderWay(r) /\ Publishes(t) \in Enabled
        /\ check[r] # "failed" /\ job[r][Publishes(t)] # "failed"
        => \A f \in File : assets[t][Publishes(t)][f] # Missing
=============================================================================
