---------------------------- MODULE BuildScripts ----------------------------
(***************************************************************************)
(* build_ffmpeg.sh, build_python.sh, build_quickjs.sh and the three        *)
(* package_apk.sh, run by hand: bash scripts under "set -e", each a list   *)
(* of blocks, most of them skipped when a file or directory they make is   *)
(* there already.  The packages share no files, so that the two scripts of *)
(* one, started again and again, are a run.  A script may be interrupted   *)
(* anywhere (a download that fails, Ctrl-C, a full disk), and the user     *)
(* then starts it, or the other one.                                       *)
(*                                                                         *)
(* A file or directory is "absent", "complete", or "broken": there, as far *)
(* as the test of a block can see, but not all of it.  What is made of     *)
(* broken sources does not build; a copy or an archive of a broken file or *)
(* directory is made without an error.  An APK may also be "stripped":     *)
(* whole, but its binaries may not be executed.  The tools (wget, tar,     *)
(* git, make, zip, Gradle) are modelled from how the scripts use them.     *)
(***************************************************************************)
EXTENDS Naturals, Sequences, FiniteSets

CONSTANTS Scripted,     \* the packages whose scripts are run
          MaxStops     \* bound: interruptions

ASSUME ScriptsAssumption ==
  Scripted \subseteq {"ffmpeg", "python", "quickjs"} /\ MaxStops \in Nat

VARIABLES
  package,   \* the package whose scripts are run
  script,    \* the script that runs or ran last: "build" or "package"
  disk,      \* the state of each file
  rest,      \* the steps left of the current block
  block,     \* the number of the next block
  status,    \* of the last run: "none", "running", "failed" or "done"
  stops      \* interruptions so far

buildVars == <<package, script, disk, rest, block, status, stops>>

-----------------------------------------------------------------------------
(* The scripts *)

\* wget saves to another name when its file is there.
Wget(f)      == [op |-> "wget", out |-> f, in |-> {}]
Make(f, in)  == [op |-> "make", out |-> f, in |-> in]      \* tar, git clone, make
Begin(f, in) == [op |-> "begin", out |-> f, in |-> in]     \* a later step completes f
Rename(f, g)   == [op |-> "move", out |-> g, in |-> {f}]
Remove(f)    == [op |-> "remove", out |-> f, in |-> {}]
Copy(f, g)   == [op |-> "copy", out |-> g, in |-> {f}]     \* cp, zip

Require(in)  == [op |-> "require", out |-> "apk", in |-> in]
Gradle(in)   == [op |-> "gradle", out |-> "apk", in |-> in]

Unless(f, steps) == [unless |-> {f}, steps |-> steps]
Always(steps)    == [unless |-> {}, steps |-> steps]

\* Wrong: the archive is unpacked in place.
DownloadInPlace(tgz, dir, source) ==
  Unless(source, <<Wget(tgz), Make(source, {tgz}), Remove(tgz)>>)

\* A source archive that is unpacked, and then renamed to the tested name.
Download(tgz, dir, source) ==
  Unless(source, <<Wget(tgz), Make(dir, {tgz}), Rename(dir, source), Remove(tgz)>>)

Mbedtls == <<
  Unless("mbedtls-source", <<Begin("mbedtls-source", {}),        \* clone
                             Make("mbedtls-source", {})>>),      \* submodules
  Unless("mbedtls_install", <<Make("mbedtls_install", {"mbedtls-source"})>>)>>

X264 == <<
  Unless("x264-source", <<Make("x264-source", {})>>),
  Unless("x264_install", <<Make("x264_install", {"x264-source"})>>)>>

Lame == <<
  Unless("lame-3.100", <<Wget("lame.tgz"), Begin("lame-3.100", {"lame.tgz"}),
                         Make("lame-3.100", {})>>),              \* sed
  Unless("lame_install", <<Make("lame_install", {"lame-3.100"})>>)>>

FFmpegLibs == {"mbedtls_install", "x264_install", "lame_install"}

FFmpeg == <<
  Unless("ffmpeg-source", <<Make("ffmpeg-source", {})>>),
  Always(<<Make("ffmpeg", {"ffmpeg-source"} \cup FFmpegLibs),
           Copy("ffmpeg", "libffmpeg.so")>>)>>

\* Wrong: the library is built again by every run.
StaticAlways(source, lib) == Always(<<Make(lib, {source})>>)

\* "make install" of a library: the tested file may come first.
Static(source, lib) == Unless(lib, <<Make(lib, {source})>>)

PythonLibs == {"libz.a", "libffi.a", "libssl.a"}

Python == <<
  Download("zlib.tgz", "zlib", "zlib-source"), Static("zlib-source", "libz.a"),
  Download("libffi.tgz", "libffi", "libffi-source"), Static("libffi-source", "libffi.a"),
  Download("openssl.tgz", "openssl", "openssl-source"), Static("openssl-source", "libssl.a"),
  Download("Python.txz", "Python", "python-source"),
  Unless("python-host", <<Make("python-host", {"python-source"})>>),
  Unless("python-target", <<Make("python-target", {"python-source", "python-host"} \cup PythonLibs),
                            Make("stdlib", {"python-target"})>>),          \* make install
  Always(<<Copy("python-target", "libpython.so"), Copy("stdlib", "lib.zip"),
           Copy("lib.zip", "libpython.zip.so")>>)>>

QuickJS == <<
  Download("quickjs.txz", "quickjs-2024-01-13", "quickjs-source"),
  Always(<<Make("libqjs", {"quickjs-source"}), Copy("libqjs", "libqjs.so")>>)>>

\* What a build leaves for package_apk.sh.
Outputs(p) ==
  CASE p = "ffmpeg"  -> {"libffmpeg.so"}
    [] p = "python"  -> {"libpython.so", "libpython.zip.so"}
    [] p = "quickjs" -> {"libqjs.so"}

\* fix_apk_permissions.sh
FixPermissions == <<[op |-> "repair", out |-> "apk.fixed", in |-> {"apk"}], Rename("apk.fixed", "apk")>>

PackageApk(p) == <<
  Always(<<Require(Outputs(p)), Gradle(Outputs(p))>>
         \o IF p = "ffmpeg" THEN FixPermissions ELSE <<>>)>>

ScriptOf(p, s) ==
  CASE s = "package" -> PackageApk(p)
    [] s = "build" /\ p = "ffmpeg"  -> Mbedtls \o X264 \o Lame \o FFmpeg
    [] s = "build" /\ p = "python"  -> Python
    [] s = "build" /\ p = "quickjs" -> QuickJS

Script == ScriptOf(package, script)

Steps(b) == {b.steps[i] : i \in DOMAIN b.steps}
FilesOf(p) ==
  UNION {{s.out} \cup s.in : s \in
    UNION {Steps(b) : b \in UNION {{ScriptOf(p, t)[i] : i \in DOMAIN ScriptOf(p, t)} : t \in {"build", "package"}}}}
Path == UNION {FilesOf(p) : p \in Scripted}

\* The repository holds a copy of the QuickJS sources.
BuildInit ==
  /\ package \in Scripted /\ script = "build"
  /\ disk = [f \in Path |-> IF f = "quickjs-2024-01-13" THEN "complete" ELSE "absent"]
  /\ rest = <<>> /\ block = 1 /\ status = "none" /\ stops = 0

-----------------------------------------------------------------------------
(* A run *)

Start(s) ==
  /\ status # "running" /\ status' = "running" /\ script' = s
  /\ block' = 1 /\ rest' = <<>>
  /\ UNCHANGED <<disk, stops, package>>

NextBlock ==
  /\ status = "running" /\ rest = <<>>
  /\ IF block > Len(Script)
     THEN status' = "done" /\ UNCHANGED <<block, rest>>
     ELSE /\ block' = block + 1
          /\ rest' = IF \E f \in Script[block].unless : disk[f] # "absent"
                     THEN <<>> ELSE Script[block].steps
          /\ UNCHANGED status
  /\ UNCHANGED <<disk, stops, package, script>>

\* Wrong: without "set -e" a run goes on after a step that fails.
FailsUnseen(s) == FALSE

Fails(s) ==
  \/ s.op \in {"make", "begin"} /\ \E f \in s.in : disk[f] # "complete"
  \/ s.op \in {"copy", "require"} /\ \E f \in s.in : disk[f] = "absent"

\* What a step makes of the files, when nothing stops it.
Done(s) ==
  CASE s.op = "wget"   -> IF disk[s.out] = "absent" THEN [disk EXCEPT ![s.out] = "complete"] ELSE disk
    [] s.op = "make"   -> [disk EXCEPT ![s.out] = IF \A f \in s.in : disk[f] = "complete"
                                                  THEN "complete" ELSE "broken"]
    [] s.op = "begin"  -> [disk EXCEPT ![s.out] = "broken"]
    [] s.op = "remove" -> [disk EXCEPT ![s.out] = "absent"]
    [] s.op = "copy"   -> [disk EXCEPT ![s.out] = disk[CHOOSE f \in s.in : TRUE]]
    [] s.op = "require" -> disk
    [] s.op = "gradle" -> [disk EXCEPT ![s.out] = IF \A f \in s.in : disk[f] = "complete"
                                                  THEN "stripped" ELSE "broken"]
    [] s.op = "repair" -> [disk EXCEPT ![s.out] = IF disk["apk"] = "stripped" THEN "complete" ELSE "broken"]
    [] s.op = "move"   -> LET f == CHOOSE f \in s.in : TRUE IN
                          [disk EXCEPT ![s.out] = disk[f], ![f] = "absent"]

Step ==
  /\ status = "running" /\ rest # <<>>
  /\ IF Fails(Head(rest))
     THEN status' = "failed" /\ UNCHANGED <<disk, rest>>
     ELSE disk' = Done(Head(rest)) /\ rest' = Tail(rest) /\ UNCHANGED status
  /\ UNCHANGED <<block, stops, package, script>>

\* A step that writes its file over leaves it broken; a second download does
\* not touch the first one.
Stop ==
  /\ status = "running" /\ stops < MaxStops
  /\ status' = "failed" /\ stops' = stops + 1
  /\ IF rest # <<>> /\ ~Fails(Head(rest))
     THEN LET s == Head(rest) IN
          \/ UNCHANGED disk
          \/ /\ s.op \in {"make", "begin", "copy", "gradle", "repair"} \/ (s.op = "wget" /\ disk[s.out] = "absent")
             /\ disk' = [disk EXCEPT ![s.out] = "broken"]
     ELSE UNCHANGED disk
  /\ UNCHANGED <<block, rest, package, script>>

-----------------------------------------------------------------------------
BuildNext == (\E s \in {"build", "package"} : Start(s)) \/ NextBlock \/ Step \/ Stop

BuildSpec == BuildInit /\ [][BuildNext]_buildVars

-----------------------------------------------------------------------------
(* Properties *)

\* A build that ends well has left whole outputs, whatever earlier runs did.
\* It is so for build_ffmpeg.sh and build_quickjs.sh, the last step of which
\* is never skipped; not for build_python.sh, which takes a target Python that
\* was built and not installed for complete.
BuiltWhole == status = "done" /\ script = "build" /\ package # "python" =>
  \A f \in Outputs(package) : disk[f] = "complete"

\* Of whole outputs package_apk.sh makes a whole APK, however often it was
\* interrupted in the middle of one, and for FFmpeg one whose binaries may be
\* executed.
PackagedWhole ==
  status = "done" /\ script = "package" /\ (\A f \in Outputs(package) : disk[f] = "complete") =>
    /\ disk["apk"] \in {"stripped", "complete"}
    /\ package = "ffmpeg" => disk["apk"] = "complete"

\* A script that ends well has done what it says.
DoneIsWhole == BuiltWhole /\ PackagedWhole

\* Archives are unpacked under another name and renamed: a source directory
\* is never taken for complete when it is not.
Renamed == {"zlib-source", "libffi-source", "openssl-source", "python-source", "quickjs-source"}
SourcesWhole == \A f \in Renamed \cap Path : disk[f] # "broken"

\* Starting again is not worse than not having started: what an earlier run
\* has completed, and later blocks need, stays complete, however the runs
\* after it end.
Kept == FFmpegLibs \cup PythonLibs
          \cup (Renamed \cup {"mbedtls-source", "x264-source", "lame-3.100",
                              "ffmpeg-source", "python-host", "python-target"})
Preserved == [][\A f \in Kept \cap Path : disk[f] = "complete" => disk'[f] = "complete"]_buildVars
=============================================================================
