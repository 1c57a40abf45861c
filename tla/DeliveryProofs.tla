--------------------------- MODULE DeliveryProofs ---------------------------
(***************************************************************************)
(* The scripts that build and package, run by hand, for any number of runs *)
(* and interruptions: what ends well is whole, and nothing that was        *)
(* completed is lost.                                                      *)
(*                                                                         *)
(* What the workflow publishes, for any tags, flags and keys and any       *)
(* number of commits and runs.  The properties speak of releases; what     *)
(* makes them inductive is what each job has behind it at each stage.      *)
(***************************************************************************)
EXTENDS BuildScripts, ReleasePipeline, SequenceTheorems, TLAPS

(* The scripts: their blocks, and the steps left of the one that runs. *)

\* The files of the scripts that no test of a block looks at.
Others ==
  {"lame.tgz", "ffmpeg", "libffmpeg.so", "zlib.tgz", "zlib", "libffi.tgz", "libffi", "openssl.tgz",
   "openssl", "Python.txz", "Python", "stdlib", "libpython.so", "lib.zip", "libpython.zip.so",
   "quickjs.txz", "quickjs-2024-01-13", "libqjs", "libqjs.so", "apk", "apk.fixed"}
Names == Kept \cup Others

StepData == [op : {"wget", "make", "begin", "remove", "copy", "require", "gradle", "repair", "move"},
             out : Names, in : SUBSET Names]

\* A source directory under its tested name was made just before, under another.
MovesWhatWasMade(s) ==
  \A i \in DOMAIN s : s[i].op = "move" =>
    /\ \E f \in Others : s[i].in = {f}
    /\ s[i].out \in Renamed /\ i # 1 => s[i - 1].op = "make" /\ s[i].in = {s[i - 1].out}

\* A file that is kept is finished once, and by nothing else than these.
FinishesOnce(s) ==
  \A i \in DOMAIN s : s[i].out \in Kept =>
    /\ s[i].op \in {"make", "begin", "move"} /\ (s[i].out \in Renamed => s[i].op = "move")
    /\ \A j \in DOMAIN s : i < j /\ s[j].out = s[i].out => s[i].op = "begin"

Orderly(s) == s \in Seq(StepData) /\ MovesWhatWasMade(s) /\ FinishesOnce(s)

\* A block that writes a file that is kept is skipped when it is there.
Guarded(b) ==
  /\ \A i \in DOMAIN b.steps : b.steps[i].out \in Kept => b.steps[i].out \in b.unless
  /\ \A i \in DOMAIN b.steps : b.steps[i].op = "move" => i # 1

OrderlyBlock ==
  {b \in [unless : SUBSET Names, steps : Seq(StepData)] : Orderly(b.steps) /\ Guarded(b)}

\* The steps left of the current block.
Rest ==
  /\ Orderly(rest) /\ \A i \in DOMAIN rest : rest[i].out \in Path
  /\ \A i \in DOMAIN rest : rest[i].out \in Kept => disk[rest[i].out] # "complete"
  /\ rest # <<>> /\ rest[1].op = "move" /\ rest[1].out \in Renamed =>
       \A f \in rest[1].in : disk[f] = "complete"

\* The last block of a build: the binary, and its copy under the name of a
\* library.
Built(binary, in, library) ==
  \/ rest = <<Make(binary, in), Copy(binary, library)>>
  \/ rest = <<Copy(binary, library)>> /\ disk[binary] = "complete"
  \/ rest = <<>> /\ disk[library] = "complete"

Building ==
  /\ package = "ffmpeg" => Built("ffmpeg", {"ffmpeg-source"} \cup FFmpegLibs, "libffmpeg.so")
  /\ package = "quickjs" => Built("libqjs", {"quickjs-source"}, "libqjs.so")

\* The one block of package_apk.sh, when the outputs are whole.
Packaging ==
  LET last == IF package = "ffmpeg" THEN FixPermissions ELSE <<>>
      packed == disk["apk"] = "stripped"
  IN \/ rest = <<Require(Outputs(package)), Gradle(Outputs(package))>> \o last
     \/ rest = <<Gradle(Outputs(package))>> \o last
     \/ rest = last /\ packed
     \/ package = "ffmpeg" /\ rest = <<Rename("apk.fixed", "apk")>> /\ disk["apk.fixed"] = "complete"
     \/ package = "ffmpeg" /\ rest = <<>> /\ disk["apk"] = "complete"

\* package_apk.sh writes the APK, and nothing else.
PackageOnly ==
  \A i \in DOMAIN rest : /\ rest[i].out \in {"apk", "apk.fixed"}
                         /\ rest[i].op = "move" => rest[i].in = {"apk.fixed"}

WholeOutputs == \A f \in Outputs(package) : disk[f] = "complete"

ScriptInv ==
  /\ package \in Scripted /\ script \in {"build", "package"} /\ block \in Nat \ {0}
  /\ status \in {"none", "running", "failed", "done"}
  /\ disk = [f \in Path |-> disk[f]]
  /\ status = "running" => Rest
  /\ status = "running" /\ script = "build" /\ block > Len(Script) => Building
  /\ status = "running" /\ script = "package" /\ block > Len(Script) /\ WholeOutputs => Packaging
  /\ status = "running" /\ script = "package" => PackageOnly
  /\ SourcesWhole /\ DoneIsWhole

-----------------------------------------------------------------------------
(* The scripts. *)

LEMMA KeptFiles ==
  /\ Renamed \subseteq Kept /\ Kept \subseteq Names /\ Others \subseteq Names
  /\ \A f \in Kept : f \notin Others
<1>1. \A f \in Renamed : f \notin Others
  BY DEF Renamed, Others
<1>2. \A f \in FFmpegLibs \cup PythonLibs : f \notin Others
  BY DEF FFmpegLibs, PythonLibs, Others
<1>3. \A f \in {"mbedtls-source", "x264-source", "lame-3.100", "ffmpeg-source", "python-host",
                 "python-target"} : f \notin Others
  BY DEF Others
<1> QED BY <1>1, <1>2, <1>3 DEF Kept, Names

LEMMA OneStep ==
  ASSUME NEW f \in Kept \ Renamed, NEW in \in SUBSET Names
  PROVE  Unless(f, <<Make(f, in)>>) \in OrderlyBlock
<1> DEFINE s == <<Make(f, in)>>
           b == Unless(f, s)
<1>1. Make(f, in) \in StepData
  BY KeptFiles DEF Make, StepData
<1>2. s \in Seq(StepData) /\ DOMAIN s = {1} /\ s[1] = Make(f, in)
  BY <1>1
<1>3. s[1].op = "make" /\ s[1].out = f /\ s[1].in = in
  BY <1>2 DEF Make
<1>4. b.unless = {f} /\ b.steps = s /\ b \in [unless : SUBSET Names, steps : Seq(StepData)]
  BY <1>2, KeptFiles DEF Unless
<1> HIDE DEF s, b
<1>5. MovesWhatWasMade(s)
  BY <1>2, <1>3 DEF MovesWhatWasMade
<1>6. FinishesOnce(s)
  BY <1>2, <1>3 DEF FinishesOnce
<1>7. Guarded(b)
  BY <1>2, <1>3, <1>4 DEF Guarded
<1>8. b \in OrderlyBlock
  BY <1>2, <1>4, <1>5, <1>6, <1>7 DEF OrderlyBlock, Orderly
<1> QED BY <1>8 DEF b, s

LEMMA Downloads ==
  ASSUME NEW f \in Renamed, NEW tgz \in Others, NEW dir \in Others
  PROVE  Download(tgz, dir, f) \in OrderlyBlock
<1> DEFINE s == <<Wget(tgz), Make(dir, {tgz}), Rename(dir, f), Remove(tgz)>>
           b == Unless(f, s)
<1>1. /\ Wget(tgz) \in StepData /\ Make(dir, {tgz}) \in StepData
      /\ Rename(dir, f) \in StepData /\ Remove(tgz) \in StepData
  BY KeptFiles DEF Wget, Make, Rename, Remove, StepData
<1>a. s \in Seq(StepData)
  BY <1>1
<1>2. /\ s \in Seq(StepData) /\ DOMAIN s = 1..4
      /\ s[1] = Wget(tgz) /\ s[2] = Make(dir, {tgz}) /\ s[3] = Rename(dir, f) /\ s[4] = Remove(tgz)
  BY <1>a
<1>3. /\ s[1].op = "wget" /\ s[2].op = "make" /\ s[3].op = "move" /\ s[4].op = "remove"
      /\ s[1].out = tgz /\ s[2].out = dir /\ s[3].out = f /\ s[4].out = tgz
      /\ s[3].in = {dir}
  BY <1>2 DEF Wget, Make, Rename, Remove
<1>4. b.unless = {f} /\ b.steps = s /\ b \in [unless : SUBSET Names, steps : Seq(StepData)]
  BY <1>2, KeptFiles DEF Unless
<1> HIDE DEF s, b
<1>5. \A i \in DOMAIN s : i = 1 \/ i = 2 \/ i = 3 \/ i = 4
  BY <1>2
<1>6. MovesWhatWasMade(s)
  <2> SUFFICES ASSUME NEW i \in DOMAIN s, s[i].op = "move"
               PROVE  /\ \E g \in Others : s[i].in = {g}
                      /\ s[i].out \in Renamed /\ i # 1 => s[i - 1].op = "make" /\ s[i].in = {s[i - 1].out}
    BY DEF MovesWhatWasMade
  <2>1. i = 3
    BY <1>3, <1>5
  <2> QED BY <2>1, <1>3
<1>7. FinishesOnce(s)
  BY <1>3, <1>5, KeptFiles DEF FinishesOnce
<1>8. Guarded(b)
  BY <1>3, <1>4, <1>5, KeptFiles DEF Guarded
<1>9. b \in OrderlyBlock
  BY <1>2, <1>4, <1>6, <1>7, <1>8 DEF OrderlyBlock, Orderly
<1> QED BY <1>9 DEF b, s, Download

\* A block without moves, which writes what is kept at most in its first step
\* or completes it in its last.
LEMMA Blocks ==
  ASSUME NEW b \in [unless : SUBSET Names, steps : Seq(StepData)],
         \A i \in DOMAIN b.steps : b.steps[i].op # "move",
         \A i \in DOMAIN b.steps : b.steps[i].out \in Kept =>
           /\ b.steps[i].op \in {"make", "begin"} /\ b.steps[i].out \in b.unless \ Renamed
           /\ \A j \in DOMAIN b.steps : i < j /\ b.steps[j].out = b.steps[i].out => b.steps[i].op = "begin"
  PROVE  b \in OrderlyBlock
BY DEF OrderlyBlock, Orderly, MovesWhatWasMade, FinishesOnce, Guarded

LEMMA TwoSteps ==
  ASSUME NEW u \in SUBSET Names, NEW s \in StepData, NEW t \in StepData,
         s.op # "move", t.op # "move",
         s.out \in Kept => s.op \in {"make", "begin"} /\ s.out \in u \ Renamed,
         t.out \in Kept => t.op \in {"make", "begin"} /\ t.out \in u \ Renamed,
         s.out = t.out /\ s.out \in Kept => s.op = "begin",
         NEW b, b = [unless |-> u, steps |-> <<s, t>>]
  PROVE  b \in OrderlyBlock
<1> DEFINE l == <<s, t>>
<1>1. l \in Seq(StepData)
  OBVIOUS
<1>2. DOMAIN l = 1..2 /\ l[1] = s /\ l[2] = t
  BY <1>1
<1>3. b \in [unless : SUBSET Names, steps : Seq(StepData)] /\ b.steps = l /\ b.unless = u
  BY <1>1
<1> HIDE DEF l
<1>4. \A i \in DOMAIN l : i = 1 \/ i = 2
  BY <1>2
<1> QED BY <1>2, <1>3, <1>4, Blocks

LEMMA ThreeSteps ==
  ASSUME NEW u \in SUBSET Names, NEW s \in StepData, NEW t \in StepData, NEW v \in StepData,
         s.op # "move", t.op # "move", v.op # "move", s.out \notin Kept,
         t.out \in Kept => t.op \in {"make", "begin"} /\ t.out \in u \ Renamed,
         v.out \in Kept => v.op \in {"make", "begin"} /\ v.out \in u \ Renamed,
         t.out = v.out /\ t.out \in Kept => t.op = "begin",
         NEW b, b = [unless |-> u, steps |-> <<s, t, v>>]
  PROVE  b \in OrderlyBlock
<1> DEFINE l == <<s, t, v>>
<1>1. l \in Seq(StepData)
  OBVIOUS
<1>2. DOMAIN l = 1..3 /\ l[1] = s /\ l[2] = t /\ l[3] = v
  BY <1>1
<1>3. b \in [unless : SUBSET Names, steps : Seq(StepData)] /\ b.steps = l /\ b.unless = u
  BY <1>1
<1> HIDE DEF l
<1>4. \A i \in DOMAIN l : i = 1 \/ i = 2 \/ i = 3
  BY <1>2
<1>5. \A i \in DOMAIN l : l[i].op # "move"
  BY <1>2, <1>4
<1>6. ASSUME NEW i \in DOMAIN l, l[i].out \in Kept
      PROVE  /\ l[i].op \in {"make", "begin"} /\ l[i].out \in u \ Renamed
             /\ \A j \in DOMAIN l : i < j /\ l[j].out = l[i].out => l[i].op = "begin"
  <2>1. i = 2 \/ i = 3
    BY <1>2, <1>4, <1>6
  <2>2. l[i].op \in {"make", "begin"} /\ l[i].out \in u \ Renamed
    BY <1>2, <1>6, <2>1
  <2> QED BY <1>2, <1>4, <1>6, <2>1, <2>2
<1> QED BY <1>3, <1>5, <1>6, Blocks

LEMMA FFmpegBlocks ==
  Mbedtls \in Seq(OrderlyBlock) /\ X264 \in Seq(OrderlyBlock) /\ Lame \in Seq(OrderlyBlock)
  /\ FFmpeg \in Seq(OrderlyBlock)
<1> DEFINE S == OrderlyBlock
<1>1. /\ {"mbedtls-source", "mbedtls_install", "x264-source", "x264_install", "lame-3.100",
          "lame_install", "ffmpeg-source"} \subseteq Kept \ Renamed
      /\ FFmpegLibs \subseteq Kept
  BY DEF Kept, Renamed, FFmpegLibs
<1>2. {"lame.tgz", "ffmpeg", "libffmpeg.so"} \subseteq Others
  BY DEF Others
<1>3. Unless("mbedtls-source", <<Begin("mbedtls-source", {}), Make("mbedtls-source", {})>>) \in S
  BY <1>1, KeptFiles, TwoSteps DEF Unless, Begin, Make, StepData
<1>4. Unless("lame-3.100", <<Wget("lame.tgz"), Begin("lame-3.100", {"lame.tgz"}),
                             Make("lame-3.100", {})>>) \in S
  BY <1>1, <1>2, KeptFiles, ThreeSteps DEF Unless, Wget, Begin, Make, StepData
<1>5. Always(<<Make("ffmpeg", {"ffmpeg-source"} \cup FFmpegLibs), Copy("ffmpeg", "libffmpeg.so")>>) \in S
  BY <1>1, <1>2, KeptFiles, TwoSteps DEF Always, Copy, Make, StepData
<1>6. \A f \in Kept : {f} \in SUBSET Names
  BY KeptFiles
<1>7. /\ Unless("mbedtls_install", <<Make("mbedtls_install", {"mbedtls-source"})>>) \in S
      /\ Unless("x264-source", <<Make("x264-source", {})>>) \in S
      /\ Unless("x264_install", <<Make("x264_install", {"x264-source"})>>) \in S
      /\ Unless("lame_install", <<Make("lame_install", {"lame-3.100"})>>) \in S
      /\ Unless("ffmpeg-source", <<Make("ffmpeg-source", {})>>) \in S
  BY <1>1, <1>6, OneStep
<1> HIDE DEF S
<1>8. Mbedtls \in Seq(S)
  BY <1>3, <1>7 DEF Mbedtls
<1>9. X264 \in Seq(S)
  BY <1>7 DEF X264
<1>10. Lame \in Seq(S)
  BY <1>4, <1>7 DEF Lame
<1>11. FFmpeg \in Seq(S)
  BY <1>5, <1>7 DEF FFmpeg
<1> QED BY <1>8, <1>9, <1>10, <1>11 DEF S

LEMMA PythonBlocks == Python \in Seq(OrderlyBlock)
<1> DEFINE S == OrderlyBlock
<1>1. /\ {"libz.a", "libffi.a", "libssl.a", "python-host", "python-target"} \subseteq Kept \ Renamed
      /\ {"zlib-source", "libffi-source", "openssl-source", "python-source"} \subseteq Renamed
      /\ PythonLibs \subseteq Kept
  BY DEF Kept, Renamed, FFmpegLibs, PythonLibs
<1>2. {"zlib.tgz", "zlib", "libffi.tgz", "libffi", "openssl.tgz", "openssl", "Python.txz", "Python",
       "stdlib", "libpython.so", "lib.zip", "libpython.zip.so"} \subseteq Others
  BY DEF Others
<1>3. /\ Download("zlib.tgz", "zlib", "zlib-source") \in S
      /\ Download("libffi.tgz", "libffi", "libffi-source") \in S
      /\ Download("openssl.tgz", "openssl", "openssl-source") \in S
      /\ Download("Python.txz", "Python", "python-source") \in S
  BY <1>1, <1>2, Downloads
<1>4. \A f \in Renamed : {f} \in SUBSET Names
  BY KeptFiles
<1>5. /\ Static("zlib-source", "libz.a") \in S
      /\ Static("libffi-source", "libffi.a") \in S
      /\ Static("openssl-source", "libssl.a") \in S
      /\ Unless("python-host", <<Make("python-host", {"python-source"})>>) \in S
  BY <1>1, <1>4, OneStep DEF Static
<1>6. Unless("python-target", <<Make("python-target", {"python-source", "python-host"} \cup PythonLibs),
                                Make("stdlib", {"python-target"})>>) \in S
  BY <1>1, <1>2, KeptFiles, TwoSteps DEF Unless, Make, StepData
<1>7. Always(<<Copy("python-target", "libpython.so"), Copy("stdlib", "lib.zip"),
               Copy("lib.zip", "libpython.zip.so")>>) \in S
  BY <1>1, <1>2, KeptFiles, ThreeSteps DEF Always, Copy, StepData
<1> HIDE DEF S
<1>8. Python \in Seq(S)
  BY <1>3, <1>5, <1>6, <1>7 DEF Python
<1> QED BY <1>8 DEF S

LEMMA QuickJSBlocks == QuickJS \in Seq(OrderlyBlock)
<1>1. "quickjs-source" \in Renamed
  BY DEF Renamed
<1>2. {"quickjs.txz", "quickjs-2024-01-13", "libqjs", "libqjs.so"} \subseteq Others
  BY DEF Others
<1>3. Download("quickjs.txz", "quickjs-2024-01-13", "quickjs-source") \in OrderlyBlock
  BY <1>1, <1>2, Downloads
<1>4. Always(<<Make("libqjs", {"quickjs-source"}), Copy("libqjs", "libqjs.so")>>) \in OrderlyBlock
  BY <1>1, <1>2, KeptFiles, TwoSteps DEF Always, Copy, Make, StepData
<1> QED BY <1>3, <1>4 DEF QuickJS

LEMMA PackageSteps ==
  ASSUME NEW p \in {"ffmpeg", "python", "quickjs"}
  PROVE  LET k == [op |-> "repair", out |-> "apk.fixed", in |-> {"apk"}]
             v == Rename("apk.fixed", "apk")
             last == IF p = "ffmpeg" THEN <<k, v>> ELSE <<>>
         IN /\ {Require(Outputs(p)), Gradle(Outputs(p)), k, v} \subseteq StepData
            /\ last \in Seq(StepData) /\ last = IF p = "ffmpeg" THEN FixPermissions ELSE <<>>
<1> DEFINE k == [op |-> "repair", out |-> "apk.fixed", in |-> {"apk"}]
           v == Rename("apk.fixed", "apk")
           last == IF p = "ffmpeg" THEN <<k, v>> ELSE <<>>
<1>1. Outputs(p) \subseteq Names /\ {"apk", "apk.fixed"} \subseteq Names
  BY KeptFiles DEF Outputs, Others
<1>2. Require(Outputs(p)) \in StepData /\ Gradle(Outputs(p)) \in StepData
  BY <1>1 DEF Require, Gradle, StepData
<1>3. k \in StepData /\ v \in StepData
  BY <1>1 DEF Rename, StepData
<1>4. <<k, v>> \in Seq(StepData)
  BY <1>3
<1>5. last = IF p = "ffmpeg" THEN FixPermissions ELSE <<>>
  BY DEF FixPermissions
<1> QED BY <1>2, <1>3, <1>4, <1>5

LEMMA PackageBlocks ==
  ASSUME NEW p \in {"ffmpeg", "python", "quickjs"}
  PROVE  /\ PackageApk(p) \in Seq(OrderlyBlock) /\ Len(PackageApk(p)) = 1
         /\ PackageApk(p)[1].unless = {}
         /\ PackageApk(p)[1].steps = <<Require(Outputs(p)), Gradle(Outputs(p))>>
                                      \o IF p = "ffmpeg" THEN FixPermissions ELSE <<>>
         /\ \A i \in DOMAIN PackageApk(p)[1].steps :
              /\ PackageApk(p)[1].steps[i].out \in {"apk", "apk.fixed"}
              /\ PackageApk(p)[1].steps[i].op = "move" => PackageApk(p)[1].steps[i].in = {"apk.fixed"}
<1> DEFINE r == Require(Outputs(p))
           g == Gradle(Outputs(p))
           k == [op |-> "repair", out |-> "apk.fixed", in |-> {"apk"}]
           v == Rename("apk.fixed", "apk")
           s == <<r, g>> \o IF p = "ffmpeg" THEN FixPermissions ELSE <<>>
           b == [unless |-> {}, steps |-> s]
<1>1. "apk" \in Others /\ "apk.fixed" \in Others /\ Outputs(p) \subseteq Others
  BY DEF Others, Outputs
<1>2. /\ r \in StepData /\ r.op = "require" /\ r.out = "apk"
      /\ g \in StepData /\ g.op = "gradle" /\ g.out = "apk"
      /\ k \in StepData /\ k.op = "repair" /\ k.out = "apk.fixed"
      /\ v \in StepData /\ v.op = "move" /\ v.out = "apk" /\ v.in = {"apk.fixed"}
  BY <1>1, KeptFiles DEF Require, Gradle, Rename, StepData
<1> HIDE DEF r, g, k, v
<1>3. ASSUME p = "ffmpeg"
      PROVE  s \in Seq(StepData) /\ Len(s) = 4 /\ s[1] = r /\ s[2] = g /\ s[3] = k /\ s[4] = v
  <2> DEFINE x == <<r, g>>
             y == <<k, v>>
  <2>1. /\ x \in Seq(StepData) /\ Len(x) = 2 /\ x[1] = r /\ x[2] = g
        /\ y \in Seq(StepData) /\ Len(y) = 2 /\ y[1] = k /\ y[2] = v
    BY <1>2
  <2>2. s = x \o y
    BY <1>3 DEF FixPermissions, k, v, s
  <2> HIDE DEF x, y, s
  <2>3. /\ x \o y \in Seq(StepData) /\ Len(x \o y) = Len(x) + Len(y)
        /\ \A i \in 1..(Len(x) + Len(y)) : (x \o y)[i] = IF i <= Len(x) THEN x[i] ELSE y[i - Len(x)]
    BY ONLY <2>1, ConcatProperties
  <2>4. s \in Seq(StepData) /\ Len(s) = 4
    BY <2>1, <2>2, <2>3
  <2>5. s[1] = r /\ s[2] = g /\ s[3] = k /\ s[4] = v
    BY <2>1, <2>2, <2>3
  <2> QED BY <2>4, <2>5
<1>3a. ASSUME p # "ffmpeg"
       PROVE  s \in Seq(StepData) /\ Len(s) = 2 /\ s[1] = r /\ s[2] = g
  <2>1. <<r, g>> \in Seq(StepData)
    BY <1>2
  <2>2. s = <<r, g>> \o <<>>
    BY <1>3a DEF s
  <2> HIDE DEF s
  <2>3. <<r, g>> \o <<>> = <<r, g>>
    BY ONLY <2>1, ConcatEmptySeq
  <2> QED BY <2>1, <2>2, <2>3
<1> HIDE DEF s
<1>4. /\ s \in Seq(StepData) /\ s[1] = r /\ s[2] = g
      /\ DOMAIN s = IF p = "ffmpeg" THEN 1..4 ELSE 1..2
      /\ p = "ffmpeg" => s[3] = k /\ s[4] = v
  BY <1>3, <1>3a
<1>5. \A i \in DOMAIN s : i = 1 \/ i = 2 \/ (i = 3 /\ p = "ffmpeg") \/ (i = 4 /\ p = "ffmpeg")
  BY <1>4
<1>6. \A i \in DOMAIN s : /\ s[i].out \in {"apk", "apk.fixed"}
                          /\ s[i].op = "move" => s[i].in = {"apk.fixed"}
  BY <1>2, <1>4, <1>5
<1>7. MovesWhatWasMade(s)
  <2> SUFFICES ASSUME NEW i \in DOMAIN s, s[i].op = "move"
               PROVE  /\ \E f \in Others : s[i].in = {f}
                      /\ s[i].out \in Renamed /\ i # 1 => s[i - 1].op = "make" /\ s[i].in = {s[i - 1].out}
    BY DEF MovesWhatWasMade
  <2>1. i = 4 /\ p = "ffmpeg"
    BY <1>2, <1>4, <1>5
  <2> QED BY <2>1, <1>1, <1>2, <1>4, KeptFiles
<1>8. \A i \in DOMAIN s : s[i].out \notin Kept
  BY <1>1, <1>6, KeptFiles
<1>9. s[1].op # "move"
  BY <1>2, <1>4
<1>10. b \in OrderlyBlock
  BY <1>4, <1>7, <1>8, <1>9 DEF OrderlyBlock, Orderly, FinishesOnce, Guarded
<1>11. PackageApk(p) = <<b>>
  BY DEF PackageApk, Always, s, r, g
<1> HIDE DEF b
<1>12. <<b>> \in Seq(OrderlyBlock) /\ Len(<<b>>) = 1 /\ <<b>>[1] = b
  BY <1>10
<1>13. PackageApk(p)[1].steps = s
  BY <1>11, <1>12 DEF b
<1>14. s = <<Require(Outputs(p)), Gradle(Outputs(p))>> \o IF p = "ffmpeg" THEN FixPermissions ELSE <<>>
  BY DEF s, r, g
<1>15. \A i \in DOMAIN PackageApk(p)[1].steps :
         /\ PackageApk(p)[1].steps[i].out \in {"apk", "apk.fixed"}
         /\ PackageApk(p)[1].steps[i].op = "move" => PackageApk(p)[1].steps[i].in = {"apk.fixed"}
  BY ONLY <1>6, <1>13
<1>16. PackageApk(p)[1].unless = {}
  BY <1>11, <1>12 DEF b
<1>17. PackageApk(p)[1].steps = <<Require(Outputs(p)), Gradle(Outputs(p))>>
                                \o IF p = "ffmpeg" THEN FixPermissions ELSE <<>>
  BY ONLY <1>13, <1>14
<1>18. PackageApk(p) \in Seq(OrderlyBlock) /\ Len(PackageApk(p)) = 1
  BY ONLY <1>11, <1>12
<1> QED BY ONLY <1>15, <1>16, <1>17, <1>18

\* Every script is a list of such blocks, of files of its package; the last
\* block of a build makes the output.
LEMMA ScriptBlocks ==
  ASSUME NEW p \in {"ffmpeg", "python", "quickjs"}, NEW t \in {"build", "package"}
  PROVE  /\ ScriptOf(p, t) \in Seq(OrderlyBlock)
         /\ \A i \in DOMAIN ScriptOf(p, t) : \A j \in DOMAIN ScriptOf(p, t)[i].steps :
              ScriptOf(p, t)[i].steps[j].out \in FilesOf(p) /\ ScriptOf(p, t)[i].steps[j].in \subseteq FilesOf(p)
<1>1. ScriptOf(p, t) \in Seq(OrderlyBlock)
  <2>1. CASE t = "package"
    BY <2>1, PackageBlocks DEF ScriptOf
  <2>2. CASE t = "build" /\ p = "ffmpeg"
    <3>1. (Mbedtls \o X264 \o Lame \o FFmpeg) \in Seq(OrderlyBlock)
      BY FFmpegBlocks
    <3> QED BY <3>1, <2>2 DEF ScriptOf
  <2>3. CASE t = "build" /\ p = "python"
    BY <2>3, PythonBlocks DEF ScriptOf
  <2>4. CASE t = "build" /\ p = "quickjs"
    BY <2>4, QuickJSBlocks DEF ScriptOf
  <2> QED BY <2>1, <2>2, <2>3, <2>4
<1>2. ASSUME NEW i \in DOMAIN ScriptOf(p, t), NEW j \in DOMAIN ScriptOf(p, t)[i].steps
      PROVE  LET s == ScriptOf(p, t)[i].steps[j] IN {s.out} \cup s.in \subseteq FilesOf(p)
  <2> DEFINE bs == UNION {{ScriptOf(p, u)[l] : l \in DOMAIN ScriptOf(p, u)} : u \in {"build", "package"}}
             b == ScriptOf(p, t)[i]
             s == b.steps[j]
  <2>1. b \in bs
    OBVIOUS
  <2>2. s \in Steps(b)
    BY DEF Steps
  <2>3. FilesOf(p) = UNION {{x.out} \cup x.in : x \in UNION {Steps(y) : y \in bs}}
    BY DEF FilesOf
  <2> HIDE DEF bs, b, s
  <2>4. {s.out} \cup s.in \subseteq FilesOf(p)
    BY <2>1, <2>2, <2>3
  <2> QED BY <2>4 DEF s, b
<1> QED BY <1>1, <1>2

\* The last block of a build.
LEMMA LastBlock ==
  ASSUME NEW p \in {"ffmpeg", "quickjs"}
  PROVE  LET bs == ScriptOf(p, "build")
         IN bs # <<>> /\ bs[Len(bs)] = Always(
              IF p = "ffmpeg" THEN <<Make("ffmpeg", {"ffmpeg-source"} \cup FFmpegLibs),
                                     Copy("ffmpeg", "libffmpeg.so")>>
                              ELSE <<Make("libqjs", {"quickjs-source"}), Copy("libqjs", "libqjs.so")>>)
<1> DEFINE S == OrderlyBlock
           f == Always(<<Make("ffmpeg", {"ffmpeg-source"} \cup FFmpegLibs), Copy("ffmpeg", "libffmpeg.so")>>)
           q == Always(<<Make("libqjs", {"quickjs-source"}), Copy("libqjs", "libqjs.so")>>)
           a == Mbedtls \o X264 \o Lame
<1>1. a \in Seq(S)
  BY FFmpegBlocks
<1>2. FFmpeg \in Seq(S) /\ Len(FFmpeg) = 2 /\ FFmpeg[2] = f
  BY FFmpegBlocks DEF FFmpeg
<1>3. QuickJS # <<>> /\ QuickJS[Len(QuickJS)] = q
  BY DEF QuickJS
<1>4. ScriptOf("quickjs", "build") = QuickJS /\ ScriptOf("ffmpeg", "build") = a \o FFmpeg
  BY DEF ScriptOf
<1> HIDE DEF S, f, q, a
<1>5. a \o FFmpeg # <<>> /\ (a \o FFmpeg)[Len(a \o FFmpeg)] = f
  <2>1. /\ a \o FFmpeg \in Seq(S) /\ Len(a \o FFmpeg) = Len(a) + Len(FFmpeg)
        /\ \A i \in 1..(Len(a) + Len(FFmpeg)) :
             (a \o FFmpeg)[i] = IF i <= Len(a) THEN a[i] ELSE FFmpeg[i - Len(a)]
    BY ONLY <1>1, <1>2, ConcatProperties
  <2>2. Len(a) \in Nat
    BY <1>1
  <2>3. (a \o FFmpeg)[Len(a) + 2] = FFmpeg[2] /\ Len(a \o FFmpeg) = Len(a) + 2
    BY <2>1, <2>2, <1>2
  <2> QED BY <2>1, <2>2, <2>3, <1>2
<1> QED BY <1>3, <1>4, <1>5 DEF f, q

-----------------------------------------------------------------------------
(* The steps. *)

LEMMA Ranges ==
  ASSUME ScriptInv
  PROVE  /\ package \in {"ffmpeg", "python", "quickjs"}
         /\ Script \in Seq(OrderlyBlock) /\ Len(Script) \in Nat
         /\ FilesOf(package) \subseteq Path
         /\ \A i \in DOMAIN Script : \A j \in DOMAIN Script[i].steps :
              Script[i].steps[j].out \in Path /\ Script[i].steps[j].in \subseteq Path
<1>1. package \in {"ffmpeg", "python", "quickjs"} /\ package \in Scripted /\ script \in {"build", "package"}
  BY ScriptsAssumption DEF ScriptInv
<1>2. FilesOf(package) \subseteq Path
  BY <1>1 DEF Path
<1>3. /\ Script \in Seq(OrderlyBlock)
      /\ \A i \in DOMAIN Script : \A j \in DOMAIN Script[i].steps :
           Script[i].steps[j].out \in FilesOf(package) /\ Script[i].steps[j].in \subseteq FilesOf(package)
  BY <1>1, ScriptBlocks DEF Script
<1>4. Len(Script) \in Nat
  BY <1>3
<1> QED BY <1>1, <1>2, <1>3, <1>4

LEMMA ScriptsInitInv == BuildInit => ScriptInv
BY ScriptsAssumption DEF BuildInit, ScriptInv, SourcesWhole, DoneIsWhole, BuiltWhole, PackagedWhole

\* There is a block to begin with.
LEMMA Longer ==
  ASSUME NEW p \in {"ffmpeg", "python", "quickjs"}, NEW t \in {"build", "package"},
         t = "build" => p # "python"
  PROVE  Len(ScriptOf(p, t)) \in Nat /\ Len(ScriptOf(p, t)) >= 1
<1>1. ScriptOf(p, t) \in Seq(OrderlyBlock)
  BY ScriptBlocks
<1>2. CASE t = "package"
  BY <1>2, PackageBlocks DEF ScriptOf
<1>3. CASE t = "build"
  <2>1. ScriptOf(p, t) # <<>>
    BY <1>3, LastBlock
  <2> QED BY <1>1, <2>1
<1> QED BY <1>2, <1>3

\* A run begins, or fails, or is stopped.
LEMMA StillInv ==
  ASSUME ScriptInv, disk' = [f \in Path |-> disk'[f]], SourcesWhole', package' = package,
         script' \in {"build", "package"}, block' \in Nat \ {0},
         status' = "failed" \/ (status' = "running" /\ rest' = <<>> /\ block' = 1)
  PROVE  ScriptInv'
<1>1. DoneIsWhole'
  BY DEF DoneIsWhole, BuiltWhole, PackagedWhole
<1>2. CASE status' = "failed"
  BY <1>1, <1>2 DEF ScriptInv
<1>3. CASE status' = "running" /\ rest' = <<>> /\ block' = 1
  <2>1. DOMAIN rest' = {} /\ rest' \in Seq(StepData)
    BY <1>3
  <2>2. Rest' /\ PackageOnly'
    BY <2>1, <1>3 DEF Rest, PackageOnly, Orderly, MovesWhatWasMade, FinishesOnce
  <2>3. package' \in {"ffmpeg", "python", "quickjs"}
    BY Ranges
  <2>4. script' = "package" \/ package' # "python" => Len(Script') \in Nat /\ Len(Script') >= 1
    BY <2>3, Longer DEF Script
  <2>5. (status = "running" /\ script = "build" /\ block > Len(Script) => Building)'
    BY <2>3, <2>4, <1>3 DEF Building
  <2>6. (status = "running" /\ script = "package" /\ block > Len(Script) /\ WholeOutputs => Packaging)'
    BY <2>4, <1>3
  <2> QED BY <1>1, <1>3, <2>2, <2>5, <2>6 DEF ScriptInv
<1> QED BY <1>2, <1>3

\* What a step that does not fail makes of the files.
LEMMA Does ==
  ASSUME disk = [f \in Path |-> disk[f]], NEW s, s \in StepData, s.out \in Path, ~Fails(s),
         s.op = "move" => \E f \in Others : s.in = {f}, NEW d, d = Done(s)
  PROVE  /\ d = [f \in Path |-> d[f]]
         /\ \A f \in Path : f # s.out /\ (s.op = "move" => f \notin s.in) => d[f] = disk[f]
         /\ s.op = "make" => d[s.out] = "complete"
         /\ s.op = "begin" => d[s.out] = "broken"
         /\ \A f : s.op \in {"copy", "move"} /\ s.in = {f} /\ f # s.out => d[s.out] = disk[f]
         /\ s.op = "gradle" /\ (\A f \in s.in : disk[f] = "complete") => d[s.out] = "stripped"
         /\ s.op = "repair" /\ disk["apk"] = "stripped" => d[s.out] = "complete"
         /\ s.op = "require" => d = disk
<1>1. \A f : (CHOOSE g \in {f} : TRUE) = f
  OBVIOUS
<1>2. CASE s.op \in {"make", "begin", "wget", "remove"}
  BY <1>2 DEF Done, Fails
<1>3. CASE s.op \in {"gradle", "repair", "require"}
  BY <1>3 DEF Done
<1>4. CASE s.op = "copy"
  BY <1>1, <1>4 DEF Done
<1>5. CASE s.op = "move"
  <2>1. PICK g : s.in = {g}
    BY <1>5
  <2>2. d = [disk EXCEPT ![s.out] = disk[g], ![g] = "absent"]
    BY <1>1, <1>5, <2>1 DEF Done
  <2> QED BY <2>1, <2>2, <1>5
<1> QED BY <1>2, <1>3, <1>4, <1>5 DEF StepData

\* The first of the steps left, and those after it.
LEMMA HeadTail ==
  ASSUME NEW s, Orderly(s), s # <<>>
  PROVE  /\ Head(s) = s[1] /\ s[1] \in StepData /\ 1 \in DOMAIN s
         /\ Len(Tail(s)) = Len(s) - 1 /\ Len(s) \in Nat
         /\ \A i \in DOMAIN Tail(s) : i \in Nat \ {0} /\ i + 1 \in DOMAIN s /\ Tail(s)[i] = s[i + 1]
         /\ Orderly(Tail(s))
<1>1. s \in Seq(StepData)
  BY DEF Orderly
<1>2. /\ Head(s) = s[1] /\ s[1] \in StepData /\ 1 \in DOMAIN s /\ Len(s) \in Nat
      /\ Tail(s) \in Seq(StepData) /\ Len(Tail(s)) = Len(s) - 1
  BY <1>1
<1>3. \A i \in DOMAIN Tail(s) : i \in Nat \ {0} /\ i + 1 \in DOMAIN s /\ Tail(s)[i] = s[i + 1]
  BY <1>1, <1>2
<1> DEFINE t == Tail(s)
<1>4. t \in Seq(StepData) /\ \A i \in DOMAIN t : i \in Nat \ {0} /\ i + 1 \in DOMAIN s /\ t[i] = s[i + 1]
  BY <1>2, <1>3
<1>5. \A i \in DOMAIN t : i # 1 => i - 1 \in DOMAIN t /\ t[i - 1] = s[i]
  BY <1>1, <1>2, <1>4
<1> HIDE DEF t
<1>6. MovesWhatWasMade(t)
  <2> SUFFICES ASSUME NEW i \in DOMAIN t, t[i].op = "move"
               PROVE  /\ \E f \in Others : t[i].in = {f}
                      /\ t[i].out \in Renamed /\ i # 1 => t[i - 1].op = "make" /\ t[i].in = {t[i - 1].out}
    BY DEF MovesWhatWasMade
  <2>1. i + 1 \in DOMAIN s /\ t[i] = s[i + 1] /\ i + 1 # 1 /\ (i + 1) - 1 = i
    BY <1>4
  <2>2. /\ \E f \in Others : s[i + 1].in = {f}
        /\ s[i + 1].out \in Renamed => s[i].op = "make" /\ s[i + 1].in = {s[i].out}
    BY <2>1 DEF Orderly, MovesWhatWasMade
  <2> QED BY <2>1, <2>2, <1>5
<1>7. FinishesOnce(t)
  <2> SUFFICES ASSUME NEW i \in DOMAIN t, t[i].out \in Kept
               PROVE  /\ t[i].op \in {"make", "begin", "move"} /\ (t[i].out \in Renamed => t[i].op = "move")
                      /\ \A j \in DOMAIN t : i < j /\ t[j].out = t[i].out => t[i].op = "begin"
    BY DEF FinishesOnce
  <2>1. i + 1 \in DOMAIN s /\ t[i] = s[i + 1]
    BY <1>4
  <2>2. \A j \in DOMAIN t : j + 1 \in DOMAIN s /\ t[j] = s[j + 1] /\ (i < j => i + 1 < j + 1)
    BY <1>4
  <2> QED BY <2>1, <2>2 DEF Orderly, FinishesOnce
<1>8. Orderly(t)
  BY <1>4, <1>6, <1>7 DEF Orderly
<1> QED BY <1>2, <1>3, <1>8 DEF t

\* What a step that is next, and does not fail, leaves alone.
LEMMA StepDoes ==
  ASSUME ScriptInv, status = "running", rest # <<>>, ~Fails(Head(rest)), disk' = Done(Head(rest))
  PROVE  /\ rest[1] \in StepData /\ 1 \in DOMAIN rest /\ rest[1].out \in Path
         /\ disk' = [f \in Path |-> disk'[f]]
         /\ \A f \in Path : f # rest[1].out /\ (rest[1].op = "move" => f \notin rest[1].in) => disk'[f] = disk[f]
         /\ \A f \in Kept \cap Path : f # rest[1].out => disk'[f] = disk[f]
         /\ rest[1].out \in Kept => disk[rest[1].out] # "complete"
         /\ rest[1].op = "move" => \E f \in Others : rest[1].in = {f}
<1>1. Orderly(rest) /\ rest[1] \in StepData /\ Head(rest) = rest[1] /\ 1 \in DOMAIN rest
  BY HeadTail DEF ScriptInv, Rest
<1>2. /\ rest[1].out \in Path /\ disk = [f \in Path |-> disk[f]]
      /\ rest[1].out \in Kept => disk[rest[1].out] # "complete"
  BY <1>1 DEF ScriptInv, Rest
<1>3. rest[1].op = "move" => \E f \in Others : rest[1].in = {f}
  BY <1>1 DEF Orderly, MovesWhatWasMade
<1>4. /\ disk' = [f \in Path |-> disk'[f]]
      /\ \A f \in Path : f # rest[1].out /\ (rest[1].op = "move" => f \notin rest[1].in) => disk'[f] = disk[f]
  BY <1>1, <1>2, <1>3, Does
<1> QED BY <1>1, <1>2, <1>3, <1>4, KeptFiles

LEMMA StepRest ==
  ASSUME ScriptInv, status = "running", rest # <<>>, ~Fails(Head(rest)), disk' = Done(Head(rest)),
         rest' = Tail(rest)
  PROVE  Rest' /\ SourcesWhole'
<1> DEFINE s == rest[1]
<1>1. /\ s \in StepData /\ 1 \in DOMAIN rest /\ s.out \in Path
      /\ \A f \in Kept \cap Path : f # s.out => disk'[f] = disk[f]
      /\ s.op = "move" => \E f \in Others : s.in = {f}
  BY StepDoes
<1>2. /\ Orderly(rest) /\ \A i \in DOMAIN rest : rest[i].out \in Path
      /\ \A i \in DOMAIN rest : rest[i].out \in Kept => disk[rest[i].out] # "complete"
      /\ s.op = "move" /\ s.out \in Renamed => \A f \in s.in : disk[f] = "complete"
  BY DEF ScriptInv, Rest
<1>3. /\ Orderly(rest') /\ Head(rest) = s
      /\ \A i \in DOMAIN rest' : i \in Nat \ {0} /\ i + 1 \in DOMAIN rest /\ rest'[i] = rest[i + 1]
  BY <1>2, HeadTail
<1>4. disk = [f \in Path |-> disk[f]] /\ ~Fails(s) /\ disk' = Done(s)
  BY <1>3 DEF ScriptInv
<1> HIDE DEF s
<1>5. /\ s.op = "make" => disk'[s.out] = "complete"
      /\ s.op = "begin" => disk'[s.out] = "broken"
      /\ \A f : s.op = "move" /\ s.in = {f} /\ f # s.out => disk'[s.out] = disk[f]
  BY ONLY <1>1, <1>4, Does
<1>6. ASSUME NEW i \in DOMAIN rest', rest'[i].out \in Kept
      PROVE  disk'[rest'[i].out] # "complete"
  <2>1. i + 1 \in DOMAIN rest /\ rest'[i] = rest[i + 1] /\ 1 < i + 1
    BY <1>3
  <2>2. rest[i + 1].out \in Kept \cap Path /\ disk[rest[i + 1].out] # "complete"
    BY <2>1, <1>2, <1>6
  <2>3. CASE rest[i + 1].out # s.out
    BY <2>1, <2>2, <2>3, <1>1
  <2>4. CASE rest[i + 1].out = s.out
    <3>1. s.op = "begin"
      BY <2>1, <2>2, <2>4, <1>1, <1>2 DEF Orderly, FinishesOnce, s
    <3> QED BY <3>1, <2>1, <2>4, <1>5
  <2> QED BY <2>3, <2>4
<1>7. ASSUME rest' # <<>>, rest'[1].op = "move", rest'[1].out \in Renamed
      PROVE  \A f \in rest'[1].in : disk'[f] = "complete"
  <2>1. 1 \in DOMAIN rest'
    BY <1>3, <1>7, HeadTail
  <2>2. 2 \in DOMAIN rest /\ rest'[1] = rest[2] /\ rest[2].op = "move" /\ rest[2].out \in Renamed
    <3>1. 1 + 1 = 2
      OBVIOUS
    <3> QED BY <2>1, <3>1, <1>3, <1>7
  <2>3. rest[2 - 1].op = "make" /\ rest[2].in = {rest[2 - 1].out}
    BY <2>2, <1>2 DEF Orderly, MovesWhatWasMade
  <2>4. s.op = "make" /\ rest[2].in = {s.out}
    BY <2>3 DEF s
  <2> QED BY <2>2, <2>4, <1>5
<1>8. Rest'
  BY <1>2, <1>3, <1>6, <1>7 DEF Rest
<1>9. ASSUME NEW f \in Renamed \cap Path
      PROVE  disk'[f] # "broken"
  <2>1. f \in Kept \cap Path /\ disk[f] # "broken"
    BY KeptFiles DEF ScriptInv, SourcesWhole
  <2>2. CASE f # s.out
    BY <2>1, <2>2, <1>1
  <2>3. CASE f = s.out
    <3>1. s.op = "move"
      BY <2>1, <2>3, <1>1, <1>2 DEF Orderly, FinishesOnce, s
    <3>2. PICK g \in Others : s.in = {g}
      BY <3>1, <1>1
    <3>3. g # s.out
      BY <2>1, <2>3, KeptFiles
    <3>4. disk'[s.out] = "complete"
      BY <3>1, <3>2, <3>3, <2>3, <1>2, <1>5
    <3> QED BY <3>4, <2>3
  <2> QED BY <2>2, <2>3
<1> QED BY <1>8, <1>9 DEF SourcesWhole

\* The last block of a build makes a binary, and a copy of it.
LEMMA BuiltStep ==
  ASSUME ScriptInv, status = "running", rest # <<>>, ~Fails(Head(rest)), disk' = Done(Head(rest)),
         rest' = Tail(rest),
         NEW x \in Names, NEW y \in Names \ {x}, NEW in \in SUBSET Names, Built(x, in, y)
  PROVE  Built(x, in, y)'
<1> DEFINE m == Make(x, in)
           c == Copy(x, y)
<1>1. /\ m \in StepData /\ m.op = "make" /\ m.out = x
      /\ c \in StepData /\ c.op = "copy" /\ c.out = y /\ c.in = {x}
  BY DEF Make, Copy, StepData
<1>2. disk = [f \in Path |-> disk[f]] /\ rest[1].out \in Path
  BY StepDoes DEF ScriptInv
<1> HIDE DEF m, c
<1>3. CASE rest = <<m, c>>
  <2>1. Head(rest) = m /\ Tail(rest) = <<c>> /\ rest[1] = m
    BY <1>1, <1>3
  <2>2. disk'[x] = "complete"
    BY <2>1, <1>1, <1>2, Does
  <2> QED BY <2>1, <2>2 DEF Built, m, c
<1>4. CASE rest = <<c>> /\ disk[x] = "complete"
  <2>1. Head(rest) = c /\ Tail(rest) = <<>> /\ rest[1] = c
    BY <1>1, <1>4
  <2>2. disk'[y] = "complete"
    BY <2>1, <1>1, <1>2, <1>4, Does
  <2> QED BY <2>1, <2>2 DEF Built
<1> QED BY <1>3, <1>4 DEF Built, m, c

\* The first steps of a list that goes on with t.
LEMMA FirstSteps ==
  ASSUME NEW S, NEW a \in S, NEW b \in S, NEW t \in Seq(S)
  PROVE  /\ Head(<<a>> \o t) = a /\ Tail(<<a>> \o t) = t
         /\ Head(<<a, b>> \o t) = a /\ Tail(<<a, b>> \o t) = <<b>> \o t
<1>1. Head(<<a>> \o t) = a /\ Tail(<<a>> \o t) = t
  OBVIOUS
<1>2. Head(<<a, b>> \o t) = a
  OBVIOUS
<1>3. Tail(<<a, b>> \o t) = <<b>> \o t
  OBVIOUS
<1> QED BY <1>1, <1>2, <1>3


\* package_apk.sh writes the APK only.
LEMMA PackagedStep ==
  ASSUME ScriptInv, status = "running", rest # <<>>, ~Fails(Head(rest)), disk' = Done(Head(rest)),
         rest' = Tail(rest), package' = package, script = "package"
  PROVE  /\ PackageOnly'
         /\ WholeOutputs' => WholeOutputs
         /\ WholeOutputs /\ Packaging => Packaging'
<1> DEFINE p == package
           r == Require(Outputs(p))
           g == Gradle(Outputs(p))
           k == [op |-> "repair", out |-> "apk.fixed", in |-> {"apk"}]
           v == Rename("apk.fixed", "apk")
           last == IF p = "ffmpeg" THEN <<k, v>> ELSE <<>>
<1>1. /\ rest[1] \in StepData /\ 1 \in DOMAIN rest /\ rest[1].out \in Path
      /\ disk = [f \in Path |-> disk[f]] /\ PackageOnly /\ Orderly(rest)
      /\ \A f \in Path : f # rest[1].out /\ (rest[1].op = "move" => f \notin rest[1].in) => disk'[f] = disk[f]
  BY StepDoes DEF ScriptInv, Rest
<1>2. /\ p \in {"ffmpeg", "python", "quickjs"} /\ Outputs(p) \subseteq FilesOf(p)
      /\ Outputs(p) \subseteq Path /\ "apk" \notin Outputs(p) /\ "apk.fixed" \notin Outputs(p)
  <2>1. p \in {"ffmpeg", "python", "quickjs"} /\ FilesOf(p) \subseteq Path
    BY Ranges
  <2>2. /\ Outputs(p) \subseteq Others /\ "apk" \in Others /\ "apk.fixed" \in Others
        /\ "apk" \notin Outputs(p) /\ "apk.fixed" \notin Outputs(p)
    BY <2>1 DEF Outputs, Others
  <2>3. Outputs(p) \subseteq FilesOf(p)
    <3> DEFINE b == ScriptOf(p, "package")[1]
    <3>1. b.steps = <<r, g>> \o (IF p = "ffmpeg" THEN FixPermissions ELSE <<>>)
      BY <2>1, PackageBlocks DEF ScriptOf
    <3>2. 1 \in DOMAIN ScriptOf(p, "package")
      BY <2>1, PackageBlocks DEF ScriptOf
    <3>3. 1 \in DOMAIN b.steps /\ b.steps[1] = r
      BY <3>1 DEF FixPermissions
    <3>4. r.in = Outputs(p)
      BY DEF Require
    <3> QED BY <2>1, <3>2, <3>3, <3>4, ScriptBlocks
  <2> QED BY <2>1, <2>2, <2>3
<1>3. PackageOnly'
  BY <1>1, HeadTail DEF PackageOnly
<1>4. \A f \in Outputs(p) : disk'[f] = disk[f]
  BY <1>1, <1>2 DEF PackageOnly
<1>5. WholeOutputs' => WholeOutputs
  BY <1>4 DEF WholeOutputs
<1>6. ASSUME WholeOutputs, Packaging
      PROVE  Packaging'
  <2>1. /\ r.op = "require" /\ r.out = "apk"
        /\ g.op = "gradle" /\ g.out = "apk" /\ g.in = Outputs(p)
        /\ k.op = "repair" /\ k.out = "apk.fixed"
        /\ v.op = "move" /\ v.out = "apk" /\ v.in = {"apk.fixed"}
    BY DEF Require, Gradle, Rename
  <2>2. last = IF p = "ffmpeg" THEN FixPermissions ELSE <<>>
    BY DEF FixPermissions
  <2>3. {r, g, k, v} \subseteq StepData /\ last \in Seq(StepData)
    BY <1>2, PackageSteps
  <2>4. /\ ~Fails(Head(rest)) /\ disk' = Done(Head(rest)) /\ Head(rest) = rest[1]
    BY <1>1, HeadTail
  <2>5. \A f \in Outputs(p) : disk[f] = "complete"
    BY <1>6 DEF WholeOutputs
  <2> HIDE DEF r, g, k, v, last
  <2>6. CASE rest = <<r, g>> \o last
    <3>1. rest' = <<g>> \o last
      BY <2>3, <2>6, FirstSteps
    <3> QED BY <3>1, <2>2 DEF Packaging, g
  <2>7. CASE rest = <<g>> \o last
    <3>1. rest[1] = g /\ rest' = last
      BY <2>3, <2>4, <2>7, FirstSteps
    <3>2. disk'["apk"] = "stripped"
      BY <3>1, <2>1, <2>4, <2>5, <1>1, Does
    <3> QED BY <3>1, <3>2, <2>2 DEF Packaging
  <2>8. CASE rest = last /\ disk["apk"] = "stripped"
    <3>1. p = "ffmpeg" /\ rest = <<k, v>>
      BY <2>8, <1>1 DEF last
    <3>2. rest[1] = k /\ rest' = <<v>>
      BY <3>1
    <3>3. disk'["apk.fixed"] = "complete"
      BY <3>2, <2>1, <2>4, <2>8, <1>1, Does
    <3> QED BY <3>1, <3>2, <3>3 DEF Packaging, v
  <2>9. CASE p = "ffmpeg" /\ rest = <<v>> /\ disk["apk.fixed"] = "complete"
    <3>1. rest[1] = v /\ rest' = <<>>
      BY <2>9
    <3>2. v.op = "move" => \E f \in Others : v.in = {f}
      BY <3>1, StepDoes
    <3>3. v \in StepData /\ v.out \in Path /\ ~Fails(v) /\ disk' = Done(v)
      BY <3>1, <2>4, <1>1
    <3>4. \A f : v.op \in {"copy", "move"} /\ v.in = {f} /\ f # v.out => disk'[v.out] = disk[f]
      BY ONLY <3>2, <3>3, <1>1, Does
    <3>5. disk'["apk"] = "complete"
      BY <3>4, <2>1, <2>9
    <3> QED BY <3>1, <3>5, <2>9 DEF Packaging
  <2>10. rest # <<>>
    OBVIOUS
  <2> QED BY <1>6, <2>2, <2>6, <2>7, <2>8, <2>9, <2>10 DEF Packaging, r, g, v
<1> QED BY <1>3, <1>5, <1>6

LEMMA ScriptStepInv == ScriptInv /\ Step => ScriptInv'
<1> SUFFICES ASSUME ScriptInv, Step PROVE ScriptInv'
  OBVIOUS
<1>1. /\ status = "running" /\ rest # <<>> /\ block' = block /\ package' = package /\ script' = script
  BY DEF Step
<1>2. CASE status' = "failed" /\ disk' = disk
  <2>1. disk' = [f \in Path |-> disk'[f]] /\ SourcesWhole'
    BY <1>2 DEF ScriptInv, SourcesWhole
  <2> QED BY <1>1, <1>2, <2>1, StillInv DEF ScriptInv
<1>3. CASE /\ ~Fails(Head(rest)) /\ disk' = Done(Head(rest)) /\ rest' = Tail(rest) /\ status' = status
  <2>1. disk' = [f \in Path |-> disk'[f]]
    BY <1>1, <1>3, StepDoes
  <2>2. Rest' /\ SourcesWhole'
    BY <1>1, <1>3, StepRest
  <2>3. DoneIsWhole'
    BY <1>1, <1>3 DEF DoneIsWhole, BuiltWhole, PackagedWhole
  <2>4. Script' = Script
    BY <1>1 DEF Script
  <2>5. (status = "running" /\ script = "build" /\ block > Len(Script) => Building)'
    <3> SUFFICES ASSUME script = "build", block > Len(Script) PROVE Building'
      BY <1>1, <2>4
    <3>1. Building
      BY <1>1 DEF ScriptInv
    <3>2. /\ {"ffmpeg", "ffmpeg-source", "libffmpeg.so", "libqjs", "quickjs-source", "libqjs.so"} \subseteq Names
          /\ FFmpegLibs \subseteq Names
      BY KeptFiles DEF Names, Others, Kept, Renamed
    <3>3. ASSUME package = "ffmpeg"
          PROVE  Built("ffmpeg", {"ffmpeg-source"} \cup FFmpegLibs, "libffmpeg.so")'
      BY <1>1, <1>3, <3>1, <3>2, <3>3, BuiltStep DEF Building
    <3>4. ASSUME package = "quickjs"
          PROVE  Built("libqjs", {"quickjs-source"}, "libqjs.so")'
      BY <1>1, <1>3, <3>1, <3>2, <3>4, BuiltStep DEF Building
    <3> QED BY <1>1, <3>3, <3>4 DEF Building
  <2>6. (status = "running" /\ script = "package" => PackageOnly)'
    BY <1>1, <1>3, PackagedStep
  <2>7. (status = "running" /\ script = "package" /\ block > Len(Script) /\ WholeOutputs => Packaging)'
    BY <1>1, <1>3, <2>4, PackagedStep DEF ScriptInv
  <2> QED BY <1>1, <1>3, <2>1, <2>2, <2>3, <2>5, <2>6, <2>7 DEF ScriptInv
<1> QED BY <1>2, <1>3 DEF Step

LEMMA NextBlockInv == ScriptInv /\ NextBlock => ScriptInv'
<1> SUFFICES ASSUME ScriptInv, NextBlock PROVE ScriptInv'
  OBVIOUS
<1>1. /\ status = "running" /\ rest = <<>> /\ disk' = disk /\ package' = package /\ script' = script
      /\ Script' = Script
  BY DEF NextBlock, Script
<1>2. package \in {"ffmpeg", "python", "quickjs"} /\ Script \in Seq(OrderlyBlock) /\ Len(Script) \in Nat
  BY Ranges
<1>3. SourcesWhole' /\ disk' = [f \in Path |-> disk'[f]]
  BY <1>1 DEF ScriptInv, SourcesWhole
<1>4. CASE block > Len(Script) /\ status' = "done" /\ block' = block /\ rest' = rest
  <2>1. ASSUME script = "build", package # "python"
        PROVE  \A f \in Outputs(package) : disk[f] = "complete"
    <3>1. Building
      BY <1>1, <1>4, <2>1 DEF ScriptInv
    <3>2. \A x, in, y : rest # <<Make(x, in), Copy(x, y)>> /\ rest # <<Copy(x, y)>>
      BY <1>1
    <3> QED BY <3>1, <3>2, <1>2, <2>1 DEF Building, Built, Outputs
  <2>2. ASSUME script = "package", WholeOutputs
        PROVE  /\ disk["apk"] \in {"stripped", "complete"}
               /\ package = "ffmpeg" => disk["apk"] = "complete"
    <3>1. Packaging
      BY <1>1, <1>4, <2>2 DEF ScriptInv
    <3> DEFINE last == IF package = "ffmpeg" THEN FixPermissions ELSE <<>>
    <3>2. last = <<>> => package # "ffmpeg"
      BY DEF FixPermissions
    <3> DEFINE r == Require(Outputs(package))
               g == Gradle(Outputs(package))
    <3>3. r \in StepData /\ g \in StepData /\ last \in Seq(StepData)
      BY <1>2, PackageSteps
    <3>4. \A v : rest # <<v>>
      BY <1>1
    <3> HIDE DEF last, r, g
    <3>5. <<r, g>> \o last # <<>> /\ <<g>> \o last # <<>>
      BY <3>3, ConcatEqualIffEmpty
    <3> QED BY <3>1, <3>2, <3>4, <3>5, <1>1 DEF Packaging, last, r, g
  <2>3. DoneIsWhole'
    BY <1>1, <1>4, <2>1, <2>2 DEF DoneIsWhole, BuiltWhole, PackagedWhole, WholeOutputs
  <2> QED BY <1>1, <1>3, <1>4, <2>3 DEF ScriptInv
<1>5. CASE /\ ~(block > Len(Script)) /\ block' = block + 1 /\ status' = status
           /\ rest' = IF \E f \in Script[block].unless : disk[f] # "absent"
                      THEN <<>> ELSE Script[block].steps
  <2> DEFINE b == Script[block]
  <2>1. block \in DOMAIN Script /\ block \in Nat /\ block' \in Nat \ {0}
    BY <1>2, <1>5 DEF ScriptInv
  <2>2. b \in OrderlyBlock /\ \A i \in DOMAIN b.steps : b.steps[i].out \in Path
    BY <1>2, <2>1, Ranges
  <2> HIDE DEF b
  <2>3. Orderly(b.steps) /\ Guarded(b)
    BY <2>2 DEF OrderlyBlock
  <2>4. ASSUME block' > Len(Script), script = "package" \/ package # "python"
        PROVE  /\ b.unless = {}
               /\ script = "build" /\ package = "ffmpeg" =>
                    b.steps = <<Make("ffmpeg", {"ffmpeg-source"} \cup FFmpegLibs), Copy("ffmpeg", "libffmpeg.so")>>
               /\ script = "build" /\ package = "quickjs" =>
                    b.steps = <<Make("libqjs", {"quickjs-source"}), Copy("libqjs", "libqjs.so")>>
               /\ script = "package" =>
                    b.steps = <<Require(Outputs(package)), Gradle(Outputs(package))>>
                              \o IF package = "ffmpeg" THEN FixPermissions ELSE <<>>
    <3>1. block = Len(Script)
      BY <1>2, <1>5, <2>1, <2>4
    <3>2. CASE script = "build"
      <4>1. package \in {"ffmpeg", "quickjs"} /\ Script = ScriptOf(package, "build")
        BY <1>2, <2>4, <3>2 DEF Script
      <4>2. b = Always(IF package = "ffmpeg"
                       THEN <<Make("ffmpeg", {"ffmpeg-source"} \cup FFmpegLibs), Copy("ffmpeg", "libffmpeg.so")>>
                       ELSE <<Make("libqjs", {"quickjs-source"}), Copy("libqjs", "libqjs.so")>>)
        BY <3>1, <4>1, LastBlock DEF b
      <4> QED BY <3>2, <4>1, <4>2 DEF Always
    <3>3. CASE script = "package"
      BY <1>2, <3>1, <3>3, PackageBlocks DEF Script, ScriptOf, b
    <3> QED BY <3>2, <3>3 DEF ScriptInv
  <2>5. CASE (\E f \in b.unless : disk[f] # "absent") /\ rest' = <<>>
    <3>1. Rest' /\ PackageOnly'
      <4>1. rest' \in Seq(StepData) /\ DOMAIN rest' = {}
        BY <2>5
      <4> QED BY <2>5, <4>1 DEF Rest, Orderly, MovesWhatWasMade, FinishesOnce, PackageOnly
    <3>2. script = "build" /\ block' > Len(Script) => package = "python"
      BY <2>4, <2>5
    <3>3. ~(script = "package" /\ block' > Len(Script))
      BY <2>4, <2>5
    <3>4. DoneIsWhole'
      BY <1>1, <1>5 DEF DoneIsWhole, BuiltWhole, PackagedWhole
    <3>5. (status = "running" /\ script = "build" /\ block > Len(Script) => Building)'
      BY <1>1, <3>2 DEF Building
    <3>6. (status = "running" /\ script = "package" /\ block > Len(Script) /\ WholeOutputs => Packaging)'
      BY <1>1, <3>3
    <3> QED BY <1>1, <1>3, <1>5, <2>1, <3>1, <3>4, <3>5, <3>6 DEF ScriptInv
  <2>6. CASE (\A f \in b.unless : disk[f] = "absent") /\ rest' = b.steps
    <3>1. Rest'
      <4>1. \A i \in DOMAIN rest' : rest'[i].out \in Kept => disk'[rest'[i].out] # "complete"
        BY <1>1, <2>3, <2>6 DEF Guarded
      <4>2. rest' # <<>> => 1 \in DOMAIN rest'
        BY <2>3, <2>6, HeadTail
      <4>3. rest' # <<>> => rest'[1].op # "move"
        BY <2>3, <2>6, <4>2 DEF Guarded
      <4> QED BY <2>2, <2>3, <2>6, <4>1, <4>3 DEF Rest
    <3>2. (status = "running" /\ script = "package" => PackageOnly)'
      <4> SUFFICES ASSUME script = "package" PROVE PackageOnly'
        BY <1>1
      <4>1. block = 1
        BY <1>2, <1>5, <2>1, PackageBlocks DEF Script, ScriptOf
      <4> QED BY <1>2, <2>6, <4>1, PackageBlocks DEF PackageOnly, Script, ScriptOf, b
    <3>3. (status = "running" /\ script = "build" /\ block > Len(Script) => Building)'
      BY <1>1, <2>4, <2>6 DEF Building, Built
    <3>4. (status = "running" /\ script = "package" /\ block > Len(Script) /\ WholeOutputs => Packaging)'
      BY <1>1, <2>4, <2>6 DEF Packaging
    <3>5. DoneIsWhole'
      BY <1>1, <1>5 DEF DoneIsWhole, BuiltWhole, PackagedWhole
    <3> QED BY <1>1, <1>3, <1>5, <2>1, <3>1, <3>2, <3>3, <3>4, <3>5 DEF ScriptInv
  <2> QED BY <1>5, <2>5, <2>6 DEF b
<1> QED BY <1>4, <1>5 DEF NextBlock

\* An interrupted step may leave the file it was writing broken.
LEMMA Stopped ==
  ASSUME ScriptInv, Stop
  PROVE  /\ disk' = [f \in Path |-> disk'[f]] /\ SourcesWhole'
         /\ \A f \in Kept \cap Path : disk[f] = "complete" => disk'[f] = "complete"
<1>1. CASE disk' = disk
  BY <1>1 DEF ScriptInv, SourcesWhole
<1>2. CASE /\ rest # <<>> /\ ~Fails(Head(rest))
           /\ Head(rest).op \in {"make", "begin", "copy", "gradle", "repair", "wget"}
           /\ disk' = [disk EXCEPT ![Head(rest).out] = "broken"]
  <2>1. status = "running" /\ Orderly(rest) /\ disk = [f \in Path |-> disk[f]]
    BY DEF ScriptInv, Rest, Stop
  <2>2. Head(rest) = rest[1] /\ 1 \in DOMAIN rest
    BY <1>2, <2>1, HeadTail
  <2>3. rest[1].out \notin Renamed /\ (rest[1].out \in Kept => disk[rest[1].out] # "complete")
    BY <1>2, <2>1, <2>2, KeptFiles DEF Orderly, FinishesOnce, ScriptInv, Rest
  <2> QED BY <1>2, <2>1, <2>2, <2>3 DEF ScriptInv, SourcesWhole
<1> QED BY <1>1, <1>2 DEF Stop

LEMMA BuildNextInv == ScriptInv /\ [BuildNext]_buildVars => ScriptInv'
<1> SUFFICES ASSUME ScriptInv, [BuildNext]_buildVars PROVE ScriptInv'
  OBVIOUS
<1>1. ASSUME NEW s \in {"build", "package"}, Start(s)
      PROVE  ScriptInv'
  <2>1. SourcesWhole' /\ disk' = [f \in Path |-> disk'[f]]
    BY <1>1 DEF Start, ScriptInv, SourcesWhole
  <2> QED BY <1>1, <2>1, StillInv DEF Start
<1>2. CASE NextBlock
  BY <1>2, NextBlockInv
<1>3. CASE Step
  BY <1>3, ScriptStepInv
<1>4. CASE Stop
  <2>1. /\ status' = "failed" /\ package' = package /\ script' \in {"build", "package"}
        /\ block' \in Nat \ {0}
    BY <1>4 DEF Stop, ScriptInv
  <2>2. disk' = [f \in Path |-> disk'[f]] /\ SourcesWhole'
    BY <1>4, Stopped
  <2> QED BY <2>1, <2>2, StillInv
<1>5. CASE UNCHANGED buildVars
  <2>1. /\ package' = package /\ script' = script /\ disk' = disk /\ rest' = rest /\ block' = block
        /\ status' = status
    BY <1>5 DEF buildVars
  <2>2. SourcesWhole' /\ DoneIsWhole'
    BY <2>1 DEF ScriptInv, SourcesWhole, DoneIsWhole, BuiltWhole, PackagedWhole
  <2>3. (status = "running" => Rest)' /\ (status = "running" /\ script = "package" => PackageOnly)'
    BY <2>1 DEF ScriptInv, Rest, PackageOnly
  <2>4. (status = "running" /\ script = "build" /\ block > Len(Script) => Building)'
    BY <2>1 DEF ScriptInv, Script, Building, Built
  <2>5. (status = "running" /\ script = "package" /\ block > Len(Script) /\ WholeOutputs => Packaging)'
    BY <2>1 DEF ScriptInv, Script, Packaging, WholeOutputs
  <2> QED BY <2>1, <2>2, <2>3, <2>4, <2>5 DEF ScriptInv
<1> QED BY <1>1, <1>2, <1>3, <1>4, <1>5 DEF BuildNext

THEOREM ScriptsInvariant == BuildSpec => []ScriptInv
BY ScriptsInitInv, BuildNextInv, PTL DEF BuildSpec

\* A build of FFmpeg or of QuickJS that ends well leaves whole outputs, and
\* package_apk.sh makes a whole APK of whole outputs, whatever interrupted
\* the runs before.
THEOREM EndsWhole == BuildSpec => []DoneIsWhole
<1>1. ScriptInv => DoneIsWhole
  BY DEF ScriptInv
<1> QED BY <1>1, ScriptsInvariant, PTL

\* No source directory that is tested for is half unpacked.
THEOREM UnpacksWhole == BuildSpec => []SourcesWhole
<1>1. ScriptInv => SourcesWhole
  BY DEF ScriptInv
<1> QED BY <1>1, ScriptsInvariant, PTL

\* No run spoils what an earlier one has completed.
THEOREM KeepsWhatIsComplete == BuildSpec => Preserved
<1>1. ASSUME ScriptInv, [BuildNext]_buildVars
      PROVE  \A f \in Kept \cap Path : disk[f] = "complete" => disk'[f] = "complete"
  <2>1. CASE disk' = disk
    BY <2>1
  <2>2. CASE Stop
    BY <1>1, <2>2, Stopped
  <2>3. CASE Step /\ disk' # disk
    BY <1>1, <2>3, StepDoes DEF Step
  <2>4. (\E s \in {"build", "package"} : Start(s)) \/ NextBlock \/ UNCHANGED buildVars => disk' = disk
    BY DEF Start, NextBlock, buildVars
  <2> QED BY <1>1, <2>1, <2>2, <2>3, <2>4 DEF BuildNext
<1> QED BY <1>1, ScriptsInvariant, PTL DEF BuildSpec, Preserved

-----------------------------------------------------------------------------
(* The workflow. *)

Stage == Ended \cup {"waiting", "build", "sign", "artifact", "release"}
Asset == [commit : Nat, sealed : BOOLEAN]
Uploads == SUBSET File
Put(table, r, p, v) == [table EXCEPT ![r][p] = v]

\* The five tables of runs have the same length.
Tables ==
  /\ check \in Seq({"queued", "ok", "failed"}) /\ Len(check) = Len(runs)
  /\ job \in Seq([Package -> Stage]) /\ Len(job) = Len(runs)
  /\ sealed \in Seq([Package -> BOOLEAN]) /\ Len(sealed) = Len(runs)
  /\ todo \in Seq([Package -> SUBSET File]) /\ Len(todo) = Len(runs)
  /\ assets \in [Tag -> [Package -> [File -> Asset]]]

\* A run on a tag was started on a commit.
OnCommits == \A r \in DOMAIN runs : runs[r].ref \in Tag => tagged[runs[r].ref] # 0

\* Which jobs the check has let through.
Gate(r, p) ==
  /\ check[r] = "queued" <=> job[r][p] = "waiting"
  /\ check[r] = "failed" => job[r][p] = "skipped"
  /\ check[r] = "ok" => (job[r][p] # "skipped" <=> BuildIf(r, p))

\* What a job has done by the stage it is at: it signs before it uploads, and
\* what the release step need no longer upload is there.
Progress(r, p) ==
  /\ todo[r][p] # {} => job[r][p] = "release"
  /\ job[r][p] = "release" => ReleaseIf(r, p)
  /\ job[r][p] \in {"artifact", "release"} /\ "unset" \notin SigningKey => sealed[r][p]
  /\ job[r][p] \in {"release", "done"} /\ ReleaseIf(r, p) =>
       \A f \in File \ todo[r][p] : assets[runs[r].ref][p][f] # Missing

Newest(r) ==
  /\ runs[r].ref \in Tag \ raced
  /\ \A s \in DOMAIN runs : s > r => runs[s].ref # runs[r].ref

\* When the runs on a tag have not overlapped, the newest one has the commit
\* of the tag, the others are over, and what it need no longer upload is its own.
Alone(r) == Newest(r) =>
  /\ runs[r].commit = tagged[runs[r].ref]
  /\ \A s \in DOMAIN runs : s < r /\ runs[s].ref = runs[r].ref => ~UnderWay(s)
  /\ \A p \in Package :
       job[r][p] \in {"release", "done"} /\ ReleaseIf(r, p) =>
         \A f \in File \ todo[r][p] :
           assets[runs[r].ref][p][f] =
             [commit |-> runs[r].commit, sealed |-> f = "signed" /\ sealed[r][p]]

IInv ==
  /\ TypeOK /\ Tables /\ OnCommits
  /\ \A r \in DOMAIN runs : Alone(r) /\ \A p \in Package : Gate(r, p) /\ Progress(r, p)
  /\ CorrectPackage /\ SignedIsSigned

-----------------------------------------------------------------------------
(* The steps of sequences and tables, in terms of their elements.          *)

LEMMA Appended ==
  ASSUME NEW S, NEW s \in Seq(S), NEW e \in S
  PROVE  /\ Append(s, e) \in Seq(S) /\ Len(Append(s, e)) = Len(s) + 1
         /\ DOMAIN s = 1..Len(s) /\ DOMAIN Append(s, e) = 1..(Len(s) + 1)
         /\ \A i \in 1..Len(s) : Append(s, e)[i] = s[i]
         /\ Append(s, e)[Len(s) + 1] = e
OBVIOUS

LEMMA Replaced ==
  ASSUME NEW S, NEW s \in Seq([Package -> S]), NEW r \in DOMAIN s, NEW p \in Package, NEW e \in S,
         NEW t, t = [s EXCEPT ![r][p] = e]
  PROVE  /\ t \in Seq([Package -> S]) /\ Len(t) = Len(s)
         /\ t[r][p] = e
         /\ \A q \in DOMAIN s, x \in Package : q # r \/ x # p => t[q][x] = s[q][x]
<1>1. s[r] \in [Package -> S]
  OBVIOUS
<1>2. t = [s EXCEPT ![r] = [s[r] EXCEPT ![p] = e]]
  OBVIOUS
<1>3. [s[r] EXCEPT ![p] = e] \in [Package -> S]
  BY <1>1
<1> QED BY <1>1, <1>2, <1>3

LEMMA InitInv == Init => IInv
<1> SUFFICES ASSUME Init PROVE IInv
  OBVIOUS
<1>1. TypeOK
  BY PipelineAssumption DEF Init, TypeOK
<1>2. Tables
  BY DEF Init, Tables, Asset, Missing, File
<1>3. runs = <<>> /\ DOMAIN runs = {}
  BY DEF Init
<1>4. CorrectPackage /\ SignedIsSigned
  BY DEF Init, CorrectPackage, SignedIsSigned, File
<1> QED BY <1>1, <1>2, <1>3, <1>4 DEF IInv, OnCommits

\* The conditions of a run depend on the run alone.
LEMMA SameRun ==
  ASSUME NEW r, runs'[r] = runs[r]
  PROVE  /\ BuildIf(r, "ffmpeg")' = BuildIf(r, "ffmpeg")
         /\ \A p \in Package : BuildIf(r, p)' = BuildIf(r, p) /\ ReleaseIf(r, p)' = ReleaseIf(r, p)
BY DEF BuildIf, ReleaseIf, BuildFfmpegIf, BuildPythonIf, BuildQuickjsIf, FfmpegReleaseIf,
       PythonReleaseIf, QuickjsReleaseIf, Wanted, OnTag

\* A run that starts: what a push or a manual run gives it.
Starts(run) ==
  /\ run \in Run /\ StartRun(run)
  /\ head' \in 1..MaxCommit /\ tagged' \in [Tag -> 0..MaxCommit]
  /\ \A t \in Tag : t # run.ref => tagged'[t] = tagged[t]
  /\ run.ref \in Tag => run.commit = tagged'[run.ref]

LEMMA StartTables ==
  ASSUME IInv, NEW run, Starts(run)
  PROVE  LET n == Len(runs) + 1 IN
         /\ Tables' /\ runs' \in Seq(Run) /\ Len(runs') = n /\ n <= MaxRuns
         /\ DOMAIN runs = 1..Len(runs) /\ DOMAIN runs' = 1..n
         /\ DOMAIN check' = 1..n /\ DOMAIN job' = 1..n
         /\ DOMAIN sealed' = 1..n /\ DOMAIN todo' = 1..n
         /\ runs'[n] \in Run /\ runs'[n].ref = run.ref /\ runs'[n].commit = run.commit
         /\ check'[n] = "queued" /\ job'[n] = [p \in Package |-> "waiting"]
         /\ sealed'[n] = [p \in Package |-> FALSE] /\ todo'[n] = [p \in Package |-> {}]
         /\ \A r \in DOMAIN runs :
              /\ runs'[r] = runs[r] /\ check'[r] = check[r] /\ job'[r] = job[r]
              /\ sealed'[r] = sealed[r] /\ todo'[r] = todo[r]
<1> DEFINE new == [run EXCEPT !.inputs = @ \cap Enabled, !.changed = @ \cap Enabled]
<1>1. new \in Run /\ new.ref = run.ref /\ new.commit = run.commit
  BY DEF Starts, Run
<1>2. runs \in Seq(Run) /\ runs' = Append(runs, new)
  BY DEF IInv, TypeOK, Starts, StartRun
<1>3. /\ runs' \in Seq(Run) /\ Len(runs') = Len(runs) + 1
      /\ DOMAIN runs = 1..Len(runs) /\ DOMAIN runs' = 1..(Len(runs) + 1)
      /\ \A r \in 1..Len(runs) : runs'[r] = runs[r]
      /\ runs'[Len(runs) + 1] = new
  BY <1>1, <1>2, Appended
<1>4. /\ check' \in Seq({"queued", "ok", "failed"}) /\ Len(check') = Len(runs) + 1
      /\ DOMAIN check' = 1..(Len(runs) + 1)
      /\ \A r \in 1..Len(runs) : check'[r] = check[r]
      /\ check'[Len(runs) + 1] = "queued"
  BY Appended DEF IInv, Tables, Starts, StartRun
<1>5. /\ job' \in Seq([Package -> Stage]) /\ Len(job') = Len(runs) + 1
      /\ DOMAIN job' = 1..(Len(runs) + 1)
      /\ \A r \in 1..Len(runs) : job'[r] = job[r]
      /\ job'[Len(runs) + 1] = [p \in Package |-> "waiting"]
  <2>1. [p \in Package |-> "waiting"] \in [Package -> Stage]
    BY DEF Stage
  <2> QED BY <2>1, Appended DEF IInv, Tables, Starts, StartRun
<1>6. /\ sealed' \in Seq([Package -> BOOLEAN]) /\ Len(sealed') = Len(runs) + 1
      /\ DOMAIN sealed' = 1..(Len(runs) + 1)
      /\ \A r \in 1..Len(runs) : sealed'[r] = sealed[r]
      /\ sealed'[Len(runs) + 1] = [p \in Package |-> FALSE]
  <2>1. [p \in Package |-> FALSE] \in [Package -> BOOLEAN]
    OBVIOUS
  <2> QED BY <2>1, Appended DEF IInv, Tables, Starts, StartRun
<1>7. /\ todo' \in Seq([Package -> SUBSET File]) /\ Len(todo') = Len(runs) + 1
      /\ DOMAIN todo' = 1..(Len(runs) + 1)
      /\ \A r \in 1..Len(runs) : todo'[r] = todo[r]
      /\ todo'[Len(runs) + 1] = [p \in Package |-> {}]
  <2>1. [p \in Package |-> {}] \in [Package -> SUBSET File]
    OBVIOUS
  <2> QED BY <2>1, Appended DEF IInv, Tables, Starts, StartRun
<1>8. Len(runs) + 1 <= MaxRuns /\ assets' = assets
  BY <1>2, PipelineAssumption DEF Starts, StartRun
<1> QED BY <1>1, <1>3, <1>4, <1>5, <1>6, <1>7, <1>8 DEF Tables, IInv

LEMMA StartInv ==
  ASSUME IInv, NEW run, Starts(run)
  PROVE  IInv'
<1> DEFINE n == Len(runs) + 1
<1>0. /\ Len(runs) \in Nat /\ DOMAIN runs = 1..Len(runs) /\ DOMAIN runs' = 1..n
      /\ n \notin DOMAIN runs /\ DOMAIN runs' = DOMAIN runs \cup {n}
      /\ \A r \in DOMAIN runs : r < n /\ ~(r > n)
  <2>1. Len(runs) \in Nat
    BY DEF IInv, TypeOK
  <2>2. 1..n = (1..Len(runs)) \cup {n}
    BY <2>1
  <2>3. DOMAIN runs = 1..Len(runs) /\ DOMAIN runs' = 1..n
    BY StartTables
  <2> QED BY <2>1, <2>2, <2>3
<1>1. /\ runs'[n].ref = run.ref /\ runs'[n].commit = run.commit /\ runs'[n] \in Run
      /\ check'[n] = "queued" /\ job'[n] = [p \in Package |-> "waiting"]
      /\ sealed'[n] = [p \in Package |-> FALSE] /\ todo'[n] = [p \in Package |-> {}]
  BY StartTables
<1>2. ASSUME NEW r \in DOMAIN runs
      PROVE  /\ runs'[r] = runs[r] /\ check'[r] = check[r] /\ job'[r] = job[r]
             /\ sealed'[r] = sealed[r] /\ todo'[r] = todo[r]
  BY StartTables
<1>3. assets' = assets
  BY DEF Starts, StartRun
<1>4. raced' = IF \E r \in DOMAIN runs : runs[r].ref = run.ref /\ UnderWay(r)
               THEN raced \cup {run.ref} ELSE raced
  BY DEF Starts, StartRun
<1>5. TypeOK'
  <2>1. /\ head' \in 1..MaxCommit /\ tagged' \in [Tag -> 0..MaxCommit]
        /\ raced' \subseteq Tag \cup {Main}
    <3>1. run.ref \in Tag \cup {Main}
      BY DEF Starts, Run
    <3>2. raced \subseteq Tag \cup {Main} /\ raced' \subseteq raced \cup {run.ref}
      BY <1>4 DEF IInv, TypeOK
    <3> QED BY <3>1, <3>2 DEF Starts
  <2>2. ASSUME NEW r \in DOMAIN runs'
        PROVE  /\ check'[r] \in {"queued", "ok", "failed"}
               /\ job'[r] \in [Package -> Stage]
               /\ sealed'[r] \in [Package -> BOOLEAN]
               /\ \A p \in Package : todo'[r][p] \subseteq File /\ (todo'[r][p] # {} => job'[r][p] = "release")
    <3>1. CASE r \in DOMAIN runs
      BY <3>1, <1>2 DEF IInv, TypeOK, Stage
    <3>2. CASE r = n
      BY <3>2, <1>1 DEF Stage
    <3> QED BY <3>1, <3>2, <1>0
  <2>3. /\ runs' \in Seq(Run) /\ Len(runs') <= MaxRuns
        /\ DOMAIN check' = DOMAIN runs' /\ DOMAIN job' = DOMAIN runs'
        /\ DOMAIN sealed' = DOMAIN runs' /\ DOMAIN todo' = DOMAIN runs'
    BY StartTables
  <2> QED BY <2>1, <2>2, <2>3 DEF TypeOK, Stage
<1>6. Tables'
  BY StartTables
<1>7. OnCommits'
  <2>1. run.ref \in Tag => tagged'[run.ref] # 0
    BY PipelineAssumption DEF Starts, Run
  <2>2. ASSUME NEW r \in DOMAIN runs', runs'[r].ref \in Tag PROVE tagged'[runs'[r].ref] # 0
    BY <2>1, <2>2, <1>0, <1>1, <1>2 DEF IInv, OnCommits, Starts
  <2> QED BY <2>2 DEF OnCommits
<1>8. ASSUME NEW r \in DOMAIN runs', NEW p \in Package PROVE Gate(r, p)' /\ Progress(r, p)'
  <2>1. CASE r \in DOMAIN runs
    <3>1. Gate(r, p) /\ Progress(r, p)
      BY <2>1 DEF IInv
    <3> QED BY <3>1, <1>2, <2>1, <1>3, SameRun DEF Gate, Progress
  <2>2. CASE r = n
    BY <2>2, <1>1 DEF Gate, Progress
  <2> QED BY <2>1, <2>2, <1>0
<1>9. ASSUME NEW r \in DOMAIN runs' PROVE Alone(r)'
  <2> SUFFICES ASSUME Newest(r)' PROVE
        /\ runs'[r].commit = tagged'[runs'[r].ref]
        /\ \A s \in DOMAIN runs' : s < r /\ runs'[s].ref = runs'[r].ref => ~UnderWay(s)'
        /\ \A p \in Package :
             job'[r][p] \in {"release", "done"} /\ ReleaseIf(r, p)' =>
               \A f \in File \ todo'[r][p] :
                 assets'[runs'[r].ref][p][f] =
                   [commit |-> runs'[r].commit, sealed |-> f = "signed" /\ sealed'[r][p]]
    BY DEF Alone
  <2>0. ASSUME NEW s \in DOMAIN runs PROVE UnderWay(s)' = UnderWay(s)
    BY <1>2 DEF UnderWay
  <2>1. CASE r \in DOMAIN runs
    <3>1. runs[r].ref # run.ref
      BY <2>1, <1>0, <1>1, <1>2 DEF Newest
    <3>2. Newest(r)
      BY <2>1, <1>0, <1>2, <1>4 DEF Newest
    <3>3. /\ runs[r].commit = tagged[runs[r].ref]
          /\ \A s \in DOMAIN runs : s < r /\ runs[s].ref = runs[r].ref => ~UnderWay(s)
          /\ \A p \in Package :
               job[r][p] \in {"release", "done"} /\ ReleaseIf(r, p) =>
                 \A f \in File \ todo[r][p] :
                   assets[runs[r].ref][p][f] =
                     [commit |-> runs[r].commit, sealed |-> f = "signed" /\ sealed[r][p]]
      BY <2>1, <3>2 DEF IInv, Alone
    <3>4. \A s \in DOMAIN runs' : s < r /\ runs'[s].ref = runs'[r].ref => ~UnderWay(s)'
      BY <3>3, <2>0, <2>1, <1>0, <1>2
    <3>5. runs'[r].commit = tagged'[runs'[r].ref]
      BY <3>1, <3>2, <3>3, <2>1, <1>2 DEF Newest, Starts
    <3>6. \A p \in Package : ReleaseIf(r, p)' = ReleaseIf(r, p)
      BY <2>1, <1>2, SameRun
    <3> QED BY <3>3, <3>4, <3>5, <3>6, <2>1, <1>2, <1>3
  <2>2. CASE r = n
    <3>1. run.ref \in Tag /\ ~(\E s \in DOMAIN runs : runs[s].ref = run.ref /\ UnderWay(s))
      BY <2>2, <1>1, <1>4 DEF Newest
    <3>2. \A s \in DOMAIN runs' : s < r /\ runs'[s].ref = runs'[r].ref => ~UnderWay(s)'
      BY <3>1, <2>0, <2>2, <1>0, <1>1, <1>2
    <3> QED BY <3>1, <3>2, <2>2, <1>1 DEF Starts
  <2> QED BY <2>1, <2>2, <1>0
<1>10. CorrectPackage' /\ SignedIsSigned'
  BY <1>3 DEF IInv, CorrectPackage, SignedIsSigned, Publishes
<1> QED BY <1>5, <1>6, <1>7, <1>8, <1>9, <1>10 DEF IInv

-----------------------------------------------------------------------------
(* The triggers.                                                           *)

LEMMA PushMainInv ==
  ASSUME IInv, NEW changed \in SUBSET Package, PushMain(changed)
  PROVE  IInv'
<1>1. /\ head' \in 1..MaxCommit /\ tagged' = tagged
      /\ head \in 1..MaxCommit /\ tagged \in [Tag -> 0..MaxCommit]
  BY PipelineAssumption DEF IInv, TypeOK, PushMain
<1>2. CASE changed = {}
  <2>1. UNCHANGED <<tagged, raced, runs, check, job, sealed, todo, assets>>
    BY <1>2 DEF PushMain, jobs, StartRun
  <2>2. TypeOK' /\ Tables' /\ OnCommits' /\ CorrectPackage' /\ SignedIsSigned'
    <3>1. TypeOK'
      BY <1>1, <2>1 DEF IInv, TypeOK
    <3>2. Tables' /\ OnCommits'
      BY <2>1 DEF IInv, Tables, OnCommits
    <3>3. CorrectPackage' /\ SignedIsSigned'
      BY <2>1 DEF IInv, CorrectPackage, SignedIsSigned, Publishes
    <3> QED BY <3>1, <3>2, <3>3
  <2>3. ASSUME NEW r \in DOMAIN runs'
        PROVE  Alone(r)' /\ \A p \in Package : Gate(r, p)' /\ Progress(r, p)'
    <3>1. Alone(r) /\ \A p \in Package : Gate(r, p) /\ Progress(r, p)
      BY <2>1 DEF IInv
    <3>2. \A p \in Package : BuildIf(r, p)' = BuildIf(r, p) /\ ReleaseIf(r, p)' = ReleaseIf(r, p)
      BY <2>1, SameRun
    <3> QED BY <3>1, <3>2, <2>1 DEF Alone, Newest, UnderWay, Gate, Progress
  <2> QED BY <2>2, <2>3 DEF IInv
<1>3. CASE changed # {}
  <2> DEFINE run == [event |-> "push", ref |-> Main, commit |-> head', inputs |-> {}, changed |-> changed]
  <2>1. StartRun(run)
    BY <1>3 DEF PushMain, Sha
  <2>2. run \in Run /\ run.ref \notin Tag
    BY <1>1, PipelineAssumption DEF Run
  <2>3. Starts(run)
    BY <1>1, <2>1, <2>2 DEF Starts
  <2> QED BY <2>3, StartInv
<1> QED BY <1>2, <1>3

LEMMA PushTagInv ==
  ASSUME IInv, NEW t \in Tag, NEW c \in 1..head, NEW changed \in SUBSET Package,
         PushTag(t, c, changed)
  PROVE  IInv'
<1> DEFINE run == [event |-> "push", ref |-> t, commit |-> tagged'[t], inputs |-> {}, changed |-> changed]
<1>1. /\ head' \in 1..MaxCommit /\ tagged' \in [Tag -> 0..MaxCommit]
      /\ tagged'[t] = c /\ c \in 1..MaxCommit
      /\ \A u \in Tag : u # t => tagged'[u] = tagged[u]
  BY PipelineAssumption DEF IInv, TypeOK, PushTag
<1>2. StartRun(run)
  BY PipelineAssumption DEF PushTag, Sha
<1>3. run \in Run /\ run.ref = t /\ run.commit = tagged'[t]
  BY <1>1 DEF Run
<1>4. Starts(run)
  BY <1>1, <1>2, <1>3 DEF Starts
<1> QED BY <1>4, StartInv

LEMMA DispatchInv ==
  ASSUME IInv, NEW ref \in Tag \cup {Main}, NEW inputs \in SUBSET Package, Dispatch(ref, inputs)
  PROVE  IInv'
<1> DEFINE run == [event |-> "workflow_dispatch", ref |-> ref, commit |-> Sha(ref),
                   inputs |-> inputs, changed |-> {}]
<1>1. /\ head' \in 1..MaxCommit /\ tagged' \in [Tag -> 0..MaxCommit] /\ tagged' = tagged
      /\ ref = Main \/ tagged'[ref] # 0
  BY DEF IInv, TypeOK, Dispatch
<1>2. Sha(ref) \in 1..MaxCommit /\ (ref \in Tag => Sha(ref) = tagged'[ref])
  BY <1>1, PipelineAssumption DEF Sha
<1>3. StartRun(run)
  BY DEF Dispatch
<1>4. run \in Run /\ run.ref = ref /\ run.commit = Sha(ref)
  BY <1>2 DEF Run
<1>5. Starts(run)
  BY <1>1, <1>2, <1>3, <1>4 DEF Starts
<1> QED BY <1>5, StartInv

-----------------------------------------------------------------------------
(* The steps of jobs.                                                      *)

\* Ranges follow from the tables.
LEMMA TypesFrom ==
  ASSUME Tables', runs' \in Seq(Run), Len(runs') <= MaxRuns,
         head' \in 1..MaxCommit, tagged' \in [Tag -> 0..MaxCommit], raced' \subseteq Tag \cup {Main},
         \A r \in DOMAIN runs', p \in Package : todo'[r][p] # {} => job'[r][p] = "release"
  PROVE  TypeOK'
<1>1. /\ DOMAIN check' = DOMAIN runs' /\ DOMAIN job' = DOMAIN runs'
      /\ DOMAIN sealed' = DOMAIN runs' /\ DOMAIN todo' = DOMAIN runs'
  BY DEF Tables
<1>2. ASSUME NEW r \in DOMAIN runs'
      PROVE  /\ check'[r] \in {"queued", "ok", "failed"} /\ job'[r] \in [Package -> Stage]
             /\ sealed'[r] \in [Package -> BOOLEAN] /\ todo'[r] \in [Package -> SUBSET File]
  BY <1>1 DEF Tables
<1>3. ASSUME NEW r \in DOMAIN runs', NEW p \in Package PROVE todo'[r][p] \subseteq File
  BY <1>2
<1> QED BY <1>1, <1>2, <1>3 DEF TypeOK, Stage

\* What a step of job p of run r may do to the left.
LEMMA StepInv ==
  ASSUME IInv, NEW r \in DOMAIN runs, NEW p \in Package,
         UNCHANGED <<head, tagged, raced, runs, check>>, Tables',
         job[r][p] \notin Ended \cup {"waiting"}, job'[r][p] \notin {"waiting", "skipped"},
         \A s \in DOMAIN runs, q \in Package : s # r \/ q # p =>
           job'[s][q] = job[s][q] /\ sealed'[s][q] = sealed[s][q] /\ todo'[s][q] = todo[s][q],
         \A t \in Tag, q \in Package, f \in File :
           /\ t # runs[r].ref \/ q # p => assets'[t][q][f] = assets[t][q][f]
           /\ assets[t][q][f] # Missing => assets'[t][q][f] # Missing,
         Progress(r, p)',
         Newest(r) /\ job'[r][p] \in {"release", "done"} /\ ReleaseIf(r, p) =>
           \A f \in File \ todo'[r][p] :
             assets'[runs[r].ref][p][f] =
               [commit |-> runs[r].commit, sealed |-> f = "signed" /\ sealed'[r][p]],
         CorrectPackage', SignedIsSigned'
  PROVE  IInv'
<1>1. TypeOK'
  <2>1. /\ runs \in Seq(Run) /\ Len(runs) <= MaxRuns
        /\ head \in 1..MaxCommit /\ tagged \in [Tag -> 0..MaxCommit] /\ raced \subseteq Tag \cup {Main}
    BY DEF IInv, TypeOK
  <2>2. ASSUME NEW s \in DOMAIN runs, NEW q \in Package, todo'[s][q] # {} PROVE job'[s][q] = "release"
    <3>1. Progress(s, q)
      BY DEF IInv
    <3> QED BY <2>2, <3>1 DEF Progress
  <2>3. DOMAIN runs' = DOMAIN runs
    OBVIOUS
  <2> QED BY <2>1, <2>2, <2>3, TypesFrom
<1>2. OnCommits'
  BY DEF IInv, OnCommits
<1>3. \A s \in DOMAIN runs, q \in Package :
        BuildIf(s, q)' = BuildIf(s, q) /\ ReleaseIf(s, q)' = ReleaseIf(s, q)
  BY SameRun
<1>4. ASSUME NEW s \in DOMAIN runs, NEW q \in Package PROVE Gate(s, q)' /\ Progress(s, q)'
  <2>1. Gate(s, q) /\ Progress(s, q)
    BY DEF IInv
  <2>2. CASE s = r /\ q = p
    <3>1. check[r] = "ok" /\ BuildIf(r, p)
      <4>1. check[r] \in {"queued", "ok", "failed"}
        BY DEF IInv, TypeOK
      <4> QED BY <2>1, <2>2, <4>1 DEF Gate, Ended
    <3> QED BY <2>2, <3>1, <1>3 DEF Gate
  <2>3. CASE s # r \/ q # p
    <3>1. Gate(s, q)'
      BY <2>1, <2>3, <1>3 DEF Gate
    <3>2. runs[s].ref \in Tag \/ ~ReleaseIf(s, q)
      BY DEF ReleaseIf, FfmpegReleaseIf, PythonReleaseIf, QuickjsReleaseIf, OnTag, Package
    <3> QED BY <2>1, <2>3, <3>1, <3>2, <1>3 DEF Progress
  <2> QED BY <2>2, <2>3
<1>5. ASSUME NEW s \in DOMAIN runs PROVE Alone(s)'
  <2>1. UnderWay(r)
    BY DEF UnderWay
  <2>2. ASSUME NEW x \in DOMAIN runs, ~UnderWay(x) PROVE ~UnderWay(x)'
    <3>1. x # r
      BY <2>1, <2>2
    <3> QED BY <2>2, <3>1 DEF UnderWay
  <2>3. SUFFICES ASSUME Newest(s)
                 PROVE  /\ runs[s].commit = tagged[runs[s].ref]
                        /\ \A x \in DOMAIN runs : x < s /\ runs[x].ref = runs[s].ref => ~UnderWay(x)'
                        /\ \A q \in Package :
                             job'[s][q] \in {"release", "done"} /\ ReleaseIf(s, q) =>
                               \A f \in File \ todo'[s][q] :
                                 assets'[runs[s].ref][q][f] =
                                   [commit |-> runs[s].commit, sealed |-> f = "signed" /\ sealed'[s][q]]
    BY <1>3 DEF Alone, Newest
  <2>4. Alone(s)
    BY DEF IInv
  <2>5. ASSUME NEW q \in Package, job'[s][q] \in {"release", "done"}, ReleaseIf(s, q),
               NEW f \in File \ todo'[s][q]
        PROVE  assets'[runs[s].ref][q][f] =
                 [commit |-> runs[s].commit, sealed |-> f = "signed" /\ sealed'[s][q]]
    <3>1. CASE s = r /\ q = p
      BY <2>3, <2>5, <3>1
    <3>2. CASE s # r \/ q # p
      <4>1. runs[s].ref \in Tag
        BY <2>3 DEF Newest
      <4>2. assets[runs[s].ref][q][f] =
              [commit |-> runs[s].commit, sealed |-> f = "signed" /\ sealed[s][q]]
        BY <2>3, <2>4, <2>5, <3>2 DEF Alone
      <4>3. s # r => runs[s].ref # runs[r].ref
        <5>1. r \in Nat /\ s \in Nat
          BY DEF IInv, TypeOK
        <5>2. s # r => s < r \/ s > r
          BY <5>1
        <5> QED BY <2>1, <2>3, <2>4, <5>1, <5>2 DEF Alone, Newest
      <4>4. assets'[runs[s].ref][q][f] = assets[runs[s].ref][q][f]
        BY <3>2, <4>1, <4>3
      <4> QED BY <3>2, <4>2, <4>4
    <3> QED BY <3>1, <3>2
  <2> QED BY <2>2, <2>3, <2>4, <2>5 DEF Alone
<1> QED BY <1>1, <1>2, <1>4, <1>5 DEF IInv

\* What Move and an assignment to one entry of a table give.
LEMMA Moved ==
  ASSUME IInv, NEW r \in DOMAIN runs, NEW p \in Package, NEW from, NEW to \in Stage,
         Move(r, p, from, to)
  PROVE  /\ UNCHANGED <<head, tagged, raced, runs, check>>
         /\ job' \in Seq([Package -> Stage]) /\ Len(job') = Len(runs)
         /\ job[r][p] = from /\ job'[r][p] = to
         /\ \A s \in DOMAIN runs, q \in Package : s # r \/ q # p => job'[s][q] = job[s][q]
<1>1. /\ job \in Seq([Package -> Stage]) /\ Len(job) = Len(runs) /\ DOMAIN job = DOMAIN runs
      /\ job' = [job EXCEPT ![r][p] = to]
  BY DEF IInv, Tables, TypeOK, Move
<1>2. /\ job' \in Seq([Package -> Stage]) /\ Len(job') = Len(job) /\ job'[r][p] = to
      /\ \A s \in DOMAIN job, q \in Package : s # r \/ q # p => job'[s][q] = job[s][q]
  BY <1>1, Replaced
<1> QED BY <1>1, <1>2 DEF Move, refs

LEMMA Assigned ==
  ASSUME IInv, NEW r \in DOMAIN runs, NEW p \in Package, NEW v \in Uploads,
         todo' = Put(todo, r, p, v)
  PROVE  /\ todo' \in Seq([Package -> SUBSET File]) /\ Len(todo') = Len(runs)
         /\ todo'[r][p] = v
         /\ \A s \in DOMAIN runs, q \in Package : s # r \/ q # p => todo'[s][q] = todo[s][q]
<1>1. todo \in Seq([Package -> SUBSET File]) /\ Len(todo) = Len(runs) /\ DOMAIN todo = DOMAIN runs
  BY DEF IInv, Tables, TypeOK
<1>2. todo \in Seq([Package -> Uploads])
  BY <1>1 DEF Uploads
<1>3. /\ todo' \in Seq([Package -> Uploads]) /\ Len(todo') = Len(todo) /\ todo'[r][p] = v
      /\ \A s \in DOMAIN todo, q \in Package : s # r \/ q # p => todo'[s][q] = todo[s][q]
  BY <1>1, <1>2, Replaced DEF Put
<1> QED BY <1>1, <1>3 DEF Uploads

LEMMA CheckInv ==
  ASSUME IInv, NEW r \in DOMAIN runs, Check(r)
  PROVE  IInv'
<1>1. PICK result \in {"ok", "failed"} :
        /\ check' = [check EXCEPT ![r] = result]
        /\ job' = [job EXCEPT ![r] = [p \in Package |->
                     IF result = "ok" /\ BuildIf(r, p) THEN "build" ELSE "skipped"]]
  BY DEF Check
<1>2. UNCHANGED <<head, tagged, raced, runs, sealed, todo, assets>> /\ check[r] = "queued"
  BY DEF Check, refs, jobs
<1>3. /\ check \in Seq({"queued", "ok", "failed"}) /\ DOMAIN check = DOMAIN runs
      /\ job \in Seq([Package -> Stage]) /\ DOMAIN job = DOMAIN runs
  BY DEF IInv, Tables, TypeOK
<1> DEFINE let == [p \in Package |-> IF result = "ok" /\ BuildIf(r, p) THEN "build" ELSE "skipped"]
<1>4. let \in [Package -> Stage]
  BY DEF Stage, Ended
<1>5. /\ check' \in Seq({"queued", "ok", "failed"}) /\ Len(check') = Len(check)
      /\ check'[r] = result /\ \A s \in DOMAIN runs : s # r => check'[s] = check[s]
  BY <1>1, <1>3
<1>6. /\ job' \in Seq([Package -> Stage]) /\ Len(job') = Len(job)
      /\ job'[r] = let /\ \A s \in DOMAIN runs : s # r => job'[s] = job[s]
  BY <1>1, <1>3, <1>4
<1>7. Tables'
  BY <1>2, <1>5, <1>6 DEF IInv, Tables
<1>8. ASSUME NEW p \in Package PROVE job[r][p] = "waiting" /\ todo[r][p] = {}
  <2>1. Gate(r, p) /\ Progress(r, p)
    BY DEF IInv
  <2> QED BY <1>2, <2>1 DEF Gate, Progress
<1>9. \A s \in DOMAIN runs, q \in Package :
        BuildIf(s, q)' = BuildIf(s, q) /\ ReleaseIf(s, q)' = ReleaseIf(s, q)
  BY <1>2, SameRun
<1>10. ASSUME NEW s \in DOMAIN runs, NEW q \in Package PROVE Gate(s, q)' /\ Progress(s, q)'
  <2>1. Gate(s, q) /\ Progress(s, q)
    BY DEF IInv
  <2>2. CASE s = r
    <3>1. job'[r][q] = IF result = "ok" /\ BuildIf(r, q) THEN "build" ELSE "skipped"
      BY <1>6
    <3> QED BY <2>2, <3>1, <1>2, <1>5, <1>8, <1>9 DEF Gate, Progress
  <2>3. CASE s # r
    BY <2>1, <2>3, <1>2, <1>5, <1>6, <1>9 DEF Gate, Progress
  <2> QED BY <2>2, <2>3
<1>11. TypeOK'
  <2>1. ASSUME NEW s \in DOMAIN runs', NEW q \in Package, todo'[s][q] # {} PROVE job'[s][q] = "release"
    BY <2>1, <1>2, <1>10 DEF Progress
  <2> QED BY <2>1, <1>2, <1>7, TypesFrom DEF IInv, TypeOK
<1>12. ASSUME NEW s \in DOMAIN runs PROVE Alone(s)'
  <2>1. Alone(s) /\ UnderWay(r)
    BY <1>2 DEF IInv, UnderWay
  <2>2. ASSUME NEW x \in DOMAIN runs, ~UnderWay(x) PROVE ~UnderWay(x)'
    <3>1. x # r
      BY <2>1, <2>2
    <3> QED BY <2>2, <3>1, <1>5, <1>6 DEF UnderWay
  <2>3. CASE s = r
    <3>1. \A q \in Package : job'[r][q] \notin {"release", "done"}
      BY <1>6
    <3> QED BY <2>1, <2>2, <2>3, <3>1, <1>2 DEF Alone, Newest
  <2>4. CASE s # r
    BY <2>1, <2>2, <2>4, <1>2, <1>6, <1>9 DEF Alone, Newest
  <2> QED BY <2>3, <2>4
<1>13. OnCommits' /\ CorrectPackage' /\ SignedIsSigned'
  BY <1>2 DEF IInv, OnCommits, CorrectPackage, SignedIsSigned, Publishes
<1> QED BY <1>2, <1>7, <1>10, <1>11, <1>12, <1>13 DEF IInv

LEMMA BuildInv ==
  ASSUME IInv, NEW r \in DOMAIN runs, NEW p \in Package, Build(r, p)
  PROVE  IInv'
<1>1. Move(r, p, "build", "sign") /\ UNCHANGED <<sealed, todo, assets>>
  BY DEF Build, jobs
<1>2. "sign" \in Stage
  BY DEF Stage
<1>3. /\ UNCHANGED <<head, tagged, raced, runs, check>>
      /\ job' \in Seq([Package -> Stage]) /\ Len(job') = Len(runs)
      /\ job[r][p] = "build" /\ job'[r][p] = "sign"
      /\ \A s \in DOMAIN runs, q \in Package : s # r \/ q # p => job'[s][q] = job[s][q]
  BY <1>1, <1>2, Moved
<1>4. Tables'
  BY <1>1, <1>3 DEF IInv, Tables
<1>5. Progress(r, p)'
  <2>1. Progress(r, p)
    BY DEF IInv
  <2> QED BY <2>1, <1>1, <1>3 DEF Progress
<1>6. CorrectPackage' /\ SignedIsSigned'
  BY <1>1, <1>3 DEF IInv, CorrectPackage, SignedIsSigned, Publishes
<1> QED BY <1>1, <1>3, <1>4, <1>5, <1>6, StepInv DEF Ended

LEMMA SignInv ==
  ASSUME IInv, NEW r \in DOMAIN runs, NEW p \in Package, Sign(r, p)
  PROVE  IInv'
<1>1. /\ Move(r, p, "sign", "artifact") /\ UNCHANGED <<todo, assets>>
      /\ \/ "unset" \in SigningKey /\ sealed' = sealed
         \/ sealed' = [sealed EXCEPT ![r][p] = TRUE]
  BY DEF Sign
<1>2. "artifact" \in Stage
  BY DEF Stage
<1>3. /\ UNCHANGED <<head, tagged, raced, runs, check>>
      /\ job' \in Seq([Package -> Stage]) /\ Len(job') = Len(runs)
      /\ job[r][p] = "sign" /\ job'[r][p] = "artifact"
      /\ \A s \in DOMAIN runs, q \in Package : s # r \/ q # p => job'[s][q] = job[s][q]
  BY <1>1, <1>2, Moved
<1>4. /\ sealed' \in Seq([Package -> BOOLEAN]) /\ Len(sealed') = Len(runs)
      /\ "unset" \notin SigningKey => sealed'[r][p]
      /\ \A s \in DOMAIN runs, q \in Package : s # r \/ q # p => sealed'[s][q] = sealed[s][q]
  <2>1. sealed \in Seq([Package -> BOOLEAN]) /\ Len(sealed) = Len(runs) /\ DOMAIN sealed = DOMAIN runs
    BY DEF IInv, Tables, TypeOK
  <2>2. CASE sealed' = [sealed EXCEPT ![r][p] = TRUE]
    <3> DEFINE yes == TRUE
    <3>0. yes \in BOOLEAN /\ sealed' = [sealed EXCEPT ![r][p] = yes]
      BY <2>2
    <3> HIDE DEF yes
    <3>1. /\ sealed' \in Seq([Package -> BOOLEAN]) /\ Len(sealed') = Len(sealed) /\ sealed'[r][p] = yes
          /\ \A s \in DOMAIN sealed, q \in Package : s # r \/ q # p => sealed'[s][q] = sealed[s][q]
      BY <2>1, <3>0, Replaced
    <3> QED BY <2>1, <3>1 DEF yes
  <2> QED BY <1>1, <2>1, <2>2
<1>5. Tables'
  BY <1>1, <1>3, <1>4 DEF IInv, Tables
<1>6. Progress(r, p)'
  <2>1. Progress(r, p)
    BY DEF IInv
  <2> QED BY <2>1, <1>1, <1>3, <1>4 DEF Progress
<1>7. CorrectPackage' /\ SignedIsSigned'
  BY <1>1, <1>3 DEF IInv, CorrectPackage, SignedIsSigned, Publishes
<1> QED BY <1>1, <1>3, <1>4, <1>5, <1>6, <1>7, StepInv DEF Ended

LEMMA UploadArtifactInv ==
  ASSUME IInv, NEW r \in DOMAIN runs, NEW p \in Package, UploadArtifact(r, p)
  PROVE  IInv'
<1> DEFINE to == IF ReleaseIf(r, p) THEN "release" ELSE "done"
           files == IF ReleaseIf(r, p) THEN File ELSE {}
<1>1. /\ Move(r, p, "artifact", to) /\ UNCHANGED <<sealed, assets>>
      /\ todo' = Put(todo, r, p, files)
  BY DEF UploadArtifact, Put
<1>2. to \in Stage /\ files \in Uploads
  BY DEF Stage, Ended, Uploads
<1>3. /\ UNCHANGED <<head, tagged, raced, runs, check>>
      /\ job' \in Seq([Package -> Stage]) /\ Len(job') = Len(runs)
      /\ job[r][p] = "artifact" /\ job'[r][p] = to
      /\ \A s \in DOMAIN runs, q \in Package : s # r \/ q # p => job'[s][q] = job[s][q]
  BY <1>1, <1>2, Moved
<1>4. /\ todo' \in Seq([Package -> SUBSET File]) /\ Len(todo') = Len(runs)
      /\ todo'[r][p] = files
      /\ \A s \in DOMAIN runs, q \in Package : s # r \/ q # p => todo'[s][q] = todo[s][q]
  <2> HIDE DEF files
  <2> QED BY <1>1, <1>2, Assigned
<1>5. Tables'
  BY <1>1, <1>3, <1>4 DEF IInv, Tables
<1>6. ReleaseIf(r, p)' = ReleaseIf(r, p)
  BY <1>3, SameRun
<1>7. Progress(r, p)'
  <2>1. Progress(r, p)
    BY DEF IInv
  <2> QED BY <2>1, <1>1, <1>3, <1>4, <1>6 DEF Progress
<1>8. CorrectPackage' /\ SignedIsSigned'
  BY <1>1, <1>3 DEF IInv, CorrectPackage, SignedIsSigned, Publishes
<1> QED BY <1>1, <1>3, <1>4, <1>5, <1>7, <1>8, StepInv DEF Ended

LEMMA ReleaseInv ==
  ASSUME IInv, NEW r \in DOMAIN runs, NEW p \in Package, NEW f \in File, Release(r, p, f)
  PROVE  IInv'
<1> DEFINE tag == runs[r].ref
           to == IF todo[r][p] = {f} THEN "done" ELSE "release"
           new == [commit |-> runs[r].commit, sealed |-> f = "signed" /\ sealed[r][p]]
<1>1. /\ Move(r, p, "release", to) /\ UNCHANGED sealed
      /\ f \in todo[r][p] /\ todo' = [todo EXCEPT ![r][p] = @ \ {f}]
      /\ assets' = [assets EXCEPT ![tag][p][f] = new]
  BY DEF Release
<1>2. to \in Stage
  BY DEF Stage, Ended
<1>3. /\ UNCHANGED <<head, tagged, raced, runs, check>>
      /\ job' \in Seq([Package -> Stage]) /\ Len(job') = Len(runs)
      /\ job[r][p] = "release" /\ job'[r][p] = to
      /\ \A s \in DOMAIN runs, q \in Package : s # r \/ q # p => job'[s][q] = job[s][q]
  BY <1>1, <1>2, Moved
<1>4. Progress(r, p) /\ Gate(r, p) /\ Alone(r) /\ runs[r] \in Run
      /\ todo[r][p] \subseteq File /\ sealed[r][p] \in BOOLEAN
  BY DEF IInv, TypeOK
<1>5. ReleaseIf(r, p) /\ tag \in Tag /\ ("unset" \notin SigningKey => sealed[r][p])
  <2>1. ReleaseIf(r, p) /\ ("unset" \notin SigningKey => sealed[r][p])
    BY <1>3, <1>4 DEF Progress
  <2> QED BY <2>1 DEF ReleaseIf, FfmpegReleaseIf, PythonReleaseIf, QuickjsReleaseIf, OnTag, Package
<1>6. p = Publishes(tag) /\ p \in Enabled
  <2>1. p = Publishes(tag)
    BY <1>5 DEF ReleaseIf, FfmpegReleaseIf, PythonReleaseIf, QuickjsReleaseIf, OnTag, Package, Publishes
  <2>2. check[r] = "ok"
    <3>1. check[r] \in {"queued", "ok", "failed"}
      BY DEF IInv, TypeOK
    <3> QED BY <1>3, <1>4, <3>1 DEF Gate
  <2>3. BuildIf(r, p)
    BY <1>3, <1>4, <2>2 DEF Gate
  <2>4. p \in Enabled
    BY <2>3 DEF BuildIf, BuildFfmpegIf, BuildPythonIf, BuildQuickjsIf, Wanted, Package
  <2> QED BY <2>1, <2>4
<1>7. new \in Asset /\ new # Missing
  <2>1. runs[r].commit \in 1..MaxCommit
    BY <1>4 DEF Run
  <2>2. new.commit # Missing.commit
    BY <2>1, PipelineAssumption DEF Missing
  <2> QED BY <1>4, <2>1, <2>2, PipelineAssumption DEF Asset
<1>8. /\ assets' \in [Tag -> [Package -> [File -> Asset]]]
      /\ assets'[tag][p][f] = new
      /\ \A t \in Tag, q \in Package, g \in File :
           t # tag \/ q # p \/ g # f => assets'[t][q][g] = assets[t][q][g]
  <2>1. assets \in [Tag -> [Package -> [File -> Asset]]]
    BY DEF IInv, Tables
  <2>2. assets' = [assets EXCEPT ![tag] = [assets[tag] EXCEPT ![p] = [assets[tag][p] EXCEPT ![f] = new]]]
    BY <1>1
  <2>3. [assets[tag][p] EXCEPT ![f] = new] \in [File -> Asset]
    BY <2>1, <1>5, <1>7
  <2>4. [assets[tag] EXCEPT ![p] = [assets[tag][p] EXCEPT ![f] = new]] \in [Package -> [File -> Asset]]
    BY <2>1, <2>3, <1>5
  <2> HIDE DEF new
  <2> QED BY <2>1, <2>2, <2>3, <2>4, <1>5, <1>7
<1>9. /\ todo' \in Seq([Package -> SUBSET File]) /\ Len(todo') = Len(runs)
      /\ todo'[r][p] = todo[r][p] \ {f}
      /\ \A s \in DOMAIN runs, q \in Package : s # r \/ q # p => todo'[s][q] = todo[s][q]
  <2> DEFINE left == todo[r][p] \ {f}
  <2>1. left \in Uploads /\ todo' = Put(todo, r, p, left)
    BY <1>1, <1>4 DEF Uploads, Put
  <2> HIDE DEF left
  <2>2. /\ todo' \in Seq([Package -> SUBSET File]) /\ Len(todo') = Len(runs)
        /\ todo'[r][p] = left
        /\ \A s \in DOMAIN runs, q \in Package : s # r \/ q # p => todo'[s][q] = todo[s][q]
    BY <2>1, Assigned
  <2> QED BY <2>2 DEF left
<1>10. Tables'
  BY <1>1, <1>3, <1>8, <1>9 DEF IInv, Tables
<1>11. Progress(r, p)'
  <2>1. todo'[r][p] # {} => job'[r][p] = "release"
    BY <1>1, <1>3, <1>9
  <2>2. ReleaseIf(r, p)' = ReleaseIf(r, p)
    BY <1>3, SameRun
  <2>3. \A g \in File \ todo'[r][p] : assets'[tag][p][g] # Missing
    <3> SUFFICES ASSUME NEW g \in File \ todo'[r][p] PROVE assets'[tag][p][g] # Missing
      OBVIOUS
    <3>1. CASE g = f
      BY <3>1, <1>7, <1>8
    <3>2. CASE g # f
      <4>1. assets[tag][p][g] # Missing
        BY <3>2, <1>3, <1>4, <1>5, <1>9 DEF Progress
      <4> HIDE DEF new
      <4> QED BY <3>2, <4>1, <1>5, <1>8
    <3> QED BY <3>1, <3>2
  <2> QED BY <2>1, <2>2, <2>3, <1>1, <1>3, <1>5 DEF Progress
<1>12. CorrectPackage'
  <2>1. CorrectPackage
    BY DEF IInv
  <2> HIDE DEF new
  <2>2. ASSUME NEW t \in Tag, NEW q \in Package, NEW g \in File, assets'[t][q][g] # Missing
        PROVE  q = Publishes(t) /\ q \in Enabled
    <3>1. CASE t = tag /\ q = p
      BY <3>1, <1>6
    <3>2. CASE ~(t = tag /\ q = p)
      <4>1. assets[t][q][g] # Missing
        BY <2>2, <3>2, <1>8
      <4> QED BY <2>1, <4>1 DEF CorrectPackage
    <3> QED BY <3>1, <3>2
  <2> QED BY <2>2 DEF CorrectPackage, Publishes
<1>13. SignedIsSigned'
  <2>1. SignedIsSigned
    BY DEF IInv
  <2>2. "unset" \notin SigningKey /\ f = "signed" => new.sealed
    BY <1>5
  <2> HIDE DEF new
  <2> QED BY <2>1, <2>2, <1>8 DEF SignedIsSigned, File
<1>14. Newest(r) => \A g \in File \ todo'[r][p] :
         assets'[tag][p][g] = [commit |-> runs[r].commit, sealed |-> g = "signed" /\ sealed'[r][p]]
  BY <1>1, <1>3, <1>4, <1>5, <1>8, <1>9 DEF Alone
<1>15. \A t \in Tag, q \in Package, g \in File :
         /\ t # tag \/ q # p => assets'[t][q][g] = assets[t][q][g]
         /\ assets[t][q][g] # Missing => assets'[t][q][g] # Missing
  BY <1>7, <1>8
<1>16. job[r][p] \notin Ended \cup {"waiting"} /\ job'[r][p] \notin {"waiting", "skipped"}
  BY <1>3 DEF Ended
<1> HIDE DEF new, to
<1> QED BY <1>1, <1>3, <1>9, <1>10, <1>11, <1>12, <1>13, <1>14, <1>15, <1>16, StepInv

LEMMA StepFailsInv ==
  ASSUME IInv, NEW r \in DOMAIN runs, NEW p \in Package, StepFails(r, p)
  PROVE  IInv'
<1>1. PICK stage \in {"build", "sign", "artifact", "release"} : Move(r, p, stage, "failed")
  BY DEF StepFails
<1>2. UNCHANGED <<sealed, assets>> /\ todo' = [todo EXCEPT ![r][p] = {}]
  BY DEF StepFails
<1>3. "failed" \in Stage
  BY DEF Stage, Ended
<1>4. /\ UNCHANGED <<head, tagged, raced, runs, check>>
      /\ job' \in Seq([Package -> Stage]) /\ Len(job') = Len(runs)
      /\ job[r][p] = stage /\ job'[r][p] = "failed"
      /\ \A s \in DOMAIN runs, q \in Package : s # r \/ q # p => job'[s][q] = job[s][q]
  BY <1>1, <1>3, Moved
<1>5. /\ todo' \in Seq([Package -> SUBSET File]) /\ Len(todo') = Len(runs)
      /\ todo'[r][p] = {}
      /\ \A s \in DOMAIN runs, q \in Package : s # r \/ q # p => todo'[s][q] = todo[s][q]
  <2> DEFINE none == {}
  <2>1. none \in Uploads /\ todo' = Put(todo, r, p, none)
    BY <1>2 DEF Uploads, Put
  <2> HIDE DEF none
  <2>2. /\ todo' \in Seq([Package -> SUBSET File]) /\ Len(todo') = Len(runs)
        /\ todo'[r][p] = none
        /\ \A s \in DOMAIN runs, q \in Package : s # r \/ q # p => todo'[s][q] = todo[s][q]
    BY <2>1, Assigned
  <2> QED BY <2>2 DEF none
<1>6. Tables'
  BY <1>2, <1>4, <1>5 DEF IInv, Tables
<1>7. Progress(r, p)'
  BY <1>4, <1>5 DEF Progress
<1>8. CorrectPackage' /\ SignedIsSigned'
  BY <1>2, <1>4 DEF IInv, CorrectPackage, SignedIsSigned, Publishes
<1> QED BY <1>2, <1>4, <1>5, <1>6, <1>7, <1>8, StepInv DEF Ended

LEMMA NextInv == IInv /\ [Next]_vars => IInv'
<1> SUFFICES ASSUME IInv, [Next]_vars PROVE IInv'
  OBVIOUS
<1>1. ASSUME NEW changed \in SUBSET Package, PushMain(changed) PROVE IInv'
  BY <1>1, PushMainInv
<1>2. ASSUME NEW t \in Tag, NEW c \in 1..head, NEW changed \in SUBSET Package,
             PushTag(t, c, changed)
      PROVE  IInv'
  BY <1>2, PushTagInv
<1>3. ASSUME NEW ref \in Tag \cup {Main}, NEW inputs \in SUBSET Package, Dispatch(ref, inputs)
      PROVE  IInv'
  BY <1>3, DispatchInv
<1>4. ASSUME NEW r \in DOMAIN runs, Check(r) PROVE IInv'
  BY <1>4, CheckInv
<1>5. ASSUME NEW r \in DOMAIN runs, NEW p \in Package, JobStep(r, p) PROVE IInv'
  BY <1>5, BuildInv, SignInv, UploadArtifactInv, ReleaseInv, StepFailsInv DEF JobStep
<1>6. CASE UNCHANGED vars
  <2>1. UNCHANGED <<head, tagged, raced, runs, check, job, sealed, todo, assets>>
    BY <1>6 DEF vars
  <2>2. TypeOK' /\ Tables' /\ OnCommits' /\ CorrectPackage' /\ SignedIsSigned'
    <3>1. TypeOK'
      BY <2>1 DEF IInv, TypeOK
    <3>2. Tables' /\ OnCommits'
      BY <2>1 DEF IInv, Tables, OnCommits
    <3>3. CorrectPackage' /\ SignedIsSigned'
      BY <2>1 DEF IInv, CorrectPackage, SignedIsSigned, Publishes
    <3> QED BY <3>1, <3>2, <3>3
  <2>3. ASSUME NEW r \in DOMAIN runs'
        PROVE  Alone(r)' /\ \A p \in Package : Gate(r, p)' /\ Progress(r, p)'
    <3>1. Alone(r) /\ \A p \in Package : Gate(r, p) /\ Progress(r, p)
      BY <2>1 DEF IInv
    <3>2. \A p \in Package : BuildIf(r, p)' = BuildIf(r, p) /\ ReleaseIf(r, p)' = ReleaseIf(r, p)
      BY <2>1, SameRun
    <3> QED BY <3>1, <3>2, <2>1 DEF Alone, Newest, UnderWay, Gate, Progress
  <2> QED BY <2>2, <2>3 DEF IInv
<1> QED BY <1>1, <1>2, <1>3, <1>4, <1>5, <1>6 DEF Next

LEMMA Invariance == Spec => []IInv
BY InitInv, NextInv, PTL DEF Spec

-----------------------------------------------------------------------------
(* The theorems.                                                           *)

\* What a run publishes is the tag's own package, and what is called signed
\* is signed (the conditions of the release steps, the order of their jobs).
THEOREM PackageIsRight == Spec => []RightPackage
<1>1. IInv => RightPackage
  BY DEF IInv, RightPackage
<1> QED BY <1>1, Invariance, PTL

\* A release whose runs have not overlapped is that of the commit its tag
\* names now, whatever was moved and whatever failed before.
THEOREM NewestIsReleased == Spec => []ReleaseIsNewest
<1>1. IInv => ReleaseIsNewest
  <2> SUFFICES ASSUME IInv, NEW r \in DOMAIN runs, NEW p \in Package,
                      job[r][p] = "done", ReleaseIf(r, p), runs[r].ref \notin raced,
                      \A s \in DOMAIN runs : s > r => runs[s].ref # runs[r].ref,
                      NEW f \in File
               PROVE  assets[runs[r].ref][p][f] =
                        [commit |-> tagged[runs[r].ref], sealed |-> f = "signed" /\ sealed[r][p]]
    BY DEF ReleaseIsNewest
  <2>1. Newest(r)
    BY DEF Newest, ReleaseIf, FfmpegReleaseIf, PythonReleaseIf, QuickjsReleaseIf, OnTag, Package
  <2>2. Alone(r) /\ Progress(r, p)
    BY DEF IInv
  <2>3. todo[r][p] = {}
    BY <2>2 DEF Progress
  <2> QED BY <2>1, <2>2, <2>3 DEF Alone
<1> QED BY <1>1, Invariance, PTL

\* A run on a tag of an enabled package publishes it or one of its steps
\* fails: no condition of the workflow quietly skips it.
THEOREM TagsPublish == Spec => []TagPublishes
<1>1. IInv => TagPublishes
  <2> SUFFICES ASSUME IInv, EnableTagReleases, NEW r \in DOMAIN runs,
                      runs[r].ref \in Tag, ~UnderWay(r), Publishes(runs[r].ref) \in Enabled,
                      check[r] # "failed", job[r][Publishes(runs[r].ref)] # "failed",
                      NEW f \in File
               PROVE  assets[runs[r].ref][Publishes(runs[r].ref)][f] # Missing
    BY DEF TagPublishes
  <2> DEFINE p == Publishes(runs[r].ref)
  <2>1. p \in Package /\ ReleaseIf(r, p) /\ BuildIf(r, p)
    <3>1. Family[runs[r].ref] \in {"ffmpeg-v", "python-v", "quickjs-v", "v"}
      BY PipelineAssumption
    <3>2. CASE Family[runs[r].ref] \in {"ffmpeg-v", "v"}
      BY <3>2 DEF Publishes, Package, ReleaseIf, FfmpegReleaseIf, BuildIf, BuildFfmpegIf, Wanted, OnTag
    <3>3. CASE Family[runs[r].ref] = "python-v"
      BY <3>3 DEF Publishes, Package, ReleaseIf, PythonReleaseIf, BuildIf, BuildPythonIf, Wanted, OnTag
    <3>4. CASE Family[runs[r].ref] = "quickjs-v"
      BY <3>4 DEF Publishes, Package, ReleaseIf, QuickjsReleaseIf, BuildIf, BuildQuickjsIf, Wanted, OnTag
    <3> QED BY <3>1, <3>2, <3>3, <3>4
  <2> HIDE DEF p
  <2>2. Gate(r, p) /\ Progress(r, p)
    BY <2>1 DEF IInv
  <2>3. check[r] = "ok"
    <3>1. check[r] \in {"queued", "ok", "failed"}
      BY DEF IInv, TypeOK
    <3> QED BY <3>1 DEF UnderWay
  <2>4. job[r][p] = "done"
    <3>1. job[r][p] \in Ended
      BY <2>1 DEF UnderWay
    <3>2. job[r][p] # "failed"
      BY DEF p
    <3> QED BY <3>1, <3>2, <2>1, <2>2, <2>3 DEF Gate, Ended
  <2>5. todo[r][p] = {}
    BY <2>2, <2>4 DEF Progress
  <2>6. assets[runs[r].ref][p][f] # Missing
    BY <2>1, <2>2, <2>4, <2>5 DEF Progress
  <2> QED BY <2>6 DEF p
<1> QED BY <1>1, Invariance, PTL
=============================================================================
