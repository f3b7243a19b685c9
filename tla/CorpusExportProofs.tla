------------------------- MODULE CorpusExportProofs -------------------------
(***************************************************************************)
(* For any corpora, configurations, edits, crashes and retries: an export  *)
(* never clears the root of a corpus, it gives every source a path of its  *)
(* own, a manifest that stands lists the files that are there, and a PDF   *)
(* is previewed with all of its pages or with none.                        *)
(***************************************************************************)
EXTENDS CorpusExport, FiniteSetTheorems, TLAPS

(***************************************************************************)
(* Sources and the directory that is cleared.                              *)
(***************************************************************************)
(* What is cleared was found to lie around no root, and may be overwritten. *)
ClearingIsAllowed == stage = "Clear" => case.overwrite /\ validate_output_path(case.docs, case.output)
SourcesInv == case \in Cases /\ ClearingIsAllowed

LEMMA SourcesInvNext == SourcesInv /\ [Next]_vars => SourcesInv'
<1> SUFFICES ASSUME SourcesInv, [Next]_vars PROVE SourcesInv'
  OBVIOUS
<1>1. CASE Preview
  BY <1>1 DEF Preview, SourcesInv, ClearingIsAllowed
<1>2. CASE preview_processed_files
  BY <1>2 DEF preview_processed_files, SourcesInv, ClearingIsAllowed
<1>3. CASE CountWords
  BY <1>3 DEF CountWords, SourcesInv, ClearingIsAllowed
<1>4. CASE Refuse
  BY <1>4 DEF Refuse, Goes, SourcesInv, ClearingIsAllowed
<1>5. CASE Accept
  BY <1>5 DEF Accept, Goes, SourcesInv, ClearingIsAllowed
<1>6. CASE remove_dir_all
  BY <1>6 DEF remove_dir_all, Goes, SourcesInv, ClearingIsAllowed
<1>7. CASE ClearFails
  BY <1>7 DEF ClearFails, Goes, SourcesInv, ClearingIsAllowed
<1>8. CASE Create
  BY <1>8 DEF Create, Goes, SourcesInv, ClearingIsAllowed
<1>9. ASSUME NEW d \in Docs, ReadSource(d) \/ Extract(d) \/ WriteText(d) \/ WriteFails(d)
      PROVE  SourcesInv'
  BY <1>9 DEF ReadSource, Extract, WriteText, WriteFails, Works, Goes, SourcesInv, ClearingIsAllowed
<1>10. ASSUME NEW d \in Docs, Edit(d) PROVE SourcesInv'
  BY <1>10 DEF Edit, SourcesInv, ClearingIsAllowed
<1>11. CASE Collect
  BY <1>11 DEF Collect, Goes, SourcesInv, ClearingIsAllowed
<1>12. CASE WriteLog
  BY <1>12 DEF WriteLog, Goes, SourcesInv, ClearingIsAllowed
<1>13. CASE LogFails
  BY <1>13 DEF LogFails, Goes, SourcesInv, ClearingIsAllowed
<1>14. CASE Crash
  BY <1>14 DEF Crash, SourcesInv, ClearingIsAllowed
<1>15. CASE Retry
  BY <1>15 DEF Retry, SourcesInv, ClearingIsAllowed
<1>16. CASE Ended \/ UNCHANGED vars
  BY <1>16 DEF Ended, vars, SourcesInv, ClearingIsAllowed
<1> QED
  BY <1>1, <1>2, <1>3, <1>4, <1>5, <1>6, <1>7, <1>8, <1>9, <1>10, <1>11, <1>12, <1>13, <1>14,
     <1>15, <1>16 DEF Next

(* A source in the root of its corpus is not below a directory that passed the check. *)
LEMMA RootIsNotCleared ==
  ASSUME SourcesInv, stage = "Clear", NEW d \in Docs, Below(d)
  PROVE  case.overwrite /\ case.docs[d].dir # <<>>
<1>1. case.overwrite /\ validate_output_path(case.docs, case.output)
  BY DEF SourcesInv, ClearingIsAllowed
<1>2. ASSUME case.docs[d].dir = <<>> PROVE FALSE
  <2> DEFINE folder == case.docs[d].folder
  <2>1. folder \in Seq(Seq(Unit))
    BY CasesAssumption DEF SourcesInv, Docs, Names
  <2>2. SubSeq(folder, 1, Len(folder) - Len(case.docs[d].dir)) = folder
    <3> HIDE DEF folder
    <3>1. Len(case.docs[d].dir) = 0
      BY <1>2
    <3>2. Len(folder) - Len(case.docs[d].dir) = Len(folder)
      BY <2>1, <3>1
    <3> QED  BY <2>1, <3>2
  <2>3. folder \in infer_source_roots(case.docs)
    BY <2>2, Zenon DEF infer_source_roots, Docs
  <2>4. ~ IsPrefix(case.output, folder)
    BY <1>1, <2>3, Zenon DEF validate_output_path
  <2> QED  BY <2>4, Zenon DEF Below
<1> QED  BY <1>1, <1>2

(* A step takes away a source only as SourcesAreKept says. *)
Kept == \A d \in Docs : version[d] # 0 /\ version'[d] = 0 /\ stage # "Write" =>
          case.overwrite /\ case.docs[d].dir # <<>>

LEMMA StepsKeepSources == SourcesInv /\ [Next]_vars => Kept
<1> SUFFICES ASSUME SourcesInv, [Next]_vars,
                    NEW d \in Docs, version[d] # 0, version'[d] = 0, stage # "Write"
             PROVE  case.overwrite /\ case.docs[d].dir # <<>>
  BY DEF Kept
<1>1. CASE remove_dir_all
  <2>1. version' = [e \in Docs |-> IF Below(e) THEN 0 ELSE version[e]] /\ stage = "Clear"
    BY <1>1 DEF remove_dir_all, Goes
  <2>2. Below(d)
    BY <2>1
  <2> QED  BY <2>1, <2>2, RootIsNotCleared
<1>2. CASE ClearFails
  <2>1. PICK S \in SUBSET {e \in Docs : Below(e)} :
           version' = [e \in Docs |-> IF e \in S THEN 0 ELSE version[e]]
    BY <1>2 DEF ClearFails
  <2>2. d \in S /\ stage = "Clear"
    BY <1>2, <2>1 DEF ClearFails, Goes
  <2> QED  BY <2>2, RootIsNotCleared
<1>3. CASE UNCHANGED version
  BY <1>3
<1>4. ASSUME NEW e \in Docs, ReadSource(e) \/ Extract(e) \/ WriteText(e) \/ WriteFails(e) \/ Edit(e)
      PROVE  FALSE
  BY <1>4 DEF ReadSource, Extract, WriteText, WriteFails, Edit, Works, Goes
<1>5. remove_dir_all \/ ClearFails \/ UNCHANGED version
  <2>1. Preview \/ preview_processed_files \/ CountWords \/ Refuse \/ Accept \/ Create => UNCHANGED version
    BY DEF Preview, preview_processed_files, CountWords, Refuse, Accept, Create
  <2>2. Collect \/ WriteLog \/ LogFails \/ Crash \/ Retry \/ Ended \/ UNCHANGED vars => UNCHANGED version
    BY DEF Collect, WriteLog, LogFails, Crash, Retry, Ended, vars
  <2> QED  BY <1>4, <2>1, <2>2 DEF Next
<1> QED  BY <1>1, <1>2, <1>3, <1>5

(* No export, however often it fails and is asked for again, takes away a source that lies
   in the root of its corpus; another one goes only when a directory around it was to be
   overwritten. *)
THEOREM RootsAreNeverCleared == Spec => SourcesAreKept
<1>1. Init => SourcesInv
  BY DEF Init, SourcesInv, ClearingIsAllowed
<1>2. SourcesInv /\ [Next]_vars => [Kept]_vars
  BY StepsKeepSources
<1> QED  BY <1>1, <1>2, SourcesInvNext, PTL DEF Spec, SourcesAreKept, Kept

(***************************************************************************)
(* The manifest.                                                           *)
(***************************************************************************)
Shapes ==
  /\ SourcesInv
  /\ version \in [Docs -> Nat] /\ read \in [Docs -> Nat] /\ taken \in [Docs -> Nat]
  /\ \A d \in Docs : {version[d], read[d], taken[d]} \subseteq 0..Len(case.docs[d].contents)
  /\ DOMAIN worker = Docs
  /\ output = [kind |-> output.kind, texts |-> output.texts, manifest |-> output.manifest,
               written |-> output.written]

(* An export under way has made its directory, and there is no manifest before its logs. *)
Opened ==
  /\ stage \in {"Write", "Log", "Done"} => output.kind = "directory"
  /\ stage \in {"Preview", "Count", "Create", "Write"} \/ output.kind = "none" =>
       output.manifest = NoManifest

(* The state of the workers is that of an export which is under way, or which is done with
   its texts and will not be repeated over them. *)
TextsDone == stage \in {"Log", "Done"} \/ (output.manifest # NoManifest /\ ~case.overwrite)
UnderWay == stage = "Write" \/ TextsDone

Exported(d) == ExportedText(case.docs[d], Entry(d, taken[d]), case.config)
Recorded(d) ==
  /\ d \in DOMAIN results /\ results[d] = ManifestFileRecord(d, Exported(d))
  /\ paths[d] \in DOMAIN output.texts /\ output.texts[paths[d]] = Whole(Exported(d).text)
SameBytes(d) == case.docs[d].kind \in {"text", "html"} => taken[d] = read[d]

WorkIsRecorded ==
  UnderWay =>
    /\ paths = OutputPaths(case.docs)
    /\ DOMAIN output.texts \subseteq {paths[d] : d \in {e \in Docs : worker[e] \in {"written", "failed"}}}
    /\ \A d \in Docs : worker[d] \in {"extracted", "written"} => SameBytes(d)
    /\ \A d \in Docs : worker[d] = "written" => Recorded(d)
AllWritten == TextsDone => \A d \in Docs : worker[d] = "written"
ManifestIsResults == ManifestStands => output.manifest = [d \in Docs |-> results[d]]

ManifestInv == Shapes /\ Opened /\ WorkIsRecorded /\ AllWritten /\ ManifestIsResults

(* Another path for every source. *)
PathsAreDistinct(docs) == \A d, e \in DOMAIN docs : d # e => OutputPaths(docs)[d] # OutputPaths(docs)[e]

work_ == <<case, paths, worker, read, taken, results, output>>

(* A step that leaves the work alone and stands in no new relation to it. *)
LEMMA LeavesWork ==
  ASSUME ManifestInv, work_' = work_, Shapes', Opened', UnderWay' => UnderWay,
         TextsDone' => \A d \in Docs : worker[d] = "written", ManifestStands' => ManifestStands
  PROVE  ManifestInv'
<1>1. Docs' = Docs /\ \A d : (Recorded(d)' <=> Recorded(d)) /\ (SameBytes(d)' <=> SameBytes(d))
  BY DEF work_, Docs, Recorded, SameBytes, Exported, Entry, ManifestFileRecord, Whole
<1>2. WorkIsRecorded'
  BY <1>1 DEF ManifestInv, WorkIsRecorded, work_
<1>3. AllWritten'
  BY <1>1 DEF AllWritten, work_
<1>4. ManifestIsResults'
  BY <1>1 DEF ManifestInv, ManifestIsResults, work_
<1> QED  BY <1>2, <1>3, <1>4 DEF ManifestInv

(* Steps between the stages, and those of the world but for a crash. *)
LEMMA QuietSteps ==
  ASSUME ManifestInv, SourcesInv',
         \/ Preview \/ preview_processed_files \/ CountWords \/ Refuse \/ Accept \/ Collect
         \/ LogFails \/ Retry \/ Ended \/ UNCHANGED vars \/ \E d \in Docs : Edit(d)
  PROVE  ManifestInv'
<1> USE DEF work_, work
<1>1. CASE Preview \/ preview_processed_files \/ CountWords
  <2>1. work_' = work_ /\ version' = version /\ stage \in {"Preview", "Count"}
        /\ stage' \in {"Preview", "Count", "Validate"}
    BY <1>1 DEF Preview, preview_processed_files, CountWords
  <2>2. output.manifest = NoManifest
    BY <2>1 DEF ManifestInv, Opened
  <2>3. Shapes' /\ Opened'
    BY <2>1, <2>2 DEF ManifestInv, Shapes, Opened, Docs
  <2> QED  BY <2>1, <2>2, <2>3, LeavesWork DEF UnderWay, TextsDone, ManifestStands
<1>2. CASE Refuse \/ LogFails \/ Retry
  <2>1. work_' = work_ /\ version' = version /\ stage \in {"Validate", "Log", "Failed"}
        /\ stage' \in {"Failed", "Validate"}
    BY <1>2 DEF Refuse, LogFails, Retry, Goes
  <2>2. Shapes' /\ Opened'
    BY <2>1 DEF ManifestInv, Shapes, Opened, Docs
  <2>3. (TextsDone' => TextsDone) /\ (UnderWay' => UnderWay) /\ (ManifestStands' => ManifestStands)
    BY <2>1 DEF UnderWay, TextsDone, ManifestStands
  <2> QED  BY <2>1, <2>2, <2>3, LeavesWork DEF ManifestInv, AllWritten
<1>3. CASE Accept
  <2>1. work_' = work_ /\ version' = version /\ stage = "Validate"
        /\ stage' = (IF output.kind = "none" THEN "Create" ELSE "Clear")
    BY <1>3 DEF Accept, Goes
  <2>2. Shapes' /\ Opened'
    BY <2>1 DEF ManifestInv, Shapes, Opened, Docs
  <2>3. (TextsDone' => TextsDone) /\ (UnderWay' => UnderWay) /\ (ManifestStands' => ManifestStands)
    BY <2>1 DEF UnderWay, TextsDone, ManifestStands
  <2> QED  BY <2>1, <2>2, <2>3, LeavesWork DEF ManifestInv, AllWritten
<1>4. CASE Collect
  <2>1. work_' = work_ /\ version' = version /\ stage = "Write" /\ stage' \in {"Failed", "Log"}
        /\ (stage' = "Log" => \A d \in Docs : worker[d] = "written")
    BY <1>4 DEF Collect, Goes
  <2>2. output.manifest = NoManifest /\ output.kind = "directory"
    BY <2>1 DEF ManifestInv, Opened
  <2>3. Shapes' /\ Opened'
    BY <2>1, <2>2 DEF ManifestInv, Shapes, Opened, Docs
  <2>4. ~ ManifestStands' /\ UnderWay /\ (TextsDone' => stage' \in {"Log", "Done"})
    BY <2>1, <2>2 DEF UnderWay, TextsDone, ManifestStands
  <2> QED  BY <2>1, <2>3, <2>4, LeavesWork
<1>5. CASE Ended \/ UNCHANGED vars
  <2>1. work_' = work_ /\ version' = version /\ stage' = stage
    BY <1>5 DEF Ended, vars
  <2>2. Shapes' /\ Opened'
    BY <2>1 DEF ManifestInv, Shapes, Opened, Docs
  <2>3. (TextsDone' => TextsDone) /\ (UnderWay' => UnderWay) /\ (ManifestStands' => ManifestStands)
    BY <2>1 DEF UnderWay, TextsDone, ManifestStands
  <2> QED  BY <2>1, <2>2, <2>3, LeavesWork DEF ManifestInv, AllWritten
<1>6. ASSUME NEW d \in Docs, Edit(d) PROVE ManifestInv'
  <2>1. work_' = work_ /\ stage' = stage
    BY <1>6 DEF Edit
  <2>2. version' = [version EXCEPT ![d] = IF version[d] < Len(case.docs[d].contents) THEN version[d] + 1 ELSE 0]
    BY <1>6 DEF Edit
  <2>3. Shapes'
    <3> DEFINE n == IF version[d] < Len(case.docs[d].contents) THEN version[d] + 1 ELSE 0
    <3>1. Len(case.docs[d].contents) \in Nat /\ version \in [Docs -> Nat]
      BY CasesAssumption DEF ManifestInv, Shapes, SourcesInv, Docs
    <3>2. n \in 0..Len(case.docs[d].contents)
      BY <3>1
    <3> HIDE DEF n
    <3>3. version' = [version EXCEPT ![d] = n]
      BY <2>2 DEF n
    <3> QED  BY <2>1, <3>1, <3>2, <3>3 DEF ManifestInv, Shapes, Docs
  <2>4. Opened'
    BY <2>1 DEF ManifestInv, Opened
  <2>5. (TextsDone' => TextsDone) /\ (UnderWay' => UnderWay) /\ (ManifestStands' => ManifestStands)
    BY <2>1 DEF UnderWay, TextsDone, ManifestStands
  <2> QED  BY <2>1, <2>3, <2>4, <2>5, LeavesWork DEF ManifestInv, AllWritten
<1> QED  BY <1>1, <1>2, <1>3, <1>4, <1>5, <1>6

(* The directory is cleared, and made again. *)
LEMMA ClearingSteps ==
  ASSUME ManifestInv, SourcesInv', remove_dir_all \/ ClearFails \/ Create
  PROVE  ManifestInv'
<1> USE DEF work
<1>1. CASE remove_dir_all
  <2>1. /\ case' = case /\ read' = read /\ taken' = taken /\ worker' = worker
        /\ stage' = "Create" /\ output' = Empty("none")
        /\ version' = [d \in Docs |-> IF Below(d) THEN 0 ELSE version[d]]
    BY <1>1 DEF remove_dir_all, Goes
  <2>2. output'.manifest = NoManifest
        /\ output' = [kind |-> "none", texts |-> NoFiles, manifest |-> NoManifest, written |-> {}]
    BY <2>1 DEF Empty
  <2>3. Shapes'
    <3>1. \A d \in Docs : Len(case.docs[d].contents) \in Nat
      BY CasesAssumption DEF ManifestInv, Shapes, SourcesInv, Docs
    <3> QED  BY <2>1, <2>2, <3>1 DEF ManifestInv, Shapes, Docs
  <2> QED  BY <2>1, <2>2, <2>3 DEF ManifestInv, Opened, WorkIsRecorded, AllWritten, ManifestIsResults,
                                    UnderWay, TextsDone, ManifestStands
<1>2. CASE ClearFails
  <2>1. /\ case' = case /\ read' = read /\ taken' = taken /\ worker' = worker /\ stage = "Clear"
        /\ stage' = "Failed" /\ case.overwrite
        /\ \E S \in SUBSET Docs : version' = [d \in Docs |-> IF d \in S THEN 0 ELSE version[d]]
    BY <1>2 DEF ClearFails, Goes, ManifestInv, Shapes, SourcesInv, ClearingIsAllowed
  <2>2. output' \in {output, [output EXCEPT !.texts = NoFiles], [output EXCEPT !.manifest = NoManifest]}
    BY <1>2 DEF ClearFails
  <2>3. /\ output' = [kind |-> output'.kind, texts |-> output'.texts, manifest |-> output'.manifest,
                      written |-> output'.written]
        /\ output'.kind = output.kind /\ output'.manifest \in {output.manifest, NoManifest}
    BY <2>2 DEF ManifestInv, Shapes
  <2>4. Shapes'
    <3>1. \A d \in Docs : Len(case.docs[d].contents) \in Nat
      BY CasesAssumption DEF ManifestInv, Shapes, SourcesInv, Docs
    <3>2. PICK S \in SUBSET Docs : version' = [d \in Docs |-> IF d \in S THEN 0 ELSE version[d]]
      BY <2>1
    <3> QED  BY <2>1, <2>3, <3>1, <3>2 DEF ManifestInv, Shapes, Docs
  <2>5. Opened'
    BY <2>1, <2>3 DEF ManifestInv, Opened
  <2>6. ~ UnderWay' /\ ~ TextsDone' /\ ~ ManifestStands'
    BY <2>1 DEF UnderWay, TextsDone, ManifestStands
  <2> QED  BY <2>4, <2>5, <2>6 DEF ManifestInv, WorkIsRecorded, AllWritten, ManifestIsResults
<1>3. CASE Create
  <2>1. /\ case' = case /\ version' = version /\ stage' = "Write" /\ output' = Empty("directory")
        /\ paths' = OutputPaths(case.docs) /\ worker' = [d \in Docs |-> "new"]
        /\ read' = [d \in Docs |-> 0] /\ taken' = [d \in Docs |-> 0]
    BY <1>3 DEF Create, Goes, Idle
  <2>2. output' = [kind |-> "directory", texts |-> NoFiles, manifest |-> NoManifest, written |-> {}]
    BY <2>1 DEF Empty
  <2>3. Shapes'
    <3>1. \A d \in Docs : Len(case.docs[d].contents) \in Nat
      BY CasesAssumption DEF ManifestInv, Shapes, SourcesInv, Docs
    <3> QED  BY <2>1, <2>2, <3>1 DEF ManifestInv, Shapes, Docs
  <2>4. Opened' /\ ~ TextsDone' /\ ~ ManifestStands'
    BY <2>1, <2>2 DEF Opened, TextsDone, ManifestStands
  <2>5. WorkIsRecorded'
    <3>1. DOMAIN output'.texts = {}
      BY <2>2 DEF NoFiles
    <3>2. \A d \in Docs' : worker'[d] = "new"
      BY <2>1 DEF Docs
    <3> QED  BY <2>1, <3>1, <3>2 DEF WorkIsRecorded
  <2> QED  BY <2>3, <2>4, <2>5 DEF ManifestInv, AllWritten, ManifestIsResults
<1> QED  BY <1>1, <1>2, <1>3

(* What a worker's step leaves as it is. *)
LEMMA WorkerFrame ==
  ASSUME ManifestInv, SourcesInv', NEW d \in Docs, NEW from, NEW to, Works(d, from, to),
         read' \in [Docs -> Nat], taken' \in [Docs -> Nat],
         \A e \in Docs : {read'[e], taken'[e]} \subseteq 0..Len(case.docs[e].contents),
         output' = [output EXCEPT !.texts = output'.texts]
  PROVE  /\ Shapes' /\ Opened' /\ AllWritten' /\ ManifestIsResults'
         /\ stage = "Write" /\ stage' = "Write" /\ case' = case /\ paths' = paths /\ Docs' = Docs
         /\ worker[d] = from /\ worker'[d] = to /\ \A e \in Docs : e # d => worker'[e] = worker[e]
<1>1. /\ stage = "Write" /\ stage' = "Write" /\ case' = case /\ version' = version /\ paths' = paths
      /\ worker[d] = from /\ worker' = [worker EXCEPT ![d] = to]
  BY DEF Works, Goes
<1>2. Docs' = Docs
  BY <1>1 DEF Docs
<1>3. /\ output' = [kind |-> output'.kind, texts |-> output'.texts, manifest |-> output'.manifest,
                    written |-> output'.written]
      /\ output'.kind = output.kind /\ output'.manifest = output.manifest
  BY DEF ManifestInv, Shapes
<1>4. Shapes' /\ Opened'
  BY <1>1, <1>2, <1>3 DEF ManifestInv, Shapes, Opened
<1>5. ~ TextsDone' /\ ~ ManifestStands'
  BY <1>1, <1>3 DEF TextsDone, ManifestStands, ManifestInv, Opened
<1>6. worker'[d] = to /\ \A e \in Docs : e # d => worker'[e] = worker[e]
  BY <1>1 DEF ManifestInv, Shapes
<1> QED  BY <1>1, <1>2, <1>4, <1>5, <1>6 DEF AllWritten, ManifestIsResults

(* A source is read, or its text extracted: nothing is written yet. *)
LEMMA ReadingSteps ==
  ASSUME ManifestInv, SourcesInv', NEW d \in Docs, ReadSource(d) \/ Extract(d)
  PROVE  ManifestInv'
<1> DEFINE to == worker'[d]
<1>1. /\ read \in [Docs -> Nat] /\ taken \in [Docs -> Nat] /\ version \in [Docs -> Nat]
      /\ \A e \in Docs : {version[e], read[e], taken[e]} \subseteq 0..Len(case.docs[e].contents)
      /\ DOMAIN worker = Docs
  BY DEF ManifestInv, Shapes
<1>2. /\ results' = results /\ output' = output
      /\ \/ /\ worker[d] = "new" /\ to \in {"failed", "read"}
            /\ read' = [read EXCEPT ![d] = version[d]] /\ taken' = taken
         \/ /\ worker[d] = "read" /\ to = "extracted" /\ read' = read
            /\ taken' = [taken EXCEPT ![d] = IF case.docs[d].kind \in {"text", "html"}
                                             THEN read[d] ELSE version[d]]
  BY <1>1 DEF ReadSource, Extract, Works
<1>3. Works(d, worker[d], to)
  BY <1>1 DEF ReadSource, Extract, Works
<1>4. /\ read' \in [Docs -> Nat] /\ taken' \in [Docs -> Nat]
      /\ \A e \in Docs : {read'[e], taken'[e]} \subseteq 0..Len(case.docs[e].contents)
      /\ \A e \in Docs : e # d => read'[e] = read[e] /\ taken'[e] = taken[e]
      /\ to = "extracted" /\ case.docs[d].kind \in {"text", "html"} => taken'[d] = read'[d]
  <2> DEFINE last(e) == Len(case.docs[e].contents)
             from == IF case.docs[d].kind \in {"text", "html"} THEN read[d] ELSE version[d]
  <2>1. \A e \in Docs : version[e] \in 0..last(e) /\ read[e] \in 0..last(e) /\ taken[e] \in 0..last(e)
    BY <1>1
  <2>2. from \in Nat /\ from \in 0..last(d)
    BY <1>1, <2>1
  <2>3. case.docs[d].kind \in {"text", "html"} => from = read[d]
    OBVIOUS
  <2> HIDE DEF last, from
  <2>4. CASE read' = [read EXCEPT ![d] = version[d]] /\ taken' = taken /\ to \in {"failed", "read"}
    <3>1. \A e \in Docs : read'[e] = IF e = d THEN version[d] ELSE read[e]
      BY <1>1, <2>4
    <3>2. read' \in [Docs -> Nat] /\ \A e \in Docs : read'[e] \in 0..last(e)
      BY <1>1, <2>1, <2>4, <3>1
    <3> QED  BY <1>1, <2>1, <2>4, <3>1, <3>2 DEF last
  <2>5. CASE read' = read /\ taken' = [taken EXCEPT ![d] = from]
    <3>1. \A e \in Docs : taken'[e] = IF e = d THEN from ELSE taken[e]
      BY <1>1, <2>5
    <3>2. taken' \in [Docs -> Nat] /\ \A e \in Docs : taken'[e] \in 0..last(e)
      BY <1>1, <2>1, <2>2, <2>5, <3>1
    <3> QED  BY <1>1, <2>1, <2>3, <2>5, <3>1, <3>2 DEF last
  <2> QED  BY <1>2, <2>4, <2>5 DEF from
<1>5. output' = [output EXCEPT !.texts = output'.texts]
  BY <1>2 DEF ManifestInv, Shapes
<1> HIDE DEF to
<1>6. /\ Shapes' /\ Opened' /\ AllWritten' /\ ManifestIsResults'
      /\ stage = "Write" /\ stage' = "Write" /\ case' = case /\ paths' = paths /\ Docs' = Docs
      /\ worker'[d] = to /\ \A e \in Docs : e # d => worker'[e] = worker[e]
  BY <1>3, <1>4, <1>5, WorkerFrame
<1>7. to \in {"failed", "read", "extracted"} /\ worker[d] \notin {"written", "failed"}
  BY <1>2
<1>8. WorkIsRecorded'
  <2>1. /\ paths = OutputPaths(case.docs)
        /\ DOMAIN output.texts \subseteq {paths[e] : e \in {x \in Docs : worker[x] \in {"written", "failed"}}}
        /\ \A e \in Docs : worker[e] \in {"extracted", "written"} => SameBytes(e)
        /\ \A e \in Docs : worker[e] = "written" => Recorded(e)
    BY <1>6 DEF ManifestInv, WorkIsRecorded, UnderWay
  <2>2. {x \in Docs : worker[x] \in {"written", "failed"}} \subseteq {x \in Docs : worker'[x] \in {"written", "failed"}}
    BY <1>6, <1>7
  <2>3. DOMAIN output'.texts \subseteq {paths'[e] : e \in {x \in Docs' : worker'[x] \in {"written", "failed"}}}
    BY <1>2, <1>6, <2>1, <2>2
  <2>4. ASSUME NEW e \in Docs, worker'[e] \in {"extracted", "written"} PROVE SameBytes(e)'
    BY <1>4, <1>6, <1>7, <2>1, <2>4 DEF SameBytes
  <2>5. ASSUME NEW e \in Docs, worker'[e] = "written" PROVE Recorded(e)'
    <3>1. e # d /\ worker[e] = "written"
      BY <1>6, <1>7, <2>5
    <3>2. read'[e] = read[e] /\ taken'[e] = taken[e] /\ Recorded(e)
      BY <1>4, <2>1, <3>1
    <3> QED  BY <1>2, <1>6, <3>2 DEF Recorded, Exported, Entry, ManifestFileRecord, Whole
  <2> QED  BY <1>6, <2>1, <2>3, <2>4, <2>5 DEF WorkIsRecorded
<1> QED  BY <1>6, <1>8 DEF ManifestInv

(* A worker that ends has written to its own file, and the texts of the others stand. *)
LEMMA WritingSteps ==
  ASSUME ManifestInv, SourcesInv', PathsAreDistinct(case.docs),
         NEW d \in Docs, WriteText(d) \/ WriteFails(d)
  PROVE  ManifestInv'
<1> DEFINE to == worker'[d]
<1>1. /\ read \in [Docs -> Nat] /\ taken \in [Docs -> Nat] /\ DOMAIN worker = Docs
      /\ \A e \in Docs : {read[e], taken[e]} \subseteq 0..Len(case.docs[e].contents)
      /\ output = [kind |-> output.kind, texts |-> output.texts, manifest |-> output.manifest,
                   written |-> output.written]
  BY DEF ManifestInv, Shapes
<1>2. /\ read' = read /\ taken' = taken /\ worker[d] = "extracted" /\ Works(d, "extracted", to)
      /\ to \in {"written", "failed"}
  BY <1>1 DEF WriteText, WriteFails, Works
<1>3. /\ to = "written" => output' = With(paths[d], Whole(Exported(d).text))
                            /\ results' = Put(results, {d}, ManifestFileRecord(d, Exported(d)))
      /\ to = "failed" => (output' = output \/ output' = With(paths[d], Torn)) /\ results' = results
  BY <1>1 DEF WriteText, WriteFails, Works, Exported
<1> DEFINE texts == output.texts
           files == output'.texts
<1>4. /\ output' = [output EXCEPT !.texts = output'.texts]
      /\ DOMAIN files \subseteq {paths[d]} \cup DOMAIN texts /\ DOMAIN texts \subseteq DOMAIN files
      /\ \A p \in DOMAIN texts : p # paths[d] => files[p] = texts[p]
      /\ to = "written" => paths[d] \in DOMAIN files /\ files[paths[d]] = Whole(Exported(d).text)
  <2>1. ASSUME NEW file, output' = With(paths[d], file)
        PROVE  /\ output' = [output EXCEPT !.texts = output'.texts] /\ DOMAIN files = {paths[d]} \cup DOMAIN texts
               /\ files[paths[d]] = file /\ \A p \in DOMAIN texts : p # paths[d] => files[p] = texts[p]
    <3> DEFINE more == Put(texts, {paths[d]}, file)
    <3>1. output' = [output EXCEPT !.texts = more]
      BY <2>1 DEF With
    <3>2. /\ DOMAIN more = {paths[d]} \cup DOMAIN texts /\ more[paths[d]] = file
          /\ \A p \in DOMAIN texts : p # paths[d] => more[p] = texts[p]
      <4> HIDE DEF texts
      <4> QED  BY DEF more, Put
    <3> HIDE DEF more
    <3>3. files = more
      BY <1>1, <3>1
    <3> QED  BY <3>1, <3>2, <3>3
  <2>2. CASE output' = output /\ to = "failed"
    <3>1. files = texts /\ output' = [output EXCEPT !.texts = output'.texts]
      BY <1>1, <2>2
    <3> HIDE DEF to, texts, files
    <3> QED  BY <2>2, <3>1
  <2>3. CASE to = "written"
    <3>1. output' = With(paths[d], Whole(Exported(d).text))
      BY <1>3, <2>3
    <3> HIDE DEF to, texts, files
    <3> QED  BY <2>1, <3>1
  <2>4. CASE output' = With(paths[d], Torn) /\ to = "failed"
    <3> HIDE DEF to, texts, files
    <3> QED  BY <2>1, <2>4
  <2> QED  BY <1>2, <1>3, <2>2, <2>3, <2>4
<1>5. /\ to = "written" => d \in DOMAIN results' /\ results'[d] = ManifestFileRecord(d, Exported(d))
      /\ \A e \in DOMAIN results : e # d => e \in DOMAIN results' /\ results'[e] = results[e]
  <2> HIDE DEF to
  <2>1. CASE to = "written"
    <3>1. results' = Put(results, {d}, ManifestFileRecord(d, Exported(d)))
      BY <1>3, <2>1
    <3> QED  BY <3>1 DEF Put
  <2>2. CASE to = "failed"
    BY <1>3, <2>2
  <2> QED  BY <1>2, <2>1, <2>2
<1> HIDE DEF to, texts, files
<1>6. /\ Shapes' /\ Opened' /\ AllWritten' /\ ManifestIsResults'
      /\ stage = "Write" /\ stage' = "Write" /\ case' = case /\ paths' = paths /\ Docs' = Docs
      /\ worker'[d] = to /\ \A e \in Docs : e # d => worker'[e] = worker[e]
  BY <1>1, <1>2, <1>4, WorkerFrame DEF texts, files
<1>7. WorkIsRecorded'
  <2>1. /\ paths = OutputPaths(case.docs)
        /\ DOMAIN texts \subseteq {paths[e] : e \in {x \in Docs : worker[x] \in {"written", "failed"}}}
        /\ \A e \in Docs : worker[e] \in {"extracted", "written"} => SameBytes(e)
        /\ \A e \in Docs : worker[e] = "written" => Recorded(e)
    BY <1>6 DEF ManifestInv, WorkIsRecorded, UnderWay, texts
  <2>2. files = output'.texts
    BY DEF files
  <2>3. DOMAIN output'.texts \subseteq {paths'[e] : e \in {x \in Docs' : worker'[x] \in {"written", "failed"}}}
    <3>1. {x \in Docs : worker[x] \in {"written", "failed"}} \cup {d}
            \subseteq {x \in Docs : worker'[x] \in {"written", "failed"}}
      BY <1>2, <1>6
    <3> QED  BY <1>4, <1>6, <2>1, <2>2, <3>1
  <2>4. \A e \in Docs : worker'[e] \in {"extracted", "written"} => SameBytes(e)'
    BY <1>2, <1>6, <2>1 DEF SameBytes
  <2>5. ASSUME NEW e \in Docs, worker'[e] = "written" PROVE Recorded(e)'
    <3>1. CASE e = d
      <4>1. to = "written"
        BY <1>6, <2>5, <3>1
      <4>2. ManifestFileRecord(d, Exported(d))' = ManifestFileRecord(d, Exported(d))
            /\ Exported(d)' = Exported(d) /\ Whole(Exported(d).text)' = Whole(Exported(d).text)
        BY <1>2, <1>6 DEF ManifestFileRecord, Exported, Entry, Whole
      <4> QED  BY <1>4, <1>5, <1>6, <2>2, <3>1, <4>1, <4>2, Zenon DEF Recorded
    <3>2. CASE e # d
      <4>1. worker[e] = "written" /\ Recorded(e)
        BY <1>6, <2>1, <2>5, <3>2
      <4>2. paths[e] # paths[d]
        BY <2>1, <3>2 DEF PathsAreDistinct, Docs
      <4>3. /\ e \in DOMAIN results' /\ results'[e] = ManifestFileRecord(e, Exported(e))
            /\ paths[e] \in DOMAIN files /\ files[paths[e]] = Whole(Exported(e).text)
        BY <1>4, <1>5, <3>2, <4>1, <4>2 DEF Recorded, texts
      <4>4. ManifestFileRecord(e, Exported(e))' = ManifestFileRecord(e, Exported(e))
            /\ Exported(e)' = Exported(e) /\ Whole(Exported(e).text)' = Whole(Exported(e).text)
        BY <1>2, <1>6 DEF ManifestFileRecord, Exported, Entry, Whole
      <4> QED  BY <1>6, <2>2, <4>3, <4>4, Zenon DEF Recorded
    <3> QED  BY <3>1, <3>2
  <2> QED  BY <1>6, <2>1, <2>3, <2>4, <2>5 DEF WorkIsRecorded
<1> QED  BY <1>6, <1>7 DEF ManifestInv

(***************************************************************************)
(* Numbers.                                                                *)
(***************************************************************************)
LEMMA LeastNatural ==
  ASSUME NEW T, T \subseteq Nat, T # {}
  PROVE  \E x \in T : \A y \in T : x <= y
<1>1. PICK x \in T : \A y \in T : ~ (<<y, x>> \in OpToRel(<, Nat))
  BY WFMin, NatLessThanWellFounded, Zenon
<1>2. \A y \in T : ~ (y < x)
  <2> TAKE y \in T
  <2>1. <<y, x>> \in Nat \X Nat
    OBVIOUS
  <2>2. <<y, x>> \notin {ss \in Nat \X Nat : ss[1] < ss[2]}
    BY <1>1, Zenon DEF OpToRel
  <2> QED  BY <2>1, <2>2
<1> QED  BY <1>2

(* Induction for a set of naturals up to n. *)
LEMMA UpTo ==
  ASSUME NEW n \in Nat, NEW S, 0 \in S, \A m \in 0..n : m \in S /\ m < n => m + 1 \in S
  PROVE  \A m \in 0..n : m \in S
<1> DEFINE T == {m \in 0..n : m \notin S}
<1>1. ASSUME T # {} PROVE FALSE
  <2>1. T \subseteq Nat
    OBVIOUS
  <2>2. PICK x \in T : \A y \in T : x <= y
    BY <1>1, <2>1, LeastNatural
  <2>3. x \in 0..n /\ x \notin S /\ x # 0
    OBVIOUS
  <2>4. x - 1 \in 0..n /\ x - 1 < n /\ (x - 1) + 1 = x
    BY <2>3
  <2>5. x - 1 \notin T
    BY <2>2, <2>3
  <2>6. x - 1 \in S
    BY <2>4, <2>5
  <2> QED  BY <2>3, <2>4, <2>6
<1> QED  BY <1>1

LEMMA GreatestOf ==
  ASSUME NEW a \in Nat, NEW b \in Nat, NEW S, S \subseteq a..b, S # {}
  PROVE  Max(S) \in S
<1> DEFINE T == {b - x : x \in S}
<1>1. T \subseteq Nat /\ T # {}
  <2>1. \A x \in S : x \in a..b /\ b - x \in Nat
    OBVIOUS
  <2> QED  BY <2>1
<1>2. PICK z \in T : \A y \in T : z <= y
  BY <1>1, LeastNatural
<1>3. PICK x \in S : z = b - x
  OBVIOUS
<1>4. \A y \in S : x >= y
  <2> TAKE y \in S
  <2>1. b - y \in T
    OBVIOUS
  <2> QED  BY <1>2, <1>3, <2>1
<1> QED  BY <1>4, Zenon DEF Max

LEMMA LeastOf ==
  ASSUME NEW S, S \subseteq Nat, S # {}
  PROVE  Min(S) \in S
<1>1. PICK x \in S : \A y \in S : x <= y
  BY LeastNatural
<1> QED  BY <1>1, Zenon DEF Min

(***************************************************************************)
(* Safe names are sequences.                                               *)
(***************************************************************************)
LEMMA Appended ==
  ASSUME NEW U, NEW s \in Seq(U), NEW u \in U
  PROVE  Append(s, u) \in Seq(U)
OBVIOUS

LEMMA SequenceOf ==
  ASSUME NEW S, NEW n \in Nat, NEW f \in [1..n -> S]
  PROVE  f \in Seq(S)
OBVIOUS

LEMMA Mapped ==
  ASSUME NEW U, NEW s \in Seq(U), NEW S, NEW u \in U
  PROVE  [i \in 1..Len(s) |-> IF s[i] \in S THEN u ELSE s[i]] \in Seq(U)
<1>1. Len(s) \in Nat /\ \A i \in 1..Len(s) : s[i] \in U
  OBVIOUS
<1> DEFINE n == Len(s)
           f == [i \in 1..n |-> IF s[i] \in S THEN u ELSE s[i]]
<1>2. n \in Nat /\ f \in [1..n -> U]
  BY <1>1
<1> HIDE DEF n, f
<1>3. f \in Seq(U)
  BY <1>2, SequenceOf
<1> QED  BY <1>3 DEF f, n

LEMMA Trimmed ==
  ASSUME NEW U, NEW t \in Seq(U), NEW S
  PROVE  trim_start_matches(t, S) \in Seq(U) /\ trim_end_matches(t, S) \in Seq(U)
<1> DEFINE kept == {i \in 1..Len(t) : t[i] \notin S}
           end == IF kept = {} THEN 0 ELSE Max(kept)
<1>1. kept \subseteq 1..Len(t) /\ kept \subseteq Nat /\ Len(t) \in Nat
  OBVIOUS
<1>2. trim_start_matches(t, S) = (IF kept = {} THEN <<>> ELSE SubSeq(t, Min(kept), Len(t)))
  BY Zenon DEF trim_start_matches, From
<1>3. trim_end_matches(t, S) = SubSeq(t, 1, end)
  BY Zenon DEF trim_end_matches
<1> HIDE DEF kept
<1>4. kept # {} => Min(kept) \in 1..Len(t) /\ Max(kept) \in 1..Len(t)
  BY <1>1, LeastOf, GreatestOf
<1>5. CASE kept = {}
  <2>1. trim_start_matches(t, S) = <<>> /\ trim_end_matches(t, S) = SubSeq(t, 1, 0)
    BY <1>2, <1>3, <1>5
  <2> QED  BY <2>1
<1>6. CASE kept # {}
  <2>1. trim_start_matches(t, S) = SubSeq(t, Min(kept), Len(t)) /\ trim_end_matches(t, S) = SubSeq(t, 1, Max(kept))
    BY <1>2, <1>3, <1>6
  <2> QED  BY <1>1, <1>4, <1>6, <2>1
<1> QED  BY <1>5, <1>6

UnderscoreStep(t, so_far, i) ==
  IF t[i] = "_" /\ Is(t, i - 1, {"_"}) THEN so_far ELSE Append(so_far, t[i])
UnderscoreRun(t, f, n) == f = [i \in 0..n |-> IF i = 0 THEN <<>> ELSE UnderscoreStep(t, f[i - 1], i)]

LEMMA UnderscoreRuns ==
  ASSUME NEW t, NEW n \in Nat
  PROVE  \E f : UnderscoreRun(t, f, n)
<1> DEFINE S == {m \in 0..n : \E f : UnderscoreRun(t, f, m)}
<1>1. 0 \in S
  <2> DEFINE f == [i \in 0..0 |-> <<>>]
  <2>1. f = [i \in 0..0 |-> IF i = 0 THEN <<>> ELSE UnderscoreStep(t, f[i - 1], i)]
    <3>1. \A i \in 0..0 : i = 0
      OBVIOUS
    <3> QED  BY <3>1, Zenon
  <2>2. UnderscoreRun(t, f, 0)
    BY <2>1, Zenon DEF UnderscoreRun
  <2> HIDE DEF f
  <2> QED  BY <2>2
<1>2. ASSUME NEW m \in 0..n, m \in S, m < n PROVE m + 1 \in S
  <2>1. PICK f : UnderscoreRun(t, f, m)
    BY <1>2
  <2> DEFINE g == [i \in 0..m + 1 |-> IF i = m + 1 THEN UnderscoreStep(t, f[m], m + 1) ELSE f[i]]
             h == [i \in 0..m + 1 |-> IF i = 0 THEN <<>> ELSE UnderscoreStep(t, g[i - 1], i)]
  <2>2. ASSUME NEW i \in 0..m + 1 PROVE g[i] = h[i]
    <3>1. CASE i = 0
      <4>1. g[0] = f[0] /\ h[0] = <<>> /\ 0 \in 0..m
        OBVIOUS
      <4> QED  BY <2>1, <3>1, <4>1 DEF UnderscoreRun
    <3>2. CASE i # 0 /\ i # m + 1
      <4>1. i \in 0..m /\ i - 1 \in 0..m + 1 /\ i - 1 # m + 1
        BY <3>2
      <4>2. g[i] = f[i] /\ g[i - 1] = f[i - 1] /\ h[i] = UnderscoreStep(t, g[i - 1], i)
        BY <3>2, <4>1
      <4>3. f[i] = UnderscoreStep(t, f[i - 1], i)
        BY <2>1, <3>2, <4>1 DEF UnderscoreRun
      <4> QED  BY <4>2, <4>3
    <3>3. CASE i = m + 1
      <4>1. i - 1 = m /\ m \in 0..m + 1 /\ m # m + 1 /\ i # 0
        BY <3>3
      <4>2. g[i] = UnderscoreStep(t, f[m], i) /\ g[i - 1] = f[m] /\ h[i] = UnderscoreStep(t, g[i - 1], i)
        BY <3>3, <4>1
      <4> QED  BY <4>2
    <3> QED  BY <3>1, <3>2, <3>3
  <2>3. g = h
    BY <2>2, Zenon
  <2>4. UnderscoreRun(t, g, m + 1)
    BY <2>3, Zenon DEF UnderscoreRun
  <2>5. m + 1 \in 0..n
    BY <1>2
  <2> HIDE DEF g
  <2> QED  BY <2>4, <2>5
<1> HIDE DEF S
<1>3. n \in S
  BY <1>1, <1>2, UpTo
<1> QED  BY <1>3 DEF S

LEMMA UnderscoresOf ==
  ASSUME NEW U, NEW t \in Seq(U), NEW n \in Nat, n <= Len(t), NEW f, UnderscoreRun(t, f, n)
  PROVE  f[n] \in Seq(U)
<1> DEFINE S == {m \in 0..n : f[m] \in Seq(U)}
<1>1. 0 \in S
  BY DEF UnderscoreRun
<1>2. ASSUME NEW m \in 0..n, m \in S, m < n PROVE m + 1 \in S
  <2>1. m + 1 \in 0..n /\ m + 1 # 0 /\ (m + 1) - 1 = m /\ m + 1 \in 1..Len(t)
    BY <1>2
  <2>2. f[m + 1] = UnderscoreStep(t, f[m], m + 1)
    BY <2>1 DEF UnderscoreRun
  <2>3. f[m] \in Seq(U) /\ t[m + 1] \in U
    BY <1>2, <2>1
  <2>4. f[m + 1] = f[m] \/ f[m + 1] = Append(f[m], t[m + 1])
    BY <2>2, Zenon DEF UnderscoreStep
  <2>5. f[m + 1] \in Seq(U)
    <3>1. Append(f[m], t[m + 1]) \in Seq(U)
      BY <2>3, Appended, Zenon
    <3> QED  BY <2>3, <2>4, <3>1, Zenon
  <2> QED  BY <2>1, <2>5
<1> HIDE DEF S
<1>3. \A m \in 0..n : m \in S
  BY <1>1, <1>2, UpTo, Zenon
<1>4. n \in 0..n
  OBVIOUS
<1> QED  BY <1>3, <1>4 DEF S

LEMMA SingledOut ==
  ASSUME NEW U, NEW t \in Seq(U)
  PROVE  SingleUnderscores(t) \in Seq(U)
<1> DEFINE n == Len(t)
           upTo[i \in 0..n] ==
             IF i = 0 THEN <<>>
             ELSE IF t[i] = "_" /\ Is(t, i - 1, {"_"}) THEN upTo[i - 1] ELSE Append(upTo[i - 1], t[i])
<1>1. n \in Nat
  OBVIOUS
<1>2. SingleUnderscores(t) = upTo[n]
  BY Zenon DEF SingleUnderscores
<1>3. \E f : UnderscoreRun(t, f, n)
  BY <1>1, UnderscoreRuns
<1>4. UnderscoreRun(t, upTo, n)
  BY <1>3, Zenon DEF UnderscoreRun, UnderscoreStep
<1> HIDE DEF upTo
<1>5. upTo[n] \in Seq(U)
  BY <1>1, <1>4, UnderscoresOf
<1> QED  BY <1>2, <1>5

LEMMA TheOnly ==
  ASSUME NEW x
  PROVE  The({x}) = x
BY Zenon DEF The

LEMMA SafeNames ==
  ASSUME NEW U, "_" \in U, NEW name \in Seq(U), NEW fallback \in Seq(U)
  PROVE  sanitize_path_component(name, fallback) \in Seq(U)
<1> DEFINE units == SafeUnits(trim(name))
           t == trim(trim_end_matches(SingleUnderscores(units), {"."}))
           chosen == IF t = <<>> THEN fallback ELSE t
<1>1. trim(name) \in Seq(U)
  BY Trimmed DEF trim, trim_matches
<1>2. units \in Seq(U)
  BY <1>1, Mapped, Zenon DEF SafeUnits
<1> HIDE DEF units
<1>3. t \in Seq(U)
  BY <1>2, SingledOut, Trimmed DEF trim, trim_matches
<1> HIDE DEF t
<1> DEFINE allowed == IF to_lowercase(chosen) \in WINDOWS_RESERVED_NAMES THEN Append(chosen, "_") ELSE chosen
<1>4. sanitize_path_component(name, fallback) = The({allowed})
  BY Zenon DEF sanitize_path_component, t, units
<1>5. chosen \in Seq(U)
  BY <1>3
<1>6. allowed \in Seq(U)
  <2> HIDE DEF chosen
  <2> QED  BY <1>5, Appended, Zenon
<1> HIDE DEF allowed
<1> QED  BY <1>4, <1>6, TheOnly, Zenon

(***************************************************************************)
(* The paths of an export.                                                 *)
(***************************************************************************)
Hashed(doc) == <<"_", "_", doc.hash>>
SuffixesOf(doc) == {Number(n) : n \in 1..MaxSuffix} \cup {Hashed(doc)}
PathTo(doc, suffix) == TextPath(SafeDir(doc), SafeStem(doc), suffix)
PathsTo(doc) == {PathTo(doc, suffix) : suffix \in SuffixesOf(doc)}

(* Only the path with the hash may be one in use. *)
LEMMA UniquePath ==
  ASSUME NEW doc, NEW used
  PROVE  LET path == unique_output_relative_path(doc, used)
         IN path \in PathsTo(doc) /\ (path \in used => path = PathTo(doc, Hashed(doc)))
<1> DEFINE free == {n \in 1..MaxSuffix : PathTo(doc, Number(n)) \notin used}
           suffix == IF free = {} THEN Hashed(doc) ELSE Number(Min(free))
<1>2. unique_output_relative_path(doc, used) = PathTo(doc, suffix)
  BY DEF unique_output_relative_path, PathTo, Hashed
<1>3. CASE free = {}
  <2>1. suffix = Hashed(doc)
    BY <1>3
  <2> HIDE DEF suffix
  <2> QED  BY <1>2, <2>1, Zenon DEF PathsTo, SuffixesOf
<1>4. CASE free # {}
  <2>1. free \subseteq Nat
    BY SuffixAssumption
  <2> HIDE DEF free
  <2>2. Min(free) \in free
    BY <1>4, <2>1, LeastOf, Zenon
  <2>3. suffix = Number(Min(free))
    BY <1>4
  <2> HIDE DEF suffix
  <2>4. Min(free) \in 1..MaxSuffix /\ PathTo(doc, Number(Min(free))) \notin used
    BY <2>2, Zenon DEF free
  <2> QED  BY <1>2, <2>3, <2>4, Zenon DEF PathsTo, SuffixesOf
<1> QED  BY <1>3, <1>4

PathStep(docs, so_far, i) == Append(so_far, unique_output_relative_path(docs[i], ToSet(so_far)))
PathRun(docs, f, n) == f = [i \in 0..n |-> IF i = 0 THEN <<>> ELSE PathStep(docs, f[i - 1], i)]

LEMMA PathRuns ==
  ASSUME NEW docs, NEW n \in Nat
  PROVE  \E f : PathRun(docs, f, n)
<1> DEFINE S == {m \in 0..n : \E f : PathRun(docs, f, m)}
<1>1. 0 \in S
  <2> DEFINE f == [i \in 0..0 |-> <<>>]
  <2>1. f = [i \in 0..0 |-> IF i = 0 THEN <<>> ELSE PathStep(docs, f[i - 1], i)]
    <3>1. \A i \in 0..0 : i = 0
      OBVIOUS
    <3> QED  BY <3>1, Zenon
  <2>2. PathRun(docs, f, 0)
    BY <2>1, Zenon DEF PathRun
  <2> HIDE DEF f
  <2> QED  BY <2>2
<1>2. ASSUME NEW m \in 0..n, m \in S, m < n PROVE m + 1 \in S
  <2>1. PICK f : PathRun(docs, f, m)
    BY <1>2
  <2> DEFINE g == [i \in 0..m + 1 |-> IF i = m + 1 THEN PathStep(docs, f[m], m + 1) ELSE f[i]]
             h == [i \in 0..m + 1 |-> IF i = 0 THEN <<>> ELSE PathStep(docs, g[i - 1], i)]
  <2>2. ASSUME NEW i \in 0..m + 1 PROVE g[i] = h[i]
    <3>1. CASE i = 0
      <4>1. g[0] = f[0] /\ h[0] = <<>> /\ 0 \in 0..m
        OBVIOUS
      <4> QED  BY <2>1, <3>1, <4>1 DEF PathRun
    <3>2. CASE i # 0 /\ i # m + 1
      <4>1. i \in 0..m /\ i - 1 \in 0..m + 1 /\ i - 1 # m + 1
        BY <3>2
      <4>2. g[i] = f[i] /\ g[i - 1] = f[i - 1] /\ h[i] = PathStep(docs, g[i - 1], i)
        BY <3>2, <4>1
      <4>3. f[i] = PathStep(docs, f[i - 1], i)
        BY <2>1, <3>2, <4>1 DEF PathRun
      <4> QED  BY <4>2, <4>3
    <3>3. CASE i = m + 1
      <4>1. i - 1 = m /\ m \in 0..m + 1 /\ m # m + 1 /\ i # 0
        BY <3>3
      <4>2. g[i] = PathStep(docs, f[m], i) /\ g[i - 1] = f[m] /\ h[i] = PathStep(docs, g[i - 1], i)
        BY <3>3, <4>1
      <4> QED  BY <4>2
    <3> QED  BY <3>1, <3>2, <3>3
  <2>3. g = h
    BY <2>2, Zenon
  <2>4. PathRun(docs, g, m + 1)
    BY <2>3, Zenon DEF PathRun
  <2>5. m + 1 \in 0..n
    BY <1>2
  <2> HIDE DEF g
  <2> QED  BY <2>4, <2>5
<1> HIDE DEF S
<1>3. n \in S
  BY <1>1, <1>2, UpTo
<1> QED  BY <1>3 DEF S

(* Each path is one of its source's, and the only one that may be in use already has the hash. *)
Numbered(docs, path, n) ==
  /\ Len(path) = n
  /\ \A i \in 1..n : /\ path[i] \in PathsTo(docs[i])
                      /\ \A k \in 1..i - 1 : path[k] = path[i] => path[i] = PathTo(docs[i], Hashed(docs[i]))

LEMMA Appending ==
  ASSUME NEW P, NEW s \in Seq(P), NEW u \in P, NEW t, t = Append(s, u), NEW m, m = Len(s)
  PROVE  t \in Seq(P) /\ Len(t) = m + 1 /\ t[m + 1] = u /\ \A i \in 1..m : t[i] = s[i]
OBVIOUS

LEMMA PathsOfRun ==
  ASSUME NEW docs, NEW n \in Nat, NEW f, PathRun(docs, f, n)
  PROVE  f[n] \in Seq(UNION {PathsTo(docs[i]) : i \in 1..n}) /\ Numbered(docs, f[n], n)
<1> DEFINE P == UNION {PathsTo(docs[i]) : i \in 1..n}
           S == {m \in 0..n : f[m] \in Seq(P) /\ Numbered(docs, f[m], m)}
<1>1. 0 \in S
  <2>1. f[0] = <<>>
    BY DEF PathRun
  <2>2. <<>> \in Seq(P) /\ Len(<<>>) = 0 /\ 1..0 = {}
    OBVIOUS
  <2> HIDE DEF P
  <2>3. Numbered(docs, f[0], 0)
    BY <2>1, <2>2 DEF Numbered
  <2>4. f[0] \in Seq(P) /\ 0 \in 0..n
    BY <2>1, <2>2
  <2> QED  BY <2>3, <2>4, Zenon
<1> HIDE DEF P
<1>2. ASSUME NEW m \in 0..n, m \in S, m < n PROVE m + 1 \in S
  <2> DEFINE i == m + 1
             used == ToSet(f[m])
             u == unique_output_relative_path(docs[i], used)
  <2>1. m \in Nat /\ i \in 1..n /\ i \in 0..n /\ i # 0 /\ i - 1 = m
    BY <1>2
  <2>2. f[i] = Append(f[m], u)
    BY <2>1 DEF PathRun, PathStep
  <2>3. f[m] \in Seq(P) /\ Numbered(docs, f[m], m)
    BY <1>2
  <2> HIDE DEF u, used, i
  <2>4. u \in PathsTo(docs[i]) /\ (u \in used => u = PathTo(docs[i], Hashed(docs[i])))
    BY UniquePath, Zenon DEF u
  <2>5. u \in P
    BY <2>1, <2>4, Zenon DEF P
  <2>6. Len(f[m]) = m
    BY <2>3 DEF Numbered
  <2>7. /\ f[i] \in Seq(P) /\ Len(f[i]) = m + 1 /\ f[i][m + 1] = u
        /\ \A k \in 1..m : f[i][k] = f[m][k]
    BY <2>2, <2>3, <2>5, <2>6, Appending
  <2>8. \A k \in 1..m : f[m][k] \in used
    <3>1. DOMAIN f[m] = 1..m
      BY <2>3, <2>6
    <3> QED  BY <3>1, Zenon DEF used, ToSet
  <2>9. ASSUME NEW j \in 1..i
        PROVE  /\ f[i][j] \in PathsTo(docs[j])
               /\ \A k \in 1..j - 1 : f[i][k] = f[i][j] => f[i][j] = PathTo(docs[j], Hashed(docs[j]))
    <3>1. CASE j = i
      <4>1. f[i][j] = u /\ j - 1 = m
        BY <2>1, <2>7, <3>1 DEF i
      <4>2. \A k \in 1..m : f[i][k] \in used
        BY <2>7, <2>8
      <4> QED  BY <2>4, <3>1, <4>1, <4>2, Zenon
    <3>2. CASE j # i
      <4>1. j \in 1..m /\ \A k \in 1..j - 1 : k \in 1..m
        BY <2>1, <3>2 DEF i
      <4>2. f[i][j] = f[m][j] /\ \A k \in 1..j - 1 : f[i][k] = f[m][k]
        BY <2>7, <4>1
      <4> QED  BY <2>3, <4>1, <4>2, Zenon DEF Numbered
    <3> QED  BY <3>1, <3>2
  <2>10. Numbered(docs, f[i], i)
    <3>1. Len(f[i]) = i
      BY <2>7 DEF i
    <3> QED  BY <2>9, <3>1, Zenon DEF Numbered
  <2> QED  BY <2>1, <2>7, <2>10 DEF i
<1> HIDE DEF S
<1>3. \A m \in 0..n : m \in S
  BY <1>1, <1>2, UpTo, Zenon
<1>4. n \in 0..n
  OBVIOUS
<1> QED  BY <1>3, <1>4 DEF S, P

LEMMA OutputPathsAreNumbered ==
  ASSUME NEW docs, Len(docs) \in Nat
  PROVE  Numbered(docs, OutputPaths(docs), Len(docs))
<1> DEFINE n == Len(docs)
           upTo[i \in 0..n] ==
             IF i = 0 THEN <<>>
             ELSE Append(upTo[i - 1], unique_output_relative_path(docs[i], ToSet(upTo[i - 1])))
<1>1. OutputPaths(docs) = upTo[n]
  BY Zenon DEF OutputPaths
<1>2. \E f : PathRun(docs, f, n)
  BY PathRuns
<1>3. PathRun(docs, upTo, n)
  BY <1>2, Zenon DEF PathRun, PathStep
<1> HIDE DEF upTo
<1>4. Numbered(docs, upTo[n], n)
  BY <1>3, PathsOfRun
<1> QED  BY <1>1, <1>4

(* The name of a file, and the units it is made of. *)
NameOf(doc, suffix) == SafeStem(doc) \o suffix \o <<".txt">>
Names_ == Unit \cup {"_", "folder", "document"}

LEMMA Triple ==
  ASSUME NEW U, NEW a \in U, NEW b \in U, NEW c \in U, NEW t, t = <<a, b, c>>
  PROVE  /\ t \in Seq(U) /\ Len(t) = 3 /\ t[3] = c
         /\ \A j \in 1..Len(t) : t[j] \in {a, b, c}
OBVIOUS

LEMMA Joining ==
  ASSUME NEW U, NEW s \in Seq(U), NEW t \in Seq(U)
  PROVE  /\ s \o t \in Seq(U) /\ Len(s) \in Nat /\ Len(t) \in Nat /\ Len(s \o t) = Len(s) + Len(t)
         /\ \A i \in 1..Len(s) : (s \o t)[i] = s[i]
         /\ \A j \in 1..Len(t) : (s \o t)[Len(s) + j] = t[j]
OBVIOUS

LEMMA SafePaths ==
  ASSUME NEW c \in Cases, NEW d \in DOMAIN c.docs
  PROVE  /\ SafeStem(c.docs[d]) \in Seq(Names_)
         /\ SafeDir(c.docs[d]) \in Seq(Seq(Names_))
<1>1. c.docs[d].stem \in Seq(Unit) /\ c.docs[d].dir \in Seq(Seq(Unit))
  BY CasesAssumption, Zenon DEF Names
<1>2. \A name \in Seq(Unit) : name \in Seq(Names_)
  <2>1. Unit \subseteq Names_
    BY DEF Names_
  <2> QED  BY <2>1
<1>3. <<"document">> \in Seq(Names_) /\ <<"folder">> \in Seq(Names_) /\ "_" \in Names_
  BY DEF Names_
<1>4. SafeStem(c.docs[d]) \in Seq(Names_)
  BY <1>1, <1>2, <1>3, SafeNames, Zenon DEF SafeStem
<1>5. SafeDir(c.docs[d]) \in Seq(Seq(Names_))
  <2> DEFINE dir == c.docs[d].dir
  <2>1. Len(dir) \in Nat /\ \A k \in 1..Len(dir) : dir[k] \in Seq(Unit)
    BY <1>1
  <2>2. \A k \in 1..Len(dir) : sanitize_path_component(dir[k], <<"folder">>) \in Seq(Names_)
    BY <1>2, <1>3, <2>1, SafeNames, Zenon
  <2>3. SafeDir(c.docs[d]) = [k \in 1..Len(dir) |-> sanitize_path_component(dir[k], <<"folder">>)]
    BY Zenon DEF SafeDir
  <2> HIDE DEF dir
  <2>4. SafeDir(c.docs[d]) \in [1..Len(dir) -> Seq(Names_)]
    BY <2>2, <2>3
  <2> DEFINE n == Len(dir)
  <2>5. n \in Nat
    BY <2>1
  <2> HIDE DEF n
  <2>6. SafeDir(c.docs[d]) \in [1..n -> Seq(Names_)]
    BY <2>4 DEF n
  <2> QED  BY <2>5, <2>6, SequenceOf, Zenon
<1> QED  BY <1>4, <1>5

LEMMA LastOfPath ==
  ASSUME NEW P, NEW dir1 \in Seq(P), NEW dir2 \in Seq(P), NEW name1, NEW name2,
         Append(dir1, name1) = Append(dir2, name2)
  PROVE  name1 = name2
<1> DEFINE n == Len(dir1) + 1
           Q == P \cup {name1, name2}
<1>1. dir1 \in Seq(Q) /\ dir2 \in Seq(Q) /\ name1 \in Q /\ name2 \in Q
  OBVIOUS
<1> HIDE DEF Q
<1>2. /\ Len(Append(dir1, name1)) = Len(dir1) + 1 /\ Append(dir1, name1)[Len(dir1) + 1] = name1
      /\ Len(Append(dir2, name2)) = Len(dir2) + 1 /\ Append(dir2, name2)[Len(dir2) + 1] = name2
  BY <1>1
<1> QED  BY <1>2

SuffixUnits(doc) == {"_", doc.hash} \cup {ToString(n) : n \in 1..MaxSuffix}

LEMMA SuffixesAreOf ==
  ASSUME NEW doc, NEW suffix \in SuffixesOf(doc), NEW U, SuffixUnits(doc) \subseteq U
  PROVE  /\ suffix \in Seq(U)
         /\ \A j \in 1..Len(suffix) : suffix[j] \in SuffixUnits(doc)
         /\ suffix = Hashed(doc) => Len(suffix) = 3 /\ suffix[3] = doc.hash
<1>1. "_" \in SuffixUnits(doc) /\ doc.hash \in SuffixUnits(doc)
      /\ \A n \in 1..MaxSuffix : ToString(n) \in SuffixUnits(doc)
  BY DEF SuffixUnits
<1>2. ASSUME NEW unit, unit \in SuffixUnits(doc), suffix = <<"_", "_", unit>>
      PROVE  /\ suffix \in Seq(U) /\ Len(suffix) = 3 /\ suffix[3] = unit
             /\ \A j \in 1..Len(suffix) : suffix[j] \in SuffixUnits(doc)
  <2> DEFINE first == "_"
  <2>1. suffix = <<first, first, unit>> /\ first \in U /\ unit \in U /\ first \in SuffixUnits(doc)
    BY <1>1, <1>2
  <2> HIDE DEF first
  <2>2. suffix \in Seq(U) /\ Len(suffix) = 3 /\ suffix[3] = unit
        /\ \A j \in 1..Len(suffix) : suffix[j] \in {first, first, unit}
    BY <2>1, Triple, Zenon
  <2>3. {first, first, unit} \subseteq SuffixUnits(doc)
    BY <1>2, <2>1
  <2> QED  BY <2>2, <2>3
<1>3. CASE suffix = Hashed(doc)
  <2>1. suffix = <<"_", "_", doc.hash>>
    BY <1>3 DEF Hashed
  <2> QED  BY <1>1, <1>2, <2>1
<1>4. CASE suffix # Hashed(doc)
  <2>1. PICK n \in 1..MaxSuffix : suffix = Number(n)
    BY <1>4 DEF SuffixesOf
  <2>2. CASE n = 1
    <3>1. suffix = <<>>
      BY <2>1, <2>2 DEF Number
    <3>2. <<>> \in Seq(U) /\ Len(<<>>) = 0 /\ 1..0 = {}
      OBVIOUS
    <3> QED  BY <1>4, <3>1, <3>2
  <2>3. CASE n # 1
    <3>1. suffix = <<"_", "_", ToString(n)>>
      BY <2>1, <2>3 DEF Number
    <3> QED  BY <1>1, <1>2, <1>4, <3>1, Zenon
  <2> QED  BY <2>2, <2>3
<1> QED  BY <1>3, <1>4

(* The hash is in a name that ends in it, and in no other. *)
LEMMA HashInName ==
  ASSUME NEW c \in Cases, NEW d \in DOMAIN c.docs, NEW suffix \in SuffixesOf(c.docs[d])
  PROVE  /\ suffix = Hashed(c.docs[d]) => c.docs[d].hash \in ToSet(NameOf(c.docs[d], suffix))
         /\ \A e \in DOMAIN c.docs : e # d => c.docs[e].hash \notin ToSet(NameOf(c.docs[d], suffix))
<1> DEFINE doc == c.docs[d]
           stem == SafeStem(doc)
           name == NameOf(doc, suffix)
           U == Names_ \cup {"_", ".txt", doc.hash} \cup {ToString(n) : n \in 1..MaxSuffix}
<1>1. stem \in Seq(U)
  <2>1. stem \in Seq(Names_)
    BY SafePaths
  <2>2. Names_ \subseteq U
    OBVIOUS
  <2> HIDE DEF stem, U
  <2> QED  BY <2>1, <2>2
<1>2. /\ suffix \in Seq(U)
      /\ \A j \in 1..Len(suffix) : suffix[j] \in SuffixUnits(doc)
      /\ suffix = Hashed(doc) => Len(suffix) = 3 /\ suffix[3] = doc.hash
  <2>1. SuffixUnits(doc) \subseteq U
    BY DEF SuffixUnits
  <2> HIDE DEF U
  <2> QED  BY <2>1, SuffixesAreOf
<1> DEFINE units == {stem[i] : i \in 1..Len(stem)} \cup {suffix[j] : j \in 1..Len(suffix)} \cup {".txt"}
<1>3. ToSet(name) \subseteq units /\ {suffix[j] : j \in 1..Len(suffix)} \subseteq ToSet(name)
  <2> DEFINE a == Len(stem)
             b == Len(suffix)
  <2>1. name = (stem \o suffix) \o <<".txt">>
    BY DEF NameOf
  <2>2. <<".txt">> \in Seq(U) /\ Len(<<".txt">>) = 1 /\ <<".txt">>[1] = ".txt"
    OBVIOUS
  <2> HIDE DEF stem, U, name, units
  <2>3. /\ a \in Nat /\ b \in Nat /\ stem \o suffix \in Seq(U) /\ Len(stem \o suffix) = a + b
        /\ \A i \in 1..a : (stem \o suffix)[i] = stem[i]
        /\ \A j \in 1..b : (stem \o suffix)[a + j] = suffix[j]
    BY <1>1, <1>2, Joining
  <2> DEFINE both == stem \o suffix
  <2>4. /\ name \in Seq(U) /\ Len(name) = a + b + 1
        /\ \A i \in 1..a + b : name[i] = both[i]
        /\ name[a + b + 1] = ".txt"
    <3> HIDE DEF a, b, both
    <3>1. both \in Seq(U) /\ Len(both) = a + b /\ name = both \o <<".txt">> /\ a \in Nat /\ b \in Nat
      BY <2>1, <2>3 DEF both
    <3> QED  BY <2>2, <3>1
  <2> HIDE DEF a, b, both
  <2>8. /\ \A i \in 1..a : stem[i] \in units
        /\ \A j \in 1..b : suffix[j] \in units
        /\ ".txt" \in units
    BY DEF units, a, b
  <2>5. ToSet(name) = {name[i] : i \in 1..a + b + 1}
    <3>1. DOMAIN name = 1..a + b + 1
      BY <2>4
    <3> QED  BY <3>1, Zenon DEF ToSet
  <2>6. ASSUME NEW i \in 1..a + b + 1 PROVE name[i] \in units
    <3>1. CASE i \in 1..a
      <4>1. i \in 1..a + b /\ name[i] = both[i]
        BY <2>3, <2>4, <3>1
      <4>2. both[i] = stem[i]
        BY <2>3, <3>1 DEF both
      <4> QED  BY <2>8, <3>1, <4>1, <4>2
    <3>2. CASE i = a + b + 1
      BY <2>4, <2>8, <3>2
    <3>3. CASE i \in a + 1..a + b
      <4>1. i - a \in 1..b /\ a + (i - a) = i /\ i \in 1..a + b
        BY <2>3, <3>3
      <4>2. name[i] = suffix[i - a]
        BY <2>3, <2>4, <4>1 DEF both
      <4> QED  BY <2>8, <4>1, <4>2
    <3> QED  BY <2>3, <3>1, <3>2, <3>3
  <2>7. ASSUME NEW j \in 1..b PROVE suffix[j] \in ToSet(name)
    <3>1. a + j \in 1..a + b /\ a + j \in 1..a + b + 1
      BY <2>3
    <3>2. name[a + j] = suffix[j]
      BY <2>3, <2>4, <3>1 DEF both
    <3> QED  BY <2>5, <3>1, <3>2
  <2> QED  BY <2>5, <2>6, <2>7 DEF b
<1>4. {stem[i] : i \in 1..Len(stem)} = ToSet(stem)
  <2> HIDE DEF stem, U
  <2>1. DOMAIN stem = 1..Len(stem)
    BY <1>1
  <2> QED  BY <2>1, Zenon DEF ToSet
<1>5. ASSUME NEW e \in DOMAIN c.docs, e # d PROVE c.docs[e].hash \notin ToSet(name)
  <2>1. /\ c.docs[e].hash # doc.hash
        /\ c.docs[e].hash \notin ToSet(stem) \cup {"_", ".txt"} \cup {ToString(n) : n \in 1..MaxSuffix}
    BY <1>5, HashesAssumption, Zenon
  <2> HIDE DEF doc, stem, name
  <2>2. ToSet(name) \subseteq ToSet(stem) \cup {"_", ".txt", doc.hash} \cup {ToString(n) : n \in 1..MaxSuffix}
    <3>1. {suffix[j] : j \in 1..Len(suffix)} \subseteq SuffixUnits(doc)
      BY <1>2, Zenon
    <3>2. ToSet(name) \subseteq ToSet(stem) \cup SuffixUnits(doc) \cup {".txt"}
      BY <1>3, <1>4, <3>1, Zenon
    <3> QED  BY <3>2, Zenon DEF SuffixUnits
  <2> QED  BY <2>1, <2>2
<1>6. ASSUME suffix = Hashed(doc) PROVE doc.hash \in ToSet(name)
  <2>1. Len(suffix) = 3 /\ suffix[3] = doc.hash
    BY <1>2, <1>6
  <2>2. suffix[3] \in {suffix[j] : j \in 1..Len(suffix)}
    BY <2>1
  <2> HIDE DEF doc, name, units
  <2> QED  BY <1>3, <2>1, <2>2
<1> QED  BY <1>5, <1>6

LEMMA LaterPathDiffers ==
  ASSUME NEW c \in Cases, NEW d \in DOMAIN c.docs, NEW e \in DOMAIN c.docs, d < e
  PROVE  OutputPaths(c.docs)[d] # OutputPaths(c.docs)[e]
<1> SUFFICES ASSUME OutputPaths(c.docs)[d] = OutputPaths(c.docs)[e] PROVE FALSE
  OBVIOUS
<1> DEFINE path == OutputPaths(c.docs)
<1>1. DOMAIN c.docs = 1..Len(c.docs) /\ Len(c.docs) \in Nat
  BY CasesAssumption
<1>2. Numbered(c.docs, path, Len(c.docs))
  BY <1>1, OutputPathsAreNumbered
<1> HIDE DEF path
<1>3. path[d] = path[e]
  BY DEF path
<1>4. d \in 1..Len(c.docs) /\ e \in 1..Len(c.docs) /\ d \in 1..e - 1 /\ d # e
  BY <1>1
<1>5. path[d] \in PathsTo(c.docs[d]) /\ path[e] = PathTo(c.docs[e], Hashed(c.docs[e]))
  BY <1>2, <1>3, <1>4 DEF Numbered
<1>6. PICK suffix \in SuffixesOf(c.docs[d]) : path[d] = PathTo(c.docs[d], suffix)
  BY <1>5 DEF PathsTo
<1>7. NameOf(c.docs[d], suffix) = NameOf(c.docs[e], Hashed(c.docs[e]))
  <2>1. Append(SafeDir(c.docs[d]), NameOf(c.docs[d], suffix))
          = Append(SafeDir(c.docs[e]), NameOf(c.docs[e], Hashed(c.docs[e])))
    BY <1>3, <1>5, <1>6, Zenon DEF PathTo, TextPath, NameOf
  <2>2. SafeDir(c.docs[d]) \in Seq(Seq(Names_)) /\ SafeDir(c.docs[e]) \in Seq(Seq(Names_))
    BY SafePaths
  <2> DEFINE D == SafeDir(c.docs[d])
             E == SafeDir(c.docs[e])
             x == NameOf(c.docs[d], suffix)
             y == NameOf(c.docs[e], Hashed(c.docs[e]))
  <2> HIDE DEF D, E, x, y
  <2>3. Append(D, x) = Append(E, y) /\ D \in Seq(Seq(Names_)) /\ E \in Seq(Seq(Names_))
    BY <2>1, <2>2, Zenon DEF D, E, x, y
  <2>4. x = y
    BY <2>3, LastOfPath
  <2> QED  BY <2>4, Zenon DEF x, y
<1>8. Hashed(c.docs[e]) \in SuffixesOf(c.docs[e])
  BY DEF SuffixesOf
<1> DEFINE name == NameOf(c.docs[e], Hashed(c.docs[e]))
<1>9. c.docs[e].hash \in ToSet(name)
  BY <1>8, HashInName
<1>10. c.docs[e].hash \notin ToSet(NameOf(c.docs[d], suffix))
  BY <1>4, HashInName
<1> QED  BY <1>7, <1>9, <1>10

(* However the names of the sources are made safe, and whatever is left of them, each has a
   path of its own. *)
THEOREM PathsNeverCollide == \A c \in Cases : PathsAreDistinct(c.docs)
<1> SUFFICES ASSUME NEW c \in Cases PROVE PathsAreDistinct(c.docs)
  OBVIOUS
<1>1. DOMAIN c.docs = 1..Len(c.docs) /\ Len(c.docs) \in Nat
  BY CasesAssumption
<1>2. \A d, e \in DOMAIN c.docs : d # e => d < e \/ e < d
  BY <1>1
<1> QED  BY <1>2, LaterPathDiffers, Zenon DEF PathsAreDistinct

(***************************************************************************)
(* The manifest lists what is there.                                       *)
(***************************************************************************)
LEMMA LoggingSteps ==
  ASSUME ManifestInv, SourcesInv', WriteLog
  PROVE  ManifestInv'
<1> DEFINE listed == Head(Remaining) = "manifest.json"
           manifest == IF listed THEN [d \in Docs |-> results[d]] ELSE output.manifest
           written == output.written \cup {Head(Remaining)}
<1>1. /\ stage = "Log" /\ stage' \in {"Log", "Done"} /\ case' = case /\ version' = version
      /\ paths' = paths /\ worker' = worker /\ read' = read /\ taken' = taken /\ results' = results
      /\ output' = [output EXCEPT !.written = written, !.manifest = manifest]
  BY DEF WriteLog, Goes, work
<1> HIDE DEF listed, manifest, written
<1>2. /\ output'.kind = output.kind /\ output'.texts = output.texts /\ output'.manifest = manifest
      /\ output' = [kind |-> output'.kind, texts |-> output'.texts, manifest |-> output'.manifest,
                    written |-> output'.written]
  BY <1>1 DEF ManifestInv, Shapes
<1>3. Docs' = Docs /\ \A d : (Recorded(d)' <=> Recorded(d)) /\ (SameBytes(d)' <=> SameBytes(d))
  BY <1>1, <1>2 DEF Docs, Recorded, SameBytes, Exported, Entry, ManifestFileRecord, Whole
<1>4. Shapes' /\ Opened'
  BY <1>1, <1>2, <1>3 DEF ManifestInv, Shapes, Opened
<1>5. WorkIsRecorded' /\ AllWritten'
  BY <1>1, <1>2, <1>3 DEF ManifestInv, WorkIsRecorded, AllWritten, UnderWay, TextsDone
<1>6. ManifestIsResults'
  <2>1. CASE listed
    BY <1>1, <1>2, <1>3, <2>1 DEF ManifestIsResults, manifest
  <2>2. CASE ~ listed
    <3>1. output'.manifest = output.manifest
      BY <1>2, <2>2 DEF manifest
    <3> QED  BY <1>1, <1>3, <3>1 DEF ManifestInv, ManifestIsResults, ManifestStands
  <2> QED  BY <2>1, <2>2
<1> QED  BY <1>4, <1>5, <1>6 DEF ManifestInv

(* A crash tears no text that a manifest lists. *)
LEMMA CrashSteps ==
  ASSUME ManifestInv, SourcesInv', Crash
  PROVE  ManifestInv'
<1>1. PICK S : /\ S \subseteq {d \in Docs : stage = "Write" /\ worker[d] = "extracted" /\ ~ Obstructed(paths[d])}
               /\ output' = [output EXCEPT !.texts = Put(@, {paths[d] : d \in S}, Torn)]
  BY DEF Crash
<1> DEFINE torn == {paths[d] : d \in S}
           more == Put(output.texts, torn, Torn)
<1>2. /\ stage \in {"Create", "Write", "Log"} /\ stage' = "Failed" /\ case' = case /\ version' = version
      /\ paths' = paths /\ worker' = worker /\ read' = read /\ taken' = taken /\ results' = results
  BY DEF Crash, work
<1>3. stage # "Write" => torn = {}
  BY <1>1
<1>4. output' = [output EXCEPT !.texts = more]
  BY <1>1
<1>5. torn = {} => DOMAIN more = DOMAIN output.texts /\ \A p \in DOMAIN more : more[p] = output.texts[p]
  <2> HIDE DEF torn
  <2> QED  BY DEF Put
<1> HIDE DEF torn, more
<1>6. /\ output'.kind = output.kind /\ output'.texts = more /\ output'.manifest = output.manifest
      /\ output' = [kind |-> output'.kind, texts |-> output'.texts, manifest |-> output'.manifest,
                    written |-> output'.written]
  BY <1>4 DEF ManifestInv, Shapes
<1>7. Docs' = Docs
  BY <1>2 DEF Docs
<1>8. Shapes' /\ Opened'
  BY <1>2, <1>6, <1>7 DEF ManifestInv, Shapes, Opened
<1>9. CASE output.manifest = NoManifest
  <2>1. ~ UnderWay' /\ ~ TextsDone' /\ ~ ManifestStands'
    BY <1>2, <1>6, <1>9 DEF UnderWay, TextsDone, ManifestStands
  <2> QED  BY <1>8, <2>1 DEF ManifestInv, WorkIsRecorded, AllWritten, ManifestIsResults
<1>10. CASE output.manifest # NoManifest
  <2>1. stage = "Log" /\ UnderWay /\ TextsDone
    BY <1>2, <1>10 DEF ManifestInv, Opened, UnderWay, TextsDone
  <2>2. DOMAIN more = DOMAIN output.texts /\ \A p \in DOMAIN more : more[p] = output.texts[p]
    BY <1>3, <1>5, <2>1
  <2>3. \A d : (Recorded(d) => Recorded(d)') /\ (SameBytes(d)' <=> SameBytes(d))
    BY <1>2, <1>6, <2>2 DEF Recorded, SameBytes, Exported, Entry, ManifestFileRecord, Whole
  <2>4. WorkIsRecorded' /\ AllWritten'
    BY <1>2, <1>6, <1>7, <2>1, <2>2, <2>3 DEF ManifestInv, WorkIsRecorded, AllWritten
  <2>5. ManifestIsResults'
    BY <1>2, <1>6, <1>7, <1>10, <2>1 DEF ManifestInv, ManifestIsResults, ManifestStands
  <2> QED  BY <1>8, <2>4, <2>5 DEF ManifestInv
<1> QED  BY <1>9, <1>10

LEMMA ManifestInvInit == Init => ManifestInv
<1> SUFFICES ASSUME Init PROVE ManifestInv
  OBVIOUS
<1>1. /\ case \in Cases /\ version = [d \in Docs |-> 1] /\ stage = "Preview"
      /\ worker = [d \in Docs |-> "new"] /\ read = [d \in Docs |-> 0] /\ taken = [d \in Docs |-> 0]
      /\ output = [kind |-> case.existing, texts |-> NoFiles, manifest |-> NoManifest, written |-> {}]
  BY DEF Init, Docs, Empty
<1>2. \A d \in Docs : Len(case.docs[d].contents) \in Nat \ {0}
  BY <1>1, CasesAssumption DEF Docs
<1>3. Shapes
  BY <1>1, <1>2 DEF Shapes, SourcesInv, ClearingIsAllowed
<1>4. Opened /\ ~ UnderWay /\ ~ TextsDone /\ ~ ManifestStands
  BY <1>1 DEF Opened, UnderWay, TextsDone, ManifestStands
<1> QED  BY <1>3, <1>4 DEF ManifestInv, WorkIsRecorded, AllWritten, ManifestIsResults

LEMMA ManifestInvNext == ManifestInv /\ [Next]_vars => ManifestInv'
<1> SUFFICES ASSUME ManifestInv, [Next]_vars PROVE ManifestInv'
  OBVIOUS
<1>1. SourcesInv /\ SourcesInv' /\ PathsAreDistinct(case.docs)
  BY SourcesInvNext, PathsNeverCollide DEF ManifestInv, Shapes, SourcesInv
<1>2. CASE \/ Preview \/ preview_processed_files \/ CountWords \/ Refuse \/ Accept \/ Collect
           \/ LogFails \/ Retry \/ Ended \/ UNCHANGED vars \/ \E d \in Docs : Edit(d)
  BY <1>1, <1>2, QuietSteps
<1>3. CASE remove_dir_all \/ ClearFails \/ Create
  BY <1>1, <1>3, ClearingSteps
<1>4. ASSUME NEW d \in Docs, ReadSource(d) \/ Extract(d) PROVE ManifestInv'
  BY <1>1, <1>4, ReadingSteps
<1>5. ASSUME NEW d \in Docs, WriteText(d) \/ WriteFails(d) PROVE ManifestInv'
  BY <1>1, <1>5, WritingSteps
<1>6. CASE WriteLog
  BY <1>1, <1>6, LoggingSteps
<1>7. CASE Crash
  BY <1>1, <1>7, CrashSteps
<1> QED  BY <1>2, <1>3, <1>4, <1>5, <1>6, <1>7, Zenon DEF Next

(***************************************************************************)
(* Warnings are a sequence, whatever a PDF has left of its lines.          *)
(***************************************************************************)
LEMMA WarningsAreASequence ==
  ASSUME NEW pages
  PROVE  \E W : Warnings(pages) \in Seq(W)
<1> DEFINE with(trait(_)) == {p \in DOMAIN pages : trait(pages[p])}
           sum(S, f(_)) == FoldSet(LAMBDA p, n : n + f(pages[p]), 0, S)
           record(what, S, n, blocks) == [what |-> what, pages |-> Cardinality(S), lines |-> n, blocks |-> blocks]
           warning(what, S, n, blocks) == IF S = {} THEN <<>> ELSE <<record(what, S, n, blocks)>>
           headers == with(LAMBDA x : x.keys # {})
           labels == with(LAMBDA x : x.labels)
           symbols == with(LAMBDA x : x.symbols.lines > 0)
           code == with(LAMBDA x : x.code.lines > 0)
           formulas == with(LAMBDA x : x.formulas > 0)
           n1 == Cardinality(UNION {pages[p].keys : p \in headers})
           n3 == sum(symbols, LAMBDA x : x.symbols.lines)
           b3 == sum(symbols, LAMBDA x : x.symbols.blocks)
           n4 == sum(code, LAMBDA x : x.code.lines)
           b4 == sum(code, LAMBDA x : x.code.blocks)
           n5 == sum(formulas, LAMBDA x : x.formulas)
<1>1. Warnings(pages) = warning("headers", headers, n1, 0) \o warning("labels", labels, 0, 0)
                        \o warning("symbols", symbols, n3, b3) \o warning("code", code, n4, b4)
                        \o warning("formulas", formulas, n5, 0)
  BY DEF Warnings
<1> HIDE DEF headers, labels, symbols, code, formulas, n1, n3, b3, n4, b4, n5
<1> DEFINE r1 == record("headers", headers, n1, 0)
           r2 == record("labels", labels, 0, 0)
           r3 == record("symbols", symbols, n3, b3)
           r4 == record("code", code, n4, b4)
           r5 == record("formulas", formulas, n5, 0)
           W == {r1, r2, r3, r4, r5}
           w1 == warning("headers", headers, n1, 0)
           w2 == warning("labels", labels, 0, 0)
           w3 == warning("symbols", symbols, n3, b3)
           w4 == warning("code", code, n4, b4)
           w5 == warning("formulas", formulas, n5, 0)
<1>2. /\ w1 = IF headers = {} THEN <<>> ELSE <<r1>>
      /\ w2 = IF labels = {} THEN <<>> ELSE <<r2>>
      /\ w3 = IF symbols = {} THEN <<>> ELSE <<r3>>
      /\ w4 = IF code = {} THEN <<>> ELSE <<r4>>
      /\ w5 = IF formulas = {} THEN <<>> ELSE <<r5>>
  OBVIOUS
<1>3. Warnings(pages) = w1 \o w2 \o w3 \o w4 \o w5
  BY <1>1
<1> HIDE DEF r1, r2, r3, r4, r5, w1, w2, w3, w4, w5
<1>4. r1 \in W /\ r2 \in W /\ r3 \in W /\ r4 \in W /\ r5 \in W
  OBVIOUS
<1> HIDE DEF W
<1>5. w1 \in Seq(W) /\ w2 \in Seq(W) /\ w3 \in Seq(W) /\ w4 \in Seq(W) /\ w5 \in Seq(W)
  <2>1. \A r \in W : <<r>> \in Seq(W)
    OBVIOUS
  <2>2. <<>> \in Seq(W)
    OBVIOUS
  <2> QED  BY <1>2, <1>4, <2>1, <2>2, Zenon
<1>6. \A s, t \in Seq(W) : s \o t \in Seq(W)
  OBVIOUS
<1>7. w1 \o w2 \o w3 \o w4 \o w5 \in Seq(W)
  BY <1>5, <1>6, Zenon
<1> QED  BY <1>3, <1>7

LEMMA TheOneOf ==
  ASSUME NEW S, NEW x \in S
  PROVE  The(S) \in S
BY Zenon DEF The

LEMMA PagesWarn ==
  ASSUME NEW pages, NEW options, NEW reliable
  PROVE  \E cleaned : clean_pdf_page_lines(pages, options, reliable).warnings = Warnings(cleaned)
<1> DEFINE pats == IF options.headers /\ ~reliable THEN RepeatedPatterns(pages) ELSE {}
           cleanedWith(patterns) == [p \in 1..Len(pages) |-> The({CleanedPage(page, options, patterns) : page \in {pages[p]}})]
           textsOf(cleaned) == [p \in 1..Len(cleaned) |-> cleaned[p].text]
           outcome(texts, cleaned) == [text |-> flatten_pdf_page_texts(texts), warnings |-> Warnings(cleaned), pages |-> texts]
           S == UNION {UNION {{outcome(texts, cleaned) : texts \in {textsOf(cleaned)}} :
                               cleaned \in {cleanedWith(patterns)}} : patterns \in {pats}}
<1>1. clean_pdf_page_lines(pages, options, reliable) = The(S)
  BY DEF clean_pdf_page_lines
<1>2. \A texts, cleaned : outcome(texts, cleaned).warnings = Warnings(cleaned)
  OBVIOUS
<1> HIDE DEF outcome, textsOf, cleanedWith, pats
<1>3. outcome(textsOf(cleanedWith(pats)), cleanedWith(pats)) \in S
  BY Zenon
<1>4. ASSUME NEW x \in S PROVE \E texts, cleaned : x = outcome(texts, cleaned)
  <2>1. PICK patterns \in {pats} : x \in UNION {{outcome(texts, cleaned) : texts \in {textsOf(cleaned)}} :
                                                  cleaned \in {cleanedWith(patterns)}}
    BY Zenon
  <2>2. PICK cleaned \in {cleanedWith(patterns)} : x \in {outcome(texts, cleaned) : texts \in {textsOf(cleaned)}}
    BY <2>1, Zenon
  <2> QED  BY <2>2, Zenon
<1> HIDE DEF S
<1>5. The(S) \in S
  BY <1>3, TheOneOf
<1> QED  BY <1>1, <1>2, <1>4, <1>5

LEMMA PdfTextWarns ==
  ASSUME NEW t, NEW config
  PROVE  \E cleaned : clean_extracted_pdf_text(t, config).warnings = Warnings(cleaned)
<1> DEFINE opts == from_cleaning_config(config)
           ps == split(t, BlankLine)
           pagesOf(parts) == [p \in 1..Len(parts) |-> lines(parts[p])]
           S == UNION {{clean_pdf_page_lines(pages, options, FALSE) :
                          pages \in UNION {{pagesOf(parts)} : parts \in {ps}}} : options \in {opts}}
<1>1. clean_extracted_pdf_text(t, config) = The(S)
  BY DEF clean_extracted_pdf_text
<1> HIDE DEF opts, ps, pagesOf
<1>2. clean_pdf_page_lines(pagesOf(ps), opts, FALSE) \in S
  BY Zenon
<1>3. \A x \in S : \E pages, options : x = clean_pdf_page_lines(pages, options, FALSE)
  BY Zenon
<1> HIDE DEF S
<1>4. The(S) \in S
  BY <1>2, TheOneOf
<1>5. PICK pages, options : clean_extracted_pdf_text(t, config) = clean_pdf_page_lines(pages, options, FALSE)
  BY <1>1, <1>3, <1>4
<1>6. PICK cleaned : clean_pdf_page_lines(pages, options, FALSE).warnings = Warnings(cleaned)
  BY PagesWarn
<1> QED  BY <1>5, <1>6

(* What a source that cannot be read is exported as: its text, cleaned, and the error. *)
LEMMA UnreadableExports ==
  ASSUME NEW doc, NEW entry, NEW config, ~ entry.readable
  PROVE  /\ ExportedText(doc, entry, config).text = clean_text(TextToClean(doc, entry, config).text, config)
         /\ ReadFailed \in ToSet(ExportedText(doc, entry, config).warnings)
<1> DEFINE prepared == TextToClean(doc, entry, config)
           exported == [text |-> clean_text(prepared.text, config), warnings |-> <<ReadFailed>> \o prepared.warnings]
<1>1. ~ HasPages(doc, entry)
  BY DEF HasPages
<1>2. ExportedText(doc, entry, config) = exported
  <2> HIDE DEF prepared
  <2>1. ExportedText(doc, entry, config) = The({exported})
    BY <1>1, Zenon DEF ExportedText, prepared
  <2> HIDE DEF exported
  <2> QED  BY <2>1, TheOnly, Zenon
<1>3. \E W : prepared.warnings \in Seq(W)
  <2>1. CASE IsPdf(doc)
    <3>1. prepared = clean_extracted_pdf_text(entry.text, config)
      BY <1>1, <2>1 DEF TextToClean
    <3> HIDE DEF prepared
    <3>2. PICK cleaned : clean_extracted_pdf_text(entry.text, config).warnings = Warnings(cleaned)
      BY PdfTextWarns
    <3> QED  BY <3>1, <3>2, WarningsAreASequence
  <2>2. CASE ~ IsPdf(doc)
    <3>1. prepared = [text |-> WithoutMarkup(entry.text, config), warnings |-> <<>>]
      BY <1>1, <2>2 DEF TextToClean
    <3>2. prepared.warnings = <<>>
      BY <3>1
    <3> HIDE DEF prepared
    <3>3. <<>> \in Seq({})
      OBVIOUS
    <3> QED  BY <3>2, <3>3
  <2> QED  BY <2>1, <2>2
<1> HIDE DEF prepared
<1>4. PICK W : prepared.warnings \in Seq(W)
  BY <1>3
<1>5. ReadFailed \in ToSet(<<ReadFailed>> \o prepared.warnings)
  <2> DEFINE V == W \cup {ReadFailed}
             w == prepared.warnings
             r == ReadFailed
  <2>1. w \in Seq(V) /\ r \in V
    BY <1>4
  <2> HIDE DEF V, w, r
  <2>2. <<r>> \in Seq(V) /\ Len(<<r>>) = 1 /\ <<r>>[1] = r
    BY <2>1
  <2>3. <<r>> \o w \in Seq(V) /\ Len(<<r>> \o w) = 1 + Len(w) /\ (<<r>> \o w)[1] = r /\ Len(w) \in Nat
    BY <2>1, <2>2
  <2>4. 1 \in DOMAIN (<<r>> \o w)
    BY <2>3
  <2>5. r \in ToSet(<<r>> \o w)
    BY <2>3, <2>4, Zenon DEF ToSet
  <2> QED  BY <2>5 DEF r, w
<1>6. exported.text = clean_text(prepared.text, config) /\ exported.warnings = <<ReadFailed>> \o prepared.warnings
  OBVIOUS
<1> HIDE DEF exported
<1> QED  BY <1>2, <1>5, <1>6 DEF prepared

(***************************************************************************)
(* The manifest and the files.                                             *)
(***************************************************************************)
LEMMA FlatExports ==
  ASSUME NEW doc, NEW entry, NEW config, ~ IsPdf(doc)
  PROVE  /\ ExportedText(doc, entry, config).text = clean_text(WithoutMarkup(entry.text, config), config)
         /\ ExportedText(doc, entry, config).warnings
              = (IF entry.readable THEN entry.warnings ELSE <<ReadFailed>>) \o <<>>
<1> DEFINE prepared == [text |-> WithoutMarkup(entry.text, config), warnings |-> <<>>]
           exported == [text |-> clean_text(prepared.text, config),
                        warnings |-> (IF entry.readable THEN entry.warnings ELSE <<ReadFailed>>) \o prepared.warnings]
<1>1. ~ HasPages(doc, entry) /\ TextToClean(doc, entry, config) = prepared
  BY Zenon DEF HasPages, TextToClean
<1>2. ExportedText(doc, entry, config) = The({exported})
  BY <1>1, Zenon DEF ExportedText
<1> HIDE DEF exported
<1>3. ExportedText(doc, entry, config) = exported
  BY <1>2, TheOnly, Zenon
<1> QED  BY <1>3 DEF exported

(* With a manifest, every worker has written and recorded its text. *)
LEMMA ListedWithManifest ==
  ASSUME ManifestInv, ManifestStands
  PROVE  /\ paths = OutputPaths(case.docs) /\ DOMAIN output.texts = {paths[d] : d \in Docs}
         /\ \A d \in Docs : /\ output.manifest[d] = ManifestFileRecord(d, Exported(d))
                            /\ output.texts[paths[d]] = Whole(Exported(d).text)
                            /\ SameBytes(d)
<1>1. TextsDone /\ UnderWay
  BY DEF ManifestStands, TextsDone, UnderWay
<1>2. \A d \in Docs : worker[d] = "written" /\ Recorded(d) /\ SameBytes(d)
  BY <1>1 DEF ManifestInv, AllWritten, WorkIsRecorded
<1>3. paths = OutputPaths(case.docs) /\ DOMAIN output.texts \subseteq {paths[d] : d \in Docs}
  BY <1>1 DEF ManifestInv, WorkIsRecorded
<1>4. output.manifest = [d \in Docs |-> results[d]]
  BY DEF ManifestInv, ManifestIsResults
<1>5. \A d \in Docs : paths[d] \in DOMAIN output.texts
  BY <1>2 DEF Recorded
<1> QED  BY <1>2, <1>3, <1>4, <1>5 DEF Recorded

LEMMA AsManyAs ==
  ASSUME NEW n \in Nat, NEW f, \A d, e \in 1..n : d # e => f[d] # f[e]
  PROVE  Cardinality({f[d] : d \in 1..n}) = n
<1> DEFINE S == 1..n
           T == {f[d] : d \in S}
           g == [d \in S |-> f[d]]
<1>1. IsFiniteSet(S) /\ Cardinality(S) = n
  <2>1. IsFiniteSet(S) /\ Cardinality(S) = IF 1 > n THEN 0 ELSE n - 1 + 1
    BY FS_Interval
  <2> QED  BY <2>1
<1>2. \A d \in S : \A e \in S : f[d] = f[e] => d = e
  OBVIOUS
<1> HIDE DEF S
<1>3. g \in Surjection(S, T)
  BY DEF Surjection
<1>4. g \in Injection(S, T)
  BY <1>2 DEF Injection, IsInjective
<1>5. Cardinality(T) = Cardinality(S)
  <2> HIDE DEF g, T
  <2> QED  BY <1>1, <1>3, <1>4, FS_Surjection
<1> QED  BY <1>1, <1>5 DEF S

LEMMA FilesListed ==
  ASSUME ManifestInv, ManifestStands
  PROVE  FilesAreThoseListed /\ TextsComeFromTheBytesListed
<1>1. /\ paths = OutputPaths(case.docs) /\ DOMAIN output.texts = {paths[d] : d \in Docs}
      /\ \A d \in Docs : /\ output.manifest[d] = ManifestFileRecord(d, Exported(d))
                         /\ output.texts[paths[d]] = Whole(Exported(d).text)
                         /\ SameBytes(d)
  BY ListedWithManifest
<1>2. case \in Cases /\ Docs = 1..Len(case.docs) /\ Len(case.docs) \in Nat
  BY CasesAssumption DEF ManifestInv, Shapes, SourcesInv, Docs
<1>3. \A d \in Docs : /\ output.manifest[d].path = paths[d] /\ output.manifest[d].source = read[d]
                      /\ output.manifest[d].text = Exported(d).text
  <2>1. \A d, x : /\ ManifestFileRecord(d, x).path = paths[d] /\ ManifestFileRecord(d, x).source = read[d]
                  /\ ManifestFileRecord(d, x).text = x.text
    BY DEF ManifestFileRecord
  <2> TAKE d \in Docs
  <2>2. output.manifest[d] = ManifestFileRecord(d, Exported(d))
    BY <1>1
  <2> QED  BY <2>1, <2>2
<1>4. Cardinality(DOMAIN output.texts) = Len(case.docs)
  <2> DEFINE n == Len(case.docs)
  <2>1. \A d, e \in 1..n : d # e => paths[d] # paths[e]
    BY <1>1, <1>2, PathsNeverCollide DEF PathsAreDistinct, Docs
  <2>2. n \in Nat /\ DOMAIN output.texts = {paths[d] : d \in 1..n}
    BY <1>1, <1>2
  <2> HIDE DEF n
  <2>3. Cardinality({paths[d] : d \in 1..n}) = n
    <3> DEFINE f == paths
    <3>1. n \in Nat /\ \A d, e \in 1..n : d # e => f[d] # f[e]
      BY <2>1, <2>2
    <3> HIDE DEF f
    <3>2. Cardinality({f[d] : d \in 1..n}) = n
      BY <3>1, AsManyAs
    <3> QED  BY <3>2 DEF f
  <2> QED  BY <2>2, <2>3 DEF n
<1>5. FilesAreThoseListed
  BY <1>1, <1>3, <1>4 DEF FilesAreThoseListed
<1>6. TextsComeFromTheBytesListed
  <2> SUFFICES ASSUME NEW d \in Docs, case.docs[d].kind \in {"text", "html"}
               PROVE  output.manifest[d].text
                        = clean_text(WithoutMarkup(Entry(d, output.manifest[d].source).text, case.config), case.config)
    BY Zenon DEF TextsComeFromTheBytesListed
  <2>1. ~ IsPdf(case.docs[d])
    BY DEF IsPdf
  <2>2. taken[d] = output.manifest[d].source
    BY <1>1, <1>3 DEF SameBytes
  <2> DEFINE doc == case.docs[d]
             entry == Entry(d, taken[d])
             config == case.config
  <2> HIDE DEF doc, entry, config
  <2>3. ExportedText(doc, entry, config).text = clean_text(WithoutMarkup(entry.text, config), config)
    BY <2>1, FlatExports DEF doc
  <2> QED  BY <1>3, <2>2, <2>3 DEF Exported, doc, entry, config
<1> QED  BY <1>5, <1>6

(* Once there is a manifest, the texts are those it lists, each in a file of its own and
   whole, and those of text and HTML sources come from the bytes whose hash is listed. *)
THEOREM ManifestListsTheFiles ==
  Spec => [](ManifestStands => FilesAreThoseListed /\ TextsComeFromTheBytesListed)
<1>1. ManifestInv => (ManifestStands => FilesAreThoseListed /\ TextsComeFromTheBytesListed)
  BY FilesListed
<1> QED  BY <1>1, ManifestInvInit, ManifestInvNext, PTL DEF Spec

(* The same, and a source that could not be read is listed with an error and an empty text,
   provided that the cleaning makes no text out of what is left of such a source. *)
THEOREM ManifestListsFailuresToo ==
  ASSUME FailuresLeaveNothing
  PROVE  Spec => []ManifestListsWhatIsThere
<1>1. ManifestInv => ManifestListsWhatIsThere
  <2> SUFFICES ASSUME ManifestInv, ManifestStands PROVE ManifestListsWhatIsThere
    BY DEF ManifestListsWhatIsThere
  <2>1. \A d \in Docs : output.manifest[d] = ManifestFileRecord(d, Exported(d))
    BY ListedWithManifest
  <2>2. ASSUME NEW d \in Docs, ~ Entry(d, taken[d]).readable
        PROVE  output.manifest[d].text = <<>> /\ "ExtractionError" \in output.manifest[d].warnings
    <3> DEFINE exported == Exported(d)
               errors == {ExportKind(w) : w \in ToSet(exported.warnings)}
    <3>1. case \in Cases /\ taken[d] \in 0..Len(case.docs[d].contents)
      BY DEF ManifestInv, Shapes, SourcesInv
    <3>2. exported.text = clean_text(TextToClean(case.docs[d], Entry(d, taken[d]), case.config).text, case.config)
          /\ ReadFailed \in ToSet(exported.warnings)
      BY <2>2, UnreadableExports, Zenon DEF Exported
    <3>3. exported.text = <<>>
      BY <2>2, <3>1, <3>2, FailuresLeaveNothing, Zenon DEF FailuresLeaveNothing, Entry, Docs
    <3> HIDE DEF exported
    <3>4. "ExtractionError" \in errors
      <4>1. ExportKind(ReadFailed) = "ExtractionError"
        BY Zenon DEF ExportKind
      <4> QED  BY <3>2, <4>1, Zenon
    <3> HIDE DEF errors
    <3>5. output.manifest[d].text = exported.text /\ output.manifest[d].warnings = errors
      <4>1. ManifestFileRecord(d, exported)
              = [path |-> paths[d], source |-> read[d], text |-> exported.text, warnings |-> errors]
        BY Zenon DEF ManifestFileRecord, errors
      <4>2. output.manifest[d] = ManifestFileRecord(d, exported)
        BY <2>1 DEF exported
      <4> QED  BY <4>1, <4>2
    <3> QED  BY <3>3, <3>4, <3>5
  <2>3. FailuresAreListed
    BY <2>2, Zenon DEF FailuresAreListed
  <2> QED  BY <2>3, FilesListed DEF ManifestListsWhatIsThere
<1> QED  BY <1>1, ManifestInvInit, ManifestInvNext, PTL DEF Spec

(***************************************************************************)
(* The pages of a PDF.                                                     *)
(***************************************************************************)
LEMMA LengthOf ==
  ASSUME NEW n \in Nat, NEW f, DOMAIN f = 1..n, f = [i \in 1..n |-> f[i]]
  PROVE  Len(f) = n
<1> DEFINE S == {f[i] : i \in 1..n}
<1>1. f \in [1..n -> S]
  OBVIOUS
<1>2. f \in Seq(S)
  BY <1>1, SequenceOf
<1> QED  BY <1>2

(* The lines of PDF pages are cleaned page by page; a page of which nothing is left stays. *)
LEMMA CleanedPagesAreAll ==
  ASSUME NEW pages, NEW options, NEW reliable, Len(pages) \in Nat
  PROVE  /\ Len(clean_pdf_page_lines(pages, options, reliable).pages) = Len(pages)
         /\ DOMAIN clean_pdf_page_lines(pages, options, reliable).pages = 1..Len(pages)
<1> DEFINE pats == IF options.headers /\ ~reliable THEN RepeatedPatterns(pages) ELSE {}
           cleanedWith(patterns) == [p \in 1..Len(pages) |-> The({CleanedPage(page, options, patterns) : page \in {pages[p]}})]
           textsOf(cleaned) == [p \in 1..Len(cleaned) |-> cleaned[p].text]
           outcome(texts, cleaned) == [text |-> flatten_pdf_page_texts(texts), warnings |-> Warnings(cleaned), pages |-> texts]
           S == UNION {UNION {{outcome(texts, cleaned) : texts \in {textsOf(cleaned)}} :
                               cleaned \in {cleanedWith(patterns)}} : patterns \in {pats}}
           n == Len(pages)
<1>1. clean_pdf_page_lines(pages, options, reliable) = The(S)
  BY DEF clean_pdf_page_lines
<1>2. \A texts, cleaned : outcome(texts, cleaned).pages = texts
  OBVIOUS
<1>3. \A patterns : DOMAIN cleanedWith(patterns) = 1..n
                    /\ cleanedWith(patterns) = [p \in 1..n |-> cleanedWith(patterns)[p]]
  OBVIOUS
<1>4. \A cleaned : DOMAIN textsOf(cleaned) = 1..Len(cleaned)
                   /\ textsOf(cleaned) = [p \in 1..Len(cleaned) |-> textsOf(cleaned)[p]]
  OBVIOUS
<1> HIDE DEF outcome, textsOf, cleanedWith, pats
<1>5. outcome(textsOf(cleanedWith(pats)), cleanedWith(pats)) \in S
  BY Zenon
<1>6. ASSUME NEW x \in S PROVE x = outcome(textsOf(cleanedWith(pats)), cleanedWith(pats))
  <2>1. PICK patterns \in {pats} : x \in UNION {{outcome(texts, cleaned) : texts \in {textsOf(cleaned)}} :
                                                  cleaned \in {cleanedWith(patterns)}}
    BY Zenon
  <2>2. PICK cleaned \in {cleanedWith(patterns)} : x \in {outcome(texts, cleaned) : texts \in {textsOf(cleaned)}}
    BY <2>1, Zenon
  <2> QED  BY <2>1, <2>2, Zenon
<1> HIDE DEF S
<1>7. The(S) = outcome(textsOf(cleanedWith(pats)), cleanedWith(pats))
  BY <1>5, <1>6, TheOneOf
<1> DEFINE cleaned == cleanedWith(pats)
           texts == textsOf(cleaned)
<1>8. DOMAIN cleaned = 1..n /\ cleaned = [p \in 1..n |-> cleaned[p]]
  BY <1>3
<1>9. DOMAIN texts = 1..Len(cleaned) /\ texts = [p \in 1..Len(cleaned) |-> texts[p]]
  BY <1>4
<1>10. clean_pdf_page_lines(pages, options, reliable).pages = texts
  BY <1>1, <1>2, <1>7
<1> HIDE DEF cleaned, texts
<1>11. Len(cleaned) = n
  BY <1>8, LengthOf
<1>12. Len(texts) = n
  BY <1>9, <1>11, LengthOf
<1> QED  BY <1>9, <1>10, <1>11, <1>12

LEMMA PdfPagesAreAll ==
  ASSUME NEW texts, NEW config, Len(texts) \in Nat
  PROVE  /\ Len(clean_extracted_pdf_pages_and_text(texts, config).pages) = Len(texts)
         /\ DOMAIN clean_extracted_pdf_pages_and_text(texts, config).pages = 1..Len(texts)
<1> DEFINE pageLines == [p \in 1..Len(texts) |-> lines(texts[p])]
           opts == from_cleaning_config(config)
           S == {clean_pdf_page_lines(pages, options, TRUE) : pages \in {pageLines}, options \in {opts}}
<1>1. clean_extracted_pdf_pages_and_text(texts, config) = The(S)
  BY DEF clean_extracted_pdf_pages_and_text
<1>2. DOMAIN pageLines = 1..Len(texts) /\ pageLines = [p \in 1..Len(texts) |-> pageLines[p]]
  OBVIOUS
<1> HIDE DEF pageLines, opts
<1>3. Len(pageLines) = Len(texts)
  BY <1>2, LengthOf
<1>4. S = {clean_pdf_page_lines(pageLines, opts, TRUE)}
  OBVIOUS
<1> HIDE DEF S
<1>5. clean_extracted_pdf_pages_and_text(texts, config) = clean_pdf_page_lines(pageLines, opts, TRUE)
  BY <1>1, <1>4, TheOnly, Zenon
<1>6. Len(pageLines) \in Nat
  BY <1>3
<1>7. /\ Len(clean_pdf_page_lines(pageLines, opts, TRUE).pages) = Len(pageLines)
      /\ DOMAIN clean_pdf_page_lines(pageLines, opts, TRUE).pages = 1..Len(pageLines)
  BY <1>6, CleanedPagesAreAll, Zenon
<1> QED  BY <1>3, <1>5, <1>7, Zenon

(* Texts cleaned one after the other: a run of the fold over the first n jobs, as a function
   of sets of them. *)
TextStep(jobs, config, context, acc, i) ==
  The({AfterText(acc, jobs[i], clean) :
         clean \in {clean_text_impl(jobs[i].text, config, [context EXCEPT !.page = jobs[i].page],
                                    acc, jobs[i].reported)}})
TextRun(jobs, config, context, start, f, n) ==
  f = [s \in SUBSET (1..n) |-> IF s = {} THEN start
                               ELSE TextStep(jobs, config, context, f[s \ {Max(s)}], Max(s))]

LEMMA MaxOf ==
  ASSUME NEW n \in Nat, NEW s, s \subseteq 1..n, s # {}
  PROVE  Max(s) \in s /\ \A x \in s : x <= Max(s)
<1>1. Max(s) \in s
  BY GreatestOf
<1> DEFINE T == {n - x : x \in s}
<1>2. T \subseteq Nat /\ T # {}
  <2>1. \A x \in s : x \in 1..n /\ n - x \in Nat
    OBVIOUS
  <2> QED  BY <2>1
<1>3. PICK z \in T : \A y \in T : z <= y
  BY <1>2, LeastNatural
<1>4. PICK x \in s : z = n - x
  OBVIOUS
<1>5. \A y \in s : x >= y
  <2> TAKE y \in s
  <2>1. n - y \in T
    OBVIOUS
  <2> QED  BY <1>3, <1>4, <2>1
<1>6. Max(s) \in s /\ \A y \in s : Max(s) >= y
  BY <1>5, Zenon DEF Max
<1> QED  BY <1>6

LEMMA TextRuns ==
  ASSUME NEW jobs, NEW config, NEW context, NEW start, NEW n \in Nat
  PROVE  \E f : TextRun(jobs, config, context, start, f, n)
<1> DEFINE Step(acc, i) == TextStep(jobs, config, context, acc, i)
           Run(f, m) == f = [s \in SUBSET (1..m) |-> IF s = {} THEN start ELSE Step(f[s \ {Max(s)}], Max(s))]
           S == {m \in 0..n : \E f : Run(f, m)}
<1> HIDE DEF Step
<1>1. 0 \in S
  <2> DEFINE f == [s \in SUBSET (1..0) |-> start]
  <2>1. f = [s \in SUBSET (1..0) |-> IF s = {} THEN start ELSE Step(f[s \ {Max(s)}], Max(s))]
    <3>1. \A s \in SUBSET (1..0) : s = {}
      OBVIOUS
    <3> QED  BY <3>1, Zenon
  <2> HIDE DEF f
  <2>2. Run(f, 0)
    BY <2>1, Zenon
  <2> QED  BY <2>2
<1>2. ASSUME NEW m \in 0..n, m \in S, m < n PROVE m + 1 \in S
  <2>1. PICK f : Run(f, m)
    BY <1>2
  <2> DEFINE k == m + 1
             g == [s \in SUBSET (1..k) |-> IF k \in s THEN Step(f[s \ {k}], k) ELSE f[s]]
             h == [s \in SUBSET (1..k) |-> IF s = {} THEN start ELSE Step(g[s \ {Max(s)}], Max(s))]
  <2>2. ASSUME NEW s \in SUBSET (1..k) PROVE g[s] = h[s]
    <3>1. CASE s = {}
      <4>1. g[s] = f[s] /\ h[s] = start /\ s \in SUBSET (1..m)
        BY <3>1
      <4>2. f[s] = start
        BY <2>1, <3>1, <4>1
      <4> QED  BY <4>1, <4>2
    <3>2. CASE s # {} /\ k \notin s
      <4>1. s \in SUBSET (1..m)
        BY <3>2
      <4>2. s \ {Max(s)} \in SUBSET (1..k) /\ k \notin s \ {Max(s)} /\ s \ {Max(s)} \in SUBSET (1..m)
        BY <3>2, <4>1
      <4>3. g[s] = f[s] /\ g[s \ {Max(s)}] = f[s \ {Max(s)}] /\ h[s] = Step(g[s \ {Max(s)}], Max(s))
        BY <3>2, <4>1, <4>2
      <4>4. f[s] = Step(f[s \ {Max(s)}], Max(s))
        BY <2>1, <3>2, <4>1, Zenon
      <4> QED  BY <4>3, <4>4
    <3>3. CASE s # {} /\ k \in s
      <4>1. Max(s) \in s /\ \A x \in s : x <= Max(s)
        <5>1. k \in Nat /\ s \subseteq 1..k
          OBVIOUS
        <5> QED  BY <3>3, <5>1, MaxOf
      <4>2. Max(s) = k
        <5>1. Max(s) \in 1..k /\ k <= Max(s)
          BY <3>3, <4>1, Zenon
        <5> QED  BY <5>1
      <4>3. s \ {k} \in SUBSET (1..k) /\ k \notin s \ {k}
        OBVIOUS
      <4>4. g[s] = Step(f[s \ {k}], k) /\ g[s \ {k}] = f[s \ {k}]
        BY <3>3, <4>3
      <4>5. h[s] = Step(g[s \ {k}], k)
        BY <3>3, <4>2
      <4> QED  BY <4>4, <4>5
    <3> QED  BY <3>1, <3>2, <3>3
  <2>3. g = h
    BY <2>2, Zenon
  <2>4. Run(g, k)
    BY <2>3, Zenon
  <2>5. k \in 0..n
    BY <1>2
  <2> HIDE DEF g, Run
  <2> QED  BY <2>4, <2>5
<1> HIDE DEF S
<1>3. n \in S
  BY <1>1, <1>2, UpTo
<1>4. PICK f : Run(f, n)
  BY <1>3 DEF S
<1>5. TextRun(jobs, config, context, start, f, n)
  BY <1>4, Zenon DEF TextRun, Step
<1> QED  BY <1>5

(* The texts are as many as the jobs. *)
LEMMA TextsOfRun ==
  ASSUME NEW jobs, NEW config, NEW context, NEW start, start.texts = <<>>, NEW n \in Nat,
         NEW f, TextRun(jobs, config, context, start, f, n)
  PROVE  \E U : f[1..n].texts \in Seq(U) /\ Len(f[1..n].texts) = n
<1> DEFINE Step(acc, i) == TextStep(jobs, config, context, acc, i)
           Found(m) == \E U : f[1..m].texts \in Seq(U) /\ Len(f[1..m].texts) = m
           S == {m \in 0..n : Found(m)}
<1>1. 0 \in S
  <2>1. 1..0 = {} /\ {} \in SUBSET (1..n)
    OBVIOUS
  <2>2. f[1..0] = start
    BY <2>1, Zenon DEF TextRun
  <2>3. f[1..0].texts = <<>>
    BY <2>2, Zenon
  <2>4. <<>> \in Seq({}) /\ Len(<<>>) = 0
    OBVIOUS
  <2>5. Found(0)
    BY <2>3, <2>4, Zenon
  <2> HIDE DEF Found
  <2> QED  BY <2>5
<1>2. ASSUME NEW m \in 0..n, m \in S, m < n PROVE m + 1 \in S
  <2> DEFINE k == m + 1
  <2>1. k \in 0..n /\ k \in Nat /\ 1..k # {} /\ 1..k \in SUBSET (1..n) /\ (1..k) \ {k} = 1..m
    <3> HIDE DEF Found
    <3>1. m \in Nat /\ m < n
      BY <1>2
    <3>2. k \in 0..n /\ k \in Nat /\ k \in 1..k
      BY <3>1
    <3>3. \A x \in 1..k : x \in 1..n
      BY <3>1
    <3>4. \A x : x \in 1..k /\ x # k <=> x \in 1..m
      BY <3>1
    <3> HIDE DEF k
    <3> QED  BY <3>2, <3>3, <3>4
  <2>2. Max(1..k) = k
    <3>1. Max(1..k) \in 1..k /\ \A x \in 1..k : x <= Max(1..k)
      BY <2>1, MaxOf
    <3>2. k \in 1..k
      BY <2>1
    <3>3. Max(1..k) \in 1..k /\ k <= Max(1..k)
      BY <3>1, <3>2, Zenon
    <3> QED  BY <3>3
  <2>3. f[1..k] = Step(f[1..m], k)
    BY <2>1, <2>2, Zenon DEF TextRun
  <2>4. \E clean : Step(f[1..m], k) = AfterText(f[1..m], jobs[k], clean)
    <3> DEFINE Clean == clean_text_impl(jobs[k].text, config, [context EXCEPT !.page = jobs[k].page],
                                        f[1..m], jobs[k].reported)
    <3>1. Step(f[1..m], k) = The({AfterText(f[1..m], jobs[k], clean) : clean \in {Clean}})
      BY DEF TextStep
    <3> HIDE DEF Clean
    <3> DEFINE T == {AfterText(f[1..m], jobs[k], clean) : clean \in {Clean}}
    <3>2. T = {AfterText(f[1..m], jobs[k], Clean)}
      OBVIOUS
    <3>3. Step(f[1..m], k) = The(T)
      BY <3>1
    <3> HIDE DEF T, Step
    <3> QED  BY <3>2, <3>3, TheOnly
  <2> HIDE DEF Step
  <2>5. PICK clean : f[1..k] = AfterText(f[1..m], jobs[k], clean)
    BY <2>3, <2>4
  <2>6. f[1..k].texts = Append(f[1..m].texts, clean.text)
    BY <2>5 DEF AfterText
  <2>7. PICK U : f[1..m].texts \in Seq(U) /\ Len(f[1..m].texts) = m
    BY <1>2
  <2>8. f[1..m].texts \in Seq(U \cup {clean.text})
    BY <2>7
  <2>9. f[1..k].texts \in Seq(U \cup {clean.text}) /\ Len(f[1..k].texts) = k
    <3> DEFINE t == f[1..m].texts
               V == U \cup {clean.text}
               e == clean.text
    <3>1. t \in Seq(V) /\ e \in V /\ Len(t) = m
      BY <2>7, <2>8
    <3> HIDE DEF t, V, e
    <3>2. Append(t, e) \in Seq(V) /\ Len(Append(t, e)) = m + 1
      BY <3>1
    <3> QED  BY <2>6, <3>2 DEF t, V, e
  <2>10. Found(k)
    BY <2>9
  <2> HIDE DEF Found
  <2> QED  BY <2>1, <2>10
<1> HIDE DEF S
<1>3. \A m \in 0..n : m \in S
  BY <1>1, <1>2, UpTo, Zenon
<1>4. n \in 0..n
  OBVIOUS
<1> QED  BY <1>3, <1>4 DEF S

LEMMA CleanedTextsAreAll ==
  ASSUME NEW jobs, NEW config, NEW context, NEW start, start.texts = <<>>,
         NEW n \in Nat, DOMAIN jobs = 1..n
  PROVE  \E U : CleanedTexts(start, jobs, config, context).texts \in Seq(U)
                /\ Len(CleanedTexts(start, jobs, config, context).texts) = n
<1> DEFINE iter[s \in SUBSET (1..n)] ==
             IF s = {} THEN start
             ELSE TextStep(jobs, config, context, iter[s \ {Max(s)}], Max(s))
<1>1. CleanedTexts(start, jobs, config, context) = iter[1..n]
  BY Zenon DEF CleanedTexts, FoldLeft, MapThenFoldSet, TextStep
<1>2. \E f : TextRun(jobs, config, context, start, f, n)
  BY TextRuns
<1>3. TextRun(jobs, config, context, start, iter, n)
  BY <1>2, Zenon DEF TextRun
<1> HIDE DEF iter
<1>4. \E U : iter[1..n].texts \in Seq(U) /\ Len(iter[1..n].texts) = n
  BY <1>3, TextsOfRun
<1> QED  BY <1>1, <1>4

LEMMA Followed ==
  ASSUME NEW x, NEW n \in Nat, NEW f, DOMAIN f = 1..n, f = [i \in 1..n |-> f[i]]
  PROVE  DOMAIN (<<x>> \o f) = 1..(n + 1)
<1> DEFINE S == {f[i] : i \in 1..n} \cup {x}
<1>1. f \in [1..n -> S] /\ x \in S
  OBVIOUS
<1> HIDE DEF S
<1>2. f \in Seq(S) /\ Len(f) = n
  <2>1. f \in Seq(S)
    BY <1>1, SequenceOf
  <2> QED  BY <2>1
<1>3. <<x>> \in Seq(S) /\ Len(<<x>>) = 1
  BY <1>1
<1>4. <<x>> \o f \in Seq(S) /\ Len(<<x>> \o f) = 1 + n
  BY <1>2, <1>3
<1> QED  BY <1>4

LEMMA Rest ==
  ASSUME NEW U, NEW s \in Seq(U), Len(s) > 0
  PROVE  Len(Tail(s)) = Len(s) - 1
OBVIOUS

(* One text for every page of a document. *)
LEMMA DocumentKeepsPages ==
  ASSUME NEW document, NEW config, NEW context, NEW reported,
         NEW n \in Nat, DOMAIN document.pages = 1..n
  PROVE  Len(clean_structured_document_impl(document, config, context, reported).pages) = n
<1> DEFINE start == [texts |-> <<>>, events |-> <<>>,
                     skipped |-> IF reported THEN ZoneNotices(document, config, context, NoMap) ELSE NoMap]
           byPage == requires_reliable_page_metadata(config) /\ document.reliable
           used == IF byPage THEN without_page_label_removal(config) ELSE config
           jobs == Jobs(document, byPage, config, reported)
           clean == CleanedTexts(start, jobs, used, context)
           result == CleanedDocument(clean, byPage)
<1>1. clean_structured_document_impl(document, config, context, reported) = result
  <2> DEFINE usedOf(by) == IF by THEN without_page_label_removal(config) ELSE config
             S == UNION {UNION {{CleanedDocument(c, by) : c \in {CleanedTexts(start, js, usedOf(by), context)}} :
                                  js \in {Jobs(document, by, config, reported)}} : by \in {byPage}}
  <2>1. clean_structured_document_impl(document, config, context, reported) = The(S)
    BY DEF clean_structured_document_impl
  <2>2. usedOf(byPage) = used
    OBVIOUS
  <2> HIDE DEF byPage, start, usedOf, used
  <2>3. S = {CleanedDocument(CleanedTexts(start, Jobs(document, byPage, config, reported), usedOf(byPage), context), byPage)}
    OBVIOUS
  <2> HIDE DEF S
  <2>4. S = {result}
    BY <2>2, <2>3, Zenon
  <2> HIDE DEF result
  <2> QED  BY <2>1, <2>4, TheOnly, Zenon
<1>2. start.texts = <<>>
  OBVIOUS
<1>3. DOMAIN jobs = 1..(IF byPage THEN n ELSE n + 1)
  <2> HIDE DEF byPage
  <2>1. CASE byPage
    <3> DEFINE decided == page_label_removal_decisions(document, config)
               perPage(decisions) == [p \in DOMAIN document.pages |->
                   Job(to_text(FilteredPage(document.pages[p], p, config, decisions)), p, reported)]
               S == {perPage(decisions) : decisions \in {decided}}
    <3>1. jobs = The(S)
      BY <2>1 DEF Jobs
    <3>2. \A decisions : DOMAIN perPage(decisions) = DOMAIN document.pages
      OBVIOUS
    <3> HIDE DEF perPage, decided
    <3>3. S = {perPage(decided)}
      OBVIOUS
    <3> HIDE DEF S, jobs
    <3>4. jobs = perPage(decided)
      BY <3>1, <3>3, TheOnly, Zenon
    <3> QED  BY <2>1, <3>2, <3>4
  <2>2. CASE ~ byPage
    <3> DEFINE whole == Job(to_flat_text(document), 0, reported)
               each == [p \in DOMAIN document.pages |-> Job(to_text(document.pages[p]), 0, FALSE)]
    <3>1. jobs = <<whole>> \o each
      BY <2>2, Zenon DEF Jobs
    <3>2. DOMAIN each = 1..n /\ each = [p \in 1..n |-> each[p]]
      OBVIOUS
    <3> HIDE DEF whole, each, jobs
    <3>3. DOMAIN (<<whole>> \o each) = 1..(n + 1)
      BY <3>2, Followed
    <3> QED  BY <2>2, <3>1, <3>3
  <2> QED  BY <2>1, <2>2
<1>4. result.pages = IF byPage THEN clean.texts ELSE Tail(clean.texts)
  BY DEF CleanedDocument
<1> HIDE DEF start, used, jobs, byPage
<1>5. \E U : clean.texts \in Seq(U) /\ Len(clean.texts) = (IF byPage THEN n ELSE n + 1)
  <2> DEFINE m == IF byPage THEN n ELSE n + 1
  <2>1. m \in Nat
    OBVIOUS
  <2>2. DOMAIN jobs = 1..m
    BY <1>3
  <2> HIDE DEF m
  <2>3. \E U : CleanedTexts(start, jobs, used, context).texts \in Seq(U)
                /\ Len(CleanedTexts(start, jobs, used, context).texts) = m
    BY <1>2, <2>1, <2>2, CleanedTextsAreAll
  <2> QED  BY <2>3 DEF m
<1> HIDE DEF clean, result
<1>6. CASE byPage
  BY <1>1, <1>4, <1>5, <1>6
<1>7. CASE ~ byPage
  <2>1. PICK U : clean.texts \in Seq(U) /\ Len(clean.texts) = n + 1
    BY <1>5, <1>7
  <2>2. Len(Tail(clean.texts)) = n
    BY <2>1, Rest
  <2> QED  BY <1>1, <1>4, <1>7, <2>2
<1> QED  BY <1>6, <1>7

(* The text of a source comes with all of its pages, or with none. *)
LEMMA ShownPagesAreAll ==
  ASSUME NEW doc, NEW entry, NEW config, NEW context, Len(entry.pages) \in Nat,
         document_text_from_cache_entry(doc, entry, config, context).paged
  PROVE  Len(document_text_from_cache_entry(doc, entry, config, context).pages) = Len(entry.pages)
<1> DEFINE shown == document_text_from_cache_entry(doc, entry, config, context)
<1>1. \A t, pages, warnings, report :
        /\ DocumentText(t, pages, warnings, report).paged => pages # <<>>
        /\ DocumentText(t, pages, warnings, report).pages = pages
  BY DEF DocumentText
<1>2. \A clean, pages, warnings :
        /\ ReportedText(clean, pages, warnings).paged => pages # <<>>
        /\ ReportedText(clean, pages, warnings).pages = pages
  BY <1>1 DEF ReportedText
<1>3. CASE HasPages(doc, entry)
  <2> DEFINE pdf == clean_extracted_pdf_pages_and_text(entry.pages, config)
             document == from_pages(pdf.pages)
             clean == clean_structured_document_impl(document, config, context, TRUE)
             whole == clean_text(prepare_document_text_for_cleaning(doc, entry.text, config, TRUE).text, config)
             n == Len(entry.pages)
  <2>1. shown = PagedText(doc, entry, config, context)
    BY <1>3, Zenon DEF document_text_from_cache_entry
  <2>2. PagedText(doc, entry, config, context) = TextByPages(entry, pdf, clean, whole, config)
    <3> DEFINE Whole_ == UNION {{clean_text(prepared.text, config)} :
                                prepared \in {prepare_document_text_for_cleaning(doc, entry.text, config, TRUE)}}
               Clean(p) == UNION {{clean_structured_document_impl(d, config, context, TRUE)} :
                                    d \in {from_pages(p.pages)}}
               S == UNION {{TextByPages(entry, p, c, w, config) : c \in Clean(p), w \in Whole_} : p \in {pdf}}
    <3>1. PagedText(doc, entry, config, context) = The(S)
      <4> HIDE DEF pdf
      <4>1. UNION {{UNION {{clean_structured_document_impl(d, config, context, TRUE)} :
                                    d \in {from_pages(p.pages)}}} : p \in {pdf}}
              = {Clean(pdf)}
        OBVIOUS
      <4> QED  BY DEF PagedText, pdf
    <3>2. Clean(pdf) = {clean}
      <4> HIDE DEF pdf
      <4> QED  OBVIOUS
    <3>3. Whole_ = {whole}
      <4> DEFINE prep == prepare_document_text_for_cleaning(doc, entry.text, config, TRUE)
      <4> HIDE DEF prep
      <4> QED  BY DEF prep
    <3> HIDE DEF Whole_, Clean, pdf, clean, whole
    <3>4. S = {TextByPages(entry, pdf, clean, whole, config)}
      <4>1. S = {TextByPages(entry, pdf, c, w, config) : c \in Clean(pdf), w \in Whole_}
        OBVIOUS
      <4> HIDE DEF S
      <4>2. S = {TextByPages(entry, pdf, c, w, config) : c \in {clean}, w \in {whole}}
        BY <3>2, <3>3, <4>1
      <4> QED  BY <4>2
    <3> HIDE DEF S
    <3> QED  BY <3>1, <3>4, TheOnly, Zenon
  <2>3. DOMAIN document.pages = 1..n
    <3>1. Len(pdf.pages) = n
      BY PdfPagesAreAll
    <3> HIDE DEF pdf
    <3>2. document.pages = [p \in 1..Len(pdf.pages) |-> lines(pdf.pages[p])]
      BY DEF from_pages
    <3> QED  BY <3>1, <3>2
  <2> HIDE DEF pdf, document
  <2>4. Len(clean.pages) = n
    BY <2>3, DocumentKeepsPages
  <2> HIDE DEF clean, whole
  <2> DEFINE given == IF clean.paged THEN clean.pages ELSE <<>>
  <2>5. \/ TextByPages(entry, pdf, clean, whole, config) = ReportedText(clean, given, entry.warnings \o pdf.warnings)
        \/ TextByPages(entry, pdf, clean, whole, config) = DocumentText(whole, <<>>, entry.warnings, NoReport)
    BY Zenon DEF TextByPages
  <2> HIDE DEF n, shown, given
  <2>6. shown.paged => shown.pages = clean.pages
    <3>1. CASE shown = ReportedText(clean, given, entry.warnings \o pdf.warnings)
      <4>1. (shown.paged => given # <<>>) /\ shown.pages = given
        BY <1>2, <3>1, Zenon
      <4> QED  BY <4>1 DEF given
    <3>2. CASE shown = DocumentText(whole, <<>>, entry.warnings, NoReport)
      <4>1. shown.paged => <<>> # <<>>
        BY <1>1, <3>2, Zenon
      <4> QED  BY <4>1
    <3> QED  BY <2>1, <2>2, <2>5, <3>1, <3>2, Zenon
  <2> QED  BY <2>4, <2>6 DEF n, shown
<1>4. CASE ~ HasPages(doc, entry)
  <2> DEFINE prepare == prepare_document_text_for_cleaning(doc, entry.text, config, FALSE)
             cleaned(prepared) ==
                IF requires_reliable_page_metadata(config)
                THEN clean_structured_document_impl(from_flat_text_as_single_page(prepared.text), config, context, TRUE)
                ELSE clean_text_impl(prepared.text, config, context, NothingCollected, TRUE)
             S == UNION {{ReportedText(clean, <<>>, entry.warnings \o prepared.warnings) :
                            clean \in {cleaned(prepared)}} : prepared \in {prepare}}
  <2>1. shown = The(S)
    BY <1>4 DEF document_text_from_cache_entry, FlatText
  <2> HIDE DEF prepare, cleaned
  <2>2. S = {ReportedText(cleaned(prepare), <<>>, entry.warnings \o prepare.warnings)}
    OBVIOUS
  <2> HIDE DEF S, shown
  <2>3. shown = ReportedText(cleaned(prepare), <<>>, entry.warnings \o prepare.warnings)
    BY <2>1, <2>2, TheOnly, Zenon
  <2>4. shown.paged => <<>> # <<>>
    BY <1>2, <2>3, Zenon
  <2> QED  BY <2>4 DEF shown
<1> QED  BY <1>3, <1>4

(* The texts shown are those of the sources as they were first, and their pages are all of
   the pages of these sources, also those of which nothing is left. *)
ShownFirst(d) ==
  document_text_for_record(case.docs[d], Entry(d, 1), case.config, [source |-> d, page |-> 0])
ShownTexts == {ShownFirst(d) : d \in Docs}
ShownInv ==
  /\ case \in Cases
  /\ stage = "Preview" => version = [d \in Docs |-> 1]
  /\ documents \in Seq(ShownTexts) /\ Len(documents) <= Len(case.docs)
  /\ \A d \in 1..Len(documents) : documents[d] = ShownFirst(d)
NoPageIsDropped ==
  \A d \in DOMAIN documents :
      documents[d].ok /\ documents[d].document.paged =>
          Len(documents[d].document.pages) = Len(Entry(d, 1).pages)

LEMMA ShownInvInit == Init => ShownInv
<1> SUFFICES ASSUME Init PROVE ShownInv
  OBVIOUS
<1>1. Len(case.docs) \in Nat
  BY CasesAssumption DEF Init
<1> QED  BY <1>1 DEF Init, ShownInv, Docs

LEMMA ShownInvNext == ShownInv /\ [Next]_vars => ShownInv'
<1> SUFFICES ASSUME ShownInv, [Next]_vars PROVE ShownInv'
  OBVIOUS
<1>1. ASSUME case' = case, documents' = documents, stage' = "Preview" => stage = "Preview" /\ version' = version
      PROVE  ShownInv'
  <2>1. Docs' = Docs /\ \A d : ShownFirst(d)' = ShownFirst(d)
    BY <1>1 DEF Docs, ShownFirst, Entry
  <2>2. ShownTexts' = ShownTexts
    BY <2>1 DEF ShownTexts
  <2> QED  BY <1>1, <2>1, <2>2 DEF ShownInv
<1>2. CASE Preview
  <2> DEFINE d == Len(documents) + 1
             n == Len(documents)
  <2>1. n \in Nat /\ Len(case.docs) \in Nat /\ Docs = 1..Len(case.docs) /\ n < Len(case.docs)
    BY <1>2, CasesAssumption DEF ShownInv, Preview, Docs
  <2>2. d \in Docs /\ version[d] = 1
    <3>1. version = [e \in Docs |-> 1]
      BY <1>2 DEF ShownInv, Preview
    <3>2. d \in Docs
      BY <2>1
    <3> QED  BY <3>1, <3>2
  <2>3. case' = case /\ version' = version /\ stage' = stage
    BY <1>2 DEF Preview
  <2>4. documents' = Append(documents, ShownFirst(d))
    BY <1>2, <2>2 DEF Preview, ShownFirst
  <2>5. ShownFirst(d) \in ShownTexts
    BY <2>2 DEF ShownTexts
  <2>6. Docs' = Docs /\ \A e : ShownFirst(e)' = ShownFirst(e)
    BY <2>3 DEF Docs, ShownFirst, Entry
  <2>7. ShownTexts' = ShownTexts
    BY <2>6 DEF ShownTexts
  <2> DEFINE x == ShownFirst(d)
  <2>8. /\ documents' \in Seq(ShownTexts) /\ Len(documents') = n + 1
        /\ documents'[n + 1] = x /\ \A e \in 1..n : documents'[e] = documents[e]
    <3>1. documents \in Seq(ShownTexts)
      BY DEF ShownInv
    <3> HIDE DEF x
    <3> QED  BY <2>4, <2>5, <3>1 DEF x
  <2>9. \A e \in 1..(n + 1) : documents'[e] = ShownFirst(e)
    <3> TAKE e \in 1..(n + 1)
    <3>1. CASE e = n + 1
      BY <2>8, <3>1
    <3>2. CASE e # n + 1
      <4>1. e \in 1..n
        BY <2>1, <3>2
      <4> QED  BY <2>8, <4>1 DEF ShownInv
    <3> QED  BY <3>1, <3>2
  <2>10. version' = [e \in Docs |-> 1]
    BY <1>2, <2>3 DEF ShownInv, Preview
  <2>11. \A e \in 1..Len(documents') : documents'[e] = ShownFirst(e)'
    BY <2>6, <2>8, <2>9
  <2>12. Len(documents') <= Len(case'.docs)
    BY <2>1, <2>3, <2>8
  <2> QED  BY <2>3, <2>6, <2>7, <2>8, <2>10, <2>11, <2>12 DEF ShownInv
<1>3. CASE preview_processed_files \/ CountWords
  BY <1>1, <1>3 DEF preview_processed_files, CountWords
<1>4. CASE Refuse \/ Accept \/ remove_dir_all \/ ClearFails \/ Create
  BY <1>1, <1>4 DEF Refuse, Accept, remove_dir_all, ClearFails, Create, Goes, progress
<1>5. CASE \E d \in Docs : ReadSource(d) \/ Extract(d) \/ WriteText(d) \/ WriteFails(d) \/ Edit(d)
  BY <1>1, <1>5 DEF ReadSource, Extract, WriteText, WriteFails, Edit, Works, Goes, progress
<1>6. CASE Collect \/ WriteLog \/ LogFails
  BY <1>1, <1>6 DEF Collect, WriteLog, LogFails, Goes, progress
<1>7. CASE Crash \/ Retry
  BY <1>1, <1>7 DEF Crash, Retry, progress
<1>8. CASE Ended \/ UNCHANGED vars
  BY <1>1, <1>8 DEF Ended, vars, progress
<1> QED  BY <1>2, <1>3, <1>4, <1>5, <1>6, <1>7, <1>8 DEF Next

(* A PDF that is previewed with its pages is previewed with all of them, in a preview of the
   versions that were there first: no step drops a page of which nothing is left, neither the
   cleaning of PDF lines nor that of the document, page by page or as a whole. *)
THEOREM PagesAreAllShown == Spec => []NoPageIsDropped
<1>1. ShownInv => NoPageIsDropped
  <2> SUFFICES ASSUME ShownInv, NEW d \in DOMAIN documents,
                      documents[d].ok, documents[d].document.paged
               PROVE  Len(documents[d].document.pages) = Len(Entry(d, 1).pages)
    BY DEF NoPageIsDropped
  <2> DEFINE doc == case.docs[d]
             entry == Entry(d, 1)
             context == [source |-> d, page |-> 0]
             shown == document_text_from_cache_entry(doc, entry, case.config, context)
  <2>1. case \in Cases /\ d \in 1..Len(documents) /\ documents[d] = ShownFirst(d)
        /\ d \in DOMAIN case.docs
    BY CasesAssumption DEF ShownInv, Docs
  <2>2. Len(entry.pages) \in Nat
    <3>1. Len(doc.contents) \in Nat \ {0} /\ \A v \in 1..Len(doc.contents) : Len(doc.contents[v].pages) \in Nat
      BY <2>1, CasesAssumption, Zenon
    <3>2. 1 \in 1..Len(doc.contents)
      BY <3>1
    <3>3. entry = doc.contents[1]
      BY DEF Entry, EntryOf
    <3> HIDE DEF entry, doc
    <3> QED  BY <3>1, <3>2, <3>3, Zenon
  <2>3. documents[d].document = shown
    <3>1. \/ documents[d] = [ok |-> FALSE, error |-> MissingOcr]
          \/ documents[d] = [ok |-> FALSE, error |-> ReadFailed]
          \/ documents[d] = [ok |-> TRUE, document |-> shown]
      BY <2>1, Zenon DEF ShownFirst, document_text_for_record
    <3> HIDE DEF shown
    <3> QED  BY <3>1
  <2> HIDE DEF doc, entry, context
  <2>4. shown.paged
    BY <2>3
  <2>5. Len(shown.pages) = Len(entry.pages)
    BY <2>2, <2>4, ShownPagesAreAll
  <2> HIDE DEF shown
  <2> QED  BY <2>3, <2>5 DEF entry
<1> QED  BY <1>1, ShownInvInit, ShownInvNext, PTL DEF Spec
=============================================================================
