---------------------------- MODULE SourceInventory ----------------------------
(***************************************************************************)
(* The source inventory of a project: the manifest file every command      *)
(* reads, changes and writes as a whole without a lock, and the copy of it *)
(* the application keeps for queries (project/sources.rs and the desktop   *)
(* feature project).  Commands run on a thread pool and overlap.           *)
(***************************************************************************)
EXTENDS SourceStatus, Naturals

CONSTANTS
  Ids,            \* the files that may become sources, by source ID
  KindOf,         \* the kind of each file, by its extension
  Outcomes,       \* what the preflight may find
  Choices,        \* the PDF profiles a user may choose
  Commands,       \* invocations in progress
  MaxWrites,      \* bound: truncations and writes of the manifest file
  NoSource, NoCopy

Manifests == [Ids -> Source \cup {NoSource}]

ASSUME KindOfAssumption == KindOf \in [Ids -> Kinds]
ASSUME InputsAssumption == Outcomes \subseteq Preflights /\ Choices \subseteq Profiles
ASSUME NoneAssumption == NoSource \notin Source /\ NoCopy \notin Manifests

(* Entries earlier versions left: planned for mixed OCR, and extracted by  *)
(* it with the review it then asked for.                                   *)
LegacySources ==
  { [kind |-> "pdf", status |-> "needs_ocr", route |-> "ocr_required",
     profile |-> NoProfile, reasons |-> {"ocr_required"}],
    [kind |-> "pdf", status |-> "text_extracted_with_warnings", route |-> "ocr_required",
     profile |-> NoProfile, reasons |-> {"ocr_review_recommended"}] }

VARIABLES
  saved,          \* the manifest last written
  file,           \* its file: "whole", "empty" (truncated) or "garbled" by two writers
  stamp,          \* the file's modification time and size, as a count of changes
  cached,         \* ProjectSourceInventoryState: a copy, its stamp and its origin
  command         \* command[c]: what c does, how far it is, the copy it works on

vars == <<saved, file, stamp, cached, command>>

Updates == {"import", "fast_import", "handling", "remove", "extraction", "processing"}
Stages == {"idle", "loaded", "truncated", "written", "stamped", "read"}
Command == [kind : Updates \cup {"query"}, stage : Stages,
            copy : Manifests \cup {NoCopy}, seen : Nat]

Idle == [kind |-> "query", stage |-> "idle", copy |-> NoCopy, seen |-> 0]
Uncached == [manifest |-> NoCopy, stamp |-> 0, by |-> "nobody"]

(* Copies are complete and every entry keeps the kind of its file.         *)
OfItsKind(manifest) == \A id \in Ids : manifest[id] # NoSource => manifest[id].kind = KindOf[id]

TypeOK ==
  /\ saved \in Manifests /\ OfItsKind(saved)
  /\ file \in {"whole", "empty", "garbled"}
  /\ stamp \in Nat
  /\ cached \in [manifest : Manifests \cup {NoCopy}, stamp : Nat,
                 by : {"nobody", "query", "update"}]
  /\ command \in [Commands -> Command]

Init ==
  /\ saved \in [Ids -> LegacySources \cup {NoSource}]
  /\ OfItsKind(saved)
  /\ file = "whole"
  /\ stamp = 0
  /\ cached = Uncached
  /\ command = [c \in Commands |-> Idle]

-------------------------------------------------------------------------------
(* Commands that change the inventory: load, change entries, save.         *)

(* A truncated or garbled file is not valid JSON. *)
CanLoad == file = "whole"
LoadedManifest == [id \in Ids |-> IF saved[id] = NoSource THEN NoSource ELSE Loaded(saved[id])]

BeginUpdate(c, kind) ==
  /\ command[c].stage = "idle"
  /\ CanLoad
  /\ command' = [command EXCEPT ![c] = [kind |-> kind, stage |-> "loaded",
                                        copy |-> LoadedManifest, seen |-> 0]]
  /\ UNCHANGED <<saved, file, stamp, cached>>

(* Each path of the command's list changes the entry it names. *)
Change(c, kind, id, s) ==
  /\ command[c].kind = kind /\ command[c].stage = "loaded"
  /\ command' = [command EXCEPT ![c].copy[id] = s]
  /\ UNCHANGED <<saved, file, stamp, cached>>

(* Known IDs are duplicates and keep their entry.  The fast import asks    *)
(* nothing, and gives up when there is a PDF to ask about.                 *)
ImportSource(c, id, outcome, override) ==
  LET s == command[c].copy[id]
      registered == IF s = NoSource THEN Registered(KindOf[id], outcome, override) ELSE s
  IN  \/ Change(c, "import", id, registered)
      \/ /\ KindOf[id] # "pdf" /\ override = NoProfile
         /\ Change(c, "fast_import", id, registered)

(* Paths that are not listed any more change nothing. *)
UpdateHandling(c, id, profile) ==
  LET s == command[c].copy[id]
  IN  Change(c, "handling", id, IF s = NoSource THEN s ELSE Handled(s, profile))

ReportExtraction(c, id, result) ==
  LET s == command[c].copy[id]
  IN  /\ KindOf[id] = "pdf"
      /\ Change(c, "extraction", id, IF s = NoSource THEN s ELSE Extracted(s, result))

ReportProcessing(c, id, result) ==
  LET s == command[c].copy[id]
  IN  /\ KindOf[id] # "unknown"
      /\ Change(c, "processing", id, IF s = NoSource THEN s ELSE Processed(s, result))

RemoveSource(c, id) == Change(c, "remove", id, NoSource)

(* fs::write truncates the file, then fills it from its beginning. *)
Truncate(c) ==
  /\ command[c].stage = "loaded"
  /\ stamp < MaxWrites
  /\ file' = "empty"
  /\ stamp' = stamp + 1
  /\ command' = [command EXCEPT ![c].stage = "truncated"]
  /\ UNCHANGED <<saved, cached>>

(* What the file holds once a writer has filled it: over text another      *)
(* writer put there since the truncation, a longer rest may stick out.     *)
Filled == IF file = "empty" THEN {"whole"} ELSE {"whole", "garbled"}

(* Only fast imports and removals refresh the copy kept for queries. *)
Write(c) ==
  /\ command[c].stage = "truncated"
  /\ file' \in Filled
  /\ saved' = command[c].copy
  /\ stamp' = stamp + 1
  /\ command' = [command EXCEPT ![c] =
       IF @.kind \in {"fast_import", "remove"} THEN [@ EXCEPT !.stage = "written"] ELSE Idle]
  /\ UNCHANGED cached

WriteFails(c) ==
  /\ command[c].stage \in {"loaded", "truncated"}
  /\ command' = [command EXCEPT ![c] = Idle]
  /\ UNCHANGED <<saved, file, stamp, cached>>

-------------------------------------------------------------------------------
(* The copy kept for queries.  A lock protects it, not the file.           *)

CacheFree == \A c \in Commands : command[c].stage # "read"

(* replace and with_manifest read the metadata before they take the lock. *)
StampReplacement(c) ==
  /\ command[c].stage = "written"
  /\ command' = [command EXCEPT ![c].stage = "stamped", ![c].seen = stamp]
  /\ UNCHANGED <<saved, file, stamp, cached>>

Replace(c) ==
  /\ command[c].stage = "stamped" /\ command[c].kind # "query"
  /\ CacheFree
  /\ cached' = [manifest |-> command[c].copy, stamp |-> command[c].seen, by |-> "update"]
  /\ command' = [command EXCEPT ![c] = Idle]
  /\ UNCHANGED <<saved, file, stamp>>

BeginQuery(c) ==
  /\ command[c].stage = "idle"
  /\ command' = [command EXCEPT ![c] = [Idle EXCEPT !.stage = "stamped", !.seen = stamp]]
  /\ UNCHANGED <<saved, file, stamp, cached>>

(* A query that does not look at the metadata the copy was kept with. *)
CurrentOnceCached(c) == cached.by # "nobody"

Current(c) == cached.by # "nobody" /\ cached.stamp = command[c].seen

AnswerFromCache(c) ==
  /\ command[c].stage = "stamped" /\ command[c].kind = "query"
  /\ CacheFree
  /\ Current(c) \/ ~ CanLoad
  /\ command' = [command EXCEPT ![c] = Idle]
  /\ UNCHANGED <<saved, file, stamp, cached>>

Reload(c) ==
  /\ command[c].stage = "stamped" /\ command[c].kind = "query"
  /\ CacheFree
  /\ ~ Current(c) /\ CanLoad
  /\ command' = [command EXCEPT ![c].stage = "read", ![c].copy = LoadedManifest]
  /\ UNCHANGED <<saved, file, stamp, cached>>

(* The copy kept with the metadata the file has once it was read. *)
KeepWithLateStamp(c) ==
  /\ command[c].stage = "read"
  /\ cached' = [manifest |-> command[c].copy, stamp |-> stamp, by |-> "query"]
  /\ command' = [command EXCEPT ![c] = Idle]
  /\ UNCHANGED <<saved, file, stamp>>

KeepAndAnswer(c) ==
  /\ command[c].stage = "read"
  /\ cached' = [manifest |-> command[c].copy, stamp |-> command[c].seen, by |-> "query"]
  /\ command' = [command EXCEPT ![c] = Idle]
  /\ UNCHANGED <<saved, file, stamp>>

(* The program dies: what is on disk stays. *)
Crash ==
  /\ command' = [c \in Commands |-> Idle]
  /\ cached' = Uncached
  /\ UNCHANGED <<saved, file, stamp>>

Next ==
  \/ Crash
  \/ \E c \in Commands :
       \/ \E kind \in Updates : BeginUpdate(c, kind)
       \/ \E id \in Ids :
            \/ \E outcome \in Outcomes, override \in Choices \cup {NoProfile} :
                 ImportSource(c, id, outcome, override)
            \/ \E profile \in Choices : UpdateHandling(c, id, profile)
            \/ \E result \in Results : ReportExtraction(c, id, result)
            \/ \E result \in Results : ReportProcessing(c, id, result)
            \/ RemoveSource(c, id)
       \/ Truncate(c) \/ Write(c) \/ WriteFails(c)
       \/ StampReplacement(c) \/ Replace(c)
       \/ BeginQuery(c) \/ AnswerFromCache(c) \/ Reload(c) \/ KeepAndAnswer(c)

Spec == Init /\ [][Next]_vars

-------------------------------------------------------------------------------
(* Properties.                                                             *)

(* Every entry of manifest, as a command would read it, satisfies Good. *)
EachLoaded(manifest, Good(_)) ==
  \A id \in Ids : manifest[id] # NoSource => Good(Loaded(manifest[id]))

(* Whatever overlapping commands wrote last, and whatever an earlier       *)
(* version left, a source is planned for OCR exactly when its route is OCR *)
(* (set_pdf_source_planned_status_for_profile, normalise_loaded_pdf_handling). *)
PlansMatchRoutes == EachLoaded(saved, PlanMatchesRoute)

(* Text that came from OCR is listed with a warning that says so, whichever *)
(* command reported it and in whichever version the OCR was planned        *)
(* (successful_pdf_review_reason, normalise_loaded_pdf_reason_codes).      *)
OcrTextIsFlagged == EachLoaded(saved, OcrIsFlagged)

(* The reasons listed belong to the status listed: a result replaces those *)
(* of the plan (update_project_source_extraction_results).                 *)
ReasonsExplainStatuses == EachLoaded(saved, ReasonsExplainStatus)

(* A query answers from its copy only when the file is as it was when the  *)
(* copy was read, so a copy a query kept under the metadata the file has   *)
(* now is what the file says (with_manifest).                              *)
KeptCopyIsCurrent ==
  cached.by = "query" /\ cached.stamp = stamp /\ file = "whole"
    => cached.manifest = LoadedManifest

(* A query is answered from a copy that some query read only when that     *)
(* copy bears the metadata seen at its beginning; together with            *)
(* KeptCopyIsCurrent it never returns what the file no longer said when    *)
(* the query began (with_manifest).                                        *)
AnswersAreNotOld ==
  [][\A c \in Commands :
       AnswerFromCache(c) /\ cached.by = "query" /\ CanLoad /\ command[c].seen = stamp
         => cached.manifest = LoadedManifest]_vars

===============================================================================
