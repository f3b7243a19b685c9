------------------------------ MODULE SourceStatus ------------------------------
(***************************************************************************)
(* One entry of a project's source inventory (project/sources.rs): what    *)
(* registering a file, choosing a PDF profile, and reporting the result of *)
(* an extraction or of processing make of it, and how an entry written by  *)
(* an earlier version of the program is read.  Time stamps, names and the  *)
(* OCR quality are left out; reason codes are kept as far as a decision or *)
(* a property depends on them, the others stand together as "warning",     *)
(* "failure" and "weak_text_layer".                                        *)
(***************************************************************************)

Kinds == {"pdf", "native", "unknown"}
Profiles == {"standard", "layout_heavy", "ocr_rescue", "force_ocr", "no_automatic_ocr"}
NoProfile == "none"
Routes == {"embedded_text", "ocr_if_needed", "force_ocr", "ocr_required", "native_text",
           "unsupported", "undecided"}
Statuses == {"ready_to_process", "needs_ocr", "text_extracted",
             "text_extracted_with_warnings", "processed", "processed_with_warnings", "failed"}
ReasonCodes == {"native_text_available", "force_ocr_planned", "weak_text_layer",
                "pdf_route_undecided", "ocr_generated", "ocr_review_recommended",
                "layout_heavy_profile", "ocr_planned", "ocr_required", "warning",
                "failure", "missing_file"}

Source == [kind : Kinds, status : Statuses, route : Routes,
           profile : Profiles \cup {NoProfile}, reasons : SUBSET ReasonCodes]

OcrProfiles == {"ocr_rescue", "force_ocr"}
MixedOcrRoutes == {"ocr_if_needed", "ocr_required"}
Succeeded == {"text_extracted", "text_extracted_with_warnings",
              "processed", "processed_with_warnings"}

RouteOf(profile) == IF profile \in OcrProfiles THEN "force_ocr" ELSE "embedded_text"

DefaultRoute(kind) ==
  CASE kind = "pdf"    -> "embedded_text"
    [] kind = "native" -> "native_text"
    [] OTHER           -> "unsupported"

WithStatus(s, status, reasons) == [s EXCEPT !.status = status, !.reasons = reasons]

-------------------------------------------------------------------------------
(* Reading an entry: mixed OCR handling of earlier versions becomes full OCR. *)

UsesMixedOcr(s) ==
  /\ s.kind = "pdf"
  /\ \/ s.profile = "ocr_rescue"
     \/ s.profile = NoProfile /\ s.route \in MixedOcrRoutes

CurrentCode(code) ==
  CASE code \in {"ocr_planned", "ocr_required"} -> "force_ocr_planned"
    [] code = "ocr_review_recommended"          -> "ocr_generated"
    [] OTHER                                    -> code

(* A force-OCR profile implies its route whatever route was written. *)
Loaded(s) ==
  LET codes == IF UsesMixedOcr(s) THEN {CurrentCode(code) : code \in s.reasons} ELSE s.reasons
  IN  IF UsesMixedOcr(s) \/ (s.kind = "pdf" /\ s.profile = "force_ocr")
      THEN [s EXCEPT !.profile = "force_ocr", !.route = "force_ocr", !.reasons = codes]
      ELSE s

-------------------------------------------------------------------------------
(* Registering a file. *)

Preflights == {"missing", "unreadable", "good", "weak", "undecided"}

(* Profile, route, status and reasons a PDF audit suggests. *)
Audited(s, outcome) ==
  CASE outcome = "good" ->
         [s EXCEPT !.profile = "standard", !.route = "embedded_text",
                   !.status = "ready_to_process", !.reasons = {"native_text_available"}]
    [] outcome = "weak" ->
         [s EXCEPT !.profile = "force_ocr", !.route = "force_ocr",
                   !.status = "needs_ocr", !.reasons = {"force_ocr_planned", "weak_text_layer"}]
    [] outcome = "undecided" ->
         [s EXCEPT !.profile = "standard", !.route = "undecided",
                   !.status = "ready_to_process", !.reasons = {"pdf_route_undecided"}]
    [] OTHER ->
         [s EXCEPT !.route = "undecided", !.status = "failed", !.reasons = {"failure"}]

Preflighted(kind, outcome) ==
  LET s == [kind |-> kind, status |-> "failed", route |-> DefaultRoute(kind),
            profile |-> NoProfile, reasons |-> {"failure"}]
  IN  CASE outcome = "missing" -> WithStatus(s, "failed", {"missing_file"})
        [] outcome # "missing" /\ kind = "unknown" -> s
        [] outcome # "missing" /\ kind = "pdf" -> Audited(s, outcome)
        [] outcome = "unreadable" /\ kind = "native" -> s
        [] OTHER -> WithStatus(s, "ready_to_process", {"native_text_available"})

(* The status a profile plans for a PDF that has no text yet. *)
Planned(s, profile) ==
  IF profile \in OcrProfiles
  THEN WithStatus(s, "needs_ocr", {"force_ocr_planned"})
  ELSE WithStatus(s, "ready_to_process", {"native_text_available"})

(* A profile that plans nothing: the status stays what it was. *)
HandledWithoutPlan(s, profile) ==
  IF s.kind # "pdf" THEN s
  ELSE [s EXCEPT !.profile = profile, !.route = RouteOf(profile)]

Handled(s, profile) ==
  IF s.kind # "pdf" THEN s
  ELSE Planned([s EXCEPT !.profile = profile, !.route = RouteOf(profile)], profile)

(* The review's choice for a file; failed files and other kinds keep what  *)
(* the preflight found.                                                    *)
Registered(kind, outcome, override) ==
  LET s == Preflighted(kind, outcome)
  IN  IF s.status = "failed" \/ override = NoProfile THEN s ELSE Handled(s, override)

-------------------------------------------------------------------------------
(* Results reported by the extraction and by the processing of a source.   *)

(* Why a successful result must still be reviewed. *)
ReviewReasons(s) ==
  CASE s.kind # "pdf"                 -> {}
    [] s.kind = "pdf" /\ s.profile = "layout_heavy" -> {"layout_heavy_profile"}
    [] s.kind = "pdf" /\ s.profile \in OcrProfiles  -> {"ocr_generated"}
    [] s.kind = "pdf" /\ s.profile = NoProfile /\ s.route \in {"ocr_required", "force_ocr"}
                                      -> {"ocr_review_recommended"}
    [] OTHER                          -> {}

(* Results: failed, or done with the concrete codes that survive filtering. *)
Results == {"failed", "clean", "warning"}

(* Keeping the reasons of the earlier status next to the new ones. *)
ReportedOnTop(s, result, done, doneWithWarnings) ==
  LET concrete == (IF result = "warning" THEN {"warning"} ELSE {})
                    \cup ReviewReasons(s) \cup s.reasons
  IN  IF result = "failed" THEN WithStatus(s, "failed", {"failure"})
      ELSE IF concrete # {} THEN WithStatus(s, doneWithWarnings, concrete)
      ELSE WithStatus(s, done, {})

Reported(s, result, done, doneWithWarnings) ==
  LET concrete == (IF result = "warning" THEN {"warning"} ELSE {}) \cup ReviewReasons(s)
  IN  IF result = "failed" THEN WithStatus(s, "failed", {"failure"})
      ELSE IF concrete # {} THEN WithStatus(s, doneWithWarnings, concrete)
      ELSE WithStatus(s, done, {})

Extracted(s, result) ==
  Reported(s, result, "text_extracted", "text_extracted_with_warnings")
Processed(s, result) ==
  Reported(s, result, "processed", "processed_with_warnings")

-------------------------------------------------------------------------------
(* What makes an entry coherent once it has been read. *)

(* The plan shown is the route that will run: OCR is planned exactly for   *)
(* PDFs routed to it, and a profile and a decided route agree.             *)
PlanMatchesRoute(s) ==
  /\ s.status = "needs_ocr" =>
       s.kind = "pdf" /\ s.route = "force_ocr" /\ "force_ocr_planned" \in s.reasons
  /\ s.status = "ready_to_process" => s.route \in {"embedded_text", "native_text", "undecided"}
  /\ s.kind = "pdf" /\ s.profile # NoProfile =>
       \/ s.route = RouteOf(s.profile)
       \/ s.route = "undecided" /\ s.profile = "standard"
  /\ s.kind = "pdf" /\ s.route = "force_ocr" => s.profile \in OcrProfiles

(* Text that came from OCR is never reported as clean. *)
OcrIsFlagged(s) ==
  s.kind = "pdf" /\ s.route = "force_ocr" /\ s.status \in Succeeded =>
    /\ s.status \in {"text_extracted_with_warnings", "processed_with_warnings"}
    /\ "ocr_generated" \in s.reasons

(* The reasons explain the status: none for a clean result, some for a     *)
(* warning or failure, and none left over from a plan once text exists.    *)
ReasonsExplainStatus(s) ==
  /\ s.status \in {"text_extracted", "processed"} => s.reasons = {}
  /\ s.status \in {"text_extracted_with_warnings", "processed_with_warnings", "failed"}
       => s.reasons # {}
  /\ s.status \in Succeeded \cup {"failed"} =>
       s.reasons \cap {"force_ocr_planned", "native_text_available", "pdf_route_undecided"} = {}

================================================================================
