------------------------- MODULE SourceInventoryProofs -------------------------
(***************************************************************************)
(* Whatever commands overlap on the inventory of a project, for any files, *)
(* profiles and number of commands, every entry that is read back is       *)
(* coherent, and no query takes the copy it keeps for a later file.        *)
(***************************************************************************)
EXTENDS SourceInventory, TLAPS

(* An entry in current form: coherent, no mixed OCR handling and none of   *)
(* its codes left.                                                         *)
Sound(s) ==
  /\ s \in Source
  /\ PlanMatchesRoute(s) /\ OcrIsFlagged(s) /\ ReasonsExplainStatus(s)
  /\ ~ (s.kind = "pdf" /\ s.profile = NoProfile /\ s.route \in MixedOcrRoutes)
  /\ s.reasons \cap {"ocr_planned", "ocr_required"} = {}

-------------------------------------------------------------------------------
(* Records.                                                                *)

LEMMA WithStatusFields ==
  ASSUME NEW s \in Source, NEW status \in Statuses, NEW reasons \in SUBSET ReasonCodes
  PROVE  LET t == WithStatus(s, status, reasons)
         IN  /\ t \in Source
             /\ t.kind = s.kind /\ t.route = s.route /\ t.profile = s.profile
             /\ t.status = status /\ t.reasons = reasons
  BY DEF WithStatus, Source

LEMMA SameRoute ==
  ASSUME NEW s \in Source, s.profile = "force_ocr", s.route = "force_ocr"
  PROVE  [s EXCEPT !.profile = "force_ocr", !.route = "force_ocr", !.reasons = s.reasons] = s
  BY DEF Source

-------------------------------------------------------------------------------
(* Each operation on one entry keeps it sound and of its kind.             *)

LEMMA LoadedKeepsSound ==
  ASSUME NEW s, Sound(s)
  PROVE  Sound(Loaded(s)) /\ Loaded(s).kind = s.kind
<1> DEFINE codes == {CurrentCode(code) : code \in s.reasons}
           t == [s EXCEPT !.profile = "force_ocr", !.route = "force_ocr", !.reasons = codes]
<1>1. s \in Source /\ s.reasons \in SUBSET ReasonCodes
  BY DEF Sound, Source
<1>2. codes \in SUBSET ReasonCodes
  BY <1>1 DEF CurrentCode, ReasonCodes
<1>3. codes \cap {"ocr_planned", "ocr_required"} = {}
  BY <1>1 DEF CurrentCode, ReasonCodes
<1>4. /\ "ocr_generated" \in s.reasons => "ocr_generated" \in codes
      /\ "force_ocr_planned" \in s.reasons => "force_ocr_planned" \in codes
      /\ s.reasons # {} => codes # {}
      /\ s.reasons = {} => codes = {}
  BY <1>1 DEF CurrentCode, ReasonCodes
<1>5. s.reasons \cap {"force_ocr_planned", "native_text_available", "pdf_route_undecided"} = {}
        => codes \cap {"force_ocr_planned", "native_text_available", "pdf_route_undecided"} = {}
  BY <1>1 DEF CurrentCode, ReasonCodes, Sound
<1>6. CASE UsesMixedOcr(s)
  <2>1. Loaded(s) = t
    BY <1>6 DEF Loaded
  <2>2. /\ t \in Source /\ t.kind = s.kind /\ t.status = s.status /\ t.reasons = codes
        /\ t.profile = "force_ocr" /\ t.route = "force_ocr"
    <3> HIDE DEF codes
    <3> QED
      BY <1>1, <1>2 DEF Source, Profiles, Routes
  <2>3. s.kind = "pdf" /\ s.profile = "ocr_rescue"
    BY <1>6 DEF UsesMixedOcr, Sound
  <2>4. s.route = "force_ocr"
    BY <2>3 DEF Sound, PlanMatchesRoute, RouteOf, OcrProfiles, NoProfile
  <2> HIDE DEF codes, t
  <2>5. PlanMatchesRoute(t)
    BY <1>4, <2>2, <2>3, <2>4 DEF Sound, PlanMatchesRoute, RouteOf, OcrProfiles
  <2>6. OcrIsFlagged(t)
    BY <1>4, <2>2, <2>3, <2>4 DEF Sound, OcrIsFlagged
  <2>7. ReasonsExplainStatus(t)
    BY <1>4, <1>5, <2>2 DEF Sound, ReasonsExplainStatus
  <2> QED
    BY <1>3, <2>1, <2>2, <2>5, <2>6, <2>7 DEF Sound, NoProfile
<1>7. CASE ~ UsesMixedOcr(s)
  <2>1. s.kind = "pdf" /\ s.profile = "force_ocr" => s.route = "force_ocr"
    BY DEF Sound, PlanMatchesRoute, RouteOf, OcrProfiles, NoProfile
  <2>2. Loaded(s) = s
    BY <1>1, <1>7, <2>1, SameRoute DEF Loaded
  <2> QED
    BY <2>2
<1> QED
  BY <1>6, <1>7

LEMMA HandledIsSound ==
  ASSUME NEW s, Sound(s), NEW profile \in Profiles
  PROVE  Sound(Handled(s, profile)) /\ Handled(s, profile).kind = s.kind
<1> DEFINE r == [s EXCEPT !.profile = profile, !.route = RouteOf(profile)]
           t == Planned(r, profile)
<1>1. s \in Source /\ RouteOf(profile) \in Routes
  BY DEF Sound, RouteOf, Routes
<1>2. /\ r \in Source /\ r.kind = s.kind /\ r.profile = profile /\ r.route = RouteOf(profile)
  BY <1>1 DEF Source
<1> HIDE DEF r
<1>3. CASE s.kind # "pdf"
  BY <1>3 DEF Handled
<1>4. CASE s.kind = "pdf" /\ profile \in OcrProfiles
  <2>1. t = WithStatus(r, "needs_ocr", {"force_ocr_planned"})
    BY <1>4 DEF Planned
  <2>2. /\ t \in Source /\ t.kind = "pdf" /\ t.profile = profile /\ t.route = "force_ocr"
        /\ t.status = "needs_ocr" /\ t.reasons = {"force_ocr_planned"}
    BY <1>2, <1>4, <2>1, WithStatusFields DEF Statuses, ReasonCodes, RouteOf
  <2> HIDE DEF t
  <2>3. Sound(t)
    BY <1>4, <2>2 DEF Sound, PlanMatchesRoute, OcrIsFlagged, ReasonsExplainStatus, RouteOf,
       OcrProfiles, MixedOcrRoutes, Succeeded, NoProfile
  <2> QED
    BY <1>4, <2>2, <2>3 DEF Handled, t, r
<1>5. CASE s.kind = "pdf" /\ profile \notin OcrProfiles
  <2>1. t = WithStatus(r, "ready_to_process", {"native_text_available"})
    BY <1>5 DEF Planned
  <2>2. /\ t \in Source /\ t.kind = "pdf" /\ t.profile = profile /\ t.route = "embedded_text"
        /\ t.status = "ready_to_process" /\ t.reasons = {"native_text_available"}
    BY <1>2, <1>5, <2>1, WithStatusFields DEF Statuses, ReasonCodes, RouteOf
  <2> HIDE DEF t
  <2>3. Sound(t)
    BY <1>5, <2>2 DEF Sound, PlanMatchesRoute, OcrIsFlagged, ReasonsExplainStatus, RouteOf,
       OcrProfiles, MixedOcrRoutes, Succeeded, NoProfile
  <2> QED
    BY <1>5, <2>2, <2>3 DEF Handled, t, r
<1> QED
  BY <1>3, <1>4, <1>5

LEMMA PreflightedIsSound ==
  ASSUME NEW kind \in Kinds, NEW outcome \in Preflights
  PROVE  Sound(Preflighted(kind, outcome)) /\ Preflighted(kind, outcome).kind = kind
<1> DEFINE t == Preflighted(kind, outcome)
<1>1. CASE outcome = "missing"
  BY <1>1 DEF Sound, Preflighted, DefaultRoute, WithStatus, Source, Kinds, MixedOcrRoutes,
     Profiles, NoProfile, Routes, Statuses, ReasonCodes, Succeeded,
     PlanMatchesRoute, OcrIsFlagged, ReasonsExplainStatus
<1>2. CASE outcome # "missing" /\ kind # "pdf"
  BY <1>2 DEF Sound, Preflighted, DefaultRoute, WithStatus, Source, Kinds, MixedOcrRoutes,
     Profiles, NoProfile, Routes, Statuses, ReasonCodes, Succeeded,
     PlanMatchesRoute, OcrIsFlagged, ReasonsExplainStatus
<1>3. CASE outcome # "missing" /\ kind = "pdf"
  <2> DEFINE s == [kind |-> kind, status |-> "failed", route |-> DefaultRoute(kind),
                   profile |-> NoProfile, reasons |-> {"failure"}]
  <2>1. t = Audited(s, outcome)
    BY <1>3 DEF Preflighted
  <2>0. s \in Source /\ s.kind = kind /\ s.profile = NoProfile
    BY <1>3 DEF Source, Kinds, Statuses, DefaultRoute, Routes, NoProfile, ReasonCodes
  <2> HIDE DEF s, t
  <2>2. CASE outcome = "good"
    <3>1. t = [s EXCEPT !.profile = "standard", !.route = "embedded_text",
                        !.status = "ready_to_process", !.reasons = {"native_text_available"}]
      BY <2>1, <2>2 DEF Audited
    <3>2. /\ t \in Source /\ t.kind = "pdf" /\ t.profile = "standard" /\ t.route = "embedded_text"
          /\ t.status = "ready_to_process" /\ t.reasons = {"native_text_available"}
      BY <1>3, <2>0, <3>1
         DEF Source, Kinds, Profiles, NoProfile, Routes, Statuses, ReasonCodes
    <3>3. Sound(t)
      BY <3>2 DEF Sound, MixedOcrRoutes, RouteOf, OcrProfiles, NoProfile, Succeeded,
         PlanMatchesRoute, OcrIsFlagged, ReasonsExplainStatus
    <3> QED
      BY <1>3, <3>2, <3>3 DEF t
  <2>3. CASE outcome = "weak"
    <3>1. t = [s EXCEPT !.profile = "force_ocr", !.route = "force_ocr",
                        !.status = "needs_ocr", !.reasons = {"force_ocr_planned", "weak_text_layer"}]
      BY <2>1, <2>3 DEF Audited
    <3>2. /\ t \in Source /\ t.kind = "pdf" /\ t.profile = "force_ocr" /\ t.route = "force_ocr"
          /\ t.status = "needs_ocr" /\ t.reasons = {"force_ocr_planned", "weak_text_layer"}
      BY <1>3, <2>0, <3>1
         DEF Source, Kinds, Profiles, NoProfile, Routes, Statuses, ReasonCodes
    <3>3. Sound(t)
      BY <3>2 DEF Sound, MixedOcrRoutes, RouteOf, OcrProfiles, NoProfile, Succeeded,
         PlanMatchesRoute, OcrIsFlagged, ReasonsExplainStatus
    <3> QED
      BY <1>3, <3>2, <3>3 DEF t
  <2>4. CASE outcome = "undecided"
    <3>1. t = [s EXCEPT !.profile = "standard", !.route = "undecided",
                        !.status = "ready_to_process", !.reasons = {"pdf_route_undecided"}]
      BY <2>1, <2>4 DEF Audited
    <3>2. /\ t \in Source /\ t.kind = "pdf" /\ t.profile = "standard" /\ t.route = "undecided"
          /\ t.status = "ready_to_process" /\ t.reasons = {"pdf_route_undecided"}
      BY <1>3, <2>0, <3>1
         DEF Source, Kinds, Profiles, NoProfile, Routes, Statuses, ReasonCodes
    <3>3. Sound(t)
      BY <3>2 DEF Sound, MixedOcrRoutes, RouteOf, OcrProfiles, NoProfile, Succeeded,
         PlanMatchesRoute, OcrIsFlagged, ReasonsExplainStatus
    <3> QED
      BY <1>3, <3>2, <3>3 DEF t
  <2>5. CASE outcome = "unreadable"
    <3>1. t = [s EXCEPT !.route = "undecided",
                        !.status = "failed", !.reasons = {"failure"}]
      BY <2>1, <2>5 DEF Audited
    <3>2. /\ t \in Source /\ t.kind = "pdf" /\ t.profile = NoProfile /\ t.route = "undecided"
          /\ t.status = "failed" /\ t.reasons = {"failure"}
      BY <1>3, <2>0, <3>1
         DEF Source, Kinds, Profiles, NoProfile, Routes, Statuses, ReasonCodes
    <3>3. Sound(t)
      BY <3>2 DEF Sound, MixedOcrRoutes, RouteOf, OcrProfiles, NoProfile, Succeeded,
         PlanMatchesRoute, OcrIsFlagged, ReasonsExplainStatus
    <3> QED
      BY <1>3, <3>2, <3>3 DEF t
  <2> QED
    BY <1>3, <2>2, <2>3, <2>4, <2>5 DEF Preflights
<1> QED
  BY <1>1, <1>2, <1>3

LEMMA RegisteredIsSound ==
  ASSUME NEW kind \in Kinds, NEW outcome \in Preflights, NEW override \in Profiles \cup {NoProfile}
  PROVE  Sound(Registered(kind, outcome, override)) /\ Registered(kind, outcome, override).kind = kind
  BY PreflightedIsSound, HandledIsSound DEF Registered

LEMMA ReportedIsSound ==
  ASSUME NEW s, Sound(s), NEW result \in Results, NEW done, NEW doneWithWarnings,
         \/ done = "text_extracted" /\ doneWithWarnings = "text_extracted_with_warnings"
         \/ done = "processed" /\ doneWithWarnings = "processed_with_warnings"
  PROVE  Sound(Reported(s, result, done, doneWithWarnings))
         /\ Reported(s, result, done, doneWithWarnings).kind = s.kind
<1> DEFINE t == Reported(s, result, done, doneWithWarnings)
           concrete == (IF result = "warning" THEN {"warning"} ELSE {}) \cup ReviewReasons(s)
<1>1. s \in Source /\ done \in Statuses /\ doneWithWarnings \in Statuses
  BY DEF Sound, Statuses
<1>2. ReviewReasons(s) \in SUBSET {"layout_heavy_profile", "ocr_generated", "ocr_review_recommended"}
  BY DEF ReviewReasons
<1>3. s.kind = "pdf" /\ s.route = "force_ocr" => "ocr_generated" \in ReviewReasons(s)
  BY DEF Sound, PlanMatchesRoute, ReviewReasons, OcrProfiles, NoProfile
<1>4. concrete \in SUBSET {"warning", "layout_heavy_profile", "ocr_generated", "ocr_review_recommended"}
  BY <1>2
<1>5. concrete \in SUBSET ReasonCodes
  BY <1>4 DEF ReasonCodes
<1>6. t = IF result = "failed" THEN WithStatus(s, "failed", {"failure"})
          ELSE IF concrete # {} THEN WithStatus(s, doneWithWarnings, concrete)
          ELSE WithStatus(s, done, {})
  BY DEF Reported
<1>7. s.kind = "pdf" /\ s.route = "force_ocr" => "ocr_generated" \in concrete
  BY <1>3
<1> HIDE DEF t, concrete
<1>8. CASE result = "failed"
  <2>1. /\ t \in Source /\ t.kind = s.kind /\ t.route = s.route /\ t.profile = s.profile
        /\ t.status = "failed" /\ t.reasons = {"failure"}
    BY <1>1, <1>6, <1>8, WithStatusFields DEF Statuses, ReasonCodes
  <2>2. Sound(t)
    BY <2>1 DEF Sound, PlanMatchesRoute, OcrIsFlagged, ReasonsExplainStatus, Succeeded
  <2> QED
    BY <2>1, <2>2 DEF t
<1>9. CASE result # "failed" /\ concrete # {}
  <2>1. /\ t \in Source /\ t.kind = s.kind /\ t.route = s.route /\ t.profile = s.profile
        /\ t.status = doneWithWarnings /\ t.reasons = concrete
    BY <1>1, <1>5, <1>6, <1>9, WithStatusFields
  <2>2. Sound(t)
    BY <1>4, <1>7, <1>9, <2>1
       DEF Sound, PlanMatchesRoute, OcrIsFlagged, ReasonsExplainStatus, Succeeded
  <2> QED
    BY <2>1, <2>2 DEF t
<1>10. CASE result # "failed" /\ concrete = {}
  <2>1. /\ t \in Source /\ t.kind = s.kind /\ t.route = s.route /\ t.profile = s.profile
        /\ t.status = done /\ t.reasons = {}
    BY <1>1, <1>6, <1>10, WithStatusFields
  <2>2. Sound(t)
    BY <1>7, <1>10, <2>1
       DEF Sound, PlanMatchesRoute, OcrIsFlagged, ReasonsExplainStatus, Succeeded
  <2> QED
    BY <2>1, <2>2 DEF t
<1> QED
  BY <1>8, <1>9, <1>10

LEMMA LegacyIsSoundOnceLoaded ==
  ASSUME NEW s \in LegacySources
  PROVE  s \in Source /\ Sound(Loaded(s)) /\ Loaded(s).kind = s.kind
<1>1. /\ s.kind = "pdf" /\ s.profile = NoProfile /\ s.route = "ocr_required"
      /\ \/ s.status = "needs_ocr" /\ s.reasons = {"ocr_required"}
         \/ s.status = "text_extracted_with_warnings" /\ s.reasons = {"ocr_review_recommended"}
  BY DEF LegacySources
<1>2. s \in Source
  BY DEF LegacySources, Source, Kinds, Statuses, Routes, NoProfile, ReasonCodes
<1>3. PICK codes : codes = {CurrentCode(code) : code \in s.reasons}
  OBVIOUS
<1>4. Loaded(s) = [s EXCEPT !.profile = "force_ocr", !.route = "force_ocr", !.reasons = codes]
  BY <1>1, <1>3 DEF Loaded, UsesMixedOcr, MixedOcrRoutes
<1>5. \/ s.status = "needs_ocr" /\ codes = {"force_ocr_planned"}
      \/ s.status = "text_extracted_with_warnings" /\ codes = {"ocr_generated"}
  BY <1>1, <1>3 DEF CurrentCode
<1>6. PICK t : t = Loaded(s)
  OBVIOUS
<1>7. /\ t \in Source /\ t.kind = "pdf" /\ t.status = s.status /\ t.reasons = codes
      /\ t.profile = "force_ocr" /\ t.route = "force_ocr"
  BY <1>1, <1>2, <1>4, <1>5, <1>6 DEF Source, Profiles, Routes, ReasonCodes
<1>8. Sound(t)
  BY <1>5, <1>7 DEF Sound, PlanMatchesRoute, OcrIsFlagged, ReasonsExplainStatus, RouteOf,
     OcrProfiles, MixedOcrRoutes, Succeeded, NoProfile
<1> QED
  BY <1>1, <1>2, <1>6, <1>7, <1>8

-------------------------------------------------------------------------------
(* Types: copies are complete lists of entries of the right kind.          *)

HasCopy(c) == command[c].stage \in {"loaded", "truncated", "written", "read"}
              \/ (command[c].stage = "stamped" /\ command[c].kind # "query")

CopiesAreManifests ==
  \A c \in Commands : HasCopy(c) => command[c].copy \in Manifests

EntriesAreSound ==
  /\ \A id \in Ids : saved[id] # NoSource =>
       Sound(Loaded(saved[id])) /\ Loaded(saved[id]).kind = KindOf[id]
  /\ \A c \in Commands : HasCopy(c) => \A id \in Ids : command[c].copy[id] # NoSource =>
       Sound(command[c].copy[id]) /\ command[c].copy[id].kind = KindOf[id]

IInv == TypeOK /\ CopiesAreManifests /\ EntriesAreSound

LEMMA LoadedManifestIsSound ==
  ASSUME IInv
  PROVE  /\ LoadedManifest \in Manifests
         /\ \A id \in Ids : LoadedManifest[id] # NoSource =>
              Sound(LoadedManifest[id]) /\ LoadedManifest[id].kind = KindOf[id]
<1>1. \A id \in Ids : saved[id] # NoSource => Sound(Loaded(saved[id])) /\ Loaded(saved[id]).kind = KindOf[id]
  BY DEF IInv, EntriesAreSound
<1>2. \A id \in Ids : LoadedManifest[id] \in Source \cup {NoSource}
  BY <1>1 DEF LoadedManifest, Sound
<1>3. LoadedManifest \in Manifests
  BY <1>2 DEF LoadedManifest, Manifests
<1> QED
  BY <1>1, <1>3 DEF LoadedManifest

LEMMA InitIInv == Init => IInv
<1> SUFFICES ASSUME Init PROVE IInv
  OBVIOUS
<1>1. saved \in Manifests
  BY LegacyIsSoundOnceLoaded DEF Init, Manifests
<1>2. \A id \in Ids : saved[id] # NoSource =>
        Sound(Loaded(saved[id])) /\ Loaded(saved[id]).kind = KindOf[id]
  <2> TAKE id \in Ids
  <2> HAVE saved[id] # NoSource
  <2>1. saved[id] \in LegacySources /\ saved[id].kind = KindOf[id]
    BY DEF Init, OfItsKind
  <2> QED
    BY <2>1, LegacyIsSoundOnceLoaded
<1>3. \A c \in Commands : command[c] = Idle /\ ~ HasCopy(c)
  BY DEF Init, Idle, HasCopy
<1>4. TypeOK
  BY <1>1 DEF Init, TypeOK, Idle, Uncached, Command, Updates, Stages
<1> QED
  BY <1>2, <1>3, <1>4 DEF IInv, CopiesAreManifests, EntriesAreSound

-------------------------------------------------------------------------------
(* Steps.                                                                  *)

(* What a command's copy becomes is sound when the changed entry is. *)
LEMMA ChangeKeepsIInv ==
  ASSUME IInv, NEW c \in Commands, NEW kind, NEW id \in Ids, NEW s, Change(c, kind, id, s),
         s = NoSource \/ (Sound(s) /\ s.kind = KindOf[id])
  PROVE  IInv'
<1> USE DEF IInv
<1>1. command' = [command EXCEPT ![c] = [command[c] EXCEPT !.copy = [command[c].copy EXCEPT ![id] = s]]]
  BY DEF Change
<1>2. saved' = saved /\ file' = file /\ stamp' = stamp /\ cached' = cached
  BY DEF Change
<1>3. command[c].stage = "loaded" /\ command[c].copy \in Manifests
  BY DEF Change, CopiesAreManifests, HasCopy
<1>4. s \in Source \cup {NoSource}
  BY DEF Sound
<1> DEFINE copy == [command[c].copy EXCEPT ![id] = s]
<1>5. copy \in Manifests
  BY <1>3, <1>4 DEF Manifests
<1>6. \A i \in Ids : copy[i] = IF i = id THEN s ELSE command[c].copy[i]
  BY <1>3 DEF Manifests
<1> HIDE DEF copy
<1>7. command \in [Commands -> Command]
  BY DEF TypeOK
<1>8. command'[c] = [command[c] EXCEPT !.copy = copy] /\ \A d \in Commands \ {c} : command'[d] = command[d]
  BY <1>1, <1>7 DEF copy
<1>9. command'[c] \in Command /\ command'[c].copy = copy /\ command'[c].stage = "loaded"
      /\ command'[c].kind = command[c].kind
  BY <1>3, <1>5, <1>7, <1>8 DEF Command
<1>10. command' \in [Commands -> Command]
  BY <1>1, <1>7, <1>8, <1>9
<1>11. TypeOK'
  BY <1>2, <1>10 DEF TypeOK, OfItsKind
<1>12. CopiesAreManifests'
  BY <1>5, <1>8, <1>9 DEF CopiesAreManifests, HasCopy
<1>13. EntriesAreSound'
  <2>1. \A i \in Ids : copy[i] # NoSource => Sound(copy[i]) /\ copy[i].kind = KindOf[i]
    BY <1>3, <1>6 DEF EntriesAreSound, HasCopy
  <2>2. \A d \in Commands : HasCopy(d)' => \A i \in Ids : command'[d].copy[i] # NoSource =>
          Sound(command'[d].copy[i]) /\ command'[d].copy[i].kind = KindOf[i]
    <3> SUFFICES ASSUME NEW d \in Commands, HasCopy(d)', NEW i \in Ids, command'[d].copy[i] # NoSource
                 PROVE  Sound(command'[d].copy[i]) /\ command'[d].copy[i].kind = KindOf[i]
      OBVIOUS
    <3>1. CASE d = c
      BY <1>9, <2>1, <3>1
    <3>2. CASE d # c
      <4>1. command'[d] = command[d]
        BY <1>8, <3>2
      <4>2. HasCopy(d)
        BY <4>1 DEF HasCopy
      <4> QED
        BY <4>1, <4>2 DEF EntriesAreSound
    <3> QED
      BY <3>1, <3>2
  <2> QED
    BY <1>2, <2>2 DEF EntriesAreSound
<1> QED
  BY <1>11, <1>12, <1>13

(* A step that keeps the entries and replaces command[c] by t. *)
LEMMA CommandStepKeepsIInv ==
  ASSUME IInv, NEW c \in Commands, NEW t \in Command,
         command' = [command EXCEPT ![c] = t], UNCHANGED <<saved, file>>,
         stamp' \in Nat,
         cached' \in [manifest : Manifests \cup {NoCopy}, stamp : Nat, by : {"nobody", "query", "update"}],
         HasCopy(c)' => /\ t.copy \in Manifests
                        /\ \A id \in Ids : t.copy[id] # NoSource =>
                             Sound(t.copy[id]) /\ t.copy[id].kind = KindOf[id]
  PROVE  IInv'
<1> USE DEF IInv
<1>1. command \in [Commands -> Command]
  BY DEF TypeOK
<1>2. command'[c] = t /\ \A d \in Commands \ {c} : command'[d] = command[d]
  BY <1>1
<1>3. command' \in [Commands -> Command]
  BY <1>1
<1>4. TypeOK'
  BY <1>3 DEF TypeOK, OfItsKind
<1>5. CopiesAreManifests'
  BY <1>2 DEF CopiesAreManifests, HasCopy
<1>6. \A d \in Commands : HasCopy(d)' => \A i \in Ids : command'[d].copy[i] # NoSource =>
          Sound(command'[d].copy[i]) /\ command'[d].copy[i].kind = KindOf[i]
  BY <1>2 DEF EntriesAreSound, HasCopy
<1>7. EntriesAreSound'
  BY <1>6 DEF EntriesAreSound
<1> QED
  BY <1>4, <1>5, <1>7

LEMMA NextIInv == IInv /\ [Next]_vars => IInv'
<1> SUFFICES ASSUME IInv, [Next]_vars PROVE IInv'
  OBVIOUS
<1> USE DEF IInv
<1>1. /\ command \in [Commands -> Command] /\ saved \in Manifests /\ stamp \in Nat
      /\ cached \in [manifest : Manifests \cup {NoCopy}, stamp : Nat, by : {"nobody", "query", "update"}]
  BY DEF TypeOK
<1>2. Idle \in Command /\ Uncached \in [manifest : Manifests \cup {NoCopy}, stamp : Nat,
                                       by : {"nobody", "query", "update"}]
  BY DEF Idle, Uncached, Command, Updates, Stages
<1>3. \A c \in Commands : HasCopy(c) =>
        /\ command[c].copy \in Manifests
        /\ \A id \in Ids : command[c].copy[id] # NoSource =>
             Sound(command[c].copy[id]) /\ command[c].copy[id].kind = KindOf[id]
  BY DEF CopiesAreManifests, EntriesAreSound
<1>4. ASSUME NEW c \in Commands, NEW kind \in Updates, BeginUpdate(c, kind)
      PROVE  IInv'
  <2> DEFINE t == [kind |-> kind, stage |-> "loaded", copy |-> LoadedManifest, seen |-> 0]
  <2>1. t \in Command
    BY <1>4, LoadedManifestIsSound DEF Command, Stages
  <2> QED
    BY <1>1, <1>4, <2>1, LoadedManifestIsSound, CommandStepKeepsIInv DEF BeginUpdate
<1>5. ASSUME NEW c \in Commands, NEW id \in Ids, NEW outcome \in Outcomes,
             NEW override \in Choices \cup {NoProfile}, ImportSource(c, id, outcome, override)
      PROVE  IInv'
  <2> DEFINE s == command[c].copy[id]
             r == IF s = NoSource THEN Registered(KindOf[id], outcome, override) ELSE s
  <2>1. PICK kind \in Updates : Change(c, kind, id, r)
    BY <1>5 DEF ImportSource, Updates
  <2>2. HasCopy(c)
    BY <2>1 DEF Change, HasCopy
  <2>3. KindOf[id] \in Kinds /\ outcome \in Preflights /\ override \in Profiles \cup {NoProfile}
    BY KindOfAssumption, InputsAssumption
  <2>4. r = NoSource \/ (Sound(r) /\ r.kind = KindOf[id])
    BY <1>3, <2>2, <2>3, RegisteredIsSound
  <2> HIDE DEF r
  <2> QED
    BY <2>1, <2>4, ChangeKeepsIInv
<1>6. ASSUME NEW c \in Commands, NEW id \in Ids, NEW profile \in Choices, UpdateHandling(c, id, profile)
      PROVE  IInv'
  <2> DEFINE s == command[c].copy[id]
             r == IF s = NoSource THEN s ELSE Handled(s, profile)
  <2>1. Change(c, "handling", id, r)
    BY <1>6 DEF UpdateHandling
  <2>2. HasCopy(c) /\ profile \in Profiles
    BY <2>1, InputsAssumption DEF Change, HasCopy
  <2>3. r = NoSource \/ (Sound(r) /\ r.kind = KindOf[id])
    BY <1>3, <2>2, HandledIsSound
  <2> HIDE DEF r
  <2> QED
    BY <2>1, <2>3, ChangeKeepsIInv
<1>7. ASSUME NEW c \in Commands, NEW id \in Ids, NEW result \in Results, ReportExtraction(c, id, result)
      PROVE  IInv'
  <2> DEFINE s == command[c].copy[id]
             r == IF s = NoSource THEN s ELSE Extracted(s, result)
  <2>1. Change(c, "extraction", id, r)
    BY <1>7 DEF ReportExtraction
  <2>2. HasCopy(c)
    BY <2>1 DEF Change, HasCopy
  <2>3. r = NoSource \/ (Sound(r) /\ r.kind = KindOf[id])
    BY <1>3, <2>2, ReportedIsSound DEF Extracted
  <2> HIDE DEF r
  <2> QED
    BY <2>1, <2>3, ChangeKeepsIInv
<1>8. ASSUME NEW c \in Commands, NEW id \in Ids, NEW result \in Results, ReportProcessing(c, id, result)
      PROVE  IInv'
  <2> DEFINE s == command[c].copy[id]
             r == IF s = NoSource THEN s ELSE Processed(s, result)
  <2>1. Change(c, "processing", id, r)
    BY <1>8 DEF ReportProcessing
  <2>2. HasCopy(c)
    BY <2>1 DEF Change, HasCopy
  <2>3. r = NoSource \/ (Sound(r) /\ r.kind = KindOf[id])
    BY <1>3, <2>2, ReportedIsSound DEF Processed
  <2> HIDE DEF r
  <2> QED
    BY <2>1, <2>3, ChangeKeepsIInv
<1>9. ASSUME NEW c \in Commands, NEW id \in Ids, RemoveSource(c, id)
      PROVE  IInv'
  BY <1>9, ChangeKeepsIInv DEF RemoveSource
<1>10. ASSUME NEW c \in Commands, Truncate(c)
       PROVE  IInv'
  <2>1. HasCopy(c) /\ file' = "empty" /\ stamp' = stamp + 1 /\ saved' = saved /\ cached' = cached
    BY <1>10 DEF Truncate, HasCopy
  <2>2. command' = [command EXCEPT ![c] = [command[c] EXCEPT !.stage = "truncated"]]
    BY <1>10 DEF Truncate
  <2>3. /\ command' \in [Commands -> Command]
        /\ \A d \in Commands : command'[d].copy = command[d].copy /\ (HasCopy(d)' => HasCopy(d))
    BY <1>1, <2>1, <2>2 DEF Command, Stages, HasCopy
  <2> QED
    BY <1>1, <1>3, <2>1, <2>3 DEF TypeOK, OfItsKind, CopiesAreManifests, EntriesAreSound
<1>11. ASSUME NEW c \in Commands, Write(c)
       PROVE  IInv'
  <2>1. /\ HasCopy(c) /\ file' \in {"whole", "garbled"} /\ stamp' = stamp + 1 /\ cached' = cached
        /\ saved' = command[c].copy
    BY <1>11 DEF Write, HasCopy, Filled
  <2>2. command' = [command EXCEPT ![c] =
          IF command[c].kind \in {"fast_import", "remove"}
          THEN [command[c] EXCEPT !.stage = "written"] ELSE Idle]
    BY <1>11 DEF Write
  <2>3. /\ command' \in [Commands -> Command]
        /\ \A d \in Commands : HasCopy(d)' => HasCopy(d) /\ command'[d].copy = command[d].copy
    BY <1>1, <1>2, <2>1, <2>2 DEF Command, Stages, HasCopy, Idle
  <2>4. saved' \in Manifests /\ OfItsKind(saved')
    BY <1>3, <2>1 DEF OfItsKind
  <2>5. \A id \in Ids : saved'[id] # NoSource =>
          Sound(Loaded(saved'[id])) /\ Loaded(saved'[id]).kind = KindOf[id]
    BY <1>3, <2>1, LoadedKeepsSound
  <2> QED
    BY <1>1, <1>3, <2>1, <2>3, <2>4, <2>5 DEF TypeOK, CopiesAreManifests, EntriesAreSound
<1>12. ASSUME NEW c \in Commands,
              WriteFails(c) \/ Replace(c) \/ AnswerFromCache(c) \/ KeepAndAnswer(c)
       PROVE  IInv'
  <2>1. command' = [command EXCEPT ![c] = Idle] /\ UNCHANGED <<saved, file>> /\ stamp' = stamp
    BY <1>12 DEF WriteFails, Replace, AnswerFromCache, KeepAndAnswer
  <2>2. \/ cached' = cached
        \/ /\ HasCopy(c)
           /\ \E by \in {"query", "update"} :
                cached' = [manifest |-> command[c].copy, stamp |-> command[c].seen, by |-> by]
    BY <1>12 DEF WriteFails, Replace, AnswerFromCache, KeepAndAnswer, HasCopy
  <2>3. command[c].seen \in Nat
    BY <1>1 DEF Command
  <2>4. cached' \in [manifest : Manifests \cup {NoCopy}, stamp : Nat, by : {"nobody", "query", "update"}]
    BY <1>1, <1>3, <2>2, <2>3
  <2>5. ~ HasCopy(c)'
    BY <1>1, <2>1 DEF HasCopy, Idle
  <2> QED
    BY <1>1, <1>2, <2>1, <2>4, <2>5, CommandStepKeepsIInv
<1>13. ASSUME NEW c \in Commands, StampReplacement(c) \/ BeginQuery(c)
       PROVE  IInv'
  <2>1. PICK t \in Command :
          /\ command' = [command EXCEPT ![c] = t]
          /\ t.stage = "stamped"
          /\ t.kind = "query" \/ (HasCopy(c) /\ t.copy = command[c].copy)
    <3>1. CASE StampReplacement(c)
      <4> DEFINE t == [command[c] EXCEPT !.stage = "stamped", !.seen = stamp]
      <4>1. t \in Command /\ t.copy = command[c].copy /\ t.stage = "stamped"
        BY <1>1 DEF Command, Stages
      <4>2. command' = [command EXCEPT ![c] = t] /\ HasCopy(c)
        BY <3>1 DEF StampReplacement, HasCopy
      <4> QED
        BY <4>1, <4>2
    <3>2. CASE BeginQuery(c)
      <4> DEFINE t == [Idle EXCEPT !.stage = "stamped", !.seen = stamp]
      <4>1. t \in Command /\ t.kind = "query" /\ t.stage = "stamped"
        BY <1>1, <1>2 DEF Command, Stages, Idle
      <4>2. command' = [command EXCEPT ![c] = t]
        BY <3>2 DEF BeginQuery
      <4> QED
        BY <4>1, <4>2
    <3> QED
      BY <1>13, <3>1, <3>2
  <2>2. UNCHANGED <<saved, file>> /\ stamp' = stamp /\ cached' = cached
    BY <1>13 DEF StampReplacement, BeginQuery
  <2>3. command'[c] = t
    BY <1>1, <2>1
  <2>4. HasCopy(c)' => HasCopy(c) /\ t.copy = command[c].copy
    BY <2>1, <2>3 DEF HasCopy
  <2>5. HasCopy(c)' => /\ t.copy \in Manifests
                       /\ \A id \in Ids : t.copy[id] # NoSource =>
                            Sound(t.copy[id]) /\ t.copy[id].kind = KindOf[id]
    BY <1>3, <2>4
  <2>6. stamp' \in Nat /\ cached' \in [manifest : Manifests \cup {NoCopy}, stamp : Nat,
                                       by : {"nobody", "query", "update"}]
    BY <1>1, <2>2
  <2> QED
    BY <2>1, <2>2, <2>5, <2>6, CommandStepKeepsIInv
<1>14. ASSUME NEW c \in Commands, Reload(c)
       PROVE  IInv'
  <2> DEFINE t == [command[c] EXCEPT !.stage = "read", !.copy = LoadedManifest]
  <2>1. command' = [command EXCEPT ![c] = t] /\ UNCHANGED <<saved, file>> /\ stamp' = stamp /\ cached' = cached
    BY <1>14 DEF Reload
  <2>2. t \in Command /\ t.copy = LoadedManifest
    <3>1. \A m \in Manifests : [command[c] EXCEPT !.stage = "read", !.copy = m] \in Command
      BY <1>1 DEF Command, Stages
    <3>2. command[c] \in Command /\ LoadedManifest \in Manifests
      BY <1>1, LoadedManifestIsSound
    <3>3. t \in Command
      BY <3>1, <3>2
    <3>4. t.copy = LoadedManifest
      BY <3>2 DEF Command
    <3> QED
      BY <3>3, <3>4
  <2> HIDE DEF t
  <2> QED
    BY <1>1, <2>1, <2>2, LoadedManifestIsSound, CommandStepKeepsIInv
<1>15. CASE Crash
  <2>1. \A c \in Commands : ~ HasCopy(c)'
    BY <1>15 DEF Crash, HasCopy, Idle
  <2>2. TypeOK'
    BY <1>2, <1>15 DEF Crash, TypeOK, OfItsKind
  <2> QED
    BY <1>15, <2>1, <2>2 DEF Crash, CopiesAreManifests, EntriesAreSound
<1>16. CASE UNCHANGED vars
  BY <1>16 DEF vars, TypeOK, OfItsKind, CopiesAreManifests, EntriesAreSound, HasCopy
<1>17. QED
  BY <1>4, <1>5, <1>6, <1>7, <1>8, <1>9, <1>10, <1>11, <1>12, <1>13, <1>14, <1>15, <1>16 DEF Next

(* The list of sources is coherent whatever overlapping commands wrote it: *)
(* each entry is planned for what its route does, flags the text that OCR  *)
(* made and gives the reasons of its status.                               *)
THEOREM EntriesAreCoherent ==
  Spec => [](TypeOK /\ PlansMatchRoutes /\ OcrTextIsFlagged /\ ReasonsExplainStatuses)
<1>1. IInv => TypeOK /\ PlansMatchRoutes /\ OcrTextIsFlagged /\ ReasonsExplainStatuses
  BY DEF IInv, EntriesAreSound, Sound, PlansMatchRoutes, OcrTextIsFlagged,
         ReasonsExplainStatuses, EachLoaded
<1>2. QED
  BY <1>1, InitIInv, NextIInv, PTL DEF Spec

(* A source is planned for OCR exactly when its route is OCR, whatever was *)
(* written last by commands that overlap or by an earlier version.         *)
THEOREM PlansAlwaysMatchRoutes == Spec => []PlansMatchRoutes
  BY EntriesAreCoherent, PTL

(* The reasons listed with a source are those of the status listed with it. *)
THEOREM ReasonsAlwaysExplainStatuses == Spec => []ReasonsExplainStatuses
  BY EntriesAreCoherent, PTL

-------------------------------------------------------------------------------
(* The copy kept for queries.                                              *)

(* No label is newer than the file, and a query that has just read the     *)
(* file under its present label has what the file says.                    *)
LabelsArePast ==
  /\ cached.stamp <= stamp
  /\ \A c \in Commands : command[c].seen <= stamp

ReadIsCurrent ==
  \A c \in Commands : command[c].stage = "read" /\ command[c].seen = stamp /\ file = "whole"
                        => command[c].copy = LoadedManifest

KInv == LabelsArePast /\ ReadIsCurrent /\ KeptCopyIsCurrent

LEMMA InitKInv == Init => KInv
  BY DEF Init, KInv, LabelsArePast, ReadIsCurrent, KeptCopyIsCurrent, Idle, Uncached

LEMMA NextKInv == TypeOK /\ KInv /\ [Next]_vars => KInv'
<1> SUFFICES ASSUME TypeOK, KInv, [Next]_vars PROVE KInv'
  OBVIOUS
<1>1. /\ command \in [Commands -> Command] /\ stamp \in Nat /\ cached.stamp \in Nat
      /\ \A c \in Commands : command[c].seen \in Nat
  BY DEF TypeOK, Command
<1>2. Idle.stage = "idle" /\ Idle.seen = 0
  BY DEF Idle
<1>3. UNCHANGED <<saved>> => LoadedManifest' = LoadedManifest
  BY DEF LoadedManifest
(* A step that changes nothing but c's command, neither to "read" nor to a *)
(* label in the future.                                                    *)
<1>4. ASSUME NEW c \in Commands, UNCHANGED <<saved, file, stamp, cached>>, NEW t,
             command' = [command EXCEPT ![c] = t], t.stage # "read", t.seen <= stamp
      PROVE  KInv'
  <2>1. \A d \in Commands : command'[d] = command[d] \/ (d = c /\ command'[d] = t)
    BY <1>1, <1>4
  <2>2. LabelsArePast'
    BY <1>4, <2>1 DEF KInv, LabelsArePast
  <2>3. ReadIsCurrent'
    BY <1>3, <1>4, <2>1 DEF KInv, ReadIsCurrent
  <2>4. KeptCopyIsCurrent'
    BY <1>3, <1>4 DEF KInv, KeptCopyIsCurrent
  <2> QED
    BY <2>2, <2>3, <2>4 DEF KInv
<1>5. ASSUME NEW c \in Commands, NEW kind \in Updates, BeginUpdate(c, kind)
      PROVE  KInv'
  <2> DEFINE t == [kind |-> kind, stage |-> "loaded", copy |-> LoadedManifest, seen |-> 0]
  <2>1. t.stage = "loaded" /\ t.seen <= stamp
    BY <1>1
  <2>2. command' = [command EXCEPT ![c] = t] /\ UNCHANGED <<saved, file, stamp, cached>>
    BY <1>5 DEF BeginUpdate
  <2> HIDE DEF t
  <2> QED
    BY <1>4, <2>1, <2>2
<1>6. ASSUME NEW c \in Commands, NEW kind, NEW id, NEW s, Change(c, kind, id, s)
      PROVE  KInv'
  <2> DEFINE t == [command[c] EXCEPT !.copy = [command[c].copy EXCEPT ![id] = s]]
  <2>1. t.stage = "loaded" /\ t.seen = command[c].seen
    BY <1>1, <1>6 DEF Change, Command
  <2>2. command' = [command EXCEPT ![c] = t] /\ UNCHANGED <<saved, file, stamp, cached>>
    BY <1>6 DEF Change
  <2>3. command[c].seen <= stamp
    BY DEF KInv, LabelsArePast
  <2> HIDE DEF t
  <2> QED
    BY <1>4, <2>1, <2>2, <2>3
<1>7. ASSUME NEW c \in Commands, Truncate(c) \/ Write(c)
      PROVE  KInv'
  <2>1. stamp' = stamp + 1 /\ cached' = cached
    BY <1>7 DEF Truncate, Write
  <2>2. \A d \in Commands : command'[d].seen = command[d].seen \/ command'[d].seen = 0
    BY <1>1, <1>2, <1>7 DEF Truncate, Write, Command
  <2>3. LabelsArePast'
    BY <1>1, <2>1, <2>2 DEF KInv, LabelsArePast
  <2>4. \A d \in Commands : command'[d].seen # stamp'
    BY <1>1, <2>1, <2>2 DEF KInv, LabelsArePast
  <2>5. cached'.stamp # stamp'
    BY <1>1, <2>1 DEF KInv, LabelsArePast
  <2> QED
    BY <2>3, <2>4, <2>5 DEF KInv, ReadIsCurrent, KeptCopyIsCurrent
<1>8. ASSUME NEW c \in Commands, WriteFails(c) \/ AnswerFromCache(c)
      PROVE  KInv'
  BY <1>1, <1>2, <1>4, <1>8 DEF WriteFails, AnswerFromCache
<1>9. ASSUME NEW c \in Commands, StampReplacement(c) \/ BeginQuery(c)
      PROVE  KInv'
  <2>1. PICK t : /\ command' = [command EXCEPT ![c] = t]
                 /\ t.stage = "stamped" /\ t.seen = stamp
    <3>1. CASE StampReplacement(c)
      <4> DEFINE t == [command[c] EXCEPT !.stage = "stamped", !.seen = stamp]
      <4>1. t.stage = "stamped" /\ t.seen = stamp
        BY <1>1 DEF Command
      <4>2. command' = [command EXCEPT ![c] = t]
        BY <3>1 DEF StampReplacement
      <4> QED
        BY <4>1, <4>2
    <3>2. CASE BeginQuery(c)
      <4> DEFINE t == [Idle EXCEPT !.stage = "stamped", !.seen = stamp]
      <4>1. t.stage = "stamped" /\ t.seen = stamp
        BY DEF Idle
      <4>2. command' = [command EXCEPT ![c] = t]
        BY <3>2 DEF BeginQuery
      <4> QED
        BY <4>1, <4>2
    <3> QED
      BY <1>9, <3>1, <3>2
  <2>2. UNCHANGED <<saved, file, stamp, cached>>
    BY <1>9 DEF StampReplacement, BeginQuery
  <2>3. t.stage # "read" /\ t.seen <= stamp
    BY <1>1, <2>1
  <2> QED
    BY <1>4, <2>1, <2>2, <2>3
<1>10. ASSUME NEW c \in Commands, Replace(c) \/ KeepAndAnswer(c)
       PROVE  KInv'
  <2>1. command' = [command EXCEPT ![c] = Idle] /\ UNCHANGED <<saved, file, stamp>>
    BY <1>10 DEF Replace, KeepAndAnswer
  <2>2. /\ cached'.stamp = command[c].seen
        /\ cached'.by = "query" => command[c].stage = "read" /\ cached'.manifest = command[c].copy
    BY <1>10 DEF Replace, KeepAndAnswer
  <2>3. \A d \in Commands : command'[d] = command[d] \/ command'[d] = Idle
    BY <1>1, <2>1
  <2>4. LabelsArePast'
    BY <1>1, <1>2, <2>1, <2>2, <2>3 DEF KInv, LabelsArePast
  <2>5. ReadIsCurrent'
    BY <1>2, <1>3, <2>1, <2>3 DEF KInv, ReadIsCurrent
  <2>6. KeptCopyIsCurrent'
    BY <1>3, <2>1, <2>2 DEF KInv, ReadIsCurrent, KeptCopyIsCurrent
  <2> QED
    BY <2>4, <2>5, <2>6 DEF KInv
<1>11. ASSUME NEW c \in Commands, Reload(c)
       PROVE  KInv'
  <2>1. /\ command' = [command EXCEPT ![c] = [command[c] EXCEPT !.stage = "read", !.copy = LoadedManifest]]
        /\ UNCHANGED <<saved, file, stamp, cached>>
    BY <1>11 DEF Reload
  <2>2. \A d \in Commands : /\ command'[d].seen = command[d].seen
                            /\ command'[d] = command[d] \/ command'[d].copy = LoadedManifest
    BY <1>1, <2>1 DEF Command
  <2>3. LabelsArePast'
    BY <2>1, <2>2 DEF KInv, LabelsArePast
  <2>4. ReadIsCurrent'
    BY <1>3, <2>1, <2>2 DEF KInv, ReadIsCurrent
  <2>5. KeptCopyIsCurrent'
    BY <1>3, <2>1 DEF KInv, KeptCopyIsCurrent
  <2> QED
    BY <2>3, <2>4, <2>5 DEF KInv
<1>12. CASE Crash
  <2>1. /\ \A d \in Commands : command'[d] = Idle
        /\ cached'.stamp = 0 /\ cached'.by = "nobody" /\ stamp' = stamp
    BY <1>12 DEF Crash, Uncached
  <2> QED
    BY <1>1, <1>2, <2>1 DEF KInv, LabelsArePast, ReadIsCurrent, KeptCopyIsCurrent
<1>13. CASE UNCHANGED vars
  BY <1>3, <1>13 DEF vars, KInv, LabelsArePast, ReadIsCurrent, KeptCopyIsCurrent
<1>14. ASSUME NEW c \in Commands, NEW id \in Ids,
              \/ \E outcome \in Outcomes, override \in Choices \cup {NoProfile} :
                   ImportSource(c, id, outcome, override)
              \/ \E profile \in Choices : UpdateHandling(c, id, profile)
              \/ \E result \in Results : ReportExtraction(c, id, result)
              \/ \E result \in Results : ReportProcessing(c, id, result)
              \/ RemoveSource(c, id)
       PROVE  KInv'
  BY <1>6, <1>14 DEF ImportSource, UpdateHandling, ReportExtraction, ReportProcessing, RemoveSource
<1>15. QED
  BY <1>5, <1>7, <1>8, <1>9, <1>10, <1>11, <1>12, <1>13, <1>14 DEF Next

(* The copy a query kept under the metadata the file bears now is what the *)
(* file says, however many commands write and crash in between.            *)
THEOREM KeptCopyStaysCurrent == Spec => []KeptCopyIsCurrent
<1>1. KInv => KeptCopyIsCurrent
  BY DEF KInv
<1>2. IInv => TypeOK
  BY DEF IInv
<1>3. QED
  BY <1>1, <1>2, InitIInv, NextIInv, InitKInv, NextKInv, PTL DEF Spec

(* No query is answered from a copy that a query kept and that is not what *)
(* the file, unchanged since the query began, says.                        *)
THEOREM AnswersAreNeverOld == Spec => AnswersAreNotOld
<1> DEFINE Good == \A c \in Commands :
                     AnswerFromCache(c) /\ cached.by = "query" /\ CanLoad /\ command[c].seen = stamp
                       => cached.manifest = LoadedManifest
<1>1. KeptCopyIsCurrent => Good
  BY DEF AnswerFromCache, Current, CanLoad, KeptCopyIsCurrent
<1>2. KeptCopyIsCurrent /\ [Next]_vars => [Good]_vars
  BY <1>1
<1>3. QED
  BY <1>2, KeptCopyStaysCurrent, PTL DEF Spec, AnswersAreNotOld

===============================================================================
