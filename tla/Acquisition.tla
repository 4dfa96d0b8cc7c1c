---------------------------- MODULE Acquisition ----------------------------
(* How one public source becomes evidence: the worker process that           *)
(* scripts/process_private_bridge_queue.py starts for a URL                   *)
(* (process_public_social_full_v3._process_unique, with the routes and        *)
(* sensors of process_public_social_full_v2.py and ..._batch.py) and the      *)
(* gate its result has to pass.  Every external tool may fail; what it        *)
(* returns is abstracted to what later steps look at: how long a text is,     *)
(* whether it has a visual-sensitive term, how many visual items there are.   *)
EXTENDS Naturals, Sequences

CONSTANTS
    CharCounts,    \* the transcript lengths that occur
    VisualCounts,  \* the numbers of visual items a sensor returns
    ImageCounts    \* the numbers of images in a post

ASSUME CountAssumption ==
    /\ CharCounts \subseteq Nat /\ VisualCounts \subseteq Nat
    /\ ImageCounts \subseteq Nat /\ 0 \in CharCounts \cap VisualCounts \cap ImageCounts

VARIABLES
    kind,      \* platform of the source
    reel,      \* an Instagram URL of a reel
    gemini,    \* the Gemini client could be built
    pc,        \* the next step of the worker, then of its parent
    route,     \* index of the next acquisition route
    source,    \* its metadata
    files,     \* what was downloaded
    evidence,  \* what the sensors found so far
    pre,       \* pre_visual_sensitive
    calls,     \* requests sent to Gemini, in order
    sensors,   \* sensors that answered
    result,    \* what the worker hands to its parent
    record     \* the evidence record, or its refusal

input == <<kind, reel, gemini>>
vars == <<kind, reel, gemini, pc, route, source, files, evidence, pre, calls,
          sensors, result, record>>

Kinds == {"youtube", "instagram", "tiktok", "web"}
NoFiles == [image |-> 0, video |-> 0, audio |-> 0]
Transcript(by, available, chars, terms) ==
    [by |-> by, available |-> available, chars |-> chars, terms |-> terms]
NoTranscript == Transcript("none", FALSE, 0, FALSE)
NoEvidence == [transcript |-> NoTranscript, visual |-> 0, extra |-> FALSE]

\* Texts a tool may produce: a length, and whether a sensitive term occurs.
Texts == {t \in CharCounts \X BOOLEAN : t[2] => t[1] > 0}

HasEvidence(e) ==
    \/ e.transcript.available \/ e.transcript.chars > 0
    \/ e.visual > 0 \/ e.extra

VisualSensitive(s, e) == s.terms \/ e.transcript.terms

-----------------------------------------------------------------------------
(* What the external routes and sensors may return.                          *)

\* youtube_transcript_api: available exactly when there is text.
ApiCaptions == {Transcript("captions", t[1] > 0, t[1], t[2]) : t \in Texts}
\* youtube_ytdlp_transcript: the longest subtitle file with text, or it raises.
SubtitleCaptions == {c \in ApiCaptions : c.available}
\* youtube_transcript_http_fallback: raises on a short page.
PageCaptions == {c \in ApiCaptions : c.available}

CaptionRoutes == <<ApiCaptions, SubtitleCaptions, PageCaptions>>

\* A model answer follows the schema; "available" and the text are its own.
GeminiTranscripts ==
    {Transcript("gemini", a, t[1], t[2]) : a \in BOOLEAN, t \in Texts}
GeminiAnswers ==
    [transcript : GeminiTranscripts, visual : VisualCounts, extra : BOOLEAN]

Media == [image : ImageCounts, video : {0, 1}, audio : {0, 1}]
\* parth_download raises when it finds no supported file.
ParthFiles == Media \ {NoFiles}
\* yt-dlp and gallery-dl succeed with whatever lies in the directory.
YtdlpFiles == Media
GalleryFiles == Media

\* Speech of the first video, by analyze_video; it may find none, or fail.
Speech(f) ==
    IF f.video = 0 THEN {NoTranscript}
    ELSE {NoTranscript} \union {Transcript("local", TRUE, t[1], FALSE) : t \in Texts}
\* Up to five frames of the first video.
FrameCounts(f) == IF f.video = 0 THEN {0} ELSE VisualCounts
LocalEvidence(f) ==
    {[transcript |-> t, visual |-> f.image + n, extra |-> FALSE] :
        t \in Speech(f), n \in FrameCounts(f)}

-----------------------------------------------------------------------------
Init ==
    /\ kind \in Kinds /\ reel \in BOOLEAN /\ gemini \in BOOLEAN
    /\ reel => kind = "instagram"
    /\ pc = CASE kind = "youtube" -> "metadata"
              [] kind = "tiktok" -> "probe"
              [] kind = "instagram" -> "acquire"
              [] kind = "web" -> "unsupported"
    /\ route = 1
    /\ source = [known |-> FALSE, terms |-> FALSE]
    /\ files = NoFiles /\ evidence = NoEvidence /\ pre = FALSE
    /\ calls = <<>> /\ sensors = {}
    /\ result = [status |-> "none", sensitive |-> FALSE, fallback |-> FALSE]
    /\ record = [verdict |-> "none", evidence |-> NoEvidence]

\* _process_unique: everything but a complete result with Gemini's part in it
\* is marked for a local retry.
Return(status, sensitive) ==
    /\ result' = [status |-> status, sensitive |-> sensitive,
                  fallback |-> status # "complete" \/ "gemini" \notin sensors]
    /\ pc' = "judge"

\* oEmbed, then yt-dlp; either may fail.
Metadata ==
    /\ pc = "metadata"
    /\ \E known, terms \in BOOLEAN :
        /\ terms => known
        /\ source' = [known |-> known, terms |-> terms]
    /\ pc' = "captions"
    /\ UNCHANGED <<input, route, files, evidence, pre, calls, sensors, result, record>>

\* One caption route; the next is tried while there is no evidence.
Captions ==
    /\ pc = "captions"
    /\ evidence' \in {evidence}
                     \union {[evidence EXCEPT !.transcript = c] : c \in CaptionRoutes[route]}
    /\ route' = route + 1
    /\ IF HasEvidence(evidence') \/ route = Len(CaptionRoutes)
       THEN pc' = "gemini" /\ pre' = VisualSensitive(source, evidence')
       ELSE UNCHANGED <<pc, pre>>
    /\ UNCHANGED <<input, source, files, calls, sensors, result, record>>

AnswerReplaces(e, answer) == answer  \* mutant: the latest answer is the evidence

\* What an answer adds to evidence that is already there: captions stay, the
\* model's transcript becomes a secondary one.
Merge(e, answer) ==
    IF HasEvidence(e)
    THEN [e EXCEPT !.visual = IF answer.visual > 0 THEN answer.visual ELSE @,
                   !.extra = @ \/ answer.extra]
    ELSE answer

FirstMode ==
    IF pre /\ evidence.transcript.available THEN "visual"
    ELSE IF pre THEN "technical" ELSE "url"

\* The first request, when the video is visual-sensitive or has no captions.
GeminiFirst ==
    /\ pc = "gemini"
    /\ pc' = "focus"
    /\ IF gemini /\ (pre \/ ~evidence.transcript.available)
       THEN /\ calls' = Append(calls, FirstMode)
            /\ \/ UNCHANGED <<evidence, sensors>>
               \/ \E answer \in GeminiAnswers :
                    /\ FirstMode = "visual" => answer.transcript = Transcript("gemini", FALSE, 0, FALSE)
                    /\ evidence' = Merge(evidence, answer)
                    /\ sensors' = sensors \union {"gemini"}
       ELSE UNCHANGED <<calls, evidence, sensors>>
    /\ UNCHANGED <<input, route, source, files, pre, result, record>>

\* mutant: the focus pass does not ask whether there was one before
FocusAgain == gemini /\ VisualSensitive(source, evidence) /\ evidence.visual < 3

\* The second request: the first answer has shown that the video is
\* visual-sensitive, and there is little visual evidence.
FocusWanted ==
    /\ gemini /\ VisualSensitive(source, evidence) /\ ~pre
    /\ evidence.visual < 3

GeminiFocus ==
    /\ pc = "focus"
    /\ pc' = "finish"
    /\ IF FocusWanted
       THEN /\ calls' = Append(calls, "visual")
            /\ \/ UNCHANGED <<evidence, sensors>>
               \/ \E n \in VisualCounts, extra \in BOOLEAN :
                    /\ evidence' = [evidence EXCEPT !.visual = IF n > 0 THEN n ELSE @,
                                                    !.extra = @ \/ extra]
                    /\ sensors' = sensors \union {"gemini_visual_focus"}
       ELSE UNCHANGED <<calls, evidence, sensors>>
    /\ UNCHANGED <<input, route, source, files, pre, result, record>>

FinishYoutube ==
    /\ pc = "finish" /\ kind = "youtube"
    /\ Return(IF HasEvidence(evidence) THEN "complete"
              ELSE IF source.known THEN "partial" ELSE "failed",
              VisualSensitive(source, evidence))
    /\ UNCHANGED <<input, route, source, files, evidence, pre, calls, sensors, record>>

-----------------------------------------------------------------------------
\* TikTok metadata; a failure is only a warning.
Probe ==
    /\ pc = "probe"
    /\ \E known \in BOOLEAN : source' = [source EXCEPT !.known = known]
    /\ pc' = "acquire"
    /\ UNCHANGED <<input, route, files, evidence, pre, calls, sensors, result, record>>

Routes ==
    IF kind = "tiktok" THEN <<GalleryFiles>>
    ELSE IF reel THEN <<YtdlpFiles, ParthFiles, GalleryFiles>>
    ELSE <<ParthFiles, YtdlpFiles, GalleryFiles>>

\* A route succeeds, or the next one is tried; without a next one the source failed.
Acquire ==
    /\ pc = "acquire"
    /\ \/ /\ files' \in Routes[route]
          /\ pc' = "media"
          /\ UNCHANGED <<route, result>>
       \/ /\ route < Len(Routes)
          /\ route' = route + 1
          /\ UNCHANGED <<pc, files, result>>
       \/ /\ route = Len(Routes)
          /\ Return("failed", FALSE)
          /\ UNCHANGED <<route, files>>
    /\ UNCHANGED <<input, source, evidence, pre, calls, sensors, record>>

\* Gemini sees the files first, if there is a client.
GeminiMedia ==
    /\ pc = "media"
    /\ pc' = "local"
    /\ IF gemini
       THEN /\ calls' = Append(calls, "media")
            /\ \/ UNCHANGED <<evidence, sensors>>
               \/ /\ evidence' \in GeminiAnswers
                  /\ sensors' = sensors \union {"gemini"}
       ELSE UNCHANGED <<calls, evidence, sensors>>
    /\ UNCHANGED <<input, route, source, files, pre, result, record>>

\* The sensors of the runner itself, when Gemini brought nothing.
LocalSensors ==
    /\ pc = "local"
    /\ pc' = "finish"
    /\ \/ UNCHANGED <<evidence, sensors>>
       \/ /\ ~HasEvidence(evidence)
          /\ \E found \in LocalEvidence(files) :
                evidence' = IF HasEvidence(found) THEN found ELSE evidence
          /\ sensors' = sensors \union {"open_source"}
    /\ UNCHANGED <<input, route, source, files, pre, calls, result, record>>

FinishSocial ==
    /\ pc = "finish" /\ kind # "youtube"
    /\ Return(IF HasEvidence(evidence) THEN "complete" ELSE "partial", FALSE)
    /\ UNCHANGED <<input, route, source, files, evidence, pre, calls, sensors, record>>

Unsupported ==
    /\ pc = "unsupported"
    /\ Return("failed", FALSE)
    /\ UNCHANGED <<input, route, source, files, evidence, pre, calls, sensors, record>>

\* The worker runs into SOURCE_TIMEOUT_SECONDS, or dies without an output file.
WorkerLost ==
    /\ pc \notin {"judge", "done"}
    /\ result' = [status |-> "failed", sensitive |-> FALSE, fallback |-> TRUE]
    /\ pc' = "judge"
    /\ UNCHANGED <<input, route, source, files, evidence, pre, calls, sensors, record>>

-----------------------------------------------------------------------------
(* The parent: build_evidence_record.                                         *)
Handed == IF result.status = "complete" THEN evidence ELSE NoEvidence

\* Background music of a photo post is not evidence.
Scrub(e) ==
    IF kind = "tiktok" /\ files.image > 0 /\ files.video = 0 /\ files.audio > 0
    THEN [e EXCEPT !.transcript = NoTranscript] ELSE e

EightTenthsRounded(n) == (n * 8) \div 10  \* mutant: no image is enough for one
EightTenths(n) == IF (n * 8) \div 10 > 1 THEN (n * 8) \div 10 ELSE 1

QualityGate(e) ==
    /\ result.status = "complete"
    /\ IF kind = "youtube"
       THEN e.transcript.chars >= 500 /\ (result.sensitive => e.visual >= 3)
       ELSE IF files.image > 0 /\ files.video = 0
       THEN e.visual >= EightTenths(files.image)
       ELSE e.transcript.chars >= 40 \/ e.visual >= 1

Judge ==
    /\ pc = "judge"
    /\ record' = [verdict |-> IF QualityGate(Scrub(Handed)) THEN "accepted" ELSE "rejected",
                  evidence |-> Scrub(Handed)]
    /\ pc' = "done"
    /\ UNCHANGED <<input, route, source, files, evidence, pre, calls, sensors, result>>

Worker ==
    \/ Metadata \/ Captions \/ GeminiFirst \/ GeminiFocus \/ FinishYoutube
    \/ Probe \/ Acquire \/ GeminiMedia \/ LocalSensors \/ FinishSocial
    \/ Unsupported

Next == Worker \/ WorkerLost \/ Judge

Spec == Init /\ [][Next]_vars

-----------------------------------------------------------------------------
(* Properties.                                                                *)

(* A source that has evidence never goes back to having none: a later sensor  *)
(* may put its own in the place of an earlier one's, but an answer with       *)
(* nothing in it replaces nothing.  And available captions are not replaced   *)
(* by what a model claims to have heard (process_youtube's merge,             *)
(* process_social's choice between Gemini and the local sensors).             *)
EvidenceIsKept ==
    [][ /\ HasEvidence(evidence) => HasEvidence(evidence')
        /\ evidence.transcript.by = "captions" /\ evidence.transcript.available
            => evidence'.transcript = evidence.transcript ]_vars

(* Gemini is asked at most twice about a source, and never twice for the same *)
(* thing: the focus pass comes only after a first answer that had no captions *)
(* to go with.  Hence its sensor never stands alone, and a result without     *)
(* "gemini" among its sensors, which is marked for the local fallback, really *)
(* has nothing of Gemini in it.                                               *)
GeminiBudget ==
    /\ calls \in {<<>>, <<"url">>, <<"technical">>, <<"visual">>, <<"media">>,
                  <<"url", "visual">>}
    /\ "gemini_visual_focus" \in sensors => "gemini" \in sensors
    /\ evidence.transcript.by = "gemini" => "gemini" \in sensors

(* Every accepted record has durable evidence of its own: words that were     *)
(* spoken, or at least one visual item; for a photo post visual items, and    *)
(* none of its background music.  A post with a single image and evidence     *)
(* that consists of claims and entities is the boundary.                      *)
AcceptedIsDurable ==
    record.verdict = "accepted" =>
        /\ record.evidence.transcript.chars >= 40 \/ record.evidence.visual >= 1
        /\ files.image > 0 /\ files.video = 0 => record.evidence.visual >= 1
        /\ kind = "tiktok" /\ files.image > 0 /\ files.video = 0 /\ files.audio > 0
            => ~record.evidence.transcript.available
=============================================================================
