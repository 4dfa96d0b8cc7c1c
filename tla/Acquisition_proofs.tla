-------------------------- MODULE Acquisition_proofs --------------------------
(* Proofs about Acquisition, for every set of lengths and counts: what one    *)
(* sensor found is not lost to a later one, Gemini is asked within its        *)
(* budget, and an accepted record has evidence of its own.                    *)
EXTENDS Acquisition, Integers, TLAPS

-----------------------------------------------------------------------------
(* The types of what the later steps look at.                                 *)

TranscriptType ==
    [by : {"none", "captions", "gemini", "local"}, available : BOOLEAN,
     chars : Nat, terms : BOOLEAN]
EvidenceType == [transcript : TranscriptType, visual : Nat, extra : BOOLEAN]
FilesType == [image : Nat, video : Nat, audio : Nat]

Typed ==
    /\ kind \in Kinds /\ gemini \in BOOLEAN /\ pre \in BOOLEAN
    /\ source \in [known : BOOLEAN, terms : BOOLEAN]
    /\ files \in FilesType
    /\ evidence \in EvidenceType

YoutubeSteps == {"metadata", "captions", "gemini", "focus"}
SocialSteps == {"probe", "acquire", "media", "local"}

\* Which platform takes which steps, which routes are left, and what is known
\* of the files.
Staged ==
    /\ pc \in YoutubeSteps => kind = "youtube"
    /\ pc \in SocialSteps => kind # "youtube"
    /\ kind = "youtube" => files = NoFiles
    /\ pc \in {"metadata", "probe"} => route = 1
    /\ pc = "captions" => route \in 1..Len(CaptionRoutes)
    /\ pc = "acquire" => route \in 1..Len(Routes)

\* What has been found and asked by when: before a sensor runs there is
\* nothing, and the caption routes go on only while they find nothing.
Gathered ==
    /\ pc \in {"metadata", "probe", "acquire", "media", "unsupported"} => evidence = NoEvidence
    /\ pc = "captions" => ~HasEvidence(evidence)
    /\ pc \in {"metadata", "captions", "gemini", "probe", "acquire", "media", "unsupported"}
        => calls = <<>> /\ sensors = {}
    /\ pc = "focus" => /\ calls \in {<<>>, <<"url">>, <<"technical">>, <<"visual">>}
                       /\ ~pre => calls \in {<<>>, <<"url">>}
    /\ pc = "local" => calls \in {<<>>, <<"media">>}

\* Until Gemini has answered, the evidence is what the first request was
\* decided on: a focus pass is wanted only because of an answer.
Decided ==
    /\ pc \in {"gemini", "focus"} /\ "gemini" \notin sensors
        => pre = VisualSensitive(source, evidence)

\* There is a record only at the end.
Unjudged == pc # "done" => record.verdict = "none"

IInv == Typed /\ Staged /\ Gathered /\ Decided /\ GeminiBudget /\ Unjudged /\ AcceptedIsDurable

-----------------------------------------------------------------------------
(* What the routes and the sensors return.                                    *)

LEMMA CountsAreNumbers ==
    /\ \A n \in CharCounts : n \in Nat
    /\ \A n \in VisualCounts : n \in Nat
    /\ \A n \in ImageCounts : n \in Nat
  BY CountAssumption

LEMMA RoutesInOrder ==
    /\ Len(CaptionRoutes) = 3
    /\ Len(Routes) \in {1, 3}
  BY DEF CaptionRoutes, Routes

LEMMA TextsAreMeasured ==
    \A t \in Texts : t[1] \in Nat /\ t[2] \in BOOLEAN /\ (t[2] => t[1] > 0)
  BY CountAssumption DEF Texts

LEMMA CaptionsAreTranscripts ==
    ASSUME NEW i \in 1..3, NEW c \in CaptionRoutes[i]
    PROVE  c \in TranscriptType /\ c.by = "captions"
  <1>1. c \in ApiCaptions
    BY DEF CaptionRoutes, SubtitleCaptions, PageCaptions
  <1>2. PICK t \in Texts : c = Transcript("captions", t[1] > 0, t[1], t[2])
    BY <1>1 DEF ApiCaptions
  <1>3. t[1] \in Nat /\ t[2] \in BOOLEAN /\ (t[1] > 0) \in BOOLEAN
    BY TextsAreMeasured
  <1>. QED
    BY <1>2, <1>3 DEF Transcript, TranscriptType

LEMMA AnswersAreEvidence ==
    ASSUME NEW answer \in GeminiAnswers
    PROVE  answer \in EvidenceType /\ answer.transcript.by = "gemini"
  <1>1. answer.transcript \in GeminiTranscripts /\ answer.visual \in Nat /\ answer.extra \in BOOLEAN
        /\ answer = [transcript |-> answer.transcript, visual |-> answer.visual, extra |-> answer.extra]
    BY CountAssumption DEF GeminiAnswers
  <1>2. \A t \in GeminiTranscripts : t \in TranscriptType /\ t.by = "gemini"
    BY TextsAreMeasured DEF GeminiTranscripts, Transcript, TranscriptType
  <1>. QED
    BY <1>1, <1>2 DEF EvidenceType

\* A merged answer keeps the captions, and evidence stays evidence.
LEMMA MergeKeeps ==
    ASSUME NEW e \in EvidenceType, NEW answer \in GeminiAnswers
    PROVE  /\ Merge(e, answer) \in EvidenceType
           /\ HasEvidence(e) => /\ HasEvidence(Merge(e, answer))
                                /\ Merge(e, answer).transcript = e.transcript
           /\ ~HasEvidence(e) => Merge(e, answer) = answer
  <1>1. answer \in EvidenceType
    BY AnswersAreEvidence
  <1>. QED
    BY <1>1 DEF Merge, EvidenceType, HasEvidence

LEMMA LocalIsEvidence ==
    ASSUME NEW f \in FilesType, NEW found \in LocalEvidence(f)
    PROVE  found \in EvidenceType /\ found.transcript.by # "gemini"
  <1>1. PICK t \in Speech(f), n \in FrameCounts(f) :
            found = [transcript |-> t, visual |-> f.image + n, extra |-> FALSE]
    BY DEF LocalEvidence
  <1>2. t \in TranscriptType /\ t.by # "gemini"
    <2>1. CASE t = NoTranscript
      BY <2>1 DEF Transcript, NoTranscript, TranscriptType
    <2>2. CASE t # NoTranscript
      <3>1. PICK x \in Texts : t = Transcript("local", TRUE, x[1], FALSE)
        BY <2>2 DEF Speech
      <3>2. x[1] \in Nat
        BY TextsAreMeasured
      <3>. QED
        BY <3>1, <3>2 DEF Transcript, TranscriptType
    <2>. QED
      BY <2>1, <2>2
  <1>3. f.image + n \in Nat
    BY CountAssumption DEF FrameCounts, FilesType
  <1>. QED
    BY <1>1, <1>2, <1>3 DEF EvidenceType

LEMMA NothingIsTyped ==
    /\ NoEvidence \in EvidenceType /\ ~HasEvidence(NoEvidence)
    /\ NoEvidence.transcript.by = "none" /\ NoFiles \in FilesType
  BY DEF NoEvidence, NoTranscript, Transcript, EvidenceType, TranscriptType, HasEvidence,
         NoFiles, FilesType

LEMMA RoutesAreFiles ==
    ASSUME NEW i \in 1..Len(Routes), NEW f \in Routes[i]
    PROVE  f \in FilesType
  <1>1. Media \subseteq FilesType
    <2>. SUFFICES ASSUME NEW m \in Media PROVE m \in FilesType
      OBVIOUS
    <2>1. m.image \in ImageCounts /\ m.video \in {0, 1} /\ m.audio \in {0, 1}
      BY DEF Media
    <2>2. m.image \in Nat /\ m.video \in Nat /\ m.audio \in Nat
      BY <2>1, CountsAreNumbers
    <2>3. m = [image |-> m.image, video |-> m.video, audio |-> m.audio]
      BY DEF Media
    <2>. QED
      BY <2>2, <2>3 DEF FilesType
  <1>. QED
    BY <1>1 DEF Routes, ParthFiles, YtdlpFiles, GalleryFiles

-----------------------------------------------------------------------------
(* The gate: what it lets through has durable evidence.                       *)

LEMMA EightTenthsIsPositive ==
    ASSUME NEW n \in Nat
    PROVE  EightTenths(n) >= 1
  <1>1. (n * 8) \div 10 \in Int
    OBVIOUS
  <1>. QED
    BY <1>1 DEF EightTenths

LEMMA GateMeansEvidence ==
    ASSUME Typed, kind = "youtube" => files = NoFiles,
           NEW e \in EvidenceType, QualityGate(e)
    PROVE  /\ e.transcript.chars >= 40 \/ e.visual >= 1
           /\ files.image > 0 /\ files.video = 0 => e.visual >= 1
  <1>1. files.image \in Nat /\ e.visual \in Nat /\ e.transcript.chars \in Nat
    BY DEF Typed, FilesType, EvidenceType, TranscriptType
  <1>2. CASE kind = "youtube"
    BY <1>1, <1>2 DEF QualityGate, NoFiles
  <1>3. CASE kind # "youtube" /\ files.image > 0 /\ files.video = 0
    <2>1. EightTenths(files.image) >= 1 /\ EightTenths(files.image) \in Int
      BY <1>1, EightTenthsIsPositive DEF EightTenths
    <2>2. e.visual >= EightTenths(files.image)
      BY <1>3 DEF QualityGate
    <2>. QED
      BY <1>1, <2>1, <2>2
  <1>4. CASE kind # "youtube" /\ ~(files.image > 0 /\ files.video = 0)
    BY <1>1, <1>4 DEF QualityGate
  <1>. QED
    BY <1>2, <1>3, <1>4

LEMMA ScrubbedIsTyped ==
    ASSUME NEW e \in EvidenceType
    PROVE  /\ Scrub(e) \in EvidenceType
           /\ kind = "tiktok" /\ files.image > 0 /\ files.video = 0 /\ files.audio > 0
                => ~Scrub(e).transcript.available
  BY DEF Scrub, EvidenceType, TranscriptType, NoTranscript, Transcript

-----------------------------------------------------------------------------
(* The inductive invariant.                                                   *)

LEMMA InitIInv == Init => IInv
  <1>. SUFFICES ASSUME Init PROVE IInv
    OBVIOUS
  <1>1. pc \in {"metadata", "probe", "acquire", "unsupported"}
        /\ (pc = "metadata" <=> kind = "youtube")
    BY DEF Init, Kinds
  <1>2. Typed
    BY NothingIsTyped DEF Init, Typed
  <1>5. Staged
    <2>1. route = 1 /\ files = NoFiles
      BY DEF Init
    <2>2. 1 \in 1..Len(CaptionRoutes) /\ 1 \in 1..Len(Routes)
      BY RoutesInOrder
    <2>. QED
      BY <1>1, <2>1, <2>2 DEF Staged, YoutubeSteps, SocialSteps
  <1>3. Gathered /\ Decided /\ Unjudged /\ AcceptedIsDurable
    BY <1>1, NothingIsTyped DEF Init, Gathered, Decided, Unjudged, AcceptedIsDurable
  <1>4. GeminiBudget
    BY NothingIsTyped DEF Init, GeminiBudget
  <1>. QED
    BY <1>2, <1>3, <1>4, <1>5 DEF IInv

\* A step that writes no record needs nothing said about it again.
LEMMA NoRecordYet ==
    ASSUME Unjudged, pc # "done", record' = record
    PROVE  Unjudged' /\ AcceptedIsDurable'
  BY DEF Unjudged, AcceptedIsDurable

\* The end of the worker's part: everything it gathered stays as it was.
LEMMA HandingOver ==
    ASSUME IInv, pc # "done", pc' = "judge",
           UNCHANGED <<kind, reel, gemini, route, source, files, evidence, pre, calls, sensors, record>>
    PROVE  IInv'
  <1>1. Typed' /\ Staged' /\ Gathered' /\ Decided' /\ GeminiBudget'
    BY DEF IInv, Typed, Staged, Gathered, Decided, GeminiBudget, YoutubeSteps, SocialSteps
  <1>. QED
    BY <1>1, NoRecordYet DEF IInv

LEMMA MetadataKeeps == ASSUME IInv, Metadata PROVE IInv'
  <1>. USE DEF IInv, Metadata, input
  <1>1. Typed'
    BY DEF Typed
  <1>2. Staged' /\ Gathered' /\ Decided' /\ GeminiBudget'
    BY NothingIsTyped, RoutesInOrder DEF Staged, YoutubeSteps, SocialSteps, Gathered, Decided, GeminiBudget
  <1>. QED
    BY <1>1, <1>2, NoRecordYet

LEMMA CaptionsKeep == ASSUME IInv, Captions PROVE IInv'
  <1>. USE DEF IInv, Captions, input
  <1>0. route \in 1..3
    BY RoutesInOrder DEF Staged
  <1>1. evidence' \in EvidenceType /\ evidence'.transcript.by # "gemini"
    <2>1. evidence \in EvidenceType /\ evidence.transcript.by # "gemini"
      BY DEF Typed, Gathered, GeminiBudget
    <2>2. \A c \in CaptionRoutes[route] : c \in TranscriptType /\ c.by = "captions"
      BY <1>0, CaptionsAreTranscripts
    <2>. QED
      BY <2>1, <2>2 DEF EvidenceType
  <1>2. VisualSensitive(source, evidence') \in BOOLEAN
    BY <1>1 DEF VisualSensitive, Typed, EvidenceType, TranscriptType
  <1>3. Typed'
    BY <1>1, <1>2 DEF Typed
  <1>4. Staged'
    BY <1>0, RoutesInOrder DEF Staged, YoutubeSteps, SocialSteps
  <1>5. Gathered' /\ Decided' /\ GeminiBudget'
    BY <1>1 DEF Gathered, Decided, GeminiBudget, VisualSensitive
  <1>. QED
    BY <1>3, <1>4, <1>5, NoRecordYet

LEMMA AppendToShort ==
    ASSUME NEW a, NEW b
    PROVE  Append(<<>>, b) = <<b>> /\ Append(<<a>>, b) = <<a, b>>
  <1>1. Append(<<>>, b) = <<b>>
    OBVIOUS
  <1>. DEFINE s == Append(<<a>>, b)
  <1>2. s \in Seq({a, b}) /\ Len(s) = 2 /\ s[1] = a /\ s[2] = b
    OBVIOUS
  <1>3. <<a, b>> \in Seq({a, b}) /\ Len(<<a, b>>) = 2
    OBVIOUS
  <1>4. \A i \in 1..2 : s[i] = <<a, b>>[i]
    BY <1>2
  <1>5. s = <<a, b>>
    <2>. HIDE DEF s
    <2>. QED
      BY <1>2, <1>3, <1>4
  <1>. QED
    BY <1>1, <1>5

LEMMA GeminiFirstKeeps == ASSUME IInv, GeminiFirst PROVE IInv'
  <1>. USE DEF IInv, GeminiFirst, input
  <1>1. calls = <<>> /\ sensors = {} /\ FirstMode \in {"visual", "technical", "url"}
        /\ (~pre => FirstMode = "url")
    BY DEF Gathered, FirstMode
  <1>2. calls' \in {<<>>, <<"url">>, <<"technical">>, <<"visual">>} /\ (~pre => calls' \in {<<>>, <<"url">>})
    <2>1. \A m : Append(<<>>, m) = <<m>>
      OBVIOUS
    <2>. QED
      BY <1>1, <2>1
  <1>3. evidence' \in EvidenceType
    BY MergeKeeps, AnswersAreEvidence DEF Typed
  <1>4. /\ sensors' \in {{}, {"gemini"}}
        /\ "gemini" \notin sensors' => evidence' = evidence
    BY <1>1
  <1>5. Typed' /\ Staged'
    BY <1>3 DEF Typed, Staged, YoutubeSteps, SocialSteps
  <1>6. Gathered' /\ Decided' /\ GeminiBudget'
    BY <1>2, <1>4 DEF Gathered, Decided, GeminiBudget, VisualSensitive
  <1>. QED
    BY <1>5, <1>6, NoRecordYet

LEMMA GeminiFocusKeeps == ASSUME IInv, GeminiFocus PROVE IInv'
  <1>. USE DEF IInv, GeminiFocus, input
  <1>1. /\ evidence' \in EvidenceType
        /\ evidence'.transcript = evidence.transcript
    <2>1. \A n \in VisualCounts : n \in Nat
      BY CountAssumption
    <2>. QED
      BY <2>1 DEF Typed, EvidenceType
  <1>2. /\ calls' \in {<<>>, <<"url">>, <<"technical">>, <<"visual">>, <<"url", "visual">>}
        /\ "gemini_visual_focus" \in sensors' => "gemini" \in sensors'
        /\ "gemini" \in sensors => "gemini" \in sensors'
    <2>1. CASE FocusWanted
      <3>1. calls \in {<<>>, <<"url">>} /\ "gemini" \in sensors
        BY <2>1 DEF FocusWanted, Gathered, Decided
      <3>2. Append(<<>>, "visual") = <<"visual">> /\ Append(<<"url">>, "visual") = <<"url", "visual">>
        BY AppendToShort
      <3>3. calls' = Append(calls, "visual") /\ sensors \subseteq sensors'
        BY <2>1
      <3>4. calls' \in {<<"visual">>, <<"url", "visual">>}
        BY <3>1, <3>2, <3>3
      <3>. QED
        BY <3>1, <3>3, <3>4
    <2>2. CASE ~FocusWanted
      BY <2>2 DEF Gathered, GeminiBudget
    <2>. QED
      BY <2>1, <2>2
  <1>3. Typed' /\ Staged' /\ Gathered' /\ Decided'
    BY <1>1 DEF Typed, Staged, YoutubeSteps, SocialSteps, Gathered, Decided
  <1>4. GeminiBudget'
    BY <1>1, <1>2 DEF GeminiBudget
  <1>. QED
    BY <1>3, <1>4, NoRecordYet

LEMMA ProbeKeeps == ASSUME IInv, Probe PROVE IInv'
  <1>. USE DEF IInv, Probe, input
  <1>0. Routes' = Routes
    BY DEF Routes, ParthFiles, GalleryFiles, YtdlpFiles, Media
  <1>1. Typed'
    BY DEF Typed
  <1>2. Staged' /\ Gathered' /\ Decided' /\ GeminiBudget'
    BY <1>0, NothingIsTyped, RoutesInOrder DEF Staged, YoutubeSteps, SocialSteps, Gathered, Decided, GeminiBudget
  <1>. QED
    BY <1>1, <1>2, NoRecordYet

LEMMA AcquireKeeps == ASSUME IInv, Acquire PROVE IInv'
  <1>1. pc = "acquire" /\ UNCHANGED <<kind, reel, gemini, source, evidence, pre, calls, sensors, record>>
        /\ record' = record
    BY DEF Acquire, input
  <1>2. Routes' = Routes
    BY <1>1 DEF Routes, ParthFiles, GalleryFiles, YtdlpFiles, Media
  <1>3. CASE files' \in Routes[route] /\ pc' = "media"
    <2>1. files' \in FilesType
      BY <1>1, <1>3, RoutesAreFiles DEF IInv, Staged
    <2>2. Typed' /\ Staged'
      BY <1>1, <1>3, <2>1 DEF IInv, Typed, Staged, YoutubeSteps, SocialSteps
    <2>3. Gathered' /\ Decided' /\ GeminiBudget'
      BY <1>1, <1>3 DEF IInv, Gathered, Decided, GeminiBudget
    <2>. QED
      BY <1>1, <2>2, <2>3, NoRecordYet DEF IInv
  <1>4. CASE route < Len(Routes) /\ route' = route + 1 /\ UNCHANGED <<pc, files, result>>
    <2>1. Typed' /\ Staged'
      BY <1>1, <1>2, <1>4, RoutesInOrder DEF IInv, Typed, Staged, YoutubeSteps, SocialSteps
    <2>2. Gathered' /\ Decided' /\ GeminiBudget'
      BY <1>1, <1>4 DEF IInv, Gathered, Decided, GeminiBudget
    <2>. QED
      BY <1>1, <2>1, <2>2, NoRecordYet DEF IInv
  <1>5. CASE Return("failed", FALSE) /\ UNCHANGED <<route, files>>
    BY <1>1, <1>5, HandingOver DEF Return
  <1>. QED
    BY <1>3, <1>4, <1>5 DEF Acquire

LEMMA GeminiMediaKeeps == ASSUME IInv, GeminiMedia PROVE IInv'
  <1>. USE DEF IInv, GeminiMedia, input
  <1>1. calls' \in {<<>>, <<"media">>}
    <2>1. Append(<<>>, "media") = <<"media">>
      OBVIOUS
    <2>. QED
      BY <2>1 DEF Gathered
  <1>2. evidence' \in EvidenceType
    BY AnswersAreEvidence DEF Typed
  <1>3. /\ sensors' \in {{}, {"gemini"}}
        /\ "gemini" \notin sensors' => evidence' = evidence
    BY DEF Gathered
  <1>4. Typed' /\ Staged'
    BY <1>2 DEF Typed, Staged, YoutubeSteps, SocialSteps
  <1>5. Gathered' /\ Decided' /\ GeminiBudget'
    BY <1>1, <1>3 DEF Gathered, Decided, GeminiBudget
  <1>. QED
    BY <1>4, <1>5, NoRecordYet

LEMMA LocalSensorsKeep == ASSUME IInv, LocalSensors PROVE IInv'
  <1>. USE DEF IInv, LocalSensors, input
  <1>1. /\ evidence' \in EvidenceType
        /\ evidence'.transcript.by = "gemini" => evidence' = evidence
    BY LocalIsEvidence DEF Typed
  <1>2. sensors' \in {sensors, sensors \union {"open_source"}}
    OBVIOUS
  <1>3. Typed' /\ Staged'
    BY <1>1 DEF Typed, Staged, YoutubeSteps, SocialSteps
  <1>4. Gathered' /\ Decided' /\ GeminiBudget'
    BY <1>1, <1>2 DEF Gathered, Decided, GeminiBudget
  <1>. QED
    BY <1>3, <1>4, NoRecordYet

LEMMA JudgeKeeps == ASSUME IInv, Judge PROVE IInv'
  <1>. DEFINE e == Scrub(Handed)
  <1>1. /\ pc' = "done"
        /\ UNCHANGED <<kind, reel, gemini, route, source, files, evidence, pre, calls, sensors, result>>
        /\ record' = [verdict |-> IF QualityGate(e) THEN "accepted" ELSE "rejected", evidence |-> e]
    BY DEF Judge, input
  <1>2. Handed \in EvidenceType
    BY NothingIsTyped DEF Handed, IInv, Typed
  <1>3. e \in EvidenceType
        /\ (kind = "tiktok" /\ files.image > 0 /\ files.video = 0 /\ files.audio > 0
                => ~e.transcript.available)
    BY <1>2, ScrubbedIsTyped
  <1>4. record'.verdict = "accepted" => QualityGate(e)
    BY <1>1
  <1>5. QualityGate(e) => /\ e.transcript.chars >= 40 \/ e.visual >= 1
                          /\ files.image > 0 /\ files.video = 0 => e.visual >= 1
    BY <1>3, GateMeansEvidence DEF IInv, Staged
  <1>6. record'.evidence = e
    BY <1>1
  <1>7. AcceptedIsDurable'
    BY <1>1, <1>3, <1>4, <1>5, <1>6 DEF AcceptedIsDurable
  <1>8. Typed' /\ Staged' /\ Gathered' /\ Decided' /\ GeminiBudget' /\ Unjudged'
    BY <1>1 DEF IInv, Typed, Staged, Gathered, Decided, GeminiBudget, YoutubeSteps, SocialSteps, Unjudged
  <1>. QED
    BY <1>7, <1>8 DEF IInv

LEMMA StepIInv == IInv /\ [Next]_vars => IInv'
  <1>. SUFFICES ASSUME IInv, [Next]_vars PROVE IInv'
    OBVIOUS
  <1>1. CASE FinishYoutube
    BY <1>1, HandingOver DEF FinishYoutube, Return, input
  <1>2. CASE FinishSocial
    BY <1>2, HandingOver DEF FinishSocial, Return, input
  <1>3. CASE Unsupported
    BY <1>3, HandingOver DEF Unsupported, Return, input
  <1>4. CASE WorkerLost
    BY <1>4, HandingOver DEF WorkerLost, input
  <1>5. CASE UNCHANGED vars
    <2>1. UNCHANGED <<kind, reel, gemini, pc, route, source, files, evidence, pre, calls, sensors, result, record>>
      BY <1>5 DEF vars
    <2>2. Typed' /\ Staged' /\ Gathered' /\ Decided'
      BY <2>1 DEF IInv, Typed, Staged, Gathered, Decided, YoutubeSteps, SocialSteps, Routes,
                  VisualSensitive, ParthFiles, GalleryFiles, YtdlpFiles, Media
    <2>3. GeminiBudget' /\ Unjudged' /\ AcceptedIsDurable'
      BY <2>1 DEF IInv, GeminiBudget, Unjudged, AcceptedIsDurable
    <2>. QED
      BY <2>2, <2>3 DEF IInv
  <1>. QED
    BY <1>1, <1>2, <1>3, <1>4, <1>5, MetadataKeeps, CaptionsKeep, GeminiFirstKeeps,
       GeminiFocusKeeps, ProbeKeeps, AcquireKeeps, GeminiMediaKeeps, LocalSensorsKeep, JudgeKeeps
       DEF Next, Worker

LEMMA AlwaysIInv == Spec => []IInv
  BY InitIInv, StepIInv, PTL DEF Spec

(* Gemini is asked about a source at most twice and never for the same thing, *)
(* and the focus pass is no first answer, whatever lengths and counts the     *)
(* sensors return.                                                            *)
THEOREM WithinBudget == Spec => []GeminiBudget
  <1>1. IInv => GeminiBudget
    BY DEF IInv
  <1>. QED
    BY <1>1, AlwaysIInv, PTL

(* An accepted record has words or visual items of its own, and a photo post  *)
(* visual ones and none of its music.                                         *)
THEOREM AcceptedHasEvidence == Spec => []AcceptedIsDurable
  <1>1. IInv => AcceptedIsDurable
    BY DEF IInv
  <1>. QED
    BY <1>1, AlwaysIInv, PTL

-----------------------------------------------------------------------------
(* What has been found stays.                                                 *)

Kept ==
    /\ HasEvidence(evidence) => HasEvidence(evidence')
    /\ evidence.transcript.by = "captions" /\ evidence.transcript.available
        => evidence'.transcript = evidence.transcript

LEMMA StepKeepsEvidence == ASSUME IInv, [Next]_vars PROVE Kept
  <1>1. CASE UNCHANGED evidence
    BY <1>1 DEF Kept
  <1>2. CASE ~HasEvidence(evidence)
    BY <1>2 DEF Kept, HasEvidence
  <1>3. CASE GeminiFirst /\ HasEvidence(evidence)
    BY <1>1, <1>3, MergeKeeps DEF GeminiFirst, IInv, Typed, Kept
  <1>4. CASE GeminiFocus
    <2>1. CASE UNCHANGED evidence
      BY <1>1, <2>1
    <2>2. CASE \E n \in VisualCounts, extra \in BOOLEAN :
                 evidence' = [evidence EXCEPT !.visual = IF n > 0 THEN n ELSE @,
                                              !.extra = @ \/ extra]
      BY <2>2 DEF Kept, HasEvidence, IInv, Typed, EvidenceType
    <2>. QED
      BY <1>4, <2>1, <2>2 DEF GeminiFocus
  <1>5. CASE Captions \/ GeminiMedia
    <2>1. ~HasEvidence(evidence)
      BY <1>5, NothingIsTyped DEF IInv, Gathered, Captions, GeminiMedia
    <2>. QED
      BY <1>2, <2>1
  <1>6. CASE LocalSensors
    BY <1>1, <1>2, <1>6 DEF LocalSensors
  <1>7. CASE UNCHANGED vars \/ Metadata \/ FinishYoutube \/ Probe \/ Acquire \/ FinishSocial
             \/ Unsupported \/ WorkerLost \/ Judge
    BY <1>1, <1>7 DEF vars, Metadata, FinishYoutube, Probe, Acquire, FinishSocial, Unsupported,
                      WorkerLost, Judge
  <1>. QED
    BY <1>2, <1>3, <1>4, <1>5, <1>6, <1>7 DEF Next, Worker

(* A source with evidence never goes back to none, and available captions     *)
(* stay as they were read.                                                    *)
THEOREM NothingFoundIsLost == Spec => EvidenceIsKept
  <1>1. IInv /\ [Next]_vars => [Kept]_vars
    BY StepKeepsEvidence
  <1>. QED
    BY <1>1, AlwaysIInv, PTL DEF Spec, EvidenceIsKept, Kept
=============================================================================
