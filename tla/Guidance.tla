------------------------------ MODULE Guidance ------------------------------
(***************************************************************************)
(* What TarotReading makes of a user's words: the sentiment and the level  *)
(* of crisis of an input (backend/src/services/sentiment-analyzer.ts,      *)
(* crisis-detector.ts), the resources that come with it, and the           *)
(* interpretation of a reading with the prompt it is asked for and every   *)
(* answer the language model may give (orchestrator.ts, model-router.ts,   *)
(* lib/prompts.ts, interpretation-generator.ts).                           *)
(*                                                                         *)
(* A text is the number of keywords it has of each kind.  The lists of the *)
(* two services overlap: a keyword of one may contain one of the other.    *)
(***************************************************************************)
EXTENDS Integers

CONSTANTS MaxWords   \* bound: the keywords of a text

ASSUME GuidanceAssumption == MaxWords \in Nat

\* hopeless is a crisis keyword and a negative one, depressed a moderate and a
\* negative one; the Chinese for "no_hope" is a crisis keyword and contains the
\* positive keyword "hope".
NegativeKeywords == {"negative", "hopeless", "depressed"}
PositiveKeywords == {"positive", "no_hope"}
CrisisKeywords == {"crisis", "hopeless", "no_hope"}
ModerateKeywords == {"overwhelmed", "depressed"}
Keywords == NegativeKeywords \union PositiveKeywords
              \union CrisisKeywords \union ModerateKeywords

VARIABLES
  words,      \* the text of the input: how many keywords of each kind
  analysis,   \* the sentiment of the session, NoAnalysis without an input
  resources,  \* crisis_resources of the answer to POST /sessions
  llm,        \* how the generator was constructed
  asking,     \* the step of executeReading
  prompt,     \* the template of the prompt
  reply,      \* the text the model answered with
  interpretation

guidanceVars ==
  <<words, analysis, resources, llm, asking, prompt, reply, interpretation>>

Number(kinds) ==
  LET Of(kind) == IF kind \in kinds THEN words[kind] ELSE 0
  IN Of("negative") + Of("positive") + Of("crisis") + Of("overwhelmed")
       + Of("hopeless") + Of("depressed") + Of("no_hope")

Levels == <<"none", "moderate", "high", "immediate">>
NoAnalysis == [label |-> "none"]
Analyses == [score : -100 .. 100, label : {"negative", "neutral", "positive"},
             confidence : 50 .. 95, crisis_level : {Levels[i] : i \in 1 .. 4}]

\* The JSON in the model's answer, each part as the validation and the page see
\* it: "missing" is what is not there or is falsy, and of key_points what is no
\* array; "other" is true but of another type than the interface's.  "points" are
\* three to five texts, "empty" stands for any other number of them; "partial"
\* advice lacks a term.
Interpretations == [tldr : {"missing", "other", "text"},
                    key_points : {"missing", "empty", "other", "points"},
                    advice : {"missing", "partial", "other", "terms"},
                    warnings : {"missing", "other", "text"}]
NoJson == [json |-> "none"]
Nothing == [interpretation |-> "none"]
Complete == [tldr |-> "text", key_points |-> "points", advice |-> "terms",
             warnings |-> "text"]

GuidanceTypeOK ==
  /\ words \in [Keywords -> 0 .. MaxWords]
  /\ analysis \in Analyses \union {NoAnalysis}
  /\ resources \in BOOLEAN
  /\ llm \in {"mock", "no client", "client"}
  /\ asking \in {"idle", "cards", "prompt", "model"}
  /\ prompt \in {"", "INTERPRETATION_V1", "CRISIS_SENSITIVE_PROMPT"}
  /\ reply \in Interpretations \union {NoJson, Nothing}
  /\ interpretation \in Interpretations \union {Nothing}

\* USE_MOCK_LLM, then the key of the API.
GuidanceInit ==
  /\ words = [k \in Keywords |-> 0]
  /\ analysis = NoAnalysis /\ resources = FALSE
  /\ llm \in {"mock", "no client", "client"}
  /\ asking = "idle" /\ prompt = ""
  /\ reply = Nothing /\ interpretation = Nothing

-----------------------------------------------------------------------------
(***************************************************************************)
(* POST /sessions: SentimentAnalyzer.analyze, CrisisDetector.detect.       *)
(***************************************************************************)

\* Hundredths, as toFixed(2) rounds them: halves away from zero.
Ratio(a, b) ==
  IF a < 0 THEN -((200 * (-a) + b) \div (2 * b)) ELSE (200 * a + b) \div (2 * b)

\* Its crisis_level is a default, which detect replaces.
Analyze ==
  LET negative == Number(NegativeKeywords)
      positive == Number(PositiveKeywords)
      total == IF negative + positive = 0 THEN 1 ELSE negative + positive
      score == positive - negative
      confidence == 50 + 20 * (negative + positive)
  IN [score |-> Ratio(score, total),
      label |-> IF 10 * score < -3 * total THEN "negative"
                ELSE IF 10 * score > 3 * total THEN "positive" ELSE "neutral",
      confidence |-> IF confidence > 95 THEN 95 ELSE confidence,
      crisis_level |-> "none"]

\* mutant: the score decides before the keywords do.
DetectByScore(sentiment) ==
  IF sentiment.score >= 0 THEN "none"
  ELSE IF Number(CrisisKeywords) > 0 THEN "immediate"
  ELSE IF Number(ModerateKeywords) > 0 /\ sentiment.score < -50 THEN "high"
  ELSE IF sentiment.score < -70 THEN "moderate" ELSE "none"

Detect(sentiment) ==
  IF Number(CrisisKeywords) > 0 THEN "immediate"
  ELSE IF Number(ModerateKeywords) > 0 /\ sentiment.score < -50 THEN "high"
  ELSE IF sentiment.score < -70 THEN "moderate"
  ELSE "none"

ShouldShowResources(level) == level \in {"high", "immediate"}

\* The user writes, having left the last reading.
WriteWord(kind) ==
  /\ asking = "idle" /\ Number(Keywords) < MaxWords
  /\ words' = [words EXCEPT ![kind] = @ + 1]
  /\ prompt' = "" /\ reply' = Nothing /\ interpretation' = Nothing
  /\ UNCHANGED <<analysis, resources, llm, asking>>

\* An analysis that throws is answered as a neutral one.  The input is empty
\* after it.
AnalyzeSentiment ==
  /\ asking = "idle"
  /\ \E sentiment \in {Analyze, [score |-> 0, label |-> "neutral",
                                 confidence |-> 50, crisis_level |-> "none"]} :
       analysis' = [sentiment EXCEPT !.crisis_level = Detect(sentiment)]
  /\ resources' = ShouldShowResources(analysis'.crisis_level)
  /\ words' = [k \in Keywords |-> 0]
  /\ UNCHANGED <<llm, asking, prompt, reply, interpretation>>

-----------------------------------------------------------------------------
(***************************************************************************)
(* POST /readings: Orchestrator.executeReading.                            *)
(***************************************************************************)

\* The route hands on no user_input: the reading knows nothing of a crisis.  The
\* input is off the page by then.
ReadingRequest ==
  /\ asking = "idle" /\ analysis # NoAnalysis /\ Number(Keywords) = 0
  /\ asking' = "cards"
  /\ interpretation' = Nothing /\ reply' = Nothing /\ prompt' = ""
  /\ UNCHANGED <<words, analysis, resources, llm>>

AnswerReading(text) == interpretation' = text /\ asking' = "idle"

\* Both have every part; the mock three to five points.
MockInterpretation == Complete
FallbackInterpretation == Complete

\* The cards are drawn, or the reading fails; generate() answers the mock, or
\* builds a prompt.  The model it selects is not used.
Generate ==
  /\ asking = "cards"
  /\ \/ asking' = "idle" /\ UNCHANGED <<prompt, interpretation>>
     \/ /\ llm = "mock"
        /\ AnswerReading(MockInterpretation) /\ UNCHANGED prompt
     \/ /\ llm # "mock"
        /\ asking' = "prompt" /\ UNCHANGED <<prompt, interpretation>>
  /\ UNCHANGED <<words, analysis, resources, llm, reply>>

BuildPrompt(crisisLevel) ==
  IF crisisLevel # "none" THEN "CRISIS_SENSITIVE_PROMPT" ELSE "INTERPRETATION_V1"

CallLLM ==
  /\ asking = "prompt"
  /\ prompt' = BuildPrompt("none")
  /\ IF llm = "no client" THEN AnswerReading(FallbackInterpretation)
     ELSE asking' = "model" /\ UNCHANGED interpretation
  /\ UNCHANGED <<words, analysis, resources, llm, reply>>

\* mutant: whatever is JSON is taken.
ValidJson(text) == text # NoJson

\* Three parts must be true, and one an array: no type but that is looked at, no
\* number of points, and nothing inside the advice.
Valid(text) ==
  /\ text # NoJson
  /\ text.tldr # "missing" /\ text.key_points # "missing"
  /\ text.advice # "missing" /\ text.warnings # "missing"

ModelAnswers ==
  /\ asking = "model"
  /\ reply' \in Interpretations \union {NoJson}
  /\ AnswerReading(IF Valid(reply') THEN reply' ELSE FallbackInterpretation)
  /\ UNCHANGED <<words, analysis, resources, llm, prompt>>

\* The call of the model throws, or times out in its library.
ModelFails ==
  /\ asking = "model"
  /\ AnswerReading(FallbackInterpretation)
  /\ UNCHANGED <<words, analysis, resources, llm, prompt, reply>>

GuidanceNext ==
  \/ \E kind \in Keywords : WriteWord(kind)
  \/ AnalyzeSentiment \/ ReadingRequest \/ Generate \/ CallLLM
  \/ ModelAnswers \/ ModelFails

GuidanceSpec == GuidanceInit /\ [][GuidanceNext]_guidanceVars

-----------------------------------------------------------------------------
(***************************************************************************)
(* Properties                                                              *)
(***************************************************************************)

RankOf(level) == CHOOSE i \in 1 .. 4 : Levels[i] = level

\* Words of distress never make a text look safer: one that gains such a word
\* is not put at a lower level than before, whatever the lists share; one with
\* a crisis keyword gets the resources whatever else it says, and even when the
\* analysis of its sentiment fails.
DistressNeverHides ==
  /\ [][\A k \in Keywords \ {"positive"} : WriteWord(k) =>
          RankOf(Detect(Analyze)') >= RankOf(Detect(Analyze))]_guidanceVars
  /\ [][AnalyzeSentiment /\ Number(CrisisKeywords) > 0 => resources']_guidanceVars

\* The page can read what a reading is answered with: it maps over the key
\* points and takes the terms of the advice unasked, which throws where one is
\* missing.  Whatever the model says or fails to say, the interpretation is what
\* it said or the complete one, and no part is missing.
InterpretationCanBeRead ==
  interpretation # Nothing =>
    /\ interpretation.tldr # "missing" /\ interpretation.key_points # "missing"
    /\ interpretation.advice # "missing" /\ interpretation.warnings # "missing"
    /\ interpretation = reply \/ interpretation = Complete

\* The interface of the API and the data model say what each part is, and how
\* many the key points are.  The validation does not ask: TLC finds it violated.
InterpretationIsTyped == interpretation # Nothing => interpretation = Complete
=============================================================================
