------------------------ MODULE CardGenerationProofs ------------------------
(***************************************************************************)
(* What a card shows is consistent although its statements share no        *)
(* transaction, for any archive, queries and sample minimums: because the  *)
(* archive only grows, a later answer covers an earlier one of a narrower  *)
(* question, and what is found missing was missing from the start.         *)
(***************************************************************************)
EXTENDS CardGeneration, FiniteSetTheorems, TLAPS

(* An answer to a question: for every key some of the matches it counts now, *)
(* and at least those it counted when the generation began, or a match in    *)
(* place of those if only the newest were listed.                            *)
Answered(question, answer) ==
  /\ DOMAIN answer = question.keys
  /\ \A key \in question.keys :
       /\ answer[key] \subseteq Population(question, key)
       /\ question.latest = 0 => PopulationIn(job.begun, question, key) \subseteq answer[key]
       /\ PopulationIn(job.begun, question, key) # {} => answer[key] # {}

Asked(name) == name \in DOMAIN job.answers

QuestionNow(name) == QuestionOf(job.query, name, job.answers)

(* The archive only grows, in what is archived as in what is recorded. *)
ArchiveGrew ==
  /\ archived \subseteq recorded /\ recorded \subseteq MatchId
  /\ job.begun.archived \subseteq archived /\ job.begun.recorded \subseteq recorded

JobShape ==
  /\ job = [query |-> job.query, answers |-> job.answers, begun |-> job.begun,
            outcome |-> job.outcome]
  /\ job.query \in Query

AnswersFit == \A name \in DOMAIN job.answers : Answered(QuestionNow(name), job.answers[name])

(* What an answer was needed for. *)
NeededFirst ==
  /\ job.query.template = "h2h_record" /\ ~ (DOMAIN job.answers \subseteq Overall) =>
       Overall \subseteq DOMAIN job.answers
  /\ job.query.template = "venue_dna" =>
       /\ Asked("country") => Asked("venue") /\ TooFew(job.answers["venue"]["all"])
       /\ Asked("benchmarks") => Asked("venue") /\ ~ TooFew(Sample(job.answers))

(* Once the wide answer is there the one it is to cover is as well. *)
CoveredBy(name, wide) ==
  Asked(wide) =>
    /\ Asked(name)
    /\ \A key \in DOMAIN job.answers[name] : job.answers[name][key] \subseteq job.answers[wide][key]

CareersCover ==
  /\ job.query.template = "player_stats_at_venue" =>
       CoveredBy("batting", "career_batting") /\ CoveredBy("bowling", "career_bowling")
  /\ job.query.template = "team_phase_profiles" => CoveredBy("phases", "career_phases")
  /\ job.query.template = "last_5_games" =>
       /\ Asked("career_batting") =>
            /\ Asked("games")
            /\ \A p \in DOMAIN job.answers["games"] : \A m \in job.answers["games"][p] :
                 p \in Matches[m].batted => m \in job.answers["career_batting"][p]
       /\ Asked("career_bowling") =>
            /\ Asked("games")
            /\ \A p \in DOMAIN job.answers["games"] : \A m \in job.answers["games"][p] :
                 p \in Matches[m].bowled => m \in job.answers["career_bowling"][p]

BenchmarksCover ==
  job.query.template = "venue_dna" /\ Asked("benchmarks") =>
    \A m \in Sample(job.answers) : \A phase \in Phase :
      Counts("ball_phase", m, phase) => m \in job.answers["benchmarks"][phase]

(* How a generation ends follows from its answers. *)
EndFits ==
  job.outcome \in {"content", "no_content", "unencodable", "sample"} =>
    /\ Usable(job.query.template, job.query.filters)
    /\ Unasked(job.query, job.answers) = {}
    /\ job.outcome = Ending(job.query, job.answers)

CardInv ==
  /\ ArchiveGrew
  /\ JobShape
  /\ AnswersFit
  /\ NeededFirst
  /\ CareersCover
  /\ BenchmarksCover
  /\ SlicesAgree
  /\ EndFits

-----------------------------------------------------------------------------
(* Populations and answers *)

(* What a question counts only grows with the archive. *)
LEMMA PopulationGrows ==
  ASSUME archived \subseteq archived', recorded \subseteq recorded', NEW question, NEW key
  PROVE  Population(question, key) \subseteq Population(question, key)'
  BY DEF Population, PopulationIn, Tables, InScope, Counts

(* What was there at the beginning is counted still. *)
LEMMA BegunPopulation ==
  ASSUME ArchiveGrew, NEW question, NEW key
  PROVE  PopulationIn(job.begun, question, key) \subseteq Population(question, key)
  BY DEF ArchiveGrew, Population, PopulationIn, Tables

(* A question counts some of the finitely many matches. *)
LEMMA PopulationFinite ==
  ASSUME ArchiveGrew, NEW question, NEW key
  PROVE  IsFiniteSet(Population(question, key)) /\ Population(question, key) \subseteq MatchId
  <1>1. Population(question, key) \subseteq MatchId
    BY DEF ArchiveGrew, Population, PopulationIn, Tables
  <1>2. QED
    BY <1>1, HistoryAssumption, FS_Subset

(* The newest of some matches are none only if there is none, and leave out  *)
(* only what they push out.                                                  *)
LEMMA NewestFacts ==
  ASSUME NEW matches, IsFiniteSet(matches), NEW n \in Nat \ {0}, NEW list \in Newest(matches, n)
  PROVE  /\ list \subseteq matches
         /\ matches # {} => list # {}
         /\ \A m \in matches : m \in list \/ PushedOut(m, list, n)
  <1>1. /\ list \subseteq matches
        /\ Cardinality(list) = IF Cardinality(matches) < n THEN Cardinality(matches) ELSE n
        /\ \A m \in list, other \in matches \ list : Matches[m].start >= Matches[other].start
    BY DEF Newest
  <1>2. Cardinality(matches) \in Nat
    BY FS_CardinalityType
  <1>3. matches # {} => list # {}
    <2>1. matches # {} => Cardinality(matches) # 0
      BY FS_EmptySet
    <2>2. Cardinality({}) = 0
      BY FS_EmptySet
    <2>3. QED
      BY <1>1, <1>2, <2>1, <2>2
  <1>4. ASSUME NEW m \in matches, m \notin list
        PROVE  PushedOut(m, list, n)
    <2>1. Cardinality(list) # Cardinality(matches)
      BY <1>1, <1>4, FS_Subset
    <2>2. Cardinality(list) = n
      BY <1>1, <2>1
    <2>3. QED
      BY <1>1, <1>4, <2>2 DEF PushedOut
  <1>5. QED
    BY <1>1, <1>3, <1>4

(* All the matches of a key, or the newest of them. *)
LEMMA AnswerFacts ==
  ASSUME NEW question, NEW answer \in Answers(question)
  PROVE  /\ DOMAIN answer = question.keys
         /\ \A key \in question.keys :
              IF question.latest = 0 THEN answer[key] = Population(question, key)
              ELSE answer[key] \in Newest(Population(question, key), question.latest)
  <1>1. CASE question.latest = 0
    BY <1>1 DEF Answers
  <1>2. CASE question.latest # 0
    BY <1>2 DEF Answers
  <1>3. QED
    BY <1>1, <1>2

Limited(question) == question.latest \in Nat \ {0}

(* An answer fits its question when it is given ... *)
LEMMA AnswerFits ==
  ASSUME ArchiveGrew, NEW question, question.latest = 0 \/ Limited(question),
         NEW answer \in Answers(question)
  PROVE  Answered(question, answer)
  <1>1. /\ DOMAIN answer = question.keys
        /\ \A key \in question.keys :
             IF question.latest = 0 THEN answer[key] = Population(question, key)
             ELSE answer[key] \in Newest(Population(question, key), question.latest)
    BY AnswerFacts
  <1>2. ASSUME NEW key \in question.keys
        PROVE  /\ answer[key] \subseteq Population(question, key)
               /\ question.latest = 0 => PopulationIn(job.begun, question, key) \subseteq answer[key]
               /\ PopulationIn(job.begun, question, key) # {} => answer[key] # {}
    <2>1. PopulationIn(job.begun, question, key) \subseteq Population(question, key)
      BY BegunPopulation
    <2>2. CASE question.latest = 0
      BY <1>1, <2>1, <2>2
    <2>3. CASE question.latest # 0
      <3>1. answer[key] \in Newest(Population(question, key), question.latest)
        BY <1>1, <2>3
      <3>2. IsFiniteSet(Population(question, key)) /\ question.latest \in Nat \ {0}
        BY <2>3, PopulationFinite DEF Limited
      <3>3. /\ answer[key] \subseteq Population(question, key)
            /\ Population(question, key) # {} => answer[key] # {}
        BY <3>1, <3>2, NewestFacts
      <3>4. QED
        BY <2>1, <2>3, <3>3
    <2>4. QED
      BY <2>2, <2>3
  <1>3. QED
    BY <1>1, <1>2 DEF Answered

(* ... and goes on to fit it, however the archive grows. *)
LEMMA AnsweredStays ==
  ASSUME archived \subseteq archived', recorded \subseteq recorded', job'.begun = job.begun,
         NEW question, NEW answer, Answered(question, answer)
  PROVE  Answered(question, answer)'
  <1>1. \A key \in question.keys : Population(question, key) \subseteq Population(question, key)'
    BY PopulationGrows
  <1>2. QED
    BY <1>1 DEF Answered, PopulationIn

-----------------------------------------------------------------------------
(* Asking *)

NarrowNames ==
  {"h2h_at_venue", "form_a_at_venue", "form_b_at_venue", "form_a_in_country", "form_b_in_country"}

(* The name whose answer comes next, and the answer. *)
Answering(name, answer) ==
  /\ Usable(job.query.template, job.query.filters)
  /\ name \notin DOMAIN job.answers
  /\ Due(job.query, job.answers, name)
  /\ \E i \in DOMAIN Order[job.query.template] :
       /\ name = Order[job.query.template][i]
       /\ \A j \in DOMAIN Order[job.query.template] :
            j < i /\ Due(job.query, job.answers, Order[job.query.template][j]) =>
              Order[job.query.template][j] \in DOMAIN job.answers
  /\ answer \in Answers(QuestionNow(name))
  /\ job'.query = job.query /\ job'.begun = job.begun /\ job'.outcome = job.outcome
  /\ job'.answers = Over([n \in {name} |-> answer], job.answers)
  /\ DOMAIN job'.answers = DOMAIN job.answers \cup {name}
  /\ job'.answers[name] = answer
  /\ \A n \in DOMAIN job.answers : job'.answers[n] = job.answers[n]
  /\ UNCHANGED <<recorded, archived>>

(* The places of the longest order, one by one. *)
LEMMA UpTo8 ==
  /\ \A i \in 1 .. 2 : i \in {1, 2}
  /\ \A i \in 1 .. 3 : i \in {1, 2, 3}
  /\ \A i \in 1 .. 4 : i \in {1, 2, 3, 4}
  /\ \A i \in 1 .. 8 : i \in {1, 2, 3, 4, 5, 6, 7, 8}
  OBVIOUS
(* The names of every template, place by place. *)
LEMMA OrderOf ==
  ASSUME NEW t
  PROVE  /\ t = "h2h_record" =>
              /\ DOMAIN Order[t] = 1 .. 8
              /\ Order[t][1] = "h2h" /\ Order[t][2] = "form_a" /\ Order[t][3] = "form_b"
              /\ Order[t][4] = "h2h_at_venue" /\ Order[t][5] = "form_a_at_venue"
              /\ Order[t][6] = "form_b_at_venue" /\ Order[t][7] = "form_a_in_country"
              /\ Order[t][8] = "form_b_in_country"
         /\ t = "team_form" =>
              DOMAIN Order[t] = 1 .. 2 /\ Order[t][1] = "form_a" /\ Order[t][2] = "form_b"
         /\ t = "venue_dna" =>
              /\ DOMAIN Order[t] = 1 .. 3
              /\ Order[t][1] = "venue" /\ Order[t][2] = "country" /\ Order[t][3] = "benchmarks"
         /\ t = "player_stats_at_venue" =>
              /\ DOMAIN Order[t] = 1 .. 4
              /\ Order[t][1] = "batting" /\ Order[t][2] = "bowling"
              /\ Order[t][3] = "career_batting" /\ Order[t][4] = "career_bowling"
         /\ t = "last_5_games" =>
              /\ DOMAIN Order[t] = 1 .. 3
              /\ Order[t][1] = "games" /\ Order[t][2] = "career_batting"
              /\ Order[t][3] = "career_bowling"
         /\ t = "team_phase_profiles" =>
              DOMAIN Order[t] = 1 .. 2 /\ Order[t][1] = "phases" /\ Order[t][2] = "career_phases"
  <1>1. CASE t = "h2h_record"
    BY <1>1 DEF Order
  <1>2. CASE t = "team_form"
    BY <1>2 DEF Order
  <1>3. CASE t = "venue_dna"
    BY <1>3 DEF Order
  <1>4. CASE t = "player_stats_at_venue"
    BY <1>4 DEF Order
  <1>5. CASE t = "last_5_games"
    BY <1>5 DEF Order
  <1>6. CASE t = "team_phase_profiles"
    BY <1>6 DEF Order
  <1>7. QED
    BY <1>1, <1>2, <1>3, <1>4, <1>5, <1>6

(* Places are numbers. *)
LEMMA OrderDomains ==
  ASSUME NEW query \in Query
  PROVE  DOMAIN Order[query.template] \subseteq Nat
  <1>1. query.template \in CardSetTemplates
    BY QueryAssumption
  <1>2. \E n \in {2, 3, 4, 8} : DOMAIN Order[query.template] = 1 .. n
    BY <1>1, OrderOf DEF CardSetTemplates
  <1>3. QED
    BY <1>2

(* Nothing holds back a question of the other templates. *)
LEMMA AllDue ==
  ASSUME NEW query, query.template \notin {"h2h_record", "venue_dna"}, NEW answers, NEW name
  PROVE  Due(query, answers, name)
  BY DEF Due

(* Ask answers the first question that is due. *)
LEMMA AskAnswers ==
  ASSUME CardInv, Ask
  PROVE  \E name, answer : Answering(name, answer)
  <1> DEFINE order == Order[job.query.template]
             unasked == Unasked(job.query, job.answers)
  <1>1. PICK i \in unasked :
          /\ \A j \in unasked : i <= j
          /\ \E answer \in Answers(QuestionNow(order[i])) :
               job' = [job EXCEPT !.answers = Over([n \in {order[i]} |-> answer], job.answers)]
    BY DEF Ask, QuestionNow
  <1> PICK answer \in Answers(QuestionNow(order[i])) :
        job' = [job EXCEPT !.answers = Over([n \in {order[i]} |-> answer], job.answers)]
    BY <1>1
  <1>2. /\ i \in DOMAIN order /\ order[i] \notin DOMAIN job.answers
        /\ Due(job.query, job.answers, order[i])
    BY DEF Unasked
  <1>3. ASSUME NEW j \in DOMAIN order, j < i, Due(job.query, job.answers, order[j])
        PROVE  order[j] \in DOMAIN job.answers
    <2>1. DOMAIN order \subseteq Nat
      BY OrderDomains DEF CardInv, JobShape
    <2>2. j \notin unasked
      BY <1>1, <1>2, <1>3, <2>1
    <2>3. QED
      BY <1>3, <2>2 DEF Unasked
  <1>4. /\ job'.query = job.query /\ job'.begun = job.begun /\ job'.outcome = job.outcome
        /\ job'.answers = Over([n \in {order[i]} |-> answer], job.answers)
    BY <1>1 DEF CardInv, JobShape
  <1>5. /\ DOMAIN job'.answers = DOMAIN job.answers \cup {order[i]}
        /\ job'.answers[order[i]] = answer
        /\ \A n \in DOMAIN job.answers : job'.answers[n] = job.answers[n]
    BY <1>2, <1>4 DEF Over
  <1>6. Usable(job.query.template, job.query.filters) /\ UNCHANGED <<recorded, archived>>
    BY DEF Ask, NextQuestion
  <1>7. Answering(order[i], answer)
    BY <1>1, <1>2, <1>3, <1>4, <1>5, <1>6 DEF Answering
  <1>8. QED
    BY <1>7

(* Which names can be next, and what has been answered before: the narrow    *)
(* slices come after all of the wide ones.                                   *)
LEMMA H2HNext ==
  ASSUME NEW name, NEW answer, Answering(name, answer), job.query.template = "h2h_record"
  PROVE  name \in Overall \/ (name \in NarrowNames /\ Overall \subseteq DOMAIN job.answers)
  <1> DEFINE order == Order[job.query.template]
  <1>1. PICK i \in 1 .. 8 : name = order[i]
    BY OrderOf DEF Answering
  <1>2. name \in Overall \cup NarrowNames
    <2>1. i \in {1, 2, 3} => name \in {"h2h", "form_a", "form_b"}
      BY <1>1, OrderOf
    <2>2. i \in {4, 5, 6, 7, 8} => name \in NarrowNames
      <3>1. /\ order[4] \in NarrowNames /\ order[5] \in NarrowNames /\ order[6] \in NarrowNames
            /\ order[7] \in NarrowNames /\ order[8] \in NarrowNames
        BY OrderOf DEF NarrowNames
      <3>2. QED
        BY <1>1, <3>1
    <2>3. QED
      BY <2>1, <2>2, UpTo8 DEF Overall
  <1>3. QED
    BY <1>2 DEF Answering, Due, H2HDue

(* The form of either team. *)
LEMMA TeamFormNext ==
  ASSUME NEW name, NEW answer, Answering(name, answer), job.query.template = "team_form"
  PROVE  name \in {"form_a", "form_b"}
  <1> DEFINE order == Order[job.query.template]
  <1>1. PICK i \in 1 .. 2 : name = order[i]
    BY OrderOf DEF Answering
  <1>2. QED
    BY <1>1, OrderOf, UpTo8

(* The country is asked for too few matches, the benchmarks for enough. *)
LEMMA VenueNext ==
  ASSUME NEW name, NEW answer, Answering(name, answer), job.query.template = "venue_dna"
  PROVE  \/ name = "venue"
         \/ name = "country" /\ Asked("venue") /\ TooFew(job.answers["venue"]["all"])
         \/ name = "benchmarks" /\ Asked("venue") /\ ~ TooFew(Sample(job.answers))
  <1> DEFINE order == Order[job.query.template]
  <1>1. PICK i \in 1 .. 3 : name = order[i]
    BY OrderOf DEF Answering
  <1>2. name \in {"venue", "country", "benchmarks"}
    BY <1>1, OrderOf, UpTo8
  <1>3. QED
    BY <1>2 DEF Answering, Due, VenueDue, Asked

(* The careers come after both statements about the venue. *)
LEMMA PlayerNext ==
  ASSUME NEW name, NEW answer, Answering(name, answer), job.query.template = "player_stats_at_venue"
  PROVE  \/ name \in {"batting", "bowling"}
         \/ /\ name \in {"career_batting", "career_bowling"}
            /\ Asked("batting") /\ Asked("bowling")
  <1> DEFINE order == Order[job.query.template]
  <1>1. PICK i \in 1 .. 4 :
          name = order[i] /\ \A j \in 1 .. 4 : j < i => order[j] \in DOMAIN job.answers
    BY OrderOf, AllDue DEF Answering
  <1>2. i \in {3, 4} => Asked(order[1]) /\ Asked(order[2])
    BY <1>1 DEF Asked
  <1>3. QED
    BY <1>1, <1>2, OrderOf, UpTo8

(* The careers come after the newest games. *)
LEMMA GamesNext ==
  ASSUME NEW name, NEW answer, Answering(name, answer), job.query.template = "last_5_games"
  PROVE  \/ name = "games"
         \/ name \in {"career_batting", "career_bowling"} /\ Asked("games")
  <1> DEFINE order == Order[job.query.template]
  <1>1. PICK i \in 1 .. 3 :
          name = order[i] /\ \A j \in 1 .. 3 : j < i => order[j] \in DOMAIN job.answers
    BY OrderOf, AllDue DEF Answering
  <1>2. i \in {2, 3} => Asked(order[1])
    BY <1>1 DEF Asked
  <1>3. QED
    BY <1>1, <1>2, OrderOf, UpTo8

(* The career comes after the window. *)
LEMMA PhaseNext ==
  ASSUME NEW name, NEW answer, Answering(name, answer), job.query.template = "team_phase_profiles"
  PROVE  name = "phases" \/ (name = "career_phases" /\ Asked("phases"))
  <1> DEFINE order == Order[job.query.template]
  <1>1. PICK i \in 1 .. 2 :
          name = order[i] /\ \A j \in 1 .. 2 : j < i => order[j] \in DOMAIN job.answers
    BY OrderOf, AllDue DEF Answering
  <1>2. i = 2 => Asked(order[1])
    BY <1>1 DEF Asked
  <1>3. QED
    BY <1>1, <1>2, OrderOf, UpTo8

-----------------------------------------------------------------------------
(* The questions *)

(* The generator of each template. *)
LEMMA QuestionsOf ==
  ASSUME NEW query, NEW name, NEW answers
  PROVE  LET question == QuestionOf(query, name, answers)
             filters == query.filters
         IN /\ query.template = "h2h_record" => question = H2HQuestion(filters, name)
            /\ query.template = "team_form" => question = TeamFormQuestion(filters, name)
            /\ query.template = "venue_dna" => question = VenueQuestion(filters, name, answers)
            /\ query.template \in {"player_stats_at_venue", "last_5_games"} =>
                 question = PlayerQuestion(filters, name)
            /\ query.template = "team_phase_profiles" => question = PhaseQuestion(filters, name)
  BY DEF QuestionOf

(* A plain question: all matches, and none that is in play. *)
LEMMA QuestionFields ==
  ASSUME NEW what, NEW keys, NEW scope
  PROVE  /\ Question(what, keys, scope).what = what
         /\ Question(what, keys, scope).keys = keys
         /\ Question(what, keys, scope).scope = scope
         /\ Question(what, keys, scope).latest = 0
         /\ ~ Question(what, keys, scope).inPlay
  BY DEF Question

(* The questions of h2h.go. *)
LEMMA H2HFields ==
  ASSUME NEW filters, NEW name
  PROVE  LET question == H2HQuestion(filters, name)
         IN /\ name \in {"h2h", "h2h_at_venue"} =>
                 /\ question.what = "between" /\ question.keys = {Teams(filters)}
                 /\ question.latest = Latest(filters)
            /\ name \notin {"h2h", "h2h_at_venue"} =>
                 /\ question.what = "plays" /\ question.keys = {FormKey(filters, name)}
                 /\ question.latest = FormLatest(filters)
            /\ question.scope = H2HScope(filters, name)
            /\ ~ question.inPlay
  BY DEF H2HQuestion, Question

VenueScope(filters, name, answers) ==
  InWindow(Scope(Format(filters), VenuesOf(filters, name, answers)),
           IF HasWord(filters, "window") THEN filters.window[2] ELSE "")

(* The questions of venue_dna.go. *)
LEMMA VenueFields ==
  ASSUME NEW filters, NEW name, NEW answers
  PROVE  LET question == VenueQuestion(filters, name, answers)
         IN /\ name = "benchmarks" => question.what = "ball_phase" /\ question.keys = Phase
            /\ name # "benchmarks" => question.what = "first_innings" /\ question.keys = {"all"}
            /\ question.scope = VenueScope(filters, name, answers)
            /\ question.latest = 0 /\ ~ question.inPlay
  <1>1. VenueQuestion(filters, name, answers) =
          LET scope == VenueScope(filters, name, answers)
          IN IF name = "benchmarks" THEN Question("ball_phase", Phase, scope)
                                    ELSE Question("first_innings", {"all"}, scope)
    BY DEF VenueQuestion, VenueScope
  <1>2. QED
    BY <1>1, QuestionFields

PlayerScope(filters) ==
  InWindow(Scope(Format(filters), {IdOf(filters, "venue")}), filters.window[2])

(* The questions of player_venue.go and last5.go. *)
LEMMA PlayerFields ==
  ASSUME NEW filters, NEW name
  PROVE  LET question == PlayerQuestion(filters, name)
         IN /\ name = "games" => question.what = "appears"
            /\ name \in {"batting", "career_batting"} => question.what = "bats"
            /\ name \in {"bowling", "career_bowling"} => question.what = "bowls"
            /\ question.keys = ToSet(filters.players[2])
            /\ question.scope = (IF name \in {"batting", "bowling"} THEN PlayerScope(filters)
                                                                    ELSE Anywhere(filters))
            /\ question.latest = (IF name = "games" THEN Latest(filters) ELSE 0)
            /\ question.inPlay
  BY DEF PlayerQuestion, Question, PlayerScope

(* The questions of phase_profiles.go. *)
LEMMA PhaseFields ==
  ASSUME NEW filters, NEW name
  PROVE  LET question == PhaseQuestion(filters, name)
         IN /\ question.what = "phase" /\ question.keys = Teams(filters) \X Phase
            /\ name = "phases" =>
                 question.scope = InWindow(Anywhere(filters), filters.window[2])
            /\ name # "phases" => question.scope = Anywhere(filters)
            /\ question.latest = 0 /\ ~ question.inPlay
  BY DEF PhaseQuestion, Question

(* A window changes the first date of a scope alone. *)
LEMMA WindowFields ==
  ASSUME NEW format, NEW venues, NEW window
  PROVE  LET scope == Scope(format, venues)
             windowed == InWindow(scope, window)
         IN /\ scope.format = format /\ scope.venues = venues
            /\ scope.from = 0 /\ scope.before = Ever
            /\ windowed.format = format /\ windowed.venues = venues
            /\ windowed.from \in {0, Since2024} /\ windowed.before = Ever
  BY DEF InWindow, Scope

(* How many a question lists is none, for all of them, or positive. *)
LEMMA LimitsFit ==
  ASSUME CardInv, NEW name, NEW answer, Answering(name, answer)
  PROVE  QuestionNow(name).latest = 0 \/ Limited(QuestionNow(name))
  <1> DEFINE filters == job.query.filters
             question == QuestionNow(name)
  <1>1. /\ job.query \in Query /\ job.query.template \in CardSetTemplates
        /\ Usable(job.query.template, filters)
    BY QueryAssumption DEF CardInv, JobShape, Answering
  <1>2. HasCount(filters, "latest_matches") => Latest(filters) \in Nat \ {0}
    BY <1>1, QueryAssumption DEF Latest
  <1>3. FormLatest(filters) \in Nat \ {0}
    BY <1>1, QueryAssumption DEF FormLatest
  <1>4. CASE job.query.template = "h2h_record"
    <2>1. question = H2HQuestion(filters, name)
      BY <1>4, QuestionsOf DEF QuestionNow
    <2>2. Latest(filters) \in Nat \ {0}
      BY <1>1, <1>2, <1>4 DEF Usable
    <2>3. question.latest \in {Latest(filters), FormLatest(filters)}
      BY <2>1, H2HFields
    <2>4. QED
      BY <1>3, <2>2, <2>3 DEF Limited
  <1>5. CASE job.query.template = "team_form"
    <2>1. question = TeamFormQuestion(filters, name)
      BY <1>5, QuestionsOf DEF QuestionNow
    <2>2. Latest(filters) \in Nat \ {0}
      BY <1>1, <1>2, <1>5 DEF Usable
    <2>3. QED
      BY <2>1, <2>2 DEF TeamFormQuestion, Question, Limited
  <1>6. CASE job.query.template = "venue_dna"
    BY <1>6, QuestionsOf, VenueFields DEF QuestionNow
  <1>7. CASE job.query.template = "player_stats_at_venue"
    <2>1. name # "games"
      BY <1>7, PlayerNext
    <2>2. QED
      BY <1>7, <2>1, QuestionsOf, PlayerFields DEF QuestionNow
  <1>8. CASE job.query.template = "last_5_games"
    <2>1. Latest(filters) \in Nat \ {0}
      BY <1>1, <1>2, <1>8 DEF Usable
    <2>2. question = PlayerQuestion(filters, name)
      BY <1>8, QuestionsOf DEF QuestionNow
    <2>3. question.latest \in {0, Latest(filters)}
      BY <2>2, PlayerFields
    <2>4. QED
      BY <2>1, <2>3 DEF Limited
  <1>9. CASE job.query.template = "team_phase_profiles"
    BY <1>9, QuestionsOf, PhaseFields DEF QuestionNow
  <1>10. QED
    BY <1>1, <1>4, <1>5, <1>6, <1>7, <1>8, <1>9 DEF CardSetTemplates

(* The answers do not change what has been asked: the benchmarks are asked   *)
(* for when it is decided whether the sample is of the country.              *)
LEMMA QuestionKept ==
  ASSUME CardInv, NEW name, NEW answer, Answering(name, answer),
         NEW n \in DOMAIN job.answers \cup {name}
  PROVE  QuestionOf(job.query, n, job'.answers) = QuestionOf(job.query, n, job.answers)
  <1>1. CASE job.query.template # "venue_dna"
    BY <1>1 DEF QuestionOf
  <1>2. CASE job.query.template = "venue_dna"
    <2> DEFINE filters == job.query.filters
    <2>1. n = "benchmarks" => ("country" \in DOMAIN job'.answers <=> Asked("country"))
      <3>1. CASE n = name
        BY <3>1 DEF Answering, Asked
      <3>2. CASE n # name /\ n = "benchmarks"
        <4>1. ~ TooFew(Sample(job.answers))
          BY <1>2, <3>2 DEF CardInv, NeededFirst, Asked
        <4>2. name = "country" => TooFew(Sample(job.answers))
          BY <1>2, VenueNext DEF Answering, Sample, Asked
        <4>3. QED
          BY <4>1, <4>2 DEF Answering, Asked
      <3>3. QED
        BY <3>1, <3>2
    <2>2. VenuesOf(filters, n, job'.answers) = VenuesOf(filters, n, job.answers)
      BY <2>1 DEF VenuesOf, Asked
    <2>3. VenueQuestion(filters, n, job'.answers) = VenueQuestion(filters, n, job.answers)
      BY <2>2 DEF VenueQuestion
    <2>4. QED
      BY <1>2, <2>3, QuestionsOf
  <1>3. QED
    BY <1>1, <1>2

(* All answers, the new one as well, fit their questions. *)
LEMMA AskAnswersFit ==
  ASSUME CardInv, NEW name, NEW answer, Answering(name, answer)
  PROVE  AnswersFit'
  <1>1. Answered(QuestionNow(name), answer)
    BY AnswerFits, LimitsFit DEF CardInv, Answering
  <1>2. ASSUME NEW n \in DOMAIN job'.answers
        PROVE  Answered(QuestionNow(n), job.answers[n])'
    <2>1. PICK question : question = QuestionOf(job.query, n, job.answers)
      OBVIOUS
    <2>2. PICK given : given = job'.answers[n]
      OBVIOUS
    <2>3. QuestionNow(n)' = question
      BY <2>1, QuestionKept DEF QuestionNow, Answering
    <2>4. Answered(question, given)
      BY <1>1, <1>2, <2>1, <2>2 DEF Answering, CardInv, AnswersFit, QuestionNow
    <2>5. Answered(question, given)'
      BY <2>4, AnsweredStays DEF Answering
    <2>6. QED
      BY <2>2, <2>3, <2>5
  <1>3. QED
    BY <1>2 DEF AnswersFit


-----------------------------------------------------------------------------
(* What a further answer preserves *)

(* The new answer comes after those that it was needed for. *)
LEMMA AskNeededFirst ==
  ASSUME CardInv, NEW name, NEW answer, Answering(name, answer)
  PROVE  NeededFirst'
  <1>1. /\ DOMAIN job'.answers = DOMAIN job.answers \cup {name} /\ job'.query = job.query
        /\ \A n \in DOMAIN job.answers : job'.answers[n] = job.answers[n]
        /\ name \notin DOMAIN job.answers /\ NeededFirst
    BY DEF Answering, CardInv
  <1>2. ASSUME job.query.template = "h2h_record", ~ (DOMAIN job'.answers \subseteq Overall)
        PROVE  Overall \subseteq DOMAIN job'.answers
    BY <1>1, <1>2, H2HNext DEF NeededFirst
  <1>3. ASSUME job.query.template = "venue_dna"
        PROVE  /\ "country" \in DOMAIN job'.answers =>
                    "venue" \in DOMAIN job'.answers /\ TooFew(job'.answers["venue"]["all"])
               /\ "benchmarks" \in DOMAIN job'.answers =>
                    "venue" \in DOMAIN job'.answers /\ ~ TooFew(Sample(job'.answers))
    <2>1. CASE name = "venue"
      BY <1>1, <1>3, <2>1 DEF NeededFirst, Asked
    <2>2. CASE name = "country" /\ Asked("venue") /\ TooFew(job.answers["venue"]["all"])
      <3>1. ~ Asked("benchmarks")
        BY <1>1, <1>3, <2>2 DEF NeededFirst, Asked, Sample
      <3>2. QED
        BY <1>1, <1>3, <2>2, <3>1 DEF NeededFirst, Asked
    <2>3. CASE name = "benchmarks" /\ Asked("venue") /\ ~ TooFew(Sample(job.answers))
      <3>1. Sample(job'.answers) = Sample(job.answers)
        BY <1>1, <2>3 DEF Sample, Asked
      <3>2. QED
        BY <1>1, <1>3, <2>3, <3>1 DEF NeededFirst, Asked
    <2>4. QED
      BY <1>3, <2>1, <2>2, <2>3, VenueNext
  <1>4. QED
    BY <1>1, <1>2, <1>3 DEF NeededFirst, Asked

(* A match of a window or of some venues is one of the career as well. *)
LEMMA WithinCareer ==
  ASSUME ArchiveGrew, NEW m \in MatchId, NEW filters, NEW scope,
         scope.format = Format(filters), scope.before = Ever, InScope(m, scope)
  PROVE  InScope(m, Anywhere(filters))
  BY HistoryAssumption, WindowFields DEF InScope, Anywhere, AllVenues

(* The answer about the careers has what an earlier one counts for the same  *)
(* keys, be that of a window, of a venue or of the newest matches only.      *)
LEMMA CareerAnswer ==
  ASSUME CardInv, NEW name, NEW answer, Answering(name, answer), NEW what, Asked(what),
         QuestionNow(what).keys = QuestionNow(name).keys,
         QuestionNow(what).inPlay <=> QuestionNow(name).inPlay,
         QuestionNow(what).scope.format = Format(job.query.filters),
         QuestionNow(what).scope.before = Ever,
         QuestionNow(name).scope = Anywhere(job.query.filters),
         QuestionNow(name).latest = 0
  PROVE  \A key \in DOMAIN job.answers[what] : \A m \in job.answers[what][key] :
           /\ Counts(QuestionNow(what).what, m, key)
           /\ Counts(QuestionNow(name).what, m, key) => m \in answer[key]
  <1>1. Answered(QuestionNow(what), job.answers[what])
    BY DEF CardInv, AnswersFit, Asked
  <1> TAKE key \in DOMAIN job.answers[what]
  <1> TAKE m \in job.answers[what][key]
  <1>3. m \in Population(QuestionNow(what), key) /\ key \in QuestionNow(what).keys
    BY <1>1 DEF Answered
  <1>4. m \in MatchId /\ InScope(m, QuestionNow(what).scope)
    BY <1>3, PopulationFinite DEF CardInv, Population, PopulationIn
  <1>5. InScope(m, Anywhere(job.query.filters))
    BY <1>4, WithinCareer DEF CardInv
  <1>6. Counts(QuestionNow(name).what, m, key) => m \in Population(QuestionNow(name), key)
    BY <1>3, <1>5 DEF Population, PopulationIn
  <1>7. answer[key] = Population(QuestionNow(name), key)
    BY <1>3, AnswerFacts DEF Answering
  <1>8. Counts(QuestionNow(what).what, m, key)
    BY <1>3 DEF Population, PopulationIn
  <1>9. QED
    BY <1>6, <1>7, <1>8

(* A career that is asked for now covers what was asked for before. *)
LEMMA AskCareersCover ==
  ASSUME CardInv, NEW name, NEW answer, Answering(name, answer)
  PROVE  CareersCover'
  <1> DEFINE filters == job.query.filters
  <1>1. /\ DOMAIN job'.answers = DOMAIN job.answers \cup {name} /\ job'.query = job.query
        /\ job'.answers[name] = answer
        /\ \A n \in DOMAIN job.answers : job'.answers[n] = job.answers[n]
        /\ name \notin DOMAIN job.answers
        /\ CareersCover
    BY DEF Answering, CardInv
  <1>2. ASSUME job.query.template = "player_stats_at_venue",
               NEW what \in {"batting", "bowling"}, NEW career,
               career = IF what = "batting" THEN "career_batting" ELSE "career_bowling"
        PROVE  CoveredBy(what, career)'
    <2>1. CASE career = name
      <3>1. Asked(what)
        BY <1>2, <2>1, PlayerNext
      <3>2. /\ QuestionNow(what) = PlayerQuestion(filters, what)
            /\ QuestionNow(name) = PlayerQuestion(filters, name)
        BY <1>2, QuestionsOf DEF QuestionNow
      <3>3. /\ QuestionNow(what).keys = QuestionNow(name).keys
            /\ QuestionNow(what).what = QuestionNow(name).what
            /\ QuestionNow(what).inPlay /\ QuestionNow(name).inPlay
            /\ QuestionNow(what).scope = PlayerScope(filters)
            /\ QuestionNow(name).scope = Anywhere(filters)
            /\ QuestionNow(name).latest = 0
        BY <1>2, <2>1, <3>2, PlayerFields
      <3>4. QuestionNow(what).scope.format = Format(filters) /\ QuestionNow(what).scope.before = Ever
        BY <3>3, WindowFields DEF PlayerScope
      <3>5. \A key \in DOMAIN job.answers[what] : job.answers[what][key] \subseteq answer[key]
        BY <3>1, <3>3, <3>4, CareerAnswer
      <3>6. QED
        BY <1>1, <2>1, <3>1, <3>5 DEF CoveredBy, Asked
    <2>2. CASE career # name
      BY <1>1, <1>2, <2>2 DEF CareersCover, CoveredBy, Asked
    <2>3. QED
      BY <2>1, <2>2
  <1>3. ASSUME job.query.template = "team_phase_profiles"
        PROVE  CoveredBy("phases", "career_phases")'
    <2>1. CASE name = "career_phases"
      <3>1. Asked("phases")
        BY <1>3, <2>1, PhaseNext
      <3>2. /\ QuestionNow("phases") = PhaseQuestion(filters, "phases")
            /\ QuestionNow(name) = PhaseQuestion(filters, "career_phases")
        BY <1>3, <2>1, QuestionsOf DEF QuestionNow
      <3>3. /\ QuestionNow("phases").keys = Teams(filters) \X Phase
            /\ QuestionNow("phases").what = "phase" /\ ~ QuestionNow("phases").inPlay
            /\ QuestionNow("phases").scope = InWindow(Anywhere(filters), filters.window[2])
        BY <3>2, PhaseFields
      <3>4. /\ QuestionNow(name).keys = Teams(filters) \X Phase
            /\ QuestionNow(name).what = "phase" /\ ~ QuestionNow(name).inPlay
            /\ QuestionNow(name).scope = Anywhere(filters)
            /\ QuestionNow(name).latest = 0
        BY <3>2, PhaseFields
      <3>5. /\ QuestionNow("phases").scope.format = Format(filters)
            /\ QuestionNow("phases").scope.before = Ever
        BY <3>3, WindowFields DEF Anywhere
      <3>6. /\ QuestionNow("phases").keys = QuestionNow(name).keys
            /\ QuestionNow("phases").what = QuestionNow(name).what
            /\ QuestionNow("phases").inPlay <=> QuestionNow(name).inPlay
        BY <3>3, <3>4
      <3>7. QuestionNow(name).scope = Anywhere(filters) /\ QuestionNow(name).latest = 0
        BY <3>4
      <3>8. \A key \in DOMAIN job.answers["phases"] : job.answers["phases"][key] \subseteq answer[key]
        BY <3>1, <3>5, <3>6, <3>7, CareerAnswer
      <3>9. QED
        BY <1>1, <2>1, <3>1, <3>8 DEF CoveredBy, Asked
    <2>2. CASE name # "career_phases"
      BY <1>1, <1>3, <2>2 DEF CareersCover, CoveredBy, Asked
    <2>3. QED
      BY <2>1, <2>2
  <1>4. ASSUME job.query.template = "last_5_games", NEW career \in {"career_batting", "career_bowling"},
               career \in DOMAIN job'.answers
        PROVE  /\ "games" \in DOMAIN job'.answers
               /\ \A p \in DOMAIN job'.answers["games"] : \A m \in job'.answers["games"][p] :
                    p \in (IF career = "career_batting" THEN Matches[m].batted ELSE Matches[m].bowled)
                      => m \in job'.answers[career][p]
    <2>1. CASE name = career
      <3>1. Asked("games")
        BY <1>4, <2>1, GamesNext
      <3>2. /\ QuestionNow("games") = PlayerQuestion(filters, "games")
            /\ QuestionNow(name) = PlayerQuestion(filters, name)
        BY <1>4, QuestionsOf DEF QuestionNow
      <3>3. /\ QuestionNow("games").keys = QuestionNow(name).keys
            /\ QuestionNow("games").inPlay /\ QuestionNow(name).inPlay
            /\ QuestionNow("games").scope = Anywhere(filters)
            /\ QuestionNow(name).scope = Anywhere(filters)
            /\ QuestionNow(name).latest = 0
        BY <1>4, <2>1, <3>2, PlayerFields
      <3>4. /\ QuestionNow("games").scope.format = Format(filters)
            /\ QuestionNow("games").scope.before = Ever
        BY <3>3, WindowFields DEF Anywhere
      <3>5. QuestionNow(name).what = IF career = "career_batting" THEN "bats" ELSE "bowls"
        BY <1>4, <2>1, <3>2, PlayerFields
      <3>6. \A p \in DOMAIN job.answers["games"] : \A m \in job.answers["games"][p] :
              Counts(QuestionNow(name).what, m, p) => m \in answer[p]
        BY <3>1, <3>3, <3>4, CareerAnswer
      <3>7. \A p, m : p \in (IF career = "career_batting" THEN Matches[m].batted ELSE Matches[m].bowled)
              => Counts(QuestionNow(name).what, m, p)
        BY <1>4, <3>5 DEF Counts
      <3>8. job'.answers["games"] = job.answers["games"] /\ "games" \in DOMAIN job'.answers
        BY <1>1, <3>1 DEF Asked
      <3>9. QED
        BY <1>1, <2>1, <3>6, <3>7, <3>8
    <2>2. CASE name # career
      BY <1>1, <1>4, <2>2 DEF CareersCover, Asked
    <2>3. QED
      BY <2>1, <2>2
  <1>5. job'.query.template = "player_stats_at_venue" =>
          CoveredBy("batting", "career_batting")' /\ CoveredBy("bowling", "career_bowling")'
    BY <1>1, <1>2
  <1>6. job'.query.template = "team_phase_profiles" => CoveredBy("phases", "career_phases")'
    BY <1>1, <1>3
  <1>7. QED
    BY <1>1, <1>4, <1>5, <1>6 DEF CareersCover, Asked

(* The benchmarks are of the venues of the sample. *)
LEMMA AskBenchmarksCover ==
  ASSUME CardInv, NEW name, NEW answer, Answering(name, answer)
  PROVE  BenchmarksCover'
  <1> DEFINE filters == job.query.filters
  <1>1. /\ DOMAIN job'.answers = DOMAIN job.answers \cup {name} /\ job'.query = job.query
        /\ job'.answers[name] = answer
        /\ \A n \in DOMAIN job.answers : job'.answers[n] = job.answers[n]
        /\ name \notin DOMAIN job.answers
        /\ ArchiveGrew /\ NeededFirst
    BY DEF Answering, CardInv
  <1>2. SUFFICES ASSUME job.query.template = "venue_dna", "benchmarks" \in DOMAIN job'.answers
                 PROVE  \A m \in Sample(job'.answers) : \A phase \in Phase :
                          Counts("ball_phase", m, phase) => m \in job'.answers["benchmarks"][phase]
    BY <1>1 DEF BenchmarksCover, Asked
  <1>3. name = "benchmarks" /\ Asked("venue") /\ ~ TooFew(Sample(job.answers))
    BY <1>1, <1>2, VenueNext DEF NeededFirst, Asked, Sample
  <1>4. PICK of : of = IF Asked("country") THEN "country" ELSE "venue"
    OBVIOUS
  <1>5. Asked(of) /\ Sample(job'.answers) = job.answers[of]["all"]
    BY <1>1, <1>3, <1>4 DEF Sample, Asked
  <1>6. /\ QuestionNow(of) = VenueQuestion(filters, of, job.answers)
        /\ QuestionNow(name) = VenueQuestion(filters, "benchmarks", job.answers)
    BY <1>2, <1>3, QuestionsOf DEF QuestionNow
  <1>7. /\ QuestionNow(of).what = "first_innings" /\ QuestionNow(of).keys = {"all"}
        /\ QuestionNow(of).scope = VenueScope(filters, of, job.answers)
        /\ ~ QuestionNow(of).inPlay
    BY <1>4, <1>6, VenueFields
  <1>8. /\ QuestionNow(name).what = "ball_phase" /\ QuestionNow(name).keys = Phase
        /\ QuestionNow(name).scope = VenueScope(filters, "benchmarks", job.answers)
        /\ ~ QuestionNow(name).inPlay /\ QuestionNow(name).latest = 0
    BY <1>6, VenueFields
  <1>9. VenueScope(filters, "benchmarks", job.answers) = VenueScope(filters, of, job.answers)
    <2>1. VenuesOf(filters, "benchmarks", job.answers) = VenuesOf(filters, of, job.answers)
      BY <1>4 DEF VenuesOf, Asked
    <2>2. QED
      BY <2>1 DEF VenueScope
  <1>10. ASSUME NEW m \in job.answers[of]["all"], NEW phase \in Phase,
                Counts("ball_phase", m, phase)
         PROVE  m \in answer[phase]
    <2>1. m \in Population(QuestionNow(of), "all")
      BY <1>5, <1>7, <1>10 DEF CardInv, AnswersFit, Answered, Asked
    <2>2. m \in archived /\ InScope(m, QuestionNow(name).scope)
      BY <1>1, <1>7, <1>8, <1>9, <2>1 DEF Population, PopulationIn, Tables
    <2>3. m \in Population(QuestionNow(name), phase)
      BY <1>8, <1>10, <2>2 DEF Population, PopulationIn, Tables
    <2>4. QED
      BY <1>8, <2>3, AnswerFacts DEF Answering
  <1>11. QED
    BY <1>1, <1>3, <1>5, <1>10

(* A wide slice and its narrow ones differ in the venues alone. *)
LEMMA SlicePairs ==
  ASSUME NEW filters, NEW wide \in Overall, NEW narrow \in Narrow[wide]
  PROVE  LET broad == H2HQuestion(filters, wide)
             slice == H2HQuestion(filters, narrow)
         IN /\ narrow \in NarrowNames
            /\ slice.what = broad.what /\ slice.keys = broad.keys
            /\ slice.latest = (IF wide = "h2h" THEN Latest(filters) ELSE FormLatest(filters))
            /\ ~ slice.inPlay /\ ~ broad.inPlay
            /\ slice.scope.format = broad.scope.format
            /\ slice.scope.from = broad.scope.from
            /\ slice.scope.before = broad.scope.before
  <1>1. \/ wide = "h2h" /\ narrow = "h2h_at_venue"
        \/ wide = "form_a" /\ narrow \in {"form_a_at_venue", "form_a_in_country"}
        \/ wide = "form_b" /\ narrow \in {"form_b_at_venue", "form_b_in_country"}
    BY DEF Overall, Narrow
  <1>2. FormKey(filters, narrow) = FormKey(filters, wide)
    BY <1>1 DEF FormKey
  <1>3. /\ H2HScope(filters, narrow).format = H2HScope(filters, wide).format
        /\ H2HScope(filters, narrow).from = H2HScope(filters, wide).from
        /\ H2HScope(filters, narrow).before = H2HScope(filters, wide).before
    BY DEF H2HScope, Scope
  <1>4. narrow \in NarrowNames
    BY <1>1 DEF NarrowNames
  <1>5. /\ H2HQuestion(filters, wide).scope = H2HScope(filters, wide)
        /\ H2HQuestion(filters, narrow).scope = H2HScope(filters, narrow)
        /\ ~ H2HQuestion(filters, wide).inPlay /\ ~ H2HQuestion(filters, narrow).inPlay
    BY H2HFields
  <1>6. CASE wide = "h2h"
    <2>1. /\ H2HQuestion(filters, wide).what = "between"
          /\ H2HQuestion(filters, wide).keys = {Teams(filters)}
      BY <1>6, H2HFields
    <2>2. /\ H2HQuestion(filters, narrow).what = "between"
          /\ H2HQuestion(filters, narrow).keys = {Teams(filters)}
          /\ H2HQuestion(filters, narrow).latest = Latest(filters)
      BY <1>1, <1>6, H2HFields
    <2>3. QED
      BY <1>3, <1>4, <1>5, <1>6, <2>1, <2>2
  <1>7. CASE wide # "h2h"
    <2>1. wide \notin {"h2h", "h2h_at_venue"} /\ narrow \notin {"h2h", "h2h_at_venue"}
      BY <1>1, <1>7
    <2>2. /\ H2HQuestion(filters, wide).what = "plays"
          /\ H2HQuestion(filters, wide).keys = {FormKey(filters, wide)}
      BY <2>1, H2HFields
    <2>3. /\ H2HQuestion(filters, narrow).what = "plays"
          /\ H2HQuestion(filters, narrow).keys = {FormKey(filters, wide)}
          /\ H2HQuestion(filters, narrow).latest = FormLatest(filters)
      BY <1>2, <2>1, H2HFields
    <2>4. QED
      BY <1>3, <1>4, <1>5, <1>7, <2>2, <2>3
  <1>8. QED
    BY <1>6, <1>7

(* A narrow slice is asked for when all of the wide ones are there. *)
LEMMA AskSlicesAgree ==
  ASSUME CardInv, NEW name, NEW answer, Answering(name, answer)
  PROVE  SlicesAgree'
  <1> DEFINE filters == job.query.filters
             limit(wide) == IF wide = "h2h" THEN Latest(filters) ELSE FormLatest(filters)
             agree(answers, wide, narrow) ==
               \A key \in DOMAIN answers[wide] : \A m \in answers[wide][key] :
                 Matches[m].venue \in H2HQuestion(filters, narrow).scope.venues =>
                   \/ m \in answers[narrow][key]
                   \/ PushedOut(m, answers[narrow][key], limit(wide))
  <1>1. /\ DOMAIN job'.answers = DOMAIN job.answers \cup {name} /\ job'.query = job.query
        /\ job'.answers[name] = answer
        /\ \A n \in DOMAIN job.answers : job'.answers[n] = job.answers[n]
        /\ name \notin DOMAIN job.answers
        /\ ArchiveGrew /\ NeededFirst
    BY DEF Answering, CardInv
  <1>2. SUFFICES ASSUME job.query.template = "h2h_record"
                 PROVE  \A wide \in Overall \cap DOMAIN job'.answers :
                          \A narrow \in Narrow[wide] \cap DOMAIN job'.answers :
                            agree(job'.answers, wide, narrow)
    <2>1. job.query.template = "h2h_record" =>
            \A n : QuestionOf(job'.query, n, job'.answers) = H2HQuestion(filters, n)
      BY <1>1, QuestionsOf
    <2>2. QED
      BY <1>1, <2>1 DEF SlicesAgree
  <1>3. \A n, answers : QuestionOf(job.query, n, answers) = H2HQuestion(filters, n)
    BY <1>2, QuestionsOf
  <1> TAKE wide \in Overall \cap DOMAIN job'.answers
  <1> TAKE narrow \in Narrow[wide] \cap DOMAIN job'.answers
  <1>4. narrow \in NarrowNames /\ narrow \notin Overall
    BY SlicePairs DEF NarrowNames, Overall
  <1>5. wide \in DOMAIN job.answers
    BY <1>1, <1>2, <1>4, H2HNext DEF NeededFirst
  <1>6. CASE narrow = name
    <2>1. SUFFICES ASSUME NEW key \in DOMAIN job.answers[wide], NEW m \in job.answers[wide][key],
                          Matches[m].venue \in H2HQuestion(filters, narrow).scope.venues
                   PROVE  m \in answer[key] \/ PushedOut(m, answer[key], limit(wide))
      BY <1>1, <1>5, <1>6
    <2>2. QuestionNow(wide) = H2HQuestion(filters, wide)
          /\ QuestionNow(narrow) = H2HQuestion(filters, narrow)
      BY <1>3 DEF QuestionNow
    <2>3. key \in QuestionNow(wide).keys /\ m \in Population(QuestionNow(wide), key)
      BY <1>5, <2>1 DEF CardInv, AnswersFit, Answered
    <2>4. /\ m \in archived /\ InScope(m, QuestionNow(wide).scope)
          /\ Counts(QuestionNow(wide).what, m, key)
      BY <2>2, <2>3, SlicePairs DEF Population, PopulationIn, Tables
    <2>5. InScope(m, QuestionNow(narrow).scope)
      BY <2>1, <2>2, <2>4, SlicePairs DEF InScope
    <2>6. m \in Population(QuestionNow(narrow), key) /\ key \in QuestionNow(narrow).keys
      BY <2>2, <2>3, <2>4, <2>5, SlicePairs DEF Population, PopulationIn, Tables
    <2>7. QuestionNow(narrow).latest = limit(wide)
      BY <2>2, SlicePairs
    <2>8. CASE QuestionNow(narrow).latest = 0
      BY <1>6, <2>6, <2>8, AnswerFacts DEF Answering
    <2>9. CASE Limited(QuestionNow(narrow))
      <3>1. answer[key] \in Newest(Population(QuestionNow(narrow), key), limit(wide))
        BY <1>6, <2>6, <2>7, <2>9, AnswerFacts DEF Answering, Limited
      <3>2. IsFiniteSet(Population(QuestionNow(narrow), key)) /\ limit(wide) \in Nat \ {0}
        BY <1>1, <2>7, <2>9, PopulationFinite DEF Limited
      <3>3. QED
        BY <2>6, <3>1, <3>2, NewestFacts
    <2>10. QED
      BY <1>6, <2>8, <2>9, LimitsFit
  <1>7. CASE narrow # name
    BY <1>1, <1>2, <1>3, <1>5, <1>7 DEF CardInv, SlicesAgree
  <1>8. QED
    BY <1>6, <1>7

-----------------------------------------------------------------------------
(* The invariant *)

(* The invariant holds when nothing has been asked for, ... *)
LEMMA InitCardInv == CardInit => CardInv
  <1> SUFFICES ASSUME CardInit
               PROVE  CardInv
    OBVIOUS
  <1>1. PICK query \in Query :
          job = [query |-> query, answers |-> NoInputs, begun |-> Tables, outcome |-> "none"]
    BY DEF CardInit
  <1>2. /\ job.query = query /\ job.answers = NoInputs /\ job.begun = Tables
        /\ job.outcome = "none"
    BY <1>1
  <1>3. DOMAIN job.answers = {}
    BY <1>2 DEF NoInputs
  <1>4. ArchiveGrew
    BY <1>2 DEF CardInit, HistoryInit, ArchiveGrew, Tables
  <1>5. JobShape
    BY <1>1, <1>2 DEF JobShape
  <1>6. AnswersFit /\ SlicesAgree
    BY <1>3 DEF AnswersFit, SlicesAgree
  <1>7. NeededFirst /\ CareersCover /\ BenchmarksCover
    BY <1>3 DEF NeededFirst, CareersCover, CoveredBy, BenchmarksCover, Asked
  <1>8. EndFits
    BY <1>2 DEF EndFits
  <1>9. QED
    BY <1>4, <1>5, <1>6, <1>7, <1>8 DEF CardInv

(* ... with every further answer, ... *)
LEMMA AskCardInv ==
  ASSUME CardInv, Ask
  PROVE  CardInv'
  <1>1. PICK name, answer : Answering(name, answer)
    BY AskAnswers
  <1>2. /\ job'.query = job.query /\ job'.begun = job.begun /\ job'.outcome = "none"
        /\ UNCHANGED <<recorded, archived>>
    BY <1>1 DEF Answering, Ask, NextQuestion, Generating
  <1>3. ArchiveGrew'
    BY <1>2 DEF CardInv, ArchiveGrew
  <1>4. JobShape'
    <2>1. PICK answers : job' = [job EXCEPT !.answers = answers]
      BY DEF Ask
    <2>2. job' = [query |-> job.query, answers |-> answers, begun |-> job.begun,
                  outcome |-> job.outcome]
      BY <2>1 DEF CardInv, JobShape
    <2>3. QED
      BY <2>2 DEF CardInv, JobShape
  <1>5. EndFits'
    BY <1>2 DEF EndFits
  <1>6. QED
    BY <1>1, <1>3, <1>4, <1>5, AskAnswersFit, AskNeededFirst, AskCareersCover,
       AskBenchmarksCover, AskSlicesAgree
    DEF CardInv

(* Without a further answer it is for the end alone to fit. *)
LEMMA AnswersKept ==
  ASSUME CardInv, JobShape', ArchiveGrew', EndFits',
         job'.query = job.query, job'.answers = job.answers, job'.begun = job.begun,
         archived \subseteq archived', recorded \subseteq recorded'
  PROVE  CardInv'
  <1>1. AnswersFit'
    <2>1. ASSUME NEW n \in DOMAIN job.answers
          PROVE  Answered(QuestionNow(n), job.answers[n])'
      <3>1. PICK question : question = QuestionNow(n)
        OBVIOUS
      <3>2. PICK given : given = job.answers[n]
        OBVIOUS
      <3>3. Answered(question, given)'
        BY <2>1, <3>1, <3>2, AnsweredStays DEF CardInv, AnswersFit
      <3>4. QuestionNow(n)' = question /\ job'.answers[n] = given
        BY <3>1, <3>2 DEF QuestionNow
      <3>5. QED
        BY <3>3, <3>4
    <2>2. QED
      BY <2>1 DEF AnswersFit
  <1>2. NeededFirst'
    BY DEF CardInv, NeededFirst, Asked
  <1>3. CareersCover'
    BY DEF CardInv, CareersCover, CoveredBy, Asked
  <1>4. BenchmarksCover'
    BY DEF CardInv, BenchmarksCover, Asked
  <1>5. SlicesAgree'
    BY DEF CardInv, SlicesAgree
  <1>6. QED
    BY <1>1, <1>2, <1>3, <1>4, <1>5 DEF CardInv

(* ... however a generation ends, ... *)
LEMMA EndCardInv ==
  ASSUME CardInv, Refuse \/ QueryFails \/ Finish
  PROVE  CardInv'
  <1>1. PICK outcome : job' = [job EXCEPT !.outcome = outcome]
    BY DEF Refuse, QueryFails, Finish
  <1>2. job' = [query |-> job.query, answers |-> job.answers, begun |-> job.begun,
                outcome |-> outcome]
    BY <1>1 DEF CardInv, JobShape
  <1>3. /\ job'.query = job.query /\ job'.answers = job.answers /\ job'.begun = job.begun
        /\ job'.outcome = outcome
    BY <1>2
  <1>4. UNCHANGED <<recorded, archived>>
    BY DEF Refuse, QueryFails, Finish
  <1>5. JobShape'
    BY <1>2 DEF CardInv, JobShape
  <1>6. ArchiveGrew'
    BY <1>3, <1>4 DEF CardInv, ArchiveGrew
  <1>7. EndFits'
    <2>1. CASE Refuse
      <3>1. outcome = "validation"
        BY <1>2, <2>1 DEF Refuse, CardInv, JobShape
      <3>2. QED
        BY <1>3, <3>1 DEF EndFits
    <2>2. CASE QueryFails
      <3>1. outcome = "transient"
        BY <1>2, <2>2 DEF QueryFails, CardInv, JobShape
      <3>2. QED
        BY <1>3, <3>1 DEF EndFits
    <2>3. CASE Finish
      <3>1. outcome = Ending(job.query, job.answers)
        BY <1>2, <2>3 DEF Finish, CardInv, JobShape
      <3>2. QED
        BY <1>3, <2>3, <3>1 DEF Finish, EndFits
    <2>4. QED
      BY <2>1, <2>2, <2>3
  <1>8. QED
    BY <1>3, <1>4, <1>5, <1>6, <1>7, AnswersKept

(* ... and whatever is recorded and archived meanwhile. *)
LEMMA ArchiveCardInv ==
  ASSUME CardInv, ArchiveStep \/ UNCHANGED cardVars
  PROVE  CardInv'
  <1>1. job' = job
    BY DEF ArchiveStep, cardVars
  <1>2. /\ archived \subseteq archived' /\ recorded \subseteq recorded'
        /\ archived' \subseteq recorded' /\ recorded' \subseteq MatchId
    BY DEF ArchiveStep, MatchRecorded, MatchArchived, cardVars, CardInv, ArchiveGrew
  <1>3. ArchiveGrew'
    BY <1>1, <1>2 DEF CardInv, ArchiveGrew
  <1>4. JobShape' /\ EndFits'
    BY <1>1 DEF CardInv, JobShape, EndFits
  <1>5. QED
    BY <1>1, <1>2, <1>3, <1>4, AnswersKept

(* It is an invariant of card generation. *)
LEMMA CardInvariant == CardSpec => []CardInv
  <1>1. CardInv /\ [CardNext]_cardVars => CardInv'
    BY AskCardInv, EndCardInv, ArchiveCardInv DEF CardNext
  <1>2. QED
    BY <1>1, InitCardInv, PTL DEF CardSpec

-----------------------------------------------------------------------------
(* Theorems *)

(* At the end every question that its answers ask for has been answered. *)
LEMMA AskedAtEnd ==
  ASSUME CardInv, job.outcome \in {"content", "no_content", "unencodable", "sample"},
         NEW i \in DOMAIN Order[job.query.template],
         Due(job.query, job.answers, Order[job.query.template][i])
  PROVE  Asked(Order[job.query.template][i])
  BY DEF CardInv, EndFits, Unasked, Asked

(* What a question found nothing for had nothing when the generation began. *)
LEMMA NothingFound ==
  ASSUME CardInv, NEW name, Asked(name), NoneFound(job.answers, {name})
  PROVE  UNION {PopulationIn(job.begun, QuestionNow(name), key) : key \in QuestionNow(name).keys} = {}
  <1>1. Answered(QuestionNow(name), job.answers[name])
    BY DEF CardInv, AnswersFit, Asked
  <1>2. ASSUME NEW key \in QuestionNow(name).keys
        PROVE  PopulationIn(job.begun, QuestionNow(name), key) = {}
    BY <1>1 DEF Answered, NoneFound
  <1>3. QED
    BY <1>2

(* A part of too small a sample is too small. *)
LEMMA FewerAreTooFew ==
  ASSUME NEW matches, IsFiniteSet(matches), TooFew(matches), NEW some \in SUBSET matches
  PROVE  TooFew(some)
  <1>1. IsFiniteSet(some) /\ Cardinality(some) <= Cardinality(matches)
    BY FS_Subset
  <1>2. Cardinality(some) \in Nat /\ Cardinality(matches) \in Nat
    BY <1>1, FS_CardinalityType
  <1>3. QED
    BY <1>1, <1>2, MinimumAssumption DEF TooFew

(* What a wide slice of a head-to-head card lists of a place is in the       *)
(* narrow one of that place, or pushed out of it by newer matches, whatever  *)
(* is archived between the two statements (h2h.go:110, 129).                 *)
THEOREM SlicesAlwaysAgree == CardSpec => []SlicesAgree
  BY CardInvariant, PTL DEF CardInv

(* A row never shows less than its window had, and the career an arrow is    *)
(* compared with has the innings that the arrow is about                     *)
(* (player_venue.go:51, phase_profiles.go:51, last5.go:46).                  *)
THEOREM FallbackOnlyWidens == CardSpec => []FallbackNeverShrinks
  <1> DEFINE template == job.query.template
  <1>1. CardInv => FallbackNeverShrinks
    <2> SUFFICES ASSUME CardInv, Done
                 PROVE  FallbackNeverShrinks
      BY DEF FallbackNeverShrinks
    <2>1. template \notin {"h2h_record", "venue_dna"} =>
            \A i \in DOMAIN Order[template] : Asked(Order[template][i])
      BY AskedAtEnd, AllDue DEF Done
    <2>2. CASE template = "player_stats_at_venue"
      <3>1. Asked("career_batting") /\ Asked("career_bowling")
        BY <2>1, <2>2, OrderOf
      <3>2. CoveredBy("batting", "career_batting") /\ CoveredBy("bowling", "career_bowling")
        BY <2>2 DEF CardInv, CareersCover
      <3>3. ASSUME NEW name \in {"batting", "bowling"}, NEW p \in DOMAIN job.answers[name]
            PROVE  job.answers[name][p] \subseteq PlayerRow(job.answers, name, p)
        BY <3>1, <3>2, <3>3 DEF CoveredBy, PlayerRow
      <3>4. QED
        BY <2>2, <3>3 DEF FallbackNeverShrinks
    <2>3. CASE template = "last_5_games"
      <3>1. Asked("career_batting") /\ Asked("career_bowling")
        BY <2>1, <2>3, OrderOf
      <3>2. QED
        BY <2>3, <3>1 DEF CardInv, CareersCover, FallbackNeverShrinks
    <2>4. CASE template = "team_phase_profiles"
      <3>1. Asked("career_phases")
        BY <2>1, <2>4, OrderOf
      <3>2. \A key \in DOMAIN job.answers["phases"] :
              job.answers["phases"][key] \subseteq PhaseRow(job.answers, key)
        BY <2>4, <3>1 DEF CardInv, CareersCover, CoveredBy, PhaseRow
      <3>3. QED
        BY <2>4, <3>2 DEF FallbackNeverShrinks
    <2>5. CASE template \notin {"player_stats_at_venue", "last_5_games", "team_phase_profiles"}
      BY <2>5 DEF FallbackNeverShrinks
    <2>6. QED
      BY <2>2, <2>3, <2>4, <2>5
  <1>2. QED
    BY <1>1, CardInvariant, PTL

(* Every match behind an average of a venue card is behind the benchmark of  *)
(* each phase it has balls of, of the venue or of the country alike          *)
(* (venue_dna.go:42, 73), although another statement and table give those.   *)
THEOREM BenchmarksAlwaysCover == CardSpec => []BenchmarksCoverSample
  <1>1. CardInv => BenchmarksCoverSample
    <2> SUFFICES ASSUME CardInv, Done, job.query.template = "venue_dna"
                 PROVE  Asked("benchmarks")
      BY DEF BenchmarksCoverSample, CardInv, BenchmarksCover
    <2>1. ~ TooFew(Sample(job.answers))
      BY DEF CardInv, EndFits, Ending, Done
    <2>2. Asked("venue")
      <3>1. Due(job.query, job.answers, "venue")
        BY DEF Due, VenueDue
      <3>2. QED
        BY <3>1, AskedAtEnd, OrderOf DEF Done
    <2>3. Due(job.query, job.answers, "benchmarks")
      BY <2>1, <2>2 DEF Due, VenueDue, Asked
    <2>4. QED
      BY <2>3, AskedAtEnd, OrderOf DEF Done
  <1>2. QED
    BY <1>1, CardInvariant, PTL

(* A generation that ends for want of matches lacked them when it began, so  *)
(* nothing that the archive had is missed (team_form.go, venue_dna.go:59).   *)
THEOREM HistoryNeverMissed == CardSpec => []HistoryNotMissed
  <1> DEFINE had(name) == UNION {PopulationIn(job.begun, QuestionNow(name), key) :
                                   key \in QuestionNow(name).keys}
             template == job.query.template
             filters == job.query.filters
             answers == job.answers
  <1>1. ASSUME CardInv, job.outcome = "no_content", NEW name \in Overall
        PROVE  had(name) = {}
    <2>1. template = "h2h_record" /\ NoneFound(answers, Overall)
      BY <1>1 DEF CardInv, EndFits, Ending
    <2>2. Asked(name)
      <3>1. Due(job.query, answers, name)
        BY <1>1, <2>1 DEF Due, H2HDue
      <3>2. \E i \in DOMAIN Order[template] : name = Order[template][i]
        BY <1>1, <2>1, OrderOf DEF Overall
      <3>3. QED
        BY <1>1, <3>1, <3>2, AskedAtEnd
    <2>3. NoneFound(answers, {name})
      BY <1>1, <2>1 DEF NoneFound
    <2>4. QED
      BY <1>1, <2>2, <2>3, NothingFound
  <1>2. ASSUME CardInv, job.outcome = "sample", template = "team_form"
        PROVE  had("form_a") = {} /\ had("form_b") = {}
    <2>1. NoneFound(answers, {"form_a"}) /\ NoneFound(answers, {"form_b"})
      BY <1>2 DEF CardInv, EndFits, Ending, TeamFormMissing
    <2>2. Asked("form_a") /\ Asked("form_b")
      BY <1>2, AskedAtEnd, AllDue, OrderOf
    <2>3. QED
      BY <1>2, <2>1, <2>2, NothingFound
  <1>3. ASSUME CardInv, job.outcome = "sample", template # "team_form"
        PROVE  TooFew(had("venue") \cup had("country"))
    <2>1. template = "venue_dna" /\ TooFew(Sample(answers))
      BY <1>3, QueryAssumption DEF CardInv, JobShape, CardSetTemplates, EndFits, Ending
    <2>2. Asked("venue")
      <3>1. Due(job.query, answers, "venue")
        BY <2>1 DEF Due, VenueDue
      <3>2. QED
        BY <1>3, <2>1, <3>1, AskedAtEnd, OrderOf
    <2>3. Asked("country")
      <3>1. ~ Asked("country") => Due(job.query, answers, "country")
        BY <2>1, <2>2 DEF Due, VenueDue, Sample, Asked
      <3>2. QED
        BY <1>3, <2>1, <3>1, AskedAtEnd, OrderOf
    <2>4. TooFew(answers["venue"]["all"]) /\ TooFew(answers["country"]["all"])
      BY <1>3, <2>1, <2>3 DEF CardInv, NeededFirst, Sample, Asked
    <2>5. ASSUME NEW of \in {"venue", "country"}
          PROVE  /\ QuestionNow(of).what = "first_innings" /\ QuestionNow(of).keys = {"all"}
                 /\ QuestionNow(of).latest = 0 /\ ~ QuestionNow(of).inPlay
                 /\ QuestionNow(of).scope = VenueScope(filters, of, answers)
      <3>1. QuestionNow(of) = VenueQuestion(filters, of, answers)
        BY <2>1, QuestionsOf DEF QuestionNow
      <3>2. QED
        BY <2>5, <3>1, VenueFields
    <2>6. ASSUME NEW of \in {"venue", "country"}
          PROVE  /\ had(of) = PopulationIn(job.begun, QuestionNow(of), "all")
                 /\ had(of) \subseteq answers[of]["all"]
                 /\ IsFiniteSet(answers[of]["all"])
      <3>1. had(of) = PopulationIn(job.begun, QuestionNow(of), "all")
        BY <2>5, <2>6
      <3>2. Answered(QuestionNow(of), answers[of])
        BY <1>3, <2>2, <2>3, <2>6 DEF CardInv, AnswersFit, Asked
      <3>3. /\ PopulationIn(job.begun, QuestionNow(of), "all") \subseteq answers[of]["all"]
            /\ answers[of]["all"] \subseteq Population(QuestionNow(of), "all")
        BY <2>5, <2>6, <3>2 DEF Answered
      <3>4. IsFiniteSet(Population(QuestionNow(of), "all"))
        BY <1>3, PopulationFinite DEF CardInv
      <3>5. IsFiniteSet(answers[of]["all"])
        BY <3>3, <3>4, FS_Subset
      <3>6. QED
        BY <3>1, <3>3, <3>5
    <2>7. had("venue") \subseteq had("country") \/ had("country") = {}
      <3> DEFINE venue == IdOf(filters, "venue")
      <3>1. /\ VenueScope(filters, "venue", answers).venues = {venue}
            /\ VenueScope(filters, "country", answers).venues = VenuesAround(venue)
        <4>1. /\ VenuesOf(filters, "venue", answers) = {venue}
              /\ VenuesOf(filters, "country", answers) = VenuesAround(venue)
          BY DEF VenuesOf
        <4>2. ASSUME NEW of
              PROVE  VenueScope(filters, of, answers).venues = VenuesOf(filters, of, answers)
          BY DEF VenueScope, InWindow, Scope
        <4>3. QED
          BY <4>1, <4>2
      <3>2. /\ VenueScope(filters, "venue", answers).format =
                 VenueScope(filters, "country", answers).format
            /\ VenueScope(filters, "venue", answers).from =
                 VenueScope(filters, "country", answers).from
            /\ VenueScope(filters, "venue", answers).before =
                 VenueScope(filters, "country", answers).before
        BY DEF VenueScope, InWindow, Scope
      <3>3. CASE CountryOf[venue] = 0
        <4>1. VenuesAround(venue) = {}
          BY <3>3 DEF VenuesAround
        <4>2. QED
          BY <2>5, <2>6, <3>1, <4>1 DEF PopulationIn, InScope
      <3>4. CASE CountryOf[venue] # 0
        <4>1. ASSUME NEW m \in had("venue")
              PROVE  m \in had("country")
          <5>1. /\ m \in job.begun.archived /\ Counts("first_innings", m, "all")
                /\ InScope(m, VenueScope(filters, "venue", answers))
            BY <2>5, <2>6, <4>1 DEF PopulationIn
          <5>2. m \in MatchId /\ Matches[m].venue = venue
            BY <1>3, <3>1, <5>1 DEF InScope, CardInv, ArchiveGrew
          <5>3. venue \in VenuesAround(venue)
            BY <3>4, <5>2, HistoryAssumption DEF VenuesAround, VenuesIn, AllVenues
          <5>4. InScope(m, VenueScope(filters, "country", answers))
            BY <3>1, <3>2, <5>1, <5>2, <5>3 DEF InScope
          <5>5. QED
            BY <2>5, <2>6, <5>1, <5>4 DEF PopulationIn
        <4>2. QED
          BY <4>1
      <3>5. QED
        BY <3>3, <3>4
    <2>8. \E of \in {"venue", "country"} :
            had("venue") \cup had("country") \subseteq answers[of]["all"]
      BY <2>6, <2>7
    <2>9. QED
      BY <2>4, <2>6, <2>8, FewerAreTooFew
  <1>4. CardInv => HistoryNotMissed
    BY <1>1, <1>2, <1>3 DEF HistoryNotMissed, QuestionNow
  <1>5. QED
    BY <1>4, CardInvariant, PTL

=============================================================================
