---------------------------- MODULE ReadsProofs ----------------------------
(***************************************************************************)
(* Proofs about result reads, for any number of clients and under every    *)
(* fault of the service: what the queries of one request find cannot have  *)
(* been taken back between them.                                           *)
(***************************************************************************)
EXTENDS ResultReads, HistoryProofs, WellFoundedInduction

(* A failed template run has the failure that Fail wrote with its state. *)
FailuresExplained ==
  \A id \in RunId : IsTemplateRun(id) /\ runs[id].state = "failed" => runs[id].failure # None

(* A client's request fits the tables it has read. *)
ReaderFits(c) ==
  /\ reader[c].pc # "idle" => reader[c].locator \in Locator
  /\ reader[c].known => reader[c].locator \in Locator /\ Accepted(reader[c].locator)
  /\ reader[c].pc = "loading" =>
       reader[c].run \in RunId /\ runs[reader[c].run].key = reader[c].locator
  /\ Waiting(c) => reader[c].seen[reader[c].locator] = 0
  /\ \A l \in Locator : reader[c].seen[l] <= CurrentVersion(l)

(* What the answer says of the locator. *)
AnswerFits(c) ==
  Answered(c) =>
    /\ reader[c].status = "succeeded" => pointers[reader[c].locator] # None
    /\ reader[c].status = "failed" => reader[c].failure # None
    /\ reader[c].known => reader[c].status # "not found"

ReadsTyped == reader \in [Reader -> ReaderState]

ReadsInv ==
  /\ HistoryInv
  /\ FailuresExplained
  /\ ReadsTyped
  /\ \A c \in Reader : ReaderFits(c) /\ AnswerFits(c)

LEMMA NewReaderType ==
  /\ NewReader \in ReaderState /\ NewReader.pc = "idle" /\ ~ NewReader.known
  /\ \A l \in Locator : NewReader.seen[l] = 0
  BY StoreAssumption DEF NewReader, ReaderState, RunState

LEMMA VersionRange ==
  0 \in 0 .. MaxVersion /\ \A v \in 0 .. MaxVersion : v \in Nat /\ 0 <= v
  BY StoreAssumption

LEMMA SeenType ==
  ASSUME NEW r \in ReaderState
  PROVE  /\ r.seen \in [Locator -> 0 .. MaxVersion]
         /\ \A l \in Locator : r.seen[l] \in Nat
  <1>1. r.seen \in [Locator -> 0 .. MaxVersion]
    BY DEF ReaderState
  <1>2. QED
    BY <1>1, StoreAssumption

LEMMA InitReads == ReadsInit => ReadsInv
  <1> SUFFICES ASSUME ReadsInit PROVE ReadsInv
    OBVIOUS
  <1>1. HistoryInv
    BY InitHistory DEF ReadsInit
  <1>2. FailuresExplained
    <2>1. AbsentRow.state = "absent"
      BY DEF AbsentRow, NewRow
    <2>2. QED
      BY <2>1 DEF ReadsInit, Init, StoreInit, FailuresExplained
  <1>3. ReadsTyped /\ \A c \in Reader : reader[c] = NewReader
    BY NewReaderType DEF ReadsInit, ReadsTyped
  <1>4. \A l \in Locator : CurrentVersion(l) = 0
    BY DEF ReadsInit, Init, StoreInit, CurrentVersion
  <1>5. ASSUME NEW c \in Reader PROVE ReaderFits(c) /\ AnswerFits(c)
    <2>1. reader[c].pc = "idle" /\ ~ reader[c].known
      BY <1>3, NewReaderType
    <2>2. \A l \in Locator : reader[c].seen[l] = 0
      BY <1>3, NewReaderType
    <2>3. QED
      BY <1>4, <2>1, <2>2 DEF ReaderFits, AnswerFits, Waiting, Answered
  <1>6. QED
    BY <1>1, <1>2, <1>3, <1>5 DEF ReadsInv

LEMMA ExplainedStep ==
  ASSUME FailuresExplained, \A id \in RunId : StaysReadable(id)
  PROVE  FailuresExplained'
  BY DEF FailuresExplained, StaysReadable, IsTemplateRun

LEMMA AcceptedStays ==
  ASSUME Shape, \A id \in RunId : StaysReadable(id), NEW l \in Locator, Accepted(l)
  PROVE  Accepted(l)'
  BY LocatedExists DEF Accepted, StaysReadable

-----------------------------------------------------------------------------
(* The two queries *)

(* A located run has a youngest one beside it. *)
LEMMA YoungestFound ==
  ASSUME Shape, NEW l \in Locator, Accepted(l)
  PROVE  LatestRuns(l) # {}
  <1> DEFINE located == {id \in RunId : runs[id].key = l}
             Age(id) == MaxClock - runs[id].created
             ages == {Age(id) : id \in located}
             less == OpToRel(<, Nat)
  <1>1. \A id \in RunId : runs[id].created \in 0 .. MaxClock
    BY DEF Shape, TypeOK, StoreTypeOK, Row
  <1>2. \A id \in RunId : Age(id) \in Nat
    BY <1>1, StoreAssumption
  <1>3. ages \subseteq Nat /\ ages # {}
    BY <1>2 DEF Accepted
  <1>4. \E x \in ages : \A y \in ages : ~ (<<y, x>> \in less)
    <2>1. IsWellFoundedOn(less, Nat)
      BY NatLessThanWellFounded
    <2> HIDE DEF ages, less
    <2>2. QED
      BY <1>3, <2>1, WFMin
  <1>5. PICK x \in ages : \A y \in ages : ~ (<<y, x>> \in less)
    BY <1>4
  <1>6. PICK id \in located : x = Age(id)
    OBVIOUS
  <1>7. ASSUME NEW other \in located PROVE runs[other].created <= runs[id].created
    <2>1. ~ (Age(other) < Age(id))
      BY <1>2, <1>5, <1>6 DEF OpToRel
    <2>2. QED
      BY <1>1, <2>1, StoreAssumption
  <1>8. QED
    BY <1>6, <1>7 DEF LatestRuns

(* What LoadRun finds in the row of a template run can be answered. *)
LEMMA RunRowFits ==
  ASSUME HistoryInv, FailuresExplained, NEW id \in RunId, runs[id].key \in Locator
  PROVE  /\ runs[id].state \in RunState /\ runs[id].state # "not found"
         /\ runs[id].failure \in FailureKind \cup {None}
         /\ runs[id].state = "succeeded" => pointers[runs[id].key] # None
         /\ runs[id].state = "failed" => runs[id].failure # None
  <1>1. runs[id] \in Row
    BY DEF HistoryInv, Shape, TypeOK, StoreTypeOK
  <1>2. ASSUME runs[id].state = "succeeded" PROVE pointers[runs[id].key] # None
    <2> DEFINE l == runs[id].key
               result == [locator |-> l, version |-> runs[id].version, run |-> id]
    <2>1. result \in results /\ result.locator = l /\ result.version = runs[id].version
      BY <1>2 DEF HistoryInv, SucceededRunHasResult, IsTemplateRun
    <2>2. runs[id].version \in 1 .. CurrentVersion(l)
      BY <2>1 DEF HistoryInv, ResultsNumbered
    <2>3. CurrentVersion(l) # 0
      BY <2>2
    <2>4. QED
      BY <2>3, PointerVersion DEF HistoryInv
  <1>3. QED
    BY <1>1, <1>2 DEF Row, RunState, Active, Settled, FailuresExplained, IsTemplateRun

-----------------------------------------------------------------------------
(* Steps of the service *)

LEMMA ServiceStep ==
  ASSUME ReadsInv, [Next]_vars, UNCHANGED reader
  PROVE  ReadsInv'
  <1>1. Shape /\ HistoryInv'
    BY NextHistory DEF ReadsInv, HistoryInv
  <1>2. \A id \in RunId : StaysReadable(id)
    BY <1>1, NextReadable
  <1>3. FailuresExplained'
    BY <1>2, ExplainedStep DEF ReadsInv
  <1>4. ASSUME NEW c \in Reader PROVE ReaderFits(c)' /\ AnswerFits(c)'
    <2>1. ReaderFits(c) /\ AnswerFits(c) /\ reader'[c] = reader[c]
      BY DEF ReadsInv
    <2>2. PICK r \in ReaderState : r = reader[c]
      BY DEF ReadsInv, ReadsTyped
    <2>3. r.known => r.locator \in Locator /\ Accepted(r.locator)'
      BY <1>1, <1>2, <2>1, <2>2, AcceptedStays DEF ReaderFits
    <2>4. r.pc = "loading" => r.run \in RunId /\ runs'[r.run].key = r.locator
      BY <1>1, <1>2, <2>1, <2>2, LocatedExists DEF ReaderFits, StaysReadable
    <2>5. \A l \in Locator : r.seen[l] <= CurrentVersion(l)'
      <3>1. ASSUME NEW l \in Locator PROVE r.seen[l] <= CurrentVersion(l)'
        <4>1. CurrentVersion(l) <= CurrentVersion(l)'
          BY VersionsKept DEF ReadsInv
        <4>2. CurrentVersion(l) \in Nat /\ CurrentVersion(l)' \in Nat
          BY VersionsKept DEF ReadsInv
        <4>3. r.seen[l] \in Nat
          BY SeenType
        <4>4. r.seen[l] <= CurrentVersion(l)
          BY <2>1, <2>2 DEF ReaderFits
        <4>5. QED
          BY <4>1, <4>2, <4>3, <4>4
      <3>2. QED
        BY <3>1
    <2>6. ReaderFits(c)'
      BY <2>1, <2>2, <2>3, <2>4, <2>5 DEF ReaderFits, Waiting, Accepted
    <2>7. ASSUME Answered(c), r.status = "succeeded" PROVE pointers'[r.locator] # None
      <3>1. r.locator \in Locator /\ pointers[r.locator] # None
        BY <2>1, <2>2, <2>7 DEF ReaderFits, AnswerFits, Answered
      <3>2. PICK l \in Locator : l = r.locator
        BY <3>1
      <3>3. CurrentVersion(l) # 0 /\ CurrentVersion(l) \in Nat
        BY <1>1, <3>1, <3>2, PointerVersion
      <3>4. CurrentVersion(l)' # 0
        BY <3>3, VersionsKept DEF ReadsInv
      <3>5. QED
        BY <3>2, <3>4 DEF CurrentVersion
    <2>8. AnswerFits(c)'
      BY <2>1, <2>2, <2>7 DEF AnswerFits, Answered
    <2>9. QED
      BY <2>6, <2>8
  <1>5. QED
    BY <1>1, <1>3, <1>4 DEF ReadsInv, ReadsTyped

-----------------------------------------------------------------------------
(* Steps of the clients *)

(* A client moves to r, and r fits the tables. *)
LEMMA OneReads ==
  ASSUME ReadsInv, UNCHANGED vars, NEW c \in Reader, NEW r \in ReaderState,
         reader' = [reader EXCEPT ![c] = r],
         r.pc # "idle" => r.locator \in Locator,
         r.known => r.locator \in Locator /\ Accepted(r.locator),
         r.pc = "loading" => r.run \in RunId /\ runs[r.run].key = r.locator,
         r.pc \in {"latest", "loading"} => r.seen[r.locator] = 0,
         \A l \in Locator : r.seen[l] <= CurrentVersion(l),
         r.pc = "answered" =>
           /\ r.status = "succeeded" => pointers[r.locator] # None
           /\ r.status = "failed" => r.failure # None
           /\ r.known => r.status # "not found"
  PROVE  ReadsInv'
  <1>1. HistoryInv'
    BY NextHistory DEF ReadsInv
  <1>2. reader \in [Reader -> ReaderState] /\ UNCHANGED <<runs, pointers>>
    BY DEF ReadsInv, ReadsTyped, vars
  <1>3. ReadsTyped' /\ FailuresExplained'
    BY <1>2 DEF ReadsTyped, ReadsInv, FailuresExplained, IsTemplateRun
  <1>4. \A l \in Locator : CurrentVersion(l)' = CurrentVersion(l)
    BY <1>2 DEF CurrentVersion
  <1>5. ReaderFits(c)' /\ AnswerFits(c)'
    <2>1. reader'[c] = r
      BY <1>2
    <2>2. ReaderFits(c)'
      BY <1>2, <1>4, <2>1 DEF ReaderFits, Waiting, Accepted
    <2>3. AnswerFits(c)'
      BY <1>2, <2>1 DEF AnswerFits, Answered
    <2>4. QED
      BY <2>2, <2>3
  <1>6. ASSUME NEW d \in Reader, d # c PROVE ReaderFits(d)' /\ AnswerFits(d)'
    <2>1. reader'[d] = reader[d]
      BY <1>2, <1>6
    <2>2. ReaderFits(d) /\ AnswerFits(d)
      BY DEF ReadsInv
    <2>3. ReaderFits(d)'
      BY <1>2, <1>4, <2>1, <2>2 DEF ReaderFits, Waiting, Accepted
    <2>4. AnswerFits(d)'
      BY <1>2, <2>1, <2>2 DEF AnswerFits, Answered
    <2>5. QED
      BY <2>3, <2>4
  <1>7. QED
    BY <1>1, <1>3, <1>5, <1>6 DEF ReadsInv

LEMMA ReaderFacts ==
  ASSUME ReadsInv, NEW c \in Reader
  PROVE  /\ Shape /\ HistoryInv /\ FailuresExplained
         /\ reader \in [Reader -> ReaderState] /\ reader[c] \in ReaderState
         /\ ReaderFits(c) /\ AnswerFits(c)
         /\ \A l \in Locator : CurrentVersion(l) \in 0 .. MaxVersion
  BY VersionType DEF ReadsInv, ReadsTyped, HistoryInv

LEMMA ReadCurrentKeeps ==
  ASSUME ReadsInv, UNCHANGED vars, NEW c \in Reader, NEW l \in Locator, ReadCurrent(c, l)
  PROVE  ReadsInv'
  <1> DEFINE seen == [reader[c].seen EXCEPT ![l] = CurrentVersion(l)]
             r == [NewReader EXCEPT !.pc = "answered", !.locator = l, !.known = Accepted(l),
                                    !.status = "succeeded", !.version = CurrentVersion(l),
                                    !.seen = seen]
  <1>1. reader' = [reader EXCEPT ![c] = r] /\ pointers[l] # None
    BY DEF ReadCurrent
  <1>2. CurrentVersion(l) \in 0 .. MaxVersion /\ reader[c].seen \in [Locator -> 0 .. MaxVersion]
    BY ReaderFacts DEF ReaderState
  <1>3. seen \in [Locator -> 0 .. MaxVersion]
    BY <1>2
  <1>4. \A k \in Locator : seen[k] <= CurrentVersion(k)
    BY <1>2, ReaderFacts, StoreAssumption DEF ReaderFits
  <1>5. /\ r.pc = "answered" /\ r.locator = l /\ r.known = Accepted(l)
        /\ r.status = "succeeded" /\ r.seen = seen
    BY DEF NewReader
  <1>6. r \in ReaderState
    BY <1>2, <1>3 DEF NewReader, ReaderState, RunState, Settled, Accepted
  <1> HIDE DEF r, seen
  <1>7. QED
    BY <1>1, <1>4, <1>5, <1>6, OneReads

LEMMA MissCurrentKeeps ==
  ASSUME ReadsInv, UNCHANGED vars, NEW c \in Reader, NEW l \in Locator, MissCurrent(c, l)
  PROVE  ReadsInv'
  <1> DEFINE seen == reader[c].seen
             r == [NewReader EXCEPT !.pc = "latest", !.locator = l, !.known = Accepted(l),
                                    !.seen = seen]
  <1>1. reader' = [reader EXCEPT ![c] = r] /\ pointers[l] = None
    BY DEF MissCurrent
  <1>2. seen \in [Locator -> 0 .. MaxVersion]
    BY ReaderFacts DEF ReaderState
  <1>3. \A k \in Locator : seen[k] <= CurrentVersion(k)
    BY ReaderFacts DEF ReaderFits
  <1>4. seen[l] = 0
    BY <1>1, <1>2, <1>3, StoreAssumption DEF CurrentVersion
  <1>5. r.pc = "latest" /\ r.locator = l /\ r.known = Accepted(l) /\ r.seen = seen
    BY DEF NewReader
  <1>6. r \in ReaderState
    BY <1>2, VersionRange DEF NewReader, ReaderState, RunState, Accepted
  <1> HIDE DEF r, seen
  <1>7. QED
    BY <1>1, <1>3, <1>4, <1>5, <1>6, OneReads

LEMMA FindLatestKeeps ==
  ASSUME ReadsInv, UNCHANGED vars, NEW c \in Reader, FindLatest(c)
  PROVE  ReadsInv'
  <1>1. PICK id \in LatestRuns(reader[c].locator) :
          reader' = [reader EXCEPT ![c].pc = "loading", ![c].run = id]
    BY DEF FindLatest
  <1> DEFINE r == [reader[c] EXCEPT !.pc = "loading", !.run = id]
  <1>2. reader[c] \in ReaderState /\ reader[c].pc = "latest" /\ ReaderFits(c)
    BY ReaderFacts DEF FindLatest
  <1>3. id \in RunId /\ runs[id].key = reader[c].locator
    BY DEF LatestRuns
  <1>4. reader' = [reader EXCEPT ![c] = r]
    BY <1>1, ReaderFacts
  <1>5. r \in ReaderState
    BY <1>2, <1>3 DEF ReaderState
  <1>6. /\ r.pc = "loading" /\ r.run = id /\ r.locator = reader[c].locator
        /\ r.known = reader[c].known /\ r.seen = reader[c].seen
    BY <1>2 DEF ReaderState
  <1> HIDE DEF r
  <1>7. QED
    BY <1>2, <1>3, <1>4, <1>5, <1>6, OneReads DEF ReaderFits, Waiting

(* A client is answered without a result. *)
LEMMA AnswerKeeps ==
  ASSUME ReadsInv, UNCHANGED vars, NEW c \in Reader, Waiting(c),
         NEW status \in RunState \cup {"not found"}, NEW failure \in FailureKind \cup {None},
         Answer(c, status, failure),
         status = "succeeded" => pointers[reader[c].locator] # None,
         status = "failed" => failure # None,
         reader[c].known => status # "not found"
  PROVE  ReadsInv'
  <1>1. PICK before \in ReaderState : before = reader[c]
    BY ReaderFacts
  <1>2. PICK l \in Locator : l = before.locator
    BY <1>1, ReaderFacts DEF ReaderFits, Waiting
  <1>3. before.seen \in [Locator -> 0 .. MaxVersion]
    BY SeenType
  <1>4. PICK seen \in [Locator -> 0 .. MaxVersion] : seen = [before.seen EXCEPT ![l] = 0]
    BY <1>3, VersionRange
  <1>5. \A k \in Locator : seen[k] <= CurrentVersion(k)
    <2>1. ASSUME NEW k \in Locator PROVE seen[k] <= CurrentVersion(k)
      <3>1. 0 <= CurrentVersion(k)
        BY ReaderFacts, VersionRange
      <3>2. before.seen[k] <= CurrentVersion(k)
        BY <1>1, ReaderFacts DEF ReaderFits
      <3>3. seen[k] = before.seen[k] \/ seen[k] = 0
        BY <1>3, <1>4
      <3>4. CASE seen[k] = 0
        BY <3>1, <3>4, Zenon
      <3>5. CASE seen[k] = before.seen[k]
        BY <3>2, <3>5
      <3>6. QED
        BY <3>3, <3>4, <3>5
    <2>2. QED
      BY <2>1
  <1>6. PICK r \in ReaderState :
          r = [before EXCEPT !.pc = "answered", !.status = status, !.failure = failure,
                             !.version = 0, !.seen = seen]
    BY VersionRange DEF ReaderState
  <1>7. reader' = [reader EXCEPT ![c] = r]
    BY <1>1, <1>2, <1>4, <1>6 DEF Answer
  <1>8. /\ r.pc = "answered" /\ r.status = status /\ r.failure = failure
        /\ r.locator = l /\ r.known = before.known /\ r.seen = seen
    BY <1>2, <1>6 DEF ReaderState
  <1>9. before.known => Accepted(l)
    BY <1>1, <1>2, ReaderFacts DEF ReaderFits
  <1>10. QED
    BY <1>1, <1>2, <1>5, <1>7, <1>8, <1>9, OneReads

LEMMA MissLatestKeeps ==
  ASSUME ReadsInv, UNCHANGED vars, NEW c \in Reader, MissLatest(c)
  PROVE  ReadsInv'
  <1>1. PICK l \in Locator : l = reader[c].locator
    BY ReaderFacts DEF MissLatest, ReaderFits
  <1>2. LatestRuns(l) = {}
    BY <1>1 DEF MissLatest
  <1>3. ~ Accepted(l)
    BY <1>2, YoungestFound DEF ReadsInv, HistoryInv
  <1>4. ~ reader[c].known
    BY <1>1, <1>3, ReaderFacts DEF ReaderFits
  <1>5. Waiting(c) /\ Answer(c, "not found", None)
    BY DEF MissLatest, Waiting
  <1>6. QED
    BY <1>4, <1>5, AnswerKeeps

LEMMA ReadRunKeeps ==
  ASSUME ReadsInv, UNCHANGED vars, NEW c \in Reader, ReadRun(c)
  PROVE  ReadsInv'
  <1>1. /\ Waiting(c) /\ reader[c].run \in RunId
        /\ runs[reader[c].run].key = reader[c].locator /\ reader[c].locator \in Locator
    BY ReaderFacts DEF ReadRun, ReaderFits, Waiting
  <1>2. PICK id \in RunId : id = reader[c].run
    BY <1>1
  <1>3. Answer(c, runs[id].state, runs[id].failure)
    BY <1>2 DEF ReadRun
  <1>4. /\ runs[id].state \in RunState /\ runs[id].state # "not found"
        /\ runs[id].failure \in FailureKind \cup {None}
        /\ runs[id].state = "succeeded" => pointers[runs[id].key] # None
        /\ runs[id].state = "failed" => runs[id].failure # None
    BY <1>1, <1>2, RunRowFits, ReaderFacts
  <1>5. QED
    BY <1>1, <1>2, <1>3, <1>4, AnswerKeeps

LEMMA NextReads ==
  ASSUME ReadsInv, [ReadsNext]_readVars
  PROVE  ReadsInv'
  <1>1. CASE [Next]_vars /\ UNCHANGED reader
    BY <1>1, ServiceStep
  <1>2. CASE (\E c \in Reader : ReaderStep(c)) /\ UNCHANGED vars
    BY <1>2, ReadCurrentKeeps, MissCurrentKeeps, FindLatestKeeps, MissLatestKeeps, ReadRunKeeps
    DEF ReaderStep
  <1>3. QED
    BY <1>1, <1>2 DEF ReadsNext, readVars

LEMMA ReadsInvariant == ReadsSpec => []ReadsInv
  BY InitReads, NextReads, PTL DEF ReadsSpec

-----------------------------------------------------------------------------
(* The results *)

(* README: "a failed response includes failure", even while the run behind  *)
(* the answer is retried, claimed and failed by the workers.                *)
THEOREM FailuresExplainedToClients == ReadsSpec => []FailedAnswerExplains
  <1>1. ReadsInv => FailedAnswerExplains
    BY DEF ReadsInv, AnswerFits, FailedAnswerExplains
  <1>2. QED
    BY <1>1, ReadsInvariant, PTL

(* A locator accepted before the request is never answered "not found": its *)
(* runs have a youngest one, and no row loses its target (ADR-0003).        *)
THEOREM AcceptedFound == ReadsSpec => []AcceptedLocatorFound
  <1>1. ReadsInv => AcceptedLocatorFound
    BY DEF ReadsInv, AnswerFits, AcceptedLocatorFound
  <1>2. QED
    BY <1>1, ReadsInvariant, PTL

(* Whoever is told "succeeded" without a result finds one when asking again *)
(* (README, sql_module.go:186).                                             *)
THEOREM SucceededFound == ReadsSpec => []SucceededResultFindable
  <1>1. ReadsInv => SucceededResultFindable
    BY DEF ReadsInv, AnswerFits, SucceededResultFindable
  <1>2. QED
    BY <1>1, ReadsInvariant, PTL

(* The versions a client is answered for a locator never go back, and no    *)
(* later answer lacks the result again (ADR-0003).                          *)
THEOREM VersionsNeverGoBack == ReadsSpec => VersionsAdvance
  <1> DEFINE Advance == \A c \in Reader, l \in Locator : reader'[c].seen[l] >= reader[c].seen[l]
  <1>1. ASSUME ReadsInv, [ReadsNext]_readVars PROVE Advance
    <2>1. ASSUME NEW c \in Reader, NEW l \in Locator
          PROVE  reader'[c].seen[l] >= reader[c].seen[l]
      <3>1. /\ reader \in [Reader -> ReaderState]
            /\ reader[c].seen \in [Locator -> 0 .. MaxVersion] /\ reader[c].seen[l] \in Nat
        BY <1>1, ReaderFacts, SeenType
      <3>2. CASE UNCHANGED reader
        BY <3>1, <3>2
      <3>3. ASSUME NEW d \in Reader, NEW k \in Locator, ReadCurrent(d, k) \/ MissCurrent(d, k)
            PROVE  reader'[c].seen[l] >= reader[c].seen[l]
        <4>1. CurrentVersion(l) \in Nat /\ reader[c].seen[l] <= CurrentVersion(l)
          <5>1. CurrentVersion(l) \in 0 .. MaxVersion /\ ReaderFits(c)
            BY <1>1, ReaderFacts
          <5>2. QED
            BY <5>1, StoreAssumption DEF ReaderFits
        <4>2. \E r : /\ reader' = [reader EXCEPT ![d] = r]
                     /\ \/ r.seen = reader[d].seen
                        \/ r.seen = [reader[d].seen EXCEPT ![k] = CurrentVersion(k)]
          <5>1. CASE ReadCurrent(d, k)
            <6> DEFINE seen == [reader[d].seen EXCEPT ![k] = CurrentVersion(k)]
                       r == [NewReader EXCEPT !.pc = "answered", !.locator = k,
                                              !.known = Accepted(k), !.status = "succeeded",
                                              !.version = CurrentVersion(k), !.seen = seen]
            <6>1. reader' = [reader EXCEPT ![d] = r]
              BY <5>1 DEF ReadCurrent
            <6>2. r.seen = seen
              BY DEF NewReader
            <6> HIDE DEF r
            <6>3. QED
              BY <6>1, <6>2
          <5>2. CASE MissCurrent(d, k)
            <6> DEFINE seen == reader[d].seen
                       r == [NewReader EXCEPT !.pc = "latest", !.locator = k,
                                              !.known = Accepted(k), !.seen = seen]
            <6>1. reader' = [reader EXCEPT ![d] = r]
              BY <5>2 DEF MissCurrent
            <6>2. r.seen = seen
              BY DEF NewReader
            <6> HIDE DEF r
            <6>3. QED
              BY <6>1, <6>2
          <5>3. QED
            BY <3>3, <5>1, <5>2
        <4>6. PICK r : /\ reader' = [reader EXCEPT ![d] = r]
                       /\ \/ r.seen = reader[d].seen
                          \/ r.seen = [reader[d].seen EXCEPT ![k] = CurrentVersion(k)]
          BY <4>2
        <4>3. CASE c = d
          BY <3>1, <4>1, <4>2, <4>3
        <4>4. CASE c # d
          BY <3>1, <4>2, <4>4
        <4>5. QED
          BY <4>3, <4>4
      <3>4. ASSUME NEW d \in Reader, FindLatest(d) \/ MissLatest(d) \/ ReadRun(d)
            PROVE  reader'[c].seen[l] >= reader[c].seen[l]
        <4>1. /\ reader[d] \in ReaderState /\ reader[d].seen \in [Locator -> 0 .. MaxVersion]
              /\ reader[d].seen[reader[d].locator] = 0
          <5>1. ReaderFits(d) /\ reader[d] \in ReaderState
            BY <1>1, ReaderFacts
          <5>2. QED
            BY <3>4, <5>1, SeenType DEF ReaderFits, Waiting, FindLatest, MissLatest, ReadRun
        <4>2. PICK r : reader' = [reader EXCEPT ![d] = r]
                       /\ r.seen \in {reader[d].seen,
                                      [reader[d].seen EXCEPT ![reader[d].locator] = 0]}
          <5>1. CASE FindLatest(d)
            <6>1. PICK id : reader' = [reader EXCEPT ![d].pc = "loading", ![d].run = id]
              BY <5>1 DEF FindLatest
            <6> DEFINE r == [reader[d] EXCEPT !.pc = "loading", !.run = id]
            <6>2. reader' = [reader EXCEPT ![d] = r]
              BY <3>1, <6>1
            <6>3. r.seen = reader[d].seen
              BY <4>1 DEF ReaderState
            <6>4. QED
              BY <6>2, <6>3
          <5>2. CASE MissLatest(d) \/ ReadRun(d)
            <6>1. PICK status, failure : Answer(d, status, failure)
              BY <5>2 DEF MissLatest, ReadRun
            <6> DEFINE seen == [reader[d].seen EXCEPT ![reader[d].locator] = 0]
                       r == [reader[d] EXCEPT !.pc = "answered", !.status = status,
                                              !.failure = failure, !.version = 0,
                                              !.seen = seen]
            <6>2. reader' = [reader EXCEPT ![d] = r]
              BY <6>1 DEF Answer
            <6>3. r.seen = seen
              BY <4>1 DEF ReaderState
            <6> HIDE DEF r
            <6>4. QED
              BY <6>2, <6>3
          <5>3. QED
            BY <3>4, <5>1, <5>2
        <4>3. \A k \in Locator : r.seen[k] = reader[d].seen[k]
          BY <4>1, <4>2
        <4>4. reader'[c].seen[l] = reader[c].seen[l]
          BY <3>1, <4>2, <4>3
        <4>5. QED
          BY <3>1, <4>4
      <3>5. QED
        BY <1>1, <3>2, <3>3, <3>4 DEF ReadsNext, readVars, ReaderStep
    <2>2. QED
      BY <2>1
  <1>2. QED
    BY <1>1, ReadsInvariant, PTL DEF ReadsSpec, VersionsAdvance

=============================================================================
