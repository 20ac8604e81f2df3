---------------------------- MODULE IntakeProofs ----------------------------
(***************************************************************************)
(* What intake promises, for any requests, facts and eligible inputs.      *)
(*                                                                         *)
(* First, that no client is answered with a locator that nothing was saved *)
(* under, or is to be saved by the submission it joined.  The answer is    *)
(* computed anew from the inputs of the run that was saved, joined or made *)
(* unnecessary by current results; that these agree takes an invariant of  *)
(* the rows of all three and of the submissions that are saving.           *)
(*                                                                         *)
(* Then, what an answer stands for: the generators can begin with what it  *)
(* names, and two answers name the same locator exactly if they ask for    *)
(* the same card.  The invariant is only that every answer was made of     *)
(* facts the archive once had; the argument is about the inputs, key by    *)
(* key, through resolvedInputs, inputsForTemplate and validate.            *)
(***************************************************************************)
EXTENDS Intake, FiniteSetTheorems, TLAPS

-----------------------------------------------------------------------------
(* What is saved *)

(* The locator of one template of a target, as ResultLocators computes it. *)
LocatorOf(t, target, match, inputs) ==
  Locator(t, match, IF IsCardSet(target) THEN InputsOf(t, inputs) ELSE inputs)

(* A run has been saved, or its card set has been and its insert has not, or *)
(* not yet, followed.                                                       *)
Accounted(t, locator) ==
  SavedUnder(t, locator) \/ \E s \in saving \cup failed : Misses(s, t, locator)

(* A run has the locator of its inputs, ... *)
Located(run) == run.locator = Locator(run.target, run.match, run.inputs)

RunsLocated == \A run \in rows : Located(run)

(* ... so have the runs of a submission that saves a card set, ... *)
SavingLocated ==
  \A s \in saving :
    /\ s = [parent |-> s.parent, reply |-> s.reply, missing |-> s.missing]
    /\ Located(s.parent)
    /\ \A run \in s.missing : Located(run) /\ ~ IsCardSet(run.target)

(* ... all templates of a card set are accounted for, ... *)
Whole(parent) ==
  IsCardSet(parent.target) =>
    \A t \in CardSetTemplates :
      Accounted(t, LocatorOf(t, parent.target, parent.match, parent.inputs))

SetsWhole == \A run \in rows \cup {s.parent : s \in saving} : Whole(run)

(* ... a submission saves all that it is going to answer, ... *)
RepliesCovered ==
  \A s \in saving : \A a \in s.reply : \A t \in DOMAIN a.locators :
    SavedUnder(t, a.locators[t]) \/ Misses(s, t, a.locators[t])

(* ... and a current result has the run that published it. *)
ResultsRun == \A locator \in current : SavedUnder(locator.target, locator)

IntakeInv ==
  /\ RunsLocated /\ SavingLocated /\ SetsWhole /\ RepliesCovered /\ ResultsRun
  /\ AnsweredLocatorsSaved

LEMMA InitIntake == Init => IntakeInv
  BY DEF Init, IntakeInv, RunsLocated, SavingLocated, SetsWhole, RepliesCovered,
         ResultsRun, AnsweredLocatorsSaved

LEMMA TemplatesAlone ==
  /\ ~ IsCardSet("h2h_record") /\ \A t \in CardSetTemplates : ~ IsCardSet(t)
  /\ \A t : ~ IsCardSet(t) => Templates(t) = {t}
  /\ \A t : IsCardSet(t) => Templates(t) = CardSetTemplates
  /\ Templates("pre_toss_v1") = CardSetTemplates
  BY DEF IsCardSet, CardSetTemplates, Templates

LEMMA LocatorTarget ==
  ASSUME NEW target, NEW match, NEW inputs
  PROVE  Locator(target, match, inputs).target = target
  BY DEF Locator

LEMMA RunFields ==
  ASSUME NEW target, NEW match, NEW inputs, NEW mode
  PROVE  LET run == Run(target, match, inputs, mode)
         IN /\ run.target = target /\ run.match = match /\ run.inputs = inputs
            /\ run.locator = Locator(target, match, inputs)
            /\ Located(run)
  BY DEF Run, Located

-----------------------------------------------------------------------------
(* Nothing is taken back *)

(* Every row has a later one with its locator, and what a submission misses *)
(* is saved by then, or missed still, by it or one that takes its place.    *)
RowsStay ==
  \A run \in rows : \E later \in rows' :
    later.target = run.target /\ later.locator = run.locator

MissesStay ==
  \A s \in saving \cup failed : \A run \in s.missing :
    \/ run \in rows'
    \/ \E later \in saving' \cup failed' : run \in later.missing

LEMMA SavedStays ==
  ASSUME RowsStay, NEW t, NEW locator, SavedUnder(t, locator)
  PROVE  SavedUnder(t, locator)'
  BY DEF RowsStay, SavedUnder

LEMMA AccountedStays ==
  ASSUME RowsStay, MissesStay, NEW t, NEW locator, Accounted(t, locator)
  PROVE  Accounted(t, locator)'
  <1>1. CASE SavedUnder(t, locator)
    BY <1>1, SavedStays DEF Accounted
  <1>2. CASE \E s \in saving \cup failed : Misses(s, t, locator)
    <2> PICK s \in saving \cup failed : Misses(s, t, locator)
      BY <1>2
    <2>1. PICK run \in s.missing : run.target = t /\ run.locator = locator
      BY DEF Misses
    <2>2. CASE run \in rows'
      BY <2>1, <2>2 DEF Accounted, SavedUnder
    <2>3. CASE \E later \in saving' \cup failed' : run \in later.missing
      BY <2>1, <2>3 DEF Accounted, Misses
    <2>4. QED
      BY <2>1, <2>2, <2>3 DEF MissesStay
  <1>3. QED
    BY <1>1, <1>2 DEF Accounted

LEMMA WholeStays ==
  ASSUME RowsStay, MissesStay, NEW parent, Whole(parent)
  PROVE  Whole(parent)'
  BY AccountedStays DEF Whole

LEMMA ResultsStay ==
  ASSUME IntakeInv, RowsStay, current' \subseteq current
  PROVE  ResultsRun'
  BY SavedStays DEF IntakeInv, ResultsRun

(* An answer can rely on what it could rely on. *)
Reliable(a) ==
  \A t \in DOMAIN a.locators :
    \/ SavedUnder(t, a.locators[t])
    \/ /\ a.joined /\ IsCardSet(a.request.target)
       /\ \E s \in saving \cup failed : Misses(s, t, a.locators[t])

LEMMA AnswersReliable ==
  /\ AnsweredLocatorsSaved <=> \A a \in answers : Reliable(a)
  /\ AnsweredLocatorsSaved' <=> \A a \in answers' : Reliable(a)'
  BY DEF AnsweredLocatorsSaved, Reliable

LEMMA ReliableStays ==
  ASSUME RowsStay, MissesStay, NEW a, Reliable(a)
  PROVE  Reliable(a)'
  <1>1. ASSUME NEW t \in DOMAIN a.locators, SavedUnder(t, a.locators[t])
        PROVE  SavedUnder(t, a.locators[t])'
    BY <1>1, SavedStays
  <1>2. ASSUME NEW t \in DOMAIN a.locators,
               \E s \in saving \cup failed : Misses(s, t, a.locators[t])
        PROVE  \/ SavedUnder(t, a.locators[t])'
               \/ \E s \in saving' \cup failed' : Misses(s, t, a.locators[t])
    BY <1>2, AccountedStays DEF Accounted
  <1>3. QED
    BY <1>1, <1>2 DEF Reliable

-----------------------------------------------------------------------------
(* StartRun *)

(* A template of the target is among the runs to be saved, or its result is *)
(* current.                                                                 *)
LEMMA TemplatesWanted ==
  ASSUME IntakeInv, NEW target, NEW match, NEW inputs, NEW mode, NEW t \in Templates(target)
  PROVE  LET locator == LocatorOf(t, target, match, inputs)
         IN \/ \E run \in TemplateRuns(target, match, inputs, mode) :
                 run.target = t /\ run.locator = locator
            \/ SavedUnder(t, locator)
  <1> DEFINE locator == LocatorOf(t, target, match, inputs)
             run == Run(t, match, IF IsCardSet(target) THEN InputsOf(t, inputs) ELSE inputs, mode)
  <1>1. run.target = t /\ run.locator = locator
    BY RunFields DEF LocatorOf
  <1>2. /\ IsCardSet(target) => t \in CardSetTemplates
        /\ ~ IsCardSet(target) => t = target
    BY DEF Templates
  <1>3. run \in TemplateRuns(target, match, inputs, mode) \/ locator \in current
    BY <1>1, <1>2 DEF TemplateRuns
  <1>4. CASE locator \in current
    <2>1. locator.target = t
      BY LocatorTarget DEF LocatorOf
    <2>2. QED
      BY <1>4, <2>1 DEF IntakeInv, ResultsRun
  <1>5. QED
    BY <1>1, <1>3, <1>4

LEMMA RunsWanted ==
  ASSUME NEW target, NEW match, NEW inputs, NEW mode,
         NEW run \in TemplateRuns(target, match, inputs, mode)
  PROVE  /\ Located(run)
         /\ IsCardSet(target) => ~ IsCardSet(run.target)
         /\ ~ IsCardSet(target) => run = Run(target, match, inputs, mode)
  <1>1. CASE IsCardSet(target)
    <2>1. PICK t \in CardSetTemplates : run = Run(t, match, InputsOf(t, inputs), mode)
      BY <1>1 DEF TemplateRuns
    <2>2. QED
      BY <1>1, <2>1, RunFields, TemplatesAlone
  <1>2. CASE ~ IsCardSet(target)
    BY <1>2, RunFields DEF TemplateRuns
  <1>3. QED
    BY <1>1, <1>2

(* What StartRun is asked to answer with. *)
ReplyFits(a, target, match, inputs, mode) ==
  /\ a.locators = ResultLocators(target, match, inputs)
  /\ a.request.target = target
  /\ Run(target, match, inputs, mode) \in rows => a.joined

LEMMA ReplyLocators ==
  ASSUME NEW a, NEW target, NEW match, NEW inputs, NEW mode,
         ReplyFits(a, target, match, inputs, mode), NEW t \in DOMAIN a.locators
  PROVE  t \in Templates(target) /\ a.locators[t] = LocatorOf(t, target, match, inputs)
  BY DEF ReplyFits, ResultLocators, LocatorOf

(* There is nothing to save: the request is answered at once. *)
LEMMA NothingKeeps ==
  ASSUME IntakeInv, NEW target, NEW match, NEW inputs, NEW mode, NEW reply,
         \A a \in reply : ReplyFits(a, target, match, inputs, mode),
         NothingToSave(target, match, inputs, mode),
         answers' = answers \cup reply, UNCHANGED <<rows, current, saving, failed>>
  PROVE  IntakeInv'
  <1> DEFINE own == Run(target, match, inputs, mode)
  <1>1. RowsStay /\ MissesStay
    BY DEF RowsStay, MissesStay
  <1>2. ASSUME NEW a \in reply PROVE Reliable(a)
    <2>1. ASSUME NEW t \in DOMAIN a.locators
          PROVE  \/ SavedUnder(t, a.locators[t])
                 \/ /\ a.joined /\ IsCardSet(a.request.target)
                    /\ \E s \in saving \cup failed : Misses(s, t, a.locators[t])
      <3>1. t \in Templates(target) /\ a.locators[t] = LocatorOf(t, target, match, inputs)
        BY ReplyLocators
      <3>2. own.target = target /\ own.match = match /\ own.inputs = inputs
            /\ own.locator = Locator(target, match, inputs)
        BY RunFields
      <3>3. CASE own \in rows /\ IsCardSet(target)
        <4>1. Accounted(t, LocatorOf(t, target, match, inputs))
          BY <3>1, <3>2, <3>3, TemplatesAlone DEF IntakeInv, SetsWhole, Whole
        <4>2. a.joined /\ IsCardSet(a.request.target)
          BY <3>3 DEF ReplyFits
        <4>3. QED
          BY <3>1, <4>1, <4>2 DEF Accounted
      <3>4. CASE own \in rows /\ ~ IsCardSet(target)
        <4>1. t = target /\ a.locators[t] = own.locator
          BY <3>1, <3>2, <3>4, TemplatesAlone DEF LocatorOf
        <4>2. QED
          BY <3>2, <3>4, <4>1 DEF SavedUnder
      <3>5. CASE TemplateRuns(target, match, inputs, mode) = {}
        BY <3>1, <3>5, TemplatesWanted
      <3>6. QED
        BY <3>3, <3>4, <3>5 DEF NothingToSave
    <2>2. QED
      BY <2>1 DEF Reliable
  <1>3. AnsweredLocatorsSaved'
    <2>1. \A a \in answers \cup reply : Reliable(a)
      BY <1>2, AnswersReliable DEF IntakeInv
    <2>2. QED
      BY <1>1, <2>1, ReliableStays, AnswersReliable
  <1>4. QED
    BY <1>3 DEF IntakeInv, RunsLocated, SavingLocated, SetsWhole, RepliesCovered, ResultsRun,
                Whole, Accounted, SavedUnder

(* A single template is saved, and the request answered. *)
LEMMA SingleKeeps ==
  ASSUME IntakeInv, NEW target, NEW match, NEW inputs, NEW mode, NEW reply,
         \A a \in reply : ReplyFits(a, target, match, inputs, mode),
         ~ IsCardSet(target), rows' = rows \cup {Run(target, match, inputs, mode)},
         answers' = answers \cup reply, UNCHANGED <<current, saving, failed>>
  PROVE  IntakeInv'
  <1> PICK own : own = Run(target, match, inputs, mode)
    OBVIOUS
  <1>1. RowsStay /\ MissesStay
    BY DEF RowsStay, MissesStay
  <1>2. /\ own.target = target /\ own.locator = Locator(target, match, inputs)
        /\ Located(own)
    BY RunFields
  <1>3. ASSUME NEW a \in reply PROVE Reliable(a)'
    <2>1. ASSUME NEW t \in DOMAIN a.locators PROVE SavedUnder(t, a.locators[t])'
      <3>1. t = target /\ a.locators[t] = own.locator
        BY <1>2, ReplyLocators, TemplatesAlone DEF LocatorOf
      <3>2. QED
        BY <1>2, <3>1 DEF SavedUnder
    <2>2. QED
      BY <2>1 DEF Reliable
  <1>4. AnsweredLocatorsSaved'
    BY <1>1, <1>3, ReliableStays, AnswersReliable DEF IntakeInv
  <1>5. RunsLocated' /\ SavingLocated'
    BY <1>2 DEF IntakeInv, RunsLocated, SavingLocated
  <1>6. SetsWhole'
    <2>1. Whole(own)'
      BY <1>2 DEF Whole
    <2>2. QED
      BY <1>1, <2>1, WholeStays DEF IntakeInv, SetsWhole
  <1>7. RepliesCovered'
    BY <1>1, SavedStays DEF IntakeInv, RepliesCovered
  <1>8. QED
    BY <1>1, <1>4, <1>5, <1>6, <1>7, ResultsStay DEF IntakeInv

(* The parent of a card set is saved, and its templates are to follow. *)
LEMMA ParentKeeps ==
  ASSUME IntakeInv, NEW target, NEW match, NEW inputs, NEW mode, NEW reply,
         \A a \in reply : ReplyFits(a, target, match, inputs, mode),
         IsCardSet(target), rows' = rows \cup {Run(target, match, inputs, mode)},
         saving' = saving \cup
           {[parent |-> Run(target, match, inputs, mode), reply |-> reply,
             missing |-> TemplateRuns(target, match, inputs, mode)]},
         UNCHANGED <<current, failed, answers>>
  PROVE  IntakeInv'
  <1> PICK own : own = Run(target, match, inputs, mode)
    OBVIOUS
  <1> PICK missing : missing = TemplateRuns(target, match, inputs, mode)
    OBVIOUS
  <1> PICK new : new = [parent |-> own, reply |-> reply, missing |-> missing]
    OBVIOUS
  <1>1. /\ rows' = rows \cup {own} /\ saving' = saving \cup {new}
        /\ new.parent = own /\ new.reply = reply /\ new.missing = missing
    OBVIOUS
  <1>2. RowsStay /\ MissesStay
    BY <1>1 DEF RowsStay, MissesStay
  <1>3. /\ own.target = target /\ own.match = match /\ own.inputs = inputs
        /\ Located(own)
    BY RunFields
  <1>4. ASSUME NEW t \in Templates(target)
        PROVE  \/ SavedUnder(t, LocatorOf(t, target, match, inputs))'
               \/ Misses(new, t, LocatorOf(t, target, match, inputs))
    <2>1. \/ \E run \in missing :
               run.target = t /\ run.locator = LocatorOf(t, target, match, inputs)
          \/ SavedUnder(t, LocatorOf(t, target, match, inputs))
      BY TemplatesWanted
    <2>2. QED
      BY <1>1, <1>2, <2>1, SavedStays DEF Misses
  <1>5. RunsLocated'
    BY <1>1, <1>3 DEF IntakeInv, RunsLocated
  <1>6. SavingLocated'
    <2>1. \A run \in missing : Located(run) /\ ~ IsCardSet(run.target)
      BY RunsWanted
    <2>2. QED
      BY <1>1, <1>3, <2>1 DEF IntakeInv, SavingLocated
  <1>7. SetsWhole'
    <2>1. Whole(own)'
      BY <1>1, <1>3, <1>4, TemplatesAlone DEF Whole, Accounted
    <2>2. ASSUME NEW run \in rows' \cup {s.parent : s \in saving'}
          PROVE  Whole(run)'
      <3>1. run = own \/ run \in rows \cup {s.parent : s \in saving}
        BY <1>1
      <3>2. QED
        BY <1>2, <2>1, <3>1, WholeStays DEF IntakeInv, SetsWhole
    <2>3. QED
      BY <2>2 DEF SetsWhole
  <1>8. RepliesCovered'
    <2>1. ASSUME NEW s \in saving', NEW a \in s.reply, NEW t \in DOMAIN a.locators
          PROVE  SavedUnder(t, a.locators[t])' \/ Misses(s, t, a.locators[t])
      <3>1. CASE s \in saving
        BY <1>2, <3>1, SavedStays DEF IntakeInv, RepliesCovered
      <3>2. CASE s = new
        BY <1>1, <1>4, <3>2, ReplyLocators
      <3>3. QED
        BY <1>1, <3>1, <3>2
    <2>2. QED
      BY <2>1 DEF RepliesCovered
  <1>9. AnsweredLocatorsSaved'
    BY <1>2, ReliableStays, AnswersReliable DEF IntakeInv
  <1>10. QED
    BY <1>2, <1>5, <1>6, <1>7, <1>8, <1>9, ResultsStay DEF IntakeInv

LEMMA StartRunKeeps ==
  ASSUME IntakeInv, NEW target, NEW match, NEW inputs, NEW mode, NEW reply,
         \A a \in reply : ReplyFits(a, target, match, inputs, mode),
         StartRun(target, match, inputs, mode, reply), UNCHANGED <<current, failed>>
  PROVE  IntakeInv'
  <1>1. CASE NothingToSave(target, match, inputs, mode)
    BY <1>1, NothingKeeps DEF StartRun
  <1>2. CASE ~ NothingToSave(target, match, inputs, mode) /\ ~ IsCardSet(target)
    BY <1>2, SingleKeeps DEF StartRun
  <1>3. CASE ~ NothingToSave(target, match, inputs, mode) /\ IsCardSet(target)
    BY <1>3, ParentKeeps DEF StartRun
  <1>4. QED
    BY <1>1, <1>2, <1>3

-----------------------------------------------------------------------------
(* Steps *)

LEMMA SubmitKeeps ==
  ASSUME IntakeInv, NEW r \in Request, SubmitRun(r)
  PROVE  IntakeInv'
  <1> PICK inputs : inputs = RunInputs(r.target, InputsFor(r))
    OBVIOUS
  <1> PICK a : a = ReplyTo(r)
    OBVIOUS
  <1>1. ReplyFits(a, r.target, r.match, inputs, r.mode)
    BY DEF ReplyTo, ReplyFits
  <1>2. StartRun(r.target, r.match, inputs, r.mode, {a}) /\ UNCHANGED <<current, failed>>
    BY DEF SubmitRun
  <1>3. QED
    BY <1>1, <1>2, StartRunKeeps

LEMMA ReconcileKeeps ==
  ASSUME IntakeInv, NEW match, NEW inputs, Reconcile(match, inputs)
  PROVE  IntakeInv'
  BY StartRunKeeps DEF Reconcile

LEMMA ChildKeeps ==
  ASSUME IntakeInv, NEW s \in saving, SaveChild(s)
  PROVE  IntakeInv'
  <1> PICK child \in s.missing :
         /\ rows' = rows \cup {child}
         /\ saving' = (saving \ {s}) \cup {[s EXCEPT !.missing = @ \ {child}]}
         /\ UNCHANGED <<current, failed, answers>>
    BY DEF SaveChild
  <1> PICK next : next = [s EXCEPT !.missing = @ \ {child}]
    OBVIOUS
  <1>1. /\ saving' = (saving \ {s}) \cup {next}
        /\ next.parent = s.parent /\ next.reply = s.reply
        /\ next.missing = s.missing \ {child}
    <2>1. s = [parent |-> s.parent, reply |-> s.reply, missing |-> s.missing]
      BY DEF IntakeInv, SavingLocated
    <2>2. next = [parent |-> s.parent, reply |-> s.reply, missing |-> s.missing \ {child}]
      BY <2>1
    <2>3. QED
      BY <2>2
  <1>2. RowsStay /\ MissesStay
    BY <1>1 DEF RowsStay, MissesStay
  <1>3. Located(child) /\ ~ IsCardSet(child.target)
    BY DEF IntakeInv, SavingLocated
  <1>4. RunsLocated' /\ SavingLocated'
    BY <1>1, <1>3 DEF IntakeInv, RunsLocated, SavingLocated
  <1>5. SetsWhole'
    <2>1. ASSUME NEW run \in rows' \cup {x.parent : x \in saving'}
          PROVE  Whole(run)'
      <3>1. run = child \/ run \in rows \cup {x.parent : x \in saving}
        BY <1>1
      <3>2. Whole(child)'
        BY <1>3 DEF Whole
      <3>3. QED
        BY <1>2, <3>1, <3>2, WholeStays DEF IntakeInv, SetsWhole
    <2>2. QED
      BY <2>1 DEF SetsWhole
  <1>6. RepliesCovered'
    <2>1. ASSUME NEW x \in saving', NEW a \in x.reply, NEW t \in DOMAIN a.locators
          PROVE  SavedUnder(t, a.locators[t])' \/ Misses(x, t, a.locators[t])
      <3>1. CASE x \in saving
        BY <1>2, <3>1, SavedStays DEF IntakeInv, RepliesCovered
      <3>2. CASE x = next
        <4>1. SavedUnder(t, a.locators[t]) \/ Misses(s, t, a.locators[t])
          BY <1>1, <3>2 DEF IntakeInv, RepliesCovered
        <4>2. Misses(s, t, a.locators[t])
                => SavedUnder(t, a.locators[t])' \/ Misses(next, t, a.locators[t])
          BY <1>1 DEF Misses, SavedUnder
        <4>3. QED
          BY <1>2, <3>2, <4>1, <4>2, SavedStays
      <3>3. QED
        BY <1>1, <3>1, <3>2
    <2>2. QED
      BY <2>1 DEF RepliesCovered
  <1>7. AnsweredLocatorsSaved'
    BY <1>2, ReliableStays, AnswersReliable DEF IntakeInv
  <1>8. QED
    BY <1>2, <1>4, <1>5, <1>6, <1>7, ResultsStay DEF IntakeInv

LEMMA ResaveKeeps ==
  ASSUME IntakeInv, NEW s \in saving, ResaveParent(s)
  PROVE  IntakeInv'
  <1> PICK ended : ended = [s.parent EXCEPT !.active = FALSE]
    OBVIOUS
  <1>1. /\ s.missing = {} /\ rows' = (rows \ {ended}) \cup {s.parent}
        /\ saving' = saving \ {s} /\ answers' = answers \cup s.reply
        /\ UNCHANGED <<current, failed>>
    BY DEF ResaveParent
  <1>2. ended.target = s.parent.target /\ ended.locator = s.parent.locator
    OBVIOUS
  <1>3. RowsStay /\ MissesStay
    BY <1>1, <1>2 DEF RowsStay, MissesStay
  <1>4. RunsLocated' /\ SavingLocated'
    BY <1>1 DEF IntakeInv, RunsLocated, SavingLocated
  <1>5. SetsWhole'
    <2>1. ASSUME NEW run \in rows' \cup {x.parent : x \in saving'}
          PROVE  Whole(run)'
      <3>1. run \in rows \cup {x.parent : x \in saving}
        BY <1>1
      <3>2. QED
        BY <1>3, <3>1, WholeStays DEF IntakeInv, SetsWhole
    <2>2. QED
      BY <2>1 DEF SetsWhole
  <1>6. RepliesCovered'
    BY <1>1, <1>3, SavedStays DEF IntakeInv, RepliesCovered
  <1>7. \A a \in s.reply : Reliable(a)'
    <2>1. ASSUME NEW a \in s.reply, NEW t \in DOMAIN a.locators
          PROVE  SavedUnder(t, a.locators[t])'
      BY <1>1, <1>3, SavedStays DEF IntakeInv, RepliesCovered, Misses
    <2>2. QED
      BY <2>1 DEF Reliable
  <1>8. AnsweredLocatorsSaved'
    BY <1>1, <1>3, <1>7, ReliableStays, AnswersReliable DEF IntakeInv
  <1>9. QED
    BY <1>1, <1>3, <1>4, <1>5, <1>6, <1>8, ResultsStay DEF IntakeInv

LEMMA FailureKeeps ==
  ASSUME IntakeInv, NEW s \in saving, SavingFails(s)
  PROVE  IntakeInv'
  <1>1. /\ saving' = saving \ {s} /\ failed' = failed \cup {s}
        /\ UNCHANGED <<rows, current, answers>>
    BY DEF SavingFails
  <1>2. RowsStay /\ MissesStay
    BY <1>1 DEF RowsStay, MissesStay
  <1>3. RunsLocated' /\ SavingLocated'
    BY <1>1 DEF IntakeInv, RunsLocated, SavingLocated
  <1>4. SetsWhole'
    <2>1. \A run \in rows' \cup {x.parent : x \in saving'} : Whole(run)'
      BY <1>1, <1>2, WholeStays DEF IntakeInv, SetsWhole
    <2>2. QED
      BY <2>1 DEF SetsWhole
  <1>5. RepliesCovered'
    BY <1>1, <1>2, SavedStays DEF IntakeInv, RepliesCovered
  <1>6. AnsweredLocatorsSaved'
    BY <1>1, <1>2, ReliableStays, AnswersReliable DEF IntakeInv
  <1>7. QED
    BY <1>1, <1>2, <1>3, <1>4, <1>5, <1>6, ResultsStay DEF IntakeInv

(* A row that ends keeps everything but that it is active. *)
LEMMA EndKeeps ==
  ASSUME IntakeInv, NEW run \in rows, RunEnds(run)
  PROVE  IntakeInv'
  <1> DEFINE ended == [run EXCEPT !.active = FALSE]
  <1>1. rows' = (rows \ {run}) \cup {ended} /\ UNCHANGED <<saving, failed, answers>>
    BY DEF RunEnds
  <1>2. /\ ended.target = run.target /\ ended.match = run.match
        /\ ended.inputs = run.inputs /\ ended.locator = run.locator
    OBVIOUS
  <1> HIDE DEF ended
  <1>3. RowsStay /\ MissesStay
    BY <1>1, <1>2 DEF RowsStay, MissesStay
  <1>4. Located(ended)
    BY <1>2 DEF IntakeInv, RunsLocated, Located
  <1>5. RunsLocated' /\ SavingLocated'
    BY <1>1, <1>4 DEF IntakeInv, RunsLocated, SavingLocated
  <1>6. SetsWhole'
    <2>1. Whole(ended)
      BY <1>2 DEF IntakeInv, SetsWhole, Whole
    <2>2. ASSUME NEW x \in rows' \cup {s.parent : s \in saving'}
          PROVE  Whole(x)'
      <3>1. x = ended \/ x \in rows \cup {s.parent : s \in saving}
        BY <1>1
      <3>2. QED
        BY <1>3, <2>1, <3>1, WholeStays DEF IntakeInv, SetsWhole
    <2>3. QED
      BY <2>2 DEF SetsWhole
  <1>7. RepliesCovered'
    BY <1>1, <1>3, SavedStays DEF IntakeInv, RepliesCovered
  <1>8. ResultsRun'
    <2>1. ASSUME NEW locator \in current' PROVE SavedUnder(locator.target, locator)'
      <3>1. SavedUnder(locator.target, locator)
        <4>1. CASE locator \in current
          BY <4>1 DEF IntakeInv, ResultsRun
        <4>2. CASE locator = Locator(run.target, run.match, run.inputs)
          BY <4>2, LocatorTarget DEF IntakeInv, RunsLocated, Located, SavedUnder
        <4>3. QED
          BY <4>1, <4>2 DEF RunEnds
      <3>2. QED
        BY <1>3, <3>1, SavedStays
    <2>2. QED
      BY <2>1 DEF ResultsRun
  <1>9. AnsweredLocatorsSaved'
    BY <1>1, <1>3, ReliableStays, AnswersReliable DEF IntakeInv
  <1>10. QED
    BY <1>5, <1>6, <1>7, <1>8, <1>9 DEF IntakeInv

LEMMA OthersKeep ==
  ASSUME IntakeInv, UNCHANGED <<rows, saving, failed, answers>>, current' \subseteq current
  PROVE  IntakeInv'
  BY DEF IntakeInv, RunsLocated, SavingLocated, SetsWhole, RepliesCovered, ResultsRun,
         AnsweredLocatorsSaved, Whole, Accounted, SavedUnder

LEMMA NextIntake ==
  ASSUME IntakeInv, [Next]_vars
  PROVE  IntakeInv'
  <1>1. CASE \E locator \in current : ResultAges(locator)
    BY <1>1, OthersKeep DEF ResultAges
  <1>2. CASE \E match \in Match, facts \in Facts : MatchCorrected(match, facts)
    BY <1>2, OthersKeep DEF MatchCorrected
  <1>3. CASE UNCHANGED vars
    BY <1>3, OthersKeep DEF vars
  <1>4. CASE \E r \in Request : SubmitRun(r)
    BY <1>4, SubmitKeeps
  <1>5. CASE \E match \in Match, inputs \in EligibleInputs : Reconcile(match, inputs)
    BY <1>5, ReconcileKeeps
  <1>6. CASE \E s \in saving : SaveChild(s) \/ ResaveParent(s) \/ SavingFails(s)
    BY <1>6, ChildKeeps, ResaveKeeps, FailureKeeps
  <1>7. CASE \E run \in rows : RunEnds(run)
    BY <1>7, EndKeeps
  <1>8. QED
    BY <1>1, <1>2, <1>3, <1>4, <1>5, <1>6, <1>7 DEF Next

(* Every locator in an answer is one that a run was saved under, unless the *)
(* request joined a card set whose own submission still had to save it, or  *)
(* failed to.                                                               *)
THEOREM AnswersSaved == Spec => []AnsweredLocatorsSaved
  <1>1. IntakeInv => AnsweredLocatorsSaved
    BY DEF IntakeInv
  <1>2. QED
    BY <1>1, InitIntake, NextIntake, PTL DEF Spec

-----------------------------------------------------------------------------
(* A set of ids loses nothing and gains nothing when it is sorted: no two    *)
(* ids have the same number of ids that are not above them.                  *)
LEMMA SortedHas ==
  ASSUME NEW ids \in SUBSET Nat, IsFiniteSet(ids)
  PROVE  /\ ToSet(Sorted(ids)) = ids
         /\ ids # {} => Sorted(ids) # <<>>
  <1> DEFINE upTo(id) == {other \in ids : other <= id}
             rank == [id \in ids |-> Cardinality(upTo(id))]
             n == Cardinality(ids)
  <1>1. n \in Nat
    BY FS_CardinalityType
  <1>2. ASSUME NEW id \in ids
        PROVE  IsFiniteSet(upTo(id)) /\ Cardinality(upTo(id)) \in 1 .. n
    <2>1. upTo(id) \in SUBSET ids
      OBVIOUS
    <2>2. IsFiniteSet(upTo(id)) /\ Cardinality(upTo(id)) <= n
      BY <2>1, FS_Subset
    <2>3. Cardinality(upTo(id)) \in Nat
      BY <2>2, FS_CardinalityType
    <2>4. upTo(id) # {}
      BY <1>2
    <2>5. Cardinality(upTo(id)) # 0
      BY <2>2, <2>4, FS_EmptySet
    <2>6. QED
      BY <1>1, <2>2, <2>3, <2>5
  <1>3. ASSUME NEW a \in ids, NEW b \in ids, a < b
        PROVE  Cardinality(upTo(a)) # Cardinality(upTo(b))
    <2>1. a \in Nat /\ b \in Nat
      OBVIOUS
    <2>2. b \in upTo(b) /\ b \notin upTo(a)
      BY <1>3, <2>1
    <2>3. ASSUME NEW id \in upTo(a)
          PROVE  id \in upTo(b)
      BY <1>3, <2>1, <2>3
    <2>4. IsFiniteSet(upTo(b))
      BY <1>2
    <2>5. upTo(a) \in SUBSET upTo(b) /\ upTo(a) # upTo(b)
      BY <2>2, <2>3
    <2>6. QED
      BY <2>4, <2>5, FS_Subset
  <1>4. rank \in Injection(ids, 1 .. n)
    <2>1. rank \in [ids -> 1 .. n]
      BY <1>2
    <2>2. ASSUME NEW a \in ids, NEW b \in ids, a # b
          PROVE  rank[a] # rank[b]
      <3>1. a < b \/ b < a
        BY <2>2
      <3>2. QED
        BY <1>3, <3>1
    <2>3. QED
      BY <2>1, <2>2 DEF Injection, IsInjective
  <1>5. IsFiniteSet(1 .. n) /\ Cardinality(1 .. n) = n
    BY <1>1, FS_Interval
  <1>6. rank \in Surjection(ids, 1 .. n)
    BY <1>4, <1>5, FS_Injection
  <1>7. ASSUME NEW i \in 1 .. n
        PROVE  Sorted(ids)[i] \in ids /\ rank[Sorted(ids)[i]] = i
    <2>1. PICK id \in ids : rank[id] = i
      BY <1>6 DEF Surjection
    <2>2. Cardinality(upTo(id)) = i
      BY <2>1
    <2>3. Sorted(ids)[i] = CHOOSE x \in ids : Cardinality(upTo(x)) = i
      BY <1>7 DEF Sorted
    <2>4. QED
      BY <2>2, <2>3
  <1>8. DOMAIN Sorted(ids) = 1 .. n
    BY DEF Sorted
  <1>9. ASSUME NEW id \in ids
        PROVE  Sorted(ids)[rank[id]] = id
    BY <1>2, <1>4, <1>7 DEF Injection, IsInjective
  <1>10. ids # {} => Sorted(ids) # <<>>
    <2>1. ids # {} => n # 0
      BY FS_EmptySet
    <2>2. DOMAIN <<>> = {}
      OBVIOUS
    <2>3. QED
      BY <1>1, <1>8, <2>1, <2>2
  <1>11. QED
    BY <1>2, <1>7, <1>8, <1>9, <1>10 DEF ToSet

-----------------------------------------------------------------------------
(* The filters of an answer *)

(* A function without other keys than some is not changed by leaving those out. *)
LEMMA OnlySame ==
  ASSUME NEW f, NEW g, NEW keys, DOMAIN f \subseteq keys
  PROVE  Over(Only(f, keys), g) = Over(f, g)
  <1>1. DOMAIN f \cap keys = DOMAIN f
    OBVIOUS
  <1>2. QED
    BY <1>1 DEF Over, Only

(* The inputs are given the value for the key. *)
Given(inputs, key, value) == key \in DOMAIN inputs /\ inputs[key] = value

(* ... or none, where the archive has no such id. *)
Optional(inputs, key, id) ==
  /\ id > 0 => Given(inputs, key, Number(id))
  /\ ~ id > 0 => key \notin DOMAIN inputs

(* The players a card that shows any is about. *)
Shown(supplied, facts) ==
  IF ToSet(Requested(supplied)) = {} THEN Squad(facts) ELSE ToSet(Requested(supplied))

(* What resolvedInputs derives, said of each key. *)
Derives(target, supplied, facts, inputs) ==
  /\ \A t \in Templates(target) : \A key \in {"team_a", "team_b", "format"} \cap Allowed[t] :
       Given(inputs, key, TeamFacts(facts)[key])
  /\ NeedsVenue(target) => Given(inputs, "venue", Numeral(facts.venue))
  /\ NeedsPlayers(target) =>
       /\ Given(inputs, "players", Players(Sorted(Shown(supplied, facts))))
       /\ Given(inputs, "player_context",
                Details([p \in Shown(supplied, facts) |-> PlayerOf(facts, p)]))
  /\ "h2h_record" \in Templates(target) =>
       /\ Given(inputs, "target_start", Word(facts.start))
       /\ Optional(inputs, "host_country", facts.country)
       /\ ~ NeedsVenue(target) => Optional(inputs, "venue", facts.venue)
  /\ \A key \in SelectorKeys :
       /\ key \in DOMAIN supplied => Given(inputs, key, supplied[key])
       /\ key \notin DOMAIN supplied => key \notin DOMAIN inputs

(* What only h2h_record is given; ids that are not recorded are left out. *)
LEMMA H2HFields ==
  ASSUME NEW facts, NEW h2h, h2h = H2HFacts(facts)
  PROVE  /\ DOMAIN h2h \subseteq {"target_start", "venue", "host_country"}
         /\ Given(h2h, "target_start", Word(facts.start))
         /\ "host_country" \in DOMAIN h2h <=> facts.country > 0
         /\ facts.country > 0 => Given(h2h, "host_country", Number(facts.country))
         /\ "venue" \in DOMAIN h2h <=> facts.venue > 0
         /\ facts.venue > 0 => Given(h2h, "venue", Number(facts.venue))
  <1> PICK f : f = [target_start |-> Word(facts.start)]
    OBVIOUS
  <1> PICK g : g = [venue |-> Number(facts.venue), host_country |-> Number(facts.country)]
    OBVIOUS
  <1> PICK keys : keys = {key \in {"venue", "host_country"} :
                            IF key = "venue" THEN facts.venue > 0 ELSE facts.country > 0}
    OBVIOUS
  <1> PICK some : some = Only(g, keys)
    OBVIOUS
  <1>1. h2h = Over(f, some)
    BY DEF H2HFacts
  <1>2. DOMAIN f = {"target_start"} /\ f["target_start"] = Word(facts.start)
    OBVIOUS
  <1>3. /\ DOMAIN g = {"venue", "host_country"}
        /\ g["venue"] = Number(facts.venue) /\ g["host_country"] = Number(facts.country)
    OBVIOUS
  <1>4. keys \subseteq {"venue", "host_country"} /\ ("venue" \in keys <=> facts.venue > 0)
        /\ ("host_country" \in keys <=> facts.country > 0)
    OBVIOUS
  <1>5. DOMAIN some = DOMAIN g \cap keys /\ \A k \in DOMAIN g \cap keys : some[k] = g[k]
    BY DEF Only
  <1>6. /\ DOMAIN h2h = DOMAIN f \cup DOMAIN some
        /\ \A k \in DOMAIN f : h2h[k] = f[k]
        /\ \A k \in DOMAIN some \ DOMAIN f : h2h[k] = some[k]
    BY <1>1 DEF Over
  <1>7. QED
    BY <1>2, <1>3, <1>4, <1>5, <1>6 DEF Given

(* The ids of a squad are finitely many, and so are those of a part of it. *)
LEMMA ShownIds ==
  ASSUME NEW supplied, NEW facts,
         facts.squad \subseteq Nat \X Nat, IsFiniteSet(facts.squad),
         ToSet(Requested(supplied)) \subseteq Squad(facts)
  PROVE  /\ Shown(supplied, facts) \in SUBSET Squad(facts)
         /\ Shown(supplied, facts) \in SUBSET Nat
         /\ IsFiniteSet(Shown(supplied, facts))
  <1> DEFINE id == [member \in facts.squad |-> member[1]]
  <1>1. \A member \in facts.squad : member[1] \in Nat
    OBVIOUS
  <1>2. id \in Surjection(facts.squad, Squad(facts))
    <2>1. id \in [facts.squad -> Squad(facts)]
      BY DEF Squad
    <2>2. \A player \in Squad(facts) : \E member \in facts.squad : id[member] = player
      BY DEF Squad
    <2>3. QED
      BY <2>1, <2>2 DEF Surjection
  <1>3. IsFiniteSet(Squad(facts))
    BY <1>2, FS_Surjection
  <1>4. Squad(facts) \subseteq Nat
    BY <1>1 DEF Squad
  <1>5. Shown(supplied, facts) \in SUBSET Squad(facts)
    BY DEF Shown
  <1>6. IsFiniteSet(Shown(supplied, facts))
    BY <1>3, <1>5, FS_Subset
  <1>7. QED
    BY <1>4, <1>5, <1>6

(* The players a card is about, in order, and the team of each. *)
LEMMA PlayerFields ==
  ASSUME NEW supplied, NEW facts, NEW players, players = PlayerFacts(supplied, facts),
         facts.squad \subseteq Nat \X Nat, IsFiniteSet(facts.squad),
         ToSet(Requested(supplied)) \subseteq Squad(facts)
  PROVE  /\ DOMAIN players = {"players", "player_context"}
         /\ Given(players, "players", Players(Sorted(Shown(supplied, facts))))
         /\ Given(players, "player_context",
                  Details([p \in Shown(supplied, facts) |-> PlayerOf(facts, p)]))
  <1>1. Selected(supplied, facts) = Sorted(Shown(supplied, facts))
    BY DEF Selected, Shown
  <1>2. ToSet(Sorted(Shown(supplied, facts))) = Shown(supplied, facts)
    BY ShownIds, SortedHas
  <1>3. PlayerFacts(supplied, facts) =
          [players |-> Players(Sorted(Shown(supplied, facts))),
           player_context |-> Details([p \in Shown(supplied, facts) |-> PlayerOf(facts, p)])]
    BY <1>1, <1>2 DEF PlayerFacts
  <1>4. QED
    BY <1>3 DEF Given

(* What is left of the assignments of resolvedInputs: the only ones undone *)
(* are the client's list of players and, in a set, the venue as a number.  *)
LEMMA ResolvedDerives ==
  ASSUME NEW target, NEW supplied, NEW facts \in Facts, NEW inputs,
         inputs = Resolved(target, supplied, facts),
         Resolvable(target, supplied, facts)
  PROVE  Derives(target, supplied, facts, inputs)
  <1> DEFINE templates == Templates(target)
  <1> PICK allowed : allowed = UNION {Allowed[t] : t \in templates}
    OBVIOUS
  <1> PICK said : said = TeamFacts(facts)
    OBVIOUS
  <1> PICK teams : teams = Only(said, allowed)
    OBVIOUS
  <1> PICK h2h : h2h = IF "h2h_record" \in templates THEN H2HFacts(facts) ELSE NoInputs
    OBVIOUS
  <1> PICK venue : venue = IF NeedsVenue(target) THEN [venue |-> Numeral(facts.venue)] ELSE NoInputs
    OBVIOUS
  <1> PICK players : players = IF NeedsPlayers(target) THEN PlayerFacts(supplied, facts) ELSE NoInputs
    OBVIOUS
  <1>1. inputs = Over(players, Over(venue, Over(h2h, Over(teams, supplied))))
    BY DEF Resolved
  <1>2. DOMAIN NoInputs = {}
    BY DEF NoInputs
  <1>3. /\ DOMAIN teams = {"team_a", "team_b", "format"} \cap allowed
        /\ \A key \in {"team_a", "team_b", "format"} \cap allowed : teams[key] = said[key]
    <2>1. DOMAIN said = {"team_a", "team_b", "format"}
      BY DEF TeamFacts
    <2>2. QED
      BY <2>1 DEF Only
  <1>4. /\ DOMAIN h2h \subseteq {"target_start", "venue", "host_country"}
        /\ "h2h_record" \in templates =>
             /\ Given(h2h, "target_start", Word(facts.start))
             /\ "host_country" \in DOMAIN h2h <=> facts.country > 0
             /\ facts.country > 0 => Given(h2h, "host_country", Number(facts.country))
             /\ "venue" \in DOMAIN h2h <=> facts.venue > 0
             /\ facts.venue > 0 => Given(h2h, "venue", Number(facts.venue))
    BY <1>2, H2HFields
  <1>5. /\ DOMAIN venue \subseteq {"venue"}
        /\ NeedsVenue(target) => Given(venue, "venue", Numeral(facts.venue))
        /\ ~ NeedsVenue(target) => DOMAIN venue = {}
    BY <1>2 DEF Given
  <1>6. /\ DOMAIN players \subseteq {"players", "player_context"}
        /\ NeedsPlayers(target) =>
             /\ Given(players, "players", Players(Sorted(Shown(supplied, facts))))
             /\ Given(players, "player_context",
                      Details([p \in Shown(supplied, facts) |-> PlayerOf(facts, p)]))
    <2>1. CASE NeedsPlayers(target)
      <3>1. /\ facts.squad \subseteq Nat \X Nat /\ IsFiniteSet(facts.squad)
            /\ ToSet(Requested(supplied)) \subseteq Squad(facts)
        BY <2>1, IntakeAssumption DEF Resolvable
      <3>2. QED
        BY <2>1, <3>1, PlayerFields
    <2>2. CASE ~ NeedsPlayers(target)
      BY <1>2, <2>2
    <2>3. QED
      BY <2>1, <2>2
  <1>7. DOMAIN supplied \cap Derived = {}
    BY DEF Resolvable
  <1>8. /\ DOMAIN inputs = DOMAIN players \cup DOMAIN venue \cup DOMAIN h2h \cup DOMAIN teams \cup DOMAIN supplied
        /\ \A k \in DOMAIN players : inputs[k] = players[k]
        /\ \A k \in DOMAIN venue \ DOMAIN players : inputs[k] = venue[k]
        /\ \A k \in DOMAIN h2h \ (DOMAIN players \cup DOMAIN venue) : inputs[k] = h2h[k]
        /\ \A k \in DOMAIN teams \ (DOMAIN players \cup DOMAIN venue \cup DOMAIN h2h) : inputs[k] = teams[k]
        /\ \A k \in DOMAIN supplied \ (DOMAIN players \cup DOMAIN venue \cup DOMAIN h2h \cup DOMAIN teams) :
             inputs[k] = supplied[k]
    <2> PICK a : a = Over(teams, supplied)
      OBVIOUS
    <2> PICK b : b = Over(h2h, a)
      OBVIOUS
    <2> PICK c : c = Over(venue, b)
      OBVIOUS
    <2>1. /\ DOMAIN a = DOMAIN teams \cup DOMAIN supplied
          /\ \A k \in DOMAIN teams : a[k] = teams[k]
          /\ \A k \in DOMAIN supplied \ DOMAIN teams : a[k] = supplied[k]
      BY DEF Over
    <2>2. /\ DOMAIN b = DOMAIN h2h \cup DOMAIN a
          /\ \A k \in DOMAIN h2h : b[k] = h2h[k]
          /\ \A k \in DOMAIN a \ DOMAIN h2h : b[k] = a[k]
      BY DEF Over
    <2>3. /\ DOMAIN c = DOMAIN venue \cup DOMAIN b
          /\ \A k \in DOMAIN venue : c[k] = venue[k]
          /\ \A k \in DOMAIN b \ DOMAIN venue : c[k] = b[k]
      BY DEF Over
    <2>4. /\ DOMAIN inputs = DOMAIN players \cup DOMAIN c
          /\ \A k \in DOMAIN players : inputs[k] = players[k]
          /\ \A k \in DOMAIN c \ DOMAIN players : inputs[k] = c[k]
      BY <1>1 DEF Over
    <2>5. QED
      BY ONLY <2>1, <2>2, <2>3, <2>4
  <1>9. ASSUME NEW t \in templates, NEW key \in {"team_a", "team_b", "format"} \cap Allowed[t]
        PROVE  Given(inputs, key, said[key])
    <2>1. key \in allowed
      OBVIOUS
    <2>2. QED
      BY <1>3, <1>4, <1>5, <1>6, <1>8, <2>1 DEF Given
  <1>10. NeedsVenue(target) => Given(inputs, "venue", Numeral(facts.venue))
    BY <1>5, <1>6, <1>8 DEF Given
  <1>11. NeedsPlayers(target) =>
           /\ Given(inputs, "players", Players(Sorted(Shown(supplied, facts))))
           /\ Given(inputs, "player_context",
                    Details([p \in Shown(supplied, facts) |-> PlayerOf(facts, p)]))
    BY <1>6, <1>8 DEF Given
  <1>12. ASSUME "h2h_record" \in templates
         PROVE  /\ Given(inputs, "target_start", Word(facts.start))
                /\ Optional(inputs, "host_country", facts.country)
                /\ ~ NeedsVenue(target) => Optional(inputs, "venue", facts.venue)
    <2>1. /\ "host_country" \notin DOMAIN supplied /\ "venue" \notin DOMAIN supplied
      BY <1>7 DEF Derived
    <2>2. QED
      BY <1>3, <1>4, <1>5, <1>6, <1>8, <1>12, <2>1 DEF Given, Optional
  <1>13. ASSUME NEW key \in SelectorKeys
         PROVE  /\ key \in DOMAIN supplied => Given(inputs, key, supplied[key])
                /\ key \notin DOMAIN supplied => key \notin DOMAIN inputs
    BY <1>3, <1>4, <1>5, <1>6, <1>8 DEF Given, SelectorKeys
  <1>14. QED
    BY <1>9, <1>10, <1>11, <1>12, <1>13 DEF Derives

-----------------------------------------------------------------------------
(* What the code hashes for a template, whether asked for alone or in a set. *)
Filters(t, inputs) == Over(Only(inputs, Allowed[t]), Defaults(t))

(* An answer is one that submitRun gave for some facts of the match. *)
AnswerMade(a) ==
  LET inputs == Resolved(a.request.target, a.request.inputs, a.facts)
  IN /\ a.request \in Request /\ a.facts \in Facts
     /\ Resolvable(a.request.target, a.request.inputs, a.facts)
     /\ AllValid(a.request.target, inputs)
     /\ a.locators = ResultLocators(a.request.target, a.request.match,
                                    RunInputs(a.request.target, inputs))

(* Alone or in a set, a template is hashed over what it allows of the inputs. *)
LEMMA AnswerFilters ==
  ASSUME NEW a, AnswerMade(a), NEW t \in DOMAIN a.locators,
         NEW inputs, inputs = Resolved(a.request.target, a.request.inputs, a.facts)
  PROVE  /\ t \in CardSetTemplates /\ t \in Templates(a.request.target)
         /\ ~ IsCardSet(a.request.target) => Templates(a.request.target) = {t}
         /\ a.locators[t] = Locator(t, a.request.match, Filters(t, inputs))
         /\ Valid(t, Only(inputs, Allowed[t]))
  <1> DEFINE target == a.request.target
  <1>1. target \in CardSetTemplates \cup {"pre_toss_v1"}
    BY IntakeAssumption DEF AnswerMade
  <1>2. t \in Templates(target)
    BY DEF AnswerMade, ResultLocators
  <1>3. CASE IsCardSet(target)
    <2>1. t \in CardSetTemplates
      BY <1>2, <1>3 DEF Templates
    <2>2. a.locators[t] = Locator(t, a.request.match, InputsOf(t, inputs))
      BY <1>2, <1>3 DEF AnswerMade, ResultLocators, RunInputs
    <2>3. Valid(t, Only(inputs, Allowed[t]))
      BY <1>3, <2>1 DEF AnswerMade, AllValid
    <2>4. QED
      BY <1>2, <1>3, <2>1, <2>2, <2>3 DEF Filters, InputsOf, Validated
  <1>4. CASE ~ IsCardSet(target)
    <2>1. t = target /\ t \in CardSetTemplates /\ Templates(target) = {t}
      BY <1>1, <1>2, <1>4 DEF Templates, IsCardSet
    <2>2. a.locators[t] = Locator(t, a.request.match, Over(inputs, Defaults(t)))
      BY <1>2, <1>4, <2>1 DEF AnswerMade, ResultLocators, RunInputs, Validated
    <2>3. Valid(t, inputs)
      BY <1>4, <2>1 DEF AnswerMade, AllValid
    <2>4. DOMAIN inputs \subseteq Allowed[t]
      BY <2>3 DEF Valid
    <2>5. Valid(t, Only(inputs, Allowed[t]))
      <3>1. /\ DOMAIN Only(inputs, Allowed[t]) = DOMAIN inputs
            /\ \A k \in DOMAIN inputs : Only(inputs, Allowed[t])[k] = inputs[k]
        BY <2>4 DEF Only
      <3>2. QED
        BY <2>3, <3>1 DEF Valid
    <2>6. Over(Only(inputs, Allowed[t]), Defaults(t)) = Over(inputs, Defaults(t))
      BY <2>4, OnlySame
    <2>7. QED
      BY <1>2, <2>1, <2>2, <2>5, <2>6 DEF Filters
  <1>5. QED
    BY <1>3, <1>4

(* The configuration of the templates, as far as it matters here. *)
LEMMA TemplateKeys ==
  ASSUME NEW t \in CardSetTemplates
  PROVE  /\ "format" \in Allowed[t]
         /\ "team_a" \in Allowed[t] <=> t \in {"h2h_record", "team_form", "team_phase_profiles"}
         /\ "team_b" \in Allowed[t] <=> "team_a" \in Allowed[t]
         /\ "venue" \in Allowed[t] <=> t \in {"h2h_record", "venue_dna", "player_stats_at_venue"}
         /\ "players" \in Allowed[t] <=> t \in {"player_stats_at_venue", "last_5_games"}
         /\ "player_context" \in Allowed[t] <=> "players" \in Allowed[t]
         /\ "host_country" \in Allowed[t] <=> t = "h2h_record"
         /\ "target_start" \in Allowed[t] <=> t = "h2h_record"
         /\ Allowed[t] \subseteq SelectorKeys \cup Derived \cup {"players"}
         /\ DOMAIN Defaults(t) = SelectorKeys \cap Allowed[t]
         /\ "window" \in Allowed[t] <=> t \in {"venue_dna", "player_stats_at_venue", "team_phase_profiles"}
         /\ "latest_matches" \in Allowed[t] <=> t \in {"h2h_record", "team_form", "last_5_games"}
  <1>1. CASE t = "h2h_record"
    BY <1>1 DEF Allowed, TeamKeys, Defaults, Windowed, SelectorKeys, Derived
  <1>2. CASE t = "team_form"
    BY <1>2 DEF Allowed, TeamKeys, Defaults, Windowed, SelectorKeys, Derived
  <1>3. CASE t = "venue_dna"
    BY <1>3 DEF Allowed, TeamKeys, Defaults, Windowed, SelectorKeys, Derived
  <1>4. CASE t = "player_stats_at_venue"
    BY <1>4 DEF Allowed, TeamKeys, Defaults, Windowed, SelectorKeys, Derived
  <1>5. CASE t = "last_5_games"
    BY <1>5 DEF Allowed, TeamKeys, Defaults, Windowed, SelectorKeys, Derived
  <1>6. CASE t = "team_phase_profiles"
    BY <1>6 DEF Allowed, TeamKeys, Defaults, Windowed, SelectorKeys, Derived
  <1>7. QED
    BY <1>1, <1>2, <1>3, <1>4, <1>5, <1>6 DEF CardSetTemplates

(* The filters of an answer, key by key: the facts of the match, the players *)
(* in order with their teams, and the client's selectors over the defaults.  *)
Filled(a, t, filters) ==
  LET facts == a.facts
      supplied == a.request.inputs
  IN /\ DOMAIN filters \subseteq Allowed[t]
     /\ Given(filters, "format", Word(facts.format))
     /\ "team_a" \in Allowed[t] => /\ Given(filters, "team_a", Numeral(facts.team_a))
                                   /\ Given(filters, "team_b", Numeral(facts.team_b))
     /\ "players" \in Allowed[t] =>
          /\ Given(filters, "players", Players(Sorted(Shown(supplied, facts))))
          /\ Given(filters, "player_context",
                   Details([p \in Shown(supplied, facts) |-> PlayerOf(facts, p)]))
     /\ \A key \in SelectorKeys \cap Allowed[t] :
          Given(filters, key, SelectorsShown(t, supplied)[key])
     /\ t \in {"venue_dna", "player_stats_at_venue"} =>
          Given(filters, "venue", Numeral(facts.venue))
     /\ t = "h2h_record" =>
          /\ Given(filters, "target_start", Word(facts.start))
          /\ Optional(filters, "host_country", facts.country)
          /\ IsCardSet(a.request.target) => Given(filters, "venue", Numeral(facts.venue))
          /\ ~ IsCardSet(a.request.target) => Optional(filters, "venue", facts.venue)

(* The filters of an answer are filled from the facts and the request. *)
LEMMA FiltersFilled ==
  ASSUME NEW a, AnswerMade(a), NEW t \in DOMAIN a.locators,
         NEW inputs, inputs = Resolved(a.request.target, a.request.inputs, a.facts)
  PROVE  Filled(a, t, Filters(t, inputs))
  <1> PICK target : target = a.request.target
    OBVIOUS
  <1> PICK supplied : supplied = a.request.inputs
    OBVIOUS
  <1> PICK facts : facts = a.facts
    OBVIOUS
  <1> PICK filters : filters = Filters(t, inputs)
    OBVIOUS
  <1>1. /\ t \in CardSetTemplates /\ t \in Templates(target)
        /\ ~ IsCardSet(target) => Templates(target) = {t}
    BY AnswerFilters
  <1>2. facts \in Facts /\ Resolvable(target, supplied, facts)
    BY DEF AnswerMade
  <1>3. Derives(target, supplied, facts, inputs)
    BY <1>2, ResolvedDerives
  <1>4. /\ DOMAIN filters = (DOMAIN inputs \cap Allowed[t]) \cup DOMAIN Defaults(t)
        /\ \A key \in DOMAIN inputs \cap Allowed[t] : filters[key] = inputs[key]
        /\ \A key \in DOMAIN Defaults(t) \ DOMAIN inputs : filters[key] = Defaults(t)[key]
    <2> PICK defaults : defaults = Defaults(t)
      OBVIOUS
    <2> PICK only : only = Only(inputs, Allowed[t])
      OBVIOUS
    <2>1. /\ DOMAIN only = DOMAIN inputs \cap Allowed[t]
          /\ \A key \in DOMAIN inputs \cap Allowed[t] : only[key] = inputs[key]
      BY DEF Only
    <2>2. filters = Over(only, defaults)
      BY DEF Filters
    <2>3. /\ DOMAIN filters = DOMAIN only \cup DOMAIN defaults
          /\ \A key \in DOMAIN only : filters[key] = only[key]
          /\ \A key \in DOMAIN defaults \ DOMAIN only : filters[key] = defaults[key]
      BY <2>2 DEF Over
    <2>4. QED
      BY <2>1, <2>3
  <1>5. ASSUME NEW key \in Allowed[t], NEW value, Given(inputs, key, value)
        PROVE  Given(filters, key, value)
    BY <1>4, <1>5 DEF Given
  <1>6. DOMAIN Defaults(t) = SelectorKeys \cap Allowed[t]
    BY <1>1, TemplateKeys
  <1>7. DOMAIN filters \subseteq Allowed[t]
    BY <1>4, <1>6
  <1>8. ASSUME NEW key \in {"team_a", "team_b", "format"}, key \in Allowed[t]
        PROVE  Given(filters, key, TeamFacts(facts)[key])
    <2>1. Given(inputs, key, TeamFacts(facts)[key])
      BY <1>1, <1>3, <1>8 DEF Derives
    <2>2. QED
      BY <1>5, <1>8, <2>1
  <1>9. Given(filters, "format", Word(facts.format))
    <2>1. "format" \in Allowed[t]
      BY <1>1, TemplateKeys
    <2>2. TeamFacts(facts)["format"] = Word(facts.format)
      BY DEF TeamFacts
    <2>3. QED
      BY <1>8, <2>1, <2>2
  <1>10. ASSUME "team_a" \in Allowed[t]
         PROVE  /\ Given(filters, "team_a", Numeral(facts.team_a))
                /\ Given(filters, "team_b", Numeral(facts.team_b))
    <2>1. "team_b" \in Allowed[t]
      BY <1>1, <1>10, TemplateKeys
    <2>2. /\ TeamFacts(facts)["team_a"] = Numeral(facts.team_a)
          /\ TeamFacts(facts)["team_b"] = Numeral(facts.team_b)
      BY DEF TeamFacts
    <2>3. QED
      BY <1>8, <1>10, <2>1, <2>2
  <1>11. ASSUME "players" \in Allowed[t]
         PROVE  /\ Given(filters, "players", Players(Sorted(Shown(supplied, facts))))
                /\ Given(filters, "player_context",
                         Details([p \in Shown(supplied, facts) |-> PlayerOf(facts, p)]))
    <2>1. t \in {"player_stats_at_venue", "last_5_games"} /\ "player_context" \in Allowed[t]
      BY <1>1, <1>11, TemplateKeys
    <2>2. NeedsPlayers(target)
      BY <1>1, <2>1 DEF NeedsPlayers
    <2>3. /\ Given(inputs, "players", Players(Sorted(Shown(supplied, facts))))
          /\ Given(inputs, "player_context",
                   Details([p \in Shown(supplied, facts) |-> PlayerOf(facts, p)]))
      BY <1>3, <2>2 DEF Derives
    <2>4. QED
      BY <1>5, <1>11, <2>1, <2>3
  <1>12. ASSUME NEW key \in SelectorKeys \cap Allowed[t]
         PROVE  Given(filters, key, SelectorsShown(t, supplied)[key])
    <2>1. CASE key \in DOMAIN supplied
      <3>1. Given(inputs, key, supplied[key])
        BY <1>3, <2>1 DEF Derives
      <3>2. SelectorsShown(t, supplied)[key] = supplied[key]
        BY <1>12, <2>1 DEF SelectorsShown
      <3>3. QED
        BY <1>5, <3>1, <3>2
    <2>2. CASE key \notin DOMAIN supplied
      <3>1. key \notin DOMAIN inputs
        BY <1>3, <2>2 DEF Derives
      <3>2. SelectorsShown(t, supplied)[key] = Defaults(t)[key]
        BY <1>12, <2>2 DEF SelectorsShown
      <3>3. QED
        BY <1>4, <1>6, <3>1, <3>2 DEF Given
    <2>3. QED
      BY <2>1, <2>2
  <1>13. ASSUME t \in {"venue_dna", "player_stats_at_venue"}
         PROVE  Given(filters, "venue", Numeral(facts.venue))
    <2>1. NeedsVenue(target) /\ "venue" \in Allowed[t]
      BY <1>1, <1>13, TemplateKeys DEF NeedsVenue
    <2>2. QED
      BY <1>3, <1>5, <2>1 DEF Derives
  <1>14. ASSUME t = "h2h_record"
         PROVE  /\ Given(filters, "target_start", Word(facts.start))
                /\ Optional(filters, "host_country", facts.country)
                /\ IsCardSet(target) => Given(filters, "venue", Numeral(facts.venue))
                /\ ~ IsCardSet(target) => Optional(filters, "venue", facts.venue)
    <2>1. "target_start" \in Allowed[t] /\ "host_country" \in Allowed[t] /\ "venue" \in Allowed[t]
      BY <1>1, <1>14, TemplateKeys
    <2>2. {"host_country", "venue"} \cap DOMAIN Defaults(t) = {}
      BY <1>6 DEF SelectorKeys
    <2>3. IsCardSet(target) => NeedsVenue(target)
      BY DEF NeedsVenue, Templates, CardSetTemplates
    <2>4. ~ IsCardSet(target) => ~ NeedsVenue(target)
      BY <1>1, <1>14 DEF NeedsVenue
    <2>5. /\ NeedsVenue(target) => Given(inputs, "venue", Numeral(facts.venue))
          /\ Given(inputs, "target_start", Word(facts.start))
          /\ Optional(inputs, "host_country", facts.country)
          /\ ~ NeedsVenue(target) => Optional(inputs, "venue", facts.venue)
      BY <1>1, <1>3, <1>14 DEF Derives
    <2>6. \A key \in {"host_country", "venue"} :
            key \notin DOMAIN inputs => key \notin DOMAIN filters
      BY <1>4, <2>2
    <2>7. QED
      BY <1>5, <2>1, <2>3, <2>4, <2>5, <2>6 DEF Optional
  <1>15. QED
    BY <1>7, <1>9, <1>10, <1>11, <1>12, <1>13, <1>14 DEF Filled


(* Selectors are approved, whether the client gave them or the template does. *)
LEMMA SelectorsApproved ==
  ASSUME NEW a, AnswerMade(a), NEW t \in DOMAIN a.locators,
         NEW inputs, inputs = Resolved(a.request.target, a.request.inputs, a.facts),
         NEW filters, filters = Filters(t, inputs)
  PROVE  /\ \A key \in SelectorKeys \cap Allowed[t] : Approved(t, key, filters[key])
         /\ filters["format"] \in {Word("t20"), Word("odi")}
  <1> PICK defaults : defaults = Defaults(t)
    OBVIOUS
  <1> PICK only : only = Only(inputs, Allowed[t])
    OBVIOUS
  <1>1. t \in CardSetTemplates /\ Valid(t, only)
    BY AnswerFilters
  <1>2. filters = Over(only, defaults)
    BY DEF Filters
  <1>3. /\ DOMAIN filters = DOMAIN only \cup DOMAIN defaults
        /\ \A key \in DOMAIN only : filters[key] = only[key]
        /\ \A key \in DOMAIN defaults \ DOMAIN only : filters[key] = defaults[key]
    BY <1>2 DEF Over
  <1>4. ASSUME NEW key \in DOMAIN only
        PROVE  Approved(t, key, filters[key])
    BY <1>1, <1>3 DEF Valid
  <1>5. ASSUME NEW key \in DOMAIN defaults
        PROVE  Approved(t, key, defaults[key])
    <2>1. CASE t \in Windowed
      <3>1. key = "window" /\ defaults[key] = Word("since_2024")
        BY <2>1 DEF Defaults
      <3>2. QED
        BY <3>1 DEF Approved
    <2>2. CASE t \notin Windowed /\ t = "h2h_record"
      <3>1. \/ key = "latest_matches" /\ defaults[key] = Number(10)
            \/ key = "team_form_latest_matches" /\ defaults[key] = Number(5)
        BY <2>2 DEF Defaults
      <3>2. QED
        BY <2>2, <3>1 DEF Approved
    <2>3. CASE t \notin Windowed /\ t # "h2h_record"
      <3>1. key = "latest_matches" /\ defaults[key] = Number(5)
        BY <2>3 DEF Defaults
      <3>2. QED
        BY <2>3, <3>1 DEF Approved
    <2>4. QED
      BY <2>1, <2>2, <2>3
  <1>6. ASSUME NEW key \in SelectorKeys \cap Allowed[t]
        PROVE  Approved(t, key, filters[key])
    <2>1. key \in DOMAIN defaults
      BY <1>1, TemplateKeys
    <2>2. QED
      BY <1>3, <1>4, <1>5, <2>1
  <1>7. filters["format"] \in {Word("t20"), Word("odi")}
    <2>1. "format" \in DOMAIN filters
      BY FiltersFilled DEF Filled, Given
    <2>2. "format" \notin DOMAIN defaults
      <3>1. DOMAIN defaults = SelectorKeys \cap Allowed[t]
        BY <1>1, TemplateKeys
      <3>2. QED
        BY <3>1 DEF SelectorKeys
    <2>3. Approved(t, "format", filters["format"])
      BY <1>3, <1>4, <2>1, <2>2
    <2>4. QED
      BY <2>3 DEF Approved
  <1>8. QED
    BY <1>6, <1>7

(* The players shown are those that the context names, if any are shown. *)
LEMMA PlayersSame ==
  ASSUME NEW t, NEW supplied, NEW facts
  PROVE  /\ "players" \in Allowed[t] =>
              PlayersShown(t, supplied, facts)
                = [p \in Shown(supplied, facts) |-> PlayerOf(facts, p)]
         /\ "players" \notin Allowed[t] =>
              PlayersShown(t, supplied, facts) = [p \in {} |-> PlayerOf(facts, p)]
  BY DEF PlayersShown, Shown

(* The generator of a template gets through with the filters of an answer if *)
(* the facts it shows are complete, and else not; the context names everyone *)
(* who is listed.                                                            *)
LEMMA AnswerUsable ==
  ASSUME NEW a, AnswerMade(a), NEW t \in DOMAIN a.locators
  PROVE  LET filters == a.locators[t].filters
         IN /\ Usable(t, filters) <=> FactsComplete(t, a.request.inputs, a.facts)
            /\ "players" \in DOMAIN filters =>
                 ToSet(filters.players[2]) \subseteq DOMAIN filters.player_context[2]
  <1> PICK inputs : inputs = Resolved(a.request.target, a.request.inputs, a.facts)
    OBVIOUS
  <1> PICK supplied : supplied = a.request.inputs
    OBVIOUS
  <1> PICK facts : facts = a.facts
    OBVIOUS
  <1> PICK filters : filters = Filters(t, inputs)
    OBVIOUS
  <1>1. /\ t \in CardSetTemplates /\ t \in Templates(a.request.target)
        /\ a.locators[t] = Locator(t, a.request.match, filters)
    BY AnswerFilters
  <1>2. a.locators[t].filters = filters
    BY <1>1 DEF Locator
  <1>3. Filled(a, t, filters)
    BY FiltersFilled
  <1>4. facts \in Facts /\ Resolvable(a.request.target, supplied, facts)
    BY DEF AnswerMade
  <1>5. "format" \in DOMAIN filters /\ filters["format"] \in {Word("t20"), Word("odi")}
    BY <1>3, SelectorsApproved DEF Filled, Given
  <1>6. ASSUME "team_a" \in Allowed[t]
        PROVE  HasTeams(filters) <=> facts.team_a > 0 /\ facts.team_b > 0
    <2>1. facts.team_a \in Nat /\ facts.team_b \in Nat
      BY <1>4, IntakeAssumption
    <2>2. /\ "team_a" \in DOMAIN filters /\ filters["team_a"] = Numeral(facts.team_a)
          /\ "team_b" \in DOMAIN filters /\ filters["team_b"] = Numeral(facts.team_b)
      BY <1>3, <1>6 DEF Filled, Given
    <2>3. QED
      BY <2>1, <2>2 DEF HasTeams, HasId, Numeral
  <1>7. ASSUME t \in {"venue_dna", "player_stats_at_venue"}
        PROVE  HasId(filters, "venue")
    <2>1. facts.venue > 0
      BY <1>1, <1>4, <1>7 DEF Resolvable, NeedsVenue
    <2>2. "venue" \in DOMAIN filters /\ filters["venue"] = Numeral(facts.venue)
      BY <1>3, <1>7 DEF Filled, Given
    <2>3. QED
      BY <2>1, <2>2 DEF HasId, Numeral
  <1>8. ASSUME "players" \in Allowed[t]
        PROVE  /\ HasPlayers(filters) <=> FactsComplete(t, supplied, facts)
               /\ ToSet(filters.players[2]) \subseteq DOMAIN filters.player_context[2]
    <2> PICK shown : shown = Shown(supplied, facts)
      OBVIOUS
    <2> PICK context : context = [p \in shown |-> PlayerOf(facts, p)]
      OBVIOUS
    <2> PICK ids : ids = Sorted(shown)
      OBVIOUS
    <2>1. t \in {"player_stats_at_venue", "last_5_games"}
      BY <1>1, <1>8, TemplateKeys
    <2>2. /\ Squad(facts) # {} /\ ToSet(Requested(supplied)) \subseteq Squad(facts)
      BY <1>1, <1>4, <2>1 DEF Resolvable, NeedsPlayers
    <2>3. shown \in SUBSET Nat /\ IsFiniteSet(shown)
      BY <1>4, <2>2, IntakeAssumption, ShownIds
    <2>4. shown # {}
      BY <2>2 DEF Shown
    <2>5. {ids[i] : i \in DOMAIN ids} = shown /\ ids # <<>>
      BY <2>3, <2>4, SortedHas DEF ToSet
    <2>6. /\ "players" \in DOMAIN filters /\ filters["players"] = Players(ids)
          /\ "player_context" \in DOMAIN filters /\ filters["player_context"] = Details(context)
      BY <1>3, <1>8 DEF Filled, Given
    <2>7. filters["players"][1] = "ids" /\ filters["players"][2] = ids
      BY <2>6 DEF Players
    <2>8. filters["player_context"][1] = "details" /\ filters["player_context"][2] = context
      BY <2>6 DEF Details
    <2>9. DOMAIN context = shown
      OBVIOUS
    <2>10. HasPlayers(filters)
             <=> /\ \A i \in DOMAIN ids : ids[i] > 0
                 /\ \A p \in shown : p > 0 /\ context[p].team > 0 /\ context[p].name # NoName
      BY <2>5, <2>6, <2>7, <2>8, <2>9 DEF HasPlayers
    <2>11. (\A i \in DOMAIN ids : ids[i] > 0) <=> \A p \in shown : p > 0
      BY <2>5
    <2>12. FactsComplete(t, supplied, facts)
             <=> \A p \in shown : p > 0 /\ context[p].team > 0 /\ context[p].name # NoName
      <3>1. PlayersShown(t, supplied, facts) = context
        BY <1>8, PlayersSame
      <3>2. QED
        BY <2>1, <2>9, <3>1 DEF FactsComplete
    <2>13. ToSet(filters["players"][2]) \subseteq DOMAIN filters["player_context"][2]
      BY <2>5, <2>7, <2>8, <2>9 DEF ToSet
    <2>14. QED
      BY <2>10, <2>11, <2>12, <2>13
  <1>9. ASSUME "latest_matches" \in Allowed[t]
        PROVE  HasCount(filters, "latest_matches")
    <2>1. "latest_matches" \in DOMAIN filters
      BY <1>3, <1>9 DEF Filled, Given, SelectorKeys
    <2>2. Approved(t, "latest_matches", filters["latest_matches"])
      BY <1>9, SelectorsApproved DEF SelectorKeys
    <2>3. \E n \in Nat : filters["latest_matches"] = Number(n)
      BY <2>2 DEF Approved
    <2>4. QED
      BY <2>1, <2>3 DEF HasCount, Number
  <1>10. ASSUME "window" \in Allowed[t]
         PROVE  HasWord(filters, "window")
    <2>1. "window" \in DOMAIN filters
      BY <1>3, <1>10 DEF Filled, Given, SelectorKeys
    <2>2. Approved(t, "window", filters["window"])
      BY <1>10, SelectorsApproved DEF SelectorKeys
    <2>3. \E w : filters["window"] = Word(w)
      BY <2>2 DEF Approved
    <2>4. QED
      BY <2>1, <2>3 DEF HasWord, Word
  <1>11. ASSUME t = "h2h_record"
         PROVE  HasWord(filters, "target_start")
    BY <1>3, <1>11 DEF Filled, Given, HasWord, Word
  <1>12. ASSUME "players" \notin Allowed[t]
         PROVE  FactsComplete(t, supplied, facts)
                  <=> (t \in {"h2h_record", "team_form", "team_phase_profiles"}
                         => facts.team_a > 0 /\ facts.team_b > 0)
    <2> PICK players : players = PlayersShown(t, supplied, facts)
      OBVIOUS
    <2>1. DOMAIN players = {}
      BY <1>12, PlayersSame
    <2>2. QED
      BY <2>1 DEF FactsComplete
  <1>13. "players" \in DOMAIN filters => "players" \in Allowed[t]
    BY <1>3 DEF Filled
  <1>14. Usable(t, filters) <=> FactsComplete(t, supplied, facts)
    <2>1. CASE t \in {"h2h_record", "team_form"}
      <3>1. "team_a" \in Allowed[t] /\ "latest_matches" \in Allowed[t] /\ "players" \notin Allowed[t]
        BY <1>1, <2>1, TemplateKeys
      <3>2. QED
        BY <1>5, <1>6, <1>9, <1>11, <1>12, <2>1, <3>1 DEF Usable
    <2>2. CASE t = "venue_dna"
      <3>1. "players" \notin Allowed[t]
        BY <1>1, <2>2, TemplateKeys
      <3>2. QED
        BY <1>5, <1>7, <1>12, <2>2, <3>1 DEF Usable
    <2>3. CASE t = "player_stats_at_venue"
      <3>1. "players" \in Allowed[t] /\ "window" \in Allowed[t]
        BY <1>1, <2>3, TemplateKeys
      <3>2. QED
        BY <1>5, <1>7, <1>8, <1>10, <2>3, <3>1 DEF Usable
    <2>4. CASE t = "last_5_games"
      <3>1. "players" \in Allowed[t] /\ "latest_matches" \in Allowed[t]
        BY <1>1, <2>4, TemplateKeys
      <3>2. QED
        BY <1>5, <1>8, <1>9, <2>4, <3>1 DEF Usable
    <2>5. CASE t = "team_phase_profiles"
      <3>1. "team_a" \in Allowed[t] /\ "window" \in Allowed[t] /\ "players" \notin Allowed[t]
        BY <1>1, <2>5, TemplateKeys
      <3>2. QED
        BY <1>5, <1>6, <1>10, <1>12, <2>5, <3>1 DEF Usable
    <2>6. QED
      BY <1>1, <2>1, <2>2, <2>3, <2>4, <2>5 DEF CardSetTemplates
  <1>15. "players" \in DOMAIN filters =>
           ToSet(filters.players[2]) \subseteq DOMAIN filters.player_context[2]
    BY <1>8, <1>13
  <1>16. QED
    BY <1>2, <1>14, <1>15

-----------------------------------------------------------------------------
(* Two answers for one template *)

(* Filters that are alike under a key: neither has it, or the same value. *)
Agree(f, g, key) ==
  /\ key \in DOMAIN f <=> key \in DOMAIN g
  /\ key \in DOMAIN f => f[key] = g[key]

(* Filters are equal if they are under every key. *)
LEMMA FiltersAgree ==
  ASSUME NEW t, NEW i, NEW j, NEW f, NEW g, f = Filters(t, i), g = Filters(t, j),
         DOMAIN f \subseteq Allowed[t], DOMAIN g \subseteq Allowed[t]
  PROVE  f = g <=> \A key \in Allowed[t] : Agree(f, g, key)
  <1>1. f = g => \A key \in Allowed[t] : Agree(f, g, key)
    BY DEF Agree
  <1>2. ASSUME \A key \in Allowed[t] : Agree(f, g, key)
        PROVE  f = g
    <2>1. DOMAIN f = DOMAIN g /\ \A key \in DOMAIN f : f[key] = g[key]
      BY <1>2 DEF Agree
    <2>2. f = [key \in DOMAIN f |-> f[key]] /\ g = [key \in DOMAIN g |-> g[key]]
      BY DEF Filters, Over
    <2>3. QED
      BY <2>1, <2>2
  <1>3. QED
    BY <1>1, <1>2

(* Filters agree under a key exactly if they are given one value for it. *)
LEMMA GivenAgree ==
  ASSUME NEW f, NEW g, NEW key, NEW v, NEW w, Given(f, key, v), Given(g, key, w)
  PROVE  Agree(f, g, key) <=> v = w
  BY DEF Given, Agree

(* JSON keeps apart values of one form. *)
LEMMA ValuesDiffer ==
  ASSUME NEW v, NEW w
  PROVE  /\ Word(v) = Word(w) <=> v = w
         /\ Number(v) = Number(w) <=> v = w
         /\ Numeral(v) = Numeral(w) <=> v = w
         /\ Players(v) = Players(w) <=> v = w
         /\ Details(v) = Details(w) <=> v = w
  BY DEF Word, Number, Numeral, Players, Details

(* An id that is left out where the archive has none (0) still tells apart. *)
LEMMA OptionalAgree ==
  ASSUME NEW f, NEW g, NEW key, NEW v \in Nat, NEW w \in Nat,
         Optional(f, key, v), Optional(g, key, w)
  PROVE  Agree(f, g, key) <=> v = w
  <1>1. CASE v > 0 /\ w > 0
    BY <1>1, GivenAgree, ValuesDiffer DEF Optional
  <1>2. CASE v > 0 /\ ~ w > 0
    BY <1>2 DEF Optional, Agree, Given
  <1>3. CASE ~ v > 0 /\ w > 0
    BY <1>3 DEF Optional, Agree, Given
  <1>4. CASE ~ v > 0 /\ ~ w > 0
    BY <1>4 DEF Optional, Agree
  <1>5. QED
    BY <1>1, <1>2, <1>3, <1>4

(* Selectors are shown alike if each of them is. *)
LEMMA SelectorsSame ==
  ASSUME NEW t, NEW s, NEW u
  PROVE  SelectorsShown(t, s) = SelectorsShown(t, u)
           <=> \A key \in SelectorKeys \cap Allowed[t] :
                 SelectorsShown(t, s)[key] = SelectorsShown(t, u)[key]
  BY DEF SelectorsShown

(* What a template shows of a match, fact by fact. *)
LEMMA MatchSame ==
  ASSUME NEW t \in CardSetTemplates, NEW x, NEW y
  PROVE  MatchShown(t, x) = MatchShown(t, y)
           <=> /\ x.format = y.format
               /\ "team_a" \in Allowed[t] => x.team_a = y.team_a /\ x.team_b = y.team_b
               /\ "venue" \in Allowed[t] => x.venue = y.venue
               /\ t = "h2h_record" => x.country = y.country /\ x.start = y.start
  <1>1. TeamFacts(x) = TeamFacts(y)
          <=> x.format = y.format /\ x.team_a = y.team_a /\ x.team_b = y.team_b
    BY ValuesDiffer DEF TeamFacts
  <1>2. CASE t = "h2h_record"
    <2>1. "team_a" \in Allowed[t] /\ "venue" \in Allowed[t]
      BY <1>2, TemplateKeys
    <2>2. QED
      BY <1>1, <1>2, <2>1 DEF MatchShown
  <1>3. CASE t \in {"team_form", "team_phase_profiles"}
    <2>1. "team_a" \in Allowed[t] /\ "venue" \notin Allowed[t]
      BY <1>3, TemplateKeys
    <2>2. QED
      BY <1>1, <1>3, <2>1 DEF MatchShown
  <1>4. CASE t \in {"venue_dna", "player_stats_at_venue"}
    <2>1. "team_a" \notin Allowed[t] /\ "venue" \in Allowed[t]
      BY <1>4, TemplateKeys
    <2>2. QED
      BY <1>4, <2>1 DEF MatchShown
  <1>5. CASE t = "last_5_games"
    <2>1. "team_a" \notin Allowed[t] /\ "venue" \notin Allowed[t]
      BY <1>5, TemplateKeys
    <2>2. QED
      BY <1>5, <2>1 DEF MatchShown
  <1>6. QED
    BY <1>2, <1>3, <1>4, <1>5 DEF CardSetTemplates

(* Locators are equal exactly if the cards are: key by key, the filters tell  *)
(* apart what the card shows, and nothing else. *)
LEMMA AnswersAgree ==
  ASSUME NEW a, AnswerMade(a), NEW b, AnswerMade(b),
         NEW t, t \in DOMAIN a.locators, t \in DOMAIN b.locators,
         t = "h2h_record" => (IsCardSet(a.request.target) <=> IsCardSet(b.request.target))
  PROVE  a.locators[t] = b.locators[t] <=> CardOf(a, t) = CardOf(b, t)
  <1> PICK i : i = Resolved(a.request.target, a.request.inputs, a.facts)
    OBVIOUS
  <1> PICK j : j = Resolved(b.request.target, b.request.inputs, b.facts)
    OBVIOUS
  <1> PICK f : f = Filters(t, i)
    OBVIOUS
  <1> PICK g : g = Filters(t, j)
    OBVIOUS
  <1> PICK x : x = a.facts
    OBVIOUS
  <1> PICK y : y = b.facts
    OBVIOUS
  <1> PICK s : s = a.request.inputs
    OBVIOUS
  <1> PICK u : u = b.request.inputs
    OBVIOUS
  <1>1. /\ t \in CardSetTemplates
        /\ a.locators[t] = Locator(t, a.request.match, f)
        /\ b.locators[t] = Locator(t, b.request.match, g)
    BY AnswerFilters
  <1>2. Filled(a, t, f) /\ Filled(b, t, g)
    BY FiltersFilled
  <1>3. /\ x.venue \in Nat /\ x.country \in Nat
        /\ y.venue \in Nat /\ y.country \in Nat
    BY IntakeAssumption DEF AnswerMade
  <1>4. a.locators[t] = b.locators[t] <=> a.request.match = b.request.match /\ f = g
    BY <1>1 DEF Locator
  <1>5. DOMAIN f \subseteq Allowed[t] /\ DOMAIN g \subseteq Allowed[t]
    BY <1>2 DEF Filled
  <1>6. f = g <=> \A key \in Allowed[t] : Agree(f, g, key)
    BY <1>5, FiltersAgree
  <1>7. Agree(f, g, "format") <=> x.format = y.format
    <2>1. Given(f, "format", Word(x.format)) /\ Given(g, "format", Word(y.format))
      BY <1>2 DEF Filled
    <2>2. QED
      BY <2>1, GivenAgree, ValuesDiffer
  <1>8. "team_a" \in Allowed[t] => /\ Agree(f, g, "team_a") <=> x.team_a = y.team_a
                                   /\ Agree(f, g, "team_b") <=> x.team_b = y.team_b
    <2> SUFFICES ASSUME "team_a" \in Allowed[t]
                 PROVE  /\ Agree(f, g, "team_a") <=> x.team_a = y.team_a
                        /\ Agree(f, g, "team_b") <=> x.team_b = y.team_b
      OBVIOUS
    <2>1. /\ Given(f, "team_a", Numeral(x.team_a)) /\ Given(g, "team_a", Numeral(y.team_a))
          /\ Given(f, "team_b", Numeral(x.team_b)) /\ Given(g, "team_b", Numeral(y.team_b))
      BY <1>2 DEF Filled
    <2>2. QED
      BY <2>1, GivenAgree, ValuesDiffer
  <1>9. \A key \in SelectorKeys \cap Allowed[t] :
          Agree(f, g, key) <=> SelectorsShown(t, s)[key] = SelectorsShown(t, u)[key]
    <2> TAKE key \in SelectorKeys \cap Allowed[t]
    <2>1. Given(f, key, SelectorsShown(t, s)[key]) /\ Given(g, key, SelectorsShown(t, u)[key])
      BY <1>2 DEF Filled
    <2>2. QED
      BY <2>1, GivenAgree
  <1>10. "players" \in Allowed[t] =>
           /\ Agree(f, g, "player_context") <=> PlayersShown(t, s, x) = PlayersShown(t, u, y)
           /\ Agree(f, g, "player_context") => Agree(f, g, "players")
    <2> SUFFICES ASSUME "players" \in Allowed[t]
                 PROVE  /\ Agree(f, g, "player_context") <=> PlayersShown(t, s, x) = PlayersShown(t, u, y)
                        /\ Agree(f, g, "player_context") => Agree(f, g, "players")
      OBVIOUS
    <2> PICK c : c = [p \in Shown(s, x) |-> PlayerOf(x, p)]
      OBVIOUS
    <2> PICK d : d = [p \in Shown(u, y) |-> PlayerOf(y, p)]
      OBVIOUS
    <2>1. /\ Given(f, "players", Players(Sorted(Shown(s, x))))
          /\ Given(g, "players", Players(Sorted(Shown(u, y))))
          /\ Given(f, "player_context", Details(c)) /\ Given(g, "player_context", Details(d))
      BY <1>2 DEF Filled
    <2>2. Agree(f, g, "player_context") <=> c = d
      BY <2>1, GivenAgree, ValuesDiffer
    <2>3. PlayersShown(t, s, x) = c /\ PlayersShown(t, u, y) = d
      BY PlayersSame
    <2>4. DOMAIN c = Shown(s, x) /\ DOMAIN d = Shown(u, y)
      OBVIOUS
    <2>5. c = d => Players(Sorted(Shown(s, x))) = Players(Sorted(Shown(u, y)))
      BY <2>4
    <2>6. c = d => Agree(f, g, "players")
      BY <2>1, <2>5, GivenAgree
    <2>7. QED
      BY <2>2, <2>3, <2>6
  <1>11. "players" \notin Allowed[t] => PlayersShown(t, s, x) = PlayersShown(t, u, y)
    <2>1. [p \in {} |-> PlayerOf(x, p)] = [p \in {} |-> PlayerOf(y, p)]
      OBVIOUS
    <2>2. QED
      BY <2>1, PlayersSame
  <1>12. "venue" \in Allowed[t] => (Agree(f, g, "venue") <=> x.venue = y.venue)
    <2>1. CASE t \in {"venue_dna", "player_stats_at_venue"}
      <3>1. Given(f, "venue", Numeral(x.venue)) /\ Given(g, "venue", Numeral(y.venue))
        BY <1>2, <2>1 DEF Filled
      <3>2. QED
        BY <3>1, GivenAgree, ValuesDiffer
    <2>2. CASE t = "h2h_record" /\ IsCardSet(a.request.target) /\ IsCardSet(b.request.target)
      <3>1. Given(f, "venue", Numeral(x.venue)) /\ Given(g, "venue", Numeral(y.venue))
        BY <1>2, <2>2 DEF Filled
      <3>2. QED
        BY <3>1, GivenAgree, ValuesDiffer
    <2>3. CASE t = "h2h_record" /\ ~ IsCardSet(a.request.target) /\ ~ IsCardSet(b.request.target)
      <3>1. Optional(f, "venue", x.venue) /\ Optional(g, "venue", y.venue)
        BY <1>2, <2>3 DEF Filled
      <3>2. QED
        BY <1>3, <3>1, OptionalAgree
    <2>4. "venue" \in Allowed[t] => t \in {"h2h_record", "venue_dna", "player_stats_at_venue"}
      BY <1>1, TemplateKeys
    <2>5. QED
      BY <2>1, <2>2, <2>3, <2>4
  <1>13. t = "h2h_record" => /\ Agree(f, g, "host_country") <=> x.country = y.country
                             /\ Agree(f, g, "target_start") <=> x.start = y.start
    <2> SUFFICES ASSUME t = "h2h_record"
                 PROVE  /\ Agree(f, g, "host_country") <=> x.country = y.country
                        /\ Agree(f, g, "target_start") <=> x.start = y.start
      OBVIOUS
    <2>1. /\ Given(f, "target_start", Word(x.start)) /\ Given(g, "target_start", Word(y.start))
          /\ Optional(f, "host_country", x.country)
          /\ Optional(g, "host_country", y.country)
      BY <1>2 DEF Filled
    <2>2. Agree(f, g, "target_start") <=> x.start = y.start
      BY <2>1, GivenAgree, ValuesDiffer
    <2>3. Agree(f, g, "host_country") <=> x.country = y.country
      BY <1>3, <2>1, OptionalAgree
    <2>4. QED
      BY <2>2, <2>3
  <1>14. f = g <=> /\ MatchShown(t, x) = MatchShown(t, y)
                   /\ SelectorsShown(t, s) = SelectorsShown(t, u)
                   /\ PlayersShown(t, s, x) = PlayersShown(t, u, y)
    <2>1. /\ "format" \in Allowed[t]
          /\ "team_b" \in Allowed[t] <=> "team_a" \in Allowed[t]
          /\ "player_context" \in Allowed[t] <=> "players" \in Allowed[t]
          /\ "host_country" \in Allowed[t] <=> t = "h2h_record"
          /\ "target_start" \in Allowed[t] <=> t = "h2h_record"
      BY <1>1, TemplateKeys
    <2>2. \A key \in Allowed[t] :
            key \in SelectorKeys \cup {"format", "team_a", "team_b", "players", "player_context",
                                       "venue", "host_country", "target_start"}
      BY <1>1, TemplateKeys DEF Derived
    <2>3. MatchShown(t, x) = MatchShown(t, y)
            <=> /\ x.format = y.format
                /\ "team_a" \in Allowed[t] => x.team_a = y.team_a /\ x.team_b = y.team_b
                /\ "venue" \in Allowed[t] => x.venue = y.venue
                /\ t = "h2h_record" => x.country = y.country /\ x.start = y.start
      BY <1>1, MatchSame
    <2>4. MatchShown(t, x) = MatchShown(t, y)
            <=> \A key \in Allowed[t] \cap {"format", "team_a", "team_b", "venue",
                                            "host_country", "target_start"} : Agree(f, g, key)
      BY <1>7, <1>8, <1>12, <1>13, <2>1, <2>3
    <2>5. SelectorsShown(t, s) = SelectorsShown(t, u)
            <=> \A key \in SelectorKeys \cap Allowed[t] : Agree(f, g, key)
      BY <1>9, SelectorsSame
    <2>6. PlayersShown(t, s, x) = PlayersShown(t, u, y)
            <=> \A key \in Allowed[t] \cap {"players", "player_context"} : Agree(f, g, key)
      BY <1>10, <1>11, <2>1
    <2>7. QED
      BY <1>6, <2>2, <2>4, <2>5, <2>6
  <1>15. QED
    BY <1>4, <1>14 DEF CardOf

-----------------------------------------------------------------------------
(* Every answer, given or ready, is one that submitRun makes of a request    *)
(* it accepts and of facts that the archive has then.                        *)

AnswersMade ==
  /\ archive \in [Match -> Facts]
  /\ \A a \in answers : AnswerMade(a)
  /\ \A s \in saving :
       /\ s = [parent |-> s.parent, reply |-> s.reply, missing |-> s.missing]
       /\ \A a \in s.reply : AnswerMade(a)

LEMMA InitAnswers == Init => AnswersMade
  BY DEF Init, AnswersMade

(* The answer to a request is made of the facts of its match. *)
LEMMA ReplyMade ==
  ASSUME AnswersMade, NEW r \in Request, Acceptable(r), NEW a, a = ReplyTo(r)
  PROVE  AnswerMade(a)
  <1> PICK facts : facts = archive[r.match]
    OBVIOUS
  <1> PICK inputs : inputs = Resolved(r.target, r.inputs, facts)
    OBVIOUS
  <1>1. /\ a.request = r /\ a.facts = facts
        /\ a.locators = ResultLocators(r.target, r.match, RunInputs(r.target, inputs))
    BY DEF ReplyTo, InputsFor
  <1>2. facts \in Facts
    BY IntakeAssumption DEF AnswersMade
  <1>3. Resolvable(r.target, r.inputs, facts) /\ AllValid(r.target, inputs)
    BY DEF Acceptable, InputsFor
  <1>4. QED
    BY <1>1, <1>2, <1>3 DEF AnswerMade

(* StartRun gives the answer at once, or keeps it for the last insert. *)
LEMMA StartAnswers ==
  ASSUME AnswersMade, NEW target, NEW match, NEW inputs, NEW mode, NEW reply,
         \A a \in reply : AnswerMade(a),
         StartRun(target, match, inputs, mode, reply), archive' = archive
  PROVE  AnswersMade'
  <1> PICK own : own = Run(target, match, inputs, mode)
    OBVIOUS
  <1> PICK missing : missing = TemplateRuns(target, match, inputs, mode)
    OBVIOUS
  <1> PICK new : new = [parent |-> own, reply |-> reply, missing |-> missing]
    OBVIOUS
  <1>1. /\ answers' \subseteq answers \cup reply
        /\ saving' \subseteq saving \cup {new}
    BY DEF StartRun
  <1>2. /\ new = [parent |-> new.parent, reply |-> new.reply, missing |-> new.missing]
        /\ new.reply = reply
    OBVIOUS
  <1>3. QED
    BY <1>1, <1>2 DEF AnswersMade

(* A submission that saves another run has the same answer ready. *)
LEMMA ChildAnswers ==
  ASSUME AnswersMade, NEW s \in saving, SaveChild(s)
  PROVE  AnswersMade'
  <1> PICK child \in s.missing :
         /\ saving' = (saving \ {s}) \cup {[s EXCEPT !.missing = @ \ {child}]}
         /\ UNCHANGED <<archive, answers>>
    BY DEF SaveChild
  <1> PICK next : next = [s EXCEPT !.missing = @ \ {child}]
    OBVIOUS
  <1>1. s = [parent |-> s.parent, reply |-> s.reply, missing |-> s.missing]
    BY DEF AnswersMade
  <1>2. next = [parent |-> s.parent, reply |-> s.reply, missing |-> s.missing \ {child}]
    BY <1>1
  <1>3. /\ next = [parent |-> next.parent, reply |-> next.reply, missing |-> next.missing]
        /\ next.reply = s.reply
    BY <1>2
  <1>4. QED
    BY <1>3 DEF AnswersMade

LEMMA NextAnswers ==
  ASSUME AnswersMade, [Next]_vars
  PROVE  AnswersMade'
  <1>1. ASSUME NEW r \in Request, SubmitRun(r)
        PROVE  AnswersMade'
    <2> PICK a : a = ReplyTo(r)
      OBVIOUS
    <2>1. AnswerMade(a)
      BY <1>1, ReplyMade DEF SubmitRun
    <2> PICK inputs : inputs = RunInputs(r.target, InputsFor(r))
      OBVIOUS
    <2>2. StartRun(r.target, r.match, inputs, r.mode, {a}) /\ archive' = archive
      BY <1>1 DEF SubmitRun
    <2>3. QED
      BY <2>1, <2>2, StartAnswers
  <1>2. ASSUME NEW match \in Match, NEW inputs \in EligibleInputs, Reconcile(match, inputs)
        PROVE  AnswersMade'
    BY <1>2, StartAnswers DEF Reconcile
  <1>3. ASSUME NEW s \in saving, SaveChild(s) \/ ResaveParent(s) \/ SavingFails(s)
        PROVE  AnswersMade'
    <2>1. CASE SaveChild(s)
      BY <2>1, ChildAnswers
    <2>2. CASE ResaveParent(s)
      BY <2>2 DEF AnswersMade, ResaveParent
    <2>3. CASE SavingFails(s)
      BY <2>3 DEF AnswersMade, SavingFails
    <2>4. QED
      BY <1>3, <2>1, <2>2, <2>3
  <1>4. CASE \E run \in rows : RunEnds(run)
    BY <1>4 DEF AnswersMade, RunEnds
  <1>5. CASE \E locator \in current : ResultAges(locator)
    BY <1>5 DEF AnswersMade, ResultAges
  <1>6. CASE \E match \in Match, facts \in Facts : MatchCorrected(match, facts)
    BY <1>6 DEF AnswersMade, MatchCorrected
  <1>7. CASE UNCHANGED vars
    BY <1>7 DEF AnswersMade, vars
  <1>8. QED
    BY <1>1, <1>2, <1>3, <1>4, <1>5, <1>6, <1>7 DEF Next

(* What submitRun accepts is something the generators can begin, exactly if *)
(* the archive has the facts that the card shows: what resolvedInputs,      *)
(* validate and inputsForTemplate leave of the client's inputs meets every  *)
(* check and every type assertion of the generator, for a single card and   *)
(* for a set, except where a team, a player's team or a name is missing.    *)
THEOREM AcceptedAlwaysUsable == Spec => []AcceptedInputsUsable
  <1>1. ASSUME AnswersMade, NEW a \in answers, NEW t \in DOMAIN a.locators
        PROVE  LET filters == a.locators[t].filters
               IN /\ Usable(t, filters) <=> FactsComplete(t, a.request.inputs, a.facts)
                  /\ "players" \in DOMAIN filters =>
                       ToSet(filters.players[2]) \subseteq DOMAIN filters.player_context[2]
    BY <1>1, AnswerUsable DEF AnswersMade
  <1>2. AnswersMade => AcceptedInputsUsable
    BY <1>1 DEF AcceptedInputsUsable
  <1>3. QED
    BY <1>2, InitAnswers, NextAnswers, PTL DEF Spec

(* The hash that a card is stored and found under is the same for two       *)
(* requests exactly if they ask for the same card of the same facts: sorting *)
(* the players loses none, a venue or country that is not recorded cannot   *)
(* be taken for one that is, and a corrected squad is told apart.           *)
THEOREM LocatorsIdentifyCards == Spec => []LocatorIdentifiesCard
  <1>1. ASSUME AnswersMade, NEW a \in answers, NEW b \in answers,
               NEW t \in DOMAIN a.locators \cap DOMAIN b.locators,
               ~ (t = "h2h_record" /\ IsCardSet(a.request.target) # IsCardSet(b.request.target))
        PROVE  a.locators[t] = b.locators[t] <=> CardOf(a, t) = CardOf(b, t)
    <2>1. AnswerMade(a) /\ AnswerMade(b)
      BY <1>1 DEF AnswersMade
    <2>2. t = "h2h_record" =>
            (IsCardSet(a.request.target) <=> IsCardSet(b.request.target))
      BY <1>1 DEF IsCardSet
    <2>3. QED
      BY <2>1, <2>2, AnswersAgree
  <1>2. AnswersMade => LocatorIdentifiesCard
    BY <1>1 DEF LocatorIdentifiesCard
  <1>3. QED
    BY <1>2, InitAnswers, NextAnswers, PTL DEF Spec

=============================================================================
