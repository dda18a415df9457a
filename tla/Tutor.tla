--------------------------------- MODULE Tutor ---------------------------------
(***************************************************************************)
(* The adaptive tutor (SARA_AI_Product_Manager_Adaptive_Tutor_UNIFIED.py): *)
(* SARA generates a question, ROAD verifies it, the novelty ledger claims  *)
(* it, and the answers of the learner move the mastery of its competency.  *)
(*                                                                         *)
(* Each transaction of Store is one step; several processes share the      *)
(* database.  A text is a value, and Resembles says which texts overlap by *)
(* the duplicate threshold.  The id of a question is its item, which the   *)
(* ledger claims once.  Mastery is counted in hundredths.                  *)
(***************************************************************************)
EXTENDS Integers, Sequences, FiniteSets

CONSTANTS
    Learner, Position,
    Item,           \* what SARA may generate: [competency, difficulty, prompt,
                    \*   reasoning, archetype, answer, distractors, scenario, choices]
    Resembling,     \* sets {t, u} of texts that overlap by the threshold
    Lesson,         \* calls of next_question
    Reply,          \* calls of answer
    MaxAttempts,    \* max_generation_attempts
    StreakLength,   \* 4 in the code
    Solid,          \* mastery that raises the difficulty: 55 in the code
    TutorEnv        \* what may happen: subset of {"crash", "error"}

ASSUME TutorAssumption ==
    /\ MaxAttempts \in Nat \ {0} /\ StreakLength \in Nat /\ Solid \in Nat
    /\ Position \subseteq Nat
    /\ \A i \in Item : i.difficulty \in 1..5

VARIABLES
    noveltyLedger, \* novelty_ledger: the items claimed
    questions,     \* questions and semantic_index: item -> [learner, position, answered]
    attempts,    \* the attempts at each question: whether they were correct
    mastery,     \* the mastery table: <<learner, competency>> -> row
    positions,   \* answer_position_allocations
    tutorAudit,  \* questions whose verdict and service are in tutor_audit
    lesson, reply

tutorVars == <<noveltyLedger, questions, attempts, mastery, positions, tutorAudit, lesson, reply>>

Competency == {i.competency : i \in Item}
NoRow == [attempts |-> 0, first |-> 0, eventual |-> 0, streak |-> 0, mastery |-> 25, difficulty |-> 0]
NotRunning == [step |-> "idle"]

TutorInit ==
    /\ noveltyLedger = {}
    /\ questions = <<>>
    /\ attempts = [i \in Item |-> <<>>]
    /\ mastery = [x \in Learner \X Competency |-> NoRow]
    /\ positions = [p \in Position |-> 0]
    /\ tutorAudit = {}
    /\ lesson = [n \in Lesson |-> NotRunning]
    /\ reply = [r \in Reply |-> NotRunning]

-----------------------------------------------------------------------------
\* semantic_overlap of the tokens of two texts reaches the threshold.
Resembles(t, u) == t = u \/ {t, u} \in Resembling

\* GlobalSemanticNoveltyGate.check against a row of the ledger ...
RepeatsClaimed(i, j) ==
    \/ Resembles(i.prompt, j.prompt)
    \/ Resembles(i.reasoning, j.reasoning)
    \/ Resembles(i.answer, j.answer)
    \/ i.distractors = j.distractors
    \/ i.scenario = j.scenario

\* ... and against a row of semantic_index.
RepeatsServed(i, j) ==
    \/ Resembles(i.prompt, j.prompt)
    \/ Resembles(i.archetype, j.archetype) \/ Resembles(i.reasoning, j.archetype)
    \/ Resembles(i.choices, j.choices)

Repeats(i, gate) ==
    \/ \E j \in gate.claimed : RepeatsClaimed(i, j)
    \/ \E j \in gate.served : RepeatsServed(i, j)

GateFromStore == [claimed |-> noveltyLedger, served |-> DOMAIN questions]

-----------------------------------------------------------------------------
LessonGoes(n, step) == lesson' = [lesson EXCEPT ![n] = [lesson[n] EXCEPT !.step = step]]
LessonEnds(n) == lesson' = [lesson EXCEPT ![n] = NotRunning]

\* next_question reads the mastery of the learner, chooses a competency (every
\* one has a weight) and builds its gate.
NextQuestion(n, l, c) ==
    /\ lesson[n] = NotRunning
    /\ lesson' = [lesson EXCEPT ![n] =
          [step |-> "generate", learner |-> l, competency |-> c, tries |-> 0, gate |-> GateFromStore,
           difficulty |-> IF mastery[<<l, c>>] = NoRow THEN 1 ELSE mastery[<<l, c>>].difficulty,
           item |-> NotRunning, position |-> -1]]
    /\ UNCHANGED <<noveltyLedger, questions, attempts, mastery, positions, tutorAudit, reply>>

\* The attempt was for nothing: the loop goes on, or gives up.
TryAgain(n) ==
    IF lesson[n].tries + 1 = MaxAttempts THEN LessonEnds(n)
    ELSE lesson' = [lesson EXCEPT ![n] = [lesson[n] EXCEPT !.step = "generate", !.tries = @ + 1,
                                                          !.item = NotRunning]]

\* SARA answers with an item that meets the contract, or not at all.
Generated(n) ==
    /\ lesson[n].step = "generate"
    /\ \/ \E i \in Item :
            IF \/ i.competency # lesson[n].competency
               \/ i.difficulty # lesson[n].difficulty
               \/ Repeats(i, lesson[n].gate)
            THEN TryAgain(n)
            ELSE lesson' = [lesson EXCEPT ![n] = [lesson[n] EXCEPT !.step = "verify", !.item = i]]
       \/ "error" \in TutorEnv /\ LessonEnds(n)
    /\ UNCHANGED <<noveltyLedger, questions, attempts, mastery, positions, tutorAudit, reply>>

\* ROAD answers PASS, or the lesson is blocked.
Verified(n) ==
    /\ lesson[n].step = "verify"
    /\ \/ LessonGoes(n, "claim")
       \/ "error" \in TutorEnv /\ LessonEnds(n)
    /\ UNCHANGED <<noveltyLedger, questions, attempts, mastery, positions, tutorAudit, reply>>

\* Mutant of IsNovel: claim_novelty trusts the gate that the lesson checked.
IsNovelBefore(n) == lesson[n].item \notin noveltyLedger /\ ~Repeats(lesson[n].item, lesson[n].gate)

\* claim_novelty builds the gate again while it holds the write lock.
IsNovel(n) == ~Repeats(lesson[n].item, GateFromStore)

Claim(n) ==
    /\ lesson[n].step = "claim"
    /\ IF IsNovel(n)
       THEN noveltyLedger' = noveltyLedger \cup {lesson[n].item} /\ LessonGoes(n, "place")
       ELSE TryAgain(n) /\ UNCHANGED noveltyLedger
    /\ UNCHANGED <<questions, attempts, mastery, positions, tutorAudit, reply>>

\* allocate_answer_position takes one of the positions used least.
Place(n) ==
    /\ lesson[n].step = "place"
    /\ \E p \in Position :
         /\ \A q \in Position : positions[p] <= positions[q]
         /\ positions' = [positions EXCEPT ![p] = @ + 1]
         /\ lesson' = [lesson EXCEPT ![n] = [lesson[n] EXCEPT !.step = "save", !.position = p]]
    /\ UNCHANGED <<noveltyLedger, questions, attempts, mastery, tutorAudit, reply>>

SaveQuestion(n) ==
    /\ lesson[n].step = "save"
    /\ questions' = [i \in DOMAIN questions \cup {lesson[n].item} |->
          IF i \in DOMAIN questions THEN questions[i]
          ELSE [learner |-> lesson[n].learner, position |-> lesson[n].position, answered |-> FALSE]]
    /\ LessonGoes(n, "serve")
    /\ UNCHANGED <<noveltyLedger, attempts, mastery, positions, tutorAudit, reply>>

Serve(n) ==
    /\ lesson[n].step = "serve"
    /\ tutorAudit' = tutorAudit \cup {lesson[n].item}
    /\ LessonEnds(n)
    /\ UNCHANGED <<noveltyLedger, questions, attempts, mastery, positions, reply>>

-----------------------------------------------------------------------------
\* answer reads the question in a transaction of its own.
Answer(r, i, p) ==
    /\ reply[r] = NotRunning
    /\ i \in DOMAIN questions
    /\ ~questions[i].answered
    /\ reply' = [reply EXCEPT ![r] = [step |-> "score", item |-> i, correct |-> p = questions[i].position]]
    /\ UNCHANGED <<noveltyLedger, questions, attempts, mastery, positions, tutorAudit, lesson>>

\* A streak at a solid mastery raises the difficulty.
Raised(row) ==
    IF row.streak >= StreakLength /\ row.mastery >= Solid
    THEN [row EXCEPT !.difficulty = IF @ = 5 THEN 5 ELSE @ + 1, !.streak = 0]
    ELSE row

\* MasteryEngine.update, for the first attempt at a question.
FirstAttempt(row, correct) ==
    IF correct
    THEN Raised([row EXCEPT !.attempts = @ + 1, !.eventual = @ + 1, !.first = @ + 1, !.streak = @ + 1,
                            !.mastery = IF @ + 10 > 100 THEN 100 ELSE @ + 10])
    ELSE LET m == IF row.mastery < 12 THEN 0 ELSE row.mastery - 12
         IN [row EXCEPT !.attempts = @ + 1, !.streak = 0, !.mastery = m,
                        !.difficulty = IF m < 35 /\ @ > 1 THEN @ - 1 ELSE @]

\* Mutant of Completed: score_answer relies on what answer read.
CompletedUnchecked(i) == FALSE

\* score_answer reads answered_correctly again inside its transaction.
Completed(i) == questions[i].answered

ScoreAnswer(r) ==
    /\ reply[r].step = "score"
    /\ LET i == reply[r].item
           correct == reply[r].correct
           x == <<questions[i].learner, i.competency>>
           row == IF mastery[x] = NoRow THEN [NoRow EXCEPT !.difficulty = i.difficulty] ELSE mastery[x]
       IN IF Completed(i)
          THEN UNCHANGED <<attempts, questions, mastery>>
          ELSE /\ attempts' = [attempts EXCEPT ![i] = Append(@, correct)]
               /\ questions' = [questions EXCEPT ![i].answered = correct]
               /\ mastery' = [mastery EXCEPT ![x] =
                    IF attempts[i] = <<>> THEN FirstAttempt(row, correct)
                    ELSE IF correct THEN Raised([row EXCEPT !.eventual = @ + 1, !.streak = @ + 1])
                    ELSE @]
    /\ reply' = [reply EXCEPT ![r] = [step |-> "done"]]
    /\ UNCHANGED <<noveltyLedger, positions, tutorAudit, lesson>>

\* A process ends: its calls end, the database stays.
TutorCrash ==
    /\ "crash" \in TutorEnv
    /\ \E n \in Lesson : lesson[n] # NotRunning /\ LessonEnds(n)
    /\ UNCHANGED <<noveltyLedger, questions, attempts, mastery, positions, tutorAudit, reply>>

TutorNext ==
    \/ \E n \in Lesson :
         \/ \E l \in Learner, c \in Competency : NextQuestion(n, l, c)
         \/ Generated(n) \/ Verified(n) \/ Claim(n) \/ Place(n) \/ SaveQuestion(n) \/ Serve(n)
    \/ \E r \in Reply :
         \/ \E i \in Item, p \in Position : Answer(r, i, p)
         \/ ScoreAnswer(r)
    \/ TutorCrash

TutorSpec == TutorInit /\ [][TutorNext]_tutorVars

-----------------------------------------------------------------------------
TutorTypeOK ==
    /\ noveltyLedger \subseteq Item
    /\ DOMAIN questions \subseteq noveltyLedger
    /\ tutorAudit \subseteq DOMAIN questions
    /\ \A x \in Learner \X Competency : mastery[x].mastery \in 0..100 /\ mastery[x].difficulty \in 0..5
    /\ \A n \in Lesson : lesson[n].step \in {"idle", "generate", "verify", "claim", "place", "save", "serve"}

\* No two claimed questions share what the ledger protects, whichever processes
\* generated them; what a learner is asked was claimed.
NoRepeats ==
    \A i, j \in noveltyLedger : i # j => ~RepeatsClaimed(i, j)

QuestionsOf(l, c) == {i \in DOMAIN questions : questions[i].learner = l /\ i.competency = c}
Attempted(l, c) == {i \in QuestionsOf(l, c) : attempts[i] # <<>>}
RightAtFirst(l, c) == {i \in Attempted(l, c) : attempts[i][1]}
RightInTheEnd(l, c) == {i \in QuestionsOf(l, c) : \E k \in DOMAIN attempts[i] : attempts[i][k]}

MasteryCounts(l, c) ==
    /\ mastery[<<l, c>>].attempts = Cardinality(Attempted(l, c))
    /\ mastery[<<l, c>>].first = Cardinality(RightAtFirst(l, c))
    /\ mastery[<<l, c>>].eventual = Cardinality(RightInTheEnd(l, c))

\* Mastery is what the answers earned: a question counts once as attempted, at
\* most once as correct at first and once as correct in the end, however many
\* replies to it overlap.
MasteryIsEarned ==
    /\ \A l \in Learner, c \in Competency : MasteryCounts(l, c)
    /\ \A i \in DOMAIN questions : Cardinality({k \in DOMAIN attempts[i] : attempts[i][k]}) <= 1

\* The correct answer does not settle at a position.
PositionsAreBalanced ==
    \A p, q \in Position : positions[p] <= positions[q] + 1

-----------------------------------------------------------------------------
(* The invariant that the three rest on. *)

MasteryRow == [attempts : Nat, first : Nat, eventual : Nat, streak : Nat, mastery : 0..100, difficulty : 0..5]
RunningLesson ==
    [step : {"generate", "verify", "claim", "place", "save", "serve"}, learner : Learner,
     competency : Competency, tries : Nat, gate : [claimed : SUBSET Item, served : SUBSET Item],
     difficulty : 0..5, item : Item \cup {NotRunning}, position : Position \cup {-1}]

TutorTyped ==
    /\ noveltyLedger \subseteq Item /\ IsFiniteSet(noveltyLedger)
    /\ DOMAIN questions \subseteq noveltyLedger
    /\ questions \in [DOMAIN questions -> [learner : Learner, position : Position, answered : BOOLEAN]]
    /\ attempts \in [Item -> Seq(BOOLEAN)]
    /\ mastery \in [Learner \X Competency -> MasteryRow]
    /\ positions \in [Position -> Nat]
    /\ tutorAudit \subseteq DOMAIN questions
    /\ lesson \in [Lesson -> {NotRunning} \cup RunningLesson]
    /\ reply \in [Reply -> {NotRunning, [step |-> "done"]}
                            \cup [step : {"score"}, item : Item, correct : BOOLEAN]]
    /\ \A r \in Reply : reply[r].step = "score" => reply[r].item \in DOMAIN questions

\* What a lesson has claimed is its own until it is asked.
LessonStands(n) ==
    /\ lesson[n].step \in {"verify", "claim", "place", "save", "serve"} => lesson[n].item \in Item
    /\ lesson[n].step \in {"save", "serve"} => lesson[n].position \in Position
    /\ lesson[n].step \in {"place", "save"} =>
          /\ lesson[n].item \in noveltyLedger \ DOMAIN questions
          /\ \A m \in Lesson :
               lesson[m].step \in {"place", "save"} /\ lesson[m].item = lesson[n].item => m = n
    /\ lesson[n].step = "serve" => lesson[n].item \in DOMAIN questions

\* Only the last attempt at a question is correct, and then it is answered.
AttemptsStand(i) ==
    /\ i \notin DOMAIN questions => attempts[i] = <<>>
    /\ i \in DOMAIN questions =>
         /\ questions[i].answered => Len(attempts[i]) > 0 /\ attempts[i][Len(attempts[i])]
         /\ \A k \in DOMAIN attempts[i] :
              attempts[i][k] => k = Len(attempts[i]) /\ questions[i].answered

TutorInv ==
    /\ TutorTyped
    /\ \A n \in Lesson : LessonStands(n)
    /\ \A i \in Item : AttemptsStand(i)
    /\ NoRepeats
    /\ \A l \in Learner, c \in Competency : MasteryCounts(l, c)
    /\ PositionsAreBalanced
=============================================================================
