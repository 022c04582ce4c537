--------------------------- MODULE TurnQueueProofs ---------------------------
(***************************************************************************)
(* Machine-checked proofs about TurnQueue, for every set of sessions,      *)
(* every limit, any number of jobs and both outcomes of realloc, for       *)
(* callers that do not drain while an asynchronous turn is running.        *)
(***************************************************************************)
EXTENDS TurnQueue, SequenceTheorems, WellFoundedInduction, TLAPS

-----------------------------------------------------------------------------
(* The inductive invariant.  Job ids increase along the queue and lie ahead *)
(* of every id answered so far; the one exception is the head while its     *)
(* done callback is being served.  A running turn is the head's.            *)

Serving == pc \in {"done_async", "done_drain"}

IdsIncrease ==
    /\ \A i, j \in DOMAIN jobs : i < j => jobs[i].id < jobs[j].id
    /\ \A i \in DOMAIN jobs : jobs[i].id < nextId

AnsweredBehind ==
    /\ \A a \in DOMAIN answers : answers[a].id < nextId
    /\ ~Serving => \A a \in DOMAIN answers, i \in DOMAIN jobs : answers[a].id < jobs[i].id

ServedHead ==
    Serving => /\ jobs # <<>> /\ answers # <<>>
               /\ answers[Len(answers)].id = jobs[1].id

TurnIsHead ==
    turn # NoTurn => /\ pc = "idle" /\ jobs # <<>>
                     /\ turn.id = jobs[1].id

QueueInv ==
    /\ TypeOK
    /\ IdsIncrease
    /\ AnsweredBehind
    /\ ServedHead
    /\ TurnIsHead
    /\ AnswersMatch
    /\ AnswersInOrder
    /\ NoJobLost
    /\ InFlightExact

-----------------------------------------------------------------------------
(* Facts about the helpers of enqueue. *)

(* A non-empty set of slots has a last one. *)
LEMMA LastSlot ==
    ASSUME NEW n \in Nat, NEW S \in SUBSET (1..n), S # {}
    PROVE  Max(S) \in S /\ \A y \in S : Max(S) >= y
<1> DEFINE T == {n - x : x \in S}
<1>1. T \subseteq Nat /\ T # {}
  <2>1. PICK x \in S : TRUE
    OBVIOUS
  <2>2. n - x \in T
    OBVIOUS
  <2>3. \A y \in S : n - y \in Nat
    OBVIOUS
  <2> QED BY <2>2, <2>3
<1>2. PICK m \in T : \A y \in T : ~ (<<y, m>> \in OpToRel(<, Nat))
  <2> HIDE DEF T
  <2> QED BY <1>1, NatLessThanWellFounded, WFMin
<1>3. \A y \in T : ~ (y < m)
  BY <1>1, <1>2 DEF OpToRel
<1>4. PICK x \in S : m = n - x
  BY <1>2
<1>5. \A y \in S : x >= y
  BY <1>3, <1>4
<1> QED BY <1>4, <1>5 DEF Max

(* The cancel_previous pass changes nothing but cancellation flags. *)
LEMMA CancelMatchingKeeps ==
    ASSUME NEW q \in Seq(Job), NEW key
    PROVE  /\ CancelMatching(q, key) \in Seq(Job)
           /\ Len(CancelMatching(q, key)) = Len(q)
           /\ \A i \in 1..Len(q) : /\ CancelMatching(q, key)[i].id = q[i].id
                                   /\ CancelMatching(q, key)[i].key = q[i].key
                                   /\ CancelMatching(q, key)[i].window = q[i].window
                                   /\ CancelMatching(q, key)[i].limit = q[i].limit
<1> DEFINE c == CancelMatching(q, key)
<1>1. c = [i \in 1..Len(q) |->
             [q[i] EXCEPT !.cancelled = IF Matches(q[i], key) THEN TRUE ELSE @]]
  BY LenProperties DEF CancelMatching
<1>2. \A i \in 1..Len(q) : /\ c[i] \in Job
                           /\ c[i].id = q[i].id /\ c[i].key = q[i].key
                           /\ c[i].window = q[i].window /\ c[i].limit = q[i].limit
  <2> SUFFICES ASSUME NEW i \in 1..Len(q)
               PROVE  /\ c[i] \in Job
                      /\ c[i].id = q[i].id /\ c[i].key = q[i].key
                      /\ c[i].window = q[i].window /\ c[i].limit = q[i].limit
    OBVIOUS
  <2>1. q[i] \in Job
    BY ElementOfSeq
  <2>2. c[i] = [q[i] EXCEPT !.cancelled = IF Matches(q[i], key) THEN TRUE ELSE q[i].cancelled]
    BY <1>1
  <2> HIDE DEF c
  <2> QED BY <2>1, <2>2 DEF Job
<1>3. c \in Seq(Job) /\ Len(c) = Len(q)
  <2>1. c \in [1..Len(q) -> Job]
    BY <1>1, <1>2
  <2>2. Len(q) \in Nat
    BY LenProperties
  <2> HIDE DEF c
  <2> QED BY <2>1, <2>2
<1> QED BY <1>2, <1>3

LEMMA JobLimitPositive ==
    ASSUME NEW l \in Nat
    PROVE  JobLimit(l) \in Nat \ {0}
  BY ConstantsAssumption DEF JobLimit

LEMMA TrimType ==
    ASSUME NEW w \in Seq(Ids), NEW l \in Nat \ {0}
    PROVE  Trim(w, l) \in Seq(Ids)
  BY SMT DEF Trim

LEMMA LatestWindowType ==
    ASSUME NEW q \in Seq(Job), NEW key
    PROVE  LatestWindow(q, key) \in Seq(Ids)
<1>1. CASE MatchingSlots(q, key) = {}
  BY <1>1, EmptySeq DEF LatestWindow
<1>2. CASE MatchingSlots(q, key) # {}
  <2>1. MatchingSlots(q, key) \in SUBSET (1..Len(q)) /\ Len(q) \in Nat
    BY DEF MatchingSlots
  <2>2. Max(MatchingSlots(q, key)) \in 1..Len(q)
    BY <1>2, <2>1, LastSlot
  <2>3. q[Max(MatchingSlots(q, key))] \in Job
    BY <2>2, ElementOfSeq
  <2> QED BY <1>2, <2>3 DEF LatestWindow, Job
<1> QED BY <1>1, <1>2

(* enqueue builds a well-formed job that carries the id it was given. *)
LEMMA NewJobType ==
    ASSUME NEW q \in Seq(Job), NEW id \in Ids, NEW key \in Keys,
           NEW c \in BOOLEAN, NEW l \in Nat
    PROVE  NewJob(q, id, key, c, l) \in Job /\ NewJob(q, id, key, c, l).id = id
<1> DEFINE w == IF c THEN LatestWindow(q, key) ELSE <<>>
<1>1. w \in Seq(Ids)
  BY LatestWindowType, EmptySeq
<1>2. Append(w, id) \in Seq(Ids)
  BY <1>1, AppendProperties
<1>3. Trim(Append(w, id), JobLimit(l)) \in Seq(Ids)
  BY <1>2, TrimType, JobLimitPositive
<1> QED BY <1>3, JobLimitPositive DEF NewJob, Job

(* Starting the head changes its active flag and nothing else. *)
LEMMA ActivateHead ==
    ASSUME NEW q \in Seq(Job), q # <<>>
    PROVE  /\ [q EXCEPT ![1].active = TRUE] \in Seq(Job)
           /\ Len([q EXCEPT ![1].active = TRUE]) = Len(q)
           /\ \A i \in 1..Len(q) :
                 LET j == [q EXCEPT ![1].active = TRUE][i]
                 IN  j.id = q[i].id /\ j.key = q[i].key /\ j.window = q[i].window /\ j.limit = q[i].limit
<1> DEFINE h == [q[1] EXCEPT !.active = TRUE]
<1>1. 1 \in 1..Len(q) /\ q[1] \in Job
  BY EmptySeq, ElementOfSeq
<1>2. h \in Job /\ h.id = q[1].id /\ h.key = q[1].key /\ h.window = q[1].window /\ h.limit = q[1].limit
  BY <1>1 DEF Job
<1>3. [q EXCEPT ![1].active = TRUE] = [q EXCEPT ![1] = h]
  BY <1>1
<1> HIDE DEF h
<1>4. /\ [q EXCEPT ![1] = h] \in Seq(Job) /\ Len([q EXCEPT ![1] = h]) = Len(q)
      /\ \A i \in 1..Len(q) : [q EXCEPT ![1] = h][i] = IF i = 1 THEN h ELSE q[i]
  BY <1>1, <1>2, ExceptSeq
<1> QED BY <1>2, <1>3, <1>4

-----------------------------------------------------------------------------
(* The invariant holds initially. *)
LEMMA QueueInvInit == Init => QueueInv
<1> SUFFICES ASSUME Init PROVE QueueInv
  OBVIOUS
<1>1. TypeOK
  <2>1. turn \in [id : 0..MaxJobs, buf : Nat]
    BY ConstantsAssumption DEF Init, NoTurn
  <2>2. jobs \in Seq(Job) /\ Len(jobs) = 0 /\ answers \in Seq([id : Ids, turn : Ids, status : Statuses])
    BY EmptySeq DEF Init
  <2>3. cap \in Nat /\ Len(jobs) <= cap /\ buf \in Nat /\ left \in Int /\ left >= -1
    BY <2>2 DEF Init
  <2>4. nextId \in 1..(MaxJobs + 1)
    BY ConstantsAssumption DEF Init
  <2> QED BY <2>1, <2>2, <2>3, <2>4 DEF Init, TypeOK, PCs
<1>2. IdsIncrease /\ AnsweredBehind /\ AnswersMatch /\ AnswersInOrder
  BY DEF Init, IdsIncrease, AnsweredBehind, AnswersMatch, AnswersInOrder
<1>3. ServedHead /\ TurnIsHead /\ NoJobLost /\ InFlightExact
  BY DEF Init, ServedHead, TurnIsHead, NoJobLost, InFlightExact, Serving
<1> QED BY <1>1, <1>2, <1>3 DEF QueueInv

(* Ids are numbers, and the slots of a sequence are 1 to its length. *)
LEMMA IdFacts ==
    ASSUME TypeOK
    PROVE  /\ Len(jobs) \in Nat /\ DOMAIN jobs = 1..Len(jobs)
           /\ \A i \in 1..Len(jobs) : jobs[i].id \in Nat
           /\ Len(answers) \in Nat /\ DOMAIN answers = 1..Len(answers)
           /\ \A a \in 1..Len(answers) : answers[a].id \in Nat
           /\ jobs # <<>> => 1 \in 1..Len(jobs)
           /\ nextId \in Nat
<1>1. \A i \in 1..Len(jobs) : jobs[i] \in Job
  BY ElementOfSeq DEF TypeOK
<1>2. \A a \in 1..Len(answers) : answers[a] \in [id : Ids, turn : Ids, status : Statuses]
  BY ElementOfSeq DEF TypeOK
<1>3. Len(jobs) \in Nat /\ DOMAIN jobs = 1..Len(jobs)
  BY LenProperties DEF TypeOK
<1>4. Len(answers) \in Nat /\ DOMAIN answers = 1..Len(answers)
  BY LenProperties DEF TypeOK
<1>5. jobs # <<>> => 1 \in 1..Len(jobs)
  BY EmptySeq DEF TypeOK
<1>6. \A i \in 1..Len(jobs) : jobs[i].id \in Nat
  BY <1>1 DEF Job, Ids
<1>7. \A a \in 1..Len(answers) : answers[a].id \in Nat
  BY <1>2 DEF Ids
<1> QED BY <1>3, <1>4, <1>5, <1>6, <1>7 DEF TypeOK

(* enqueue preserves it: the new job goes behind every other id. *)
LEMMA EnqueueKeeps ==
    ASSUME QueueInv, NEW k \in Keys, NEW c \in CancelModes, NEW l \in JobLimits,
           Enqueue(k, c, l)
    PROVE  QueueInv'
<1> DEFINE q == IF c THEN CancelMatching(jobs, k) ELSE jobs
           n == NewJob(q, nextId, k, c, l)
<1> USE DEF QueueInv
<1>1. /\ jobs \in Seq(Job) /\ nextId \in Ids /\ l \in Nat /\ c \in BOOLEAN
      /\ Len(jobs) \in Nat /\ DOMAIN jobs = 1..Len(jobs)
  BY ConstantsAssumption, LenProperties DEF Enqueue, TypeOK, Ids
<1>2. /\ q \in Seq(Job) /\ Len(q) = Len(jobs)
      /\ \A i \in 1..Len(jobs) : q[i].id = jobs[i].id
  BY <1>1, CancelMatchingKeeps
<1> HIDE DEF q
<1>3. n \in Job /\ n.id = nextId
  BY <1>1, <1>2, NewJobType
<1> HIDE DEF n
<1>4. jobs' = Append(q, n) /\ nextId' = nextId + 1
  BY DEF Enqueue, q, n
<1>5. /\ jobs' \in Seq(Job) /\ Len(jobs') = Len(jobs) + 1
      /\ DOMAIN jobs' = 1..(Len(jobs) + 1)
      /\ jobs'[Len(jobs) + 1].id = nextId
      /\ \A i \in 1..Len(jobs) : jobs'[i].id = jobs[i].id
      /\ jobs' # <<>>
  BY <1>1, <1>2, <1>3, <1>4, AppendProperties
<1>6. UNCHANGED <<scheduled, timerOn, inFlight, turn, stopping, pc, left, drainOk, alive, answers>>
  BY DEF Enqueue
<1>7. cap' \in Nat /\ Len(jobs') <= cap' /\ buf' \in Nat
  BY <1>1, <1>5, ConstantsAssumption DEF Enqueue, Reserve, TypeOK
<1>8. TypeOK'
  BY <1>1, <1>4, <1>5, <1>6, <1>7, ConstantsAssumption DEF TypeOK, Ids
<1> USE IdFacts
<1>9. IdsIncrease'
  <2>1. ASSUME NEW i \in DOMAIN jobs', NEW j \in DOMAIN jobs', i < j
        PROVE  jobs'[i].id < jobs'[j].id
    <3>1. i \in 1..Len(jobs)
      BY <1>1, <1>5, <2>1
    <3>2. CASE j \in 1..Len(jobs)
      BY <3>1, <3>2, <1>1, <1>5, <2>1 DEF IdsIncrease
    <3>3. CASE j = Len(jobs) + 1
      BY <3>1, <3>3, <1>1, <1>5 DEF IdsIncrease
    <3> QED BY <3>2, <3>3, <1>1, <1>5
  <2>2. \A i \in DOMAIN jobs' : jobs'[i].id < nextId'
    BY <1>1, <1>4, <1>5 DEF IdsIncrease
  <2> QED BY <2>1, <2>2 DEF IdsIncrease
<1>10. AnsweredBehind'
  BY <1>1, <1>4, <1>5, <1>6 DEF AnsweredBehind, Serving
<1>11. ServedHead' /\ TurnIsHead'
  BY <1>1, <1>5, <1>6 DEF ServedHead, TurnIsHead, Serving, TypeOK
<1>12. AnswersMatch' /\ AnswersInOrder' /\ InFlightExact'
  BY <1>6 DEF AnswersMatch, AnswersInOrder, InFlightExact
<1>13. NoJobLost'
  <2> SUFFICES ASSUME alive, NEW m \in 1..nextId
               PROVE  \/ \E i \in DOMAIN jobs' : jobs'[i].id = m
                      \/ \E i \in DOMAIN answers : answers[i].id = m
    BY <1>1, <1>4, <1>6 DEF NoJobLost
  <2>1. CASE m = nextId
    BY <2>1, <1>1, <1>5
  <2>2. CASE m # nextId
    BY <2>2, <1>1, <1>5 DEF NoJobLost
  <2> QED BY <2>1, <2>2
<1> QED BY <1>8, <1>9, <1>10, <1>11, <1>12, <1>13

(* A step that keeps every id in its slot, the answers and the stack. *)
LEMMA SameIdsKeep ==
    ASSUME QueueInv, TypeOK',
           Len(jobs') = Len(jobs),
           \A i \in 1..Len(jobs) : jobs'[i].id = jobs[i].id,
           UNCHANGED <<nextId, answers, pc, turn, inFlight, alive>>
    PROVE  QueueInv'
<1>1. /\ DOMAIN jobs = 1..Len(jobs) /\ DOMAIN jobs' = 1..Len(jobs)
      /\ (jobs' = <<>>) <=> (jobs = <<>>)
      /\ Len(jobs) \in Nat
      /\ jobs # <<>> => 1 \in 1..Len(jobs)
  BY LenProperties, EmptySeq DEF QueueInv, TypeOK
<1> QED
  BY <1>1 DEF QueueInv, IdsIncrease, AnsweredBehind, ServedHead, TurnIsHead, AnswersMatch,
              AnswersInOrder, NoJobLost, InFlightExact, Serving

(* Answering the head: its id is larger than every id answered before. *)
LEMMA AnswerHeadKeeps ==
    ASSUME QueueInv, TypeOK', jobs # <<>>, ~Serving, Serving',
           NEW r \in Ids, r = jobs[1].id, NEW s \in Statuses,
           answers' = Append(answers, Answer(jobs[1], r, s)),
           Len(jobs') = Len(jobs),
           \A i \in 1..Len(jobs) : jobs'[i].id = jobs[i].id,
           UNCHANGED <<nextId, alive>>,
           TurnIsHead', InFlightExact'
    PROVE  QueueInv'
<1> USE DEF QueueInv
<1> DEFINE e == Answer(jobs[1], r, s)
<1>1. /\ Len(jobs) \in Nat /\ DOMAIN jobs = 1..Len(jobs) /\ 1 \in 1..Len(jobs)
      /\ DOMAIN jobs' = 1..Len(jobs) /\ jobs' # <<>>
      /\ \A i \in 1..Len(jobs) : jobs[i].id \in Nat
      /\ \A a \in 1..Len(answers) : answers[a].id \in Nat
      /\ Len(answers) \in Nat /\ DOMAIN answers = 1..Len(answers)
  BY IdFacts, LenProperties, EmptySeq DEF TypeOK
<1>2. e \in [id : Ids, turn : Ids, status : Statuses] /\ e.id = jobs[1].id /\ e.turn = jobs[1].id
  BY DEF Answer
<1> HIDE DEF e
<1>3. answers \in Seq([id : Ids, turn : Ids, status : Statuses])
  BY DEF TypeOK
<1>4. /\ Len(answers') = Len(answers) + 1 /\ DOMAIN answers' = 1..(Len(answers) + 1)
      /\ answers'[Len(answers) + 1] = e
      /\ \A a \in 1..Len(answers) : answers'[a] = answers[a]
      /\ answers' # <<>>
  BY <1>2, <1>3, AppendProperties, EmptySeq DEF e
<1>5. \A a \in 1..Len(answers) : answers[a].id < jobs[1].id
  BY <1>1 DEF AnsweredBehind
<1>6. IdsIncrease'
  <2>1. \A i, j \in 1..Len(jobs) : i < j => jobs'[i].id < jobs'[j].id
    BY <1>1 DEF IdsIncrease
  <2>2. \A i \in 1..Len(jobs) : jobs'[i].id < nextId'
    BY <1>1 DEF IdsIncrease
  <2> QED BY <2>1, <2>2, <1>1 DEF IdsIncrease
<1>7. AnsweredBehind'
  BY <1>1, <1>2, <1>4 DEF AnsweredBehind, IdsIncrease
<1>8. ServedHead'
  BY <1>1, <1>2, <1>4 DEF ServedHead
<1>9. AnswersMatch'
  BY <1>1, <1>2, <1>4 DEF AnswersMatch
<1>10. AnswersInOrder'
  <2>1. ASSUME NEW i \in DOMAIN answers', NEW j \in DOMAIN answers', i < j
        PROVE  answers'[i].id < answers'[j].id
    <3>1. i \in 1..Len(answers)
      BY <1>1, <1>4, <2>1
    <3>2. CASE j \in 1..Len(answers)
      BY <3>1, <3>2, <1>1, <1>4, <2>1 DEF AnswersInOrder
    <3>3. CASE j = Len(answers) + 1
      BY <3>1, <3>3, <1>2, <1>4, <1>5
    <3> QED BY <3>2, <3>3, <1>1, <1>4
  <2> QED BY <2>1 DEF AnswersInOrder
<1>11. NoJobLost'
  <2> SUFFICES ASSUME alive, NEW m \in 1..(nextId - 1)
               PROVE  \/ \E i \in DOMAIN jobs' : jobs'[i].id = m
                      \/ \E i \in DOMAIN answers' : answers'[i].id = m
    BY DEF NoJobLost
  <2>1. CASE \E i \in DOMAIN jobs : jobs[i].id = m
    BY <2>1, <1>1
  <2>2. CASE \E i \in DOMAIN answers : answers[i].id = m
    BY <2>2, <1>1, <1>4
  <2> QED BY <2>1, <2>2 DEF NoJobLost
<1> QED BY <1>6, <1>7, <1>8, <1>9, <1>10, <1>11

(* Removing the head after its done callback: it has been answered, and     *)
(* what is left lies behind nothing that was answered.                      *)
LEMMA RemoveHeadKeeps ==
    ASSUME QueueInv, TypeOK', Serving, ~Serving', jobs' = Tail(jobs),
           UNCHANGED <<nextId, answers, alive>>,
           TurnIsHead', InFlightExact'
    PROVE  QueueInv'
<1> USE DEF QueueInv
<1>1. /\ Len(jobs) \in Nat /\ DOMAIN jobs = 1..Len(jobs) /\ 1 \in 1..Len(jobs)
      /\ \A i \in 1..Len(jobs) : jobs[i].id \in Nat
      /\ \A a \in 1..Len(answers) : answers[a].id \in Nat
      /\ Len(answers) \in Nat /\ DOMAIN answers = 1..Len(answers)
      /\ Len(answers) \in 1..Len(answers)
      /\ answers[Len(answers)].id = jobs[1].id
  BY IdFacts, EmptySeq DEF ServedHead, TypeOK
<1>2. /\ DOMAIN jobs' = 1..(Len(jobs) - 1) /\ Len(jobs') = Len(jobs) - 1
      /\ \A i \in 1..(Len(jobs) - 1) : jobs'[i] = jobs[i + 1]
  BY <1>1, HeadTailProperties, LenProperties DEF TypeOK
<1>3. IdsIncrease'
  <2>1. \A i \in DOMAIN jobs' : i + 1 \in 1..Len(jobs) /\ jobs'[i] = jobs[i + 1]
    BY <1>1, <1>2
  <2>2. \A i, j \in DOMAIN jobs' : i < j => jobs'[i].id < jobs'[j].id
    <3> SUFFICES ASSUME NEW i \in DOMAIN jobs', NEW j \in DOMAIN jobs', i < j
                 PROVE  jobs'[i].id < jobs'[j].id
      OBVIOUS
    <3>1. i + 1 \in DOMAIN jobs /\ j + 1 \in DOMAIN jobs /\ i + 1 < j + 1
      BY <1>1, <1>2
    <3>2. jobs[i + 1].id < jobs[j + 1].id
      BY <3>1 DEF IdsIncrease
    <3> QED BY <3>2, <2>1
  <2>3. \A i \in DOMAIN jobs' : jobs'[i].id < nextId'
    BY <2>1, <1>1 DEF IdsIncrease
  <2> QED BY <2>2, <2>3 DEF IdsIncrease
<1>4. \A a \in 1..Len(answers) : answers[a].id <= jobs[1].id
  BY <1>1 DEF AnswersInOrder
<1>5. \A i \in 1..(Len(jobs) - 1) : jobs[1].id < jobs[i + 1].id
  BY <1>1 DEF IdsIncrease
<1>6. AnsweredBehind'
  <2>1. \A a \in DOMAIN answers, i \in DOMAIN jobs' : answers[a].id < jobs'[i].id
    BY <1>1, <1>2, <1>4, <1>5
  <2> QED BY <2>1 DEF AnsweredBehind
<1>7. ServedHead' /\ AnswersMatch' /\ AnswersInOrder'
  BY DEF ServedHead, AnswersMatch, AnswersInOrder
<1>8. NoJobLost'
  <2> SUFFICES ASSUME alive, NEW m \in 1..(nextId - 1)
               PROVE  \/ \E i \in DOMAIN jobs' : jobs'[i].id = m
                      \/ \E i \in DOMAIN answers : answers[i].id = m
    BY DEF NoJobLost
  <2>1. CASE \E i \in DOMAIN answers : answers[i].id = m
    BY <2>1
  <2>2. ASSUME NEW i \in DOMAIN jobs, jobs[i].id = m
        PROVE  \/ \E j \in DOMAIN jobs' : jobs'[j].id = m
               \/ \E a \in DOMAIN answers : answers[a].id = m
    <3>1. CASE i = 1
      BY <3>1, <2>2, <1>1
    <3>2. CASE i # 1
      <4>1. i - 1 \in 1..(Len(jobs) - 1) /\ (i - 1) + 1 = i
        BY <3>2, <1>1
      <4> QED BY <4>1, <2>2, <1>2
    <3> QED BY <3>1, <3>2
  <2> QED BY <2>1, <2>2 DEF NoJobLost
<1> QED BY <1>3, <1>6, <1>7, <1>8

(* Every step preserves the invariant. *)
LEMMA QueueInvNext ==
    ASSUME DrainInFlight = FALSE, QueueInv, [Next]_vars
    PROVE  QueueInv'
<1>1. /\ jobs \in Seq(Job) /\ DOMAIN jobs = 1..Len(jobs) /\ Len(jobs) \in Nat
      /\ answers \in Seq([id : Ids, turn : Ids, status : Statuses])
      /\ jobs # <<>> => jobs[1].id \in Ids
  <2>1. jobs \in Seq(Job) /\ answers \in Seq([id : Ids, turn : Ids, status : Statuses])
    BY DEF QueueInv, TypeOK
  <2>2. jobs # <<>> => jobs[1] \in Job
    BY <2>1, EmptySeq, ElementOfSeq
  <2> QED BY <2>1, <2>2, LenProperties DEF Job
<1>2. ASSUME NEW k \in Keys, NEW c \in CancelModes, NEW l \in JobLimits, Enqueue(k, c, l)
      PROVE  QueueInv'
  BY <1>2, EnqueueKeeps
<1>3. ASSUME NEW k \in Keys, NEW c \in CancelModes, EnqueueNoMemory(k, c)
      PROVE  QueueInv'
  <2>1. /\ jobs' \in Seq(Job) /\ Len(jobs') = Len(jobs)
        /\ \A i \in 1..Len(jobs) : jobs'[i].id = jobs[i].id
    BY <1>1, <1>3, CancelMatchingKeeps DEF EnqueueNoMemory
  <2>2. TypeOK'
    BY <1>3, <2>1 DEF EnqueueNoMemory, QueueInv, TypeOK
  <2> QED BY <1>3, <2>1, <2>2, SameIdsKeep DEF EnqueueNoMemory
<1>4. CASE Schedule \/ RequestShutdown \/ UNCHANGED vars
  <2>1. TypeOK'
    BY <1>4 DEF Schedule, RequestShutdown, vars, QueueInv, TypeOK
  <2> QED BY <1>4, <2>1, SameIdsKeep DEF Schedule, RequestShutdown, vars
<1>5. CASE Task
  <2>1. /\ jobs' \in Seq(Job) /\ Len(jobs') = Len(jobs) /\ jobs # <<>> /\ jobs' # <<>>
        /\ \A i \in 1..Len(jobs) : jobs'[i].id = jobs[i].id
        /\ 1 \in 1..Len(jobs)
    BY <1>1, <1>5, ActivateHead, EmptySeq DEF Task
  <2>2. CASE ~jobs[1].cancelled
    <3>1. turn' = [id |-> jobs[1].id, buf |-> buf] /\ pc' = "idle" /\ answers' = answers
      BY <1>5, <2>2 DEF Task
    <3>2. turn' \in [id : 0..MaxJobs, buf : Nat] /\ turn' # NoTurn
      BY <1>1, <2>1, <3>1 DEF QueueInv, TypeOK, Ids, NoTurn
    <3>3. TypeOK'
      BY <1>5, <2>1, <3>1, <3>2 DEF Task, QueueInv, TypeOK
    <3>4. IdsIncrease' /\ AnsweredBehind' /\ NoJobLost'
      <4>1. DOMAIN jobs' = 1..Len(jobs) /\ UNCHANGED <<nextId, answers, alive>> /\ pc' = pc
        BY <1>1, <1>5, <2>1, <3>1, LenProperties DEF Task
      <4>2. IdsIncrease'
        BY <1>1, <2>1, <4>1 DEF QueueInv, IdsIncrease
      <4>3. AnsweredBehind'
        BY <1>1, <2>1, <4>1 DEF QueueInv, AnsweredBehind, Serving
      <4>4. NoJobLost'
        BY <1>1, <2>1, <4>1 DEF QueueInv, NoJobLost
      <4> QED BY <4>2, <4>3, <4>4
    <3>5. ServedHead' /\ TurnIsHead' /\ InFlightExact' /\ AnswersMatch' /\ AnswersInOrder'
      BY <1>5, <2>1, <3>1, <3>2
         DEF Task, QueueInv, ServedHead, TurnIsHead, InFlightExact, AnswersMatch,
             AnswersInOrder, Serving
    <3> QED BY <3>3, <3>4, <3>5 DEF QueueInv
  <2>3. CASE jobs[1].cancelled
    <3>1. PICK s \in TurnStatuses(TRUE) : answers' = Append(answers, Answer(jobs[1], jobs[1].id, s))
      BY <1>5, <2>3 DEF Task
    <3>2. s \in Statuses /\ Answer(jobs[1], jobs[1].id, s) \in [id : Ids, turn : Ids, status : Statuses]
      BY <1>1, <2>1 DEF TurnStatuses, Statuses, Answer
    <3>3. answers' \in Seq([id : Ids, turn : Ids, status : Statuses])
      BY <1>1, <3>1, <3>2, AppendProperties
    <3>4. turn' = NoTurn /\ pc' = "done_async" /\ inFlight' /\ inFlight' \in BOOLEAN /\ pc = "idle"
      BY <1>5, <2>3 DEF Task
    <3>5. turn' \in [id : 0..MaxJobs, buf : Nat]
      BY <3>4, ConstantsAssumption DEF NoTurn
    <3>6. TypeOK'
      BY <1>5, <2>1, <3>3, <3>4, <3>5 DEF Task, QueueInv, TypeOK, PCs
    <3>7. TurnIsHead' /\ InFlightExact' /\ Serving' /\ ~Serving
      BY <3>4 DEF TurnIsHead, InFlightExact, Serving
    <3>8. UNCHANGED <<nextId, alive>>
      BY <1>5 DEF Task
    <3> QED BY <1>1, <2>1, <3>1, <3>2, <3>6, <3>7, <3>8, AnswerHeadKeeps
  <2> QED BY <2>2, <2>3
<1>6. CASE TaskNoMemory
  <2>1. /\ jobs' \in Seq(Job) /\ Len(jobs') = Len(jobs)
        /\ \A i \in 1..Len(jobs) : jobs'[i].id = jobs[i].id
    BY <1>1, <1>6, ActivateHead DEF TaskNoMemory
  <2>2. inFlight' = inFlight
    BY <1>6 DEF TaskNoMemory, QueueInv, TypeOK
  <2>3. TypeOK'
    BY <1>6, <2>1, <2>2 DEF TaskNoMemory, QueueInv, TypeOK
  <2> QED BY <1>6, <2>1, <2>2, <2>3, SameIdsKeep DEF TaskNoMemory
<1>7. CASE TurnComplete
  <2>1. jobs # <<>> /\ turn.id = jobs[1].id
    BY <1>7 DEF TurnComplete, QueueInv, TurnIsHead
  <2>2. PICK seen \in CancelReads : \E s \in TurnStatuses(seen) :
            answers' = Append(answers, Answer(jobs[1], turn.id, s))
    BY <1>7, <2>1 DEF TurnComplete
  <2>3. PICK s \in TurnStatuses(seen) : answers' = Append(answers, Answer(jobs[1], turn.id, s))
    BY <2>2
  <2>4. s \in Statuses /\ Answer(jobs[1], turn.id, s) \in [id : Ids, turn : Ids, status : Statuses]
    BY <1>1, <2>1, <2>3 DEF TurnStatuses, Statuses, Answer
  <2>5. answers' \in Seq([id : Ids, turn : Ids, status : Statuses])
    BY <1>1, <2>3, <2>4, AppendProperties
  <2>6. turn' = NoTurn /\ pc' = "done_async" /\ pc = "idle" /\ inFlight' = inFlight
        /\ UNCHANGED <<jobs, nextId, alive>>
    BY <1>7 DEF TurnComplete
  <2>7. turn' \in [id : 0..MaxJobs, buf : Nat]
    BY <2>6, ConstantsAssumption DEF NoTurn
  <2>8. TypeOK'
    BY <1>7, <2>5, <2>6, <2>7 DEF TurnComplete, QueueInv, TypeOK, PCs
  <2>9. TurnIsHead' /\ InFlightExact' /\ Serving' /\ ~Serving
    BY <1>7, <2>6 DEF TurnComplete, QueueInv, TurnIsHead, InFlightExact, Serving
  <2>10. Len(jobs') = Len(jobs) /\ \A i \in 1..Len(jobs) : jobs'[i].id = jobs[i].id
    BY <2>6
  <2> QED BY <1>1, <2>1, <2>3, <2>4, <2>6, <2>8, <2>9, <2>10, AnswerHeadKeeps
<1>8. CASE AsyncRemove
  <2>1. jobs # <<>> /\ Serving
    BY <1>8 DEF AsyncRemove, QueueInv, ServedHead, Serving
  <2>2. jobs' = Tail(jobs) /\ pc' = "idle" /\ inFlight' = FALSE /\ turn' = turn
        /\ UNCHANGED <<nextId, answers, alive>>
    BY <1>8, <2>1 DEF AsyncRemove
  <2>3. turn = NoTurn
    BY <1>8 DEF AsyncRemove, QueueInv, TurnIsHead
  <2>4. jobs' \in Seq(Job) /\ Len(jobs') <= Len(jobs)
    BY <1>1, <2>1, <2>2, HeadTailProperties
  <2>5. TypeOK'
    <3>1. cap' = cap /\ cap' \in Nat /\ Len(jobs') <= cap'
      BY <1>1, <1>8, <2>4, LenProperties DEF AsyncRemove, QueueInv, TypeOK
    <3> QED BY <1>8, <2>2, <2>4, <3>1 DEF AsyncRemove, QueueInv, TypeOK, PCs
  <2>6. TurnIsHead' /\ InFlightExact' /\ ~Serving'
    BY <2>2, <2>3 DEF TurnIsHead, InFlightExact, Serving
  <2> QED BY <2>1, <2>2, <2>5, <2>6, RemoveHeadKeeps
<1>9. ASSUME NEW m \in DrainMax, Drain(m)
      PROVE  QueueInv'
  <2>1. turn = NoTurn /\ pc = "idle" /\ pc' = "drain" /\ UNCHANGED <<jobs, answers, nextId, turn, inFlight, alive>>
    BY <1>9 DEF Drain
  <2>2. left' \in Int /\ left' >= -1
    BY <1>9, ConstantsAssumption DEF Drain
  <2>3. TypeOK'
    BY <1>9, <2>1, <2>2 DEF Drain, QueueInv, TypeOK, PCs
  <2> QED BY <2>1, <2>3 DEF QueueInv, IdsIncrease, AnsweredBehind, ServedHead, TurnIsHead,
             AnswersMatch, AnswersInOrder, NoJobLost, InFlightExact, Serving
<1>10. CASE DrainTurn
  <2>1. jobs # <<>> /\ turn = NoTurn
    BY <1>10 DEF DrainTurn, QueueInv, TurnIsHead
  <2>2. PICK s \in TurnStatuses(jobs[1].cancelled) :
            answers' = Append(answers, Answer(jobs[1], jobs[1].id, s))
    BY <1>10 DEF DrainTurn
  <2>3. s \in Statuses /\ Answer(jobs[1], jobs[1].id, s) \in [id : Ids, turn : Ids, status : Statuses]
    BY <1>1, <2>1, <2>2 DEF TurnStatuses, Statuses, Answer
  <2>4. answers' \in Seq([id : Ids, turn : Ids, status : Statuses])
    BY <1>1, <2>2, <2>3, AppendProperties
  <2>5. pc' = "done_drain" /\ pc = "drain" /\ UNCHANGED <<jobs, nextId, alive, turn, inFlight>>
        /\ drainOk' \in BOOLEAN
    BY <1>10 DEF DrainTurn
  <2>6. TypeOK'
    BY <1>10, <2>4, <2>5 DEF DrainTurn, QueueInv, TypeOK, PCs
  <2>7. TurnIsHead' /\ InFlightExact' /\ Serving' /\ ~Serving
    BY <2>1, <2>5 DEF QueueInv, TurnIsHead, InFlightExact, Serving
  <2>8. Len(jobs') = Len(jobs) /\ \A i \in 1..Len(jobs) : jobs'[i].id = jobs[i].id
    BY <2>5
  <2> QED BY <1>1, <2>1, <2>2, <2>3, <2>5, <2>6, <2>7, <2>8, AnswerHeadKeeps
<1>11. CASE DrainRemove
  <2>1. jobs # <<>> /\ Serving /\ turn = NoTurn
    BY <1>11 DEF DrainRemove, QueueInv, ServedHead, Serving, TurnIsHead
  <2>2. jobs' = Tail(jobs) /\ pc' \in {"drain", "idle"} /\ pc = "done_drain"
        /\ UNCHANGED <<nextId, answers, alive, turn, inFlight>> /\ drainOk' = TRUE
    BY <1>11 DEF DrainRemove
  <2>3. jobs' \in Seq(Job) /\ Len(jobs') <= Len(jobs)
    BY <1>1, <2>1, <2>2, HeadTailProperties
  <2>4. left' \in Int /\ left' >= -1
    BY <1>11 DEF DrainRemove, QueueInv, TypeOK
  <2>5. TypeOK'
    <3>1. cap' = cap /\ cap' \in Nat /\ Len(jobs') <= cap'
      BY <1>1, <1>11, <2>3, LenProperties DEF DrainRemove, QueueInv, TypeOK
    <3> QED BY <1>11, <2>2, <2>3, <2>4, <3>1 DEF DrainRemove, QueueInv, TypeOK, PCs
  <2>6. TurnIsHead' /\ InFlightExact' /\ ~Serving'
    BY <2>1, <2>2 DEF QueueInv, TurnIsHead, InFlightExact, Serving
  <2> QED BY <2>1, <2>2, <2>5, <2>6, RemoveHeadKeeps
<1>12. CASE DrainReturn
  <2>1. pc = "drain" /\ pc' = "idle" /\ UNCHANGED <<jobs, answers, nextId, turn, inFlight, alive>>
    BY <1>12 DEF DrainReturn
  <2>2. TypeOK'
    BY <1>12, <2>1 DEF DrainReturn, QueueInv, TypeOK, PCs
  <2> QED BY <2>1, <2>2 DEF QueueInv, IdsIncrease, AnsweredBehind, ServedHead, TurnIsHead,
             AnswersMatch, AnswersInOrder, NoJobLost, InFlightExact, Serving
<1>13. CASE Destroy
  <2>1. jobs' = <<>> /\ jobs' \in Seq(Job) /\ Len(jobs') = 0 /\ DOMAIN jobs' = {}
    BY <1>13, EmptySeq DEF Destroy
  <2>2. alive' = FALSE /\ pc' = "idle" /\ turn' = NoTurn /\ cap' = 0
        /\ UNCHANGED <<answers, nextId>>
    BY <1>13 DEF Destroy
  <2>3. TypeOK'
    <3>1. cap' \in Nat /\ Len(jobs') <= cap'
      BY <2>1, <2>2
    <3> QED BY <1>13, <2>1, <2>2, <3>1 DEF Destroy, QueueInv, TypeOK
  <2> QED BY <2>1, <2>2, <2>3 DEF QueueInv, IdsIncrease, AnsweredBehind, ServedHead, TurnIsHead,
             AnswersMatch, AnswersInOrder, NoJobLost, InFlightExact, Serving
<1> QED BY <1>2, <1>3, <1>4, <1>5, <1>6, <1>7, <1>8, <1>9, <1>10, <1>11, <1>12, <1>13 DEF Next

(* The queue's state stays well-typed, every done callback gets the result  *)
(* of its own job, jobs are answered at most once and in the order they     *)
(* were accepted, none is lost before the queue is destroyed, and in_flight *)
(* is set exactly while a turn runs or is being answered: for callers that  *)
(* do not drain while an asynchronous turn runs.                            *)
THEOREM QueueCorrect ==
    ASSUME DrainInFlight = FALSE
    PROVE  Spec => []QueueSound
<1>1. Init => QueueInv
  BY QueueInvInit
<1>2. QueueInv /\ [Next]_vars => QueueInv'
  BY QueueInvNext
<1>3. QueueInv => QueueSound
  BY DEF QueueInv, QueueSound
<1> QED BY <1>1, <1>2, <1>3, PTL DEF Spec

-----------------------------------------------------------------------------
(* The job whose turn runs is marked active, which is what the turn's look  *)
(* at its own token goes through.                                           *)
HeadActive == turn # NoTurn => jobs[1].active

LEMMA CancelMatchingActive ==
    ASSUME NEW q \in Seq(Job), NEW key, q # <<>>
    PROVE  CancelMatching(q, key)[1].active = q[1].active
<1>1. 1 \in DOMAIN q /\ q[1] \in Job
  BY EmptySeq, LenProperties, ElementOfSeq
<1>2. CancelMatching(q, key)[1]
        = [q[1] EXCEPT !.cancelled = IF Matches(q[1], key) THEN TRUE ELSE q[1].cancelled]
  BY <1>1 DEF CancelMatching
<1> HIDE DEF CancelMatching
<1> QED BY <1>1, <1>2 DEF Job

LEMMA HeadActiveNext ==
    ASSUME QueueInv, HeadActive, [Next]_vars
    PROVE  HeadActive'
<1> USE DEF HeadActive
<1>1. jobs \in Seq(Job) /\ (turn # NoTurn => jobs # <<>> /\ pc = "idle")
  BY DEF QueueInv, TypeOK, TurnIsHead
<1>2. ASSUME NEW k \in Keys, NEW c \in CancelModes, NEW l \in JobLimits, Enqueue(k, c, l)
      PROVE  HeadActive'
  <2> DEFINE q == IF c THEN CancelMatching(jobs, k) ELSE jobs
             n == NewJob(q, nextId, k, c, l)
  <2> SUFFICES ASSUME turn # NoTurn PROVE jobs'[1].active
    BY <1>2 DEF Enqueue
  <2>1. q \in Seq(Job) /\ Len(q) = Len(jobs) /\ q[1].active = jobs[1].active
    BY <1>1, CancelMatchingKeeps, CancelMatchingActive
  <2>2. 1 \in 1..Len(q)
    BY <1>1, <2>1, EmptySeq, LenProperties
  <2> HIDE DEF q
  <2>3. n \in Job
    <3>1. nextId \in Ids /\ c \in BOOLEAN /\ l \in Nat
      BY <1>2, ConstantsAssumption DEF Enqueue, QueueInv, TypeOK, Ids
    <3> QED BY <2>1, <3>1, NewJobType
  <2> HIDE DEF n
  <2>4. jobs' = Append(q, n)
    BY <1>2 DEF Enqueue, q, n
  <2> QED BY <2>1, <2>2, <2>3, <2>4, AppendProperties
<1>3. ASSUME NEW k \in Keys, NEW c \in CancelModes, EnqueueNoMemory(k, c)
      PROVE  HeadActive'
  BY <1>1, <1>3, CancelMatchingActive DEF EnqueueNoMemory
<1>4. CASE Schedule \/ RequestShutdown \/ UNCHANGED vars \/ DrainTurn \/ DrainReturn
  BY <1>4 DEF Schedule, RequestShutdown, vars, DrainTurn, DrainReturn
<1>5. CASE Task \/ TaskNoMemory
  <2>1. jobs # <<>> /\ jobs' = [jobs EXCEPT ![1].active = TRUE]
    BY <1>5 DEF Task, TaskNoMemory
  <2>2. 1 \in DOMAIN jobs /\ jobs[1] \in Job
    BY <1>1, <2>1, EmptySeq, LenProperties, ElementOfSeq
  <2>3. jobs'[1] = [jobs[1] EXCEPT !.active = TRUE]
    BY <2>1, <2>2
  <2> QED BY <2>2, <2>3 DEF Job
<1>6. CASE TurnComplete \/ Destroy
  BY <1>6 DEF TurnComplete, Destroy
<1>7. CASE AsyncRemove \/ DrainRemove
  BY <1>1, <1>7 DEF AsyncRemove, DrainRemove
<1>8. ASSUME NEW m \in DrainMax, Drain(m)
      PROVE  HeadActive'
  BY <1>8 DEF Drain
<1> QED BY <1>2, <1>3, <1>4, <1>5, <1>6, <1>7, <1>8 DEF Next

(* As long as the vector has not moved under a turn, a cancelled turn never *)
(* completes "ok": the flag that enqueue sets in the head job is the one    *)
(* the turn reads (turn_cancel_requested), for callers that do not drain    *)
(* while an asynchronous turn runs.                                         *)
THEOREM CancelReachesUnmovedHolds ==
    ASSUME DrainInFlight = FALSE
    PROVE  Spec => CancelReachesUnmoved
<1>1. Init => QueueInv /\ HeadActive
  BY QueueInvInit DEF Init, HeadActive
<1>2. QueueInv /\ HeadActive /\ [Next]_vars => (QueueInv /\ HeadActive)'
  BY QueueInvNext, HeadActiveNext
<1>3. ASSUME QueueInv, HeadActive, [Next]_vars
      PROVE  [(answers' # answers /\ jobs # <<>> /\ jobs[1].cancelled
                 /\ (turn = NoTurn \/ turn.buf = buf))
                 => answers'[Len(answers')].status # "ok"]_vars
  <2> SUFFICES ASSUME answers' # answers, jobs # <<>>, jobs[1].cancelled,
                      turn = NoTurn \/ turn.buf = buf
               PROVE  answers'[Len(answers')].status # "ok"
    OBVIOUS
  <2>1. answers \in Seq([id : Ids, turn : Ids, status : Statuses])
    BY <1>3 DEF QueueInv, TypeOK
  <2>2. jobs[1].id \in Ids /\ jobs[1].cancelled = TRUE
    <3>1. jobs \in Seq(Job)
      BY <1>3 DEF QueueInv, TypeOK
    <3>2. jobs[1] \in Job
      BY <3>1, EmptySeq, LenProperties, ElementOfSeq
    <3> QED BY <3>2 DEF Job
  <2>3. \E s \in {"cancelled", "error"} : answers' = Append(answers, Answer(jobs[1], jobs[1].id, s))
    <3>1. CASE Task
      BY <3>1 DEF Task, TurnStatuses
    <3>2. CASE TurnComplete
      <4>1. turn # NoTurn /\ turn.buf = buf /\ turn.id = jobs[1].id
        BY <1>3, <3>2 DEF TurnComplete, QueueInv, TurnIsHead
      <4>2. CancelReads = {jobs[1].active /\ jobs[1].cancelled}
        BY <4>1 DEF CancelReads
      <4>3. jobs[1].active /\ jobs[1].cancelled
        BY <1>3, <4>1 DEF HeadActive
      <4>4. \A seen \in CancelReads : TurnStatuses(seen) = {"cancelled", "error"}
        BY <4>2, <4>3 DEF TurnStatuses
      <4> QED BY <3>2, <4>1, <4>4 DEF TurnComplete
    <3>3. CASE DrainTurn
      BY <3>3, <2>2 DEF DrainTurn, TurnStatuses
    <3> QED
      BY <1>3, <3>1, <3>2, <3>3 DEF Next, vars, Enqueue, EnqueueNoMemory, Schedule, TaskNoMemory,
         AsyncRemove, Drain, DrainRemove, DrainReturn, RequestShutdown, Destroy
  <2>4. PICK s \in {"cancelled", "error"} : answers' = Append(answers, Answer(jobs[1], jobs[1].id, s))
    BY <2>3
  <2>5. Answer(jobs[1], jobs[1].id, s) \in [id : Ids, turn : Ids, status : Statuses]
        /\ Answer(jobs[1], jobs[1].id, s).status # "ok"
    BY <2>2, <2>4 DEF Answer, Statuses
  <2>6. answers'[Len(answers')] = Answer(jobs[1], jobs[1].id, s)
    BY <2>1, <2>4, <2>5, AppendProperties
  <2> QED BY <2>5, <2>6
<1> QED BY <1>1, <1>2, <1>3, PTL DEF Spec, CancelReachesUnmoved
-----------------------------------------------------------------------------
(* Windows of consecutive inputs.  The inductive invariant says of every    *)
(* queued job that its window is sound and, because a later enqueue of the  *)
(* same session copies it, that everything in it was accepted before.       *)

Increasing(w) == \A m, n \in DOMAIN w : m < n => w[m] < w[n]

WindowInv ==
    \A i \in DOMAIN jobs :
        /\ jobs[i].window # <<>> /\ jobs[i].window[Len(jobs[i].window)] = jobs[i].id
        /\ Len(jobs[i].window) <= jobs[i].limit
        /\ Increasing(jobs[i].window)
        /\ \A n \in DOMAIN jobs[i].window : jobs[i].window[n] < nextId
        /\ \A j \in DOMAIN jobs, n \in DOMAIN jobs[i].window :
               jobs[i].window[n] = jobs[j].id => jobs[j].key = jobs[i].key

(* Trimming keeps the latest inputs: the last one, the order, and nothing   *)
(* that was not there before.                                               *)
LEMMA TrimKeeps ==
    ASSUME NEW w \in Seq(Ids), NEW l \in Nat \ {0}, w # <<>>, Increasing(w)
    PROVE  /\ Trim(w, l) # <<>> /\ Len(Trim(w, l)) <= l
           /\ Trim(w, l)[Len(Trim(w, l))] = w[Len(w)]
           /\ Increasing(Trim(w, l))
           /\ \A n \in DOMAIN Trim(w, l) : \E m \in DOMAIN w : Trim(w, l)[n] = w[m]
<1>1. Len(w) \in Nat \ {0} /\ DOMAIN w = 1..Len(w)
  BY LenProperties, EmptySeq
<1>2. CASE Len(w) <= l
  BY <1>1, <1>2 DEF Trim
<1>3. CASE Len(w) > l
  <2> DEFINE t == Trim(w, l)
             d == Len(w) - l
  <2>1. t = SubSeq(w, d + 1, Len(w)) /\ d \in Nat /\ d + 1 \in 1..Len(w) /\ Len(w) \in 1..Len(w)
    BY <1>1, <1>3 DEF Trim
  <2>2. /\ t \in Seq(Ids) /\ Len(t) = l
        /\ \A n \in 1..l : t[n] = w[n + d]
    <3>1. \A n \in (d + 1)..Len(w) : w[n] \in Ids
      BY <1>1, <2>1, ElementOfSeq
    <3>2. /\ t \in Seq(Ids)
          /\ Len(t) = Len(w) - (d + 1) + 1
          /\ \A n \in 1..(Len(w) - (d + 1) + 1) : t[n] = w[(d + 1) + n - 1]
      <4> HIDE DEF t, d
      <4> QED BY <1>1, <2>1, <3>1, SubSeqProperties
    <3>3. Len(w) - (d + 1) + 1 = l /\ \A n \in 1..l : (d + 1) + n - 1 = n + d
      BY <1>1
    <3> HIDE DEF t, d
    <3> QED BY <3>2, <3>3
  <2>3. DOMAIN t = 1..l /\ l \in 1..l /\ l + d = Len(w)
    BY <1>1, <2>2, LenProperties
  <2>4. \A n \in 1..l : n + d \in 1..Len(w)
    BY <1>1, <1>3
  <2> HIDE DEF t, d
  <2>5. t # <<>> /\ Len(t) <= l /\ t[Len(t)] = w[Len(w)]
    BY <2>2, <2>3, EmptySeq
  <2>6. ASSUME NEW m \in DOMAIN t, NEW n \in DOMAIN t, m < n
        PROVE  t[m] < t[n]
    <3>1. m + d \in DOMAIN w /\ n + d \in DOMAIN w /\ m + d < n + d
      <4>1. m \in 1..l /\ n \in 1..l
        BY <2>3
      <4> QED BY <4>1, <1>1, <2>1, <2>4, <2>6
    <3> QED BY <2>2, <2>3, <3>1 DEF Increasing
  <2>7. \A n \in DOMAIN t : \E m \in DOMAIN w : t[n] = w[m]
    BY <1>1, <2>2, <2>3, <2>4
  <2> QED BY <2>5, <2>6, <2>7 DEF Increasing, t
<1> QED BY <1>1, <1>2, <1>3

(* The window that enqueue gives a new job: sound, and made of the new      *)
(* job's input and inputs of a queued job of the same session.              *)
LEMMA NewWindow ==
    ASSUME QueueInv, WindowInv, NEW q \in Seq(Job), Len(q) = Len(jobs),
           \A i \in 1..Len(jobs) : /\ q[i].id = jobs[i].id /\ q[i].key = jobs[i].key
                                   /\ q[i].window = jobs[i].window,
           NEW k \in Keys, NEW c \in BOOLEAN, NEW l \in Nat, nextId \in Ids
    PROVE  LET n == NewJob(q, nextId, k, c, l)
           IN  /\ n.id = nextId /\ n.key = k
               /\ n.window # <<>> /\ n.window[Len(n.window)] = nextId
               /\ Len(n.window) <= n.limit
               /\ Increasing(n.window)
               /\ \A x \in DOMAIN n.window :
                     \/ n.window[x] = nextId
                     \/ \E i \in DOMAIN jobs : /\ jobs[i].key = k
                                               /\ \E y \in DOMAIN jobs[i].window :
                                                     n.window[x] = jobs[i].window[y]
<1> DEFINE old == IF c THEN LatestWindow(q, k) ELSE <<>>
           full == Append(old, nextId)
           n == NewJob(q, nextId, k, c, l)
<1>1. old \in Seq(Ids) /\ Len(old) \in Nat /\ DOMAIN old = 1..Len(old)
  BY LatestWindowType, EmptySeq, LenProperties
<1>2. /\ Len(jobs) \in Nat /\ DOMAIN jobs = 1..Len(jobs) /\ DOMAIN q = 1..Len(jobs)
      /\ \A i \in 1..Len(jobs) : jobs[i].window \in Seq(Ids)
  <2>1. jobs \in Seq(Job)
    BY DEF QueueInv, TypeOK
  <2>2. \A i \in 1..Len(jobs) : jobs[i] \in Job
    BY <2>1, ElementOfSeq
  <2> QED BY <2>1, <2>2, LenProperties DEF Job
<1>3. old # <<>> => \E i \in DOMAIN jobs : jobs[i].key = k /\ old = jobs[i].window
  <2> SUFFICES ASSUME old # <<>> PROVE \E i \in DOMAIN jobs : jobs[i].key = k /\ old = jobs[i].window
    OBVIOUS
  <2>1. MatchingSlots(q, k) # {} /\ old = q[Max(MatchingSlots(q, k))].window
    BY DEF LatestWindow
  <2>2. MatchingSlots(q, k) \in SUBSET (1..Len(jobs))
    BY <1>2 DEF MatchingSlots
  <2>3. Max(MatchingSlots(q, k)) \in MatchingSlots(q, k)
    BY <1>2, <2>1, <2>2, LastSlot
  <2> QED BY <1>2, <2>1, <2>3 DEF MatchingSlots, Matches
<1>4. Increasing(old) /\ \A x \in DOMAIN old : old[x] < nextId /\ old[x] \in Nat
  <2>1. \A x \in DOMAIN old : old[x] \in Nat
    <3> HIDE DEF old
    <3>1. \A x \in 1..Len(old) : old[x] \in Ids
      BY <1>1, ElementOfSeq
    <3> QED BY <1>1, <3>1 DEF Ids
  <2>2. CASE old = <<>>
    BY <2>2, EmptySeq DEF Increasing
  <2>3. CASE old # <<>>
    <3> HIDE DEF old
    <3> QED BY <1>3, <2>1, <2>3 DEF WindowInv
  <2> QED BY <2>2, <2>3
<1> HIDE DEF old
<1>5. /\ full \in Seq(Ids) /\ Len(full) = Len(old) + 1 /\ full # <<>>
      /\ DOMAIN full = 1..(Len(old) + 1)
      /\ full[Len(old) + 1] = nextId
      /\ \A x \in 1..Len(old) : full[x] = old[x]
  BY <1>1, AppendProperties, LenProperties, EmptySeq
<1> HIDE DEF full
<1>6. Increasing(full)
  <2> SUFFICES ASSUME NEW x \in DOMAIN full, NEW y \in DOMAIN full, x < y
               PROVE  full[x] < full[y]
    BY DEF Increasing
  <2>1. x \in 1..Len(old)
    BY <1>1, <1>5
  <2>2. CASE y \in 1..Len(old)
    BY <1>1, <1>4, <1>5, <2>1, <2>2 DEF Increasing
  <2>3. CASE y = Len(old) + 1
    BY <1>1, <1>4, <1>5, <2>1, <2>3
  <2> QED BY <1>1, <1>5, <2>2, <2>3
<1> DEFINE w == Trim(full, JobLimit(l))
<1>7. n = [id |-> nextId, key |-> k, cancelled |-> FALSE, active |-> FALSE,
           limit |-> JobLimit(l), window |-> w]
  BY DEF NewJob, full, old
<1>8. n.id = nextId /\ n.key = k /\ n.window = w /\ n.limit = JobLimit(l)
  BY <1>7
<1>9. /\ w # <<>> /\ Len(w) <= JobLimit(l) /\ w[Len(w)] = full[Len(full)] /\ Increasing(w)
      /\ \A x \in DOMAIN w : \E m \in DOMAIN full : w[x] = full[m]
  BY <1>5, <1>6, JobLimitPositive, TrimKeeps
<1> HIDE DEF n, w
<1>10. \A x \in DOMAIN w : \/ w[x] = nextId
                          \/ \E i \in DOMAIN jobs : /\ jobs[i].key = k
                                                    /\ \E y \in DOMAIN jobs[i].window : w[x] = jobs[i].window[y]
  <2> SUFFICES ASSUME NEW x \in DOMAIN w, w[x] # nextId
               PROVE  \E i \in DOMAIN jobs : /\ jobs[i].key = k
                                             /\ \E y \in DOMAIN jobs[i].window : w[x] = jobs[i].window[y]
    OBVIOUS
  <2>1. PICK m \in DOMAIN full : w[x] = full[m]
    BY <1>9
  <2>2. m \in DOMAIN old /\ w[x] = old[m]
    BY <1>1, <1>5, <2>1
  <2>3. old # <<>>
    BY <2>2, EmptySeq
  <2> QED BY <1>3, <2>2, <2>3
<1> QED BY <1>5, <1>8, <1>9, <1>10 DEF n

(* enqueue: the new job's window, and the windows of the jobs before it,    *)
(* which cannot name the new job.                                           *)
LEMMA EnqueueKeepsWindows ==
    ASSUME QueueInv, WindowInv, NEW k \in Keys, NEW c \in CancelModes, NEW l \in JobLimits,
           Enqueue(k, c, l)
    PROVE  WindowInv'
<1> DEFINE q == IF c THEN CancelMatching(jobs, k) ELSE jobs
           n == NewJob(q, nextId, k, c, l)
<1>1. /\ jobs \in Seq(Job) /\ nextId \in Ids /\ l \in Nat /\ c \in BOOLEAN
      /\ Len(jobs) \in Nat /\ DOMAIN jobs = 1..Len(jobs)
      /\ \A i \in 1..Len(jobs) : jobs[i].id < nextId /\ jobs[i].id \in Nat
  BY ConstantsAssumption, IdFacts DEF Enqueue, QueueInv, TypeOK, Ids, IdsIncrease
<1>2. /\ q \in Seq(Job) /\ Len(q) = Len(jobs)
      /\ \A i \in 1..Len(jobs) : /\ q[i].id = jobs[i].id /\ q[i].key = jobs[i].key
                                 /\ q[i].window = jobs[i].window /\ q[i].limit = jobs[i].limit
  BY <1>1, CancelMatchingKeeps
<1> HIDE DEF q
<1>3. n \in Job
  BY <1>1, <1>2, NewJobType
<1>4. /\ n.id = nextId /\ n.key = k
      /\ n.window # <<>> /\ n.window[Len(n.window)] = nextId
      /\ Len(n.window) <= n.limit
      /\ Increasing(n.window)
      /\ \A x \in DOMAIN n.window :
            \/ n.window[x] = nextId
            \/ \E i \in DOMAIN jobs : /\ jobs[i].key = k
                                      /\ \E y \in DOMAIN jobs[i].window : n.window[x] = jobs[i].window[y]
  BY <1>1, <1>2, NewWindow
<1> HIDE DEF n
<1>5. jobs' = Append(q, n) /\ nextId' = nextId + 1
  BY DEF Enqueue, q, n
<1>6. /\ DOMAIN jobs' = 1..(Len(jobs) + 1)
      /\ jobs'[Len(jobs) + 1] = n
      /\ \A i \in 1..Len(jobs) : /\ jobs'[i].id = jobs[i].id /\ jobs'[i].key = jobs[i].key
                                 /\ jobs'[i].window = jobs[i].window /\ jobs'[i].limit = jobs[i].limit
  BY <1>1, <1>2, <1>3, <1>5, AppendProperties, LenProperties
<1>7. ASSUME NEW x \in DOMAIN n.window
      PROVE  n.window[x] < nextId + 1
  <2>1. CASE n.window[x] = nextId
    BY <1>1, <2>1 DEF Ids
  <2>2. ASSUME NEW i \in DOMAIN jobs, NEW y \in DOMAIN jobs[i].window, n.window[x] = jobs[i].window[y]
        PROVE  n.window[x] < nextId + 1
    <3>1. n.window[x] < nextId
      BY <2>2 DEF WindowInv
    <3>2. n.window \in Seq(Ids)
      BY <1>3 DEF Job
    <3>3. n.window[x] \in Ids
      BY <3>2, LenProperties, ElementOfSeq
    <3> QED BY <1>1, <3>1, <3>3 DEF Ids
  <2> QED BY <1>4, <2>1, <2>2
<1>8. \A j \in 1..(Len(jobs) + 1), x \in DOMAIN n.window :
          n.window[x] = jobs'[j].id => jobs'[j].key = k
  <2> SUFFICES ASSUME NEW j \in 1..(Len(jobs) + 1), NEW x \in DOMAIN n.window,
                      n.window[x] = jobs'[j].id, j # Len(jobs) + 1
               PROVE  jobs'[j].key = k
    BY <1>4, <1>6
  <2>1. j \in 1..Len(jobs) /\ n.window[x] = jobs[j].id /\ n.window[x] # nextId
    BY <1>1, <1>6 DEF Ids
  <2>2. PICK i \in DOMAIN jobs : /\ jobs[i].key = k
                                 /\ \E y \in DOMAIN jobs[i].window : n.window[x] = jobs[i].window[y]
    BY <1>4, <2>1
  <2>3. jobs[j].key = jobs[i].key
    BY <1>1, <2>1, <2>2 DEF WindowInv
  <2> QED BY <1>6, <2>1, <2>2, <2>3
<1>9. ASSUME NEW i \in 1..Len(jobs)
      PROVE  /\ \A x \in DOMAIN jobs[i].window : jobs[i].window[x] < nextId + 1
             /\ \A j \in 1..(Len(jobs) + 1), x \in DOMAIN jobs[i].window :
                    jobs[i].window[x] = jobs'[j].id => jobs'[j].key = jobs[i].key
  <2>1. \A x \in DOMAIN jobs[i].window : jobs[i].window[x] < nextId /\ jobs[i].window[x] \in Nat
    <3>1. jobs[i].window \in Seq(Ids)
      <4>1. jobs[i] \in Job
        BY <1>1, ElementOfSeq
      <4> QED BY <4>1 DEF Job
    <3>2. \A x \in DOMAIN jobs[i].window : jobs[i].window[x] \in Ids
      BY <3>1, LenProperties, ElementOfSeq
    <3> QED BY <1>1, <3>2 DEF WindowInv, Ids
  <2>2. \A j \in 1..Len(jobs), x \in DOMAIN jobs[i].window :
            jobs[i].window[x] = jobs[j].id => jobs[j].key = jobs[i].key
    BY <1>1 DEF WindowInv
  <2>3. ASSUME NEW j \in 1..(Len(jobs) + 1), NEW x \in DOMAIN jobs[i].window,
               jobs[i].window[x] = jobs'[j].id
        PROVE  jobs'[j].key = jobs[i].key
    <3>1. j # Len(jobs) + 1
      BY <1>1, <1>4, <1>6, <2>1, <2>3 DEF Ids
    <3>2. j \in 1..Len(jobs)
      BY <1>1, <3>1
    <3> QED BY <1>6, <2>2, <2>3, <3>2
  <2>4. \A x \in DOMAIN jobs[i].window : jobs[i].window[x] < nextId + 1
    BY <1>1, <2>1 DEF Ids
  <2> QED BY <2>3, <2>4
<1>10. ASSUME NEW i \in DOMAIN jobs'
       PROVE  /\ jobs'[i].window # <<>> /\ jobs'[i].window[Len(jobs'[i].window)] = jobs'[i].id
              /\ Len(jobs'[i].window) <= jobs'[i].limit
              /\ Increasing(jobs'[i].window)
              /\ \A x \in DOMAIN jobs'[i].window : jobs'[i].window[x] < nextId'
              /\ \A j \in DOMAIN jobs', x \in DOMAIN jobs'[i].window :
                     jobs'[i].window[x] = jobs'[j].id => jobs'[j].key = jobs'[i].key
  <2>1. CASE i \in 1..Len(jobs)
    <3>1. /\ jobs[i].window # <<>> /\ jobs[i].window[Len(jobs[i].window)] = jobs[i].id
          /\ Len(jobs[i].window) <= jobs[i].limit /\ Increasing(jobs[i].window)
      BY <1>1, <2>1 DEF WindowInv
    <3> QED BY <1>5, <1>6, <1>9, <2>1, <3>1
  <2>2. CASE i = Len(jobs) + 1
    BY <1>4, <1>5, <1>6, <1>7, <1>8, <2>2
  <2> QED BY <1>1, <1>6, <2>1, <2>2
<1> QED BY <1>10 DEF WindowInv, Increasing

(* Steps that leave each job's id, session and window where they are, and   *)
(* those that take the head, or every job, away.                            *)
LEMMA SameWindowsKeep ==
    ASSUME QueueInv, WindowInv, jobs' \in Seq(Job), Len(jobs') = Len(jobs), nextId' = nextId,
           \A i \in 1..Len(jobs) : /\ jobs'[i].id = jobs[i].id /\ jobs'[i].key = jobs[i].key
                                   /\ jobs'[i].window = jobs[i].window /\ jobs'[i].limit = jobs[i].limit
    PROVE  WindowInv'
<1>1. DOMAIN jobs = 1..Len(jobs) /\ DOMAIN jobs' = 1..Len(jobs)
  BY LenProperties DEF QueueInv, TypeOK
<1> QED BY <1>1 DEF WindowInv, Increasing

LEMMA TailKeepsWindows ==
    ASSUME QueueInv, WindowInv, jobs # <<>>, jobs' = Tail(jobs), nextId' = nextId
    PROVE  WindowInv'
<1>1. /\ Len(jobs) \in Nat /\ DOMAIN jobs = 1..Len(jobs) /\ DOMAIN jobs' = 1..(Len(jobs) - 1)
      /\ \A i \in 1..(Len(jobs) - 1) : jobs'[i] = jobs[i + 1] /\ i + 1 \in 1..Len(jobs)
  BY IdFacts, HeadTailProperties, LenProperties DEF QueueInv, TypeOK
<1> QED BY <1>1 DEF WindowInv, Increasing

LEMMA WindowInvNext ==
    ASSUME QueueInv, WindowInv, [Next]_vars
    PROVE  WindowInv'
<1>1. jobs \in Seq(Job)
  BY DEF QueueInv, TypeOK
<1>2. ASSUME NEW k \in Keys, NEW c \in CancelModes, NEW l \in JobLimits, Enqueue(k, c, l)
      PROVE  WindowInv'
  BY <1>2, EnqueueKeepsWindows
<1>3. ASSUME NEW k \in Keys, NEW c \in CancelModes, EnqueueNoMemory(k, c)
      PROVE  WindowInv'
  BY <1>1, <1>3, CancelMatchingKeeps, SameWindowsKeep DEF EnqueueNoMemory
<1>4. CASE Task \/ TaskNoMemory
  <2>1. jobs # <<>> /\ jobs' = [jobs EXCEPT ![1].active = TRUE] /\ nextId' = nextId
    BY <1>4 DEF Task, TaskNoMemory
  <2> QED BY <1>1, <2>1, ActivateHead, SameWindowsKeep
<1>5. CASE AsyncRemove \/ DrainRemove
  <2>1. jobs # <<>> /\ jobs' = Tail(jobs) /\ nextId' = nextId
    BY <1>5 DEF AsyncRemove, DrainRemove, QueueInv, ServedHead, Serving
  <2> QED BY <2>1, TailKeepsWindows
<1>6. CASE Destroy
  <2>1. jobs' = <<>>
    BY <1>6 DEF Destroy
  <2>2. DOMAIN jobs' = {}
    BY <2>1
  <2> QED BY <2>2 DEF WindowInv
<1>7. CASE jobs' = jobs /\ nextId' = nextId
  BY <1>7 DEF WindowInv, Increasing
<1>8. CASE Schedule \/ TurnComplete \/ DrainTurn \/ DrainReturn \/ RequestShutdown \/ UNCHANGED vars
  BY <1>7, <1>8 DEF Schedule, TurnComplete, DrainTurn, DrainReturn, RequestShutdown, vars
<1>9. ASSUME NEW m \in DrainMax, Drain(m)
      PROVE  WindowInv'
  BY <1>7, <1>9 DEF Drain
<1> QED BY <1>2, <1>3, <1>4, <1>5, <1>6, <1>8, <1>9 DEF Next

(* The window of consecutive inputs that a turn is given ends with the      *)
(* job's own input, is in arrival order, is no longer than the job's limit  *)
(* and holds no input of another session or thread that is queued with it   *)
(* (sc_runtime_turn_queue_enqueue, queued_turn_trim_message_window), for     *)
(* callers that do not drain while an asynchronous turn runs.               *)
THEOREM WindowCorrect ==
    ASSUME DrainInFlight = FALSE
    PROVE  Spec => []WindowSound
<1>1. Init => QueueInv /\ WindowInv
  <2>1. Init => WindowInv
    BY DEF Init, WindowInv
  <2> QED BY <2>1, QueueInvInit
<1>2. QueueInv /\ WindowInv /\ [Next]_vars => (QueueInv /\ WindowInv)'
  BY QueueInvNext, WindowInvNext
<1>3. WindowInv => WindowSound
  BY DEF WindowInv, WindowSound, Increasing
<1> QED BY <1>1, <1>2, <1>3, PTL DEF Spec

-----------------------------------------------------------------------------
(***************************************************************************)
(* The turn queue implements the mailbox, for every set of sessions, every *)
(* limit, any number of jobs and both outcomes of realloc: no interleaving *)
(* of callers, loop tasks, completions and drains is seen from outside as  *)
(* anything but jobs that wait in one line and are answered at its front.  *)
(***************************************************************************)

(* What the mapping makes of the sequences of the queue. *)

Numbered(R) == \A r \in R : r.id \in Nat

LEMMA IdsOfSeq ==
    ASSUME NEW R, Numbered(R), NEW q \in Seq(R)
    PROVE  /\ IdsOf(q) \in Seq(Nat) /\ Len(IdsOf(q)) = Len(q)
           /\ \A i \in 1..Len(q) : IdsOf(q)[i] = q[i].id
<1>1. Len(q) \in Nat /\ DOMAIN q = 1..Len(q) /\ \A i \in 1..Len(q) : q[i] \in R
  BY LenProperties, ElementOfSeq
<1>2. IdsOf(q) = [i \in 1..Len(q) |-> q[i].id]
  BY <1>1 DEF IdsOf
<1>3. \A i \in 1..Len(q) : q[i].id \in Nat
  BY <1>1 DEF Numbered
<1>4. IdsOf(q) \in [1..Len(q) -> Nat]
  BY <1>2, <1>3
<1> HIDE DEF IdsOf
<1> QED BY <1>1, <1>2, <1>4

(* Only the ids count. *)
LEMMA IdsOfSame ==
    ASSUME NEW R, Numbered(R), NEW q \in Seq(R), NEW r \in Seq(R), Len(q) = Len(r),
           \A i \in 1..Len(q) : q[i].id = r[i].id
    PROVE  IdsOf(q) = IdsOf(r)
<1>1. /\ IdsOf(q) \in Seq(Nat) /\ Len(IdsOf(q)) = Len(q)
      /\ \A i \in 1..Len(q) : IdsOf(q)[i] = q[i].id
  BY IdsOfSeq
<1>2. /\ IdsOf(r) \in Seq(Nat) /\ Len(IdsOf(r)) = Len(r)
      /\ \A i \in 1..Len(r) : IdsOf(r)[i] = r[i].id
  BY IdsOfSeq
<1> QED BY <1>1, <1>2, SeqEqual

LEMMA IdsOfAppend ==
    ASSUME NEW R, Numbered(R), NEW q \in Seq(R), NEW n \in R
    PROVE  IdsOf(Append(q, n)) = Append(IdsOf(q), n.id)
<1>1. /\ Append(q, n) \in Seq(R) /\ Len(Append(q, n)) = Len(q) + 1 /\ Len(q) \in Nat
      /\ Append(q, n)[Len(q) + 1] = n
      /\ \A i \in 1..Len(q) : Append(q, n)[i] = q[i]
  BY AppendProperties, LenProperties
<1>2. /\ IdsOf(q) \in Seq(Nat) /\ Len(IdsOf(q)) = Len(q)
      /\ \A i \in 1..Len(q) : IdsOf(q)[i] = q[i].id
  BY IdsOfSeq
<1>3. /\ IdsOf(Append(q, n)) \in Seq(Nat) /\ Len(IdsOf(Append(q, n))) = Len(q) + 1
      /\ \A i \in 1..(Len(q) + 1) : IdsOf(Append(q, n))[i] = Append(q, n)[i].id
  BY <1>1, IdsOfSeq
<1>4. n.id \in Nat
  BY DEF Numbered
<1>5. /\ Append(IdsOf(q), n.id) \in Seq(Nat) /\ Len(Append(IdsOf(q), n.id)) = Len(q) + 1
      /\ Append(IdsOf(q), n.id)[Len(q) + 1] = n.id
      /\ \A i \in 1..Len(q) : Append(IdsOf(q), n.id)[i] = q[i].id
  BY <1>2, <1>4, AppendProperties
<1>6. \A i \in 1..(Len(q) + 1) : IdsOf(Append(q, n))[i] = Append(IdsOf(q), n.id)[i]
  <2> SUFFICES ASSUME NEW i \in 1..(Len(q) + 1)
               PROVE  IdsOf(Append(q, n))[i] = Append(IdsOf(q), n.id)[i]
    OBVIOUS
  <2>1. CASE i = Len(q) + 1
    BY <2>1, <1>1, <1>3, <1>5
  <2>2. CASE i \in 1..Len(q)
    BY <2>2, <1>1, <1>3, <1>5
  <2>3. Len(q) \in Nat
    BY <1>1
  <2>4. i = Len(q) + 1 \/ i \in 1..Len(q)
    BY <2>3
  <2> QED BY <2>1, <2>2, <2>4
<1> QED BY <1>3, <1>5, <1>6, SeqEqual

LEMMA IdsOfTail ==
    ASSUME NEW R, Numbered(R), NEW q \in Seq(R), q # <<>>
    PROVE  /\ IdsOf(Tail(q)) = Tail(IdsOf(q)) /\ IdsOf(q) # <<>>
           /\ IdsOf(q)[1] = q[1].id
<1>1. /\ Tail(q) \in Seq(R) /\ Len(Tail(q)) = Len(q) - 1 /\ Len(q) \in Nat /\ Len(q) >= 1
      /\ \A i \in 1..(Len(q) - 1) : Tail(q)[i] = q[i + 1]
  BY HeadTailProperties, LenProperties, EmptySeq
<1>2. /\ IdsOf(q) \in Seq(Nat) /\ Len(IdsOf(q)) = Len(q)
      /\ \A i \in 1..Len(q) : IdsOf(q)[i] = q[i].id
  BY IdsOfSeq
<1>3. /\ IdsOf(Tail(q)) \in Seq(Nat) /\ Len(IdsOf(Tail(q))) = Len(q) - 1
      /\ \A i \in 1..(Len(q) - 1) : IdsOf(Tail(q))[i] = Tail(q)[i].id
  BY <1>1, IdsOfSeq
<1>4. IdsOf(q) # <<>> /\ IdsOf(q)[1] = q[1].id
  BY <1>1, <1>2, EmptySeq
<1>5. /\ Tail(IdsOf(q)) \in Seq(Nat) /\ Len(Tail(IdsOf(q))) = Len(q) - 1
      /\ \A i \in 1..(Len(q) - 1) : Tail(IdsOf(q))[i] = IdsOf(q)[i + 1]
  BY <1>2, <1>4, HeadTailProperties
<1>6. \A i \in 1..(Len(q) - 1) : IdsOf(Tail(q))[i] = Tail(IdsOf(q))[i]
  BY <1>1, <1>2, <1>3, <1>5
<1> QED BY <1>3, <1>4, <1>5, <1>6, SeqEqual

(* A job appended behind a non-empty queue is not its head. *)
LEMMA TailAppend ==
    ASSUME NEW q \in Seq(Job), NEW n \in Job, q # <<>>
    PROVE  Tail(Append(q, n)) = Append(Tail(q), n)
  BY SMT

AnswerRecord == [id : Ids, turn : Ids, status : Statuses]

LEMMA RecordsNumbered == Numbered(Job) /\ Numbered(AnswerRecord)
  BY DEF Numbered, Job, Ids, AnswerRecord

-----------------------------------------------------------------------------
(* The kinds of steps the mailbox knows.  Waiting is what the mapping makes *)
(* of the queue.                                                            *)

Waiting == IdsOf(Unanswered)

(* The parts of the invariant that the mapping needs. *)
LEMMA Mapped ==
    ASSUME QueueInv
    PROVE  /\ jobs \in Seq(Job) /\ answers \in Seq(AnswerRecord)
           /\ nextId \in Nat
           /\ Serving => jobs # <<>> /\ Unanswered = Tail(jobs)
           /\ ~Serving => Unanswered = jobs
           /\ turn # NoTurn => pc = "idle" /\ jobs # <<>> /\ turn.id = jobs[1].id
  BY DEF QueueInv, TypeOK, AnswerRecord, ServedHead, Serving, Unanswered, TurnIsHead

(* A step that keeps the unanswered ids is none. *)
LEMMA StutterMaps ==
    ASSUME Waiting' = Waiting, UNCHANGED <<answers, nextId, alive>>,
           (turn' # NoTurn) = (turn # NoTurn)
    PROVE  UNCHANGED Mailbox!mvars
  BY DEF Mailbox!mvars, Waiting

(* Answering the head is a reply. *)
LEMMA ReplyMaps ==
    ASSUME QueueInv, ~Serving, Serving', jobs # <<>>, alive,
           jobs' \in Seq(Job), Len(jobs') = Len(jobs),
           \A i \in 1..Len(jobs) : jobs'[i].id = jobs[i].id,
           NEW t \in Ids, NEW s \in Statuses,
           answers' = Append(answers, Answer(jobs[1], t, s)),
           turn' = NoTurn, UNCHANGED <<nextId, alive>>
    PROVE  Mailbox!Reply
<1>1. jobs \in Seq(Job) /\ answers \in Seq(AnswerRecord) /\ Unanswered = jobs
  BY Mapped
<1>2. jobs' # <<>> /\ 1 \in 1..Len(jobs) /\ jobs[1] \in Job
  BY <1>1, EmptySeq, LenProperties, ElementOfSeq
<1>3. Unanswered' = Tail(jobs')
  BY <1>2 DEF Unanswered, Serving
<1>4. IdsOf(jobs') = IdsOf(jobs)
  BY <1>1, IdsOfSame, RecordsNumbered
<1>5. Waiting # <<>> /\ Waiting[1] = jobs[1].id
  BY <1>1, IdsOfTail, RecordsNumbered DEF Waiting
<1>6. Waiting' = Tail(Waiting)
  <2>1. IdsOf(Tail(jobs')) = Tail(IdsOf(jobs'))
    BY <1>2, IdsOfTail, RecordsNumbered
  <2> QED BY <2>1, <1>1, <1>3, <1>4 DEF Waiting
<1>7. Answer(jobs[1], t, s) \in AnswerRecord /\ Answer(jobs[1], t, s).id = jobs[1].id
  BY <1>2 DEF Answer, AnswerRecord, Job
<1>8. IdsOf(answers') = Append(IdsOf(answers), Waiting[1])
  BY <1>1, <1>5, <1>7, IdsOfAppend, RecordsNumbered
<1> QED BY <1>5, <1>6, <1>8 DEF Mailbox!Reply, Waiting

(* enqueue is a submission, also from inside a done callback. *)
LEMMA SubmitMaps ==
    ASSUME QueueInv, NEW k \in Keys, NEW c \in CancelModes, NEW l \in JobLimits,
           Enqueue(k, c, l)
    PROVE  Mailbox!Submit
<1> DEFINE q == IF c THEN CancelMatching(jobs, k) ELSE jobs
           n == NewJob(q, nextId, k, c, l)
<1>1. /\ jobs \in Seq(Job) /\ nextId \in Ids /\ l \in Nat /\ c \in BOOLEAN /\ nextId \in Nat
      /\ Len(jobs) \in Nat
  BY ConstantsAssumption, LenProperties DEF Enqueue, QueueInv, TypeOK, Ids
<1>2. /\ q \in Seq(Job) /\ Len(q) = Len(jobs)
      /\ \A i \in 1..Len(jobs) : q[i].id = jobs[i].id
  BY <1>1, CancelMatchingKeeps
<1> HIDE DEF q
<1>3. n \in Job /\ n.id = nextId
  BY <1>1, <1>2, NewJobType
<1> HIDE DEF n
<1>4. jobs' = Append(q, n) /\ nextId' = nextId + 1 /\ alive
      /\ UNCHANGED <<turn, pc, alive, answers>>
  BY DEF Enqueue, CallerRuns, q, n
<1>5. IdsOf(q) = IdsOf(jobs)
  BY <1>1, <1>2, IdsOfSame, RecordsNumbered
<1>6. IdsOf(jobs') = Append(IdsOf(jobs), nextId)
  BY <1>2, <1>3, <1>4, <1>5, IdsOfAppend, RecordsNumbered
<1>7. jobs' # <<>>
  BY <1>2, <1>3, <1>4, AppendProperties
<1>8. Waiting' = Append(Waiting, nextId)
  <2>1. CASE ~Serving
    <3>1. Unanswered = jobs /\ Unanswered' = jobs'
      BY <2>1, <1>4, Mapped DEF Unanswered, Serving
    <3> QED BY <3>1, <1>6 DEF Waiting
  <2>2. CASE Serving
    <3>1. jobs # <<>> /\ Unanswered = Tail(jobs) /\ Unanswered' = Tail(jobs')
      BY <2>2, <1>4, <1>7, Mapped DEF Unanswered, Serving
    <3>2. q # <<>> /\ Tail(q) \in Seq(Job)
      BY <3>1, <1>1, <1>2, EmptySeq, HeadTailProperties
    <3>3. Tail(jobs') = Append(Tail(q), n)
      BY <3>2, <1>2, <1>3, <1>4, TailAppend
    <3>4. IdsOf(Tail(jobs')) = Append(IdsOf(Tail(q)), nextId)
      BY <3>2, <3>3, <1>3, IdsOfAppend, RecordsNumbered
    <3>5. IdsOf(Tail(q)) = IdsOf(Tail(jobs))
      BY <3>1, <3>2, <1>1, <1>2, <1>5, IdsOfTail, RecordsNumbered
    <3> QED BY <3>1, <3>4, <3>5 DEF Waiting
  <2> QED BY <2>1, <2>2
<1>9. nextId' - 1 = (nextId - 1) + 1 /\ nextId' - 1 = nextId
  BY <1>1, <1>4
<1> QED BY <1>4, <1>8, <1>9 DEF Mailbox!Submit, Waiting

(* A step that removes the answered head is none. *)
LEMMA RemoveMaps ==
    ASSUME QueueInv, Serving, ~Serving', jobs' = Tail(jobs),
           UNCHANGED <<answers, nextId, alive, turn>>
    PROVE  UNCHANGED Mailbox!mvars
<1>1. Unanswered = Tail(jobs)
  BY Mapped
<1>2. Unanswered' = jobs'
  BY DEF Unanswered, Serving
<1>3. Waiting' = Waiting
  BY <1>1, <1>2 DEF Waiting
<1> QED BY <1>3, StutterMaps

(* A step that changes flags of jobs that keep their slots is none. *)
LEMMA SameIdsMap ==
    ASSUME QueueInv, jobs' \in Seq(Job), Len(jobs') = Len(jobs),
           \A i \in 1..Len(jobs) : jobs'[i].id = jobs[i].id,
           UNCHANGED <<answers, nextId, alive, pc>>
    PROVE  Waiting' = Waiting
<1>1. jobs \in Seq(Job) /\ IdsOf(jobs') = IdsOf(jobs) /\ (jobs' = <<>> <=> jobs = <<>>)
  BY Mapped, IdsOfSame, RecordsNumbered, EmptySeq
<1>2. CASE Serving
  <2>1. jobs # <<>> /\ Unanswered = Tail(jobs) /\ Unanswered' = Tail(jobs')
    BY <1>1, <1>2, Mapped DEF Unanswered, Serving
  <2> QED BY <2>1, <1>1, IdsOfTail, RecordsNumbered DEF Waiting
<1>3. CASE ~Serving
  BY <1>1, <1>3 DEF Unanswered, Serving, Waiting
<1> QED BY <1>2, <1>3

-----------------------------------------------------------------------------
(* Every step of the queue is a step of the mailbox or none. *)
LEMMA StepMaps ==
    ASSUME DrainInFlight = FALSE, QueueInv, [Next]_vars
    PROVE  [Mailbox!MailboxNext]_(Mailbox!mvars)
<1> USE DEF Mailbox!MailboxNext
<1>1. /\ jobs \in Seq(Job) /\ Len(jobs) \in Nat
      /\ jobs # <<>> => jobs[1].id \in Ids
  <2>1. jobs \in Seq(Job)
    BY Mapped
  <2>2. jobs # <<>> => jobs[1] \in Job
    BY <2>1, EmptySeq, ElementOfSeq
  <2> QED BY <2>1, <2>2, LenProperties DEF Job
<1>2. ASSUME NEW k \in Keys, NEW c \in CancelModes, NEW l \in JobLimits, Enqueue(k, c, l)
      PROVE  Mailbox!Submit
  BY <1>2, SubmitMaps
<1>3. ASSUME NEW k \in Keys, NEW c \in CancelModes, EnqueueNoMemory(k, c)
      PROVE  UNCHANGED Mailbox!mvars
  <2>1. /\ jobs' \in Seq(Job) /\ Len(jobs') = Len(jobs)
        /\ \A i \in 1..Len(jobs) : jobs'[i].id = jobs[i].id
        /\ UNCHANGED <<answers, nextId, alive, pc, turn>>
    BY <1>1, <1>3, CancelMatchingKeeps DEF EnqueueNoMemory
  <2>2. Waiting' = Waiting
    BY <2>1, SameIdsMap
  <2> QED BY <2>1, <2>2, StutterMaps
<1>4. CASE Schedule \/ RequestShutdown \/ UNCHANGED vars
  <2>1. UNCHANGED <<jobs, answers, nextId, alive, pc, turn>>
    BY <1>4 DEF Schedule, RequestShutdown, vars
  <2>2. Waiting' = Waiting
    BY <2>1 DEF Waiting, Unanswered
  <2> QED BY <2>1, <2>2, StutterMaps
<1>5. CASE Task
  <2>1. /\ jobs' \in Seq(Job) /\ Len(jobs') = Len(jobs) /\ jobs # <<>>
        /\ \A i \in 1..Len(jobs) : jobs'[i].id = jobs[i].id
    BY <1>1, <1>5, ActivateHead DEF Task
  <2>2. alive /\ pc = "idle" /\ ~Serving /\ turn = NoTurn /\ UNCHANGED <<nextId, alive>>
    BY <1>5 DEF Task, Serving, QueueInv, InFlightExact
  <2>3. CASE ~jobs[1].cancelled
    <3>1. turn' = [id |-> jobs[1].id, buf |-> buf] /\ UNCHANGED <<pc, answers>>
      BY <1>5, <2>3 DEF Task
    <3>2. turn' # NoTurn
      BY <1>1, <2>1, <3>1 DEF NoTurn, Ids
    <3>3. Waiting' = Waiting
      BY <2>1, <2>2, <3>1, SameIdsMap
    <3>4. Waiting # <<>>
      BY <1>1, <2>1, <2>2, Mapped, IdsOfTail, RecordsNumbered DEF Waiting
    <3>5. Mailbox!Begin
      BY <2>2, <3>1, <3>2, <3>3, <3>4 DEF Mailbox!Begin, Waiting
    <3> QED BY <3>5
  <2>4. CASE jobs[1].cancelled
    <3>1. PICK s \in TurnStatuses(TRUE) : answers' = Append(answers, Answer(jobs[1], jobs[1].id, s))
      BY <1>5, <2>4 DEF Task
    <3>2. s \in Statuses /\ jobs[1].id \in Ids
      BY <1>1, <2>1, <3>1 DEF TurnStatuses, Statuses
    <3>3. turn' = NoTurn /\ Serving'
      BY <1>5, <2>4 DEF Task, Serving
    <3>4. Mailbox!Reply
      BY <2>1, <2>2, <3>1, <3>2, <3>3, ReplyMaps
    <3> QED BY <3>4
  <2> QED BY <2>3, <2>4
<1>6. CASE TaskNoMemory
  <2>1. /\ jobs' \in Seq(Job) /\ Len(jobs') = Len(jobs)
        /\ \A i \in 1..Len(jobs) : jobs'[i].id = jobs[i].id
        /\ UNCHANGED <<answers, nextId, alive, pc, turn>>
    BY <1>1, <1>6, ActivateHead DEF TaskNoMemory
  <2>2. Waiting' = Waiting
    BY <2>1, SameIdsMap
  <2> QED BY <2>1, <2>2, StutterMaps
<1>7. CASE TurnComplete
  <2>1. jobs # <<>> /\ turn.id = jobs[1].id /\ alive /\ ~Serving /\ Serving'
    BY <1>7, Mapped DEF TurnComplete, Serving
  <2>2. PICK seen \in CancelReads : \E s \in TurnStatuses(seen) :
            answers' = Append(answers, Answer(jobs[1], turn.id, s))
    BY <1>7, <2>1 DEF TurnComplete
  <2>3. PICK s \in TurnStatuses(seen) : answers' = Append(answers, Answer(jobs[1], turn.id, s))
    BY <2>2
  <2>4. s \in Statuses /\ turn.id \in Ids
    BY <1>1, <2>1, <2>3 DEF TurnStatuses, Statuses
  <2>5. turn' = NoTurn /\ UNCHANGED <<jobs, nextId, alive>>
    BY <1>7 DEF TurnComplete
  <2>6. Mailbox!Reply
    BY <1>1, <2>1, <2>3, <2>4, <2>5, ReplyMaps
  <2> QED BY <2>6
<1>8. CASE AsyncRemove
  <2>1. Serving /\ ~Serving' /\ UNCHANGED <<answers, nextId, alive, turn>>
    BY <1>8 DEF AsyncRemove, Serving
  <2>2. jobs' = Tail(jobs)
    BY <1>8, <2>1, Mapped DEF AsyncRemove
  <2> QED BY <2>1, <2>2, RemoveMaps
<1>9. ASSUME NEW m \in DrainMax, Drain(m)
      PROVE  UNCHANGED Mailbox!mvars
  <2>1. ~Serving /\ ~Serving' /\ UNCHANGED <<jobs, answers, nextId, alive, turn>>
    BY <1>9 DEF Drain, Serving
  <2>2. Waiting' = Waiting
    BY <2>1 DEF Waiting, Unanswered, Serving
  <2> QED BY <2>1, <2>2, StutterMaps
<1>10. CASE DrainTurn
  <2>1. jobs # <<>> /\ turn = NoTurn /\ alive /\ ~Serving /\ Serving'
        /\ UNCHANGED <<jobs, nextId, alive, turn>>
    BY <1>10, Mapped DEF DrainTurn, Serving
  <2>2. PICK s \in TurnStatuses(jobs[1].cancelled) :
            answers' = Append(answers, Answer(jobs[1], jobs[1].id, s))
    BY <1>10 DEF DrainTurn
  <2>3. s \in Statuses /\ jobs[1].id \in Ids
    BY <1>1, <2>1, <2>2 DEF TurnStatuses, Statuses
  <2>4. Mailbox!Reply
    BY <1>1, <2>1, <2>2, <2>3, ReplyMaps
  <2> QED BY <2>4
<1>11. CASE DrainRemove
  <2>1. Serving /\ ~Serving' /\ jobs' = Tail(jobs) /\ UNCHANGED <<answers, nextId, alive, turn>>
    BY <1>11 DEF DrainRemove, Serving
  <2> QED BY <2>1, RemoveMaps
<1>12. CASE DrainReturn
  <2>1. ~Serving /\ ~Serving' /\ UNCHANGED <<jobs, answers, nextId, alive, turn>>
    BY <1>12 DEF DrainReturn, Serving
  <2>2. Waiting' = Waiting
    BY <2>1 DEF Waiting, Unanswered, Serving
  <2> QED BY <2>1, <2>2, StutterMaps
<1>13. CASE Destroy
  <2>1. /\ alive /\ alive' = FALSE /\ turn = NoTurn /\ jobs' = <<>>
        /\ UNCHANGED <<answers, nextId, turn>>
    BY <1>13 DEF Destroy
  <2>2. Waiting' = <<>>
    BY <2>1 DEF Waiting, Unanswered, IdsOf
  <2>3. Mailbox!Close
    BY <2>1, <2>2 DEF Mailbox!Close, Waiting
  <2> QED BY <2>3
<1> QED BY <1>2, <1>3, <1>4, <1>5, <1>6, <1>7, <1>8, <1>9, <1>10, <1>11, <1>12, <1>13 DEF Next

(* The queue implements the mailbox: whatever its buffers, flags and        *)
(* callbacks do, jobs wait in one line, at most one turn runs, it is the    *)
(* turn of the front job, and each done callback takes exactly that job     *)
(* from the line (runtime_turn_queue_task, runtime_turn_queue_async_done,   *)
(* sc_runtime_turn_queue_drain), for callers that do not drain while an     *)
(* asynchronous turn runs.                                                  *)
THEOREM QueueImplementsMailbox ==
    ASSUME DrainInFlight = FALSE
    PROVE  Spec => ImplementsMailbox
<1>1. Init => QueueInv
  BY QueueInvInit
<1>2. QueueInv /\ [Next]_vars => QueueInv'
  BY QueueInvNext
<1>3. Init => Mailbox!MailboxInit
  BY DEF Init, Mailbox!MailboxInit, IdsOf, Unanswered
<1>4. QueueInv /\ [Next]_vars => [Mailbox!MailboxNext]_(Mailbox!mvars)
  BY StepMaps
<1> QED BY <1>1, <1>2, <1>3, <1>4, PTL DEF Spec, ImplementsMailbox, Mailbox!MailboxSpec
=============================================================================
