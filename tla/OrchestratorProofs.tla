------------------------- MODULE OrchestratorProofs -------------------------
(***************************************************************************)
(* The orchestrator's deduplication, answers, session stores and histories, *)
(* for any messages, channels, rules and limits.  AdmittedOnceInWindow      *)
(* needs SeenInv: the ids remembered are the last ones admitted, and how    *)
(* many they are.  OneAnswerPerAdmission needs AnswerInv: while a message   *)
(* has no final text yet, one of its admissions is unanswered.  StoresAgree *)
(* needs StoreInv: between two statements the later store is behind by the  *)
(* message in progress.  HistoryFaithful needs HistInv: what is stored was  *)
(* sent, and while a message is being stored the histories are what the     *)
(* table rebuilds and that message.                                         *)
(***************************************************************************)
EXTENDS Orchestrator, SequenceTheorems, FiniteSetTheorems, WellFoundedInduction, TLAPS

(* A sequence with one more element at its end.                            *)
LEMMA AppendOne ==
    ASSUME NEW S, NEW s \in Seq(S), NEW x, NEW n \in Nat, n = Len(s), NEW t, t = Append(s, x)
    PROVE  /\ t \in Seq(S \cup {x}) /\ Len(t) = n + 1 /\ DOMAIN t = 1..(n + 1) /\ DOMAIN s = 1..n
           /\ t[n + 1] = x /\ \A i \in 1..n : t[i] = s[i]
<1>1. s \in Seq(S \cup {x}) /\ x \in S \cup {x}
    BY SeqMonotonic
<1>2. t \in Seq(S \cup {x}) /\ Len(t) = n + 1 /\ t[n + 1] = x /\ \A i \in 1..n : t[i] = s[i]
    BY <1>1, AppendProperties
<1> QED
    BY <1>2, LenProperties

-----------------------------------------------------------------------------
(* The ids remembered are the last ones admitted, all of them up to the    *)
(* limit, less one after a copy that failed.                               *)
SeenInv ==
    /\ faults \in Nat
    /\ \E S : admits \in Seq(S) /\ seen \in Seq(S)
    /\ Len(seen) <= Len(admits) /\ Len(seen) <= MaxSeen
    /\ \A i \in 1..Len(seen) : seen[i] = admits[Len(admits) - Len(seen) + i]
    /\ \/ Len(seen) = Len(admits) \/ Len(seen) = MaxSeen
       \/ faults # 0 /\ Len(seen) = MaxSeen - 1
    /\ AdmittedOnceInWindow

(* What is left of the remembered ids when room is made for one more.      *)
LEMMA EvictedSuffix ==
    ASSUME NEW S, seen \in Seq(S), Len(seen) <= MaxSeen, NEW e, e = Evicted
    PROVE  /\ e \in Seq(S) /\ Len(e) = IF Len(seen) = MaxSeen THEN MaxSeen - 1 ELSE Len(seen)
           /\ \A i \in 1..Len(e) : e[i] = seen[Len(seen) - Len(e) + i]
<1>0. PICK k \in Nat : k = Len(seen)
    BY LenProperties
<1>1. MaxSeen \in Nat /\ MaxSeen # 0
    BY LimitsAssumption
<1>2. CASE k = MaxSeen
  <2>1. e = SubSeq(seen, 2, k)
    <3>1. k >= MaxSeen /\ k - MaxSeen + 2 = 2
        BY <1>0, <1>1, <1>2
    <3> QED
        BY <1>0, <3>1 DEF Evicted
  <2>2. \A i \in 2..k : seen[i] \in S
      BY <1>0, ElementOfSeq
  <2>3. /\ e \in Seq(S) /\ Len(e) = (IF 2 <= k THEN k - 2 + 1 ELSE 0)
        /\ \A i \in 1..(k - 2 + 1) : e[i] = seen[2 + i - 1]
      BY <2>1, <2>2, SubSeqProperties
  <2>4. Len(e) = k - 1 /\ \A i \in 1..(k - 1) : e[i] = seen[1 + i]
      BY <1>1, <1>2, <2>3
  <2> QED
      BY <1>0, <1>1, <1>2, <2>3, <2>4
<1>3. CASE k # MaxSeen
  <2>1. e = seen
      BY <1>0, <1>1, <1>3 DEF Evicted
  <2> QED
      BY <1>0, <1>3, <2>1
<1> QED
    BY <1>2, <1>3

(* A step that admits nothing leaves the admissions as far apart.          *)
LEMMA SpacingKept ==
    ASSUME SeenInv, UNCHANGED admits, faults' \in {faults, faults + 1}
    PROVE  AdmittedOnceInWindow' /\ faults' \in Nat /\ (faults # 0 => faults' # 0)
<1>1. faults' \in Nat /\ (faults # 0 => faults' # 0)
    BY DEF SeenInv
<1>2. AdmittedOnceInWindow'
  <2>1. SUFFICES ASSUME NEW i \in DOMAIN admits, NEW j \in DOMAIN admits, i < j, admits[i] = admits[j]
                 PROVE  j - i + (IF faults' = 0 THEN 0 ELSE 1) > MaxSeen
      BY DEF AdmittedOnceInWindow
  <2>2. j - i + (IF faults = 0 THEN 0 ELSE 1) > MaxSeen
      BY <2>1 DEF SeenInv, AdmittedOnceInWindow
  <2>3. MaxSeen \in Nat /\ i \in Int /\ j \in Int
    <3>1. PICK S : admits \in Seq(S)
        BY DEF SeenInv
    <3>2. DOMAIN admits = 1..Len(admits) /\ Len(admits) \in Nat
        BY <3>1, LenProperties
    <3> QED
        BY <3>2, LimitsAssumption
  <2> QED
      BY <1>1, <2>2, <2>3
<1> QED
    BY <1>1, <1>2

LEMMA SeenKept ==
    ASSUME SeenInv, UNCHANGED <<seen, admits>>, faults' \in {faults, faults + 1}
    PROVE  SeenInv'
BY SpacingKept DEF SeenInv

(* What SeenInv says, with the k ids remembered, the n admitted and the m  *)
(* that are left, e, when room is made.                                    *)
Window(S, k, n, m, e) ==
    /\ k \in Nat /\ n \in Nat /\ m \in Nat
    /\ admits \in Seq(S) /\ seen \in Seq(S) /\ e \in Seq(S) /\ e = Evicted
    /\ k = Len(seen) /\ n = Len(admits) /\ m = Len(e)
    /\ DOMAIN seen = 1..k /\ DOMAIN admits = 1..n
    /\ k <= n /\ k <= MaxSeen /\ m <= k
    /\ m = IF k = MaxSeen THEN MaxSeen - 1 ELSE k
    /\ \A i \in 1..k : seen[i] = admits[n - k + i]
    /\ \A i \in 1..m : e[i] = admits[n - m + i]
    /\ k = n \/ k = MaxSeen \/ (faults # 0 /\ k = MaxSeen - 1)

LEMMA SeenParts ==
    ASSUME SeenInv
    PROVE  \E k, n, m \in Nat : \E S, e : Window(S, k, n, m, e)
<1>1. PICK S : admits \in Seq(S) /\ seen \in Seq(S)
    BY DEF SeenInv
<1>2. PICK k \in Nat, n \in Nat : k = Len(seen) /\ n = Len(admits) /\ DOMAIN seen = 1..k /\ DOMAIN admits = 1..n
    BY <1>1, LenProperties
<1>3. MaxSeen \in Nat /\ MaxSeen # 0
    BY LimitsAssumption
<1>4. k <= n /\ k <= MaxSeen /\ (k = n \/ k = MaxSeen \/ (faults # 0 /\ k = MaxSeen - 1))
      /\ \A i \in 1..k : seen[i] = admits[n - k + i]
    BY <1>2 DEF SeenInv
<1>5. PICK e : e = Evicted
    OBVIOUS
<1>6. e \in Seq(S) /\ \A i \in 1..Len(e) : e[i] = seen[k - Len(e) + i]
    BY <1>1, <1>2, <1>4, <1>5, EvictedSuffix
<1>7. PICK m \in Nat : m = Len(e)
    BY <1>6, LenProperties
<1>8. m = IF k = MaxSeen THEN MaxSeen - 1 ELSE k
    BY <1>1, <1>2, <1>4, <1>5, <1>7, EvictedSuffix
<1>9. m <= k
    BY <1>3, <1>8
<1>10. \A i \in 1..m : e[i] = admits[n - m + i]
  <2>1. ASSUME NEW i \in 1..m PROVE e[i] = admits[n - m + i]
    <3>1. k - m + i \in 1..k /\ n - k + (k - m + i) = n - m + i
        BY <1>9
    <3> QED
        BY <1>4, <1>6, <1>7, <3>1
  <2> QED
      BY <2>1
<1> QED
    BY <1>1, <1>2, <1>4, <1>5, <1>6, <1>7, <1>8, <1>9, <1>10 DEF Window

(* Room was made, but the copy of the id failed.                           *)
LEMMA SeenLost ==
    ASSUME SeenInv, seen' = Evicted, UNCHANGED admits, faults' = faults + 1
    PROVE  SeenInv'
<1>0. PICK k \in Nat, n \in Nat, m \in Nat : \E S, e : Window(S, k, n, m, e)
    BY SeenParts
<1>1. PICK S, e : Window(S, k, n, m, e)
    BY <1>0
<1>2. faults' \in Nat /\ faults' # 0
    BY DEF SeenInv
<1>3. m <= n /\ m <= MaxSeen /\ (m = n \/ m = MaxSeen \/ m = MaxSeen - 1)
    BY <1>1, LimitsAssumption DEF Window
<1>4. AdmittedOnceInWindow'
    BY SpacingKept
<1>5. seen' = e /\ Len(seen') = m /\ Len(admits') = n /\ seen' \in Seq(S) /\ admits' \in Seq(S)
    BY <1>1 DEF Window
<1>6. \A i \in 1..Len(seen') : seen'[i] = admits'[Len(admits') - Len(seen') + i]
    BY <1>1, <1>5 DEF Window
<1> QED
    BY <1>2, <1>3, <1>4, <1>5, <1>6 DEF SeenInv

(* An id that is not remembered is admitted.                               *)
LEMMA SeenAdmits ==
    ASSUME SeenInv, NEW id, id \notin ToSet(seen), seen' = Append(Evicted, id), admits' = Append(admits, id),
           faults' \in {faults, faults + 1}
    PROVE  SeenInv'
<1>0. PICK k \in Nat, n \in Nat, m \in Nat : \E S, e : Window(S, k, n, m, e)
    BY SeenParts
<1>1. PICK S, e : Window(S, k, n, m, e)
    BY <1>0
<1>2. /\ e \in Seq(S) /\ admits \in Seq(S) /\ n = Len(admits) /\ m = Len(e)
      /\ DOMAIN seen = 1..k /\ DOMAIN admits = 1..n
      /\ k <= n /\ k <= MaxSeen /\ m <= k
      /\ m = IF k = MaxSeen THEN MaxSeen - 1 ELSE k
      /\ k = n \/ k = MaxSeen \/ (faults # 0 /\ k = MaxSeen - 1)
    BY <1>1 DEF Window
<1>3. e = Evicted /\ (\A i \in 1..m : e[i] = admits[n - m + i]) /\ (\A i \in 1..k : seen[i] = admits[n - k + i])
    BY <1>1 DEF Window
<1>4. PICK s, a : s = Append(e, id) /\ a = Append(admits, id)
    OBVIOUS
<1>5. MaxSeen \in Nat /\ MaxSeen # 0
    BY LimitsAssumption
<1>6. e \in Seq(S) /\ m = Len(e) /\ s = Append(e, id)
    BY <1>2, <1>4
<1>7. s \in Seq(S \cup {id}) /\ Len(s) = m + 1 /\ s[m + 1] = id /\ \A i \in 1..m : s[i] = e[i]
    BY <1>6, AppendOne
<1>8. a \in Seq(S \cup {id}) /\ Len(a) = n + 1 /\ a[n + 1] = id /\ \A i \in 1..n : a[i] = admits[i]
    BY <1>2, <1>4, AppendOne
<1>9. DOMAIN a = 1..(n + 1)
    BY <1>8, LenProperties
<1>10. faults' \in Nat /\ (faults # 0 => faults' # 0)
    BY DEF SeenInv
<1>11. /\ m + 1 <= n + 1 /\ m + 1 <= MaxSeen
       /\ m + 1 = n + 1 \/ m + 1 = MaxSeen \/ (faults' # 0 /\ m + 1 = MaxSeen - 1)
    BY <1>2, <1>5, <1>10
<1>12. \A i \in 1..(m + 1) : s[i] = a[(n + 1) - (m + 1) + i]
  <2>1. ASSUME NEW i \in 1..(m + 1) PROVE s[i] = a[(n + 1) - (m + 1) + i]
    <3>1. CASE i = m + 1
      <4>1. (n + 1) - (m + 1) + i = n + 1
          BY <3>1
      <4> QED
          BY <1>7, <1>8, <3>1, <4>1
    <3>2. CASE i # m + 1
      <4>0. m <= n
          BY <1>2
      <4>1. i \in 1..m /\ (n + 1) - (m + 1) + i = n - m + i /\ n - m + i \in 1..n
          BY <3>2, <4>0
      <4> QED
          BY <1>3, <1>7, <1>8, <4>1
    <3> QED
        BY <3>1, <3>2
  <2> QED
      BY <2>1
<1>13. AdmittedOnceInWindow'
  <2>1. SUFFICES ASSUME NEW i \in 1..(n + 1), NEW j \in 1..(n + 1), i < j, a[i] = a[j]
                 PROVE  j - i + (IF faults' = 0 THEN 0 ELSE 1) > MaxSeen
      BY <1>4, <1>9 DEF AdmittedOnceInWindow
  <2>2. CASE j = n + 1
    <3>1. i \in 1..n /\ admits[i] = id
        BY <1>8, <2>1, <2>2
    <3>2. ~(i > n - k)
      <4>1. SUFFICES ASSUME i > n - k PROVE FALSE
          OBVIOUS
      <4>2. i - (n - k) \in 1..k /\ n - k + (i - (n - k)) = i
          BY <1>2, <3>1, <4>1
      <4>3. seen[i - (n - k)] = id
          BY <1>3, <3>1, <4>2
      <4> QED
          BY <1>2, <4>2, <4>3 DEF ToSet
    <3>3. k # n /\ (k = MaxSeen \/ (faults # 0 /\ k = MaxSeen - 1))
        BY <1>2, <3>1, <3>2
    <3> QED
        BY <1>5, <1>10, <2>2, <3>1, <3>2, <3>3
  <2>3. CASE j # n + 1
    <3>1. i \in 1..n /\ j \in 1..n
        BY <2>1, <2>3
    <3>2. j - i + (IF faults = 0 THEN 0 ELSE 1) > MaxSeen
        BY <1>2, <1>8, <2>1, <3>1 DEF SeenInv, AdmittedOnceInWindow
    <3> QED
        BY <1>5, <1>10, <3>1, <3>2
  <2> QED
      BY <2>2, <2>3
<1>14. /\ seen' = s /\ admits' = a /\ seen' \in Seq(S \cup {id}) /\ admits' \in Seq(S \cup {id})
       /\ Len(seen') = m + 1 /\ Len(admits') = n + 1
    BY <1>3, <1>4, <1>7, <1>8
<1>15. \A i \in 1..Len(seen') : seen'[i] = admits'[Len(admits') - Len(seen') + i]
    BY <1>12, <1>14
<1> QED
    BY <1>10, <1>11, <1>13, <1>14, <1>15 DEF SeenInv

(* An operation fails or it does not.                                      *)
LEMMA Outcome ==
    ASSUME Works \/ Breaks \/ UNCHANGED count \/ UNCHANGED <<faults, crashes>>
    PROVE  crashes' = crashes /\ faults' \in {faults, faults + 1}
BY DEF Works, Breaks, count

LEMMA SeenStep ==
    ASSUME SeenInv, [Next]_vars
    PROVE  SeenInv'
<1>1. CASE \/ StartPass \/ ListenEmpty \/ Listen \/ Duplicate \/ SendDraft \/ BuildInput \/ AgentRuns \/ SendSorry
           \/ SendReply \/ SendAttachment \/ AppendHistory \/ WriteJsonl \/ UpsertMeta \/ InsertRow
           \/ Restart \/ (\E m \in Messages : Arrive(m)) \/ UNCHANGED vars
  <2>1. UNCHANGED <<seen, admits>>
      BY <1>1 DEF StartPass, ListenEmpty, Listen, Duplicate, SendDraft, BuildInput, AgentRuns, SendSorry, SendReply,
                  SendAttachment, AppendHistory, WriteJsonl, UpsertMeta, InsertRow, Restart, Arrive, ghost, vars
  <2>2. Works \/ Breaks \/ UNCHANGED count \/ UNCHANGED <<faults, crashes>>
      BY <1>1 DEF StartPass, ListenEmpty, Listen, Duplicate, SendDraft, BuildInput, AgentRuns, SendSorry, SendReply,
                  SendAttachment, AppendHistory, WriteJsonl, UpsertMeta, InsertRow, Restart, Arrive, vars
  <2> QED
      BY <2>1, <2>2, Outcome, SeenKept
<1>2. CASE Admit
  <2>1. Works \/ Breaks
      BY <1>2 DEF Admit
  <2>2. faults' \in {faults, faults + 1}
      BY <2>1, Outcome
  <2>3. CASE UNCHANGED <<seen, admits>>
      BY <2>2, <2>3, SeenKept
  <2>4. CASE cur.id # "" /\ seen' = Append(Evicted, cur.id) /\ admits' = Append(admits, cur.id)
    <3>1. cur.id \notin ToSet(seen)
        BY <1>2, <2>4 DEF Admit, MessageSeen
    <3> QED
        BY <2>2, <2>4, <3>1, SeenAdmits
  <2>5. CASE seen' = Evicted /\ UNCHANGED admits /\ Breaks
    <3>1. faults' = faults + 1
        BY <2>5 DEF Breaks
    <3> QED
        BY <2>5, <3>1, SeenLost
  <2> QED
      BY <1>2, <2>3, <2>4, <2>5 DEF Admit
<1>3. CASE Crash
  <2>1. seen' = <<>> /\ admits' = <<>> /\ faults' = faults /\ faults \in Nat /\ MaxSeen \in Nat
      BY <1>3, LimitsAssumption DEF Crash, SeenInv
  <2>2. <<>> \in Seq({}) /\ Len(<<>>) = 0 /\ 1..0 = {} /\ DOMAIN <<>> = {}
      BY EmptySeq
  <2>3. AdmittedOnceInWindow'
      BY <2>1, <2>2 DEF AdmittedOnceInWindow
  <2> QED
      BY <2>1, <2>2, <2>3 DEF SeenInv
<1> QED
    BY <1>1, <1>2, <1>3 DEF Next, Poll

LEMMA SeenInit == ASSUME Init PROVE SeenInv
<1>1. seen = <<>> /\ admits = <<>> /\ faults = 0 /\ MaxSeen \in Nat
    BY LimitsAssumption DEF Init
<1>2. <<>> \in Seq({}) /\ Len(<<>>) = 0 /\ 1..0 = {} /\ DOMAIN <<>> = {}
    BY EmptySeq
<1>3. AdmittedOnceInWindow
    BY <1>1, <1>2 DEF AdmittedOnceInWindow
<1> QED
    BY <1>1, <1>2, <1>3 DEF SeenInv

(* Two admissions of an id are more than the limit of remembered ids       *)
(* apart, and however many copies of ids fail, at most one place less      *)
(* (message_seen, remember_message).                                       *)
THEOREM AdmittedOnceInWindowHolds == Spec => []AdmittedOnceInWindow
<1>1. SeenInv /\ [Next]_vars => SeenInv'
    BY SeenStep
<1>2. SeenInv => AdmittedOnceInWindow
    BY DEF SeenInv
<1> QED
    BY <1>1, <1>2, SeenInit, PTL DEF Spec

-----------------------------------------------------------------------------
(* How often a value is in a sequence.                                     *)
Count(s, v) == Cardinality({i \in DOMAIN s : s[i] = v})

LEMMA CountNat ==
    ASSUME NEW S, NEW s \in Seq(S), NEW v
    PROVE  Count(s, v) \in Nat /\ IsFiniteSet({i \in DOMAIN s : s[i] = v})
<1>1. IsFiniteSet(1..Len(s)) /\ DOMAIN s = 1..Len(s)
    BY FS_Interval, LenProperties
<1>2. IsFiniteSet({i \in DOMAIN s : s[i] = v})
    BY <1>1, FS_Subset
<1> QED
    BY <1>2, FS_CardinalityType DEF Count

LEMMA AddOne ==
    ASSUME NEW S, IsFiniteSet(S), NEW x, x \notin S, NEW T, T = S \cup {x}
    PROVE  Cardinality(T) = Cardinality(S) + 1
BY FS_AddElement

LEMMA CountAppend ==
    ASSUME NEW S, NEW s \in Seq(S), NEW x, NEW v
    PROVE  /\ x = v => Count(Append(s, x), v) = Count(s, v) + 1
           /\ x # v => Count(Append(s, x), v) = Count(s, v)
<1>0. PICK t : t = Append(s, x)
    OBVIOUS
<1>1. PICK n \in Nat : n = Len(s)
    BY LenProperties
<1>2. DOMAIN t = 1..(n + 1) /\ DOMAIN s = 1..n /\ t[n + 1] = x /\ \A i \in 1..n : t[i] = s[i]
    BY <1>0, <1>1, AppendOne
<1>3. 1..(n + 1) = 1..n \cup {n + 1} /\ n + 1 \notin 1..n
    OBVIOUS
<1>4. CASE x = v
  <2>1. {i \in DOMAIN t : t[i] = v} = {i \in DOMAIN s : s[i] = v} \cup {n + 1}
      BY <1>2, <1>3, <1>4
  <2>2. n + 1 \notin {i \in DOMAIN s : s[i] = v}
      BY <1>2, <1>3
  <2>3. IsFiniteSet({i \in DOMAIN s : s[i] = v})
      BY CountNat
  <2>4. Cardinality({i \in DOMAIN t : t[i] = v}) = Cardinality({i \in DOMAIN s : s[i] = v}) + 1
      BY <2>1, <2>2, <2>3, AddOne
  <2> QED
      BY <1>0, <1>4, <2>4 DEF Count
<1>5. CASE x # v
  <2>1. {i \in DOMAIN t : t[i] = v} = {i \in DOMAIN s : s[i] = v}
      BY <1>2, <1>3, <1>5
  <2> QED
      BY <1>0, <1>5, <2>1 DEF Count
<1> QED
    BY <1>4, <1>5

LEMMA CountEmpty ==
    ASSUME NEW v
    PROVE  Count(<<>>, v) = 0
<1>1. {i \in DOMAIN <<>> : <<>>[i] = v} = {}
    OBVIOUS
<1> QED
    BY <1>1, FS_EmptySet DEF Count

-----------------------------------------------------------------------------
(* Where the poll task is: the call works on a message of an inbox, its    *)
(* second half, for the answer, is only reached in the stores.             *)
Storing == {"append", "jsonl", "meta", "row"}
InCall == {"admit", "draft", "input", "agent", "reply", "attach", "sorry"} \cup Storing

FlowInv ==
    /\ inbox \in [ToSet(Channels) -> Seq(Messages)]
    /\ pc \in InCall \cup {"idle", "listen", "stopped", "dead"}
    /\ pc \in InCall \cup {"listen"} => slot \in 1..Len(Channels)
    /\ pc \in InCall => cur \in Messages
    /\ role \in {"user", "assistant"} /\ (role = "assistant" => pc \in Storing)
    /\ pc = "jsonl" => opts.backend = "jsonl"
    /\ pc \in {"meta", "row"} => opts.backend = "sqlite"

(* The call returns: nothing is in progress.                               *)
LEMMA Returns ==
    ASSUME FlowInv, PollErrorOrTimeout, pc \in InCall \cup {"listen"},
           inbox' \in [ToSet(Channels) -> Seq(Messages)]
    PROVE  FlowInv' /\ pc' \in {"idle", "listen", "stopped"} /\ role' = "user"
<1>1. Len(Channels) \in Nat /\ slot \in 1..Len(Channels)
    BY ChannelsAssumption, LenProperties DEF FlowInv
<1>2. /\ role' = "user" /\ pc' \in {"idle", "listen", "stopped"}
      /\ pc' = "listen" => slot < Len(Channels) /\ slot' = slot + 1
    BY DEF PollError, PollErrorOrTimeout, NextChannel, NextRole
<1>3. pc' = "listen" => slot' \in 1..Len(Channels)
    BY <1>1, <1>2
<1> QED
    BY <1>2, <1>3 DEF FlowInv, InCall, Storing

(* The call goes on with its message.                                      *)
LEMMA GoesOn ==
    ASSUME FlowInv, pc \in InCall, NEW label \in InCall \ {"admit", "jsonl", "meta", "row"}, Goto(label),
           UNCHANGED <<inbox, opts>>, role = "user" \/ label \in Storing
    PROVE  FlowInv' /\ pc' = label /\ cur' = cur
BY DEF Goto, FlowInv, InCall, Storing

LEMMA FlowStep ==
    ASSUME FlowInv, [Next]_vars
    PROVE  FlowInv'
<1> USE DEF InCall, Storing
<1>0. inbox \in [ToSet(Channels) -> Seq(Messages)] /\ Len(Channels) \in Nat /\ Len(Channels) # 0
      /\ DOMAIN Channels = 1..Len(Channels)
    BY ChannelsAssumption, LenProperties, EmptySeq DEF FlowInv
<1>1. CASE UNCHANGED vars
    BY <1>1 DEF vars, flow, FlowInv
<1>2. ASSUME NEW m \in Messages, Arrive(m) PROVE FlowInv'
  <2>1. inbox' \in [ToSet(Channels) -> Seq(Messages)]
    <3>1. inbox' = [inbox EXCEPT ![m.chan] = Append(inbox[m.chan], m)]
        BY <1>2 DEF Arrive
    <3>2. m.chan \in ToSet(Channels) => Append(inbox[m.chan], m) \in Seq(Messages)
        BY <1>0, AppendProperties
    <3> QED
        BY <1>0, <3>1, <3>2
  <2> QED
      BY <1>2, <2>1 DEF Arrive, flow, FlowInv
<1>3. CASE Crash
  <2>1. pc' = "dead" /\ role' = "user" /\ inbox' = [c \in ToSet(Channels) |-> <<>>]
      BY <1>3 DEF Crash
  <2>2. <<>> \in Seq(Messages)
      BY EmptySeq
  <2> QED
      BY <2>1, <2>2 DEF FlowInv
<1>4. CASE Restart
    BY <1>4 DEF Restart, Goto, flow, FlowInv
<1>5. CASE Poll
  <2>0. UNCHANGED opts
      BY <1>5 DEF Poll
  <2>1. CASE StartPass
      BY <1>0, <2>0, <2>1 DEF StartPass, FlowInv
  <2>2. ASSUME PollError \/ NextChannel \/ PollErrorOrTimeout, pc \in InCall \cup {"listen"}, UNCHANGED inbox
        PROVE  FlowInv'
    <3>1. PollErrorOrTimeout
        BY <2>2 DEF PollErrorOrTimeout
    <3> QED
        BY <1>0, <2>2, <3>1, Returns
  <2>3. CASE ListenEmpty \/ Duplicate
      BY <2>2, <2>3 DEF ListenEmpty, Duplicate
  <2>4. CASE Listen
    <3>1. CASE UNCHANGED inbox /\ PollErrorOrTimeout
        BY <2>2, <2>4, <3>1 DEF Listen
    <3>2. CASE /\ cur' = Head(inbox[Channels[slot]]) /\ inbox' = [inbox EXCEPT ![Channels[slot]] = Tail(@)]
               /\ pc' = "admit" /\ UNCHANGED <<slot, role>>
      <4>1. slot \in 1..Len(Channels) /\ Channels[slot] \in ToSet(Channels)
          BY <1>0, <2>4 DEF Listen, FlowInv, ToSet
      <4>2. inbox[Channels[slot]] \in Seq(Messages) /\ inbox[Channels[slot]] # <<>>
          BY <1>0, <2>4, <4>1 DEF Listen
      <4>3. Head(inbox[Channels[slot]]) \in Messages /\ Tail(inbox[Channels[slot]]) \in Seq(Messages)
          BY <4>2, HeadTailProperties
      <4>4. inbox' \in [ToSet(Channels) -> Seq(Messages)]
          BY <1>0, <3>2, <4>3
      <4>5. role' = "user"
          BY <2>4, <3>2 DEF Listen, FlowInv
      <4> QED
          BY <3>2, <4>1, <4>3, <4>4, <4>5 DEF FlowInv
    <3> QED
        BY <2>4, <3>1, <3>2 DEF Listen
  <2>5. CASE Admit
      BY <2>0, <2>2, <2>5, GoesOn DEF Admit, FlowInv
  <2>6. CASE SendDraft \/ BuildInput \/ AgentRuns \/ SendReply \/ SendAttachment
    <3>1. /\ pc \in InCall /\ UNCHANGED inbox /\ pc \notin Storing
          /\ (\E label \in {"input", "sorry", "agent", "reply", "attach", "append"} : Goto(label)) \/ PollErrorOrTimeout
        BY <2>6 DEF SendDraft, BuildInput, AgentRuns, SendReply, SendAttachment
    <3> QED
        BY <2>0, <2>2, <3>1, GoesOn DEF FlowInv
  <2>7. CASE SendSorry
      BY <2>2, <2>7 DEF SendSorry
  <2>8. CASE AppendHistory \/ WriteJsonl \/ UpsertMeta \/ InsertRow
    <3>1. /\ pc \in Storing /\ UNCHANGED inbox
          /\ \/ PollError \/ NextChannel
             \/ pc' = "append" /\ role' = "assistant" /\ UNCHANGED <<slot, cur>>
             \/ pc = "append" /\ Goto("jsonl") /\ opts.backend = "jsonl"
             \/ pc = "append" /\ Goto("meta") /\ opts.backend = "sqlite"
             \/ pc = "meta" /\ Goto("row")
        BY <2>8 DEF AppendHistory, WriteJsonl, UpsertMeta, InsertRow, NextRole
    <3> QED
        BY <2>0, <2>2, <3>1 DEF FlowInv, Goto
  <2> QED
      BY <1>5, <2>1, <2>3, <2>4, <2>5, <2>6, <2>7, <2>8 DEF Poll
<1> QED
    BY <1>1, <1>2, <1>3, <1>4, <1>5 DEF Next

LEMMA FlowInit == ASSUME Init PROVE FlowInv
<1>1. pc = "idle" /\ role = "user" /\ inbox = [c \in ToSet(Channels) |-> <<>>]
    BY DEF Init
<1>2. <<>> \in Seq(Messages)
    BY EmptySeq
<1> QED
    BY <1>1, <1>2 DEF FlowInv, InCall, Storing

-----------------------------------------------------------------------------
(* The texts of this life, and the states in which the final one of the    *)
(* message in progress is still to come.                                   *)
Final(m) == <<"final", m.uid, crashes>>
Named(m) == m.id # ""
Unanswered == {"draft", "input", "agent", "reply", "sorry"}

AnswerInv ==
    /\ crashes \in Nat
    /\ (\E S : sent \in Seq(S)) /\ (\E S : admits \in Seq(S))
    /\ \A i \in DOMAIN sent : sent[i][3] \in Nat /\ sent[i][3] <= crashes
    /\ \A m \in Messages : Named(m) => Count(sent, Final(m)) <= Count(admits, m.id)
    /\ pc \in Unanswered /\ Named(cur) => Count(sent, Final(cur)) < Count(admits, cur.id)

(* A step that neither admits nor sends.                                   *)
LEMMA AnswerKept ==
    ASSUME AnswerInv, UNCHANGED <<sent, admits, crashes>>,
           pc' \in Unanswered => pc \in Unanswered /\ cur' = cur
    PROVE  AnswerInv'
BY DEF AnswerInv, Final

(* An admission.                                                           *)
LEMMA AnswerAdmits ==
    ASSUME AnswerInv, UNCHANGED <<sent, crashes>>, cur \in Messages, Named(cur),
           admits' = Append(admits, cur.id), pc' \in Unanswered => cur' = cur
    PROVE  AnswerInv'
<1>1. PICK S : admits \in Seq(S)
    BY DEF AnswerInv
<1>2. PICK T : sent \in Seq(T)
    BY DEF AnswerInv
<1>3. PICK n \in Nat : n = Len(admits)
    BY <1>1, LenProperties
<1>4. admits' \in Seq(S \cup {cur.id})
    BY <1>1, <1>3, AppendOne
<1>5. ASSUME NEW m \in Messages, Named(m)
      PROVE  /\ Count(sent, Final(m)) <= Count(admits', m.id)
             /\ m = cur => Count(sent, Final(m)) < Count(admits', m.id)
  <2>1. Count(admits', m.id) = IF cur.id = m.id THEN Count(admits, m.id) + 1 ELSE Count(admits, m.id)
    <3>1. PICK a, b, id : a = admits /\ b = admits' /\ id = cur.id
        OBVIOUS
    <3>2. a \in Seq(S) /\ b = Append(a, id)
        BY <1>1, <3>1
    <3>3. /\ id = m.id => Count(b, m.id) = Count(a, m.id) + 1
          /\ id # m.id => Count(b, m.id) = Count(a, m.id)
        BY <3>2, CountAppend
    <3> QED
        BY <3>1, <3>3
  <2>2. Count(admits, m.id) \in Nat /\ Count(sent, Final(m)) \in Nat
      BY <1>1, <1>2, CountNat
  <2>3. Count(sent, Final(m)) <= Count(admits, m.id)
      BY <1>5 DEF AnswerInv
  <2> QED
      BY <2>1, <2>2, <2>3
<1>6. \A m : Final(m)' = Final(m)
    BY DEF Final
<1>7. \A m \in Messages : Named(m) => Count(sent', <<"final", m.uid, crashes'>>) <= Count(admits', m.id)
    BY <1>5 DEF Final
<1>8. pc' \in Unanswered /\ Named(cur') =>
        Count(sent', <<"final", cur'.uid, crashes'>>) < Count(admits', cur'.id)
    BY <1>5 DEF Final
<1> QED
    BY <1>2, <1>4, <1>7, <1>8 DEF AnswerInv, Final

(* A text is sent; the final one only while it is still to come.           *)
LEMMA AnswerSends ==
    ASSUME AnswerInv, UNCHANGED <<admits, crashes>>, cur \in Messages,
           NEW kind, Say(kind),
           \/ kind = "draft" /\ pc \in Unanswered /\ cur' = cur
           \/ kind = "final" /\ pc \in Unanswered /\ pc' \notin Unanswered
    PROVE  AnswerInv'
<1>1. PICK S : admits \in Seq(S)
    BY DEF AnswerInv
<1>2. PICK T : sent \in Seq(T)
    BY DEF AnswerInv
<1>3. PICK n \in Nat : n = Len(sent)
    BY <1>2, LenProperties
<1>4. PICK x : x = <<kind, cur.uid, crashes>>
    OBVIOUS
<1>5. sent' = Append(sent, x)
    BY <1>4 DEF Say
<1>6. sent' \in Seq(T \cup {x}) /\ DOMAIN sent' = 1..(n + 1) /\ DOMAIN sent = 1..n /\ sent'[n + 1] = x
      /\ \A i \in 1..n : sent'[i] = sent[i]
    BY <1>2, <1>3, <1>5, AppendOne
<1>7. \A i \in DOMAIN sent' : sent'[i][3] \in Nat /\ sent'[i][3] <= crashes
  <2>1. x[3] = crashes /\ crashes \in Nat
      BY <1>4 DEF AnswerInv
  <2>2. ASSUME NEW i \in 1..(n + 1) PROVE sent'[i][3] \in Nat /\ sent'[i][3] <= crashes
    <3>1. CASE i = n + 1
        BY <1>6, <2>1, <3>1
    <3>2. CASE i # n + 1
      <4>1. i \in 1..n
          BY <3>2
      <4> QED
          BY <1>6, <4>1 DEF AnswerInv
    <3> QED
        BY <3>1, <3>2
  <2> QED
      BY <1>6, <2>2
<1>8. ASSUME NEW m \in Messages
      PROVE  /\ Count(sent', Final(m)) = IF x = Final(m) THEN Count(sent, Final(m)) + 1 ELSE Count(sent, Final(m))
             /\ Count(sent, Final(m)) \in Nat /\ Count(admits, m.id) \in Nat
  <2>1. PICK a, b, f : a = sent /\ b = sent' /\ f = Final(m)
      OBVIOUS
  <2>2. a \in Seq(T) /\ b = Append(a, x)
      BY <1>2, <1>5, <2>1
  <2>3. (x = f => Count(b, f) = Count(a, f) + 1) /\ (x # f => Count(b, f) = Count(a, f))
      BY <2>2, CountAppend
  <2>4. Count(a, f) \in Nat /\ Count(admits, m.id) \in Nat
      BY <1>1, <2>2, CountNat
  <2> QED
      BY <2>1, <2>3, <2>4
<1>9. CASE kind = "draft" /\ pc \in Unanswered /\ cur' = cur
  <2>1. \A m \in Messages : x # Final(m)
      BY <1>4, <1>9 DEF Final
  <2>2. \A m \in Messages : Count(sent', Final(m)) = Count(sent, Final(m))
      BY <1>8, <2>1
  <2>3. \A m \in Messages : Named(m) => Count(sent', <<"final", m.uid, crashes'>>) <= Count(admits', m.id)
      BY <2>2 DEF AnswerInv, Final
  <2>4. Named(cur') => Count(sent', <<"final", cur'.uid, crashes'>>) < Count(admits', cur'.id)
      BY <1>9, <2>2 DEF AnswerInv, Final
  <2> QED
      BY <1>1, <1>6, <1>7, <2>3, <2>4 DEF AnswerInv, Final
<1>10. CASE kind = "final" /\ pc \in Unanswered /\ pc' \notin Unanswered
  <2>1. ASSUME NEW m \in Messages, Named(m) PROVE Count(sent', Final(m)) <= Count(admits, m.id)
    <3>1. CASE x = Final(m)
      <4>1. m.uid = cur.uid
          BY <1>4, <3>1 DEF Final
      <4>2. m = cur
          BY <4>1, MessagesAssumption
      <4>3. Count(sent, Final(m)) < Count(admits, m.id)
          BY <1>10, <2>1, <4>2 DEF AnswerInv
      <4> QED
          BY <1>8, <3>1, <4>3
    <3>2. CASE x # Final(m)
        BY <1>8, <2>1, <3>2 DEF AnswerInv
    <3> QED
        BY <3>1, <3>2
  <2>2. \A m \in Messages : Named(m) => Count(sent', <<"final", m.uid, crashes'>>) <= Count(admits', m.id)
      BY <2>1 DEF Final
  <2> QED
      BY <1>1, <1>6, <1>7, <1>10, <2>2 DEF AnswerInv, Final
<1> QED
    BY <1>9, <1>10

(* A new life has sent nothing yet.                                        *)
LEMMA AnswerCrash ==
    ASSUME AnswerInv, Crash
    PROVE  AnswerInv'
<1>1. /\ crashes' = crashes + 1 /\ admits' = <<>> /\ sent' = sent /\ pc' = "dead" /\ crashes \in Nat
    BY DEF Crash, AnswerInv
<1>2. <<>> \in Seq({})
    BY EmptySeq
<1>3. PICK T : sent \in Seq(T)
    BY DEF AnswerInv
<1>4. ASSUME NEW m \in Messages
      PROVE  Count(sent', <<"final", m.uid, crashes'>>) <= Count(admits', m.id)
  <2>1. PICK f : f = <<"final", m.uid, crashes + 1>>
      OBVIOUS
  <2>2. f[3] = crashes + 1
      BY <2>1
  <2>3. ASSUME NEW i \in DOMAIN sent PROVE sent[i] # f
    <3>1. sent[i][3] \in Nat /\ sent[i][3] <= crashes
        BY DEF AnswerInv
    <3>2. sent[i][3] # crashes + 1
        BY <1>1, <3>1
    <3> QED
        BY <2>2, <3>2
  <2>4. {i \in DOMAIN sent : sent[i] = f} = {}
      BY <2>3
  <2>5. Count(sent, f) = 0
      BY <2>4, FS_EmptySet DEF Count
  <2>6. Count(<<>>, m.id) = 0
      BY CountEmpty
  <2>7. 0 <= 0
      OBVIOUS
  <2> QED
      BY <1>1, <2>1, <2>5, <2>6, <2>7
<1>5. \A i \in DOMAIN sent' : sent'[i][3] \in Nat /\ sent'[i][3] <= crashes'
  <2>1. ASSUME NEW i \in DOMAIN sent PROVE sent[i][3] \in Nat /\ sent[i][3] <= crashes + 1
    <3>1. sent[i][3] \in Nat /\ sent[i][3] <= crashes
        BY DEF AnswerInv
    <3> QED
        BY <1>1, <3>1
  <2> QED
      BY <1>1, <2>1
<1>6. crashes' \in Nat /\ pc' \notin Unanswered
    BY <1>1 DEF Unanswered
<1> QED
    BY <1>1, <1>2, <1>3, <1>4, <1>5, <1>6 DEF AnswerInv, Final

LEMMA AnswerStep ==
    ASSUME FlowInv, AnswerInv, [Next]_vars
    PROVE  AnswerInv'
<1> USE DEF Unanswered
<1>1. CASE UNCHANGED vars \/ \E m \in Messages : Arrive(m)
    BY <1>1, AnswerKept DEF Arrive, vars, flow, ghost, count
<1>2. CASE Crash
    BY <1>2, AnswerCrash
<1>3. CASE Restart
  <2>1. UNCHANGED <<sent, admits>> /\ pc' \in {"idle", "dead"} /\ (Works \/ Breaks)
      BY <1>3 DEF Restart, Goto, flow
  <2> QED
      BY <2>1, AnswerKept, Outcome
<1>4. CASE Admit
  <2>1. UNCHANGED sent /\ (Works \/ Breaks) /\ cur \in Messages
      BY <1>4 DEF Admit, FlowInv, InCall
  <2>2. crashes' = crashes
      BY <2>1, Outcome
  <2>3. /\ pc' \in {"draft", "idle", "listen", "stopped"}
        /\ pc' = "draft" => cur' = cur
      BY <1>4 DEF Admit, Goto, NextChannel, NextRole, PollError, PollErrorOrTimeout
  <2>4. CASE Named(cur) /\ admits' = Append(admits, cur.id)
      BY <2>1, <2>2, <2>3, <2>4, AnswerAdmits
  <2>5. CASE UNCHANGED admits /\ (~Named(cur) \/ pc' # "draft")
    <3>1. pc' \in Unanswered => ~Named(cur')
        BY <2>3, <2>5
    <3> QED
        BY <2>1, <2>2, <2>5, <3>1 DEF AnswerInv, Final
  <2>6. \/ Named(cur) /\ admits' = Append(admits, cur.id)
        \/ UNCHANGED admits /\ (~Named(cur) \/ pc' # "draft")
    <3>1. CASE Breaks /\ PollError /\ UNCHANGED admits
        BY <3>1 DEF PollError, PollErrorOrTimeout, NextChannel, NextRole
    <3>2. CASE admits' = IF cur.id = "" THEN admits ELSE Append(admits, cur.id)
        BY <3>2, Zenon DEF Named
    <3> QED
        BY <1>4, <3>1, <3>2, Zenon DEF Admit
  <2> QED
      BY <2>4, <2>5, <2>6
<1>5. CASE \/ StartPass \/ ListenEmpty \/ Listen \/ Duplicate \/ BuildInput \/ AgentRuns \/ SendAttachment
           \/ AppendHistory \/ WriteJsonl \/ UpsertMeta \/ InsertRow
  <2>1. UNCHANGED <<sent, admits>> /\ (Works \/ Breaks \/ UNCHANGED count)
      BY <1>5 DEF StartPass, ListenEmpty, Listen, Duplicate, BuildInput, AgentRuns, SendAttachment, AppendHistory,
                  WriteJsonl, UpsertMeta, InsertRow, ghost
  <2>2. pc' \in Unanswered => pc \in Unanswered /\ cur' = cur
      BY <1>5 DEF StartPass, ListenEmpty, Listen, Duplicate, BuildInput, AgentRuns, SendAttachment, AppendHistory,
                  WriteJsonl, UpsertMeta, InsertRow, Goto, NextChannel, NextRole, PollError, PollErrorOrTimeout
  <2> QED
      BY <2>1, <2>2, AnswerKept, Outcome
<1>6. CASE SendDraft
  <2>1. UNCHANGED admits /\ (Works \/ Breaks) /\ cur \in Messages /\ pc = "draft" /\ cur' = cur
        /\ (Say("draft") \/ UNCHANGED sent)
      BY <1>6 DEF SendDraft, FlowInv, InCall, Goto, ghost
  <2> QED
      BY <2>1, AnswerKept, AnswerSends, Outcome
<1>7. CASE SendSorry \/ SendReply
  <2>1. UNCHANGED admits /\ (Works \/ Breaks) /\ cur \in Messages /\ pc \in {"sorry", "reply"}
        /\ (Say("final") \/ UNCHANGED sent)
      BY <1>7 DEF SendSorry, SendReply, FlowInv, InCall, ghost
  <2>2. pc' \notin Unanswered
      BY <1>7 DEF SendSorry, SendReply, Goto, NextChannel, NextRole, PollError, PollErrorOrTimeout
  <2> QED
      BY <2>1, <2>2, AnswerKept, AnswerSends, Outcome
<1> QED
    BY <1>1, <1>2, <1>3, <1>4, <1>5, <1>6, <1>7 DEF Next, Poll

LEMMA AnswerInit == ASSUME Init PROVE AnswerInv
<1>1. sent = <<>> /\ admits = <<>> /\ crashes = 0 /\ pc = "idle"
    BY DEF Init
<1>2. <<>> \in Seq({}) /\ DOMAIN <<>> = {} /\ 0 \in Nat
    BY EmptySeq
<1>3. \A v : Count(<<>>, v) = 0
    BY CountEmpty
<1>4. \A v, w : Count(<<>>, v) <= Count(<<>>, w)
    BY <1>3
<1> QED
    BY <1>1, <1>2, <1>4 DEF AnswerInv, Unanswered

(* On every path through the call a message that has an id gets at most    *)
(* one final text, the answer or the apology, for each time its id was     *)
(* admitted in this life (sc_channel_orchestrator_process).                *)
THEOREM OneAnswerPerAdmissionHolds == Spec => []OneAnswerPerAdmission
<1>1. FlowInv /\ AnswerInv /\ [Next]_vars => FlowInv' /\ AnswerInv'
    BY FlowStep, AnswerStep
<1>2. AnswerInv => OneAnswerPerAdmission
    BY Zenon DEF AnswerInv, OneAnswerPerAdmission, Times, Count, Final, Named
<1> QED
    BY <1>1, <1>2, AnswerInit, FlowInit, PTL DEF Spec

-----------------------------------------------------------------------------
(* How many rows of a session key there are.                               *)
KeyCount(s, k) == Cardinality({i \in DOMAIN s : s[i][1] = k})

LEMMA KeyNat ==
    ASSUME NEW S, NEW s \in Seq(S), NEW k
    PROVE  KeyCount(s, k) \in Nat /\ IsFiniteSet({i \in DOMAIN s : s[i][1] = k})
<1>1. IsFiniteSet(1..Len(s)) /\ DOMAIN s = 1..Len(s)
    BY FS_Interval, LenProperties
<1>2. IsFiniteSet({i \in DOMAIN s : s[i][1] = k})
    BY <1>1, FS_Subset
<1> QED
    BY <1>2, FS_CardinalityType DEF KeyCount

LEMMA KeyAppend ==
    ASSUME NEW S, NEW s \in Seq(S), NEW x, NEW k
    PROVE  /\ x[1] = k => KeyCount(Append(s, x), k) = KeyCount(s, k) + 1
           /\ x[1] # k => KeyCount(Append(s, x), k) = KeyCount(s, k)
<1>0. PICK t : t = Append(s, x)
    OBVIOUS
<1>1. PICK n \in Nat : n = Len(s)
    BY LenProperties
<1>2. DOMAIN t = 1..(n + 1) /\ DOMAIN s = 1..n /\ t[n + 1] = x /\ \A i \in 1..n : t[i] = s[i]
    BY <1>0, <1>1, AppendOne
<1>3. 1..(n + 1) = 1..n \cup {n + 1} /\ n + 1 \notin 1..n
    OBVIOUS
<1>4. CASE x[1] = k
  <2>1. {i \in DOMAIN t : t[i][1] = k} = {i \in DOMAIN s : s[i][1] = k} \cup {n + 1}
      BY <1>2, <1>3, <1>4
  <2>2. n + 1 \notin {i \in DOMAIN s : s[i][1] = k}
      BY <1>2, <1>3
  <2>3. IsFiniteSet({i \in DOMAIN s : s[i][1] = k})
      BY KeyNat
  <2>4. Cardinality({i \in DOMAIN t : t[i][1] = k}) = Cardinality({i \in DOMAIN s : s[i][1] = k}) + 1
      BY <2>1, <2>2, <2>3, AddOne
  <2> QED
      BY <1>0, <1>4, <2>4 DEF KeyCount
<1>5. CASE x[1] # k
  <2>1. {i \in DOMAIN t : t[i][1] = k} = {i \in DOMAIN s : s[i][1] = k}
      BY <1>2, <1>3, <1>5
  <2> QED
      BY <1>0, <1>5, <2>1 DEF KeyCount
<1> QED
    BY <1>4, <1>5

(* An entry joins a store: an answer after its question.                   *)
Asked(a, x) == x[2] = "assistant" => Len(a) > 0 /\ a[Len(a)] = <<x[1], "user", x[3]>>

EndsWith(S, b, x) == b \in Seq(S \cup {x}) /\ Paired(b) /\ Len(b) > 0 /\ b[Len(b)] = x

LEMMA PairedAppend ==
    ASSUME NEW S, NEW a \in Seq(S), NEW x, NEW b, b = Append(a, x), Paired(a), Asked(a, x)
    PROVE  EndsWith(S, b, x)
<1>1. PICK n \in Nat : n = Len(a)
    BY LenProperties
<1>2. PICK key, uid : key = x[1] /\ uid = x[3]
    OBVIOUS
<1>3. /\ b \in Seq(S \cup {x}) /\ Len(b) = n + 1 /\ DOMAIN b = 1..(n + 1)
      /\ DOMAIN a = 1..n /\ b[n + 1] = x /\ \A i \in 1..n : b[i] = a[i]
    BY <1>1, <1>2, AppendOne
<1>4. ASSUME NEW i \in 1..(n + 1), b[i][2] = "assistant"
      PROVE  i > 1 /\ b[i - 1] = <<b[i][1], "user", b[i][3]>>
  <2>1. CASE i # n + 1
    <3>1. i \in 1..n
        BY <2>1
    <3>2. b[i] = a[i]
        BY <1>3, <3>1
    <3>3. i > 1 /\ a[i - 1] = <<a[i][1], "user", a[i][3]>>
        BY <1>3, <1>4, <3>1, <3>2 DEF Paired
    <3>4. i - 1 \in 1..n
        BY <3>1, <3>3
    <3> QED
        BY <1>3, <3>2, <3>3, <3>4
  <2>2. CASE i = n + 1
    <3>1. x[2] = "assistant" /\ b[i][1] = key /\ b[i][3] = uid
        BY <1>2, <1>3, <1>4, <2>2
    <3>2. n > 0 /\ a[n] = <<key, "user", uid>>
        BY <1>1, <1>2, <3>1 DEF Asked
    <3>3. n \in 1..n /\ i - 1 = n /\ i > 1
        BY <2>2, <3>2
    <3> QED
        BY <1>3, <3>1, <3>2, <3>3
  <2> QED
      BY <2>1, <2>2
<1>5. Paired(b)
    BY <1>3, <1>4 DEF Paired
<1>6. n + 1 > 0
    OBVIOUS
<1> QED
    BY <1>3, <1>5, <1>6 DEF EndsWith

(* The store in use between two writes: the metadata is ahead of the rows  *)
(* by the message in progress once it is counted, and an answer in         *)
(* progress has its question in the last entry.                            *)
UserRow == <<BuildKey(cur), "user", cur.uid>>

Follows(file) == Len(file) > 0 /\ file[Len(file)] = UserRow

StoreInv ==
    /\ (\E S : jsonl \in Seq(S)) /\ (\E S : rows \in Seq(S)) /\ meta \in [Keys -> Nat]
    /\ opts.backend # "jsonl" => jsonl = <<>>
    /\ opts.backend # "sqlite" => rows = <<>>
    /\ \A k \in Keys : KeyCount(rows, k) <= meta[k]
    /\ pc = "row" => KeyCount(rows, BuildKey(cur)) < meta[BuildKey(cur)]
    /\ role = "assistant" /\ opts.backend = "sqlite" => Follows(rows)
    /\ role = "assistant" /\ opts.backend = "jsonl" => Follows(jsonl)
    /\ Paired(jsonl) /\ Paired(rows)

(* A step that writes none of the stores.                                  *)
LEMMA StoreKept ==
    ASSUME StoreInv, UNCHANGED <<disk, opts>>, pc' # "row",
           role' = "assistant" /\ opts.backend # "none" => role = "assistant" /\ cur' = cur
    PROVE  StoreInv'
BY DEF StoreInv, disk, UserRow, Paired, Follows

(* A line of the JSONL file is written, and perhaps reported as failed.    *)
LEMMA StoreLine ==
    ASSUME StoreInv, FlowInv, WriteJsonl, UNCHANGED opts, jsonl' = Append(jsonl, Entry)
    PROVE  StoreInv'
<1>0. pc = "jsonl" /\ UNCHANGED <<rows, meta>> /\ opts.backend = "jsonl"
    BY DEF WriteJsonl, FlowInv
<1>1. PICK S : jsonl \in Seq(S)
    BY DEF StoreInv
<1>2. PICK key, a, b, x : key = BuildKey(cur) /\ a = jsonl /\ b = jsonl' /\ x = <<key, role, cur.uid>>
    OBVIOUS
<1>3. a \in Seq(S) /\ b = Append(a, x) /\ Paired(a) /\ Asked(a, x)
    BY <1>0, <1>1, <1>2 DEF Entry, StoreInv, UserRow, Follows, Asked
<1>4. Paired(b) /\ Len(b) > 0 /\ b[Len(b)] = x /\ b \in Seq(S \cup {x})
    BY <1>3, PairedAppend DEF EndsWith
<1>5. pc' # "row" /\ (role' = "assistant" => role = "user" /\ cur' = cur)
    BY <1>0 DEF WriteJsonl, NextRole, PollError, NextChannel, FlowInv
<1>6. role' = "assistant" => Follows(jsonl)'
    BY <1>2, <1>4, <1>5 DEF Follows, UserRow
<1>7. Paired(jsonl)' /\ Paired(rows)'
    BY <1>0, <1>2, <1>4 DEF StoreInv, Paired
<1>8. \E U : jsonl' \in Seq(U)
    BY <1>2, <1>4
<1>9. /\ (\E U : rows' \in Seq(U)) /\ meta' \in [Keys -> Nat] /\ (\A k \in Keys : KeyCount(rows', k) <= meta'[k])
      /\ opts'.backend = "jsonl" /\ rows' = <<>>
    BY <1>0 DEF StoreInv
<1> QED
    BY <1>5, <1>6, <1>7, <1>8, <1>9 DEF StoreInv

(* The metadata counts the message in progress.                            *)
LEMMA StoreMeta ==
    ASSUME StoreInv, FlowInv, UpsertMeta, UNCHANGED opts
    PROVE  StoreInv'
<1>0. pc = "meta" /\ UNCHANGED <<rows, jsonl>>
    BY DEF UpsertMeta
<1>1. cur \in Messages /\ BuildKey(cur) \in Keys
    BY <1>0 DEF FlowInv, InCall, Storing, Keys
<1>2. PICK R : rows \in Seq(R)
    BY DEF StoreInv
<1>3. CASE meta' = [meta EXCEPT ![BuildKey(cur)] = @ + 1] /\ Goto("row")
  <2>1. pc' = "row" /\ UNCHANGED <<cur, role>>
      BY <1>3 DEF Goto
  <2>2. PICK key, m : key = BuildKey(cur) /\ m = meta
      OBVIOUS
  <2>3. m \in [Keys -> Nat] /\ key \in Keys /\ meta' = [m EXCEPT ![key] = m[key] + 1]
      BY <1>1, <1>3, <2>2 DEF StoreInv
  <2>4. ASSUME NEW k \in Keys
        PROVE  KeyCount(rows, k) <= meta'[k] /\ (k = key => KeyCount(rows, k) < meta'[k])
    <3>1. KeyCount(rows, k) \in Nat /\ KeyCount(rows, k) <= m[k]
        BY <1>2, <2>2, KeyNat DEF StoreInv
    <3>2. m[k] \in Nat /\ meta'[k] = IF k = key THEN m[k] + 1 ELSE m[k]
        BY <2>3
    <3> QED
        BY <3>1, <3>2
  <2>5. meta' \in [Keys -> Nat]
      BY <2>3
  <2>6. UserRow' = UserRow /\ BuildKey(cur)' = key
      BY <1>0, <2>1, <2>2 DEF UserRow
  <2>7. Paired(rows)' /\ Paired(jsonl)' /\ Follows(rows)' = Follows(rows) /\ Follows(jsonl)' = Follows(jsonl)
      BY <1>0, <2>6 DEF StoreInv, Paired, Follows
  <2>8. KeyCount(rows', BuildKey(cur')) < meta'[BuildKey(cur')]
      BY <1>0, <2>1, <2>2, <2>3, <2>4
  <2> QED
      BY <1>0, <2>1, <2>4, <2>5, <2>6, <2>7, <2>8 DEF StoreInv
<1>4. CASE UNCHANGED meta /\ PollError
    BY <1>0, <1>4, StoreKept DEF PollError, NextChannel, disk
<1> QED
    BY <1>3, <1>4 DEF UpsertMeta

(* A row is inserted: the count it needs is there already.                 *)
LEMMA StoreRow ==
    ASSUME StoreInv, FlowInv, UNCHANGED opts, InsertRow, rows' = Append(rows, Entry)
    PROVE  StoreInv'
<1>0. pc = "row" /\ UNCHANGED <<jsonl, meta>> /\ opts.backend = "sqlite"
    BY DEF InsertRow, FlowInv
<1>1. PICK R : rows \in Seq(R)
    BY DEF StoreInv
<1>2. PICK key, a, b, x : key = BuildKey(cur) /\ a = rows /\ b = rows' /\ x = <<key, role, cur.uid>>
    OBVIOUS
<1>3. a \in Seq(R) /\ b = Append(a, x) /\ Paired(a) /\ Asked(a, x)
    BY <1>0, <1>1, <1>2 DEF Entry, StoreInv, UserRow, Follows, Asked
<1>4. Paired(b) /\ Len(b) > 0 /\ b[Len(b)] = x /\ b \in Seq(R \cup {x})
    BY <1>3, PairedAppend DEF EndsWith
<1>5. ASSUME NEW k \in Keys PROVE KeyCount(b, k) <= meta[k]
  <2>1. (x[1] = k => KeyCount(b, k) = KeyCount(a, k) + 1) /\ (x[1] # k => KeyCount(b, k) = KeyCount(a, k))
      BY <1>3, KeyAppend
  <2>2. KeyCount(a, k) \in Nat /\ meta[k] \in Nat
      BY <1>3, KeyNat DEF StoreInv
  <2>3. KeyCount(a, k) <= meta[k] /\ (k = key => KeyCount(a, k) < meta[k])
      BY <1>0, <1>2 DEF StoreInv
  <2>4. x[1] = key
      BY <1>2
  <2> QED
      BY <2>1, <2>2, <2>3, <2>4
<1>6. pc' # "row" /\ (role' = "assistant" => role = "user" /\ cur' = cur)
    BY <1>0 DEF InsertRow, NextRole, NextChannel, PollError, FlowInv
<1>7. role' = "assistant" => Follows(rows)'
    BY <1>2, <1>4, <1>6 DEF Follows, UserRow
<1>8. Paired(jsonl)' /\ Paired(rows)'
    BY <1>0, <1>2, <1>4 DEF StoreInv, Paired
<1>9. \E U : rows' \in Seq(U)
    BY <1>2, <1>4
<1>10. /\ (\E U : jsonl' \in Seq(U)) /\ meta' \in [Keys -> Nat] /\ (\A k \in Keys : KeyCount(rows', k) <= meta'[k])
       /\ opts'.backend = "sqlite" /\ jsonl' = <<>>
    BY <1>0, <1>2, <1>5 DEF StoreInv
<1> QED
    BY <1>6, <1>7, <1>8, <1>9, <1>10 DEF StoreInv

LEMMA StoreStep ==
    ASSUME FlowInv, StoreInv, opts.backend \in Backends, [Next]_vars
    PROVE  StoreInv'
<1>1. CASE UNCHANGED vars \/ \E m \in Messages : Arrive(m)
  <2>1. UNCHANGED <<disk, opts, pc, cur, role>>
      BY <1>1 DEF Arrive, vars, flow
  <2>2. UNCHANGED <<jsonl, rows, meta>> /\ UserRow' = UserRow
      BY <2>1 DEF disk, UserRow
  <2>3. Paired(rows)' /\ Paired(jsonl)' /\ Follows(rows)' = Follows(rows) /\ Follows(jsonl)' = Follows(jsonl)
      BY <2>2 DEF StoreInv, Paired, Follows
  <2> QED
      BY <2>1, <2>2, <2>3 DEF StoreInv
<1>2. CASE Crash \/ Restart
  <2>1. UNCHANGED <<disk, opts>> /\ pc' \in {"dead", "idle"}
        /\ (role' = "assistant" => role = "assistant" /\ cur' = cur)
      BY <1>2 DEF Crash, Restart, Goto, flow
  <2> QED
      BY <2>1, StoreKept
<1>3. CASE Poll
  <2>0. UNCHANGED opts
      BY <1>3 DEF Poll
  <2>1. CASE \/ StartPass \/ ListenEmpty \/ Listen \/ Duplicate \/ Admit \/ SendDraft
             \/ BuildInput \/ AgentRuns \/ SendSorry \/ SendReply \/ SendAttachment
    <3>1. UNCHANGED disk /\ pc \notin Storing
        BY <2>1 DEF StartPass, ListenEmpty, Listen, Duplicate, Admit, SendDraft, BuildInput, AgentRuns,
                    SendSorry, SendReply, SendAttachment, Storing
    <3>2. pc' # "row" /\ role' \in {role, "user"}
        BY <2>1 DEF StartPass, ListenEmpty, Listen, Duplicate, Admit, SendDraft, BuildInput, AgentRuns,
                    SendSorry, SendReply, SendAttachment, Goto, NextChannel, PollError, PollErrorOrTimeout
    <3>3. role' # "assistant"
        BY <3>1, <3>2 DEF FlowInv
    <3> QED
        BY <2>0, <3>1, <3>2, <3>3, StoreKept
  <2>2. CASE AppendHistory
    <3>1. UNCHANGED disk /\ pc' # "row"
          /\ (role' = "assistant" /\ opts.backend # "none" => role = "assistant" /\ cur' = cur)
        BY <2>2 DEF AppendHistory, Goto, NextChannel, NextRole, PollError
    <3> QED
        BY <2>0, <3>1, StoreKept
  <2>3. CASE WriteJsonl
    <3>1. CASE jsonl' = Append(jsonl, Entry)
        BY <2>0, <2>3, <3>1, StoreLine
    <3>2. CASE UNCHANGED jsonl /\ PollError
      <4>1. UNCHANGED disk /\ pc' # "row" /\ role' = "user"
          BY <2>3, <3>2 DEF WriteJsonl, PollError, NextChannel, disk
      <4> QED
          BY <2>0, <4>1, StoreKept
    <3> QED
        BY <2>3, <3>1, <3>2 DEF WriteJsonl
  <2>4. CASE UpsertMeta
      BY <2>0, <2>4, StoreMeta
  <2>5. CASE InsertRow
    <3>1. CASE rows' = Append(rows, Entry)
        BY <2>0, <2>5, <3>1, StoreRow
    <3>2. CASE UNCHANGED rows /\ PollError
      <4>1. UNCHANGED disk /\ pc' # "row" /\ role' = "user"
          BY <2>5, <3>2 DEF InsertRow, PollError, NextChannel, disk
      <4> QED
          BY <2>0, <4>1, StoreKept
    <3> QED
        BY <2>5, <3>1, <3>2 DEF InsertRow
  <2> QED
      BY <1>3, <2>1, <2>2, <2>3, <2>4, <2>5 DEF Poll
<1> QED
    BY <1>1, <1>2, <1>3 DEF Next

LEMMA StoresAgreeNow == StoreInv => StoresAgree
BY Zenon DEF StoreInv, StoresAgree, Times, KeyCount

LEMMA StoreInit == ASSUME Init PROVE StoreInv
<1>1. jsonl = <<>> /\ rows = <<>> /\ meta = [k \in Keys |-> 0] /\ pc = "idle" /\ role = "user"
    BY DEF Init
<1>2. <<>> \in Seq({}) /\ DOMAIN <<>> = {} /\ 0 \in Nat /\ 0 <= 0
    BY EmptySeq
<1>3. \A k : KeyCount(<<>>, k) = 0
  <3>1. \A k : {i \in DOMAIN <<>> : <<>>[i][1] = k} = {}
      BY <1>2
  <3> QED
      BY <3>1, FS_EmptySet DEF KeyCount
<1>4. \A k \in Keys : KeyCount(rows, k) <= meta[k]
    BY <1>1, <1>2, <1>3
<1> QED
    BY <1>1, <1>2, <1>4 DEF StoreInv, Paired

(* Whatever fails or crashes between the writes, in the session store that *)
(* is configured, SQLite tables or JSONL file, an answer directly follows   *)
(* its question and the metadata counts at least the rows of each key; the *)
(* store that is not configured stays empty (persist_session_message,      *)
(* persist_session_jsonl, persist_session_sqlite).                         *)
THEOREM StoresAgreeHolds == Spec => []StoresAgree
<1> DEFINE Inv == FlowInv /\ StoreInv /\ opts.backend \in Backends
<1>1. Inv /\ [Next]_vars => Inv'
  <2>1. [Next]_vars => UNCHANGED opts
      BY DEF Next, Poll, Crash, Restart, Arrive, vars
  <2> QED
      BY <2>1, FlowStep, StoreStep
<1>2. Init => Inv
    BY StoreInit, FlowInit, SettingsAssumption DEF Init
<1> QED
    BY <1>1, <1>2, StoresAgreeNow, PTL DEF Spec

-----------------------------------------------------------------------------
(* A set of numbers has a least one.                                       *)
LEMMA LowestOf ==
    ASSUME NEW T, T \subseteq Nat, T # {}
    PROVE  \E m \in T : \A y \in T : m <= y
<1>1. \E m \in T : \A y \in T : ~ (<<y, m>> \in OpToRel(<, Nat))
    BY NatLessThanWellFounded, WFMin
<1>2. ASSUME NEW y \in T, NEW m \in T, ~ (<<y, m>> \in OpToRel(<, Nat)) PROVE m <= y
  <2>1. ~ (y < m)
      BY <1>2 DEF OpToRel
  <2> QED
      BY <2>1
<1> QED
    BY <1>1, <1>2

(* Induction up to a number, over the set of those for which a claim holds. *)
LEMMA UpTo ==
    ASSUME NEW N \in Nat, NEW G, 0 \in G, \A n \in 1..N : n - 1 \in G => n \in G
    PROVE  N \in G
<1> SUFFICES ASSUME N \notin G PROVE FALSE
    OBVIOUS
<1>1. PICK T : T = (0..N) \ G
    OBVIOUS
<1>2. T \subseteq Nat /\ T # {}
    BY <1>1
<1>3. PICK m \in T : \A y \in T : m <= y
    BY <1>2, LowestOf
<1>4. m \in 1..N /\ m - 1 \in 0..N /\ m \notin G
    BY <1>1, <1>3
<1>5. m - 1 \notin T
    BY <1>3, <1>4
<1> QED
    BY <1>1, <1>4, <1>5

(* The loop of load_session_history_sqlite: the histories after each row.  *)
RowEntry(r) == <<r[2], r[3]>>

Rounds(table, m, g) ==
    g = [n \in 0..m |->
            IF n = 0 THEN [s \in Scopes |-> <<>>]
            ELSE ReadRow(g[n - 1], table[n])]

Runs(table, m, g) ==
    /\ g[0] = [s \in Scopes |-> <<>>]
    /\ \A n \in 1..m : g[n] = ReadRow(g[n - 1], table[n])

LEMMA ReloadRuns ==
    ASSUME NEW table, Len(table) \in Nat
    PROVE  \E g : Runs(table, Len(table), g) /\ Reload(table) = g[Len(table)]
<1> DEFINE G == {m \in 0..Len(table) : \E g : Rounds(table, m, g)}
<1>1. 0 \in G
  <2>1. PICK g : g = [n \in 0..0 |-> [s \in Scopes |-> <<>>]]
      OBVIOUS
  <2>2. Rounds(table, 0, g)
      BY <2>1 DEF Rounds
  <2> QED
      BY <2>2
<1>2. ASSUME NEW m \in 1..Len(table), m - 1 \in G PROVE m \in G
  <2>1. PICK g : Rounds(table, m - 1, g)
      BY <1>2
  <2>2. PICK v : v = ReadRow(g[m - 1], table[m])
      OBVIOUS
  <2>3. PICK h : h = [n \in 0..m |-> IF n = m THEN v ELSE g[n]]
      OBVIOUS
  <2>4. \A n \in 0..(m - 1) : h[n] = g[n]
      BY <2>3
  <2>5. ASSUME NEW n \in 0..m
        PROVE  h[n] = IF n = 0 THEN [s \in Scopes |-> <<>>]
                      ELSE ReadRow(h[n - 1], table[n])
    <3>1. CASE n = m
      <4>1. h[n] = v /\ n # 0 /\ n - 1 \in 0..(m - 1)
          BY <2>3, <3>1
      <4>2. h[n - 1] = g[m - 1]
          BY <2>4, <3>1, <4>1
      <4> QED
          BY <2>2, <3>1, <4>1, <4>2
    <3>2. CASE n # m
      <4>1. n \in 0..(m - 1) /\ (n # 0 => n - 1 \in 0..(m - 1))
          BY <3>2
      <4>2. g[n] = IF n = 0 THEN [s \in Scopes |-> <<>>]
                   ELSE ReadRow(g[n - 1], table[n])
          BY <2>1, <4>1 DEF Rounds
      <4> QED
          BY <2>4, <4>1, <4>2
    <3> QED
        BY <3>1, <3>2
  <2>6. Rounds(table, m, h)
      BY <2>3, <2>5 DEF Rounds
  <2> QED
      BY <2>6
<1>3. \E g : Rounds(table, Len(table), g)
  <2>1. Len(table) \in G
    <3> HIDE DEF G
    <3>1. PICK N \in Nat : N = Len(table)
        OBVIOUS
    <3>2. \A n \in 1..N : n - 1 \in G => n \in G
        BY <1>2, <3>1
    <3>3. N \in G
        BY <1>1, <3>2, UpTo
    <3> QED
        BY <3>1, <3>3
  <2> QED
      BY <2>1
<1>4. PICK g : Rounds(table, Len(table), g) /\ g = CHOOSE f : Rounds(table, Len(table), f)
    BY <1>3
<1>5. Reload(table) = g[Len(table)]
    BY <1>4 DEF Reload, Rounds
<1>6. Runs(table, Len(table), g)
  <2>1. Rounds(table, Len(table), g)
      BY <1>4
  <2> HIDE <1>4
  <2>2. g[0] = [s \in Scopes |-> <<>>]
      BY <2>1 DEF Rounds
  <2>3. ASSUME NEW n \in 1..Len(table)
        PROVE  g[n] = ReadRow(g[n - 1], table[n])
    <3>1. n \in 0..Len(table) /\ n # 0
        OBVIOUS
    <3> QED
        BY <2>1, <3>1 DEF Rounds
  <2> QED
      BY <2>2, <2>3 DEF Runs
<1> QED
    BY <1>5, <1>6

(* The first rows of a longer table give the same histories.               *)
BeginAlike(a, b, k) == \A n \in 1..k : a[n] = b[n]

LEMMA RunsAgree ==
    ASSUME NEW a, NEW b, NEW k \in Nat, NEW l \in Nat, k <= l, NEW f, NEW g,
           Runs(a, k, f), Runs(b, l, g), BeginAlike(a, b, k)
    PROVE  f[k] = g[k]
<1> DEFINE G == {n \in 0..k : f[n] = g[n]}
<1>1. 0 \in G
    BY DEF Runs
<1>2. ASSUME NEW m \in 1..k, m - 1 \in G PROVE m \in G
  <2>1. m \in 1..l /\ a[m] = b[m] /\ f[m - 1] = g[m - 1]
      BY <1>2 DEF BeginAlike
  <2>2. /\ f[m] = ReadRow(f[m - 1], a[m])
        /\ g[m] = ReadRow(g[m - 1], b[m])
      BY <2>1 DEF Runs
  <2> QED
      BY <2>1, <2>2
<1>3. k \in G
  <2> HIDE DEF G
  <2> QED
      BY <1>1, <1>2, UpTo
<1> QED
    BY <1>3

(* One more row is one more message remembered.                            *)
LEMMA ReloadAppend ==
    ASSUME NEW S, NEW a \in Seq(S), NEW x, NEW b, b = Append(a, x)
    PROVE  Reload(b) = ReadRow(Reload(a), x)
<1>1. PICK n \in Nat : n = Len(a)
    BY LenProperties
<1>2. Len(b) = n + 1 /\ b[n + 1] = x /\ \A i \in 1..n : b[i] = a[i]
    BY <1>1, AppendOne
<1>3. PICK f : Runs(a, n, f) /\ Reload(a) = f[n]
    BY <1>1, ReloadRuns
<1>4. PICK l \in Nat : l = n + 1 /\ l = Len(b)
  <2>1. n + 1 \in Nat
      OBVIOUS
  <2> QED
      BY <1>2, <2>1
<1>5. PICK g : Runs(b, l, g) /\ Reload(b) = g[l]
    BY <1>4, ReloadRuns
<1>6. n <= l /\ BeginAlike(a, b, n)
    BY <1>2, <1>4 DEF BeginAlike
<1>7. f[n] = g[n]
  <2>1. Runs(a, n, f) /\ Runs(b, l, g)
      BY <1>3, <1>5
  <2> HIDE <1>3, <1>5
  <2> QED
      BY <1>6, <2>1, RunsAgree
<1>8. g[l] = ReadRow(g[n], b[l])
  <2>1. l \in 1..l /\ l - 1 = n
      BY <1>4
  <2> QED
      BY <1>5, <2>1 DEF Runs
<1>9. b[l] = x
    BY <1>2, <1>4
<1> QED
    BY <1>3, <1>5, <1>7, <1>8, <1>9

LEMMA ReloadNone == Reload(<<>>) = [s \in Scopes |-> <<>>]
<1>1. Len(<<>>) = 0
    OBVIOUS
<1>2. PICK t : t = <<>>
    OBVIOUS
<1>3. Len(t) = 0 /\ Len(t) \in Nat
    BY <1>1, <1>2
<1>4. PICK g : Runs(t, Len(t), g) /\ Reload(t) = g[Len(t)]
    BY <1>3, ReloadRuns
<1> QED
    BY <1>2, <1>3, <1>4 DEF Runs

(* A history that holds messages of a set, and is trimmed.                 *)
HistoryOf(G, h) == h \in Seq(G) /\ Len(h) <= MaxHist

LEMMA Append1Holds ==
    ASSUME NEW G, NEW h, HistoryOf(G, h), NEW e \in G
    PROVE  HistoryOf(G, Append1(h, e))
<1>1. PICK long : long = Append(h, e)
    OBVIOUS
<1>2. h \in Seq(G) /\ Len(h) \in Nat
    BY LenProperties DEF HistoryOf
<1>3. long \in Seq(G) /\ Len(long) = Len(h) + 1
    BY <1>1, <1>2, AppendProperties
<1>4. PICK k \in Nat : k = Len(long) /\ \A i \in 1..k : long[i] \in G
  <2>1. Len(long) \in Nat /\ \A i \in 1..Len(long) : long[i] \in G
      BY <1>3, LenProperties, ElementOfSeq
  <2> QED
      BY <2>1
<1>5. MaxHist \in Nat
    BY LimitsAssumption
<1>6. CASE k > MaxHist
  <2>1. PICK m \in Int : m = k - MaxHist + 1
    <3>1. k - MaxHist + 1 \in Int
        BY <1>5
    <3> QED
        BY <3>1
  <2>2. PICK t : t = SubSeq(long, m, k)
      OBVIOUS
  <2>3. Append1(h, e) = t
      BY <1>1, <1>4, <1>6, <2>1, <2>2 DEF Append1
  <2>4. \A i \in m..k : long[i] \in G
      BY <1>4, <1>5, <1>6, <2>1
  <2>5. t \in Seq(G) /\ Len(t) = IF m <= k THEN k - m + 1 ELSE 0
      BY <2>2, <2>4, SubSeqProperties
  <2>6. Len(t) <= MaxHist
      BY <1>5, <2>1, <2>5
  <2> QED
      BY <2>3, <2>5, <2>6 DEF HistoryOf
<1>7. CASE ~(k > MaxHist)
  <2>1. Append1(h, e) = long /\ Len(long) <= MaxHist
      BY <1>1, <1>4, <1>5, <1>7 DEF Append1
  <2> QED
      BY <1>3, <2>1 DEF HistoryOf
<1> QED
    BY <1>6, <1>7

(* Histories of all scopes, each with messages of a set of its own.        *)
HistoriesOf(G, hs) == DOMAIN hs = Scopes /\ \A s \in Scopes : HistoryOf(G[s], hs[s])

LEMMA RememberHolds ==
    ASSUME NEW G, NEW hs, HistoriesOf(G, hs), NEW sc \in Scopes, NEW e \in G[sc]
    PROVE  HistoriesOf(G, Remember(hs, sc, e))
<1>1. PICK v : v = Append1(hs[sc], e)
    OBVIOUS
<1>2. HistoryOf(G[sc], hs[sc])
    BY DEF HistoriesOf
<1>3. HistoryOf(G[sc], v)
    BY <1>1, <1>2, Append1Holds
<1>4. Remember(hs, sc, e) = [hs EXCEPT ![sc] = v]
    BY <1>1 DEF Remember
<1> QED
    BY <1>3, <1>4 DEF HistoriesOf

LEMMA NoHistories ==
    ASSUME NEW G
    PROVE  HistoriesOf(G, [s \in Scopes |-> <<>>])
<1>1. \A S : <<>> \in Seq(S)
    BY EmptySeq
<1>2. Len(<<>>) = 0 /\ 0 <= MaxHist
    BY LimitsAssumption
<1>3. \A s \in Scopes : HistoryOf(G[s], <<>>)
    BY <1>1, <1>2 DEF HistoryOf
<1> QED
    BY <1>3 DEF HistoriesOf

RowIn(G, r) == ValidKey(r[1]) => ParseKey(r[1]) \in Scopes /\ RowEntry(r) \in G[ParseKey(r[1])]

LEMMA ReadRowHolds ==
    ASSUME NEW G, NEW hs, HistoriesOf(G, hs), NEW r, RowIn(G, r)
    PROVE  HistoriesOf(G, ReadRow(hs, r))
<1>1. CASE ~ValidKey(r[1])
    BY <1>1 DEF ReadRow
<1>2. CASE ValidKey(r[1])
  <2>1. PICK sc, e : sc = ParseKey(r[1]) /\ e = RowEntry(r)
      OBVIOUS
  <2>2. sc \in Scopes /\ e \in G[sc]
      BY <1>2, <2>1 DEF RowIn
  <2>3. HistoriesOf(G, Remember(hs, sc, e))
      BY <2>2, RememberHolds
  <2>4. ReadRow(hs, r) = Remember(hs, sc, e)
      BY <1>2, <2>1 DEF ReadRow, RowEntry
  <2> QED
      BY <2>3, <2>4
<1> QED
    BY <1>1, <1>2

LEMMA ReloadHolds ==
    ASSUME NEW G, NEW table, Len(table) \in Nat,
           \A n \in 1..Len(table) : RowIn(G, table[n])
    PROVE  HistoriesOf(G, Reload(table))
<1>1. PICK N \in Nat : N = Len(table)
    OBVIOUS
<1>2. PICK g : Runs(table, N, g) /\ Reload(table) = g[N]
    BY <1>1, ReloadRuns
<1> DEFINE T == {n \in 0..N : HistoriesOf(G, g[n])}
<1>3. 0 \in T
    BY <1>2, NoHistories DEF Runs
<1>4. ASSUME NEW m \in 1..N, m - 1 \in T PROVE m \in T
  <2>1. PICK hs, r : hs = g[m - 1] /\ r = table[m]
      OBVIOUS
  <2>2. HistoriesOf(G, hs)
      BY <1>4, <2>1
  <2>3. RowIn(G, r)
      BY <1>1, <2>1
  <2>4. g[m] = ReadRow(hs, r)
      BY <1>2, <2>1 DEF Runs
  <2>5. HistoriesOf(G, g[m])
      BY <2>2, <2>3, <2>4, ReadRowHolds
  <2> QED
      BY <2>5
<1>5. N \in T
  <2> HIDE DEF T
  <2> QED
      BY <1>3, <1>4, UpTo
<1> QED
    BY <1>2, <1>5

-----------------------------------------------------------------------------
(* A key can be taken apart again: it is cut at its first and last '_', so *)
(* the names of channels and senders have none; those of conversations may. *)
PlainNames ==
    \A m \in Messages : /\ \E c : m.chan = <<c>>
                        /\ \E p : m.sender = <<p>>
                        /\ \E S : m.conv \in Seq(S)

(* Two names one after the other, and a name without its first and last part. *)
JoinedOf(S, a, m, b, n, t) ==
    /\ t \in Seq(S) /\ Len(t) = m + n
    /\ \A i \in 1..m : t[i] = a[i]
    /\ \A i \in 1..n : t[m + i] = b[i]

LEMMA Joined ==
    ASSUME NEW S, NEW a \in Seq(S), NEW b \in Seq(S), NEW t, t = a \o b,
           NEW m \in Nat, NEW n \in Nat, m = Len(a), n = Len(b)
    PROVE  JoinedOf(S, a, m, b, n, t)
<1>1. /\ a \o b \in Seq(S) /\ Len(a \o b) = Len(a) + Len(b)
      /\ \A i \in 1 .. Len(a) + Len(b) : (a \o b)[i] = IF i <= Len(a) THEN a[i] ELSE b[i - Len(a)]
    BY ConcatProperties
<1>2. /\ t \in Seq(S) /\ Len(t) = m + n
      /\ \A i \in 1 .. m + n : t[i] = IF i <= m THEN a[i] ELSE b[i - m]
    BY <1>1
<1>3. ASSUME NEW i \in 1..m PROVE t[i] = a[i]
    BY <1>2
<1>4. ASSUME NEW i \in 1..n PROVE t[m + i] = b[i]
  <2>1. m + i \in 1 .. m + n /\ ~(m + i <= m) /\ (m + i) - m = i
      OBVIOUS
  <2> QED
      BY <1>2, <2>1
<1> QED
    BY <1>2, <1>3, <1>4 DEF JoinedOf

LEMMA Inner ==
    ASSUME NEW S, NEW key \in Seq(S), NEW n \in Nat, Len(key) = n + 2, NEW mid, mid = SubSeq(key, 2, n + 1)
    PROVE  mid \in Seq(S) /\ Len(mid) = n /\ \A i \in 1..n : mid[i] = key[i + 1]
<1>1. PICK l : l = n + 1
    OBVIOUS
<1>2. PICK k : k = 2
    OBVIOUS
<1>3. l \in Int /\ k \in Int /\ \A i \in k..l : key[i] \in S
  <2>1. \A i \in 1..Len(key) : key[i] \in S
      BY ElementOfSeq
  <2> QED
      BY <1>1, <1>2, <2>1
<1>4. /\ SubSeq(key, k, l) \in Seq(S) /\ Len(SubSeq(key, k, l)) = IF k <= l THEN l - k + 1 ELSE 0
      /\ \A i \in 1..(l - k + 1) : SubSeq(key, k, l)[i] = key[k + i - 1]
    BY <1>3, SubSeqProperties
<1>5. mid = SubSeq(key, k, l)
    BY <1>1, <1>2
<1>6. mid \in Seq(S) /\ Len(mid) = n
    BY <1>1, <1>2, <1>4, <1>5
<1>7. ASSUME NEW i \in 1..n PROVE mid[i] = key[i + 1]
  <2>1. i \in 1..(l - k + 1) /\ k + i - 1 = i + 1
      BY <1>1, <1>2
  <2> QED
      BY <1>4, <1>5, <2>1
<1> QED
    BY <1>6, <1>7

(* The parts of a key, cut at its first and last '_'.                      *)
CutInto(key, c, p, conv) == ParseKey(key) = << <<c>>, <<p>>, conv >> /\ Head(key) = c

LEMMA KeyParts ==
    ASSUME NEW S, NEW c, NEW p, NEW conv \in Seq(S), NEW key, key = (<<c>> \o conv) \o <<p>>
    PROVE  CutInto(key, c, p, conv)
<1>1. PICK U : U = S \cup {c, p}
    OBVIOUS
<1>2. PICK a, z : a = <<c>> /\ z = <<p>>
    OBVIOUS
<1>3. a \in Seq(U) /\ z \in Seq(U) /\ Len(a) = 1 /\ Len(z) = 1 /\ a[1] = c /\ z[1] = p
    BY <1>1, <1>2
<1>4. conv \in Seq(U)
  <2>1. S \subseteq U
      BY <1>1
  <2> QED
      BY <2>1, SeqMonotonic
<1>5. PICK n \in Nat : n = Len(conv)
    BY LenProperties
<1>6. PICK t : t = a \o conv
    OBVIOUS
<1>7. PICK one : one = 1
    OBVIOUS
<1>8. PICK k : k = one + n
    OBVIOUS
<1>9. one \in Nat /\ k \in Nat /\ one = Len(a) /\ one = Len(z)
    BY <1>3, <1>7, <1>8
<1>10. t \in Seq(U) /\ Len(t) = one + n /\ (\A i \in 1..one : t[i] = a[i]) /\ \A i \in 1..n : t[one + i] = conv[i]
  <2>1. JoinedOf(U, a, one, conv, n, t)
      BY <1>3, <1>4, <1>5, <1>6, <1>9, Joined
  <2> QED
      BY <2>1 DEF JoinedOf
<1>11. key = t \o z /\ Len(t) = k
    BY <1>2, <1>6, <1>8, <1>10
<1>12. key \in Seq(U) /\ Len(key) = k + one /\ (\A i \in 1..k : key[i] = t[i]) /\ \A i \in 1..one : key[k + i] = z[i]
  <2>1. t \in Seq(U) /\ z \in Seq(U) /\ k = Len(t) /\ one = Len(z) /\ key = t \o z
      BY <1>3, <1>9, <1>10, <1>11
  <2>2. JoinedOf(U, t, k, z, one, key)
      BY <1>9, <2>1, Joined
  <2> QED
      BY <2>2 DEF JoinedOf
<1>13. Len(key) = n + 2 /\ key[1] = c /\ key[n + 2] = p
  <2>1. 1 \in 1..one /\ 1 \in 1..k /\ k + 1 = n + 2 /\ k + one = n + 2
      BY <1>7, <1>8
  <2> QED
      BY <1>3, <1>10, <1>12, <2>1
<1>14. ASSUME NEW i \in 1..n PROVE key[i + 1] = conv[i]
  <2>1. i + 1 \in 1..k /\ one + i = i + 1
      BY <1>7, <1>8
  <2> QED
      BY <1>10, <1>12, <2>1
<1>15. PICK mid : mid = SubSeq(key, 2, n + 1)
    OBVIOUS
<1>16. mid \in Seq(U) /\ Len(mid) = n /\ \A i \in 1..n : mid[i] = key[i + 1]
    BY <1>12, <1>13, <1>15, Inner
<1>17. mid = conv
  <2>1. Len(mid) = Len(conv) /\ \A i \in 1..Len(mid) : mid[i] = conv[i]
      BY <1>5, <1>14, <1>16
  <2> QED
      BY <1>4, <1>16, <2>1, SeqEqual
<1>18. Head(key) = c /\ Last(key) = p /\ Len(key) - 1 = n + 1
  <2>1. Head(key) = key[1]
      BY <1>12, <1>13
  <2> QED
      BY <1>13, <2>1 DEF Last
<1> QED
    BY <1>15, <1>17, <1>18, Zenon DEF ParseKey, CutInto

(* A restart files a message under its conversation.                       *)
Filed(m) == <<m.chan, m.sender, m.conv>>

LEMMA FiledUnder ==
    ASSUME PlainNames, NEW m \in Messages, ValidKey(BuildKey(m))
    PROVE  /\ ParseKey(BuildKey(m)) = Filed(m) /\ Filed(m) \in Scopes
           /\ m \notin Threaded => Filed(m) = ScopeOf(m)
<1>1. PICK c : m.chan = <<c>>
    BY DEF PlainNames
<1>2. PICK p : m.sender = <<p>>
    BY DEF PlainNames
<1>3. PICK S : m.conv \in Seq(S)
    BY DEF PlainNames
<1>4. PICK conv : conv = m.conv
    OBVIOUS
<1>5. PICK key : key = (<<c>> \o conv) \o <<p>>
    OBVIOUS
<1>6. BuildKey(m) = key
    BY <1>1, <1>2, <1>4, <1>5 DEF BuildKey
<1>7. conv \in Seq(S)
    BY <1>3, <1>4
<1>8. ParseKey(key) = << <<c>>, <<p>>, conv >> /\ Head(key) = c
  <2>1. CutInto(key, c, p, conv)
      BY <1>5, <1>7, KeyParts
  <2> QED
      BY <2>1 DEF CutInto
<1>9. ParseKey(BuildKey(m)) = Filed(m)
    BY <1>1, <1>2, <1>4, <1>6, <1>8 DEF Filed
<1>10. ParseKey(BuildKey(m)) \in Scopes
    BY DEF Scopes, Keys
<1>11. m \notin Threaded => Filed(m) = ScopeOf(m)
  <2>1. c # ""
      BY <1>6, <1>8 DEF ValidKey
  <2>2. <<c>>[1] = c /\ <<"">>[1] = ""
      OBVIOUS
  <2>3. m.chan # Nameless
      BY <1>1, <2>1, <2>2, Zenon DEF Nameless
  <2> QED
      BY <2>3, Zenon DEF Threaded, Filed, ScopeOf, ThreadOf, ChannelOf
<1> QED
    BY <1>9, <1>10, <1>11

-----------------------------------------------------------------------------
(* The messages that were sent a final text, and what may be in the        *)
(* histories and the files because of it.                                  *)
Roles == {"user", "assistant"}

Answered == {sent[i][2] : i \in {j \in DOMAIN sent : sent[j][1] = "final"}}

Belongs(m, s, again) == ScopeOf(m) = s \/ (again /\ m \in Threaded /\ s = Filed(m))

Fitting(ans, again) ==
    [s \in Scopes |->
        {e \in Roles \X {m.uid : m \in Messages} :
            /\ e[1] = "assistant" => e[2] \in ans
            /\ \A m \in Messages : m.uid = e[2] => Belongs(m, s, again)}]

FileRows(ans) ==
    {r \in {<<BuildKey(m), a, m.uid>> : m \in Messages, a \in Roles} :
        r[2] = "assistant" => r[3] \in ans}

LEMMA EntryFits ==
    ASSUME NEW m \in Messages, NEW a \in Roles, NEW ans, a = "assistant" => m.uid \in ans,
           NEW again, NEW s \in Scopes, Belongs(m, s, again)
    PROVE  <<a, m.uid>> \in Fitting(ans, again)[s]
<1>1. PICK e : e = <<a, m.uid>>
    OBVIOUS
<1>2. e[1] = a /\ e[2] = m.uid /\ e \in Roles \X {n.uid : n \in Messages}
    BY <1>1
<1>3. \A n \in Messages : n.uid = e[2] => Belongs(n, s, again)
    BY <1>2, MessagesAssumption
<1> QED
    BY <1>1, <1>2, <1>3 DEF Fitting

LEMMA RowFits ==
    ASSUME NEW m \in Messages, NEW a \in Roles, NEW ans, a = "assistant" => m.uid \in ans
    PROVE  <<BuildKey(m), a, m.uid>> \in FileRows(ans)
BY DEF FileRows

(* What fits still fits after more texts and a crash.                      *)
LEMMA FittingGrows ==
    ASSUME NEW ans, NEW more, ans \subseteq more, NEW again, NEW now, again => now,
           NEW hs, HistoriesOf(Fitting(ans, again), hs)
    PROVE  HistoriesOf(Fitting(more, now), hs)
<1>1. PICK G, H : G = Fitting(ans, again) /\ H = Fitting(more, now)
    OBVIOUS
<1>2. ASSUME NEW s \in Scopes PROVE G[s] \subseteq H[s]
  <2>1. ASSUME NEW m, Belongs(m, s, again) PROVE Belongs(m, s, now)
      BY <2>1 DEF Belongs
  <2> QED
      BY <1>1, <2>1 DEF Fitting
<1>3. ASSUME NEW s \in Scopes PROVE HistoryOf(H[s], hs[s])
  <2>1. PICK A, B, h : A = G[s] /\ B = H[s] /\ h = hs[s]
      OBVIOUS
  <2>2. h \in Seq(A) /\ Len(h) <= MaxHist /\ A \subseteq B
      BY <1>1, <1>2, <2>1 DEF HistoriesOf, HistoryOf
  <2>3. h \in Seq(B)
      BY <2>2, SeqMonotonic
  <2> QED
      BY <2>1, <2>2, <2>3 DEF HistoryOf
<1> QED
    BY <1>1, <1>3 DEF HistoriesOf

LEMMA FileRowsGrow ==
    ASSUME NEW ans, NEW more, ans \subseteq more, NEW t \in Seq(FileRows(ans))
    PROVE  t \in Seq(FileRows(more))
<1>1. FileRows(ans) \subseteq FileRows(more)
    BY DEF FileRows
<1> QED
    BY <1>1, SeqMonotonic

(* What the table rebuilds fits.                                           *)
LEMMA ReloadFits ==
    ASSUME PlainNames, NEW ans, NEW table \in Seq(FileRows(ans))
    PROVE  HistoriesOf(Fitting(ans, TRUE), Reload(table))
<1>1. Len(table) \in Nat
    BY LenProperties
<1>2. PICK G : G = Fitting(ans, TRUE)
    OBVIOUS
<1>3. ASSUME NEW n \in 1..Len(table)
      PROVE  RowIn(G, table[n])
  <2> SUFFICES ASSUME ValidKey(table[n][1])
               PROVE  ParseKey(table[n][1]) \in Scopes /\ RowEntry(table[n]) \in G[ParseKey(table[n][1])]
      BY DEF RowIn
  <2>1. PICK r : r = table[n]
      OBVIOUS
  <2>2. r \in FileRows(ans)
      BY <2>1, ElementOfSeq
  <2>3. PICK m \in Messages, a \in Roles : r = <<BuildKey(m), a, m.uid>> /\ (a = "assistant" => m.uid \in ans)
      BY <2>2 DEF FileRows
  <2>4. r[1] = BuildKey(m) /\ RowEntry(r) = <<a, m.uid>>
      BY <2>3 DEF RowEntry
  <2>5. ParseKey(r[1]) = Filed(m) /\ Filed(m) \in Scopes /\ (m \notin Threaded => Filed(m) = ScopeOf(m))
      BY <2>1, <2>4, FiledUnder
  <2>6. Belongs(m, Filed(m), TRUE)
      BY <2>5 DEF Belongs
  <2>7. <<a, m.uid>> \in Fitting(ans, TRUE)[Filed(m)]
      BY <2>3, <2>5, <2>6, EntryFits
  <2> QED
      BY <1>2, <2>1, <2>4, <2>5, <2>7
<1> QED
    BY <1>1, <1>2, <1>3, ReloadHolds

-----------------------------------------------------------------------------
(* The inductive invariant of the histories.  While the message in progress *)
(* is being stored the table lacks it, and the histories already have it.  *)
NoThreads == \A i \in DOMAIN rows : \A m \in Threaded \cup Skipped : rows[i][3] # m.uid

Saving == {"meta", "row"}

Rebuilt ==
    /\ pc \notin Saving \cup {"dead"} => hist = Reload(rows)
    /\ pc \in Saving => hist = Remember(Reload(rows), ScopeOf(cur), <<role, cur.uid>>)

HistInv ==
    /\ HistoriesOf(Fitting(Answered, crashes > 0), hist)
    /\ rows \in Seq(FileRows(Answered)) /\ jsonl \in Seq(FileRows(Answered))
    /\ pc \in {"attach"} \cup Storing => cur.uid \in Answered
    /\ pc = "dead" => crashes > 0
    /\ opts.backend = "sqlite" /\ stored /\ NoThreads => Rebuilt

(* What is sent stays sent.                                                *)
LEMMA AnsweredAppend ==
    ASSUME AnswerInv, NEW kind, NEW uid, NEW life, sent' = Append(sent, <<kind, uid, life>>)
    PROVE  Answered \subseteq Answered' /\ (kind = "final" => uid \in Answered')
<1>1. PICK S : sent \in Seq(S)
    BY DEF AnswerInv
<1>2. PICK n \in Nat : n = Len(sent)
    BY <1>1, LenProperties
<1>3. PICK x, t : x = <<kind, uid, life>> /\ t = Append(sent, x)
    OBVIOUS
<1>4. DOMAIN t = 1..(n + 1) /\ DOMAIN sent = 1..n /\ t[n + 1] = x /\ \A i \in 1..n : t[i] = sent[i]
    BY <1>1, <1>2, <1>3, AppendOne
<1>5. Answered' = {t[i][2] : i \in {j \in 1..(n + 1) : t[j][1] = "final"}}
    BY <1>3, <1>4 DEF Answered
<1>6. ASSUME NEW u \in Answered PROVE u \in Answered'
  <2>1. PICK i \in 1..n : sent[i][1] = "final" /\ u = sent[i][2]
      BY <1>4 DEF Answered
  <2>2. i \in 1..(n + 1) /\ t[i] = sent[i]
      BY <1>4
  <2> QED
      BY <1>5, <2>1, <2>2
<1>7. ASSUME kind = "final" PROVE uid \in Answered'
  <2>1. n + 1 \in 1..(n + 1) /\ t[n + 1][1] = "final" /\ t[n + 1][2] = uid
      BY <1>3, <1>4, <1>7
  <2> QED
      BY <1>5, <2>1
<1> QED
    BY <1>6, <1>7

LEMMA AnsweredGrows ==
    ASSUME AnswerInv, [Next]_vars
    PROVE  Answered \subseteq Answered'
<1>1. sent' = sent \/ \E kind \in {"draft", "final"} : Say(kind)
    BY DEF Next, Poll, StartPass, ListenEmpty, Listen, Duplicate, Admit, SendDraft, BuildInput, AgentRuns, SendSorry,
           SendReply, SendAttachment, AppendHistory, WriteJsonl, UpsertMeta, InsertRow, Crash, Restart, Arrive, vars
<1>2. CASE sent' = sent
    BY <1>2 DEF Answered
<1>3. ASSUME NEW kind, Say(kind) PROVE Answered \subseteq Answered'
    BY <1>3, AnsweredAppend DEF Say
<1> QED
    BY <1>1, <1>2, <1>3

(* The files get lines and rows of the message in progress only.           *)
LEMMA EntryFiled ==
    ASSUME FlowInv, HistInv, pc \in Storing
    PROVE  Entry \in FileRows(Answered)
<1>1. cur \in Messages /\ role \in Roles /\ cur.uid \in Answered
    BY DEF FlowInv, HistInv, InCall, Roles
<1> QED
    BY <1>1, RowFits DEF Entry

LEMMA FilesStep ==
    ASSUME FlowInv, AnswerInv, HistInv, [Next]_vars
    PROVE  rows' \in Seq(FileRows(Answered')) /\ jsonl' \in Seq(FileRows(Answered'))
<1>1. /\ rows' = rows \/ (pc \in Storing /\ rows' = Append(rows, Entry))
      /\ jsonl' = jsonl \/ (pc \in Storing /\ jsonl' = Append(jsonl, Entry))
    BY DEF Next, Poll, StartPass, ListenEmpty, Listen, Duplicate, Admit, SendDraft, BuildInput, AgentRuns, SendSorry,
           SendReply, SendAttachment, AppendHistory, WriteJsonl, UpsertMeta, InsertRow, Crash, Restart, Arrive,
           vars, disk, Storing
<1>2. PICK ans, more, x : ans = Answered /\ more = Answered' /\ x = Entry
    OBVIOUS
<1>3. ans \subseteq more
    BY <1>2, AnsweredGrows
<1>4. ASSUME NEW t \in Seq(FileRows(ans)), NEW u, u = t \/ (pc \in Storing /\ u = Append(t, x))
      PROVE  u \in Seq(FileRows(more))
  <2>1. u \in Seq(FileRows(ans))
    <3>1. CASE u = t
        BY <3>1
    <3>2. CASE pc \in Storing /\ u = Append(t, x)
      <4>1. x \in FileRows(ans)
          BY <1>2, <3>2, EntryFiled
      <4> QED
          BY <3>2, <4>1, AppendProperties
    <3> QED
        BY <1>4, <3>1, <3>2
  <2> QED
      BY <1>3, <2>1, FileRowsGrow
<1>5. rows \in Seq(FileRows(ans)) /\ jsonl \in Seq(FileRows(ans))
    BY <1>2 DEF HistInv
<1>6. rows' \in Seq(FileRows(more))
    BY <1>1, <1>2, <1>4, <1>5
<1>7. jsonl' \in Seq(FileRows(more))
    BY <1>1, <1>2, <1>4, <1>5
<1> QED
    BY <1>2, <1>6, <1>7

(* A message is stored once its answer went out.                           *)
LEMMA StoringStep ==
    ASSUME FlowInv, AnswerInv, HistInv, [Next]_vars
    PROVE  /\ pc' \in {"attach"} \cup Storing => cur'.uid \in Answered'
           /\ pc' = "dead" => crashes' > 0
<1>1. Answered \subseteq Answered'
    BY AnsweredGrows
<1>2. CASE UNCHANGED vars \/ \E m \in Messages : Arrive(m)
  <2>1. UNCHANGED <<pc, cur, crashes>>
      BY <1>2 DEF Arrive, vars, flow, count
  <2> QED
      BY <1>1, <2>1 DEF HistInv
<1>3. CASE Crash
  <2>1. pc' = "dead" /\ crashes' = crashes + 1 /\ crashes \in Nat
      BY <1>3 DEF Crash, AnswerInv
  <2> QED
      BY <2>1 DEF Storing
<1>4. CASE Restart
  <2>1. pc = "dead" /\ pc' \in {"idle", "dead"} /\ crashes' = crashes
      BY <1>4 DEF Restart, Goto, flow, Works, Breaks, count
  <2> QED
      BY <2>1 DEF HistInv, Storing
<1>5. CASE Poll
  <2>1. CASE pc' \in {"attach"} \cup Storing /\ pc # "reply"
    <3>1. pc \in {"attach"} \cup Storing /\ cur' = cur
        BY <1>5, <2>1 DEF Poll, StartPass, ListenEmpty, Listen, Duplicate, Admit, SendDraft, BuildInput, AgentRuns,
             SendSorry, SendReply, SendAttachment, AppendHistory, WriteJsonl, UpsertMeta, InsertRow, Goto,
             NextChannel, NextRole, PollError, PollErrorOrTimeout, Storing
    <3> QED
        BY <1>1, <2>1, <3>1 DEF HistInv, Storing
  <2>2. CASE pc' \in {"attach"} \cup Storing /\ pc = "reply"
    <3>1. Say("final") /\ pc' = "attach" /\ cur' = cur
        BY <1>5, <2>2 DEF Poll, StartPass, ListenEmpty, Listen, Duplicate, Admit, SendDraft, BuildInput, AgentRuns,
             SendSorry, SendReply, SendAttachment, AppendHistory, WriteJsonl, UpsertMeta, InsertRow, Goto,
             NextChannel, NextRole, PollError, PollErrorOrTimeout, Storing
    <3>2. cur.uid \in Answered'
        BY <3>1, AnsweredAppend DEF Say
    <3> QED
        BY <3>1, <3>2
  <2>3. pc' # "dead"
      BY <1>5 DEF Poll, StartPass, ListenEmpty, Listen, Duplicate, Admit, SendDraft, BuildInput, AgentRuns,
             SendSorry, SendReply, SendAttachment, AppendHistory, WriteJsonl, UpsertMeta, InsertRow, Goto,
             NextChannel, NextRole, PollError, PollErrorOrTimeout
  <2> QED
      BY <2>1, <2>2, <2>3
<1> QED
    BY <1>2, <1>3, <1>4, <1>5 DEF Next

(* The histories get the message in progress, or what the table rebuilds.  *)
LEMMA HistoriesStep ==
    ASSUME PlainNames, FlowInv, AnswerInv, HistInv, [Next]_vars
    PROVE  HistoriesOf(Fitting(Answered, crashes > 0), hist)'
<1>1. PICK ans, more, again, now : ans = Answered /\ more = Answered' /\ again = (crashes > 0) /\ now = (crashes' > 0)
    OBVIOUS
<1>2. crashes' \in {crashes, crashes + 1} /\ crashes \in Nat
    BY DEF Next, Poll, StartPass, ListenEmpty, Listen, Duplicate, Admit, SendDraft, BuildInput, AgentRuns, SendSorry,
           SendReply, SendAttachment, AppendHistory, WriteJsonl, UpsertMeta, InsertRow, Crash, Restart, Arrive,
           vars, count, Works, Breaks, AnswerInv
<1>3. ans \subseteq more /\ (again => now)
  <2>1. ans \subseteq more
      BY <1>1, AnsweredGrows
  <2>2. crashes > 0 => crashes' > 0
      BY <1>2
  <2>3. again => now
      BY <1>1, <2>2, Zenon
  <2> QED
      BY <2>1, <2>3
<1>4. HistoriesOf(Fitting(ans, again), hist)
    BY <1>1 DEF HistInv
<1>5. SUFFICES HistoriesOf(Fitting(more, now), hist')
    BY <1>1
<1>6. CASE hist' = hist
    BY <1>3, <1>4, <1>6, FittingGrows
<1>7. CASE Crash
  <2>1. hist' = [s \in Scopes |-> <<>>]
      BY <1>7 DEF Crash
  <2> QED
      BY <2>1, NoHistories
<1>8. CASE Restart /\ hist' = Reload(rows)
  <2>1. now = TRUE /\ rows \in Seq(FileRows(ans))
    <3>1. crashes > 0 /\ crashes' = crashes
        BY <1>8 DEF Restart, HistInv, Works, Breaks, count
    <3> QED
        BY <1>1, <3>1 DEF HistInv
  <2>2. rows \in Seq(FileRows(more))
      BY <1>3, <2>1, FileRowsGrow
  <2>3. HistoriesOf(Fitting(more, TRUE), Reload(rows))
      BY <2>2, ReloadFits
  <2> QED
      BY <1>8, <2>1, <2>3
<1>9. CASE pc = "append" /\ hist' = Remember(hist, ScopeOf(cur), <<role, cur.uid>>)
  <2>1. cur \in Messages /\ role \in Roles /\ cur.uid \in ans
      BY <1>1, <1>9 DEF FlowInv, HistInv, InCall, Storing, Roles
  <2>2. PICK m, a, sc : m = cur /\ a = role /\ sc = ScopeOf(cur)
      OBVIOUS
  <2>3. m \in Messages /\ a \in Roles /\ (a = "assistant" => m.uid \in ans) /\ sc \in Scopes /\ Belongs(m, sc, again)
      BY <2>1, <2>2 DEF Scopes, Belongs
  <2>4. PICK e, G : e = <<a, m.uid>> /\ G = Fitting(ans, again)
      OBVIOUS
  <2>5. e \in G[sc]
      BY <2>3, <2>4, EntryFits
  <2>6. HistoriesOf(G, Remember(hist, sc, e))
      BY <1>4, <2>3, <2>4, <2>5, RememberHolds
  <2>7. HistoriesOf(Fitting(ans, again), hist')
      BY <1>9, <2>2, <2>4, <2>6
  <2> QED
      BY <1>3, <2>7, FittingGrows
<1> QED
    BY <1>6, <1>7, <1>8, <1>9
       DEF Next, Poll, StartPass, ListenEmpty, Listen, Duplicate, Admit, SendDraft, BuildInput, AgentRuns, SendSorry,
           SendReply, SendAttachment, AppendHistory, WriteJsonl, UpsertMeta, InsertRow, Restart, Arrive, vars

(* The row that was missing is inserted.                                   *)
LEMMA RebuiltByRow ==
    ASSUME PlainNames, FlowInv, HistInv, pc = "row", hist = Remember(Reload(rows), ScopeOf(cur), <<role, cur.uid>>),
           NEW table, table = Append(rows, Entry), \A i \in DOMAIN table : \A m \in Threaded \cup Skipped : table[i][3] # m.uid
    PROVE  hist = Reload(table)
<1>1. PICK x, m, e : x = Entry /\ m = cur /\ e = <<role, cur.uid>>
    OBVIOUS
<1>2. m \in Messages
    BY <1>1 DEF FlowInv, InCall, Storing
<1>3. PICK S : rows \in Seq(S)
    BY DEF HistInv
<1>4. PICK n \in Nat : n = Len(rows)
    BY <1>3, LenProperties
<1>5. DOMAIN table = 1..(n + 1) /\ table[n + 1] = x
    BY <1>1, <1>3, <1>4, AppendOne
<1>6. x[1] = BuildKey(m) /\ RowEntry(x) = e /\ x[3] = m.uid
    BY <1>1 DEF Entry, RowEntry
<1>7. m \notin Threaded /\ m \notin Skipped
    BY <1>5, <1>6
<1>8. ValidKey(x[1]) /\ ParseKey(x[1]) = ScopeOf(m)
    BY <1>2, <1>6, <1>7, FiledUnder DEF Skipped
<1>9. table = Append(rows, x)
    BY <1>1
<1>10. Reload(table) = Remember(Reload(rows), ParseKey(x[1]), RowEntry(x))
    BY <1>3, <1>8, <1>9, ReloadAppend DEF ReadRow, RowEntry
<1> QED
    BY <1>1, <1>6, <1>8, <1>10

LEMMA RebuiltStep ==
    ASSUME PlainNames, FlowInv, HistInv, [Next]_vars, (opts.backend = "sqlite" /\ stored /\ NoThreads)'
    PROVE  Rebuilt'
<1>0. UNCHANGED opts /\ opts.backend = "sqlite" /\ stored'
    BY DEF Next, Poll, Crash, Restart, Arrive, vars
<1>1. CASE UNCHANGED vars \/ \E m \in Messages : Arrive(m)
  <2>1. UNCHANGED <<pc, cur, role, hist, rows, stored>>
      BY <1>1 DEF Arrive, vars, flow, disk, ghost
  <2>2. stored /\ NoThreads
      BY <1>0, <2>1 DEF NoThreads
  <2> QED
      BY <1>0, <2>1, <2>2 DEF HistInv, Rebuilt
<1>2. CASE Crash
    BY <1>2 DEF Crash, Rebuilt, Saving
<1>3. CASE Restart
  <2>1. CASE pc' = "idle" /\ hist' = Reload(rows)
    <3>1. rows' = rows
        BY <1>3 DEF Restart, disk
    <3> QED
        BY <2>1, <3>1 DEF Rebuilt, Saving
  <2>2. CASE pc' = "dead"
      BY <2>2 DEF Rebuilt, Saving
  <2> QED
      BY <1>0, <1>3, <2>1, <2>2 DEF Restart, Goto, flow
<1>4. CASE \/ StartPass \/ ListenEmpty \/ Listen \/ Duplicate \/ Admit \/ SendDraft
           \/ BuildInput \/ AgentRuns \/ SendSorry \/ SendReply \/ SendAttachment
  <2>1. UNCHANGED <<rows, hist, stored>> /\ pc \notin Saving \cup {"dead"}
      BY <1>4 DEF StartPass, ListenEmpty, Listen, Duplicate, Admit, SendDraft, BuildInput, AgentRuns,
                  SendSorry, SendReply, SendAttachment, Saving, disk, ghost
  <2>2. pc' \notin Saving
      BY <1>4 DEF StartPass, ListenEmpty, Listen, Duplicate, Admit, SendDraft, BuildInput, AgentRuns,
                  SendSorry, SendReply, SendAttachment, Goto, NextChannel, NextRole, PollError, PollErrorOrTimeout, Saving
  <2>3. stored /\ NoThreads
      BY <1>0, <2>1 DEF NoThreads
  <2> QED
      BY <1>0, <2>1, <2>2, <2>3 DEF HistInv, Rebuilt
<1>5. CASE AppendHistory
  <2>1. /\ pc = "append" /\ pc' = "meta" /\ UNCHANGED <<cur, role, stored, rows>>
        /\ hist' = Remember(hist, ScopeOf(cur), <<role, cur.uid>>)
      BY <1>0, <1>5 DEF AppendHistory, Goto, disk
  <2>2. stored /\ NoThreads
      BY <1>0, <2>1 DEF NoThreads
  <2>3. hist = Reload(rows)
      BY <1>0, <2>1, <2>2 DEF HistInv, Rebuilt, Saving
  <2> QED
      BY <2>1, <2>3 DEF Rebuilt, Saving
<1>6. CASE UpsertMeta
  <2>1. pc \in Saving /\ pc' \in Saving /\ UNCHANGED <<cur, role, stored, rows, hist>>
      BY <1>0, <1>6 DEF UpsertMeta, Goto, Saving
  <2>2. stored /\ NoThreads
      BY <1>0, <2>1 DEF NoThreads
  <2>3. hist = Remember(Reload(rows), ScopeOf(cur), <<role, cur.uid>>)
      BY <1>0, <2>1, <2>2 DEF HistInv, Rebuilt
  <2>4. pc' \notin {"dead"} /\ ~(pc' \notin Saving \cup {"dead"})
      BY <2>1 DEF Saving
  <2> QED
      BY <2>1, <2>3, <2>4 DEF Rebuilt
<1>7. CASE InsertRow
  <2>1. /\ pc = "row" /\ pc' \notin Saving /\ UNCHANGED <<stored, hist>> /\ rows' = Append(rows, Entry)
      BY <1>0, <1>7 DEF InsertRow, NextRole, NextChannel, Saving
  <2>2. PICK table : table = rows'
      OBVIOUS
  <2>3. \A i \in DOMAIN table : \A m \in Threaded \cup Skipped : table[i][3] # m.uid
      BY <2>2 DEF NoThreads
  <2>4. table = Append(rows, Entry)
      BY <2>1, <2>2
  <2>5. NoThreads
    <3>1. PICK S : rows \in Seq(S)
        BY DEF HistInv
    <3>2. PICK n \in Nat : n = Len(rows)
        BY <3>1, LenProperties
    <3>3. DOMAIN table = 1..(n + 1) /\ DOMAIN rows = 1..n /\ \A i \in 1..n : table[i] = rows[i]
        BY <2>4, <3>1, <3>2, AppendOne
    <3> QED
        BY <2>3, <3>3 DEF NoThreads
  <2>6. hist = Remember(Reload(rows), ScopeOf(cur), <<role, cur.uid>>)
      BY <1>0, <2>1, <2>5 DEF HistInv, Rebuilt, Saving
  <2>7. hist = Reload(table)
      BY <2>1, <2>3, <2>4, <2>6, RebuiltByRow
  <2> QED
      BY <2>1, <2>2, <2>7 DEF Rebuilt
<1>8. ~WriteJsonl
    BY <1>0 DEF WriteJsonl, FlowInv
<1> QED
    BY <1>1, <1>2, <1>3, <1>4, <1>5, <1>6, <1>7, <1>8 DEF Next, Poll

-----------------------------------------------------------------------------
(* The types that no other invariant says.                                 *)
Ids == {m.id : m \in Messages}

TypesInv ==
    /\ opts \in Settings
    /\ slot \in 0..Len(Channels)
    /\ cur \in Messages \cup {NoMessage}
    /\ seen \in Seq(Ids)
    /\ DOMAIN context = Sessions
    /\ stored \in BOOLEAN
    /\ arrivals \in 0..MaxArrivals /\ faults \in 0..MaxFaults /\ crashes \in 0..MaxCrashes

LEMMA SeenTypes ==
    ASSUME FlowInv, SeenInv, TypesInv, [Next]_vars
    PROVE  seen' \in Seq(Ids)
<1>1. PICK e : e = Evicted
    OBVIOUS
<1>2. e \in Seq(Ids)
    BY <1>1, EvictedSuffix DEF TypesInv, SeenInv
<1>3. CASE seen' = seen
    BY <1>3 DEF TypesInv
<1>4. CASE Crash
  <2>1. seen' = <<>>
      BY <1>4 DEF Crash
  <2> QED
      BY <2>1, EmptySeq
<1>5. CASE Admit
  <2>1. cur.id \in Ids
      BY <1>5 DEF Admit, FlowInv, InCall, Ids
  <2>2. PICK id : id = cur.id
      OBVIOUS
  <2>3. Append(e, id) \in Seq(Ids)
      BY <1>2, <2>1, <2>2, AppendProperties
  <2>4. seen' = seen \/ seen' = e \/ seen' = Append(e, id)
      BY <1>1, <1>5, <2>2 DEF Admit
  <2> QED
      BY <1>2, <1>3, <2>3, <2>4
<1> QED
    BY <1>3, <1>4, <1>5
       DEF Next, Poll, StartPass, ListenEmpty, Listen, Duplicate, SendDraft, BuildInput, AgentRuns, SendSorry,
           SendReply, SendAttachment, AppendHistory, WriteJsonl, UpsertMeta, InsertRow, Restart, Arrive, vars

LEMMA FlowTypes ==
    ASSUME FlowInv, TypesInv, [Next]_vars
    PROVE  slot' \in 0..Len(Channels) /\ cur' \in Messages \cup {NoMessage} /\ stored' \in BOOLEAN
           /\ DOMAIN context' = Sessions /\ opts' \in Settings
<1>0. Len(Channels) \in Nat /\ FlowInv'
    BY ChannelsAssumption, LenProperties, FlowStep
<1>1. slot' \in {0, slot} \/ pc' \in InCall \cup {"listen"}
    BY DEF Next, Poll, StartPass, ListenEmpty, Listen, Duplicate, Admit, SendDraft, BuildInput, AgentRuns, SendSorry,
           SendReply, SendAttachment, AppendHistory, WriteJsonl, UpsertMeta, InsertRow, Crash, Restart, Arrive,
           vars, flow, Goto, NextChannel, NextRole, PollError, PollErrorOrTimeout, InCall
<1>2. cur' \in {NoMessage, cur} \/ pc' \in InCall
    BY DEF Next, Poll, StartPass, ListenEmpty, Listen, Duplicate, Admit, SendDraft, BuildInput, AgentRuns, SendSorry,
           SendReply, SendAttachment, AppendHistory, WriteJsonl, UpsertMeta, InsertRow, Crash, Restart, Arrive,
           vars, flow, Goto, NextChannel, NextRole, PollError, PollErrorOrTimeout, InCall
<1>3. slot' \in 0..Len(Channels)
    BY <1>0, <1>1 DEF TypesInv, FlowInv
<1>4. cur' \in Messages \cup {NoMessage}
    BY <1>0, <1>2 DEF TypesInv, FlowInv
<1>5. stored' \in {stored, TRUE, FALSE}
    BY DEF Next, Poll, StartPass, ListenEmpty, Listen, Duplicate, Admit, SendDraft, BuildInput, AgentRuns, SendSorry,
           SendReply, SendAttachment, AppendHistory, WriteJsonl, UpsertMeta, InsertRow, Crash, Restart, Arrive,
           vars, ghost
<1>6. DOMAIN context' = Sessions
  <2>1. CASE context' = context
      BY <2>1 DEF TypesInv
  <2>2. CASE Crash
      BY <2>2 DEF Crash
  <2>3. CASE AgentRuns
    <3>1. \E s, h : context' = [context EXCEPT ![s] = h]
        BY <2>3 DEF AgentRuns
    <3> QED
        BY <3>1 DEF TypesInv
  <2> QED
      BY <2>1, <2>2, <2>3
         DEF Next, Poll, StartPass, ListenEmpty, Listen, Duplicate, Admit, SendDraft, BuildInput, SendSorry,
             SendReply, SendAttachment, AppendHistory, WriteJsonl, UpsertMeta, InsertRow, Restart, Arrive, vars
<1>7. opts' = opts
    BY DEF Next, Poll, Crash, Restart, Arrive, vars
<1>8. stored' \in BOOLEAN
    BY <1>5 DEF TypesInv
<1>9. opts' \in Settings
    BY <1>7 DEF TypesInv
<1> QED
    BY <1>3, <1>4, <1>6, <1>8, <1>9

LEMMA BoundsStep ==
    ASSUME TypesInv, [Next]_vars
    PROVE  arrivals' \in 0..MaxArrivals /\ faults' \in 0..MaxFaults /\ crashes' \in 0..MaxCrashes
<1>1. \/ UNCHANGED <<arrivals, faults, crashes>>
      \/ arrivals < MaxArrivals /\ arrivals' = arrivals + 1 /\ UNCHANGED <<faults, crashes>>
      \/ faults < MaxFaults /\ faults' = faults + 1 /\ UNCHANGED <<arrivals, crashes>>
      \/ crashes < MaxCrashes /\ crashes' = crashes + 1 /\ UNCHANGED <<arrivals, faults>>
    BY DEF Next, Poll, StartPass, ListenEmpty, Listen, Duplicate, Admit, SendDraft, BuildInput, AgentRuns, SendSorry,
           SendReply, SendAttachment, AppendHistory, WriteJsonl, UpsertMeta, InsertRow, Crash, Restart, Arrive,
           vars, count, Works, Breaks
<1> QED
    BY <1>1, LimitsAssumption DEF TypesInv

LEMMA TypesStep ==
    ASSUME FlowInv, SeenInv, TypesInv, [Next]_vars
    PROVE  TypesInv'
<1>1. seen' \in Seq(Ids)
    BY SeenTypes
<1>2. slot' \in 0..Len(Channels) /\ cur' \in Messages \cup {NoMessage} /\ stored' \in BOOLEAN
      /\ DOMAIN context' = Sessions /\ opts' \in Settings
    BY FlowTypes
<1>3. arrivals' \in 0..MaxArrivals /\ faults' \in 0..MaxFaults /\ crashes' \in 0..MaxCrashes
    BY BoundsStep
<1> QED
    BY <1>1, <1>2, <1>3 DEF TypesInv

LEMMA HistStep ==
    ASSUME PlainNames, FlowInv, AnswerInv, HistInv, [Next]_vars
    PROVE  HistInv'
<1>1. HistoriesOf(Fitting(Answered, crashes > 0), hist)'
    BY HistoriesStep
<1>2. rows' \in Seq(FileRows(Answered')) /\ jsonl' \in Seq(FileRows(Answered'))
    BY FilesStep
<1>3. (pc' \in {"attach"} \cup Storing => cur'.uid \in Answered') /\ (pc' = "dead" => crashes' > 0)
    BY StoringStep
<1>4. (opts.backend = "sqlite" /\ stored /\ NoThreads)' => Rebuilt'
    BY RebuiltStep
<1> QED
    BY <1>1, <1>2, <1>3, <1>4 DEF HistInv

(* The parts of HistoryFaithful follow.                                    *)
LEMMA HistoryFaithfulNow ==
    ASSUME FlowInv, StoreInv, StoresAgree, TypesInv, HistInv
    PROVE  HistoryFaithful
<1>1. PICK G : G = Fitting(Answered, crashes > 0)
    OBVIOUS
<1>2. ASSUME NEW s \in Scopes
      PROVE  Len(hist[s]) <= MaxHist /\ \A i \in DOMAIN hist[s] : hist[s][i] \in G[s]
  <2>1. PICK h, A : h = hist[s] /\ A = G[s]
      OBVIOUS
  <2>2. h \in Seq(A) /\ Len(h) <= MaxHist
      BY <1>1, <2>1 DEF HistInv, HistoriesOf, HistoryOf
  <2>3. DOMAIN h = 1..Len(h) /\ \A i \in 1..Len(h) : h[i] \in A
      BY <2>2, LenProperties, ElementOfSeq
  <2> QED
      BY <2>1, <2>2, <2>3
<1>3. TypeOK
  <2>1. DOMAIN hist = Scopes
      BY DEF HistInv, HistoriesOf
  <2>2. \A s \in Scopes : Len(hist[s]) <= MaxHist
      BY <1>2
  <2> QED
      BY <2>1, <2>2 DEF TypeOK, FlowInv, StoreInv, TypesInv, Ids, InCall, Storing
<1>4. RememberedWasSent
  <2>1. \A i \in DOMAIN jsonl : jsonl[i] \in FileRows(Answered)
    <3>1. PICK A : A = FileRows(Answered)
        OBVIOUS
    <3>2. jsonl \in Seq(A)
        BY <3>1 DEF HistInv
    <3>3. DOMAIN jsonl = 1..Len(jsonl) /\ \A i \in 1..Len(jsonl) : jsonl[i] \in A
        BY <3>2, LenProperties, ElementOfSeq
    <3> QED
        BY <3>1, <3>3
  <2>2. \A i \in DOMAIN jsonl : jsonl[i][2] = "assistant" => jsonl[i][3] \in Answered
      BY <2>1 DEF FileRows
  <2>4. \A i \in DOMAIN rows : rows[i][2] = "assistant" => rows[i][3] \in Answered
    <3>1. PICK A : A = FileRows(Answered)
        OBVIOUS
    <3>2. rows \in Seq(A)
        BY <3>1 DEF HistInv
    <3>3. DOMAIN rows = 1..Len(rows) /\ \A i \in 1..Len(rows) : rows[i] \in A
        BY <3>2, LenProperties, ElementOfSeq
    <3> QED
        BY <3>1, <3>3 DEF FileRows
  <2>3. ASSUME NEW s \in Scopes, NEW i \in DOMAIN hist[s], hist[s][i][1] = "assistant"
        PROVE  hist[s][i][2] \in Answered
    <3>1. hist[s][i] \in G[s]
        BY <1>2
    <3> QED
        BY <1>1, <2>3, <3>1 DEF Fitting
  <2> QED
      BY <2>2, <2>3, <2>4 DEF RememberedWasSent, Answered
<1>5. RestartRebuildsHistory
    BY DEF RestartRebuildsHistory, HistInv, NoThreads, Rebuilt, Saving
<1>6. HistoryScoped
  <2>1. ASSUME NEW s \in Scopes, NEW i \in DOMAIN hist[s], NEW m \in Messages, m.uid = hist[s][i][2]
        PROVE  Belongs(m, s, crashes > 0)
    <3>1. hist[s][i] \in G[s]
        BY <1>2
    <3> QED
        BY <1>1, <2>1, <3>1 DEF Fitting
  <2> QED
      BY <2>1 DEF HistoryScoped, Belongs, Filed
<1> QED
    BY <1>3, <1>4, <1>5, <1>6 DEF HistoryFaithful

LEMMA HistInit == ASSUME Init PROVE HistInv /\ TypesInv
<1>1. /\ hist = [s \in Scopes |-> <<>>] /\ rows = <<>> /\ jsonl = <<>> /\ seen = <<>>
      /\ context = [s \in Sessions |-> <<>>] /\ pc = "idle" /\ cur = NoMessage /\ slot = 0
      /\ arrivals = 0 /\ faults = 0 /\ crashes = 0 /\ stored = TRUE /\ opts \in Settings
    BY DEF Init
<1>2. \A S : <<>> \in Seq(S)
    BY EmptySeq
<1>3. HistoriesOf(Fitting(Answered, crashes > 0), hist)
    BY <1>1, NoHistories
<1>4. hist = Reload(rows)
    BY <1>1, ReloadNone
<1>5. HistInv
    BY <1>1, <1>2, <1>3, <1>4 DEF HistInv, Rebuilt, Storing, Saving
<1>6. Len(Channels) \in Nat
    BY ChannelsAssumption, LenProperties
<1>7. TypesInv
    BY <1>1, <1>2, <1>6, LimitsAssumption DEF TypesInv
<1> QED
    BY <1>5, <1>7

(* Where channels and senders have plain names, the histories are faithful *)
(* in memory and on disk: an answer in them was sent, a restart rebuilds    *)
(* exactly the histories the process has as long as the sessions table is  *)
(* in use, no write of it failed and no message was in a thread or without *)
(* a name its key needs, and no scope holds what belongs to another         *)
(* (sc_channel_orchestrator_process, load_session_history).                 *)
THEOREM HistoryFaithfulHolds ==
    ASSUME PlainNames
    PROVE  Spec => []HistoryFaithful
<1> DEFINE Inv == FlowInv /\ SeenInv /\ AnswerInv /\ StoreInv /\ TypesInv /\ HistInv
<1>1. Init => Inv
    BY FlowInit, SeenInit, AnswerInit, StoreInit, HistInit
<1>2. Inv /\ [Next]_vars => Inv'
  <2>1. TypesInv => opts.backend \in Backends
      BY SettingsAssumption DEF TypesInv
  <2> QED
      BY <2>1, FlowStep, SeenStep, AnswerStep, StoreStep, TypesStep, HistStep
<1>3. Inv => HistoryFaithful
    BY StoresAgreeNow, HistoryFaithfulNow
<1> QED
    BY <1>1, <1>2, <1>3, PTL DEF Spec
=============================================================================
