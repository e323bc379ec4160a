----------------------- MODULE ConversationMemoryProofs -----------------------
(***************************************************************************)
(* For every buffer size, token budget, timeout, threshold, queue length   *)
(* and number of users: the state of the conversation memory keeps its     *)
(* type, a session never exceeds its limits, every turn is in one place,   *)
(* what a session, a summary or an episode tells is the history, and the   *)
(* whole implements TurnLedger.                                            *)
(*                                                                         *)
(* MemoryInv is the inductive invariant.  It ties each holder of turns, a  *)
(* live session, a task, an episode, to the turns of one session id in the *)
(* history, and the holders to the nine places a turn can be in.           *)
(***************************************************************************)
EXTENDS ConversationMemory, ArithmeticProofs, FiniteSetTheorems

-----------------------------------------------------------------------------
(* The token counter of one session.                                       *)

Sizes(entries) == [i \in 1..Len(entries) |-> TokensIn[entries[i].content]]

\* total_tokens is the sum of the entries' tokens.
Exact(s) == s.total_tokens = TokensTo(s.entries, Len(s.entries))

WithinLimits(s) ==
  /\ Len(s.entries) <= MaxTurns
  /\ s.total_tokens <= MaxTokens \/ Len(s.entries) = 1

LEMMA SizesType ==
  ASSUME NEW es \in Seq(BufferEntry)
  PROVE  /\ Sizes(es) \in [1..Len(es) -> Nat]
         /\ Len(es) \in Nat
         /\ \A n : TokensTo(es, n) = SumTo(Sizes(es), n)
<1>1. ASSUME NEW i \in 1..Len(es) PROVE TokensIn[es[i].content] \in Nat
  <2>1. es[i] \in BufferEntry
    OBVIOUS
  <2>2. es[i].content \in Contents
    BY <2>1 DEF BufferEntry
  <2>. QED BY <2>2, TokensAssumption
<1>2. Sizes(es) \in [1..Len(es) -> Nat]
  BY <1>1 DEF Sizes
<1>3. ASSUME NEW n PROVE TokensTo(es, n) = SumTo(Sizes(es), n)
  BY DEF TokensTo, Sizes
<1>. QED BY <1>2, <1>3

LEMMA TokensType ==
  ASSUME NEW es \in Seq(BufferEntry), NEW n \in 0..Len(es)
  PROVE  TokensTo(es, n) \in Nat
<1> DEFINE s == Sizes(es)
<1>1. Len(es) \in Nat /\ s \in [1..Len(es) -> Nat] /\ TokensTo(es, n) = SumTo(s, n)
  BY SizesType
<1>. HIDE DEF s
<1>. QED BY <1>1, SumToRec

\* The tokens of what is left when the n oldest entries go.
LEMMA TokensOfRest ==
  ASSUME NEW es \in Seq(BufferEntry), NEW n \in 0..Len(es)
  PROVE  LET rest == SubSeq(es, n + 1, Len(es))
         IN  /\ rest \in Seq(BufferEntry)
             /\ Len(rest) = Len(es) - n
             /\ \A i \in 1..Len(rest) : rest[i] = es[i + n]
             /\ TokensTo(rest, Len(rest)) = TokensTo(es, Len(es)) - TokensTo(es, n)
<1> DEFINE rest == SubSeq(es, n + 1, Len(es))
<1>1. rest \in Seq(BufferEntry) /\ Len(rest) = Len(es) - n
  OBVIOUS
<1>2. \A i \in 1..Len(rest) : rest[i] = es[i + n]
  OBVIOUS
<1>. HIDE DEF rest
<1> DEFINE N == Len(es)
           s == Sizes(es)
           t == Sizes(rest)
<1>3. N \in Nat /\ s \in [1..N -> Nat] /\ t \in [1..(N - n) -> Nat]
  BY <1>1, SizesType
<1>4. \A i \in 1..(N - n) : t[i] = s[i + n]
  BY <1>1, <1>2 DEF Sizes
<1>5. TokensTo(rest, Len(rest)) = SumTo(t, N - n)
  BY <1>1, SizesType
<1>6. TokensTo(es, Len(es)) = SumTo(s, N) /\ TokensTo(es, n) = SumTo(s, n)
  BY SizesType
<1>7. SumTo(t, N - n) = SumTo(s, N) - SumTo(s, n)
  <2>1. n \in 0..N
    OBVIOUS
  <2>. HIDE DEF s, t, N
  <2>. QED BY <1>3, <1>4, <2>1, SumToShift
<1>. QED BY <1>1, <1>2, <1>5, <1>6, <1>7 DEF rest

LEMMA TokensOfAppend ==
  ASSUME NEW es \in Seq(BufferEntry), NEW e \in BufferEntry
  PROVE  TokensTo(Append(es, e), Len(es) + 1) = TokensTo(es, Len(es)) + TokensIn[e.content]
<1> DEFINE fs == Append(es, e)
           N  == Len(es)
           s  == Sizes(fs)
           t  == Sizes(es)
<1>1. fs \in Seq(BufferEntry) /\ Len(fs) = N + 1 /\ N \in Nat
  OBVIOUS
<1>2. s \in [1..(N + 1) -> Nat] /\ t \in [1..N -> Nat]
  BY <1>1, SizesType
<1>3. s[N + 1] = TokensIn[e.content]
  BY <1>1 DEF Sizes
<1>4. \A i \in 1..N : s[i] = t[i]
  BY <1>1 DEF Sizes
<1>5. TokensTo(fs, N + 1) = SumTo(s, N + 1) /\ TokensTo(es, N) = SumTo(t, N)
  BY <1>1, SizesType
<1>. HIDE DEF s, t
<1>6. SumTo(s, N + 1) = SumTo(s, (N + 1) - 1) + s[N + 1]
  <2>1. N + 1 \in Nat /\ N + 1 \in 1..(N + 1)
    BY <1>1
  <2>. QED BY <1>2, <2>1, SumToRec
<1>7. SumTo(s, N) = SumTo(t, N)
  BY <1>1, <1>2, <1>4, SumToAgree
<1>. QED BY <1>1, <1>3, <1>5, <1>6, <1>7

-----------------------------------------------------------------------------
(* The operations on one session.                                          *)

LEMMA WithoutOldestFacts ==
  ASSUME NEW s \in SessionState, NEW n \in 0..Len(s.entries)
  PROVE  LET r == WithoutOldest(s, n)
         IN  /\ r \in SessionState
             /\ Len(r.entries) = Len(s.entries) - n
             /\ r.total_tokens <= s.total_tokens
             /\ r.total_tokens = SaturatingSub(s.total_tokens, TokensTo(s.entries, n))
             /\ Exact(s) => Exact(r)
<1> DEFINE r == WithoutOldest(s, n)
<1>1. s.entries \in Seq(BufferEntry) /\ s.total_tokens \in Nat
  BY DEF SessionState
<1>2. TokensTo(s.entries, n) \in Nat
  BY <1>1, TokensType
<1>3. /\ r.entries = SubSeq(s.entries, n + 1, Len(s.entries))
      /\ r.total_tokens = SaturatingSub(s.total_tokens, TokensTo(s.entries, n))
  BY DEF WithoutOldest, SessionState
<1>4. r.total_tokens \in Nat /\ r.total_tokens <= s.total_tokens
  BY <1>1, <1>2, <1>3 DEF SaturatingSub
<1>5. /\ r.entries \in Seq(BufferEntry)
      /\ Len(r.entries) = Len(s.entries) - n
      /\ TokensTo(r.entries, Len(r.entries))
           = TokensTo(s.entries, Len(s.entries)) - TokensTo(s.entries, n)
  BY <1>1, <1>3, TokensOfRest
<1>6. r \in SessionState
  BY <1>3, <1>4, <1>5 DEF WithoutOldest, SessionState
<1>7. ASSUME Exact(s) PROVE Exact(r)
  <2>1. TokensTo(r.entries, Len(r.entries)) \in Nat
    BY <1>5, TokensType
  <2>. QED BY <1>1, <1>2, <1>3, <1>5, <1>7, <2>1 DEF Exact, SaturatingSub
<1>. QED BY <1>3, <1>4, <1>5, <1>6, <1>7

\* The eviction loop ends with the newest entry still there and both limits kept.
LEMMA EvictionCountFacts ==
  ASSUME NEW s \in SessionState, s.entries # <<>>
  PROVE  /\ EvictionCount(s) \in 0..(Len(s.entries) - 1)
         /\ ~OverLimits(s, EvictionCount(s))
<1> DEFINE N == Len(s.entries)
           T == {n \in 0..N : ~OverLimits(s, n)}
<1>1. N \in Nat \ {0} /\ N - 1 \in 0..N /\ N - (N - 1) = 1
  BY DEF SessionState
<1>2. ~OverLimits(s, N - 1)
  BY <1>1, LimitsAssumption DEF OverLimits
<1>3. N - 1 \in T
  BY <1>1, <1>2
<1>4. PICK m \in T : \A k \in T : m <= k
  <2>1. T \subseteq Nat /\ T # {}
    BY <1>1, <1>3
  <2>. HIDE DEF T
  <2>. QED BY <2>1, LeastNat
<1>5. \A j \in 0..(m - 1) : OverLimits(s, j)
  BY <1>1, <1>4
<1>6. /\ EvictionCount(s) \in 0..N
      /\ ~OverLimits(s, EvictionCount(s))
      /\ \A j \in 0..(EvictionCount(s) - 1) : OverLimits(s, j)
  BY <1>4, <1>5 DEF EvictionCount
<1>7. EvictionCount(s) <= N - 1
  BY <1>1, <1>2, <1>6
<1>. QED BY <1>1, <1>6, <1>7

LEMMA PushedFacts ==
  ASSUME NEW s \in SessionState, NEW e \in BufferEntry
  PROVE  LET p == Pushed(s, e)
         IN  /\ p \in SessionState
             /\ p.entries # <<>>
             /\ p.session_id = s.session_id
             /\ p.summaries = s.summaries
             /\ Exact(s) => Exact(p) /\ WithinLimits(p)
<1> DEFINE f == Extended(s, e)
           n == EvictionCount(f)
           p == Pushed(s, e)
<1>1. /\ f.entries = Append(s.entries, e)
      /\ f.total_tokens = s.total_tokens + TokensIn[e.content]
      /\ f.session_id = s.session_id
      /\ f.summaries = s.summaries
      /\ f.last_activity = e.timestamp
      /\ f = [s EXCEPT !.entries = f.entries, !.total_tokens = f.total_tokens,
                       !.last_activity = f.last_activity]
  BY DEF Extended, SessionState
<1>1a. f \in SessionState
  <2>1. /\ s.entries \in Seq(BufferEntry)
        /\ s.total_tokens \in Nat
        /\ e.timestamp \in Nat
        /\ TokensIn[e.content] \in Nat
    BY TokensAssumption DEF SessionState, BufferEntry
  <2>2. f.entries \in Seq(BufferEntry) /\ f.total_tokens \in Nat /\ f.last_activity \in Nat
    BY <1>1, <2>1
  <2>. HIDE DEF f
  <2>. QED BY <1>1, <2>2 DEF SessionState
<1>2. f.entries # <<>> /\ Len(f.entries) = Len(s.entries) + 1 /\ s.entries \in Seq(BufferEntry)
  BY <1>1 DEF SessionState
<1>3. Exact(s) => Exact(f)
  BY <1>1, <1>2, TokensOfAppend DEF Exact
<1>4. p = WithoutOldest(f, n)
  BY DEF Pushed
<1>5. n \in 0..(Len(f.entries) - 1) /\ ~OverLimits(f, n)
  <2>. HIDE DEF f
  <2>. QED BY <1>1a, <1>2, EvictionCountFacts
<1>6. p.session_id = f.session_id /\ p.summaries = f.summaries
  BY <1>1, <1>4 DEF WithoutOldest, SessionState
<1>. HIDE DEF n, p, f
<1>7. n \in 0..Len(f.entries)
  BY <1>1a, <1>2, <1>5 DEF SessionState
<1>8. /\ p \in SessionState
      /\ Len(p.entries) = Len(f.entries) - n
      /\ p.total_tokens = SaturatingSub(f.total_tokens, TokensTo(f.entries, n))
      /\ Exact(f) => Exact(p)
  BY <1>1a, <1>4, <1>7, WithoutOldestFacts
<1>9. p.entries # <<>>
  BY <1>5, <1>7, <1>8
<1>10. ASSUME Exact(s) PROVE WithinLimits(p)
  <2>1. Len(p.entries) \in Nat /\ Len(p.entries) # 0
    BY <1>8, <1>9 DEF SessionState
  <2>2. ~(Len(p.entries) > MaxTurns) /\ ~(Len(p.entries) > 1 /\ p.total_tokens > MaxTokens)
    BY <1>5, <1>8 DEF OverLimits
  <2>3. p.total_tokens \in Nat
    BY <1>8 DEF SessionState
  <2>4. MaxTurns \in Nat /\ MaxTokens \in Nat
    BY LimitsAssumption
  <2>5. Len(p.entries) <= MaxTurns
    BY <2>1, <2>2, <2>4
  <2>6. CASE Len(p.entries) > 1
    <3>1. p.total_tokens <= MaxTokens
      BY <2>2, <2>3, <2>4, <2>6
    <3>. QED BY <2>5, <3>1 DEF WithinLimits
  <2>7. CASE ~(Len(p.entries) > 1)
    <3> DEFINE L == Len(p.entries)
    <3>1. L \in Nat /\ L # 0 /\ ~(L > 1)
      BY <2>1, <2>7
    <3>2. L = 1
      <4>. HIDE DEF L
      <4>. QED BY <3>1
    <3>. QED BY <2>5, <3>2 DEF WithinLimits
  <2>. QED BY <2>6, <2>7
<1>. QED BY <1>1, <1>3, <1>6, <1>8, <1>9, <1>10 DEF p

LEMMA InstalledFacts ==
  ASSUME NEW s \in SessionState, NEW job, NEW size \in Nat,
         job.n \in Nat, job.turns \in Seq(BufferEntry), CanInstall(s, job)
  PROVE  LET r == Installed(s, job, size)
         IN  /\ r \in SessionState
             /\ r.session_id = s.session_id
             /\ Exact(s) => Exact(r)
             /\ Exact(s) /\ WithinLimits(s) => WithinLimits(r)
<1> DEFINE w == WithoutOldest(s, job.n)
           block == [turns_covered |-> job.n, approx_tokens |-> size,
                     ids |-> [i \in 1..job.n |-> s.entries[i].id],
                     source |-> job.turns]
           r == Installed(s, job, size)
<1>1. job.n \in 0..Len(s.entries) /\ job.n # 0 /\ s.entries \in Seq(BufferEntry)
  BY DEF CanInstall, SessionState
<1>2. /\ w \in SessionState
      /\ Len(w.entries) = Len(s.entries) - job.n
      /\ w.total_tokens <= s.total_tokens
      /\ Exact(s) => Exact(w)
  BY <1>1, WithoutOldestFacts
<1>3. block.ids \in Seq(Nat)
  <2>1. ASSUME NEW i \in 1..job.n PROVE s.entries[i].id \in Nat
    <3>1. s.entries[i] \in BufferEntry
      BY <1>1
    <3>. QED BY <3>1 DEF BufferEntry
  <2>. QED BY <1>1, <2>1
<1>4. block \in SummaryBlock
  BY <1>3 DEF SummaryBlock
<1>5. w.session_id = s.session_id
  BY DEF WithoutOldest, SessionState
<1>6. r = [w EXCEPT !.summaries = Append(@, block)]
  BY DEF Installed
<1>. HIDE DEF w, block, r
<1>7. /\ r \in SessionState
      /\ r.session_id = w.session_id
      /\ r.entries = w.entries
      /\ r.total_tokens = w.total_tokens
  <2>1. w.summaries \in Seq(SummaryBlock)
    BY <1>2 DEF SessionState
  <2>2. Append(w.summaries, block) \in Seq(SummaryBlock)
    BY <1>4, <2>1
  <2>. QED BY <1>2, <1>6, <2>2 DEF SessionState
<1>8. Exact(w) => Exact(r)
  BY <1>7 DEF Exact
<1>9. ASSUME Exact(s), WithinLimits(s) PROVE WithinLimits(r)
  <2>1. Len(s.entries) \in Nat /\ s.total_tokens \in Nat /\ w.total_tokens \in Nat
    BY <1>1, <1>2 DEF SessionState
  <2>2. Len(r.entries) <= MaxTurns
    BY <1>1, <1>2, <1>7, <1>9, <2>1, LimitsAssumption DEF WithinLimits
  <2>3. CASE s.total_tokens <= MaxTokens
    BY <1>2, <1>7, <2>1, <2>2, <2>3, LimitsAssumption DEF WithinLimits
  <2>4. CASE Len(s.entries) = 1
    <3>1. Len(w.entries) = 0
      BY <1>1, <1>2, <2>4
    <3>2. TokensTo(w.entries, 0) = 0
      BY <1>2, SizesType, SumToRec DEF SessionState
    <3>3. w.total_tokens = 0
      BY <1>2, <1>9, <3>1, <3>2 DEF Exact
    <3>. QED BY <1>7, <2>2, <3>3, LimitsAssumption DEF WithinLimits
  <2>. QED BY <1>9, <2>3, <2>4 DEF WithinLimits
<1>. QED BY <1>2, <1>5, <1>7, <1>8, <1>9 DEF r

-----------------------------------------------------------------------------
(* Types of what the actions build.                                        *)

LEMMA NewSessionFacts ==
  ASSUME NEW sid \in Nat, NEW t \in Nat
  PROVE  /\ NewSession(sid, t) \in SessionState
         /\ Exact(NewSession(sid, t))
<1> DEFINE s == NewSession(sid, t)
<1>1. s \in SessionState /\ s.entries = <<>> /\ s.total_tokens = 0
  BY DEF NewSession, SessionState
<1>2. Len(s.entries) = 0
  BY <1>1
<1>3. TokensTo(s.entries, 0) = 0
  BY <1>1, SizesType, SumToRec DEF SessionState
<1>. QED BY <1>1, <1>2, <1>3 DEF Exact

LEMMA SessionForPushFacts ==
  ASSUME TypeOK, NEW u \in Users, NEW sid \in Nat
  PROVE  /\ SessionForPush(u, sid) \in SessionState
         /\ (sessions[u] # NoSession => Exact(sessions[u])) => Exact(SessionForPush(u, sid))
BY NewSessionFacts DEF SessionForPush, TypeOK

LEMMA TurnsCoveredType ==
  ASSUME NEW s \in SessionState
  PROVE  TurnsCovered(s) \in Nat
<1> DEFINE N == Len(s.summaries)
           f == [j \in 1..N |-> s.summaries[j].turns_covered]
<1>1. N \in Nat
  BY DEF SessionState
<1>2. ASSUME NEW j \in 1..N PROVE s.summaries[j].turns_covered \in Nat
  <2>1. s.summaries[j] \in SummaryBlock
    BY DEF SessionState
  <2>. QED BY <2>1 DEF SummaryBlock
<1>3. f \in [1..N -> Nat]
  BY <1>2
<1>4. TurnsCovered(s) = SumTo(f, N)
  BY DEF TurnsCovered
<1>. HIDE DEF f, N
<1>. QED BY <1>1, <1>3, <1>4, SumToRec

LEMMA TurnsInType ==
  ASSUME NEW s \in SessionState
  PROVE  TurnsIn(s) \subseteq Nat
<1>1. ASSUME NEW i \in 1..Len(s.entries) PROVE s.entries[i].id \in Nat
  <2>1. s.entries[i] \in BufferEntry
    BY DEF SessionState
  <2>. QED BY <2>1 DEF BufferEntry
<1>2. ASSUME NEW j \in 1..Len(s.summaries), NEW i \in 1..Len(s.summaries[j].ids)
      PROVE  s.summaries[j].ids[i] \in Nat
  <2>1. s.summaries[j] \in SummaryBlock
    BY DEF SessionState
  <2>2. s.summaries[j].ids \in Seq(Nat)
    BY <2>1 DEF SummaryBlock
  <2>. QED BY <2>2
<1>3. VerbatimIds(s) \subseteq Nat
  BY <1>1 DEF VerbatimIds
<1>4. SummarizedIds(s) \subseteq Nat
  BY <1>2 DEF SummarizedIds
<1>. QED BY <1>3, <1>4 DEF TurnsIn

LEMMA EpisodeType ==
  ASSUME NEW c, c.user_id \in Users, c.session \in SessionState
  PROVE  EpisodeFrom(c) \in Episode
<1> DEFINE s == c.session
<1>1. Len(s.entries) \in Nat /\ s.session_id \in Nat
  BY DEF SessionState
<1>2. TurnsCovered(s) \in Nat /\ TurnsIn(s) \subseteq Nat
  BY TurnsCoveredType, TurnsInType
<1>. HIDE DEF s
<1>3. Len(s.entries) + TurnsCovered(s) \in Nat
  BY <1>1, <1>2
<1>. QED BY <1>1, <1>2, <1>3 DEF EpisodeFrom, Episode, s

LEMMA EnqueuedType ==
  ASSUME NEW q \in Seq(Episode), NEW ep \in Episode
  PROVE  Enqueued(q, ep) \in Seq(Episode)
<1>1. CASE QueueFull(q)
  <2>1. q # <<>>
    BY <1>1, PendingAssumption DEF QueueFull
  <2>. QED BY <1>1, <2>1 DEF Enqueued
<1>2. CASE ~QueueFull(q)
  BY <1>2 DEF Enqueued
<1>. QED BY <1>1, <1>2

LEMMA JobForType ==
  ASSUME NEW u \in Users, NEW s \in SessionState, NEW trigger \in Nat, s.entries # <<>>
  PROVE  JobType(JobFor(u, s, trigger))
<1> DEFINE half == Len(s.entries) \div 2
           n    == IF half >= 1 THEN half ELSE 1
           job  == JobFor(u, s, trigger)
<1>1. Len(s.entries) \in Nat /\ Len(s.entries) # 0 /\ s.entries \in Seq(BufferEntry)
  BY DEF SessionState
<1>2. n \in Nat /\ n <= Len(s.entries)
  <2> DEFINE L == Len(s.entries)
  <2>1. L \in Nat /\ L # 0
    BY <1>1
  <2>. HIDE DEF L
  <2>2. (L \div 2) \in Nat /\ (L \div 2) <= L /\ 1 <= L
    BY <2>1
  <2>3. half \in Nat /\ half <= L
    BY <2>2 DEF L
  <2>. HIDE DEF half
  <2>4. n \in Nat /\ n <= L
    BY <2>2, <2>3
  <2>. QED BY <2>4 DEF L
<1>3. job = [user_id |-> u, session_id |-> s.session_id, turns |-> SubSeq(s.entries, 1, n),
             n |-> n, trigger |-> trigger]
  BY DEF JobFor
<1>. HIDE DEF n, job
<1>4. SubSeq(s.entries, 1, n) \in Seq(BufferEntry) /\ Len(SubSeq(s.entries, 1, n)) = n
  BY <1>1, <1>2
<1>5. s.session_id \in Nat
  BY DEF SessionState
<1>. QED BY <1>2, <1>3, <1>4, <1>5 DEF JobType, job

\* A task that becomes t2, or ends, leaves the others as they are.
LEMMA BecomesType ==
  ASSUME NEW t, NEW t2, \A x \in tasks : TaskType(x), TaskType(t2), Becomes(t, t2)
  PROVE  \A x \in tasks' : TaskType(x)
BY DEF Becomes

-----------------------------------------------------------------------------
(* Type correctness.                                                       *)

LEMMA InitTypeOK == Init => TypeOK
BY DEF Init, TypeOK, RecordingType, HistoryType, Idle

LEMMA RecordTurnType ==
  ASSUME TypeOK, NEW u \in Users, NEW c \in Contents, RecordTurn(u, c)
  PROVE  TypeOK'
<1> DEFINE id == Len(history) + 1
           s  == SessionForPush(u, id)
           e  == [id |-> id, content |-> c, timestamp |-> now]
<1>1. id \in Nat \ {0} /\ now \in Nat
  BY DEF TypeOK, HistoryType
<1>2. e \in BufferEntry
  BY <1>1 DEF BufferEntry
<1>3. s \in SessionState
  BY <1>1, SessionForPushFacts
<1>4. /\ sessions' = [sessions EXCEPT ![u] = Pushed(s, e)]
      /\ recording' = recording \cup {[user_id |-> u, at |-> now, turn |-> id]}
      /\ history' = Append(history, [user_id |-> u, session_id |-> s.session_id,
                                     content |-> c, timestamp |-> now])
      /\ UNCHANGED <<now, jobs, tasks, pending, retrying, archive>>
  BY DEF RecordTurn
<1>. HIDE DEF id, s, e
<1>5. Pushed(s, e) \in SessionState
  BY <1>2, <1>3, PushedFacts
<1>6. sessions' \in [Users -> SessionState \cup {NoSession}]
  BY <1>4, <1>5 DEF TypeOK
<1>7. RecordingType'
  BY <1>1, <1>4 DEF TypeOK, RecordingType
<1>8. s.session_id \in Nat
  BY <1>3 DEF SessionState
<1>9. HistoryType'
  BY <1>1, <1>4, <1>8 DEF TypeOK, HistoryType
<1>. QED BY <1>4, <1>6, <1>7, <1>9 DEF TypeOK, JobType, TaskType

LEMMA CheckSummarizationType ==
  ASSUME TypeOK, NEW r \in recording, CheckSummarization(r)
  PROVE  TypeOK'
<1> DEFINE s == sessions[r.user_id]
<1>1. r.user_id \in Users /\ r \in [user_id : Users, at : Nat, turn : Nat]
  BY DEF TypeOK, RecordingType
<1>2. ASSUME s # NoSession, SummarizationDue(s, r.at, SummarizeThreshold)
      PROVE  JobType(JobFor(r.user_id, s, r.turn))
  <2>1. s \in SessionState
    BY <1>1, <1>2 DEF TypeOK
  <2>. HIDE DEF s
  <2>2. s.entries # <<>>
    BY <1>2, <2>1, MemoryAssumption DEF SummarizationDue, SessionState
  <2>. QED BY <1>1, <2>1, <2>2, JobForType
<1>3. \A job \in jobs' : JobType(job)
  BY <1>2 DEF CheckSummarization, TypeOK
<1>4. RecordingType'
  BY DEF CheckSummarization, TypeOK, RecordingType
<1>. QED BY <1>3, <1>4 DEF CheckSummarization, past, TypeOK, TaskType, JobType, HistoryType

LEMMA SummaryArrivesType ==
  ASSUME TypeOK, NEW job \in jobs, NEW size \in SummarySizes, SummaryArrives(job, size)
  PROVE  TypeOK'
<1> DEFINE s == sessions[job.user_id]
<1>1. JobType(job) /\ size \in Nat
  BY MemoryAssumption DEF TypeOK
<1>2. ASSUME s # NoSession, CanInstall(s, job)
      PROVE  Installed(s, job, size) \in SessionState
  <2>1. s \in SessionState
    BY <1>1, <1>2 DEF TypeOK, JobType
  <2>. QED BY <1>1, <1>2, <2>1, InstalledFacts DEF JobType
<1>3. sessions' \in [Users -> SessionState \cup {NoSession}]
  BY <1>2 DEF SummaryArrives, TypeOK
<1>. QED BY <1>3 DEF SummaryArrives, past, TypeOK, RecordingType, TaskType, JobType, HistoryType

LEMMA ClosingType ==
  ASSUME TypeOK, NEW gone \in SUBSET Users, \A u \in gone : sessions[u] # NoSession,
         NEW retry \in BOOLEAN
  PROVE  TaskType(Task({Closed(u, sessions[u]) : u \in gone}, retry))
BY DEF TypeOK, TaskType, Task, Closed

LEMMA ResetConversationType ==
  ASSUME TypeOK, NEW u \in Users, ResetConversation(u)
  PROVE  TypeOK'
<1>1. {Closed(x, sessions[x]) : x \in {u}} = {Closed(u, sessions[u])}
  OBVIOUS
<1>2. TaskType(Task({Closed(u, sessions[u])}, FALSE))
  BY <1>1, ClosingType DEF ResetConversation
<1>3. \A t \in tasks' : TaskType(t)
  BY <1>2 DEF ResetConversation, TypeOK
<1>. QED BY <1>3 DEF ResetConversation, past, TypeOK, RecordingType, TaskType, JobType, HistoryType

LEMMA SweepType ==
  ASSUME TypeOK, Sweep
  PROVE  TypeOK'
<1> DEFINE gone == {u \in Users : Expired(u)}
<1>1. TaskType(Task({Closed(u, sessions[u]) : u \in gone}, TRUE))
  <2>1. gone \in SUBSET Users /\ \A u \in gone : sessions[u] # NoSession
    BY DEF Expired
  <2>. HIDE DEF gone
  <2>. QED BY <2>1, ClosingType
<1>2. \A t \in tasks' : TaskType(t)
  BY <1>1 DEF Sweep, TypeOK
<1>3. sessions' \in [Users -> SessionState \cup {NoSession}]
  BY DEF Sweep, TypeOK
<1>. QED BY <1>2, <1>3 DEF Sweep, past, TypeOK, RecordingType, TaskType, JobType, HistoryType

LEMMA TaskStepType ==
  ASSUME TypeOK, NEW t \in tasks, TaskStep(t)
  PROVE  TypeOK'
<1>1. TaskType(t) /\ \A x \in tasks : TaskType(x)
  BY DEF TypeOK
<1>2. ASSUME NEW c \in t.todo, SkipEmpty(t, c) PROVE TypeOK'
  <2>1. TaskType([t EXCEPT !.todo = @ \ {c}])
    BY <1>1 DEF TaskType
  <2>2. \A x \in tasks' : TaskType(x)
    BY <1>1, <1>2, <2>1, BecomesType DEF SkipEmpty
  <2>. QED BY <1>2, <2>2 DEF SkipEmpty, past, TypeOK, RecordingType, JobType, HistoryType
<1>3. ASSUME NEW c \in t.todo, FlushPersists(t, c) PROVE TypeOK'
  <2>1. TaskType([t EXCEPT !.todo = @ \ {c}]) /\ EpisodeFrom(c) \in Episode
    BY <1>1, EpisodeType DEF TaskType
  <2>2. \A x \in tasks' : TaskType(x)
    BY <1>1, <1>3, <2>1, BecomesType DEF FlushPersists
  <2>3. archive' \in Seq(Episode)
    BY <1>3, <2>1 DEF FlushPersists, TypeOK
  <2>. QED BY <1>3, <2>2, <2>3 DEF FlushPersists, past, TypeOK, RecordingType, JobType, HistoryType
<1>4. ASSUME NEW c \in t.todo, FlushFails(t, c) PROVE TypeOK'
  <2>1. EpisodeFrom(c) \in Episode
    BY <1>1, EpisodeType DEF TaskType
  <2>2. TaskType([t EXCEPT !.todo = @ \ {c}, !.failed = <<EpisodeFrom(c)>>])
    <3>1. <<EpisodeFrom(c)>> \in Seq(Episode)
      BY <2>1
    <3>. QED BY <1>1, <3>1 DEF TaskType
  <2>3. \A x \in tasks' : TaskType(x)
    BY <1>1, <1>4, <2>2, BecomesType DEF FlushFails
  <2>. QED BY <1>4, <2>3 DEF FlushFails, past, TypeOK, RecordingType, JobType, HistoryType
<1>5. ASSUME QueueFailed(t) PROVE TypeOK'
  <2>1. t.failed[1] \in Episode
    BY <1>1, <1>5 DEF QueueFailed, TaskType
  <2>2. pending' \in Seq(Episode)
    BY <1>5, <2>1, EnqueuedType DEF QueueFailed, TypeOK
  <2>3. TaskType([t EXCEPT !.failed = <<>>])
    <3>1. <<>> \in Seq(Episode)
      OBVIOUS
    <3>. QED BY <1>1, <3>1 DEF TaskType
  <2>4. \A x \in tasks' : TaskType(x)
    BY <1>1, <1>5, <2>3, BecomesType DEF QueueFailed
  <2>. QED BY <1>5, <2>2, <2>4 DEF QueueFailed, TypeOK, RecordingType, JobType, HistoryType
<1>6. ASSUME BeginRetry(t) PROVE TypeOK'
  <2>1. retrying' \in [active : BOOLEAN, still : Seq(Episode)]
    BY <1>6 DEF BeginRetry
  <2>. QED BY <1>6, <2>1
           DEF BeginRetry, past, TypeOK, RecordingType, TaskType, JobType, HistoryType
<1>. QED BY <1>2, <1>3, <1>4, <1>5, <1>6 DEF TaskStep

LEMMA RetryStepType ==
  ASSUME TypeOK, RetryStep
  PROVE  TypeOK'
<1>1. ASSUME pending # <<>> PROVE Head(pending) \in Episode /\ Tail(pending) \in Seq(Episode)
  BY <1>1 DEF TypeOK
<1>2. CASE RetryPersists
  BY <1>1, <1>2
     DEF RetryPersists, past, TypeOK, RecordingType, TaskType, JobType, HistoryType
<1>3. CASE RetryFails
  <2>1. Append(retrying.still, Head(pending)) \in Seq(Episode)
    BY <1>1, <1>3 DEF RetryFails, TypeOK
  <2>2. retrying' \in [active : BOOLEAN, still : Seq(Episode)]
    BY <1>3, <2>1 DEF RetryFails, TypeOK
  <2>. QED BY <1>1, <1>3, <2>2
           DEF RetryFails, past, TypeOK, RecordingType, TaskType, JobType, HistoryType
<1>4. CASE EndRetry
  BY <1>4
     DEF EndRetry, Idle, past, TypeOK, RecordingType, TaskType, JobType, HistoryType
<1>. QED BY <1>2, <1>3, <1>4 DEF RetryStep

LEMMA NextTypeOK == TypeOK /\ [Next]_vars => TypeOK'
<1> SUFFICES ASSUME TypeOK, [Next]_vars PROVE TypeOK'
  OBVIOUS
<1>1. ASSUME NEW u \in Users, NEW c \in Contents, RecordTurn(u, c) PROVE TypeOK'
  BY <1>1, RecordTurnType
<1>2. ASSUME NEW r \in recording, CheckSummarization(r) PROVE TypeOK'
  BY <1>2, CheckSummarizationType
<1>3. ASSUME NEW job \in jobs, SummaryStep(job) PROVE TypeOK'
  <2>1. ASSUME NEW size \in SummarySizes, SummaryArrives(job, size) PROVE TypeOK'
    BY <2>1, SummaryArrivesType
  <2>2. ASSUME SummaryFails(job) PROVE TypeOK'
    BY <2>2 DEF SummaryFails, past, TypeOK, RecordingType, TaskType, JobType, HistoryType
  <2>. QED BY <1>3, <2>1, <2>2 DEF SummaryStep
<1>4. ASSUME NEW u \in Users, ResetConversation(u) PROVE TypeOK'
  BY <1>4, ResetConversationType
<1>5. CASE Sweep
  BY <1>5, SweepType
<1>6. ASSUME NEW t \in tasks, TaskStep(t) PROVE TypeOK'
  BY <1>6, TaskStepType
<1>7. CASE RetryStep
  BY <1>7, RetryStepType
<1>8. CASE Tick
  BY <1>8 DEF Tick, memory, past, TypeOK, RecordingType, TaskType, JobType, HistoryType
<1>9. CASE Crash
  BY <1>9 DEF Crash, Idle, TypeOK, RecordingType, HistoryType
<1>10. CASE UNCHANGED vars
  BY <1>10 DEF vars, TypeOK, RecordingType, TaskType, JobType, HistoryType
<1>. QED BY <1>1, <1>2, <1>3, <1>4, <1>5, <1>6, <1>7, <1>8, <1>9, <1>10 DEF Next

\* The state of the conversation memory keeps its type.
THEOREM TypeCorrect == Spec => []TypeOK
<1>1. Init => TypeOK
  BY InitTypeOK
<1>2. TypeOK /\ [Next]_vars => TypeOK'
  BY NextTypeOK
<1>. QED BY <1>1, <1>2, PTL DEF Spec

-----------------------------------------------------------------------------
(* The limits of the buffer.                                               *)

LEMMA LimitsPerSession ==
  BufferWithinLimits <=> \A u \in Active : Exact(sessions[u]) /\ WithinLimits(sessions[u])
BY DEF BufferWithinLimits, Exact, WithinLimits

\* What a step has to do for the sessions it leaves in the map.
LEMMA LimitsKept ==
  ASSUME \A u \in Users : \/ sessions'[u] = NoSession
                          \/ Exact(sessions'[u]) /\ WithinLimits(sessions'[u])
  PROVE  BufferWithinLimits'
BY DEF BufferWithinLimits, Active, Exact, WithinLimits

LEMMA NextWithinLimits == TypeOK /\ BufferWithinLimits /\ [Next]_vars => BufferWithinLimits'
<1> SUFFICES ASSUME TypeOK, BufferWithinLimits, [Next]_vars PROVE BufferWithinLimits'
  OBVIOUS
<1>0. \A u \in Users : \/ sessions[u] = NoSession
                       \/ Exact(sessions[u]) /\ WithinLimits(sessions[u])
  BY LimitsPerSession DEF Active
<1>1. ASSUME NEW u \in Users, NEW c \in Contents, RecordTurn(u, c) PROVE BufferWithinLimits'
  <2> DEFINE id == Len(history) + 1
             s  == SessionForPush(u, id)
             e  == [id |-> id, content |-> c, timestamp |-> now]
  <2>1. id \in Nat \ {0} /\ now \in Nat
    BY DEF TypeOK, HistoryType
  <2>2. e \in BufferEntry
    BY <2>1 DEF BufferEntry
  <2>3. s \in SessionState /\ Exact(s)
    BY <1>0, <2>1, SessionForPushFacts
  <2>4. sessions' = [sessions EXCEPT ![u] = Pushed(s, e)]
    BY <1>1 DEF RecordTurn
  <2>. HIDE DEF id, s, e
  <2>5. Exact(Pushed(s, e)) /\ WithinLimits(Pushed(s, e))
    BY <2>2, <2>3, PushedFacts
  <2>6. \A x \in Users : sessions'[x] = IF x = u THEN Pushed(s, e) ELSE sessions[x]
    BY <2>4 DEF TypeOK
  <2>. QED BY <1>0, <2>5, <2>6, LimitsKept
<1>2. ASSUME NEW job \in jobs, SummaryStep(job) PROVE BufferWithinLimits'
  <2>1. ASSUME NEW size \in SummarySizes, SummaryArrives(job, size) PROVE BufferWithinLimits'
    <3> DEFINE u == job.user_id
               s == sessions[u]
    <3>1. JobType(job) /\ u \in Users /\ size \in Nat
      BY MemoryAssumption DEF TypeOK, JobType
    <3>2. CASE sessions' = sessions
      BY <1>0, <3>2, LimitsKept
    <3>3. CASE /\ s # NoSession
               /\ CanInstall(s, job)
               /\ sessions' = [sessions EXCEPT ![u] = Installed(s, job, size)]
      <4>1. s \in SessionState /\ Exact(s) /\ WithinLimits(s)
        BY <1>0, <3>1, <3>3 DEF TypeOK
      <4>2. Exact(Installed(s, job, size)) /\ WithinLimits(Installed(s, job, size))
        BY <3>1, <3>3, <4>1, InstalledFacts DEF JobType
      <4>3. \A x \in Users :
              sessions'[x] = IF x = u THEN Installed(s, job, size) ELSE sessions[x]
        BY <3>3 DEF TypeOK
      <4>. QED BY <1>0, <4>2, <4>3, LimitsKept
    <3>. QED BY <2>1, <3>2, <3>3 DEF SummaryArrives
  <2>2. ASSUME SummaryFails(job) PROVE BufferWithinLimits'
    BY <1>0, <2>2, LimitsKept DEF SummaryFails
  <2>. QED BY <1>2, <2>1, <2>2 DEF SummaryStep
<1>3. ASSUME NEW u \in Users, ResetConversation(u) PROVE BufferWithinLimits'
  <2>1. \A x \in Users : sessions'[x] = NoSession \/ sessions'[x] = sessions[x]
    BY <1>3 DEF ResetConversation, TypeOK
  <2>. QED BY <1>0, <2>1, LimitsKept
<1>4. CASE Sweep
  <2>1. \A x \in Users : sessions'[x] = NoSession \/ sessions'[x] = sessions[x]
    BY <1>4 DEF Sweep
  <2>. QED BY <1>0, <2>1, LimitsKept
<1>5. CASE Crash
  <2>1. \A x \in Users : sessions'[x] = NoSession
    BY <1>5 DEF Crash
  <2>. QED BY <2>1, LimitsKept
<1>6. CASE UNCHANGED sessions
  BY <1>0, <1>6, LimitsKept
<1>7. ASSUME NEW r \in recording, CheckSummarization(r) PROVE UNCHANGED sessions
  BY <1>7 DEF CheckSummarization
<1>8. ASSUME NEW t \in tasks, TaskStep(t) PROVE UNCHANGED sessions
  BY <1>8 DEF TaskStep, SkipEmpty, FlushPersists, FlushFails, QueueFailed, BeginRetry
<1>9. RetryStep \/ Tick \/ UNCHANGED vars => UNCHANGED sessions
  BY DEF RetryStep, RetryPersists, RetryFails, EndRetry, Tick, memory, vars
<1>. QED BY <1>1, <1>2, <1>3, <1>4, <1>5, <1>6, <1>7, <1>8, <1>9 DEF Next

\* No session ever exceeds both of its limits, and total_tokens never drifts.
THEOREM BufferStaysWithinLimits == Spec => []BufferWithinLimits
<1>1. Init => BufferWithinLimits
  BY DEF Init, BufferWithinLimits, Active
<1>2. TypeOK /\ BufferWithinLimits /\ [Next]_vars => BufferWithinLimits'
  BY NextWithinLimits
<1>. QED BY <1>1, <1>2, TypeCorrect, PTL DEF Spec

-----------------------------------------------------------------------------
(* The retry queue.                                                        *)

\* Between retries nothing is set aside, so that an enqueue sees the whole queue.
QueueInv == QueueBounded /\ (~retrying.active => retrying.still = <<>>)

LEMMA EnqueuedBounded ==
  ASSUME NEW q \in Seq(Episode), NEW ep \in Episode, Len(q) <= MaxPendingFlushes
  PROVE  Len(Enqueued(q, ep)) <= MaxPendingFlushes
<1>1. CASE QueueFull(q)
  <2>1. q # <<>> /\ Len(Tail(q)) = Len(q) - 1
    BY <1>1, PendingAssumption DEF QueueFull
  <2>2. Len(Append(Tail(q), ep)) = Len(q)
    BY <2>1
  <2>. QED BY <1>1, <2>2 DEF Enqueued
<1>2. CASE ~QueueFull(q)
  BY <1>2, PendingAssumption DEF QueueFull, Enqueued
<1>. QED BY <1>1, <1>2

LEMMA NextQueueInv == TypeOK /\ QueueInv /\ [Next]_vars => QueueInv'
<1> SUFFICES ASSUME TypeOK, QueueInv, [Next]_vars PROVE QueueInv'
  OBVIOUS
<1>1. pending \in Seq(Episode) /\ retrying.still \in Seq(Episode)
  BY DEF TypeOK
<1>2. Len(Queue) = Len(retrying.still) + Len(pending) /\ Len(Queue) <= MaxPendingFlushes
  BY <1>1 DEF Queue, QueueInv, QueueBounded
<1>3. ASSUME NEW t \in tasks, QueueFailed(t) PROVE QueueInv'
  <2>1. t.failed[1] \in Episode
    BY <1>3 DEF QueueFailed, TypeOK, TaskType
  <2>2. retrying.still = <<>> /\ UNCHANGED retrying
    BY <1>3 DEF QueueFailed, QueueInv
  <2>3. pending' = Enqueued(pending, t.failed[1]) /\ pending' \in Seq(Episode)
    BY <1>1, <1>3, <2>1, EnqueuedType DEF QueueFailed
  <2>4. Len(pending') <= MaxPendingFlushes
    BY <1>1, <1>2, <2>1, <2>2, <2>3, EnqueuedBounded
  <2>5. Queue' = pending'
    <3>1. \A q \in Seq(Episode) : <<>> \o q = q
      OBVIOUS
    <3>2. Queue' = <<>> \o pending'
      BY <2>2 DEF Queue
    <3>. QED BY <2>3, <3>1, <3>2
  <2>. QED BY <2>2, <2>4, <2>5 DEF QueueInv, QueueBounded
<1>4. ASSUME NEW t \in tasks, BeginRetry(t) PROVE QueueInv'
  <2>1. Queue' = Queue /\ retrying'.still = <<>>
    BY <1>1, <1>4 DEF BeginRetry, Queue, QueueInv
  <2>. QED BY <1>2, <2>1 DEF QueueInv, QueueBounded
<1>5. CASE RetryPersists
  <2>1. UNCHANGED retrying /\ Len(pending') = Len(pending) - 1 /\ pending' \in Seq(Episode)
    BY <1>1, <1>5 DEF RetryPersists
  <2>2. Len(Queue') = Len(retrying.still) + Len(pending')
    BY <1>1, <2>1 DEF Queue
  <2>. QED BY <1>1, <1>2, <1>5, <2>1, <2>2, PendingAssumption
           DEF RetryPersists, QueueInv, QueueBounded
<1>6. CASE RetryFails
  <2>1. Head(pending) \in Episode /\ Len(pending') = Len(pending) - 1 /\ pending' \in Seq(Episode)
    BY <1>1, <1>6 DEF RetryFails
  <2>2. /\ retrying'.active
        /\ retrying'.still = Append(retrying.still, Head(pending))
    BY <1>6 DEF RetryFails, TypeOK
  <2>3. Len(retrying'.still) = Len(retrying.still) + 1 /\ retrying'.still \in Seq(Episode)
    BY <1>1, <2>1, <2>2
  <2>4. Len(Queue') = Len(retrying'.still) + Len(pending')
    BY <2>1, <2>3 DEF Queue
  <2>. QED BY <1>1, <1>2, <2>1, <2>2, <2>3, <2>4 DEF QueueInv, QueueBounded
<1>7. CASE EndRetry
  <2>1. pending = <<>> /\ pending' = retrying.still /\ retrying'.still = <<>>
    BY <1>7 DEF EndRetry, Idle
  <2>2. Queue' = retrying.still
    BY <1>1, <2>1 DEF Queue
  <2>. QED BY <1>1, <1>2, <2>1, <2>2 DEF QueueInv, QueueBounded
<1>8. CASE Crash
  <2>1. pending' = <<>> /\ retrying'.still = <<>>
    BY <1>8 DEF Crash, Idle
  <2>2. Len(Queue') = 0
    BY <2>1 DEF Queue
  <2>. QED BY <2>1, <2>2, PendingAssumption DEF QueueInv, QueueBounded
<1>9. CASE UNCHANGED <<pending, retrying>>
  BY <1>9 DEF QueueInv, QueueBounded, Queue
<1>10. ASSUME NEW t \in tasks, TaskStep(t) PROVE QueueInv'
  <2>1. ASSUME NEW c \in t.todo, SkipEmpty(t, c) \/ FlushPersists(t, c) \/ FlushFails(t, c)
        PROVE  UNCHANGED <<pending, retrying>>
    BY <2>1 DEF SkipEmpty, FlushPersists, FlushFails
  <2>. QED BY <1>3, <1>4, <1>9, <1>10, <2>1 DEF TaskStep
<1>11. ASSUME NEW u \in Users, NEW c \in Contents, RecordTurn(u, c)
       PROVE  UNCHANGED <<pending, retrying>>
  BY <1>11 DEF RecordTurn
<1>12. ASSUME NEW r \in recording, CheckSummarization(r) PROVE UNCHANGED <<pending, retrying>>
  BY <1>12 DEF CheckSummarization
<1>13. ASSUME NEW job \in jobs, SummaryStep(job) PROVE UNCHANGED <<pending, retrying>>
  BY <1>13 DEF SummaryStep, SummaryArrives, SummaryFails
<1>14. ASSUME NEW u \in Users, ResetConversation(u) PROVE UNCHANGED <<pending, retrying>>
  BY <1>14 DEF ResetConversation
<1>15. Sweep \/ Tick \/ UNCHANGED vars => UNCHANGED <<pending, retrying>>
  BY DEF Sweep, Tick, memory, vars
<1>. QED BY <1>5, <1>6, <1>7, <1>8, <1>9, <1>10, <1>11, <1>12, <1>13, <1>14, <1>15
         DEF Next, RetryStep

\* The retry queue never exceeds MAX_PENDING_FLUSHES, the episodes a retry has
\* set aside included.
THEOREM QueueStaysBounded == Spec => []QueueBounded
<1>1. Init => QueueInv
  <2> SUFFICES ASSUME Init PROVE QueueInv
    OBVIOUS
  <2>1. pending = <<>> /\ retrying.still = <<>>
    BY DEF Init, Idle
  <2>2. Len(Queue) = 0
    BY <2>1 DEF Queue
  <2>. QED BY <2>1, <2>2, PendingAssumption DEF QueueInv, QueueBounded
<1>2. TypeOK /\ QueueInv /\ [Next]_vars => QueueInv'
  BY NextQueueInv
<1>3. QueueInv => QueueBounded
  BY DEF QueueInv
<1>. QED BY <1>1, <1>2, <1>3, TypeCorrect, PTL DEF Spec


-----------------------------------------------------------------------------
(* What the memory holds of the history.                                   *)

\* The turns of a session in the history h.
Mine(h, sid) == {i \in 1..Len(h) : h[i].session_id = sid}

InOrder(s) ==
  /\ \A i, j \in 1..Len(s.entries) : i < j => s.entries[i].id < s.entries[j].id
  /\ \A id \in SummarizedIds(s), i \in 1..Len(s.entries) : id < s.entries[i].id
  /\ \A j, k \in 1..Len(s.summaries) : j < k =>
       \A a \in 1..Len(s.summaries[j].ids), b \in 1..Len(s.summaries[k].ids) :
         s.summaries[j].ids[a] < s.summaries[k].ids[b]

EntriesTell(h, s) ==
  \A i \in 1..Len(s.entries) : SameTurn(s.entries[i], h[s.entries[i].id])

BlocksTell(h, s) ==
  \A j \in 1..Len(s.summaries) :
    /\ Len(s.summaries[j].ids) = s.summaries[j].turns_covered
    /\ \A i \in 1..Len(s.summaries[j].ids) :
         SameTurn(s.summaries[j].source[i], h[s.summaries[j].ids[i]])

\* What session s of user u holds are the turns of its own but those evicted.
HoldsOnly(h, ev, u, s) ==
  /\ TurnsIn(s) = Mine(h, s.session_id) \ ev
  /\ \A id \in TurnsIn(s) : h[id].user_id = u
  /\ InOrder(s)
  /\ EntriesTell(h, s)
  /\ BlocksTell(h, s)
  /\ TurnsCovered(s) = Cardinality(SummarizedIds(s))

HoldsItsTurns(h, ev, u, s) == HoldsOnly(h, ev, u, s) /\ TurnsIn(s) # {}

TellsItsTurns(h, ev, ep) ==
  /\ ep.content = Mine(h, ep.session_id) \ ev
  /\ ep.content # {}
  /\ ep.turn_count = Cardinality(ep.content)

SessionsHold ==
  /\ \A u \in Active : HoldsItsTurns(history, evicted, u, sessions[u])
  /\ \A t \in tasks : \A c \in t.todo : HoldsItsTurns(history, evicted, c.user_id, c.session)

EpisodesTell ==
  /\ \A t \in tasks : \A i \in 1..Len(t.failed) : TellsItsTurns(history, evicted, t.failed[i])
  /\ \A i \in 1..Len(Queue) : TellsItsTurns(history, evicted, Queue[i])
  /\ \A i \in 1..Len(archive) : TellsItsTurns(history, evicted, archive[i])

\* A closed session is in one task, to flush or to queue, or in the queue once.
HeldOnce ==
  /\ \A t1, t2 \in tasks : \A c1 \in t1.todo, c2 \in t2.todo :
       c1.session.session_id = c2.session.session_id => t1 = t2 /\ c1 = c2
  /\ \A t \in tasks : Len(t.failed) <= 1
  /\ \A t1, t2 \in tasks :
       /\ t1.failed # <<>> /\ t2.failed # <<>>
       /\ t1.failed[1].session_id = t2.failed[1].session_id
       => t1 = t2
  /\ \A i, j \in 1..Len(Queue) : Queue[i].session_id = Queue[j].session_id => i = j

\* A session is named by its first turn.
SessionsAreNamed == \A i \in RecordedTurns : history[i].session_id \in 1..i

MemoryInv ==
  /\ TypeOK
  /\ SessionsAreNamed
  /\ SessionsHold
  /\ EpisodesTell
  /\ HeldOnce
  /\ EveryTurnInOnePlace
  /\ QueueInv

\* The latest turn of a live session is the one its last activity tells.
LatestTurnsAreTimed ==
  \A u \in Active : \E k \in RecordedTurns :
    /\ history[k].session_id = sessions[u].session_id
    /\ history[k].timestamp = sessions[u].last_activity
    /\ \A m \in RecordedTurns : m > k => history[m].session_id # sessions[u].session_id

-----------------------------------------------------------------------------
(* The turns of one session.                                               *)

LEMMA InSummarized ==
  ASSUME NEW s, NEW x
  PROVE  x \in SummarizedIds(s) <=>
           \E j \in 1..Len(s.summaries) : \E i \in 1..Len(s.summaries[j].ids) :
             x = s.summaries[j].ids[i]
BY DEF SummarizedIds

LEMMA InVerbatim ==
  ASSUME NEW s, NEW x
  PROVE  x \in VerbatimIds(s) <=> \E i \in 1..Len(s.entries) : x = s.entries[i].id
BY DEF VerbatimIds

LEMMA SameBlocks ==
  ASSUME NEW s, NEW r, r.summaries = s.summaries
  PROVE  /\ SummarizedIds(r) = SummarizedIds(s)
         /\ TurnsCovered(r) = TurnsCovered(s)
         /\ \A h : BlocksTell(h, s) => BlocksTell(h, r)
BY DEF SummarizedIds, TurnsCovered, BlocksTell

LEMMA EntryIds ==
  ASSUME NEW s \in SessionState
  PROVE  /\ s.entries \in Seq(BufferEntry)
         /\ Len(s.entries) \in Nat
         /\ \A i \in 1..Len(s.entries) : s.entries[i] \in BufferEntry /\ s.entries[i].id \in Nat
<1>1. s.entries \in Seq(BufferEntry)
  BY DEF SessionState
<1>2. \A i \in 1..Len(s.entries) : s.entries[i] \in BufferEntry
  BY <1>1
<1>. QED BY <1>1, <1>2 DEF BufferEntry

\* The n oldest entries of a session.
OldestIds(s, n) == {s.entries[i].id : i \in 1..n}

LEMMA WithoutOldestTurns ==
  ASSUME NEW s \in SessionState, NEW n \in 0..Len(s.entries), InOrder(s)
  PROVE  LET r == WithoutOldest(s, n)
         IN  /\ OldestIds(s, n) \subseteq VerbatimIds(s)
             /\ OldestIds(s, n) \cap SummarizedIds(s) = {}
             /\ VerbatimIds(r) = VerbatimIds(s) \ OldestIds(s, n)
             /\ r.summaries = s.summaries
             /\ r.session_id = s.session_id
             /\ r.last_activity = s.last_activity
             /\ Len(r.entries) = Len(s.entries) - n
             /\ \A i \in 1..Len(r.entries) : /\ i + n \in 1..Len(s.entries)
                                             /\ r.entries[i] = s.entries[i + n]
             /\ InOrder(r)
<1> DEFINE r == WithoutOldest(s, n)
           N == Len(s.entries)
<1>1. /\ r.entries = SubSeq(s.entries, n + 1, Len(s.entries))
      /\ r.summaries = s.summaries
      /\ r.session_id = s.session_id
      /\ r.last_activity = s.last_activity
  BY DEF WithoutOldest, SessionState
<1>2. s.entries \in Seq(BufferEntry) /\ N \in Nat
  BY EntryIds
<1>3. /\ Len(r.entries) = N - n
      /\ \A i \in 1..Len(r.entries) : r.entries[i] = s.entries[i + n]
  BY <1>1, <1>2, TokensOfRest
<1>. HIDE DEF r
<1>4. \A i \in 1..Len(r.entries) : i + n \in 1..N
  BY <1>2, <1>3
<1>5. \A i, j \in 1..N : i < j => s.entries[i].id < s.entries[j].id
  BY DEF InOrder
<1>5a. \A i \in 1..N : s.entries[i].id \in Nat
  BY EntryIds
<1>6. \A i, j \in 1..N : s.entries[i].id = s.entries[j].id => i = j
  BY <1>2, <1>5, <1>5a
<1>7. \A id \in SummarizedIds(s), i \in 1..N : id < s.entries[i].id
  BY DEF InOrder
<1>8. OldestIds(s, n) \subseteq VerbatimIds(s)
  BY <1>2 DEF OldestIds, VerbatimIds
<1>9. OldestIds(s, n) \cap SummarizedIds(s) = {}
  <2>1. ASSUME NEW i \in 1..n, s.entries[i].id \in SummarizedIds(s) PROVE FALSE
    <3>1. i \in 1..N
      BY <1>2
    <3>2. s.entries[i].id < s.entries[i].id /\ s.entries[i].id \in Nat
      BY <1>7, <1>5a, <2>1, <3>1
    <3>. QED BY <3>2
  <2>. QED BY <2>1 DEF OldestIds
<1>10. VerbatimIds(r) = VerbatimIds(s) \ OldestIds(s, n)
  <2>1. ASSUME NEW i \in 1..Len(r.entries)
        PROVE  r.entries[i].id \in VerbatimIds(s) /\ r.entries[i].id \notin OldestIds(s, n)
    <3>1. r.entries[i].id = s.entries[i + n].id /\ i + n \in 1..N
      BY <1>3, <1>4
    <3>2. \A k \in 1..n : k \in 1..N /\ k # i + n
      BY <1>2
    <3>. QED BY <1>6, <3>1, <3>2 DEF VerbatimIds, OldestIds
  <2>2. ASSUME NEW k \in 1..N, s.entries[k].id \notin OldestIds(s, n)
        PROVE  s.entries[k].id \in VerbatimIds(r)
    <3>1. k \notin 1..n
      BY <2>2 DEF OldestIds
    <3>2. k - n \in 1..Len(r.entries) /\ (k - n) + n = k
      BY <1>2, <1>3, <3>1
    <3>3. r.entries[k - n] = s.entries[k]
      BY <1>3, <3>2
    <3>. QED BY <3>2, <3>3 DEF VerbatimIds
  <2>. QED BY <2>1, <2>2, InVerbatim
<1>11. InOrder(r)
  <2>1. SummarizedIds(r) = SummarizedIds(s)
    BY <1>1, SameBlocks
  <2>2. ASSUME NEW i \in 1..Len(r.entries), NEW j \in 1..Len(r.entries), i < j
        PROVE  r.entries[i].id < r.entries[j].id
    <3>1. i + n \in 1..N /\ j + n \in 1..N
      BY <1>4
    <3>2. i + n < j + n
      BY <2>2, <1>2
    <3>3. s.entries[i + n].id < s.entries[j + n].id
      BY <1>5, <3>1, <3>2
    <3>. QED BY <1>3, <3>3
  <2>3. ASSUME NEW id \in SummarizedIds(r), NEW i \in 1..Len(r.entries)
        PROVE  id < r.entries[i].id
    BY <1>3, <1>4, <1>7, <2>1
  <2>4. \A j, k \in 1..Len(r.summaries) : j < k =>
          \A a \in 1..Len(r.summaries[j].ids), b \in 1..Len(r.summaries[k].ids) :
            r.summaries[j].ids[a] < r.summaries[k].ids[b]
    BY <1>1 DEF InOrder
  <2>. QED BY <2>2, <2>3, <2>4 DEF InOrder
<1>. QED BY <1>1, <1>3, <1>4, <1>8, <1>9, <1>10, <1>11 DEF r, N

LEMMA ExtendedTurns ==
  ASSUME NEW s \in SessionState, NEW e \in BufferEntry, InOrder(s),
         \A id \in TurnsIn(s) : id < e.id
  PROVE  LET f == Extended(s, e)
         IN  /\ f \in SessionState
             /\ f.entries = Append(s.entries, e)
             /\ f.summaries = s.summaries
             /\ f.session_id = s.session_id
             /\ f.last_activity = e.timestamp
             /\ VerbatimIds(f) = VerbatimIds(s) \cup {e.id}
             /\ InOrder(f)
<1> DEFINE f == Extended(s, e)
           N == Len(s.entries)
<1>1. /\ f.entries = Append(s.entries, e)
      /\ f.total_tokens = s.total_tokens + TokensIn[e.content]
      /\ f.session_id = s.session_id
      /\ f.summaries = s.summaries
      /\ f.last_activity = e.timestamp
      /\ f = [s EXCEPT !.entries = f.entries, !.total_tokens = f.total_tokens,
                       !.last_activity = f.last_activity]
  BY DEF Extended, SessionState
<1>2. f \in SessionState
  <2>1. /\ s.entries \in Seq(BufferEntry)
        /\ s.total_tokens \in Nat
        /\ e.timestamp \in Nat
        /\ TokensIn[e.content] \in Nat
    BY TokensAssumption DEF SessionState, BufferEntry
  <2>2. f.entries \in Seq(BufferEntry) /\ f.total_tokens \in Nat /\ f.last_activity \in Nat
    BY <1>1, <2>1
  <2>. HIDE DEF f
  <2>. QED BY <1>1, <2>2 DEF SessionState
<1>. HIDE DEF f
<1>3. N \in Nat /\ s.entries \in Seq(BufferEntry)
  BY EntryIds
<1>4. /\ Len(f.entries) = N + 1
      /\ f.entries[N + 1] = e
      /\ \A i \in 1..N : f.entries[i] = s.entries[i]
  BY <1>1, <1>3
<1>5. VerbatimIds(f) = VerbatimIds(s) \cup {e.id}
  <2>1. \A i \in 1..(N + 1) : i = N + 1 \/ i \in 1..N
    BY <1>3
  <2>2. N + 1 \in 1..(N + 1) /\ \A i \in 1..N : i \in 1..(N + 1)
    BY <1>3
  <2>. HIDE DEF N
  <2>3. \A x : x \in VerbatimIds(f) <=> \E i \in 1..(N + 1) : x = f.entries[i].id
    BY <1>4, InVerbatim
  <2>4. \A x : x \in VerbatimIds(s) <=> \E i \in 1..N : x = s.entries[i].id
    BY InVerbatim DEF N
  <2>. QED BY <1>4, <2>1, <2>2, <2>3, <2>4
<1>6. InOrder(f)
  <2>1. SummarizedIds(f) = SummarizedIds(s)
    BY <1>1, SameBlocks
  <2>2. \A id \in SummarizedIds(s) \cup VerbatimIds(s) : id < e.id
    BY DEF TurnsIn
  <2>3. \A i \in 1..N : s.entries[i].id < e.id
    BY <2>2 DEF VerbatimIds
  <2>4. ASSUME NEW i \in 1..(N + 1), NEW j \in 1..(N + 1), i < j
        PROVE  f.entries[i].id < f.entries[j].id
    <3>1. i \in 1..N
      BY <1>3, <2>4
    <3>2. CASE j = N + 1
      BY <1>4, <2>3, <3>1, <3>2
    <3>3. CASE j # N + 1
      <4>1. j \in 1..N
        BY <1>3, <3>3
      <4>. QED BY <1>4, <2>4, <3>1, <4>1 DEF InOrder
    <3>. QED BY <3>2, <3>3
  <2>5. ASSUME NEW id \in SummarizedIds(s), NEW i \in 1..(N + 1)
        PROVE  id < f.entries[i].id
    <3>1. CASE i = N + 1
      BY <1>4, <2>2, <3>1
    <3>2. CASE i # N + 1
      <4>1. i \in 1..N
        BY <1>3, <3>2
      <4>. QED BY <1>4, <4>1 DEF InOrder
    <3>. QED BY <3>1, <3>2
  <2>6. \A j, k \in 1..Len(f.summaries) : j < k =>
          \A a \in 1..Len(f.summaries[j].ids), b \in 1..Len(f.summaries[k].ids) :
            f.summaries[j].ids[a] < f.summaries[k].ids[b]
    BY <1>1 DEF InOrder
  <2>. HIDE DEF N
  <2>. QED BY <1>4, <2>1, <2>4, <2>5, <2>6 DEF InOrder
<1>. QED BY <1>1, <1>2, <1>5, <1>6 DEF f

\* A push adds the turn and evicts turns of the session, oldest first.
LEMMA PushedTurns ==
  ASSUME NEW s \in SessionState, NEW e \in BufferEntry, InOrder(s),
         \A id \in TurnsIn(s) : id < e.id
  PROVE  LET p == Pushed(s, e)
             v == Evicted(s, e)
             X == {v[i].id : i \in 1..Len(v)}
         IN  /\ p \in SessionState
             /\ p.summaries = s.summaries
             /\ p.session_id = s.session_id
             /\ p.last_activity = e.timestamp
             /\ X \subseteq VerbatimIds(s)
             /\ X \cap SummarizedIds(s) = {}
             /\ VerbatimIds(p) = (VerbatimIds(s) \ X) \cup {e.id}
             /\ \A i \in 1..Len(p.entries) :
                  p.entries[i] = e \/ \E j \in 1..Len(s.entries) : p.entries[i] = s.entries[j]
             /\ InOrder(p)
<1> DEFINE f == Extended(s, e)
           n == EvictionCount(f)
           p == Pushed(s, e)
           v == Evicted(s, e)
           X == {v[i].id : i \in 1..Len(v)}
           N == Len(s.entries)
<1>1. /\ f \in SessionState
      /\ f.entries = Append(s.entries, e)
      /\ f.summaries = s.summaries
      /\ f.session_id = s.session_id
      /\ f.last_activity = e.timestamp
      /\ VerbatimIds(f) = VerbatimIds(s) \cup {e.id}
      /\ InOrder(f)
  BY ExtendedTurns
<1>2. p = WithoutOldest(f, n) /\ v = SubSeq(f.entries, 1, n)
  BY DEF Pushed, Evicted
<1>. HIDE DEF f
<1>3. N \in Nat /\ s.entries \in Seq(BufferEntry)
  BY EntryIds
<1>4. /\ Len(f.entries) = N + 1
      /\ f.entries # <<>>
      /\ f.entries[N + 1] = e
      /\ \A i \in 1..N : f.entries[i] = s.entries[i]
      /\ f.entries \in Seq(BufferEntry)
  BY <1>1, <1>3
<1>5. n \in 0..(Len(f.entries) - 1)
  BY <1>1, <1>4, EvictionCountFacts
<1>. HIDE DEF n
<1>6. n \in 0..N /\ n \in 0..Len(f.entries)
  BY <1>3, <1>4, <1>5
<1>7. Len(v) = n /\ \A i \in 1..n : v[i] = f.entries[i]
  BY <1>2, <1>3, <1>4, <1>6
<1>. HIDE DEF v
<1>8. X = OldestIds(f, n)
  BY <1>7 DEF OldestIds
<1>. HIDE DEF p
<1>9. /\ X \cap SummarizedIds(f) = {}
      /\ VerbatimIds(p) = VerbatimIds(f) \ X
      /\ p.summaries = f.summaries
      /\ p.session_id = f.session_id
      /\ p.last_activity = f.last_activity
      /\ \A i \in 1..Len(p.entries) : /\ i + n \in 1..Len(f.entries)
                                      /\ p.entries[i] = f.entries[i + n]
      /\ InOrder(p)
  BY <1>1, <1>2, <1>6, <1>8, WithoutOldestTurns
<1>10. \A i \in 1..N : s.entries[i].id < e.id /\ s.entries[i].id \in Nat
  <2>1. \A i \in 1..N : s.entries[i].id < e.id
    BY DEF TurnsIn, VerbatimIds
  <2>. QED BY <2>1, EntryIds
<1>11. X \subseteq VerbatimIds(s) /\ e.id \notin X
  <2>1. \A i \in 1..n : i \in 1..N
    BY <1>3, <1>6
  <2>2. \A i \in 1..n : v[i].id = s.entries[i].id
    BY <1>4, <1>7, <2>1
  <2>3. \A i \in 1..n : s.entries[i].id # e.id
    BY <1>10, <2>1
  <2>. QED BY <1>7, <2>1, <2>2, <2>3, InVerbatim
<1>12. SummarizedIds(f) = SummarizedIds(s)
  BY <1>1, SameBlocks
<1>13. ASSUME NEW i \in 1..Len(p.entries)
       PROVE  p.entries[i] = e \/ \E j \in 1..Len(s.entries) : p.entries[i] = s.entries[j]
  <2>1. i + n = N + 1 \/ i + n \in 1..N
    BY <1>3, <1>4, <1>6, <1>9
  <2>. QED BY <1>4, <1>9, <2>1
<1>14. p \in SessionState
  BY PushedFacts DEF p
<1>. HIDE DEF X
<1>. QED BY <1>1, <1>9, <1>11, <1>12, <1>13, <1>14 DEF p, v, X

\* Counting by an enumeration without repetition.
LEMMA CountedBy ==
  ASSUME NEW n \in Nat, NEW f, NEW S, S = {f[i] : i \in 1..n},
         \A i, j \in 1..n : f[i] = f[j] => i = j
  PROVE  IsFiniteSet(S) /\ Cardinality(S) = n
<1> DEFINE g == [i \in 1..n |-> f[i]]
<1>1. g \in [1..n -> S]
  OBVIOUS
<1>2. \A i, j \in 1..n : g[i] = g[j] => i = j
  OBVIOUS
<1>3. \A x \in S : \E i \in 1..n : g[i] = x
  OBVIOUS
<1>. HIDE DEF g
<1>4. g \in Bijection(1..n, S)
  BY <1>1, <1>2, <1>3, Zenon DEF Bijection, Injection, Surjection, IsInjective
<1>5. ExistsBijection(1..n, S)
  BY <1>4 DEF ExistsBijection
<1>6. IsFiniteSet(1..n) /\ Cardinality(1..n) = n
  <2>1. 1 \in Int /\ n \in Int
    OBVIOUS
  <2>2. IsFiniteSet(1..n) /\ Cardinality(1..n) = IF 1 > n THEN 0 ELSE n - 1 + 1
    BY <2>1, FS_Interval
  <2>. QED BY <2>2
<1>. QED BY <1>5, <1>6, FS_Bijection

LEMMA VerbatimCount ==
  ASSUME NEW s \in SessionState, NEW n \in 0..Len(s.entries), InOrder(s)
  PROVE  IsFiniteSet(OldestIds(s, n)) /\ Cardinality(OldestIds(s, n)) = n
<1> DEFINE f == [i \in 1..n |-> s.entries[i].id]
<1>1. n \in Nat /\ \A i \in 1..n : i \in 1..Len(s.entries) /\ s.entries[i].id \in Nat
  BY EntryIds
<1>2. \A i, j \in 1..n : i < j => s.entries[i].id < s.entries[j].id
  BY <1>1 DEF InOrder
<1>3. \A i, j \in 1..n : f[i] = f[j] => i = j
  BY <1>1, <1>2
<1>4. OldestIds(s, n) = {f[i] : i \in 1..n}
  BY DEF OldestIds
<1>. HIDE DEF f
<1>. QED BY <1>1, <1>3, <1>4, CountedBy

\* One block more covers as many turns more.
LEMMA CoveredByOneMore ==
  ASSUME NEW s \in SessionState, NEW r \in SessionState, NEW b,
         r.summaries = Append(s.summaries, b)
  PROVE  TurnsCovered(r) = TurnsCovered(s) + b.turns_covered
<1> DEFINE N == Len(s.summaries)
           f == [j \in 1..N |-> s.summaries[j].turns_covered]
           g == [j \in 1..(N + 1) |-> r.summaries[j].turns_covered]
<1>1. /\ s.summaries \in Seq(SummaryBlock)
      /\ r.summaries \in Seq(SummaryBlock)
      /\ N \in Nat
  BY DEF SessionState
<1>1a. /\ Len(r.summaries) = N + 1
       /\ r.summaries[N + 1] = b
       /\ \A j \in 1..N : r.summaries[j] = s.summaries[j]
  BY <1>1
<1>2. \A j \in 1..N : s.summaries[j].turns_covered \in Nat
  <2>1. \A j \in 1..N : s.summaries[j] \in SummaryBlock
    BY <1>1
  <2>. QED BY <2>1 DEF SummaryBlock
<1>3. \A j \in 1..(N + 1) : r.summaries[j].turns_covered \in Nat
  <2>1. \A j \in 1..(N + 1) : r.summaries[j] \in SummaryBlock
    BY <1>1, <1>1a
  <2>. QED BY <2>1 DEF SummaryBlock
<1>4. f \in [1..N -> Nat] /\ g \in [1..(N + 1) -> Nat]
  BY <1>2, <1>3
<1>5. TurnsCovered(s) = SumTo(f, N) /\ TurnsCovered(r) = SumTo(g, N + 1)
  BY <1>1a DEF TurnsCovered
<1>6. g[N + 1] = b.turns_covered /\ \A j \in 1..N : g[j] = f[j]
  <2>1. N + 1 \in 1..(N + 1) /\ \A j \in 1..N : j \in 1..(N + 1)
    BY <1>1
  <2>. QED BY <1>1a, <2>1
<1>. HIDE DEF f, g, N
<1>7. SumTo(g, N + 1) = SumTo(g, (N + 1) - 1) + g[N + 1]
  <2>1. N + 1 \in Nat /\ N + 1 \in 1..(N + 1)
    BY <1>1
  <2>. QED BY <1>4, <2>1, SumToRec
<1>8. SumTo(g, N) = SumTo(f, N)
  <2> DEFINE K == N + 1
  <2>1. K \in Nat /\ N <= K /\ N <= N
    BY <1>1
  <2>2. f \in [1..N -> Nat] /\ g \in [1..K -> Nat] /\ \A j \in 1..N : g[j] = f[j]
    BY <1>4, <1>6
  <2>. HIDE DEF K
  <2>. QED BY <1>1, <2>1, <2>2, SumToAgree
<1>. QED BY <1>1, <1>5, <1>6, <1>7, <1>8

\* A summary moves turns of the session from its entries to a block of its own.
LEMMA InstalledTurns ==
  ASSUME NEW s \in SessionState, NEW job, NEW size \in Nat, NEW h,
         job.n \in Nat, job.turns \in Seq(BufferEntry), CanInstall(s, job),
         InOrder(s), EntriesTell(h, s), BlocksTell(h, s)
  PROVE  LET r == Installed(s, job, size)
         IN  /\ r \in SessionState
             /\ r.session_id = s.session_id
             /\ r.last_activity = s.last_activity
             /\ TurnsIn(r) = TurnsIn(s)
             /\ InOrder(r)
             /\ EntriesTell(h, r)
             /\ BlocksTell(h, r)
             /\ SummarizedIds(r) = SummarizedIds(s) \cup OldestIds(s, job.n)
             /\ SummarizedIds(s) \cap OldestIds(s, job.n) = {}
             /\ TurnsCovered(r) = TurnsCovered(s) + job.n
<1> DEFINE n == job.n
           w == WithoutOldest(s, n)
           block == [turns_covered |-> n, approx_tokens |-> size,
                     ids |-> [i \in 1..n |-> s.entries[i].id],
                     source |-> job.turns]
           r == Installed(s, job, size)
           M == Len(s.summaries)
<1>1. n \in 0..Len(s.entries) /\ n # 0 /\ s.entries \in Seq(BufferEntry)
  BY EntryIds DEF CanInstall
<1>2. w \in SessionState
  BY <1>1, WithoutOldestFacts
<1>3. r = [w EXCEPT !.summaries = Append(@, block)]
  BY DEF Installed
<1>4. /\ OldestIds(s, n) \subseteq VerbatimIds(s)
      /\ OldestIds(s, n) \cap SummarizedIds(s) = {}
      /\ VerbatimIds(w) = VerbatimIds(s) \ OldestIds(s, n)
      /\ w.summaries = s.summaries
      /\ w.session_id = s.session_id
      /\ w.last_activity = s.last_activity
      /\ \A i \in 1..Len(w.entries) : /\ i + n \in 1..Len(s.entries)
                                      /\ w.entries[i] = s.entries[i + n]
      /\ InOrder(w)
  <2>. HIDE DEF n
  <2>. QED BY <1>1, WithoutOldestTurns
<1>5. /\ Len(block.ids) = n
      /\ \A i \in 1..n : block.ids[i] = s.entries[i].id
      /\ block.turns_covered = n
      /\ block.source = job.turns
  BY <1>1
<1>6. r \in SessionState
  BY InstalledFacts
<1>. HIDE DEF w, block, r
<1>7. /\ r.summaries = Append(s.summaries, block)
      /\ r.entries = w.entries
      /\ r.session_id = s.session_id
      /\ r.last_activity = s.last_activity
  BY <1>2, <1>3, <1>4 DEF SessionState
<1>8. /\ Len(r.summaries) = M + 1
      /\ r.summaries[M + 1] = block
      /\ \A j \in 1..M : r.summaries[j] = s.summaries[j]
      /\ M \in Nat
  <2>1. s.summaries \in Seq(SummaryBlock)
    BY DEF SessionState
  <2>. QED BY <1>7, <2>1
<1>9. \A j \in 1..(M + 1) : j = M + 1 \/ j \in 1..M
  BY <1>8
<1>10. M + 1 \in 1..(M + 1) /\ \A j \in 1..M : j \in 1..(M + 1)
  BY <1>8
<1>11. SummarizedIds(r) = SummarizedIds(s) \cup OldestIds(s, n)
  <2>1. ASSUME NEW x
        PROVE  x \in SummarizedIds(r) <=> \E j \in 1..(M + 1) :
                 \E i \in 1..Len(r.summaries[j].ids) : x = r.summaries[j].ids[i]
    <3>1. Len(r.summaries) = M + 1
      BY <1>8
    <3>. HIDE DEF M
    <3>2. x \in SummarizedIds(r) <=> \E j \in 1..Len(r.summaries) :
            \E i \in 1..Len(r.summaries[j].ids) : x = r.summaries[j].ids[i]
      BY DEF SummarizedIds
    <3>. QED BY <3>1, <3>2, Zenon
  <2>2. \A x : x \in SummarizedIds(s) <=>
          \E j \in 1..M : \E i \in 1..Len(s.summaries[j].ids) : x = s.summaries[j].ids[i]
    BY InSummarized
  <2>3. \A x : x \in OldestIds(s, n) <=> \E i \in 1..Len(block.ids) : x = block.ids[i]
    BY <1>5 DEF OldestIds
  <2>. HIDE DEF M, n
  <2>4. ASSUME NEW x PROVE x \in SummarizedIds(r) <=> x \in SummarizedIds(s) \cup OldestIds(s, n)
    <3>1. ASSUME x \in SummarizedIds(r) PROVE x \in SummarizedIds(s) \cup OldestIds(s, n)
      <4>1. PICK j \in 1..(M + 1) : \E i \in 1..Len(r.summaries[j].ids) : x = r.summaries[j].ids[i]
        BY <2>1, <3>1
      <4>2. CASE j = M + 1
        BY <1>8, <2>3, <4>1, <4>2
      <4>3. CASE j \in 1..M
        BY <1>8, <2>2, <4>1, <4>3
      <4>. QED BY <1>9, <4>2, <4>3
    <3>2. ASSUME x \in SummarizedIds(s) PROVE x \in SummarizedIds(r)
      <4>1. PICK j \in 1..M : \E i \in 1..Len(s.summaries[j].ids) : x = s.summaries[j].ids[i]
        BY <2>2, <3>2
      <4>2. j \in 1..(M + 1) /\ r.summaries[j] = s.summaries[j]
        BY <1>8, <1>10
      <4>. QED BY <2>1, <4>1, <4>2
    <3>3. ASSUME x \in OldestIds(s, n) PROVE x \in SummarizedIds(r)
      <4>1. PICK i \in 1..Len(block.ids) : x = block.ids[i]
        BY <2>3, <3>3
      <4>2. M + 1 \in 1..(M + 1) /\ r.summaries[M + 1] = block
        BY <1>8, <1>10
      <4>. QED BY <2>1, <4>1, <4>2
    <3>. QED BY <3>1, <3>2, <3>3
  <2>. QED BY <2>4
<1>12. VerbatimIds(r) = VerbatimIds(w)
  BY <1>7 DEF VerbatimIds
<1>13. TurnsIn(r) = TurnsIn(s)
  BY <1>4, <1>11, <1>12 DEF TurnsIn
<1>14. EntriesTell(h, r)
  BY <1>4, <1>7 DEF EntriesTell
<1>15. BlocksTell(h, r)
  <2>1. ASSUME NEW i \in 1..n PROVE SameTurn(block.source[i], h[block.ids[i]])
    <3>1. i \in 1..Len(s.entries)
      BY <1>1
    <3>2. SameTurn(s.entries[i], job.turns[i])
      BY DEF CanInstall
    <3>3. SameTurn(s.entries[i], h[s.entries[i].id])
      BY <3>1 DEF EntriesTell
    <3>. QED BY <1>5, <3>2, <3>3 DEF SameTurn
  <2>2. ASSUME NEW j \in 1..(M + 1)
        PROVE  /\ Len(r.summaries[j].ids) = r.summaries[j].turns_covered
               /\ \A i \in 1..Len(r.summaries[j].ids) :
                    SameTurn(r.summaries[j].source[i], h[r.summaries[j].ids[i]])
    <3>1. CASE j = M + 1
      BY <1>5, <1>8, <2>1, <3>1
    <3>2. CASE j \in 1..M
      BY <1>8, <3>2 DEF BlocksTell
    <3>. QED BY <1>9, <3>1, <3>2
  <2>. QED BY <1>8, <2>2 DEF BlocksTell
<1>16. InOrder(r)
  <2>1. \A i, j \in 1..Len(r.entries) : i < j => r.entries[i].id < r.entries[j].id
    BY <1>4, <1>7 DEF InOrder
  <2>2. ASSUME NEW id \in SummarizedIds(r), NEW i \in 1..Len(r.entries)
        PROVE  id < r.entries[i].id
    <3>1. i + n \in 1..Len(s.entries) /\ r.entries[i] = s.entries[i + n]
      BY <1>4, <1>7
    <3>2. CASE id \in SummarizedIds(s)
      BY <3>1, <3>2 DEF InOrder
    <3>3. CASE id \in OldestIds(s, n)
      <4>1. PICK k \in 1..n : id = s.entries[k].id
        BY <3>3 DEF OldestIds
      <4>2. k \in 1..Len(s.entries) /\ k < i + n
        BY <1>1, <3>1
      <4>. QED BY <3>1, <4>1, <4>2 DEF InOrder
    <3>. QED BY <1>11, <3>2, <3>3
  <2>3. ASSUME NEW j \in 1..(M + 1), NEW k \in 1..(M + 1), j < k,
               NEW a \in 1..Len(r.summaries[j].ids), NEW b \in 1..Len(r.summaries[k].ids)
        PROVE  r.summaries[j].ids[a] < r.summaries[k].ids[b]
    <3>1. j \in 1..M /\ r.summaries[j] = s.summaries[j]
      BY <1>8, <2>3
    <3>2. CASE k = M + 1
      <4>1. r.summaries[k].ids[b] = s.entries[b].id /\ b \in 1..Len(s.entries)
        <5>1. r.summaries[k] = block /\ b \in 1..n
          BY <1>5, <1>8, <3>2
        <5>. QED BY <1>1, <1>5, <5>1
      <4>2. s.summaries[j].ids[a] \in SummarizedIds(s)
        BY <3>1, InSummarized
      <4>. QED BY <3>1, <4>1, <4>2 DEF InOrder
    <3>3. CASE k \in 1..M
      BY <1>8, <2>3, <3>1, <3>3 DEF InOrder
    <3>. QED BY <1>9, <3>2, <3>3
  <2>. QED BY <1>8, <2>1, <2>2, <2>3 DEF InOrder
<1>17. TurnsCovered(r) = TurnsCovered(s) + n
  BY <1>5, <1>6, <1>7, CoveredByOneMore
<1>. QED BY <1>4, <1>6, <1>7, <1>11, <1>13, <1>14, <1>15, <1>16, <1>17 DEF r, n

-----------------------------------------------------------------------------
(* A session, an episode, and the history.                                 *)

Recorded == [user_id : Users, session_id : Nat, content : Contents, timestamp : Nat]

\* A turn of another session changes nothing of session sid.
LEMMA MineStays ==
  ASSUME NEW h \in Seq(Recorded), NEW rec, NEW X, X \subseteq Mine(h, rec.session_id)
  PROVE  /\ \A i \in 1..Len(h) : Append(h, rec)[i] = h[i]
         /\ Append(h, rec)[Len(h) + 1] = rec
         /\ Len(Append(h, rec)) = Len(h) + 1
         /\ Len(h) \in Nat
         /\ Mine(Append(h, rec), rec.session_id) = Mine(h, rec.session_id) \cup {Len(h) + 1}
         /\ \A sid : sid # rec.session_id =>
              /\ Mine(Append(h, rec), sid) = Mine(h, sid)
              /\ Mine(h, sid) \cap X = {}
<1> DEFINE g == Append(h, rec)
           N == Len(h)
<1>1. /\ \A i \in 1..N : g[i] = h[i]
      /\ g[N + 1] = rec
      /\ Len(g) = N + 1
      /\ N \in Nat
  OBVIOUS
<1>. HIDE DEF g
<1>2. \A i : i \in 1..(N + 1) <=> i \in 1..N \/ i = N + 1
  BY <1>1
<1>. HIDE DEF N
<1>3. Mine(h, rec.session_id) = {i \in 1..N : h[i].session_id = rec.session_id}
  BY DEF Mine, N
<1>4. Mine(g, rec.session_id) = {i \in 1..(N + 1) : g[i].session_id = rec.session_id}
  BY <1>1 DEF Mine
<1>5. Mine(g, rec.session_id) = Mine(h, rec.session_id) \cup {N + 1}
  BY <1>1, <1>2, <1>3, <1>4
<1>6. ASSUME NEW sid, sid # rec.session_id
      PROVE  Mine(g, sid) = Mine(h, sid) /\ Mine(h, sid) \cap X = {}
  <2>1. Mine(h, sid) = {i \in 1..N : h[i].session_id = sid}
    BY DEF Mine, N
  <2>2. Mine(g, sid) = {i \in 1..(N + 1) : g[i].session_id = sid}
    BY <1>1 DEF Mine
  <2>. QED BY <1>1, <1>2, <1>3, <1>6, <2>1, <2>2
<1>. QED BY <1>1, <1>5, <1>6 DEF g, N

LEMMA EpisodeStays ==
  ASSUME NEW h \in Seq(Recorded), NEW rec, NEW X, X \subseteq Mine(h, rec.session_id),
         NEW ev, NEW ep, TellsItsTurns(h, ev, ep), ep.session_id # rec.session_id
  PROVE  TellsItsTurns(Append(h, rec), ev \cup X, ep)
<1>1. /\ Mine(Append(h, rec), ep.session_id) = Mine(h, ep.session_id)
      /\ Mine(h, ep.session_id) \cap X = {}
  BY MineStays
<1>. QED BY <1>1 DEF TellsItsTurns

LEMMA HeldIds ==
  ASSUME NEW h \in Seq(Recorded), NEW ev, NEW u, NEW s, HoldsOnly(h, ev, u, s)
  PROVE  /\ TurnsIn(s) \subseteq 1..Len(h)
         /\ \A i \in 1..Len(s.entries) : s.entries[i].id \in 1..Len(h)
         /\ \A j \in 1..Len(s.summaries) : \A i \in 1..Len(s.summaries[j].ids) :
              s.summaries[j].ids[i] \in 1..Len(h)
<1>1. TurnsIn(s) \subseteq 1..Len(h)
  BY DEF HoldsOnly, Mine
<1>2. \A i \in 1..Len(s.entries) : s.entries[i].id \in TurnsIn(s)
  BY DEF TurnsIn, VerbatimIds
<1>3. \A j \in 1..Len(s.summaries) : \A i \in 1..Len(s.summaries[j].ids) :
        s.summaries[j].ids[i] \in TurnsIn(s)
  BY InSummarized DEF TurnsIn
<1>. QED BY <1>1, <1>2, <1>3

LEMMA SessionStays ==
  ASSUME NEW h \in Seq(Recorded), NEW rec, NEW X, X \subseteq Mine(h, rec.session_id),
         NEW ev, NEW u, NEW s, HoldsItsTurns(h, ev, u, s), s.session_id # rec.session_id
  PROVE  HoldsItsTurns(Append(h, rec), ev \cup X, u, s)
<1> DEFINE g == Append(h, rec)
<1>0. /\ Mine(Append(h, rec), s.session_id) = Mine(h, s.session_id)
      /\ Mine(h, s.session_id) \cap X = {}
  BY MineStays
<1>0a. \A i \in 1..Len(h) : g[i] = h[i]
  OBVIOUS
<1>. HIDE DEF g
<1>1. /\ \A i \in 1..Len(h) : g[i] = h[i]
      /\ Mine(g, s.session_id) = Mine(h, s.session_id)
      /\ Mine(h, s.session_id) \cap X = {}
  BY <1>0, <1>0a DEF g
<1>2. HoldsOnly(h, ev, u, s) /\ TurnsIn(s) # {}
  BY DEF HoldsItsTurns
<1>3. TurnsIn(s) = Mine(g, s.session_id) \ (ev \cup X)
  BY <1>1, <1>2 DEF HoldsOnly
<1>4. \A id \in TurnsIn(s) : g[id].user_id = u
  BY <1>1, <1>2, HeldIds DEF HoldsOnly
<1>5. EntriesTell(g, s)
  BY <1>1, <1>2, HeldIds DEF HoldsOnly, EntriesTell
<1>6. BlocksTell(g, s)
  BY <1>1, <1>2, HeldIds DEF HoldsOnly, BlocksTell
<1>7. InOrder(s) /\ TurnsCovered(s) = Cardinality(SummarizedIds(s))
  BY <1>2 DEF HoldsOnly
<1>. QED BY <1>2, <1>3, <1>4, <1>5, <1>6, <1>7 DEF HoldsItsTurns, HoldsOnly, g

\* A new session, and an old one after a push.
LEMMA NewSessionHolds ==
  ASSUME NEW sid \in Nat, NEW t \in Nat, NEW h, NEW ev, NEW u, Mine(h, sid) = {}
  PROVE  HoldsOnly(h, ev, u, NewSession(sid, t)) /\ TurnsIn(NewSession(sid, t)) = {}
<1> DEFINE s == NewSession(sid, t)
<1>1. s.entries = <<>> /\ s.summaries = <<>> /\ s.session_id = sid /\ s \in SessionState
  BY NewSessionFacts DEF NewSession
<1>. HIDE DEF s
<1>2. Len(s.entries) = 0 /\ Len(s.summaries) = 0
  BY <1>1
<1>3. (\A i \in 1..Len(s.entries) : FALSE) /\ (\A i \in 1..Len(s.summaries) : FALSE)
  BY <1>2
<1>4. SummarizedIds(s) = {} /\ VerbatimIds(s) = {}
  BY <1>3, InSummarized, InVerbatim
<1>5. TurnsCovered(s) = 0
  <2> DEFINE f == [j \in 1..Len(s.summaries) |-> s.summaries[j].turns_covered]
  <2>1. f \in [1..0 -> Nat] /\ TurnsCovered(s) = SumTo(f, 0)
    BY <1>2 DEF TurnsCovered
  <2>. HIDE DEF f
  <2>. QED BY <2>1, SumToRec
<1>6. Cardinality(SummarizedIds(s)) = 0
  BY <1>4, FS_EmptySet
<1>. QED BY <1>1, <1>3, <1>4, <1>5, <1>6
         DEF HoldsOnly, TurnsIn, InOrder, EntriesTell, BlocksTell, s

\* The turns the eviction loop of a push drops.
EvictedIds(s, e) ==
  LET v == Evicted(s, e) IN {v[i].id : i \in 1..Len(v)}

LEMMA PushedMoves ==
  ASSUME NEW h \in Seq(Recorded), NEW ev, NEW u, NEW s \in SessionState,
         HoldsOnly(h, ev, u, s), NEW e \in BufferEntry, e.id = Len(h) + 1
  PROVE  /\ Pushed(s, e).session_id = s.session_id
         /\ Pushed(s, e).last_activity = e.timestamp
         /\ EvictedIds(s, e) \subseteq TurnsIn(s)
         /\ EvictedIds(s, e) \subseteq Mine(h, s.session_id)
         /\ TurnsIn(Pushed(s, e)) = (TurnsIn(s) \ EvictedIds(s, e)) \cup {e.id}
         /\ SummarizedIds(Pushed(s, e)) = SummarizedIds(s)
         /\ TurnsCovered(Pushed(s, e)) = TurnsCovered(s)
         /\ \A x : BlocksTell(x, s) => BlocksTell(x, Pushed(s, e))
         /\ \A i \in 1..Len(Pushed(s, e).entries) :
              \/ Pushed(s, e).entries[i] = e
              \/ \E j \in 1..Len(s.entries) : Pushed(s, e).entries[i] = s.entries[j]
         /\ InOrder(Pushed(s, e))
<1> DEFINE p == Pushed(s, e)
           X == EvictedIds(s, e)
<1>1. TurnsIn(s) = Mine(h, s.session_id) \ ev /\ InOrder(s)
  BY DEF HoldsOnly
<1>2. TurnsIn(s) \subseteq 1..Len(h) /\ Len(h) \in Nat
  BY HeldIds
<1>3. \A id \in TurnsIn(s) : id < e.id
  BY <1>2
<1>4. /\ p \in SessionState
      /\ p.summaries = s.summaries
      /\ p.session_id = s.session_id
      /\ p.last_activity = e.timestamp
      /\ X \subseteq VerbatimIds(s)
      /\ X \cap SummarizedIds(s) = {}
      /\ VerbatimIds(p) = (VerbatimIds(s) \ X) \cup {e.id}
      /\ \A i \in 1..Len(p.entries) :
           p.entries[i] = e \/ \E j \in 1..Len(s.entries) : p.entries[i] = s.entries[j]
      /\ InOrder(p)
  BY <1>1, <1>3, PushedTurns DEF EvictedIds
<1>. HIDE DEF p, X
<1>5. /\ SummarizedIds(p) = SummarizedIds(s)
      /\ TurnsCovered(p) = TurnsCovered(s)
      /\ \A x : BlocksTell(x, s) => BlocksTell(x, p)
  BY <1>4, SameBlocks
<1>6. TurnsIn(p) = (TurnsIn(s) \ X) \cup {e.id} /\ X \subseteq TurnsIn(s)
  BY <1>4, <1>5 DEF TurnsIn
<1>7. X \subseteq Mine(h, s.session_id)
  BY <1>1, <1>6
<1>. QED BY <1>4, <1>5, <1>6, <1>7 DEF p, X

LEMMA PushedHolds ==
  ASSUME NEW h \in Seq(Recorded), NEW ev, ev \subseteq 1..Len(h),
         NEW u \in Users, NEW s \in SessionState, HoldsOnly(h, ev, u, s),
         NEW e \in BufferEntry, e.id = Len(h) + 1,
         NEW rec \in Recorded, rec.user_id = u, rec.session_id = s.session_id,
         rec.content = e.content, rec.timestamp = e.timestamp
  PROVE  HoldsItsTurns(Append(h, rec), ev \cup EvictedIds(s, e), u, Pushed(s, e))
<1> DEFINE g == Append(h, rec)
           p == Pushed(s, e)
           X == EvictedIds(s, e)
<1>1. TurnsIn(s) = Mine(h, s.session_id) \ ev
  BY DEF HoldsOnly
<1>2. TurnsIn(s) \subseteq 1..Len(h) /\ Len(h) \in Nat
  BY HeldIds
<1>4. /\ p.session_id = s.session_id
      /\ X \subseteq TurnsIn(s)
      /\ X \subseteq Mine(h, rec.session_id)
      /\ TurnsIn(p) = (TurnsIn(s) \ X) \cup {e.id}
      /\ \A i \in 1..Len(p.entries) :
           p.entries[i] = e \/ \E j \in 1..Len(s.entries) : p.entries[i] = s.entries[j]
      /\ SummarizedIds(p) = SummarizedIds(s)
      /\ TurnsCovered(p) = TurnsCovered(s)
      /\ \A x : BlocksTell(x, s) => BlocksTell(x, p)
      /\ InOrder(p)
  BY PushedMoves
<1>. HIDE DEF p, X
<1>7a. (\A i \in 1..Len(h) : g[i] = h[i]) /\ g[Len(h) + 1] = rec
  OBVIOUS
<1>. HIDE DEF g
<1>8. /\ \A i \in 1..Len(h) : g[i] = h[i]
      /\ g[Len(h) + 1] = rec
      /\ Mine(g, rec.session_id) = Mine(h, rec.session_id) \cup {Len(h) + 1}
  <2>1. Mine(Append(h, rec), rec.session_id) = Mine(h, rec.session_id) \cup {Len(h) + 1}
    BY <1>4, MineStays
  <2>. QED BY <1>7a, <2>1 DEF g
<1>9. e.id \notin ev /\ e.id \notin X
  BY <1>2, <1>4
<1>10. TurnsIn(p) = Mine(g, p.session_id) \ (ev \cup X)
  BY <1>1, <1>4, <1>8, <1>9
<1>11. \A id \in TurnsIn(p) : g[id].user_id = u
  BY <1>2, <1>4, <1>8 DEF HoldsOnly
<1>12. EntriesTell(g, s) /\ BlocksTell(g, s)
  <2>1. EntriesTell(h, s) /\ BlocksTell(h, s)
    BY DEF HoldsOnly
  <2>2. EntriesTell(g, s)
    BY <1>8, <2>1, HeldIds DEF EntriesTell
  <2>3. BlocksTell(g, s)
    BY <1>8, <2>1, HeldIds DEF BlocksTell
  <2>. QED BY <2>2, <2>3
<1>13. SameTurn(e, g[e.id])
  BY <1>8 DEF SameTurn
<1>14. EntriesTell(g, p)
  BY <1>4, <1>12, <1>13 DEF EntriesTell
<1>15. BlocksTell(g, p) /\ TurnsCovered(p) = Cardinality(SummarizedIds(p))
  BY <1>4, <1>12 DEF HoldsOnly
<1>16. HoldsItsTurns(g, ev \cup X, u, p)
  BY <1>4, <1>10, <1>11, <1>14, <1>15 DEF HoldsItsTurns, HoldsOnly
<1>. QED BY <1>16 DEF g, p, X

\* A late summary changes the form of a session, not its turns.
LEMMA InstalledHolds ==
  ASSUME NEW h \in Seq(Recorded), NEW ev, NEW u, NEW s \in SessionState,
         HoldsItsTurns(h, ev, u, s), NEW job, NEW size \in Nat,
         job.n \in Nat, job.turns \in Seq(BufferEntry), CanInstall(s, job)
  PROVE  LET r == Installed(s, job, size)
         IN  /\ HoldsItsTurns(h, ev, u, r)
             /\ TurnsIn(r) = TurnsIn(s)
             /\ r.session_id = s.session_id
             /\ r.last_activity = s.last_activity
<1> DEFINE r == Installed(s, job, size)
           X == OldestIds(s, job.n)
<1>1. /\ HoldsOnly(h, ev, u, s)
      /\ InOrder(s)
      /\ EntriesTell(h, s)
      /\ BlocksTell(h, s)
      /\ TurnsIn(s) # {}
  BY DEF HoldsItsTurns, HoldsOnly
<1>2. /\ r \in SessionState
      /\ r.session_id = s.session_id
      /\ r.last_activity = s.last_activity
      /\ TurnsIn(r) = TurnsIn(s)
      /\ InOrder(r)
      /\ EntriesTell(h, r)
      /\ BlocksTell(h, r)
      /\ SummarizedIds(r) = SummarizedIds(s) \cup X
      /\ SummarizedIds(s) \cap X = {}
      /\ TurnsCovered(r) = TurnsCovered(s) + job.n
  BY <1>1, InstalledTurns
<1>3. IsFiniteSet(X) /\ Cardinality(X) = job.n
  <2>1. job.n \in 0..Len(s.entries)
    BY EntryIds DEF CanInstall
  <2>. QED BY <1>1, <2>1, VerbatimCount
<1>. HIDE DEF r, X
<1>4. TurnsCovered(r) = Cardinality(SummarizedIds(r))
  <2>1. SummarizedIds(s) \subseteq 1..Len(h)
    BY <1>1, HeldIds DEF TurnsIn
  <2>2. IsFiniteSet(1..Len(h))
    <3>1. 1 \in Int /\ Len(h) \in Int
      OBVIOUS
    <3>. QED BY <3>1, FS_Interval
  <2>3. IsFiniteSet(SummarizedIds(s)) /\ Cardinality(SummarizedIds(s)) \in Nat
    BY <2>1, <2>2, FS_Subset, FS_CardinalityType
  <2>4. Cardinality(SummarizedIds(s) \cup X)
          = Cardinality(SummarizedIds(s)) + Cardinality(X) - Cardinality(SummarizedIds(s) \cap X)
    BY <1>3, <2>3, FS_Union
  <2>5. Cardinality(SummarizedIds(s) \cap X) = 0
    BY <1>2, FS_EmptySet
  <2>6. TurnsCovered(s) = Cardinality(SummarizedIds(s))
    BY <1>1 DEF HoldsOnly
  <2>. QED BY <1>2, <1>3, <2>3, <2>4, <2>5, <2>6
<1>. QED BY <1>1, <1>2, <1>4 DEF HoldsItsTurns, HoldsOnly, r

\* What a closed session is flushed as.
LEMMA EpisodeTells ==
  ASSUME NEW h \in Seq(Recorded), NEW ev, NEW c, c.session \in SessionState,
         HoldsItsTurns(h, ev, c.user_id, c.session)
  PROVE  /\ TellsItsTurns(h, ev, EpisodeFrom(c))
         /\ EpisodeFrom(c).session_id = c.session.session_id
         /\ EpisodeFrom(c).content = TurnsIn(c.session)
         /\ ~NothingToFlush(c.session)
<1> DEFINE s == c.session
           V == VerbatimIds(s)
           S == SummarizedIds(s)
           N == Len(s.entries)
<1>1. /\ HoldsOnly(h, ev, c.user_id, s)
      /\ TurnsIn(s) # {}
      /\ s \in SessionState
      /\ TurnsIn(s) = Mine(h, s.session_id) \ ev
      /\ InOrder(s)
      /\ TurnsCovered(s) = Cardinality(S)
  BY DEF HoldsItsTurns, HoldsOnly
<1>2. /\ EpisodeFrom(c).session_id = s.session_id
      /\ EpisodeFrom(c).content = TurnsIn(s)
      /\ EpisodeFrom(c).turn_count = N + TurnsCovered(s)
  BY DEF EpisodeFrom
<1>. HIDE DEF s
<1>3. N \in Nat /\ N \in 0..N
  BY <1>1, EntryIds
<1>4. V = OldestIds(s, N)
  BY DEF VerbatimIds, OldestIds
<1>5. IsFiniteSet(V) /\ Cardinality(V) = N /\ V \cap S = {}
  <2>1. IsFiniteSet(V) /\ Cardinality(V) = N
    BY <1>1, <1>3, <1>4, VerbatimCount
  <2>2. V \cap S = {}
    BY <1>1, <1>3, <1>4, WithoutOldestTurns
  <2>. QED BY <2>1, <2>2
<1>6. IsFiniteSet(S) /\ Cardinality(S) \in Nat
  <2>1. S \subseteq 1..Len(h)
    BY <1>1, HeldIds DEF TurnsIn
  <2>2. IsFiniteSet(1..Len(h))
    <3>1. 1 \in Int /\ Len(h) \in Int
      OBVIOUS
    <3>. QED BY <3>1, FS_Interval
  <2>. QED BY <2>1, <2>2, FS_Subset, FS_CardinalityType
<1>7. TurnsIn(s) = S \cup V
  BY DEF TurnsIn
<1>. HIDE DEF S, V, N
<1>8. Cardinality(TurnsIn(s)) = N + TurnsCovered(s)
  <2>1. Cardinality(S \cup V) = Cardinality(S) + Cardinality(V) - Cardinality(S \cap V)
    BY <1>5, <1>6, FS_Union
  <2>2. Cardinality(S \cap V) = 0
    BY <1>5, FS_EmptySet
  <2>3. Cardinality(S \cup V) = Cardinality(S) + N
    BY <1>3, <1>5, <1>6, <2>1, <2>2
  <2>4. TurnsCovered(s) = Cardinality(S)
    BY <1>1
  <2>. QED BY <1>3, <1>6, <1>7, <2>3, <2>4
<1>9. ~NothingToFlush(s)
  <2>1. SUFFICES ASSUME s.entries = <<>>, s.summaries = <<>> PROVE FALSE
    BY DEF NothingToFlush
  <2>2. Len(s.entries) = 0 /\ Len(s.summaries) = 0
    BY <2>1
  <2>3. S = {} /\ V = {}
    BY <2>2, InSummarized, InVerbatim DEF S, V
  <2>. QED BY <1>1, <1>7, <2>3
<1>10. TellsItsTurns(h, ev, EpisodeFrom(c))
  BY <1>1, <1>2, <1>8 DEF TellsItsTurns
<1>. QED BY <1>2, <1>9, <1>10 DEF s

-----------------------------------------------------------------------------
(* Nine places for a turn.                                                 *)

OnePlace(p, R) ==
  /\ \A x : x \in R <=> \E i \in 1..9 : x \in p[i]
  /\ \A i, j \in 1..9 : i # j => p[i] \cap p[j] = {}

LEMMA OnePlaceMeans ==
  ASSUME NEW p, NEW R, DOMAIN p = 1..9
  PROVE  (/\ UNION {p[i] : i \in DOMAIN p} = R
          /\ \A i, j \in DOMAIN p : i # j => p[i] \cap p[j] = {}) <=> OnePlace(p, R)
<1>1. UNION {p[i] : i \in 1..9} = R <=> \A x : x \in R <=> \E i \in 1..9 : x \in p[i]
  OBVIOUS
<1>. QED BY <1>1 DEF OnePlace

LEMMA OnePlaceNow ==
  /\ EveryTurnInOnePlace <=>
       OnePlace(<<BufferedTurns, ClosedTurns, FailedTurns, QueuedTurns, ArchivedTurns,
                  evicted, replaced, dropped, crashed>>, 1..Len(history))
  /\ EveryTurnInOnePlace' <=>
       OnePlace(<<BufferedTurns', ClosedTurns', FailedTurns', QueuedTurns', ArchivedTurns',
                  evicted', replaced', dropped', crashed'>>, 1..Len(history'))
<1>1. ASSUME NEW p1, NEW p2, NEW p3, NEW p4, NEW p5, NEW p6, NEW p7, NEW p8, NEW p9
      PROVE  DOMAIN <<p1, p2, p3, p4, p5, p6, p7, p8, p9>> = 1..9
  OBVIOUS
<1>2. DOMAIN <<BufferedTurns, ClosedTurns, FailedTurns, QueuedTurns, ArchivedTurns,
               evicted, replaced, dropped, crashed>> = 1..9
  BY <1>1
<1>3. DOMAIN <<BufferedTurns', ClosedTurns', FailedTurns', QueuedTurns', ArchivedTurns',
               evicted', replaced', dropped', crashed'>> = 1..9
  BY <1>1
<1>. QED BY <1>2, <1>3, OnePlaceMeans, Zenon DEF EveryTurnInOnePlace, RecordedTurns

\* The nine places, one by one.
IsNine(p, p1, p2, p3, p4, p5, p6, p7, p8, p9) ==
  /\ p[1] = p1 /\ p[2] = p2 /\ p[3] = p3 /\ p[4] = p4 /\ p[5] = p5
  /\ p[6] = p6 /\ p[7] = p7 /\ p[8] = p8 /\ p[9] = p9

LEMMA Nine ==
  ASSUME NEW p1, NEW p2, NEW p3, NEW p4, NEW p5, NEW p6, NEW p7, NEW p8, NEW p9
  PROVE  IsNine(<<p1, p2, p3, p4, p5, p6, p7, p8, p9>>, p1, p2, p3, p4, p5, p6, p7, p8, p9)
BY DEF IsNine

LEMMA NineIndices ==
  \A i : i \in 1..9 => \/ i = 1 \/ i = 2 \/ i = 3 \/ i = 4 \/ i = 5
                       \/ i = 6 \/ i = 7 \/ i = 8 \/ i = 9
OBVIOUS

\* X goes from place a to place b.
Moved(p, q, a, b, X) ==
  /\ q[a] = p[a] \ X
  /\ q[b] = p[b] \cup X
  /\ \A i \in 1..9 : i # a /\ i # b => q[i] = p[i]

LEMMA MovedOnePlace ==
  ASSUME NEW p, NEW q, NEW R, NEW a \in 1..9, NEW b \in 1..9, a # b,
         NEW X, X \subseteq p[a], OnePlace(p, R), Moved(p, q, a, b, X)
  PROVE  OnePlace(q, R)
<1>1. \A i \in 1..9 : \A x :
        x \in q[i] <=> \/ i = a /\ x \in p[i] /\ x \notin X
                       \/ i = b /\ (x \in p[i] \/ x \in X)
                       \/ i # a /\ i # b /\ x \in p[i]
  BY DEF Moved
<1>2. \A i, j \in 1..9 : \A x : i # j => ~(x \in p[i] /\ x \in p[j])
  BY DEF OnePlace
<1>3. \A x : x \in R <=> \E i \in 1..9 : x \in p[i]
  BY DEF OnePlace
<1>4. ASSUME NEW x PROVE x \in R <=> \E i \in 1..9 : x \in q[i]
  <2>1. ASSUME NEW i \in 1..9, x \in p[i] PROVE \E j \in 1..9 : x \in q[j]
    <3>1. CASE i = a /\ x \in X
      BY <1>1, <3>1
    <3>2. CASE ~(i = a /\ x \in X)
      BY <1>1, <2>1, <3>2
    <3>. QED BY <3>1, <3>2
  <2>2. ASSUME NEW i \in 1..9, x \in q[i] PROVE \E j \in 1..9 : x \in p[j]
    BY <1>1, <2>2
  <2>. QED BY <1>3, <2>1, <2>2
<1>5. ASSUME NEW i \in 1..9, NEW j \in 1..9, i # j PROVE q[i] \cap q[j] = {}
  <2>1. \A x \in X : x \in p[a]
    OBVIOUS
  <2>. QED BY <1>1, <1>2, <1>5, <2>1
<1>. QED BY <1>4, <1>5 DEF OnePlace

\* A new turn x comes to place 1.
LEMMA AddedOnePlace ==
  ASSUME NEW p, NEW q, NEW R, NEW x, x \notin R, OnePlace(p, R),
         q[1] = p[1] \cup {x}, \A i \in 1..9 : i # 1 => q[i] = p[i]
  PROVE  OnePlace(q, R \cup {x})
<1>1. \A i \in 1..9 : \A y : y \in q[i] <=> y \in p[i] \/ (i = 1 /\ y = x)
  OBVIOUS
<1>2. \A y : y \in R <=> \E i \in 1..9 : y \in p[i]
  BY DEF OnePlace
<1>3. 1 \in 1..9
  OBVIOUS
<1>4. ASSUME NEW y PROVE y \in R \cup {x} <=> \E i \in 1..9 : y \in q[i]
  BY <1>1, <1>2, <1>3
<1>5. ASSUME NEW i \in 1..9, NEW j \in 1..9, i # j PROVE q[i] \cap q[j] = {}
  BY <1>1, <1>2, <1>5 DEF OnePlace
<1>. QED BY <1>4, <1>5 DEF OnePlace

-----------------------------------------------------------------------------
(* The turns of the places, for any table of sessions and set of tasks.    *)

HeldBy(f) == UNION {IF f[u] = NoSession THEN {} ELSE TurnsIn(f[u]) : u \in Users}

ToFlush(T) == UNION {TurnsIn(c.session) : c \in UNION {t.todo : t \in T}}

ToQueue(T) == UNION {EpisodeTurns(t.failed) : t \in T}

LEMMA PlacesAre ==
  /\ BufferedTurns = HeldBy(sessions) /\ BufferedTurns' = HeldBy(sessions')
  /\ ClosedTurns = ToFlush(tasks) /\ ClosedTurns' = ToFlush(tasks')
  /\ FailedTurns = ToQueue(tasks) /\ FailedTurns' = ToQueue(tasks')
  /\ ArchivedTurns = EpisodeTurns(archive) /\ ArchivedTurns' = EpisodeTurns(archive')
<1>1. BufferedTurns = HeldBy(sessions) /\ BufferedTurns' = HeldBy(sessions')
  BY DEF BufferedTurns, HeldBy, TurnsOf
<1>2. ClosedTurns = ToFlush(tasks) /\ ClosedTurns' = ToFlush(tasks')
  BY DEF ClosedTurns, ToFlush
<1>3. FailedTurns = ToQueue(tasks) /\ FailedTurns' = ToQueue(tasks')
  BY DEF FailedTurns, ToQueue
<1>4. ArchivedTurns = EpisodeTurns(archive) /\ ArchivedTurns' = EpisodeTurns(archive')
  BY DEF ArchivedTurns
<1>. QED BY <1>1, <1>2, <1>3, <1>4

LEMMA InEpisodes ==
  ASSUME NEW eps, NEW x
  PROVE  x \in EpisodeTurns(eps) <=> \E i \in 1..Len(eps) : x \in eps[i].content
BY DEF EpisodeTurns

LEMMA InHeldBy ==
  ASSUME NEW f, NEW x
  PROVE  x \in HeldBy(f) <=> \E u \in Users : f[u] # NoSession /\ x \in TurnsIn(f[u])
BY DEF HeldBy

LEMMA InToFlush ==
  ASSUME NEW T, NEW x
  PROVE  x \in ToFlush(T) <=> \E t \in T : \E c \in t.todo : x \in TurnsIn(c.session)
BY DEF ToFlush

LEMMA InToQueue ==
  ASSUME NEW T, NEW x
  PROVE  x \in ToQueue(T) <=> \E t \in T : \E i \in 1..Len(t.failed) : x \in t.failed[i].content
BY InEpisodes DEF ToQueue

\* The queue while a retry runs.
LEMMA QueueFacts ==
  ASSUME NEW a \in Seq(Episode), NEW b \in Seq(Episode)
  PROVE  /\ a \o b \in Seq(Episode)
         /\ Len(a \o b) = Len(a) + Len(b)
         /\ Len(a) \in Nat /\ Len(b) \in Nat
         /\ \A i \in 1..Len(a) : (a \o b)[i] = a[i]
         /\ \A i \in 1..Len(b) : (a \o b)[Len(a) + i] = b[i]
         /\ EpisodeTurns(a \o b) = EpisodeTurns(b) \cup EpisodeTurns(a)
<1> DEFINE q == a \o b
<1>1. q \in Seq(Episode) /\ Len(q) = Len(a) + Len(b) /\ Len(a) \in Nat /\ Len(b) \in Nat
  OBVIOUS
<1>2. \A i \in 1..Len(a) : q[i] = a[i]
  OBVIOUS
<1>3. \A i \in 1..Len(b) : q[Len(a) + i] = b[i]
  OBVIOUS
<1>. HIDE DEF q
<1>4. ASSUME NEW x PROVE x \in EpisodeTurns(q) <=> x \in EpisodeTurns(b) \/ x \in EpisodeTurns(a)
  <2>1. ASSUME NEW i \in 1..Len(q), x \in q[i].content
        PROVE  x \in EpisodeTurns(b) \/ x \in EpisodeTurns(a)
    <3>1. CASE i \in 1..Len(a)
      BY <1>2, <2>1, <3>1, InEpisodes
    <3>2. CASE i \notin 1..Len(a)
      <4>1. i - Len(a) \in 1..Len(b) /\ Len(a) + (i - Len(a)) = i
        BY <1>1, <3>2
      <4>. QED BY <1>3, <2>1, <4>1, InEpisodes
    <3>. QED BY <3>1, <3>2
  <2>2. ASSUME NEW i \in 1..Len(a), x \in a[i].content PROVE x \in EpisodeTurns(q)
    <3>1. i \in 1..Len(q)
      BY <1>1
    <3>. QED BY <1>2, <2>2, <3>1, InEpisodes
  <2>3. ASSUME NEW i \in 1..Len(b), x \in b[i].content PROVE x \in EpisodeTurns(q)
    <3>1. Len(a) + i \in 1..Len(q)
      BY <1>1
    <3>. QED BY <1>3, <2>3, <3>1, InEpisodes
  <2>. QED BY <2>1, <2>2, <2>3, InEpisodes
<1>. QED BY <1>1, <1>2, <1>3, <1>4 DEF q

LEMMA QueuedAre ==
  ASSUME TypeOK
  PROVE  Queue \in Seq(Episode) /\ QueuedTurns = EpisodeTurns(Queue)
BY QueueFacts DEF TypeOK, Queue, QueuedTurns

-----------------------------------------------------------------------------
(* Two holders in two places hold two sessions.                            *)

LEMMA NoTurnShared ==
  ASSUME NEW h, NEW ev, NEW a, NEW b, NEW A, NEW B, A # {}, A \cap B = {},
         A = Mine(h, a) \ ev, B = Mine(h, b) \ ev
  PROVE  a # b
OBVIOUS

LEMMA PlacesApart ==
  ASSUME MemoryInv
  PROVE  /\ BufferedTurns \cap ClosedTurns = {} /\ BufferedTurns \cap FailedTurns = {}
         /\ BufferedTurns \cap QueuedTurns = {} /\ BufferedTurns \cap ArchivedTurns = {}
         /\ ClosedTurns \cap FailedTurns = {} /\ FailedTurns \cap QueuedTurns = {}
         /\ evicted \subseteq 1..Len(history)
<1> DEFINE p == <<BufferedTurns, ClosedTurns, FailedTurns, QueuedTurns, ArchivedTurns,
                  evicted, replaced, dropped, crashed>>
<1>1. OnePlace(p, 1..Len(history))
  BY OnePlaceNow DEF MemoryInv
<1>2. /\ p[1] = BufferedTurns /\ p[2] = ClosedTurns /\ p[3] = FailedTurns
      /\ p[4] = QueuedTurns /\ p[5] = ArchivedTurns /\ p[6] = evicted
  OBVIOUS
<1>. HIDE DEF p
<1>3. \A i, j \in 1..9 : i # j => p[i] \cap p[j] = {}
  BY <1>1 DEF OnePlace
<1>4. /\ p[1] \cap p[2] = {} /\ p[1] \cap p[3] = {} /\ p[1] \cap p[4] = {}
      /\ p[1] \cap p[5] = {} /\ p[2] \cap p[3] = {} /\ p[3] \cap p[4] = {}
  BY <1>3
<1>5. p[6] \subseteq 1..Len(history)
  <2>1. 6 \in 1..9
    OBVIOUS
  <2>. QED BY <1>1, <2>1 DEF OnePlace
<1>. QED BY <1>2, <1>4, <1>5

LEMMA HoldersApart ==
  ASSUME MemoryInv
  PROVE  /\ \A u, w \in Active : sessions[u].session_id = sessions[w].session_id => u = w
         /\ \A u \in Active : \A t \in tasks :
              /\ \A c \in t.todo : sessions[u].session_id # c.session.session_id
              /\ \A i \in 1..Len(t.failed) : sessions[u].session_id # t.failed[i].session_id
         /\ \A u \in Active :
              /\ \A i \in 1..Len(Queue) : sessions[u].session_id # Queue[i].session_id
              /\ \A i \in 1..Len(archive) : sessions[u].session_id # archive[i].session_id
         /\ \A t, t2 \in tasks : \A c \in t.todo : \A i \in 1..Len(t2.failed) :
              c.session.session_id # t2.failed[i].session_id
         /\ \A t \in tasks : \A i \in 1..Len(t.failed) : \A j \in 1..Len(Queue) :
              t.failed[i].session_id # Queue[j].session_id
<1>1. SessionsHold /\ EpisodesTell /\ TypeOK
  BY DEF MemoryInv
<1>2. \A u \in Active :
        /\ TurnsIn(sessions[u]) = Mine(history, sessions[u].session_id) \ evicted
        /\ TurnsIn(sessions[u]) # {}
        /\ TurnsIn(sessions[u]) \subseteq BufferedTurns
        /\ \A id \in TurnsIn(sessions[u]) : history[id].user_id = u
  <2>1. \A u \in Active : TurnsIn(sessions[u]) \subseteq BufferedTurns
    BY PlacesAre, InHeldBy DEF Active
  <2>. QED BY <1>1, <2>1 DEF SessionsHold, HoldsItsTurns, HoldsOnly
<1>3. \A t \in tasks : \A c \in t.todo :
        /\ TurnsIn(c.session) = Mine(history, c.session.session_id) \ evicted
        /\ TurnsIn(c.session) # {}
        /\ TurnsIn(c.session) \subseteq ClosedTurns
  <2>1. \A t \in tasks : \A c \in t.todo : TurnsIn(c.session) \subseteq ClosedTurns
    BY PlacesAre, InToFlush
  <2>. QED BY <1>1, <2>1 DEF SessionsHold, HoldsItsTurns, HoldsOnly
<1>4. \A t \in tasks : \A i \in 1..Len(t.failed) :
        /\ t.failed[i].content = Mine(history, t.failed[i].session_id) \ evicted
        /\ t.failed[i].content # {}
        /\ t.failed[i].content \subseteq FailedTurns
  <2>1. \A t \in tasks : \A i \in 1..Len(t.failed) : t.failed[i].content \subseteq FailedTurns
    BY PlacesAre, InToQueue
  <2>. QED BY <1>1, <2>1 DEF EpisodesTell, TellsItsTurns
<1>5. \A i \in 1..Len(Queue) :
        /\ Queue[i].content = Mine(history, Queue[i].session_id) \ evicted
        /\ Queue[i].content \subseteq QueuedTurns
  <2>1. \A i \in 1..Len(Queue) : Queue[i].content \subseteq QueuedTurns
    BY <1>1, QueuedAre, InEpisodes
  <2>. QED BY <1>1, <2>1 DEF EpisodesTell, TellsItsTurns
<1>6. \A i \in 1..Len(archive) :
        /\ archive[i].content = Mine(history, archive[i].session_id) \ evicted
        /\ archive[i].content \subseteq ArchivedTurns
  <2>1. \A i \in 1..Len(archive) : archive[i].content \subseteq ArchivedTurns
    BY PlacesAre, InEpisodes
  <2>. QED BY <1>1, <2>1 DEF EpisodesTell, TellsItsTurns
<1>7. \A u, w \in Active : sessions[u].session_id = sessions[w].session_id => u = w
  BY <1>2
<1>8. \A u \in Active : \A t \in tasks : \A c \in t.todo :
        sessions[u].session_id # c.session.session_id
  <2>1. ASSUME NEW u \in Active, NEW t \in tasks, NEW c \in t.todo
        PROVE  sessions[u].session_id # c.session.session_id
    <3>1. TurnsIn(sessions[u]) \cap TurnsIn(c.session) = {}
      BY <1>2, <1>3, PlacesApart
    <3>. QED BY <1>2, <1>3, <3>1
  <2>. QED BY <2>1
<1>9. \A u \in Active : \A t \in tasks : \A i \in 1..Len(t.failed) :
        sessions[u].session_id # t.failed[i].session_id
  <2>1. ASSUME NEW u \in Active, NEW t \in tasks, NEW i \in 1..Len(t.failed)
        PROVE  sessions[u].session_id # t.failed[i].session_id
    <3>1. TurnsIn(sessions[u]) \cap t.failed[i].content = {}
      BY <1>2, <1>4, PlacesApart
    <3>. QED BY <1>2, <1>4, <3>1
  <2>. QED BY <2>1
<1>10. \A u \in Active : \A i \in 1..Len(Queue) : sessions[u].session_id # Queue[i].session_id
  <2>1. ASSUME NEW u \in Active, NEW i \in 1..Len(Queue)
        PROVE  sessions[u].session_id # Queue[i].session_id
    <3>1. TurnsIn(sessions[u]) \cap Queue[i].content = {}
      BY <1>2, <1>5, PlacesApart
    <3>. QED BY <1>2, <1>5, <3>1
  <2>. QED BY <2>1
<1>11. \A u \in Active : \A i \in 1..Len(archive) :
         sessions[u].session_id # archive[i].session_id
  <2>1. ASSUME NEW u \in Active, NEW i \in 1..Len(archive)
        PROVE  sessions[u].session_id # archive[i].session_id
    <3>1. TurnsIn(sessions[u]) \cap archive[i].content = {}
      BY <1>2, <1>6, PlacesApart
    <3>. QED BY <1>2, <1>6, <3>1
  <2>. QED BY <2>1
<1>12. \A t, t2 \in tasks : \A c \in t.todo : \A i \in 1..Len(t2.failed) :
         c.session.session_id # t2.failed[i].session_id
  <2>1. ASSUME NEW t \in tasks, NEW t2 \in tasks, NEW c \in t.todo, NEW i \in 1..Len(t2.failed)
        PROVE  c.session.session_id # t2.failed[i].session_id
    <3>1. TurnsIn(c.session) \cap t2.failed[i].content = {}
      BY <1>3, <1>4, PlacesApart
    <3>. QED BY <1>3, <1>4, <3>1
  <2>. QED BY <2>1
<1>13. \A t \in tasks : \A i \in 1..Len(t.failed) : \A j \in 1..Len(Queue) :
         t.failed[i].session_id # Queue[j].session_id
  <2>1. ASSUME NEW t \in tasks, NEW i \in 1..Len(t.failed), NEW j \in 1..Len(Queue)
        PROVE  t.failed[i].session_id # Queue[j].session_id
    <3>1. t.failed[i].content \cap Queue[j].content = {}
      BY <1>4, <1>5, PlacesApart
    <3>. QED BY <1>4, <1>5, <3>1
  <2>. QED BY <2>1
<1>. QED BY <1>7, <1>8, <1>9, <1>10, <1>11, <1>12, <1>13

-----------------------------------------------------------------------------
(* A turn is recorded.                                                     *)

\* What a push does: turn rec is added to the session p of u, which loses the
\* turns X to the eviction loop or replaces a session that held the turns R.
Records(u, rec, p, X, R) ==
  /\ history' = Append(history, rec)
  /\ sessions' = [sessions EXCEPT ![u] = p]
  /\ evicted' = evicted \cup X
  /\ replaced' = replaced \cup R
  /\ UNCHANGED <<now, tasks, pending, retrying, archive, dropped, crashed>>
  /\ HoldsItsTurns(history', evicted', u, p)
  /\ p \in SessionState
  /\ p.session_id = rec.session_id
  /\ p.last_activity = rec.timestamp
  /\ rec.timestamp = now
  /\ TurnsIn(p) = ((TurnsOf(u) \ X) \ R) \cup {Len(history) + 1}
  /\ X \subseteq Mine(history, rec.session_id)
  /\ X \subseteq TurnsOf(u)
  /\ R \subseteq TurnsOf(u)
  /\ X \cap R = {}
  /\ \/ /\ rec.session_id = Len(history) + 1
        /\ X = {}
        /\ R = TurnsOf(u)
     \/ /\ u \in Active
        /\ rec.session_id = sessions[u].session_id
        /\ now - sessions[u].last_activity < SessionTimeout
        /\ R = {}

LEMMA NoTurnYet ==
  ASSUME MemoryInv
  PROVE  /\ Len(history) \in Nat
         /\ history \in Seq(Recorded)
         /\ Mine(history, Len(history) + 1) = {}
         /\ \A sid : Mine(history, sid) # {} => sid # Len(history) + 1
<1>1. history \in Seq(Recorded) /\ Len(history) \in Nat
  BY DEF MemoryInv, TypeOK, HistoryType, Recorded
<1>2. \A i \in 1..Len(history) : history[i].session_id \in 1..i
  BY DEF MemoryInv, SessionsAreNamed, RecordedTurns
<1>3. \A i \in 1..Len(history) : history[i].session_id # Len(history) + 1
  <2> DEFINE N == Len(history)
  <2>1. N \in Nat /\ \A i \in 1..N : history[i].session_id \in 1..i
    BY <1>1, <1>2
  <2>. HIDE DEF N
  <2>2. \A i \in 1..N : history[i].session_id # N + 1
    BY <2>1
  <2>. QED BY <2>2 DEF N
<1>4. Mine(history, Len(history) + 1) = {}
  BY <1>3 DEF Mine
<1>. QED BY <1>1, <1>4

LEMMA RecordTurnFacts ==
  ASSUME MemoryInv, NEW u \in Users, NEW c \in Contents, RecordTurn(u, c)
  PROVE  \E rec \in Recorded : \E p, X, R : Records(u, rec, p, X, R)
<1> DEFINE id == Len(history) + 1
           s  == SessionForPush(u, id)
           e  == [id |-> id, content |-> c, timestamp |-> now]
           X  == EvictedIds(s, e)
           p  == Pushed(s, e)
           R  == IF Expired(u) THEN TurnsOf(u) ELSE {}
           rec == [user_id |-> u, session_id |-> s.session_id,
                   content |-> c, timestamp |-> now]
<1>1. TypeOK /\ SessionsHold
  BY DEF MemoryInv
<1>2. /\ history \in Seq(Recorded) /\ Len(history) \in Nat /\ id \in Nat \ {0} /\ now \in Nat
      /\ Mine(history, id) = {}
  BY <1>1, NoTurnYet DEF TypeOK
<1>3. /\ history' = Append(history, rec)
      /\ sessions' = [sessions EXCEPT ![u] = p]
      /\ evicted' = evicted \cup X
      /\ replaced' = replaced \cup R
      /\ UNCHANGED <<now, tasks, pending, retrying, archive, dropped, crashed>>
  BY DEF RecordTurn, EvictedIds
<1>4. e \in BufferEntry /\ e.id = id /\ e.content = c /\ e.timestamp = now
  BY <1>2 DEF BufferEntry
<1>5. /\ s \in SessionState
      /\ HoldsOnly(history, evicted, u, s)
      /\ TurnsIn(s) = TurnsOf(u) \ R
      /\ \/ s.session_id = id /\ TurnsIn(s) = {} /\ R = TurnsOf(u)
         \/ /\ u \in Active /\ s = sessions[u] /\ R = {}
            /\ now - sessions[u].last_activity < SessionTimeout
  <2>1. CASE sessions[u] = NoSession \/ Expired(u)
    <3>1. s = NewSession(id, now)
      BY <2>1 DEF SessionForPush
    <3>2. s \in SessionState /\ s.session_id = id
      BY <1>2, <3>1, NewSessionFacts DEF NewSession
    <3>3. HoldsOnly(history, evicted, u, s) /\ TurnsIn(s) = {}
      <4>. HIDE DEF s, id
      <4>. QED BY <1>2, <3>1, NewSessionHolds
    <3>4. R = TurnsOf(u)
      BY <2>1 DEF TurnsOf, Expired
    <3>. HIDE DEF s, R, id
    <3>. QED BY <3>2, <3>3, <3>4
  <2>2. CASE ~(sessions[u] = NoSession \/ Expired(u))
    <3>1. s = sessions[u] /\ u \in Active /\ R = {} /\ TurnsOf(u) = TurnsIn(s)
      BY <2>2 DEF SessionForPush, Active, TurnsOf
    <3>2. s \in SessionState /\ HoldsOnly(history, evicted, u, s)
      BY <1>1, <3>1 DEF SessionsHold, HoldsItsTurns, TypeOK, Active
    <3>3. now - sessions[u].last_activity < SessionTimeout
      <4>1. ~(now - sessions[u].last_activity >= SessionTimeout)
        BY <2>2 DEF Expired, IsExpired
      <4>2. sessions[u].last_activity \in Nat
        BY <3>1, <3>2 DEF SessionState
      <4>. QED BY <1>2, <4>1, <4>2, LimitsAssumption
    <3>. HIDE DEF s, R, id
    <3>. QED BY <3>1, <3>2, <3>3
  <2>. QED BY <2>1, <2>2
<1>6. /\ rec \in Recorded /\ rec.user_id = u /\ rec.session_id = s.session_id
      /\ rec.content = e.content /\ rec.timestamp = e.timestamp /\ rec.timestamp = now
  <2>1. s.session_id \in Nat
    BY <1>5 DEF SessionState
  <2>. HIDE DEF s
  <2>. QED BY <1>2, <2>1 DEF Recorded
<1>7. evicted \subseteq 1..Len(history)
  BY PlacesApart
<1>8. e.id = Len(history) + 1
  BY <1>4
<1>. HIDE DEF id, s, e, rec, R
<1>9. /\ HoldsItsTurns(Append(history, rec), evicted \cup X, u, p)
      /\ p.session_id = s.session_id
      /\ p.last_activity = e.timestamp
      /\ X \subseteq TurnsIn(s)
      /\ X \subseteq Mine(history, rec.session_id)
      /\ TurnsIn(p) = (TurnsIn(s) \ X) \cup {e.id}
  <2>1. s \in SessionState /\ HoldsOnly(history, evicted, u, s)
    BY <1>5
  <2>2. e \in BufferEntry
    BY <1>4
  <2>3. /\ rec \in Recorded /\ rec.user_id = u /\ rec.session_id = s.session_id
        /\ rec.content = e.content /\ rec.timestamp = e.timestamp
    BY <1>6
  <2>4. history \in Seq(Recorded)
    BY <1>2
  <2>5. HoldsItsTurns(Append(history, rec), evicted \cup X, u, p)
    BY <1>7, <1>8, <2>1, <2>2, <2>3, <2>4, PushedHolds
  <2>6. /\ p.session_id = s.session_id
        /\ p.last_activity = e.timestamp
        /\ X \subseteq TurnsIn(s)
        /\ X \subseteq Mine(history, s.session_id)
        /\ TurnsIn(p) = (TurnsIn(s) \ X) \cup {e.id}
    BY <1>8, <2>1, <2>2, <2>4, PushedMoves
  <2>. QED BY <2>3, <2>5, <2>6
<1>10. p \in SessionState
  BY <1>4, <1>5, PushedFacts
<1>. HIDE DEF X, p
<1>11. HoldsItsTurns(history', evicted', u, p)
  BY <1>3, <1>9
<1>12. p.session_id = rec.session_id /\ p.last_activity = rec.timestamp
  BY <1>6, <1>9
<1>13. TurnsIn(p) = ((TurnsOf(u) \ X) \ R) \cup {Len(history) + 1}
  BY <1>5, <1>8, <1>9
<1>14. X \subseteq TurnsOf(u) /\ R \subseteq TurnsOf(u) /\ X \cap R = {}
  <2>1. R \subseteq TurnsOf(u)
    BY DEF R
  <2>. QED BY <1>5, <1>9, <2>1
<1>15. \/ rec.session_id = Len(history) + 1 /\ X = {} /\ R = TurnsOf(u)
       \/ /\ u \in Active
          /\ rec.session_id = sessions[u].session_id
          /\ now - sessions[u].last_activity < SessionTimeout
          /\ R = {}
  <2>1. id = Len(history) + 1
    BY DEF id
  <2>2. CASE s.session_id = id /\ TurnsIn(s) = {} /\ R = TurnsOf(u)
    BY <1>6, <1>9, <2>1, <2>2
  <2>3. CASE /\ u \in Active /\ s = sessions[u] /\ R = {}
             /\ now - sessions[u].last_activity < SessionTimeout
    BY <1>6, <2>3
  <2>. QED BY <1>5, <2>2, <2>3
<1>16. Records(u, rec, p, X, R)
  BY <1>3, <1>6, <1>9, <1>10, <1>11, <1>12, <1>13, <1>14, <1>15 DEF Records
<1>. QED BY <1>6, <1>16

\* Every other holder of turns holds another session than the one that grows.
LEMMA OthersApart ==
  ASSUME MemoryInv, NEW u \in Users, NEW rec, NEW p, NEW X, NEW R, Records(u, rec, p, X, R)
  PROVE  /\ \A w \in Active : w # u => sessions[w].session_id # rec.session_id
         /\ \A t \in tasks :
              /\ \A c \in t.todo : c.session.session_id # rec.session_id
              /\ \A i \in 1..Len(t.failed) : t.failed[i].session_id # rec.session_id
         /\ \A i \in 1..Len(Queue) : Queue[i].session_id # rec.session_id
         /\ \A i \in 1..Len(archive) : archive[i].session_id # rec.session_id
<1>1. CASE rec.session_id = Len(history) + 1
  <2>1. \A sid : Mine(history, sid) # {} => sid # rec.session_id
    BY <1>1, NoTurnYet
  <2>2. /\ \A w \in Active : Mine(history, sessions[w].session_id) # {}
        /\ \A t \in tasks : \A c \in t.todo : Mine(history, c.session.session_id) # {}
    BY DEF MemoryInv, SessionsHold, HoldsItsTurns, HoldsOnly
  <2>3. /\ \A t \in tasks : \A i \in 1..Len(t.failed) : Mine(history, t.failed[i].session_id) # {}
        /\ \A i \in 1..Len(Queue) : Mine(history, Queue[i].session_id) # {}
        /\ \A i \in 1..Len(archive) : Mine(history, archive[i].session_id) # {}
    BY DEF MemoryInv, EpisodesTell, TellsItsTurns
  <2>. QED BY <2>1, <2>2, <2>3
<1>2. CASE u \in Active /\ rec.session_id = sessions[u].session_id
  BY <1>2, HoldersApart
<1>. QED BY <1>1, <1>2 DEF Records

LEMMA RecordTurnHolds ==
  ASSUME MemoryInv, TypeOK', NEW u \in Users, NEW rec \in Recorded, NEW p, NEW X, NEW R,
         Records(u, rec, p, X, R)
  PROVE  SessionsAreNamed' /\ SessionsHold' /\ EpisodesTell' /\ HeldOnce'
<1>1. /\ history \in Seq(Recorded)
      /\ Len(history) \in Nat
      /\ sessions \in [Users -> SessionState \cup {NoSession}]
  BY NoTurnYet DEF MemoryInv, TypeOK
<1>2. /\ history' = Append(history, rec)
      /\ evicted' = evicted \cup X
      /\ X \subseteq Mine(history, rec.session_id)
      /\ UNCHANGED <<tasks, archive, Queue>>
      /\ HoldsItsTurns(history', evicted', u, p)
      /\ sessions'[u] = p
      /\ \A w \in Users : w # u => sessions'[w] = sessions[w]
  BY <1>1 DEF Records, Queue
<1>3. SessionsAreNamed'
  <2>1. Len(history') = Len(history) + 1 /\ history'[Len(history) + 1] = rec
    BY <1>1, <1>2
  <2>2. \A i \in 1..Len(history) : history'[i] = history[i]
    BY <1>1, <1>2
  <2>3. \A i \in 1..Len(history) : history[i].session_id \in 1..i
    BY DEF MemoryInv, SessionsAreNamed, RecordedTurns
  <2>4. rec.session_id \in 1..(Len(history) + 1)
    <3>1. CASE rec.session_id = Len(history) + 1
      BY <1>1, <3>1
    <3>2. CASE u \in Active /\ rec.session_id = sessions[u].session_id
      <4>1. Mine(history, sessions[u].session_id) # {}
        BY <3>2 DEF MemoryInv, SessionsHold, HoldsItsTurns, HoldsOnly
      <4>2. PICK i \in 1..Len(history) : history[i].session_id = rec.session_id
        BY <3>2, <4>1 DEF Mine
      <4>. QED BY <1>1, <2>3, <4>2
    <3>. QED BY <3>1, <3>2 DEF Records
  <2>5. ASSUME NEW i \in 1..(Len(history) + 1) PROVE history'[i].session_id \in 1..i
    <3>1. CASE i = Len(history) + 1
      BY <2>1, <2>4, <3>1
    <3>2. CASE i \in 1..Len(history)
      BY <2>2, <2>3, <3>2
    <3>. QED BY <1>1, <3>1, <3>2
  <2>. QED BY <2>1, <2>5 DEF SessionsAreNamed, RecordedTurns
<1>4. SessionsHold'
  <2>1. ASSUME NEW w \in Active' PROVE HoldsItsTurns(history', evicted', w, sessions'[w])
    <3>1. CASE w = u
      BY <1>2, <3>1
    <3>2. CASE w # u
      <4>1. w \in Active /\ sessions'[w] = sessions[w]
        BY <1>2, <2>1, <3>2 DEF Active
      <4>2. sessions[w].session_id # rec.session_id
        BY <3>2, <4>1, OthersApart
      <4>3. HoldsItsTurns(history, evicted, w, sessions[w])
        BY <4>1 DEF MemoryInv, SessionsHold
      <4>4. HoldsItsTurns(Append(history, rec), evicted \cup X, w, sessions[w])
        BY <1>1, <1>2, <4>2, <4>3, SessionStays
      <4>. QED BY <1>2, <4>1, <4>4
    <3>. QED BY <3>1, <3>2
  <2>2. ASSUME NEW t \in tasks, NEW c \in t.todo
        PROVE  HoldsItsTurns(history', evicted', c.user_id, c.session)
    <3>1. c.session.session_id # rec.session_id
      BY OthersApart
    <3>2. HoldsItsTurns(history, evicted, c.user_id, c.session)
      BY DEF MemoryInv, SessionsHold
    <3>3. HoldsItsTurns(Append(history, rec), evicted \cup X, c.user_id, c.session)
      BY <1>1, <1>2, <3>1, <3>2, SessionStays
    <3>. QED BY <1>2, <3>3
  <2>. QED BY <1>2, <2>1, <2>2 DEF SessionsHold
<1>5. EpisodesTell'
  <2>1. ASSUME NEW ep, TellsItsTurns(history, evicted, ep), ep.session_id # rec.session_id
        PROVE  TellsItsTurns(history', evicted', ep)
    <3>1. TellsItsTurns(Append(history, rec), evicted \cup X, ep)
      BY <1>1, <1>2, <2>1, EpisodeStays
    <3>. QED BY <1>2, <3>1
  <2>2. EpisodesTell
    BY DEF MemoryInv
  <2>3. \A t \in tasks : \A i \in 1..Len(t.failed) : TellsItsTurns(history', evicted', t.failed[i])
    BY <2>1, <2>2, OthersApart DEF EpisodesTell
  <2>4. \A i \in 1..Len(Queue) : TellsItsTurns(history', evicted', Queue[i])
    BY <2>1, <2>2, OthersApart DEF EpisodesTell
  <2>5. \A i \in 1..Len(archive) : TellsItsTurns(history', evicted', archive[i])
    BY <2>1, <2>2, OthersApart DEF EpisodesTell
  <2>. QED BY <1>2, <2>3, <2>4, <2>5 DEF EpisodesTell
<1>6. HeldOnce'
  BY <1>2 DEF MemoryInv, HeldOnce
<1>. QED BY <1>3, <1>4, <1>5, <1>6

LEMMA RecordTurnTurns ==
  ASSUME MemoryInv, NEW u \in Users, NEW rec \in Recorded, NEW p, NEW X, NEW R,
         Records(u, rec, p, X, R)
  PROVE  /\ BufferedTurns' = ((BufferedTurns \ X) \ R) \cup {Len(history) + 1}
         /\ TurnsOf(u) \subseteq BufferedTurns
<1>1. /\ history \in Seq(Recorded)
      /\ Len(history) \in Nat
      /\ sessions \in [Users -> SessionState \cup {NoSession}]
  BY NoTurnYet DEF MemoryInv, TypeOK
<1>2. /\ history' = Append(history, rec)
      /\ sessions' = [sessions EXCEPT ![u] = p]
      /\ evicted' = evicted \cup X
      /\ replaced' = replaced \cup R
      /\ UNCHANGED <<ClosedTurns, FailedTurns, QueuedTurns, ArchivedTurns, dropped, crashed>>
      /\ p \in SessionState
      /\ TurnsIn(p) = ((TurnsOf(u) \ X) \ R) \cup {Len(history) + 1}
      /\ X \subseteq TurnsOf(u) /\ R \subseteq TurnsOf(u) /\ X \cap R = {}
  BY DEF Records, ClosedTurns, FailedTurns, QueuedTurns, ArchivedTurns, EpisodeTurns
<1>3. TurnsOf(u) \subseteq BufferedTurns
  BY DEF BufferedTurns
<1>4. ASSUME NEW w \in Users, w # u PROVE TurnsOf(w) \cap TurnsOf(u) = {}
  <2>1. ASSUME w \in Active, u \in Active PROVE TurnsIn(sessions[w]) \cap TurnsIn(sessions[u]) = {}
    <3>1. /\ \A id \in TurnsIn(sessions[w]) : history[id].user_id = w
          /\ \A id \in TurnsIn(sessions[u]) : history[id].user_id = u
      BY <2>1 DEF MemoryInv, SessionsHold, HoldsItsTurns, HoldsOnly
    <3>. QED BY <1>4, <3>1
  <2>. QED BY <2>1 DEF TurnsOf, Active
<1>5. BufferedTurns' = ((BufferedTurns \ X) \ R) \cup {Len(history) + 1}
  <2>1. sessions'[u] = p /\ p # NoSession /\ \A w \in Users : w # u => sessions'[w] = sessions[w]
    BY <1>1, <1>2, MemoryAssumption
  <2>2. ASSUME NEW x
        PROVE  x \in BufferedTurns' <=>
                 x \in TurnsIn(p) \/ \E w \in Users : w # u /\ x \in TurnsOf(w)
    <3>1. x \in BufferedTurns' <=>
            \E w \in Users : sessions'[w] # NoSession /\ x \in TurnsIn(sessions'[w])
      BY PlacesAre, InHeldBy
    <3>. QED BY <2>1, <3>1 DEF TurnsOf
  <2>3. ASSUME NEW x PROVE x \in BufferedTurns <=> \E w \in Users : x \in TurnsOf(w)
    BY DEF BufferedTurns
  <2>4. \A w \in Users : w # u => \A x \in TurnsOf(w) : x \notin X /\ x \notin R
    BY <1>2, <1>4
  <2>. QED BY <1>2, <2>2, <2>3, <2>4
<1>. QED BY <1>3, <1>5

LEMMA RecordTurnPlaces ==
  ASSUME MemoryInv, NEW u \in Users, NEW rec \in Recorded, NEW p, NEW X, NEW R,
         Records(u, rec, p, X, R)
  PROVE  EveryTurnInOnePlace'
<1>1. /\ history \in Seq(Recorded)
      /\ Len(history) \in Nat
      /\ sessions \in [Users -> SessionState \cup {NoSession}]
  BY NoTurnYet DEF MemoryInv, TypeOK
<1>2. /\ history' = Append(history, rec)
      /\ sessions' = [sessions EXCEPT ![u] = p]
      /\ evicted' = evicted \cup X
      /\ replaced' = replaced \cup R
      /\ UNCHANGED <<ClosedTurns, FailedTurns, QueuedTurns, ArchivedTurns, dropped, crashed>>
      /\ p \in SessionState
      /\ TurnsIn(p) = ((TurnsOf(u) \ X) \ R) \cup {Len(history) + 1}
      /\ X \subseteq TurnsOf(u) /\ R \subseteq TurnsOf(u) /\ X \cap R = {}
  BY DEF Records, ClosedTurns, FailedTurns, QueuedTurns, ArchivedTurns, EpisodeTurns
<1>3. TurnsOf(u) \subseteq BufferedTurns
  BY RecordTurnTurns
<1>5. BufferedTurns' = ((BufferedTurns \ X) \ R) \cup {Len(history) + 1}
  BY RecordTurnTurns
<1> DEFINE P == <<BufferedTurns, ClosedTurns, FailedTurns, QueuedTurns, ArchivedTurns,
                  evicted, replaced, dropped, crashed>>
           B1 == BufferedTurns \ X
           E1 == evicted \cup X
           B2 == B1 \ R
           R2 == replaced \cup R
           B3 == B2 \cup {Len(history) + 1}
           P1 == <<B1, ClosedTurns, FailedTurns, QueuedTurns, ArchivedTurns,
                   E1, replaced, dropped, crashed>>
           P2 == <<B2, ClosedTurns, FailedTurns, QueuedTurns, ArchivedTurns,
                   E1, R2, dropped, crashed>>
           P3 == <<B3, ClosedTurns, FailedTurns, QueuedTurns, ArchivedTurns,
                   E1, R2, dropped, crashed>>
<1>6. OnePlace(P, 1..Len(history))
  BY OnePlaceNow DEF MemoryInv
<1>7. P[1] = BufferedTurns /\ P1[1] = BufferedTurns \ X
  OBVIOUS
<1>7a. /\ B1 = BufferedTurns \ X /\ E1 = evicted \cup X /\ B2 = B1 \ R
       /\ R2 = replaced \cup R /\ B3 = B2 \cup {Len(history) + 1}
  OBVIOUS
<1>. HIDE DEF B1, E1, B2, R2, B3
<1>7b. /\ IsNine(P, BufferedTurns, ClosedTurns, FailedTurns, QueuedTurns, ArchivedTurns,
                 evicted, replaced, dropped, crashed)
       /\ IsNine(P1, B1, ClosedTurns, FailedTurns, QueuedTurns, ArchivedTurns,
                 E1, replaced, dropped, crashed)
       /\ IsNine(P2, B2, ClosedTurns, FailedTurns, QueuedTurns, ArchivedTurns,
                 E1, R2, dropped, crashed)
       /\ IsNine(P3, B3, ClosedTurns, FailedTurns, QueuedTurns, ArchivedTurns,
                 E1, R2, dropped, crashed)
  BY Nine
<1>11. 1 \in 1..9 /\ 6 \in 1..9 /\ 7 \in 1..9
  OBVIOUS
<1>12. X \subseteq P[1] /\ R \subseteq P1[1]
  BY <1>2, <1>3, <1>7
<1>. HIDE DEF P, P1, P2, P3
<1>8. Moved(P, P1, 1, 6, X)
  <2>1. \A i \in 1..9 : i # 1 /\ i # 6 => P1[i] = P[i]
    BY <1>7b, NineIndices, Zenon DEF IsNine
  <2>. QED BY <1>7a, <1>7b, <2>1, Zenon DEF Moved, IsNine
<1>9. Moved(P1, P2, 1, 7, R)
  <2>1. \A i \in 1..9 : i # 1 /\ i # 7 => P2[i] = P1[i]
    BY <1>7b, NineIndices, Zenon DEF IsNine
  <2>. QED BY <1>7a, <1>7b, <2>1, Zenon DEF Moved, IsNine
<1>10. P3[1] = P2[1] \cup {Len(history) + 1} /\ \A i \in 1..9 : i # 1 => P3[i] = P2[i]
  <2>1. \A i \in 1..9 : i # 1 => P3[i] = P2[i]
    BY <1>7b, NineIndices, Zenon DEF IsNine
  <2>. QED BY <1>7a, <1>7b, <2>1, Zenon DEF IsNine
<1>13. OnePlace(P1, 1..Len(history))
  BY <1>6, <1>8, <1>11, <1>12, MovedOnePlace
<1>14. OnePlace(P2, 1..Len(history))
  BY <1>9, <1>11, <1>12, <1>13, MovedOnePlace
<1>15. Len(history) + 1 \notin 1..Len(history)
  BY <1>1
<1>16. OnePlace(P3, 1..Len(history) \cup {Len(history) + 1})
  BY <1>10, <1>14, <1>15, AddedOnePlace
<1>17. 1..Len(history') = 1..Len(history) \cup {Len(history) + 1}
  <2>1. Len(history') = Len(history) + 1
    BY <1>1, <1>2
  <2>. QED BY <1>1, <2>1
<1>18. P3 = <<BufferedTurns', ClosedTurns', FailedTurns', QueuedTurns', ArchivedTurns',
              evicted', replaced', dropped', crashed'>>
  BY <1>2, <1>5, <1>7a DEF P3
<1>. QED BY <1>16, <1>17, <1>18, OnePlaceNow

-----------------------------------------------------------------------------
(* A summary arrives.                                                      *)

\* The parts of MemoryInv that are not the business of other lemmas.
Holding == SessionsAreNamed /\ SessionsHold /\ EpisodesTell /\ HeldOnce /\ EveryTurnInOnePlace

LEMMA SummaryArrivesTurns ==
  ASSUME MemoryInv, NEW job \in jobs, NEW size \in SummarySizes, SummaryArrives(job, size)
  PROVE  /\ \A w \in Users :
              /\ sessions'[w] = NoSession <=> sessions[w] = NoSession
              /\ w \in Active => HoldsItsTurns(history, evicted, w, sessions'[w])
         /\ BufferedTurns' = BufferedTurns
<1> DEFINE u == job.user_id
           s == sessions[u]
<1>1. /\ UNCHANGED <<history, evicted, replaced, dropped, crashed, tasks, Queue, archive,
                     pending, retrying>>
      /\ UNCHANGED <<ClosedTurns, FailedTurns, QueuedTurns, ArchivedTurns, RecordedTurns>>
  BY DEF SummaryArrives, past, Queue, ClosedTurns, FailedTurns, QueuedTurns, ArchivedTurns,
         EpisodeTurns, RecordedTurns
<1>2. /\ JobType(job) /\ u \in Users /\ size \in Nat
      /\ sessions \in [Users -> SessionState \cup {NoSession}]
  BY MemoryAssumption DEF MemoryInv, TypeOK, JobType
<1>3. \A w \in Users : /\ sessions'[w] = NoSession <=> sessions[w] = NoSession
                       /\ w \in Active =>
                            /\ HoldsItsTurns(history, evicted, w, sessions'[w])
                            /\ TurnsIn(sessions'[w]) = TurnsIn(sessions[w])
  <2>1. \A w \in Active : HoldsItsTurns(history, evicted, w, sessions[w])
    BY DEF MemoryInv, SessionsHold
  <2>2. CASE sessions' = sessions
    BY <2>1, <2>2
  <2>3. CASE /\ s # NoSession
             /\ CanInstall(s, job)
             /\ sessions' = [sessions EXCEPT ![u] = Installed(s, job, size)]
    <3>1. s \in SessionState /\ u \in Active /\ HoldsItsTurns(history, evicted, u, s)
      BY <1>2, <2>1, <2>3 DEF Active
    <3>2. job.n \in Nat /\ job.turns \in Seq(BufferEntry) /\ CanInstall(s, job)
      BY <1>2, <2>3 DEF JobType
    <3>. HIDE DEF s, u
    <3>3. /\ HoldsItsTurns(history, evicted, u, Installed(s, job, size))
          /\ TurnsIn(Installed(s, job, size)) = TurnsIn(s)
      <4>1. HoldsItsTurns(history, evicted, u, Installed(s, job, size))
        BY <1>2, <3>1, <3>2, NoTurnYet, InstalledHolds
      <4>2. TurnsIn(Installed(s, job, size)) = TurnsIn(s)
        BY <1>2, <3>1, <3>2, InstalledTurns DEF HoldsItsTurns, HoldsOnly
      <4>. QED BY <4>1, <4>2
    <3>4. Installed(s, job, size) \in SessionState
      BY <1>2, <3>1, <3>2, InstalledFacts
    <3>5. sessions'[u] = Installed(s, job, size) /\ \A w \in Users : w # u => sessions'[w] = sessions[w]
      BY <1>2, <2>3
    <3>6. s = sessions[u]
      BY DEF s
    <3>. QED BY <2>1, <3>1, <3>3, <3>4, <3>5, <3>6, MemoryAssumption DEF Active
  <2>. QED BY <2>2, <2>3 DEF SummaryArrives
<1>6. BufferedTurns' = BufferedTurns
  <2>1. \A x : x \in BufferedTurns <=>
          \E w \in Users : sessions[w] # NoSession /\ x \in TurnsIn(sessions[w])
    BY PlacesAre, InHeldBy
  <2>2. \A x : x \in BufferedTurns' <=>
          \E w \in Users : sessions'[w] # NoSession /\ x \in TurnsIn(sessions'[w])
    BY PlacesAre, InHeldBy
  <2>3. ASSUME NEW x PROVE x \in BufferedTurns <=> x \in BufferedTurns'
    BY <1>3, <2>1, <2>2 DEF Active
  <2>. QED BY <2>3
<1>. QED BY <1>3, <1>6

LEMMA SummaryArrivesHolds ==
  ASSUME MemoryInv, NEW job \in jobs, NEW size \in SummarySizes, SummaryArrives(job, size)
  PROVE  Holding'
<1>1. /\ UNCHANGED <<history, evicted, replaced, dropped, crashed, tasks, Queue, archive,
                     pending, retrying>>
      /\ UNCHANGED <<ClosedTurns, FailedTurns, QueuedTurns, ArchivedTurns, RecordedTurns>>
  BY DEF SummaryArrives, past, Queue, ClosedTurns, FailedTurns, QueuedTurns, ArchivedTurns,
         EpisodeTurns, RecordedTurns
<1>3. \A w \in Users : /\ sessions'[w] = NoSession <=> sessions[w] = NoSession
                       /\ w \in Active => HoldsItsTurns(history, evicted, w, sessions'[w])
  BY SummaryArrivesTurns
<1>4. SessionsAreNamed' /\ EpisodesTell' /\ HeldOnce'
  BY <1>1 DEF MemoryInv, SessionsAreNamed, EpisodesTell, HeldOnce
<1>5. SessionsHold'
  <2>1. \A w \in Active' : HoldsItsTurns(history', evicted', w, sessions'[w])
    BY <1>1, <1>3 DEF Active
  <2>2. \A t \in tasks : \A c \in t.todo : HoldsItsTurns(history, evicted, c.user_id, c.session)
    BY DEF MemoryInv, SessionsHold
  <2>. QED BY <1>1, <2>1, <2>2 DEF SessionsHold
<1>6. BufferedTurns' = BufferedTurns
  BY SummaryArrivesTurns
<1>7. EveryTurnInOnePlace'
  <2>1. EveryTurnInOnePlace
    BY DEF MemoryInv
  <2>. QED BY <1>1, <1>6, <2>1 DEF EveryTurnInOnePlace
<1>. QED BY <1>4, <1>5, <1>7 DEF Holding

-----------------------------------------------------------------------------
(* Sessions close.                                                         *)

Closes(gone, retry) ==
  /\ gone \subseteq Active
  /\ tasks' = tasks \cup {Task({Closed(u, sessions[u]) : u \in gone}, retry)}
  /\ sessions' = [u \in Users |-> IF u \in gone THEN NoSession ELSE sessions[u]]
  /\ UNCHANGED <<now, pending, retrying, archive, history, evicted, replaced, dropped, crashed>>

LEMMA ResetCloses ==
  ASSUME MemoryInv, NEW u \in Users, ResetConversation(u)
  PROVE  Closes({u}, FALSE)
<1>1. sessions \in [Users -> SessionState \cup {NoSession}]
  BY DEF MemoryInv, TypeOK
<1>2. {Closed(w, sessions[w]) : w \in {u}} = {Closed(u, sessions[u])}
  OBVIOUS
<1>3. [sessions EXCEPT ![u] = NoSession] = [w \in Users |-> IF w \in {u} THEN NoSession ELSE sessions[w]]
  BY <1>1
<1>. QED BY <1>2, <1>3 DEF Closes, ResetConversation, Active, past

LEMMA SweepCloses ==
  ASSUME Sweep
  PROVE  Closes({u \in Users : Expired(u)}, TRUE)
BY DEF Closes, Sweep, Active, Expired, past

LEMMA ClosesHolds ==
  ASSUME MemoryInv, NEW gone, NEW retry, Closes(gone, retry)
  PROVE  SessionsAreNamed' /\ SessionsHold' /\ EpisodesTell' /\ HeldOnce'
<1> DEFINE n == Task({Closed(u, sessions[u]) : u \in gone}, retry)
<1>1. /\ UNCHANGED <<history, evicted, Queue, archive>>
      /\ tasks' = tasks \cup {n}
      /\ gone \subseteq Active
  BY DEF Closes, Queue
<1>2. /\ n.failed = <<>> /\ Len(n.failed) = 0
      /\ \A c \in n.todo : \E u \in gone : c.user_id = u /\ c.session = sessions[u]
  BY DEF Task, Closed
<1>2a. \A c \in n.todo : \E u \in gone : c = Closed(u, sessions[u])
  BY DEF Task
<1>. HIDE DEF n
<1>3. /\ \A u \in Active : HoldsItsTurns(history, evicted, u, sessions[u])
      /\ \A t \in tasks : \A c \in t.todo : HoldsItsTurns(history, evicted, c.user_id, c.session)
  BY DEF MemoryInv, SessionsHold
<1>4. SessionsHold'
  <2>1. \A u \in Active' : u \in Active /\ sessions'[u] = sessions[u]
    BY DEF Closes, Active
  <2>2. \A c \in n.todo : HoldsItsTurns(history, evicted, c.user_id, c.session)
    BY <1>1, <1>2, <1>3
  <2>. QED BY <1>1, <1>3, <2>1, <2>2 DEF SessionsHold
<1>5. SessionsAreNamed'
  BY <1>1 DEF MemoryInv, SessionsAreNamed, RecordedTurns
<1>6. EpisodesTell'
  <2>1. \A i \in 1..Len(n.failed) : FALSE
    BY <1>2
  <2>. QED BY <1>1, <2>1 DEF MemoryInv, EpisodesTell
<1>7. HeldOnce'
  <2>1. HeldOnce
    BY DEF MemoryInv
  <2>2. \A t \in tasks : \A c \in t.todo : \A d \in n.todo :
          c.session.session_id # d.session.session_id
    BY <1>1, <1>2, HoldersApart
  <2>3. ASSUME NEW c \in n.todo, NEW d \in n.todo,
               c.session.session_id = d.session.session_id
        PROVE  c = d
    <3>1. PICK u \in gone : c = Closed(u, sessions[u])
      BY <1>2a
    <3>2. PICK w \in gone : d = Closed(w, sessions[w])
      BY <1>2a
    <3>3. u \in Active /\ w \in Active /\ sessions[u].session_id = sessions[w].session_id
      BY <1>1, <2>3, <3>1, <3>2 DEF Closed
    <3>4. u = w
      BY <3>3, HoldersApart
    <3>. QED BY <3>1, <3>2, <3>4
  <2>4. ASSUME NEW t1 \in tasks', NEW t2 \in tasks', NEW c1 \in t1.todo, NEW c2 \in t2.todo,
               c1.session.session_id = c2.session.session_id
        PROVE  t1 = t2 /\ c1 = c2
    <3>1. CASE t1 \in tasks /\ t2 \in tasks
      BY <2>1, <2>4, <3>1 DEF HeldOnce
    <3>2. CASE t1 \in tasks /\ t2 = n
      BY <2>2, <2>4, <3>2
    <3>3. CASE t1 = n /\ t2 \in tasks
      BY <2>2, <2>4, <3>3
    <3>4. CASE t1 = n /\ t2 = n
      BY <2>3, <2>4, <3>4
    <3>. QED BY <1>1, <3>1, <3>2, <3>3, <3>4
  <2>5. \A t \in tasks' : Len(t.failed) <= 1
    BY <1>1, <1>2, <2>1 DEF HeldOnce
  <2>6. ASSUME NEW t1 \in tasks', NEW t2 \in tasks', t1.failed # <<>>, t2.failed # <<>>,
               t1.failed[1].session_id = t2.failed[1].session_id
        PROVE  t1 = t2
    BY <1>1, <1>2, <2>1, <2>6 DEF HeldOnce
  <2>7. \A i, j \in 1..Len(Queue') : Queue'[i].session_id = Queue'[j].session_id => i = j
    BY <1>1, <2>1 DEF HeldOnce
  <2>. QED BY <2>4, <2>5, <2>6, <2>7 DEF HeldOnce
<1>. QED BY <1>4, <1>5, <1>6, <1>7

LEMMA ClosesTurns ==
  ASSUME MemoryInv, NEW gone, NEW retry, Closes(gone, retry)
  PROVE  LET X == UNION {TurnsIn(sessions[u]) : u \in gone}
         IN  BufferedTurns' = BufferedTurns \ X /\ X \subseteq BufferedTurns
<1> DEFINE X == UNION {TurnsIn(sessions[u]) : u \in gone}
<1>1. gone \subseteq Active
  BY DEF Closes
<1>5. BufferedTurns' = BufferedTurns \ X
  <2>1. \A x : x \in BufferedTurns <=> \E u \in Active : x \in TurnsIn(sessions[u])
    BY PlacesAre, InHeldBy DEF Active
  <2>2. \A x : x \in BufferedTurns' <=> \E u \in Active' : x \in TurnsIn(sessions'[u])
    BY PlacesAre, InHeldBy DEF Active
  <2>3. \A u : u \in Active' <=> u \in Active /\ u \notin gone
    BY DEF Closes, Active
  <2>4. \A u \in Active' : sessions'[u] = sessions[u]
    BY DEF Closes, Active
  <2>5. ASSUME NEW u \in Active, NEW w \in gone, u # w
        PROVE  TurnsIn(sessions[u]) \cap TurnsIn(sessions[w]) = {}
    <3>1. /\ \A id \in TurnsIn(sessions[w]) : history[id].user_id = w
          /\ \A id \in TurnsIn(sessions[u]) : history[id].user_id = u
      BY <1>1 DEF MemoryInv, SessionsHold, HoldsItsTurns, HoldsOnly
    <3>. QED BY <2>5, <3>1
  <2>6. \A x : x \in X <=> \E u \in gone : x \in TurnsIn(sessions[u])
    OBVIOUS
  <2>. HIDE DEF X
  <2>7. ASSUME NEW x PROVE x \in BufferedTurns' <=> x \in BufferedTurns /\ x \notin X
    <3>1. ASSUME x \in BufferedTurns' PROVE x \in BufferedTurns /\ x \notin X
      <4>1. PICK u \in Active : u \notin gone /\ x \in TurnsIn(sessions[u])
        BY <2>2, <2>3, <2>4, <3>1
      <4>2. \A w \in gone : x \notin TurnsIn(sessions[w])
        BY <2>5, <4>1
      <4>. QED BY <2>1, <2>6, <4>1, <4>2
    <3>2. ASSUME x \in BufferedTurns, x \notin X PROVE x \in BufferedTurns'
      <4>1. PICK u \in Active : x \in TurnsIn(sessions[u])
        BY <2>1, <3>2
      <4>2. u \in Active'
        BY <2>3, <2>6, <3>2, <4>1
      <4>. QED BY <2>2, <2>4, <4>1, <4>2
    <3>. QED BY <3>1, <3>2
  <2>. QED BY <2>7
<1>6. X \subseteq BufferedTurns
  BY <1>1, PlacesAre, InHeldBy DEF Active
<1>. QED BY <1>5, <1>6

LEMMA ClosesPlaces ==
  ASSUME MemoryInv, NEW gone, NEW retry, Closes(gone, retry)
  PROVE  EveryTurnInOnePlace'
<1> DEFINE n == Task({Closed(u, sessions[u]) : u \in gone}, retry)
           X == UNION {TurnsIn(sessions[u]) : u \in gone}
<1>1. /\ tasks' = tasks \cup {n}
      /\ gone \subseteq Active
      /\ UNCHANGED <<QueuedTurns, ArchivedTurns, evicted, replaced, dropped, crashed, history>>
  BY DEF Closes, QueuedTurns, ArchivedTurns, EpisodeTurns
<1>2. /\ Len(n.failed) = 0
      /\ n.todo = {Closed(u, sessions[u]) : u \in gone}
  BY DEF Task
<1>2a. \A x : x \in X <=> \E c \in n.todo : x \in TurnsIn(c.session)
  <2>1. \A u : Closed(u, sessions[u]).session = sessions[u]
    BY DEF Closed
  <2>2. \A x : x \in X <=> \E u \in gone : x \in TurnsIn(sessions[u])
    OBVIOUS
  <2>3. \A c : c \in n.todo <=> \E u \in gone : c = Closed(u, sessions[u])
    BY <1>2
  <2>. HIDE DEF X, n
  <2>4. ASSUME NEW x, x \in X PROVE \E c \in n.todo : x \in TurnsIn(c.session)
    <3>1. PICK u \in gone : x \in TurnsIn(sessions[u])
      BY <2>2, <2>4
    <3>. QED BY <2>1, <2>3, <3>1
  <2>5. ASSUME NEW x, NEW c \in n.todo, x \in TurnsIn(c.session) PROVE x \in X
    <3>1. PICK u \in gone : c = Closed(u, sessions[u])
      BY <2>3
    <3>. QED BY <2>1, <2>2, <2>5, <3>1
  <2>. QED BY <2>4, <2>5
<1>. HIDE DEF n
<1>3. ClosedTurns' = ClosedTurns \cup X
  <2>1. \A x : x \in ClosedTurns <=> \E t \in tasks : \E c \in t.todo : x \in TurnsIn(c.session)
    BY PlacesAre, InToFlush
  <2>2. \A x : x \in ClosedTurns' <=> \E t \in tasks' : \E c \in t.todo : x \in TurnsIn(c.session)
    BY PlacesAre, InToFlush
  <2>. HIDE DEF X
  <2>3. ASSUME NEW x PROVE x \in ClosedTurns' <=> x \in ClosedTurns \/ x \in X
    BY <1>1, <1>2a, <2>1, <2>2
  <2>. QED BY <2>3
<1>4. FailedTurns' = FailedTurns
  <2>1. \A x : x \in FailedTurns <=> \E t \in tasks : \E i \in 1..Len(t.failed) : x \in t.failed[i].content
    BY PlacesAre, InToQueue
  <2>2. \A x : x \in FailedTurns' <=> \E t \in tasks' : \E i \in 1..Len(t.failed) : x \in t.failed[i].content
    BY PlacesAre, InToQueue
  <2>3. \A i \in 1..Len(n.failed) : FALSE
    BY <1>2
  <2>4. ASSUME NEW x PROVE x \in FailedTurns' <=> x \in FailedTurns
    BY <1>1, <2>1, <2>2, <2>3
  <2>. QED BY <2>4
<1>5. BufferedTurns' = BufferedTurns \ X /\ X \subseteq BufferedTurns
  BY ClosesTurns
<1>. HIDE DEF X
<1> DEFINE P == <<BufferedTurns, ClosedTurns, FailedTurns, QueuedTurns, ArchivedTurns,
                  evicted, replaced, dropped, crashed>>
           Q == <<BufferedTurns', ClosedTurns', FailedTurns', QueuedTurns', ArchivedTurns',
                  evicted', replaced', dropped', crashed'>>
<1>7. OnePlace(P, 1..Len(history))
  BY OnePlaceNow DEF MemoryInv
<1>8. /\ IsNine(P, BufferedTurns, ClosedTurns, FailedTurns, QueuedTurns, ArchivedTurns,
                evicted, replaced, dropped, crashed)
      /\ IsNine(Q, BufferedTurns', ClosedTurns', FailedTurns', QueuedTurns', ArchivedTurns',
                evicted', replaced', dropped', crashed')
  BY Nine
<1>9. OnePlace(Q, 1..Len(history')) => EveryTurnInOnePlace'
  BY OnePlaceNow
<1>. HIDE DEF P, Q
<1>10. Moved(P, Q, 1, 2, X)
  <2>1. \A i \in 1..9 : i # 1 /\ i # 2 => Q[i] = P[i]
    BY <1>1, <1>4, <1>8, NineIndices, Zenon DEF IsNine
  <2>. QED BY <1>3, <1>5, <1>8, <2>1, Zenon DEF Moved, IsNine
<1>11. 1 \in 1..9 /\ 2 \in 1..9 /\ X \subseteq P[1]
  BY <1>5, <1>8 DEF IsNine
<1>12. OnePlace(Q, 1..Len(history))
  BY <1>7, <1>10, <1>11, MovedOnePlace
<1>. QED BY <1>1, <1>9, <1>12

-----------------------------------------------------------------------------
(* A task flushes a closed session.                                        *)

LEMMA BecomesFacts ==
  ASSUME NEW t, NEW n, Becomes(t, n)
  PROVE  /\ \A x \in tasks' : x = n \/ (x \in tasks /\ x # t)
         /\ \A x \in tasks : x # t => x \in tasks'
         /\ n \in tasks' \/ (n.todo = {} /\ n.failed = <<>>)
BY DEF Becomes, Finished

\* Task t becomes n, which has no c to flush any more and failed instead of t.failed.
Flushes(t, c, n) ==
  /\ t \in tasks
  /\ c \in t.todo
  /\ t.failed = <<>>
  /\ Becomes(t, n)
  /\ n.todo = t.todo \ {c}
  /\ n.failed = <<>> \/ n.failed = <<EpisodeFrom(c)>>
  /\ UNCHANGED <<sessions, history, evicted, replaced, dropped, crashed, pending, retrying>>

LEMMA FlushesClosed ==
  ASSUME MemoryInv, NEW t, NEW c, NEW n, Flushes(t, c, n)
  PROVE  /\ ClosedTurns' = ClosedTurns \ TurnsIn(c.session)
         /\ TurnsIn(c.session) \subseteq ClosedTurns
         /\ FailedTurns' = FailedTurns \cup EpisodeTurns(n.failed)
<1>1. /\ t \in tasks /\ c \in t.todo /\ n.todo = t.todo \ {c} /\ t.failed = <<>>
      /\ \A x \in tasks' : x = n \/ (x \in tasks /\ x # t)
      /\ \A x \in tasks : x # t => x \in tasks'
      /\ n \in tasks' \/ (n.todo = {} /\ n.failed = <<>>)
  BY BecomesFacts DEF Flushes
<1>2. /\ \A x : x \in ClosedTurns <=> \E a \in tasks : \E d \in a.todo : x \in TurnsIn(d.session)
      /\ \A x : x \in ClosedTurns' <=> \E a \in tasks' : \E d \in a.todo : x \in TurnsIn(d.session)
  BY PlacesAre, InToFlush
<1>3. \A a \in tasks : \A d \in a.todo :
        d # c \/ a # t => TurnsIn(d.session) \cap TurnsIn(c.session) = {}
  <2>1. \A a \in tasks : \A d \in a.todo :
          TurnsIn(d.session) = Mine(history, d.session.session_id) \ evicted
    BY DEF MemoryInv, SessionsHold, HoldsItsTurns, HoldsOnly
  <2>2. \A a \in tasks : \A d \in a.todo :
          d # c \/ a # t => d.session.session_id # c.session.session_id
    BY <1>1 DEF MemoryInv, HeldOnce
  <2>3. \A a, b : a # b => Mine(history, a) \cap Mine(history, b) = {}
    BY DEF Mine
  <2>. QED BY <1>1, <2>1, <2>2, <2>3
<1>4. TurnsIn(c.session) \subseteq ClosedTurns
  BY <1>1, <1>2
<1>5. ASSUME NEW x PROVE x \in ClosedTurns' <=> x \in ClosedTurns /\ x \notin TurnsIn(c.session)
  <2>1. ASSUME NEW a \in tasks', NEW d \in a.todo, x \in TurnsIn(d.session)
        PROVE  x \in ClosedTurns /\ x \notin TurnsIn(c.session)
    <3>1. CASE a = n
      <4>1. d \in t.todo /\ d # c
        BY <1>1, <2>1, <3>1
      <4>. QED BY <1>1, <1>2, <1>3, <2>1, <4>1
    <3>2. CASE a \in tasks /\ a # t
      BY <1>2, <1>3, <2>1, <3>2
    <3>. QED BY <1>1, <3>1, <3>2
  <2>2. ASSUME NEW a \in tasks, NEW d \in a.todo, x \in TurnsIn(d.session), x \notin TurnsIn(c.session)
        PROVE  x \in ClosedTurns'
    <3>1. CASE a = t
      <4>1. d \in n.todo /\ n \in tasks'
        BY <1>1, <2>2, <3>1
      <4>. QED BY <1>2, <2>2, <4>1
    <3>2. CASE a # t
      BY <1>1, <1>2, <2>2, <3>2
    <3>. QED BY <3>1, <3>2
  <2>. QED BY <1>2, <2>1, <2>2
<1>6. ASSUME NEW x PROVE x \in FailedTurns' <=> x \in FailedTurns \/ x \in EpisodeTurns(n.failed)
  <2>1. /\ x \in FailedTurns <=> \E a \in tasks : x \in EpisodeTurns(a.failed)
        /\ x \in FailedTurns' <=> \E a \in tasks' : x \in EpisodeTurns(a.failed)
    BY PlacesAre DEF ToQueue
  <2>2. x \notin EpisodeTurns(<<>>)
    BY InEpisodes
  <2>3. ASSUME x \in FailedTurns' PROVE x \in FailedTurns \/ x \in EpisodeTurns(n.failed)
    BY <1>1, <2>1, <2>3
  <2>4. ASSUME x \in FailedTurns PROVE x \in FailedTurns'
    <3>1. PICK a \in tasks : x \in EpisodeTurns(a.failed)
      BY <2>1, <2>4
    <3>2. a # t
      BY <1>1, <2>2, <3>1
    <3>. QED BY <1>1, <2>1, <3>1, <3>2
  <2>5. ASSUME x \in EpisodeTurns(n.failed) PROVE x \in FailedTurns'
    <3>1. n \in tasks'
      BY <1>1, <2>2, <2>5
    <3>. QED BY <2>1, <2>5, <3>1
  <2>. QED BY <2>3, <2>4, <2>5
<1>. QED BY <1>4, <1>5, <1>6

LEMMA FlushesHolds ==
  ASSUME MemoryInv, NEW t, NEW c, NEW n, Flushes(t, c, n)
  PROVE  /\ SessionsAreNamed' /\ SessionsHold' /\ HeldOnce'
         /\ TellsItsTurns(history, evicted, EpisodeFrom(c))
         /\ EpisodeFrom(c).content = TurnsIn(c.session)
         /\ \A x \in tasks' : \A i \in 1..Len(x.failed) : TellsItsTurns(history, evicted, x.failed[i])
<1>1. /\ t \in tasks /\ c \in t.todo /\ n.todo = t.todo \ {c} /\ t.failed = <<>>
      /\ n.failed = <<>> \/ n.failed = <<EpisodeFrom(c)>>
      /\ \A x \in tasks' : x = n \/ (x \in tasks /\ x # t)
      /\ UNCHANGED <<sessions, history, evicted, Queue>>
  BY BecomesFacts DEF Flushes, Queue
<1>2. /\ \A u \in Active : HoldsItsTurns(history, evicted, u, sessions[u])
      /\ \A a \in tasks : \A d \in a.todo : HoldsItsTurns(history, evicted, d.user_id, d.session)
  BY DEF MemoryInv, SessionsHold
<1>3. SessionsAreNamed'
  BY <1>1 DEF MemoryInv, SessionsAreNamed, RecordedTurns
<1>4. SessionsHold'
  <2>1. \A x \in tasks' : \A d \in x.todo : \E a \in tasks : d \in a.todo
    BY <1>1
  <2>2. Active' = Active
    BY <1>1 DEF Active
  <2>. QED BY <1>1, <1>2, <2>1, <2>2 DEF SessionsHold
<1>5. /\ TellsItsTurns(history, evicted, EpisodeFrom(c))
      /\ EpisodeFrom(c).content = TurnsIn(c.session)
      /\ EpisodeFrom(c).session_id = c.session.session_id
  <2>1. c.session \in SessionState
    BY <1>1 DEF MemoryInv, TypeOK, TaskType
  <2>2. HoldsItsTurns(history, evicted, c.user_id, c.session)
    BY <1>1, <1>2
  <2>3. TellsItsTurns(history, evicted, EpisodeFrom(c))
    BY <2>1, <2>2, NoTurnYet, EpisodeTells
  <2>. QED BY <2>3 DEF EpisodeFrom
<1>6. Len(n.failed) <= 1 /\ \A i \in 1..Len(n.failed) : n.failed[i] = EpisodeFrom(c)
  <2>1. CASE n.failed = <<>>
    BY <2>1
  <2>2. CASE n.failed = <<EpisodeFrom(c)>>
    BY <2>2
  <2>. QED BY <1>1, <2>1, <2>2
<1>7. \A x \in tasks' : \A i \in 1..Len(x.failed) : TellsItsTurns(history, evicted, x.failed[i])
  BY <1>1, <1>5, <1>6 DEF MemoryInv, EpisodesTell
<1>8. HeldOnce'
  <2>1. HeldOnce
    BY DEF MemoryInv
  <2>2. ASSUME NEW t1 \in tasks', NEW t2 \in tasks', NEW c1 \in t1.todo, NEW c2 \in t2.todo,
               c1.session.session_id = c2.session.session_id
        PROVE  t1 = t2 /\ c1 = c2
    <3>1. \A x \in tasks' : \A d \in x.todo : x = n => d \in t.todo
      BY <1>1
    <3>2. CASE t1 # n /\ t2 # n
      BY <1>1, <2>1, <2>2, <3>2 DEF HeldOnce
    <3>3. CASE t1 = n /\ t2 = n
      BY <1>1, <2>1, <2>2, <3>1, <3>3 DEF HeldOnce
    <3>4. CASE t1 = n /\ t2 # n
      BY <1>1, <2>1, <2>2, <3>1, <3>4 DEF HeldOnce
    <3>5. CASE t1 # n /\ t2 = n
      BY <1>1, <2>1, <2>2, <3>1, <3>5 DEF HeldOnce
    <3>. QED BY <3>2, <3>3, <3>4, <3>5
  <2>3. \A x \in tasks' : Len(x.failed) <= 1
    BY <1>1, <1>6, <2>1 DEF HeldOnce
  <2>4. ASSUME NEW t1 \in tasks', NEW t2 \in tasks', t1.failed # <<>>, t2.failed # <<>>,
               t1.failed[1].session_id = t2.failed[1].session_id
        PROVE  t1 = t2
    <3>1. n.failed # <<>> => n.failed[1] = EpisodeFrom(c)
      BY <1>1
    <3>2. \A x \in tasks : x.failed # <<>> => x.failed[1].session_id # c.session.session_id
      <4>1. ASSUME NEW x \in tasks, x.failed # <<>> PROVE 1 \in 1..Len(x.failed)
        <5>1. x.failed \in Seq(Episode)
          BY DEF MemoryInv, TypeOK, TaskType
        <5>. QED BY <4>1, <5>1
      <4>. QED BY <1>1, <4>1, HoldersApart
    <3>3. CASE t1 # n /\ t2 # n
      BY <1>1, <2>1, <2>4, <3>3 DEF HeldOnce
    <3>4. CASE t1 = n /\ t2 # n
      BY <1>1, <1>5, <2>4, <3>1, <3>2, <3>4
    <3>5. CASE t1 # n /\ t2 = n
      BY <1>1, <1>5, <2>4, <3>1, <3>2, <3>5
    <3>. QED BY <3>3, <3>4, <3>5
  <2>5. \A i, j \in 1..Len(Queue') : Queue'[i].session_id = Queue'[j].session_id => i = j
    BY <1>1, <2>1 DEF HeldOnce
  <2>. QED BY <2>2, <2>3, <2>4, <2>5 DEF HeldOnce
<1>. QED BY <1>3, <1>4, <1>5, <1>7, <1>8

\* An episode more or less.
LEMMA AppendedTurns ==
  ASSUME NEW q \in Seq(Episode), NEW ep
  PROVE  EpisodeTurns(Append(q, ep)) = EpisodeTurns(q) \cup ep.content
<1> DEFINE r == Append(q, ep)
           N == Len(q)
<1>1. Len(r) = N + 1 /\ N \in Nat /\ r[N + 1] = ep /\ \A i \in 1..N : r[i] = q[i]
  OBVIOUS
<1>. HIDE DEF r
<1>2. \A i : i \in 1..(N + 1) <=> i \in 1..N \/ i = N + 1
  BY <1>1
<1>3. \A x : x \in EpisodeTurns(q) <=> \E i \in 1..N : x \in q[i].content
  BY InEpisodes
<1>. HIDE DEF N
<1>4. \A x : x \in EpisodeTurns(r) <=> \E i \in 1..(N + 1) : x \in r[i].content
  BY <1>1, InEpisodes
<1>5. ASSUME NEW x PROVE x \in EpisodeTurns(r) <=> x \in EpisodeTurns(q) \/ x \in ep.content
  BY <1>1, <1>2, <1>3, <1>4
<1>. QED BY <1>5 DEF r

\* The places before and after, for the lemma that moves turns.
NineNow(P, Q) ==
  /\ IsNine(P, BufferedTurns, ClosedTurns, FailedTurns, QueuedTurns, ArchivedTurns,
            evicted, replaced, dropped, crashed)
  /\ IsNine(Q, BufferedTurns', ClosedTurns', FailedTurns', QueuedTurns', ArchivedTurns',
            evicted', replaced', dropped', crashed')
  /\ EveryTurnInOnePlace => OnePlace(P, 1..Len(history))
  /\ OnePlace(Q, 1..Len(history')) => EveryTurnInOnePlace'

LEMMA NineNowExist == \E P, Q : NineNow(P, Q)
<1> DEFINE P == <<BufferedTurns, ClosedTurns, FailedTurns, QueuedTurns, ArchivedTurns,
                  evicted, replaced, dropped, crashed>>
           Q == <<BufferedTurns', ClosedTurns', FailedTurns', QueuedTurns', ArchivedTurns',
                  evicted', replaced', dropped', crashed'>>
<1>1. /\ IsNine(P, BufferedTurns, ClosedTurns, FailedTurns, QueuedTurns, ArchivedTurns,
                evicted, replaced, dropped, crashed)
      /\ IsNine(Q, BufferedTurns', ClosedTurns', FailedTurns', QueuedTurns', ArchivedTurns',
                evicted', replaced', dropped', crashed')
  BY Nine
<1>2. /\ EveryTurnInOnePlace => OnePlace(P, 1..Len(history))
      /\ OnePlace(Q, 1..Len(history')) => EveryTurnInOnePlace'
  BY OnePlaceNow
<1>. HIDE DEF P, Q
<1>3. NineNow(P, Q)
  BY <1>1, <1>2 DEF NineNow
<1>. QED BY <1>3

LEMMA FlushPersistsHolds ==
  ASSUME MemoryInv, NEW t \in tasks, NEW c \in t.todo, FlushPersists(t, c)
  PROVE  Holding'
<1> DEFINE n == [t EXCEPT !.todo = @ \ {c}]
           ep == EpisodeFrom(c)
<1>1. /\ Flushes(t, c, n)
      /\ n.failed = <<>>
      /\ archive' = Append(archive, ep)
      /\ UNCHANGED <<history, evicted, replaced, dropped, crashed, Queue>>
      /\ UNCHANGED <<BufferedTurns, QueuedTurns>>
  <2>1. TaskType(t)
    BY DEF MemoryInv, TypeOK
  <2>2. n.todo = t.todo \ {c} /\ n.failed = <<>> /\ t.failed = <<>>
    BY <2>1 DEF TaskType, FlushPersists
  <2>3. /\ Becomes(t, n) /\ archive' = Append(archive, ep)
        /\ UNCHANGED <<sessions, history, evicted, replaced, dropped, crashed, pending, retrying>>
    BY DEF FlushPersists, past
  <2>4. UNCHANGED <<BufferedTurns, QueuedTurns, Queue>>
    BY <2>3 DEF BufferedTurns, TurnsOf, QueuedTurns, EpisodeTurns, Queue
  <2>. HIDE DEF n, ep
  <2>. QED BY <2>2, <2>3, <2>4 DEF Flushes
<1>. HIDE DEF n, ep
<1>2. /\ ClosedTurns' = ClosedTurns \ TurnsIn(c.session)
      /\ TurnsIn(c.session) \subseteq ClosedTurns
      /\ FailedTurns' = FailedTurns
  <2>1. EpisodeTurns(n.failed) = {}
    <3>1. \A i \in 1..Len(n.failed) : FALSE
      BY <1>1
    <3>. QED BY <3>1, InEpisodes
  <2>. QED BY <1>1, <2>1, FlushesClosed
<1>3. /\ SessionsAreNamed' /\ SessionsHold' /\ HeldOnce'
      /\ TellsItsTurns(history, evicted, ep)
      /\ ep.content = TurnsIn(c.session)
      /\ \A x \in tasks' : \A i \in 1..Len(x.failed) : TellsItsTurns(history, evicted, x.failed[i])
  BY <1>1, FlushesHolds DEF ep
<1>4. archive \in Seq(Episode)
  BY DEF MemoryInv, TypeOK
<1>5. EpisodesTell'
  <2>1. \A i \in 1..Len(archive') : (i \in 1..Len(archive) /\ archive'[i] = archive[i]) \/ archive'[i] = ep
    BY <1>1, <1>4
  <2>2. \A i \in 1..Len(archive') : TellsItsTurns(history, evicted, archive'[i])
    BY <1>3, <2>1 DEF MemoryInv, EpisodesTell
  <2>3. \A i \in 1..Len(Queue) : TellsItsTurns(history, evicted, Queue[i])
    BY DEF MemoryInv, EpisodesTell
  <2>. QED BY <1>1, <1>3, <2>2, <2>3 DEF EpisodesTell
<1>6. ArchivedTurns' = ArchivedTurns \cup TurnsIn(c.session)
  BY <1>1, <1>3, <1>4, PlacesAre, AppendedTurns
<1>7. EveryTurnInOnePlace'
  <2>1. PICK P, Q : NineNow(P, Q)
    BY NineNowExist
  <2>2. OnePlace(P, 1..Len(history))
    BY <2>1 DEF NineNow, MemoryInv
  <2>3. Moved(P, Q, 2, 5, TurnsIn(c.session))
    <3>1. \A i \in 1..9 : i # 2 /\ i # 5 => Q[i] = P[i]
      BY <1>1, <1>2, <2>1, NineIndices, Zenon DEF NineNow, IsNine
    <3>. QED BY <1>2, <1>6, <2>1, <3>1, Zenon DEF Moved, NineNow, IsNine
  <2>4. 2 \in 1..9 /\ 5 \in 1..9 /\ TurnsIn(c.session) \subseteq P[2]
    BY <1>2, <2>1 DEF NineNow, IsNine
  <2>5. OnePlace(Q, 1..Len(history))
    BY <2>2, <2>3, <2>4, MovedOnePlace
  <2>. QED BY <1>1, <2>1, <2>5 DEF NineNow
<1>. QED BY <1>3, <1>5, <1>7 DEF Holding

LEMMA FlushFailsHolds ==
  ASSUME MemoryInv, NEW t \in tasks, NEW c \in t.todo, FlushFails(t, c)
  PROVE  Holding'
<1> DEFINE ep == EpisodeFrom(c)
           n == [t EXCEPT !.todo = @ \ {c}, !.failed = <<ep>>]
<1>1. /\ Flushes(t, c, n)
      /\ n.failed = <<ep>>
      /\ UNCHANGED <<history, evicted, replaced, dropped, crashed, Queue, archive>>
      /\ UNCHANGED <<BufferedTurns, QueuedTurns, ArchivedTurns>>
  <2>1. TaskType(t)
    BY DEF MemoryInv, TypeOK
  <2>2. n.todo = t.todo \ {c} /\ n.failed = <<EpisodeFrom(c)>> /\ t.failed = <<>>
    BY <2>1 DEF TaskType, FlushFails
  <2>3. /\ Becomes(t, n)
        /\ UNCHANGED <<sessions, history, evicted, replaced, dropped, crashed, pending, retrying,
                       archive>>
    BY DEF FlushFails, past
  <2>4. UNCHANGED <<BufferedTurns, QueuedTurns, Queue, ArchivedTurns>>
    BY <2>3 DEF BufferedTurns, TurnsOf, QueuedTurns, EpisodeTurns, Queue, ArchivedTurns
  <2>5. n.failed = <<ep>>
    BY <2>2
  <2>. HIDE DEF n, ep
  <2>. QED BY <2>2, <2>3, <2>4, <2>5 DEF Flushes
<1>. HIDE DEF n
<1>3. /\ SessionsAreNamed' /\ SessionsHold' /\ HeldOnce'
      /\ TellsItsTurns(history, evicted, ep)
      /\ ep.content = TurnsIn(c.session)
      /\ \A x \in tasks' : \A i \in 1..Len(x.failed) : TellsItsTurns(history, evicted, x.failed[i])
  BY <1>1, FlushesHolds
<1>. HIDE DEF ep
<1>2. /\ ClosedTurns' = ClosedTurns \ TurnsIn(c.session)
      /\ TurnsIn(c.session) \subseteq ClosedTurns
      /\ FailedTurns' = FailedTurns \cup TurnsIn(c.session)
  <2>1. EpisodeTurns(n.failed) = ep.content
    <3>1. Len(<<ep>>) = 1 /\ <<ep>>[1] = ep /\ 1..1 = {1}
      OBVIOUS
    <3>. QED BY <1>1, <3>1, InEpisodes
  <2>. QED BY <1>1, <1>3, <2>1, FlushesClosed
<1>5. EpisodesTell'
  BY <1>1, <1>3 DEF MemoryInv, EpisodesTell
<1>7. EveryTurnInOnePlace'
  <2>1. PICK P, Q : NineNow(P, Q)
    BY NineNowExist
  <2>2. OnePlace(P, 1..Len(history))
    BY <2>1 DEF NineNow, MemoryInv
  <2>3. Moved(P, Q, 2, 3, TurnsIn(c.session))
    <3>1. \A i \in 1..9 : i # 2 /\ i # 3 => Q[i] = P[i]
      BY <1>1, <1>2, <2>1, NineIndices, Zenon DEF NineNow, IsNine
    <3>. QED BY <1>2, <2>1, <3>1, Zenon DEF Moved, NineNow, IsNine
  <2>4. 2 \in 1..9 /\ 3 \in 1..9 /\ TurnsIn(c.session) \subseteq P[2]
    BY <1>2, <2>1 DEF NineNow, IsNine
  <2>5. OnePlace(Q, 1..Len(history))
    BY <2>2, <2>3, <2>4, MovedOnePlace
  <2>. QED BY <1>1, <2>1, <2>5 DEF NineNow
<1>. QED BY <1>3, <1>5, <1>7 DEF Holding

LEMMA NeverEmpty ==
  ASSUME MemoryInv, NEW t \in tasks, NEW c \in t.todo
  PROVE  ~NothingToFlush(c.session)
<1>1. c.session \in SessionState
  BY DEF MemoryInv, TypeOK, TaskType
<1>2. HoldsItsTurns(history, evicted, c.user_id, c.session)
  BY DEF MemoryInv, SessionsHold
<1>. QED BY <1>1, <1>2, NoTurnYet, EpisodeTells

-----------------------------------------------------------------------------
(* The retry queue.                                                        *)

\* No two episodes of the queue q are of one session.
OncePerSession(q) == \A i, j \in 1..Len(q) : q[i].session_id = q[j].session_id => i = j

\* r is q without its k-th episode.
IsWithout(r, q, k) ==
  /\ k \in 1..Len(q)
  /\ Len(r) = Len(q) - 1
  /\ \A i \in 1..Len(r) : r[i] = IF i < k THEN q[i] ELSE q[i + 1]

LEMMA WithoutFacts ==
  ASSUME NEW q, NEW r, NEW k, Len(q) \in Nat, IsWithout(r, q, k), OncePerSession(q)
  PROVE  /\ OncePerSession(r)
         /\ \A i \in 1..Len(r) : r[i].session_id # q[k].session_id
         /\ \A i \in 1..Len(r) : \E m \in 1..Len(q) : r[i] = q[m]
<1> DEFINE N == Len(q)
           f(i) == IF i < k THEN i ELSE i + 1
<1>1. N \in Nat /\ Len(r) = N - 1 /\ k \in 1..N
  BY DEF IsWithout
<1>2. \A i \in 1..(N - 1) : f(i) \in 1..N /\ f(i) # k
  BY <1>1
<1>3. \A i, j \in 1..(N - 1) : f(i) = f(j) => i = j
  BY <1>1
<1>5. \A i \in 1..(N - 1) : r[i] = q[f(i)]
  BY <1>1 DEF IsWithout
<1>. HIDE DEF f
<1>6. OncePerSession(r)
  BY <1>1, <1>2, <1>3, <1>5 DEF OncePerSession
<1>7. \A i \in 1..Len(r) : \E m \in 1..Len(q) : r[i] = q[m]
  BY <1>1, <1>2, <1>5
<1>8. \A i \in 1..Len(r) : r[i].session_id # q[k].session_id
  BY <1>1, <1>2, <1>5 DEF OncePerSession
<1>. QED BY <1>6, <1>7, <1>8

LEMMA ContentsApart ==
  ASSUME NEW h, NEW ev, NEW q, OncePerSession(q),
         \A i \in 1..Len(q) : TellsItsTurns(h, ev, q[i])
  PROVE  \A i, j \in 1..Len(q) : i # j => q[i].content \cap q[j].content = {}
<1>1. \A m \in 1..Len(q) : q[m].content = Mine(h, q[m].session_id) \ ev
  BY DEF TellsItsTurns
<1>2. \A a, b : a # b => Mine(h, a) \cap Mine(h, b) = {}
  BY DEF Mine
<1>. QED BY <1>1, <1>2 DEF OncePerSession

LEMMA WithoutTurns ==
  ASSUME NEW q, NEW r, NEW k, Len(q) \in Nat, IsWithout(r, q, k),
         \A i, j \in 1..Len(q) : i # j => q[i].content \cap q[j].content = {}
  PROVE  /\ EpisodeTurns(r) = EpisodeTurns(q) \ q[k].content
         /\ q[k].content \subseteq EpisodeTurns(q)
<1> DEFINE N == Len(q)
           f(i) == IF i < k THEN i ELSE i + 1
<1>1. N \in Nat /\ Len(r) = N - 1 /\ k \in 1..N
  BY DEF IsWithout
<1>2. \A i \in 1..(N - 1) : f(i) \in 1..N /\ f(i) # k
  BY <1>1
<1>4. \A m \in 1..N : m # k => \E i \in 1..(N - 1) : f(i) = m
  <2>1. ASSUME NEW m \in 1..N, m < k PROVE m \in 1..(N - 1) /\ f(m) = m
    BY <1>1, <2>1
  <2>2. ASSUME NEW m \in 1..N, m > k PROVE m - 1 \in 1..(N - 1) /\ f(m - 1) = m
    BY <1>1, <2>2
  <2>3. \A m \in 1..N : m # k => m < k \/ m > k
    BY <1>1
  <2>. HIDE DEF f
  <2>. QED BY <2>1, <2>2, <2>3
<1>5. \A i \in 1..(N - 1) : r[i] = q[f(i)]
  BY <1>1 DEF IsWithout
<1>. HIDE DEF f
<1>8. \A m \in 1..N : m # k => q[m].content \cap q[k].content = {}
  BY <1>1
<1>9. /\ \A x : x \in EpisodeTurns(q) <=> \E m \in 1..N : x \in q[m].content
      /\ \A x : x \in EpisodeTurns(r) <=> \E i \in 1..(N - 1) : x \in r[i].content
  <2>1. \A x : x \in EpisodeTurns(q) <=> \E m \in 1..N : x \in q[m].content
    BY InEpisodes
  <2>. HIDE DEF N
  <2>2. \A x : x \in EpisodeTurns(r) <=> \E i \in 1..(N - 1) : x \in r[i].content
    BY <1>1, InEpisodes
  <2>. QED BY <2>1, <2>2
<1>10. ASSUME NEW x PROVE x \in EpisodeTurns(r) <=> x \in EpisodeTurns(q) /\ x \notin q[k].content
  <2>. HIDE DEF N
  <2>1. ASSUME NEW i \in 1..(N - 1), x \in r[i].content
        PROVE  x \in EpisodeTurns(q) /\ x \notin q[k].content
    BY <1>2, <1>5, <1>8, <1>9, <2>1
  <2>2. ASSUME NEW m \in 1..N, x \in q[m].content, x \notin q[k].content
        PROVE  x \in EpisodeTurns(r)
    <3>1. PICK i \in 1..(N - 1) : f(i) = m
      BY <1>4, <2>2
    <3>. QED BY <1>5, <1>9, <2>2, <3>1
  <2>. QED BY <1>9, <2>1, <2>2
<1>11. q[k].content \subseteq EpisodeTurns(q)
  BY <1>1, <1>9
<1>. QED BY <1>10, <1>11

LEMMA TailIsWithout ==
  ASSUME NEW q \in Seq(Episode), q # <<>>
  PROVE  IsWithout(Tail(q), q, 1) /\ Tail(q) \in Seq(Episode) /\ Head(q) = q[1]
<1>1. /\ Tail(q) \in Seq(Episode) /\ Len(Tail(q)) = Len(q) - 1 /\ Head(q) = q[1]
      /\ Len(q) \in Nat /\ Len(q) # 0
      /\ \A i \in 1..Len(Tail(q)) : Tail(q)[i] = q[i + 1]
  OBVIOUS
<1>2. 1 \in 1..Len(q) /\ \A i \in 1..Len(Tail(q)) : ~(i < 1)
  BY <1>1
<1>. QED BY <1>1, <1>2 DEF IsWithout

\* One more episode, of another session than those of the queue.
LEMMA AppendedQueue ==
  ASSUME NEW h, NEW ev, NEW q \in Seq(Episode), NEW ep, OncePerSession(q),
         \A i \in 1..Len(q) : TellsItsTurns(h, ev, q[i]), TellsItsTurns(h, ev, ep),
         \A i \in 1..Len(q) : q[i].session_id # ep.session_id
  PROVE  /\ OncePerSession(Append(q, ep))
         /\ \A i \in 1..Len(Append(q, ep)) : TellsItsTurns(h, ev, Append(q, ep)[i])
<1> DEFINE r == Append(q, ep)
           N == Len(q)
<1>1. Len(r) = N + 1 /\ N \in Nat /\ r[N + 1] = ep /\ \A i \in 1..N : r[i] = q[i]
  OBVIOUS
<1>. HIDE DEF r
<1>2. \A i : i \in 1..(N + 1) <=> i \in 1..N \/ i = N + 1
  BY <1>1
<1>3. \A i, j \in 1..N : q[i].session_id = q[j].session_id => i = j
  BY DEF OncePerSession
<1>. HIDE DEF N
<1>4. \A i, j \in 1..(N + 1) : r[i].session_id = r[j].session_id => i = j
  <2>1. \A i \in 1..N : q[i].session_id # ep.session_id
    BY DEF N
  <2>. QED BY <1>1, <1>2, <1>3, <2>1
<1>5. OncePerSession(r)
  BY <1>1, <1>4 DEF OncePerSession
<1>6. \A i \in 1..(N + 1) : TellsItsTurns(h, ev, r[i])
  <2>1. \A i \in 1..N : TellsItsTurns(h, ev, q[i])
    BY DEF N
  <2>. QED BY <1>1, <1>2, <2>1
<1>. QED BY <1>1, <1>5, <1>6 DEF r

LEMMA QueueNow ==
  ASSUME MemoryInv
  PROVE  /\ OncePerSession(Queue)
         /\ Queue \in Seq(Episode) /\ pending \in Seq(Episode) /\ retrying.still \in Seq(Episode)
         /\ archive \in Seq(Episode)
         /\ QueuedTurns = EpisodeTurns(Queue)
         /\ \A i \in 1..Len(Queue) : TellsItsTurns(history, evicted, Queue[i])
         /\ \A i \in 1..Len(archive) : TellsItsTurns(history, evicted, archive[i])
         /\ \A t \in tasks : \A i \in 1..Len(t.failed) : TellsItsTurns(history, evicted, t.failed[i])
         /\ ~retrying.active => retrying.still = <<>> /\ Queue = pending
<1>1. Queue \in Seq(Episode) /\ QueuedTurns = EpisodeTurns(Queue)
  BY QueuedAre DEF MemoryInv
<1>2. pending \in Seq(Episode) /\ retrying.still \in Seq(Episode) /\ archive \in Seq(Episode)
  BY DEF MemoryInv, TypeOK
<1>3. OncePerSession(Queue)
  BY DEF MemoryInv, HeldOnce, OncePerSession
<1>4. /\ \A i \in 1..Len(Queue) : TellsItsTurns(history, evicted, Queue[i])
      /\ \A i \in 1..Len(archive) : TellsItsTurns(history, evicted, archive[i])
      /\ \A t \in tasks : \A i \in 1..Len(t.failed) : TellsItsTurns(history, evicted, t.failed[i])
  BY DEF MemoryInv, EpisodesTell
<1>5. ASSUME ~retrying.active PROVE retrying.still = <<>> /\ Queue = pending
  <2>1. retrying.still = <<>>
    BY <1>5 DEF MemoryInv, QueueInv
  <2>2. \A q \in Seq(Episode) : <<>> \o q = q
    OBVIOUS
  <2>. QED BY <1>2, <2>1, <2>2 DEF Queue
<1>. QED BY <1>1, <1>2, <1>3, <1>4, <1>5

\* An episode goes to the queue, which may drop its oldest for it.
LEMMA EnqueuedFacts ==
  ASSUME NEW h, NEW ev, NEW q \in Seq(Episode), NEW ep, OncePerSession(q),
         \A i \in 1..Len(q) : TellsItsTurns(h, ev, q[i]), TellsItsTurns(h, ev, ep),
         \A i \in 1..Len(q) : q[i].session_id # ep.session_id
  PROVE  /\ OncePerSession(Enqueued(q, ep))
         /\ \A i \in 1..Len(Enqueued(q, ep)) : TellsItsTurns(h, ev, Enqueued(q, ep)[i])
         /\ EpisodeTurns(Enqueued(q, ep)) = (EpisodeTurns(q) \ DroppedBy(q)) \cup ep.content
         /\ DroppedBy(q) \subseteq EpisodeTurns(q)
<1> DEFINE r == IF QueueFull(q) THEN Tail(q) ELSE q
<1>1. Enqueued(q, ep) = Append(r, ep)
  BY DEF Enqueued
<1>2. /\ r \in Seq(Episode)
      /\ OncePerSession(r)
      /\ \A i \in 1..Len(r) : TellsItsTurns(h, ev, r[i])
      /\ \A i \in 1..Len(r) : r[i].session_id # ep.session_id
      /\ EpisodeTurns(r) = EpisodeTurns(q) \ DroppedBy(q)
      /\ DroppedBy(q) \subseteq EpisodeTurns(q)
  <2>1. CASE QueueFull(q)
    <3>1. q # <<>>
      BY <2>1, PendingAssumption DEF QueueFull
    <3>2. IsWithout(Tail(q), q, 1) /\ Tail(q) \in Seq(Episode) /\ Head(q) = q[1]
      BY <3>1, TailIsWithout
    <3>3. r = Tail(q) /\ DroppedBy(q) = q[1].content
      BY <2>1, <3>2 DEF DroppedBy
    <3>4. /\ OncePerSession(Tail(q))
          /\ \A i \in 1..Len(Tail(q)) : TellsItsTurns(h, ev, Tail(q)[i])
          /\ EpisodeTurns(Tail(q)) = EpisodeTurns(q) \ q[1].content
          /\ q[1].content \subseteq EpisodeTurns(q)
      <4>1. Len(q) \in Nat
        OBVIOUS
      <4>2. OncePerSession(Tail(q)) /\ \A i \in 1..Len(Tail(q)) : \E m \in 1..Len(q) : Tail(q)[i] = q[m]
        BY <3>2, <4>1, WithoutFacts
      <4>3. \A i, j \in 1..Len(q) : i # j => q[i].content \cap q[j].content = {}
        BY ContentsApart
      <4>4. /\ EpisodeTurns(Tail(q)) = EpisodeTurns(q) \ q[1].content
            /\ q[1].content \subseteq EpisodeTurns(q)
        BY <3>2, <4>1, <4>3, WithoutTurns
      <4>. QED BY <4>2, <4>4
    <3>5. \A i \in 1..Len(Tail(q)) : Tail(q)[i].session_id # ep.session_id
      <4>1. \A i \in 1..Len(Tail(q)) : i + 1 \in 1..Len(q) /\ Tail(q)[i] = q[i + 1]
        BY <3>1
      <4>. QED BY <4>1
    <3>. HIDE DEF r
    <3>. QED BY <3>2, <3>3, <3>4, <3>5
  <2>2. CASE ~QueueFull(q)
    BY <2>2 DEF DroppedBy
  <2>. QED BY <2>1, <2>2
<1>. HIDE DEF r
<1>3. /\ OncePerSession(Append(r, ep))
      /\ \A i \in 1..Len(Append(r, ep)) : TellsItsTurns(h, ev, Append(r, ep)[i])
  BY <1>2, AppendedQueue
<1>4. EpisodeTurns(Append(r, ep)) = EpisodeTurns(r) \cup ep.content
  BY <1>2, AppendedTurns
<1>. QED BY <1>1, <1>2, <1>3, <1>4

\* Task t has queued its failed flush, or ends.
Relieved(t, n) ==
  /\ t \in tasks
  /\ n.todo = t.todo
  /\ n.failed = <<>>
  /\ \A x \in tasks' : x = n \/ (x \in tasks /\ x # t)
  /\ \A x \in tasks : x # t => x \in tasks'
  /\ n \in tasks' \/ (n.todo = {} /\ n.failed = <<>>)
  /\ UNCHANGED <<sessions, history, evicted>>

LEMMA RelievedHolds ==
  ASSUME MemoryInv, NEW t, NEW n, Relieved(t, n)
  PROVE  /\ SessionsAreNamed' /\ SessionsHold'
         /\ \A t1, t2 \in tasks' : \A c1 \in t1.todo, c2 \in t2.todo :
              c1.session.session_id = c2.session.session_id => t1 = t2 /\ c1 = c2
         /\ \A x \in tasks' : Len(x.failed) <= 1
         /\ \A t1, t2 \in tasks' :
              /\ t1.failed # <<>> /\ t2.failed # <<>>
              /\ t1.failed[1].session_id = t2.failed[1].session_id
              => t1 = t2
         /\ \A x \in tasks' : \A i \in 1..Len(x.failed) : TellsItsTurns(history, evicted, x.failed[i])
<1>1. /\ t \in tasks /\ n.todo = t.todo /\ n.failed = <<>>
      /\ \A x \in tasks' : x = n \/ (x \in tasks /\ x # t)
      /\ UNCHANGED <<sessions, history, evicted>>
  BY DEF Relieved
<1>2. Len(n.failed) = 0 /\ \A i \in 1..Len(n.failed) : FALSE
  BY <1>1
<1>3. SessionsAreNamed'
  BY <1>1 DEF MemoryInv, SessionsAreNamed, RecordedTurns
<1>4. SessionsHold'
  <2>1. \A x \in tasks' : \A d \in x.todo : \E a \in tasks : d \in a.todo
    BY <1>1
  <2>2. Active' = Active
    BY <1>1 DEF Active
  <2>3. /\ \A u \in Active : HoldsItsTurns(history, evicted, u, sessions[u])
        /\ \A a \in tasks : \A d \in a.todo : HoldsItsTurns(history, evicted, d.user_id, d.session)
    BY DEF MemoryInv, SessionsHold
  <2>. QED BY <1>1, <2>1, <2>2, <2>3 DEF SessionsHold
<1>5. ASSUME NEW t1 \in tasks', NEW t2 \in tasks', NEW c1 \in t1.todo, NEW c2 \in t2.todo,
             c1.session.session_id = c2.session.session_id
      PROVE  t1 = t2 /\ c1 = c2
  <2>1. \A a, b \in tasks : \A c \in a.todo, d \in b.todo :
          c.session.session_id = d.session.session_id => a = b /\ c = d
    BY DEF MemoryInv, HeldOnce
  <2>2. CASE t1 # n /\ t2 # n
    BY <1>1, <1>5, <2>1, <2>2
  <2>3. CASE t1 = n /\ t2 = n
    BY <1>1, <1>5, <2>1, <2>3
  <2>4. CASE t1 = n /\ t2 # n
    BY <1>1, <1>5, <2>1, <2>4
  <2>5. CASE t1 # n /\ t2 = n
    BY <1>1, <1>5, <2>1, <2>5
  <2>. QED BY <2>2, <2>3, <2>4, <2>5
<1>6. \A x \in tasks' : Len(x.failed) <= 1
  BY <1>1, <1>2 DEF MemoryInv, HeldOnce
<1>7. \A t1, t2 \in tasks' :
        /\ t1.failed # <<>> /\ t2.failed # <<>>
        /\ t1.failed[1].session_id = t2.failed[1].session_id
        => t1 = t2
  BY <1>1 DEF MemoryInv, HeldOnce
<1>8. \A x \in tasks' : \A i \in 1..Len(x.failed) : TellsItsTurns(history, evicted, x.failed[i])
  BY <1>1, <1>2 DEF MemoryInv, EpisodesTell
<1>. QED BY <1>3, <1>4, <1>5, <1>6, <1>7, <1>8

LEMMA RelievedPlaces ==
  ASSUME MemoryInv, NEW t, NEW n, Relieved(t, n)
  PROVE  /\ ClosedTurns' = ClosedTurns
         /\ FailedTurns' = FailedTurns \ EpisodeTurns(t.failed)
         /\ EpisodeTurns(t.failed) \subseteq FailedTurns
<1>1. /\ t \in tasks /\ n.todo = t.todo /\ n.failed = <<>>
      /\ \A x \in tasks' : x = n \/ (x \in tasks /\ x # t)
      /\ \A x \in tasks : x # t => x \in tasks'
      /\ n \in tasks' \/ (n.todo = {} /\ n.failed = <<>>)
  BY DEF Relieved
<1>2. \A i \in 1..Len(n.failed) : FALSE
  BY <1>1
<1>3. ClosedTurns' = ClosedTurns
  <2>1. /\ \A x : x \in ClosedTurns <=> \E a \in tasks : \E d \in a.todo : x \in TurnsIn(d.session)
        /\ \A x : x \in ClosedTurns' <=> \E a \in tasks' : \E d \in a.todo : x \in TurnsIn(d.session)
    BY PlacesAre, InToFlush
  <2>2. \A a \in tasks' : \E b \in tasks : a.todo = b.todo
    BY <1>1
  <2>3. \A a \in tasks : a.todo = {} \/ \E b \in tasks' : a.todo = b.todo
    BY <1>1
  <2>4. ASSUME NEW x PROVE x \in ClosedTurns' <=> x \in ClosedTurns
    <3>1. ASSUME NEW a \in tasks', NEW d \in a.todo, x \in TurnsIn(d.session) PROVE x \in ClosedTurns
      BY <2>1, <2>2, <3>1
    <3>2. ASSUME NEW a \in tasks, NEW d \in a.todo, x \in TurnsIn(d.session) PROVE x \in ClosedTurns'
      BY <2>1, <2>3, <3>2
    <3>. QED BY <2>1, <3>1, <3>2
  <2>. QED BY <2>4
<1>4. ASSUME NEW a \in tasks, a # t, NEW i \in 1..Len(a.failed), NEW j \in 1..Len(t.failed)
      PROVE  a.failed[i].content \cap t.failed[j].content = {}
  <2>1. i = 1 /\ j = 1 /\ a.failed # <<>> /\ t.failed # <<>>
    <3>1. Len(a.failed) <= 1 /\ Len(t.failed) <= 1
      BY <1>1, <1>4 DEF MemoryInv, HeldOnce
    <3>2. a.failed \in Seq(Episode) /\ t.failed \in Seq(Episode)
      BY <1>1, <1>4 DEF MemoryInv, TypeOK, TaskType
    <3>. QED BY <1>4, <3>1, <3>2
  <2>2. a.failed[1].session_id # t.failed[1].session_id
    BY <1>1, <1>4, <2>1 DEF MemoryInv, HeldOnce
  <2>3. /\ a.failed[1].content = Mine(history, a.failed[1].session_id) \ evicted
        /\ t.failed[1].content = Mine(history, t.failed[1].session_id) \ evicted
    BY <1>1, <1>4, <2>1 DEF MemoryInv, EpisodesTell, TellsItsTurns
  <2>4. \A m, k : m # k => Mine(history, m) \cap Mine(history, k) = {}
    BY DEF Mine
  <2>. QED BY <2>1, <2>2, <2>3, <2>4
<1>5. /\ \A x : x \in FailedTurns <=> \E a \in tasks : \E i \in 1..Len(a.failed) : x \in a.failed[i].content
      /\ \A x : x \in FailedTurns' <=> \E a \in tasks' : \E i \in 1..Len(a.failed) : x \in a.failed[i].content
  BY PlacesAre, InToQueue
<1>6. \A x : x \in EpisodeTurns(t.failed) <=> \E j \in 1..Len(t.failed) : x \in t.failed[j].content
  BY InEpisodes
<1>7. ASSUME NEW x PROVE x \in FailedTurns' <=> x \in FailedTurns /\ x \notin EpisodeTurns(t.failed)
  <2>1. ASSUME NEW a \in tasks', NEW i \in 1..Len(a.failed), x \in a.failed[i].content
        PROVE  x \in FailedTurns /\ x \notin EpisodeTurns(t.failed)
    <3>1. a \in tasks /\ a # t
      BY <1>1, <1>2, <2>1
    <3>. QED BY <1>4, <1>5, <1>6, <2>1, <3>1
  <2>2. ASSUME NEW a \in tasks, NEW i \in 1..Len(a.failed), x \in a.failed[i].content,
               x \notin EpisodeTurns(t.failed)
        PROVE  x \in FailedTurns'
    <3>1. a # t
      BY <1>6, <2>2
    <3>. QED BY <1>1, <1>5, <2>2, <3>1
  <2>. QED BY <1>5, <2>1, <2>2
<1>8. EpisodeTurns(t.failed) \subseteq FailedTurns
  BY <1>1, <1>5, <1>6
<1>. QED BY <1>3, <1>7, <1>8

LEMMA QueueFailedHolds ==
  ASSUME MemoryInv, NEW t \in tasks, QueueFailed(t)
  PROVE  Holding'
<1> DEFINE n == [t EXCEPT !.failed = <<>>]
           ep == t.failed[1]
           D == DroppedBy(pending)
<1>1. TaskType(t) /\ t.failed # <<>> /\ ~retrying.active /\ Becomes(t, n)
  BY DEF MemoryInv, TypeOK, QueueFailed
<1>2. n.todo = t.todo /\ n.failed = <<>>
  BY <1>1 DEF TaskType
<1>3. /\ pending' = Enqueued(pending, ep)
      /\ dropped' = dropped \cup D
      /\ UNCHANGED <<sessions, retrying, archive, history, evicted, replaced, crashed>>
      /\ UNCHANGED <<BufferedTurns, ArchivedTurns>>
  BY DEF QueueFailed, BufferedTurns, TurnsOf, ArchivedTurns, EpisodeTurns
<1>. HIDE DEF n, D
<1>4. Relieved(t, n)
  BY <1>1, <1>2, <1>3, BecomesFacts DEF Relieved
<1>5. Len(t.failed) = 1 /\ 1 \in 1..Len(t.failed) /\ ep \in Episode
  <2>1. t.failed \in Seq(Episode) /\ Len(t.failed) <= 1
    BY <1>1 DEF TaskType, MemoryInv, HeldOnce
  <2>2. Len(t.failed) \in Nat /\ Len(t.failed) # 0
    BY <1>1, <2>1
  <2>3. Len(t.failed) = 1 /\ 1 \in 1..Len(t.failed)
    <3>1. \A k \in Nat : k # 0 /\ k <= 1 => k = 1 /\ 1 \in 1..k
      OBVIOUS
    <3>. QED BY <2>1, <2>2, <3>1
  <2>4. t.failed[1] \in Episode
    BY <2>1, <2>3
  <2>. QED BY <2>3, <2>4
<1>6. /\ Queue = pending /\ pending \in Seq(Episode)
      /\ QueuedTurns = EpisodeTurns(pending)
      /\ OncePerSession(pending)
      /\ \A i \in 1..Len(pending) : TellsItsTurns(history, evicted, pending[i])
      /\ \A i \in 1..Len(archive) : TellsItsTurns(history, evicted, archive[i])
      /\ TellsItsTurns(history, evicted, ep)
  BY <1>1, <1>5, QueueNow
<1>7. \A i \in 1..Len(pending) : pending[i].session_id # ep.session_id
  BY <1>5, <1>6, HoldersApart
<1>. HIDE DEF ep
<1>8. /\ OncePerSession(pending')
      /\ \A i \in 1..Len(pending') : TellsItsTurns(history, evicted, pending'[i])
      /\ EpisodeTurns(pending') = (EpisodeTurns(pending) \ D) \cup ep.content
      /\ D \subseteq EpisodeTurns(pending)
  <2>1. /\ OncePerSession(Enqueued(pending, ep))
        /\ \A i \in 1..Len(Enqueued(pending, ep)) :
             TellsItsTurns(history, evicted, Enqueued(pending, ep)[i])
        /\ EpisodeTurns(Enqueued(pending, ep))
             = (EpisodeTurns(pending) \ DroppedBy(pending)) \cup ep.content
        /\ DroppedBy(pending) \subseteq EpisodeTurns(pending)
    BY <1>6, <1>7, EnqueuedFacts
  <2>. QED BY <1>3, <2>1 DEF D
<1>9. Queue' = pending' /\ QueuedTurns' = EpisodeTurns(pending')
  <2>1. retrying.still = <<>>
    BY <1>1, QueueNow
  <2>2. pending' \in Seq(Episode)
    BY <1>3, <1>5, <1>6, EnqueuedType
  <2>3. \A q \in Seq(Episode) : <<>> \o q = q
    OBVIOUS
  <2>4. EpisodeTurns(<<>>) = {}
    BY DEF EpisodeTurns
  <2>. QED BY <1>3, <2>1, <2>2, <2>3, <2>4 DEF Queue, QueuedTurns
<1>10. EpisodeTurns(t.failed) = ep.content
  <2>1. 1..Len(t.failed) = {1}
    BY <1>5
  <2>. QED BY <2>1, InEpisodes DEF ep
<1>11. EpisodesTell' /\ HeldOnce' /\ SessionsAreNamed' /\ SessionsHold'
  <2>1. /\ SessionsAreNamed' /\ SessionsHold'
        /\ \A t1, t2 \in tasks' : \A c1 \in t1.todo, c2 \in t2.todo :
             c1.session.session_id = c2.session.session_id => t1 = t2 /\ c1 = c2
        /\ \A x \in tasks' : Len(x.failed) <= 1
        /\ \A t1, t2 \in tasks' :
             /\ t1.failed # <<>> /\ t2.failed # <<>>
             /\ t1.failed[1].session_id = t2.failed[1].session_id
             => t1 = t2
        /\ \A x \in tasks' : \A i \in 1..Len(x.failed) : TellsItsTurns(history, evicted, x.failed[i])
    BY <1>4, RelievedHolds
  <2>2. EpisodesTell'
    BY <1>3, <1>6, <1>8, <1>9, <2>1 DEF EpisodesTell
  <2>3. HeldOnce'
    BY <1>8, <1>9, <2>1 DEF HeldOnce, OncePerSession
  <2>. QED BY <2>1, <2>2, <2>3
<1>12. /\ ClosedTurns' = ClosedTurns
       /\ FailedTurns' = FailedTurns \ ep.content
       /\ ep.content \subseteq FailedTurns
  BY <1>4, <1>10, RelievedPlaces
<1>13. /\ QueuedTurns' = (QueuedTurns \ D) \cup ep.content
       /\ D \subseteq QueuedTurns
  BY <1>6, <1>8, <1>9
<1>14. EveryTurnInOnePlace'
  <2> DEFINE P1 == <<BufferedTurns, ClosedTurns, FailedTurns, QueuedTurns \ D, ArchivedTurns,
                     evicted, replaced, dropped', crashed>>
  <2>1. PICK P, Q : NineNow(P, Q)
    BY NineNowExist
  <2>2. IsNine(P1, BufferedTurns, ClosedTurns, FailedTurns, QueuedTurns \ D, ArchivedTurns,
               evicted, replaced, dropped', crashed)
    BY Nine
  <2>. HIDE DEF P1
  <2>3. OnePlace(P, 1..Len(history))
    BY <2>1 DEF NineNow, MemoryInv
  <2>4. Moved(P, P1, 4, 8, D)
    <3>1. \A i \in 1..9 : i # 4 /\ i # 8 => P1[i] = P[i]
      BY <2>1, <2>2, NineIndices, Zenon DEF NineNow, IsNine
    <3>. QED BY <1>3, <2>1, <2>2, <3>1, Zenon DEF Moved, NineNow, IsNine
  <2>5. Moved(P1, Q, 3, 4, ep.content)
    <3>1. \A i \in 1..9 : i # 3 /\ i # 4 => Q[i] = P1[i]
      BY <1>3, <1>12, <2>1, <2>2, NineIndices, Zenon DEF NineNow, IsNine
    <3>. QED BY <1>12, <1>13, <2>1, <2>2, <3>1, Zenon DEF Moved, NineNow, IsNine
  <2>6. 3 \in 1..9 /\ 4 \in 1..9 /\ 8 \in 1..9 /\ D \subseteq P[4] /\ ep.content \subseteq P1[3]
    BY <1>12, <1>13, <2>1, <2>2 DEF NineNow, IsNine
  <2>7. OnePlace(P1, 1..Len(history))
    BY <2>3, <2>4, <2>6, MovedOnePlace
  <2>8. OnePlace(Q, 1..Len(history))
    BY <2>5, <2>6, <2>7, MovedOnePlace
  <2>. QED BY <1>3, <2>1, <2>8 DEF NineNow
<1>. QED BY <1>11, <1>14 DEF Holding

-----------------------------------------------------------------------------
(* The retry.                                                              *)

LEMMA QueuedNext ==
  ASSUME TypeOK'
  PROVE  Queue' \in Seq(Episode) /\ QueuedTurns' = EpisodeTurns(Queue')
BY QueueFacts DEF TypeOK, Queue, QueuedTurns

LEMMA EmptyQueues ==
  ASSUME NEW q \in Seq(Episode)
  PROVE  <<>> \o q = q /\ q \o <<>> = q
OBVIOUS

LEMMA RequeuedQueue ==
  ASSUME NEW a \in Seq(Episode), NEW b \in Seq(Episode), b # <<>>
  PROVE  Append(a, Head(b)) \o Tail(b) = a \o b
<1> DEFINE l == Append(a, Head(b)) \o Tail(b)
           r == a \o b
<1>1. /\ Len(a) \in Nat /\ Len(b) \in Nat /\ Len(b) # 0
      /\ Head(b) = b[1] /\ Head(b) \in Episode /\ Tail(b) \in Seq(Episode)
      /\ Len(Tail(b)) = Len(b) - 1
      /\ \A i \in 1..(Len(b) - 1) : Tail(b)[i] = b[i + 1]
  OBVIOUS
<1>2. /\ Append(a, Head(b)) \in Seq(Episode) /\ Len(Append(a, Head(b))) = Len(a) + 1
      /\ Append(a, Head(b))[Len(a) + 1] = Head(b)
      /\ \A i \in 1..Len(a) : Append(a, Head(b))[i] = a[i]
  BY <1>1
<1>3. /\ l \in Seq(Episode) /\ Len(l) = Len(a) + Len(b)
      /\ \A i \in 1..(Len(a) + 1) : l[i] = Append(a, Head(b))[i]
      /\ \A i \in 1..(Len(b) - 1) : l[(Len(a) + 1) + i] = Tail(b)[i]
  BY <1>1, <1>2, QueueFacts
<1>4. /\ r \in Seq(Episode) /\ Len(r) = Len(a) + Len(b)
      /\ \A i \in 1..Len(a) : r[i] = a[i]
      /\ \A i \in 1..Len(b) : r[Len(a) + i] = b[i]
  BY QueueFacts
<1>. HIDE DEF l, r
<1>5. ASSUME NEW i \in 1..(Len(a) + Len(b)) PROVE l[i] = r[i]
  <2>1. CASE i \in 1..Len(a)
    <3>1. i \in 1..(Len(a) + 1)
      BY <1>1, <2>1
    <3>. QED BY <1>2, <1>3, <1>4, <2>1, <3>1
  <2>2. CASE i = Len(a) + 1
    <3>1. i \in 1..(Len(a) + 1) /\ 1 \in 1..Len(b)
      BY <1>1, <2>2
    <3>. QED BY <1>1, <1>2, <1>3, <1>4, <2>2, <3>1
  <2>3. CASE i > Len(a) + 1
    <3>1. /\ i - Len(a) - 1 \in 1..(Len(b) - 1)
          /\ (Len(a) + 1) + (i - Len(a) - 1) = i
          /\ (i - Len(a) - 1) + 1 \in 1..Len(b)
          /\ Len(a) + ((i - Len(a) - 1) + 1) = i
      BY <1>1, <2>3
    <3>2. l[i] = Tail(b)[i - Len(a) - 1]
      BY <1>3, <3>1
    <3>3. Tail(b)[i - Len(a) - 1] = b[(i - Len(a) - 1) + 1]
      BY <1>1, <3>1
    <3>4. r[i] = b[(i - Len(a) - 1) + 1]
      BY <1>4, <3>1
    <3>. QED BY <3>2, <3>3, <3>4
  <2>. QED BY <1>1, <2>1, <2>2, <2>3
<1>6. l = r
  BY <1>3, <1>4, <1>5
<1>. QED BY <1>6 DEF l, r

LEMMA ShorterQueue ==
  ASSUME NEW a \in Seq(Episode), NEW b \in Seq(Episode), b # <<>>
  PROVE  /\ IsWithout(a \o Tail(b), a \o b, Len(a) + 1)
         /\ (a \o b)[Len(a) + 1] = Head(b)
         /\ a \o Tail(b) \in Seq(Episode)
<1> DEFINE l == a \o Tail(b)
           r == a \o b
<1>1. /\ Len(a) \in Nat /\ Len(b) \in Nat /\ Len(b) # 0
      /\ Head(b) = b[1] /\ Tail(b) \in Seq(Episode)
      /\ Len(Tail(b)) = Len(b) - 1
      /\ \A i \in 1..(Len(b) - 1) : Tail(b)[i] = b[i + 1]
  OBVIOUS
<1>2. /\ l \in Seq(Episode) /\ Len(l) = Len(a) + (Len(b) - 1)
      /\ \A i \in 1..Len(a) : l[i] = a[i]
      /\ \A i \in 1..(Len(b) - 1) : l[Len(a) + i] = Tail(b)[i]
  BY <1>1, QueueFacts
<1>3. /\ r \in Seq(Episode) /\ Len(r) = Len(a) + Len(b)
      /\ \A i \in 1..Len(a) : r[i] = a[i]
      /\ \A i \in 1..Len(b) : r[Len(a) + i] = b[i]
  BY QueueFacts
<1>. HIDE DEF l, r
<1>4. ASSUME NEW i \in 1..Len(l) PROVE l[i] = IF i < Len(a) + 1 THEN r[i] ELSE r[i + 1]
  <2>1. CASE i \in 1..Len(a)
    BY <1>1, <1>2, <1>3, <2>1
  <2>2. CASE i > Len(a)
    <3>1. /\ i - Len(a) \in 1..(Len(b) - 1) /\ Len(a) + (i - Len(a)) = i
          /\ (i - Len(a)) + 1 \in 1..Len(b) /\ Len(a) + ((i - Len(a)) + 1) = i + 1
          /\ ~(i < Len(a) + 1)
      BY <1>1, <1>2, <2>2
    <3>2. l[i] = Tail(b)[i - Len(a)]
      BY <1>2, <3>1
    <3>3. Tail(b)[i - Len(a)] = b[(i - Len(a)) + 1]
      BY <1>1, <3>1
    <3>4. r[i + 1] = b[(i - Len(a)) + 1]
      BY <1>3, <3>1
    <3>. QED BY <3>1, <3>2, <3>3, <3>4
  <2>. QED BY <1>1, <2>1, <2>2
<1>5. Len(a) + 1 \in 1..Len(r) /\ Len(l) = Len(r) - 1 /\ 1 \in 1..Len(b)
  BY <1>1, <1>2, <1>3
<1>6. IsWithout(l, r, Len(a) + 1) /\ r[Len(a) + 1] = Head(b)
  BY <1>1, <1>3, <1>4, <1>5 DEF IsWithout
<1>. QED BY <1>2, <1>6 DEF l, r

LEMMA BeginRetryHolds ==
  ASSUME MemoryInv, TypeOK', NEW t \in tasks, BeginRetry(t)
  PROVE  Holding' /\ Queue' = Queue
<1>1. /\ Relieved(t, t)
      /\ t.failed = <<>>
      /\ ~retrying.active
      /\ retrying'.still = <<>>
      /\ UNCHANGED <<pending, archive, history, evicted, replaced, dropped, crashed>>
      /\ UNCHANGED <<BufferedTurns, ArchivedTurns>>
  BY DEF BeginRetry, Relieved, past, BufferedTurns, TurnsOf, ArchivedTurns, EpisodeTurns
<1>2. Queue' = Queue
  <2>1. Queue = pending /\ pending \in Seq(Episode)
    BY <1>1, QueueNow
  <2>. QED BY <1>1, <2>1, EmptyQueues DEF Queue
<1>3. QueuedTurns' = QueuedTurns
  <2>1. QueuedTurns = EpisodeTurns(Queue) /\ QueuedTurns' = EpisodeTurns(Queue')
    BY QueueNow, QueuedNext
  <2>. QED BY <1>2, <2>1
<1>4. ClosedTurns' = ClosedTurns /\ FailedTurns' = FailedTurns
  <2>1. EpisodeTurns(t.failed) = {}
    <3>1. \A i \in 1..Len(t.failed) : FALSE
      BY <1>1
    <3>. QED BY <3>1, InEpisodes
  <2>. QED BY <1>1, <2>1, RelievedPlaces
<1>5. /\ SessionsAreNamed' /\ SessionsHold'
      /\ \A t1, t2 \in tasks' : \A c1 \in t1.todo, c2 \in t2.todo :
           c1.session.session_id = c2.session.session_id => t1 = t2 /\ c1 = c2
      /\ \A x \in tasks' : Len(x.failed) <= 1
      /\ \A t1, t2 \in tasks' :
           /\ t1.failed # <<>> /\ t2.failed # <<>>
           /\ t1.failed[1].session_id = t2.failed[1].session_id
           => t1 = t2
      /\ \A x \in tasks' : \A i \in 1..Len(x.failed) : TellsItsTurns(history, evicted, x.failed[i])
  BY <1>1, RelievedHolds
<1>6. EpisodesTell'
  BY <1>1, <1>2, <1>5 DEF MemoryInv, EpisodesTell
<1>7. HeldOnce'
  BY <1>2, <1>5 DEF MemoryInv, HeldOnce
<1>8. EveryTurnInOnePlace'
  BY <1>1, <1>3, <1>4 DEF MemoryInv, EveryTurnInOnePlace, RecordedTurns
<1>. QED BY <1>2, <1>5, <1>6, <1>7, <1>8 DEF Holding

LEMMA SameQueueHolds ==
  ASSUME MemoryInv, TypeOK', Queue' = Queue,
         UNCHANGED <<sessions, tasks, archive, history, evicted, replaced, dropped, crashed>>
  PROVE  Holding'
<1>1. QueuedTurns' = QueuedTurns
  BY QueueNow, QueuedNext
<1>2. UNCHANGED <<BufferedTurns, ClosedTurns, FailedTurns, ArchivedTurns, RecordedTurns>>
  BY DEF BufferedTurns, TurnsOf, ClosedTurns, FailedTurns, ArchivedTurns, EpisodeTurns, RecordedTurns
<1>3. EveryTurnInOnePlace'
  BY <1>1, <1>2 DEF MemoryInv, EveryTurnInOnePlace
<1>4. SessionsAreNamed' /\ EpisodesTell' /\ HeldOnce'
  BY <1>2 DEF MemoryInv, SessionsAreNamed, EpisodesTell, HeldOnce
<1>5. SessionsHold'
  <2>1. Active' = Active
    BY DEF Active
  <2>. QED BY <2>1 DEF MemoryInv, SessionsHold
<1>. QED BY <1>3, <1>4, <1>5 DEF Holding

LEMMA RetryFailsHolds ==
  ASSUME MemoryInv, TypeOK', RetryFails
  PROVE  Holding' /\ Queue' = Queue
<1>1. /\ pending # <<>>
      /\ pending' = Tail(pending)
      /\ retrying' = [retrying EXCEPT !.still = Append(@, Head(pending))]
      /\ UNCHANGED <<sessions, tasks, archive, history, evicted, replaced, dropped, crashed>>
  BY DEF RetryFails, past
<1>2. retrying \in [active : BOOLEAN, still : Seq(Episode)] /\ pending \in Seq(Episode)
  BY DEF MemoryInv, TypeOK
<1>3. retrying'.still = Append(retrying.still, Head(pending)) /\ retrying.still \in Seq(Episode)
  BY <1>1, <1>2
<1>4. Append(retrying.still, Head(pending)) \o Tail(pending) = retrying.still \o pending
  BY <1>1, <1>2, <1>3, RequeuedQueue
<1>5. Queue' = Queue
  BY <1>1, <1>3, <1>4 DEF Queue
<1>. QED BY <1>1, <1>5, SameQueueHolds

LEMMA EndRetryHolds ==
  ASSUME MemoryInv, TypeOK', EndRetry
  PROVE  Holding' /\ Queue' = Queue
<1>1. /\ pending = <<>>
      /\ pending' = retrying.still
      /\ retrying'.still = <<>>
      /\ UNCHANGED <<sessions, tasks, archive, history, evicted, replaced, dropped, crashed>>
  BY DEF EndRetry, past, Idle
<1>2. retrying.still \in Seq(Episode)
  BY DEF MemoryInv, TypeOK
<1>3. Queue' = Queue
  BY <1>1, <1>2, EmptyQueues DEF Queue
<1>. QED BY <1>1, <1>3, SameQueueHolds

LEMMA RetryPersistsHolds ==
  ASSUME MemoryInv, TypeOK', RetryPersists
  PROVE  /\ Holding'
         /\ IsWithout(Queue', Queue, Len(retrying.still) + 1)
         /\ archive' = Append(archive, Queue[Len(retrying.still) + 1])
<1> DEFINE k == Len(retrying.still) + 1
           ep == Queue[k]
<1>1. /\ pending # <<>>
      /\ archive' = Append(archive, Head(pending))
      /\ pending' = Tail(pending)
      /\ UNCHANGED <<sessions, tasks, retrying, history, evicted, replaced, dropped, crashed>>
  BY DEF RetryPersists, past
<1>2. /\ OncePerSession(Queue)
      /\ Queue \in Seq(Episode) /\ pending \in Seq(Episode) /\ retrying.still \in Seq(Episode)
      /\ archive \in Seq(Episode)
      /\ QueuedTurns = EpisodeTurns(Queue)
      /\ \A i \in 1..Len(Queue) : TellsItsTurns(history, evicted, Queue[i])
      /\ \A i \in 1..Len(archive) : TellsItsTurns(history, evicted, archive[i])
      /\ \A t \in tasks : \A i \in 1..Len(t.failed) : TellsItsTurns(history, evicted, t.failed[i])
  BY QueueNow
<1>3. IsWithout(Queue', Queue, k) /\ ep = Head(pending)
  BY <1>1, <1>2, ShorterQueue DEF Queue
<1>. HIDE DEF k
<1>4. k \in 1..Len(Queue) /\ Len(Queue) \in Nat
  BY <1>2, <1>3 DEF IsWithout
<1>5. TellsItsTurns(history, evicted, ep)
  BY <1>2, <1>4
<1>6. /\ OncePerSession(Queue')
      /\ \A i \in 1..Len(Queue') : \E m \in 1..Len(Queue) : Queue'[i] = Queue[m]
  BY <1>2, <1>3, <1>4, WithoutFacts
<1>7. QueuedTurns' = QueuedTurns \ ep.content /\ ep.content \subseteq QueuedTurns
  <2>1. \A i, j \in 1..Len(Queue) : i # j => Queue[i].content \cap Queue[j].content = {}
    BY <1>2, ContentsApart
  <2>2. /\ EpisodeTurns(Queue') = EpisodeTurns(Queue) \ Queue[k].content
        /\ Queue[k].content \subseteq EpisodeTurns(Queue)
    BY <1>3, <1>4, <2>1, WithoutTurns
  <2>. QED BY <1>2, <2>2, QueuedNext
<1>. HIDE DEF ep
<1>8. ArchivedTurns' = ArchivedTurns \cup ep.content
  BY <1>1, <1>2, <1>3, PlacesAre, AppendedTurns
<1>9. UNCHANGED <<BufferedTurns, ClosedTurns, FailedTurns, RecordedTurns>>
  BY <1>1 DEF BufferedTurns, TurnsOf, ClosedTurns, FailedTurns, EpisodeTurns, RecordedTurns
<1>10. EpisodesTell'
  <2>1. \A i \in 1..Len(archive') : (i \in 1..Len(archive) /\ archive'[i] = archive[i]) \/ archive'[i] = ep
    BY <1>1, <1>2, <1>3
  <2>2. \A i \in 1..Len(archive') : TellsItsTurns(history, evicted, archive'[i])
    BY <1>2, <1>5, <2>1
  <2>3. \A i \in 1..Len(Queue') : TellsItsTurns(history, evicted, Queue'[i])
    BY <1>2, <1>6
  <2>. QED BY <1>1, <1>2, <2>2, <2>3 DEF EpisodesTell
<1>11. HeldOnce'
  <2>1. HeldOnce
    BY DEF MemoryInv
  <2>. QED BY <1>1, <1>6, <2>1 DEF HeldOnce, OncePerSession
<1>12. SessionsAreNamed' /\ SessionsHold'
  <2>1. Active' = Active
    BY <1>1 DEF Active
  <2>. QED BY <1>1, <1>9, <2>1 DEF MemoryInv, SessionsHold, SessionsAreNamed
<1>13. EveryTurnInOnePlace'
  <2>1. PICK P, Q : NineNow(P, Q)
    BY NineNowExist
  <2>2. OnePlace(P, 1..Len(history))
    BY <2>1 DEF NineNow, MemoryInv
  <2>3. Moved(P, Q, 4, 5, ep.content)
    <3>1. \A i \in 1..9 : i # 4 /\ i # 5 => Q[i] = P[i]
      BY <1>1, <1>9, <2>1, NineIndices, Zenon DEF NineNow, IsNine
    <3>. QED BY <1>7, <1>8, <2>1, <3>1, Zenon DEF Moved, NineNow, IsNine
  <2>4. 4 \in 1..9 /\ 5 \in 1..9 /\ ep.content \subseteq P[4]
    BY <1>7, <2>1 DEF NineNow, IsNine
  <2>5. OnePlace(Q, 1..Len(history))
    BY <2>2, <2>3, <2>4, MovedOnePlace
  <2>. QED BY <1>1, <2>1, <2>5 DEF NineNow
<1>14. Holding'
  BY <1>10, <1>11, <1>12, <1>13 DEF Holding
<1>. QED BY <1>1, <1>3, <1>14 DEF ep, k

-----------------------------------------------------------------------------
(* A crash.                                                                *)

LEMMA CrashHolds ==
  ASSUME MemoryInv, Crash
  PROVE  Holding'
<1>1. /\ sessions' = [u \in Users |-> NoSession] /\ tasks' = {} /\ pending' = <<>>
      /\ retrying'.still = <<>>
      /\ crashed' = crashed \cup BufferedTurns \cup ClosedTurns \cup FailedTurns \cup QueuedTurns
      /\ UNCHANGED <<archive, history, evicted, replaced, dropped>>
  BY DEF Crash, Idle
<1>2. Queue' = <<>> /\ Len(Queue') = 0
  BY <1>1 DEF Queue
<1>3. /\ BufferedTurns' = {} /\ ClosedTurns' = {} /\ FailedTurns' = {} /\ QueuedTurns' = {}
      /\ UNCHANGED <<ArchivedTurns, RecordedTurns>>
  BY <1>1 DEF BufferedTurns, TurnsOf, ClosedTurns, FailedTurns, QueuedTurns, EpisodeTurns,
              ArchivedTurns, RecordedTurns
<1>4. SessionsHold'
  <2>1. Active' = {}
    BY <1>1 DEF Active
  <2>. QED BY <1>1, <2>1 DEF SessionsHold
<1>5. EpisodesTell' /\ HeldOnce' /\ SessionsAreNamed'
  <2>1. \A i \in 1..Len(Queue') : FALSE
    BY <1>2
  <2>. QED BY <1>1, <1>3, <2>1 DEF MemoryInv, EpisodesTell, HeldOnce, SessionsAreNamed
<1>6. EveryTurnInOnePlace'
  <2> DEFINE C1 == crashed \cup BufferedTurns
             C2 == C1 \cup ClosedTurns
             C3 == C2 \cup FailedTurns
             P1 == <<{}, ClosedTurns, FailedTurns, QueuedTurns, ArchivedTurns,
                     evicted, replaced, dropped, C1>>
             P2 == <<{}, {}, FailedTurns, QueuedTurns, ArchivedTurns,
                     evicted, replaced, dropped, C2>>
             P3 == <<{}, {}, {}, QueuedTurns, ArchivedTurns,
                     evicted, replaced, dropped, C3>>
  <2>1. PICK P, Q : NineNow(P, Q)
    BY NineNowExist
  <2>2. /\ C1 = crashed \cup BufferedTurns
        /\ C2 = C1 \cup ClosedTurns
        /\ C3 = C2 \cup FailedTurns
        /\ crashed' = C3 \cup QueuedTurns
    BY <1>1
  <2>. HIDE DEF C1, C2, C3
  <2>3. /\ IsNine(P1, {}, ClosedTurns, FailedTurns, QueuedTurns, ArchivedTurns,
                  evicted, replaced, dropped, C1)
        /\ IsNine(P2, {}, {}, FailedTurns, QueuedTurns, ArchivedTurns,
                  evicted, replaced, dropped, C2)
        /\ IsNine(P3, {}, {}, {}, QueuedTurns, ArchivedTurns,
                  evicted, replaced, dropped, C3)
    BY Nine
  <2>. HIDE DEF P1, P2, P3
  <2>4. OnePlace(P, 1..Len(history))
    BY <2>1 DEF NineNow, MemoryInv
  <2>5. \A S : S \ S = {}
    OBVIOUS
  <2>6. Moved(P, P1, 1, 9, BufferedTurns)
    <3>1. \A i \in 1..9 : i # 1 /\ i # 9 => P1[i] = P[i]
      BY <2>1, <2>3, NineIndices, Zenon DEF NineNow, IsNine
    <3>. QED BY <2>1, <2>2, <2>3, <2>5, <3>1, Zenon DEF Moved, NineNow, IsNine
  <2>7. Moved(P1, P2, 2, 9, ClosedTurns)
    <3>1. \A i \in 1..9 : i # 2 /\ i # 9 => P2[i] = P1[i]
      BY <2>3, NineIndices, Zenon DEF IsNine
    <3>. QED BY <2>2, <2>3, <2>5, <3>1, Zenon DEF Moved, IsNine
  <2>8. Moved(P2, P3, 3, 9, FailedTurns)
    <3>1. \A i \in 1..9 : i # 3 /\ i # 9 => P3[i] = P2[i]
      BY <2>3, NineIndices, Zenon DEF IsNine
    <3>. QED BY <2>2, <2>3, <2>5, <3>1, Zenon DEF Moved, IsNine
  <2>9. Moved(P3, Q, 4, 9, QueuedTurns)
    <3>1. \A i \in 1..9 : i # 4 /\ i # 9 => Q[i] = P3[i]
      BY <1>1, <1>3, <2>1, <2>3, NineIndices, Zenon DEF NineNow, IsNine
    <3>. QED BY <1>3, <2>1, <2>2, <2>3, <2>5, <3>1, Zenon DEF Moved, NineNow, IsNine
  <2>10. /\ 1 \in 1..9 /\ 2 \in 1..9 /\ 3 \in 1..9 /\ 4 \in 1..9 /\ 9 \in 1..9
         /\ BufferedTurns \subseteq P[1] /\ ClosedTurns \subseteq P1[2]
         /\ FailedTurns \subseteq P2[3] /\ QueuedTurns \subseteq P3[4]
    BY <2>1, <2>3 DEF NineNow, IsNine
  <2>11. OnePlace(P1, 1..Len(history))
    BY <2>4, <2>6, <2>10, MovedOnePlace
  <2>12. OnePlace(P2, 1..Len(history))
    BY <2>7, <2>10, <2>11, MovedOnePlace
  <2>13. OnePlace(P3, 1..Len(history))
    BY <2>8, <2>10, <2>12, MovedOnePlace
  <2>14. OnePlace(Q, 1..Len(history))
    BY <2>9, <2>10, <2>13, MovedOnePlace
  <2>. QED BY <1>1, <2>1, <2>14 DEF NineNow
<1>. QED BY <1>4, <1>5, <1>6 DEF Holding

-----------------------------------------------------------------------------
(* The invariant of the memory.                                            *)

LEMMA InitMemoryInv == Init => MemoryInv
<1> SUFFICES ASSUME Init PROVE MemoryInv
  OBVIOUS
<1>1. TypeOK
  BY InitTypeOK
<1>2. /\ Queue = <<>> /\ Len(Queue) = 0 /\ Len(archive) = 0 /\ Len(history) = 0
      /\ tasks = {} /\ Active = {}
  BY DEF Init, Queue, Idle, Active
<1>3. RecordedTurns = {} /\ \A i \in 1..0 : FALSE
  BY <1>2 DEF RecordedTurns
<1>4. SessionsAreNamed /\ SessionsHold /\ EpisodesTell /\ HeldOnce
  BY <1>2, <1>3 DEF SessionsAreNamed, SessionsHold, EpisodesTell, HeldOnce
<1>5. QueueInv
  BY <1>2, PendingAssumption DEF Init, Idle, QueueInv, QueueBounded
<1>6. EveryTurnInOnePlace
  <2>1. /\ BufferedTurns = {} /\ ClosedTurns = {} /\ FailedTurns = {} /\ QueuedTurns = {}
        /\ ArchivedTurns = {} /\ evicted = {} /\ replaced = {} /\ dropped = {} /\ crashed = {}
    BY DEF Init, Idle, BufferedTurns, TurnsOf, ClosedTurns, FailedTurns, QueuedTurns,
           ArchivedTurns, EpisodeTurns
  <2>2. OnePlace(<<{}, {}, {}, {}, {}, {}, {}, {}, {}>>, {})
    <3> DEFINE p == <<{}, {}, {}, {}, {}, {}, {}, {}, {}>>
    <3>1. \A i \in 1..9 : p[i] = {}
      OBVIOUS
    <3>. QED BY <3>1 DEF OnePlace
  <2>. QED BY <1>3, <2>1, <2>2, OnePlaceNow DEF RecordedTurns
<1>. QED BY <1>1, <1>4, <1>5, <1>6 DEF MemoryInv

LEMMA NextMemoryInv == MemoryInv /\ [Next]_vars => MemoryInv'
<1> SUFFICES ASSUME MemoryInv, [Next]_vars PROVE MemoryInv'
  OBVIOUS
<1>1. TypeOK' /\ QueueInv'
  BY NextTypeOK, NextQueueInv DEF MemoryInv
<1> SUFFICES Holding'
  BY <1>1 DEF Holding, MemoryInv
<1>2. ASSUME NEW u \in Users, NEW c \in Contents, RecordTurn(u, c) PROVE Holding'
  BY <1>1, <1>2, RecordTurnFacts, RecordTurnHolds, RecordTurnPlaces DEF Holding
<1>3. ASSUME NEW r \in recording, CheckSummarization(r) PROVE Holding'
  BY <1>1, <1>3, SameQueueHolds DEF CheckSummarization, past, Queue
<1>4. ASSUME NEW job \in jobs, SummaryStep(job) PROVE Holding'
  <2>1. ASSUME NEW size \in SummarySizes, SummaryArrives(job, size) PROVE Holding'
    BY <2>1, SummaryArrivesHolds
  <2>2. CASE SummaryFails(job)
    BY <1>1, <2>2, SameQueueHolds DEF SummaryFails, past, Queue
  <2>. QED BY <1>4, <2>1, <2>2 DEF SummaryStep
<1>5. ASSUME NEW gone, NEW retry, Closes(gone, retry) PROVE Holding'
  BY <1>5, ClosesHolds, ClosesPlaces DEF Holding
<1>6. ASSUME NEW u \in Users, ResetConversation(u) PROVE Holding'
  BY <1>5, <1>6, ResetCloses
<1>7. CASE Sweep
  BY <1>5, <1>7, SweepCloses
<1>8. ASSUME NEW t \in tasks, TaskStep(t) PROVE Holding'
  <2>1. ASSUME NEW c \in t.todo, SkipEmpty(t, c) PROVE Holding'
    BY <2>1, NeverEmpty DEF SkipEmpty
  <2>2. ASSUME NEW c \in t.todo, FlushPersists(t, c) PROVE Holding'
    BY <2>2, FlushPersistsHolds
  <2>3. ASSUME NEW c \in t.todo, FlushFails(t, c) PROVE Holding'
    BY <2>3, FlushFailsHolds
  <2>4. CASE QueueFailed(t)
    BY <2>4, QueueFailedHolds
  <2>5. CASE BeginRetry(t)
    BY <1>1, <2>5, BeginRetryHolds
  <2>. QED BY <1>8, <2>1, <2>2, <2>3, <2>4, <2>5 DEF TaskStep
<1>9. CASE RetryStep
  BY <1>1, <1>9, RetryPersistsHolds, RetryFailsHolds, EndRetryHolds DEF RetryStep
<1>10. CASE Tick
  BY <1>1, <1>10, SameQueueHolds DEF Tick, memory, past, Queue
<1>11. CASE Crash
  BY <1>11, CrashHolds
<1>12. CASE UNCHANGED vars
  BY <1>1, <1>12, SameQueueHolds DEF vars, Queue
<1>. QED BY <1>2, <1>3, <1>4, <1>6, <1>7, <1>8, <1>9, <1>10, <1>11, <1>12 DEF Next

LEMMA MemoryInvariant == Spec => []MemoryInv
BY InitMemoryInv, NextMemoryInv, PTL DEF Spec

\* What the memory and the tasks hold, session by session.
LEMMA HeldSessions ==
  ASSUME MemoryInv, NEW c \in LiveSessions \cup ClosedSessions
  PROVE  HoldsItsTurns(history, evicted, c.user_id, c.session)
<1>1. CASE c \in LiveSessions
  <2>1. PICK u \in Active : c = [user_id |-> u, session |-> sessions[u]]
    BY <1>1 DEF LiveSessions
  <2>2. c.user_id = u /\ c.session = sessions[u]
    BY <2>1
  <2>. QED BY <2>2 DEF MemoryInv, SessionsHold
<1>2. CASE c \in ClosedSessions
  BY <1>2 DEF ClosedSessions, MemoryInv, SessionsHold
<1>. QED BY <1>1, <1>2

\* Every recorded turn is in exactly one place, whatever the buffer evicts or
\* replaces, the tasks flush, the queue drops or the process loses (buffer.rs
\* push and install_summary, main.rs sweep, engram_flush.rs).
THEOREM TurnsAreInOnePlace == Spec => []EveryTurnInOnePlace
<1>1. MemoryInv => EveryTurnInOnePlace
  BY DEF MemoryInv
<1>. QED BY <1>1, MemoryInvariant, PTL

\* A session, live or closed, holds turns of its own user and of its own
\* lifetime only (buffer.rs close_session, push, install_summary).
THEOREM SessionsStayApart == Spec => []SessionsNeverMix
<1>1. ASSUME MemoryInv PROVE SessionsNeverMix
  <2>1. ASSUME NEW c \in LiveSessions \cup ClosedSessions, NEW id \in TurnsIn(c.session)
        PROVE  history[id].user_id = c.user_id /\ history[id].session_id = c.session.session_id
    <3>1. HoldsOnly(history, evicted, c.user_id, c.session)
      BY <1>1, HeldSessions DEF HoldsItsTurns
    <3>. QED BY <2>1, <3>1 DEF HoldsOnly, Mine
  <2>. QED BY <2>1 DEF SessionsNeverMix
<1>. QED BY <1>1, MemoryInvariant, PTL

\* Summaries stay a prefix of their session, in the order of its turns,
\* whatever the order in which the model answers (buffer.rs:62).
THEOREM SummariesComeFirst == Spec => []SummariesPrecedeTurns
<1>1. ASSUME MemoryInv PROVE SummariesPrecedeTurns
  <2>1. \A c \in LiveSessions \cup ClosedSessions : InOrder(c.session)
    BY <1>1, HeldSessions DEF HoldsItsTurns, HoldsOnly
  <2>. QED BY <2>1 DEF SummariesPrecedeTurns, InOrder
<1>. QED BY <1>1, MemoryInvariant, PTL

\* A summary was computed from the contents and times of the turns it replaced
\* (the identity fence of install_summary, buffer.rs:289).
THEOREM SummariesAreTrue == Spec => []SummariesTellTheirTurns
<1>1. ASSUME MemoryInv PROVE SummariesTellTheirTurns
  <2>1. \A c \in LiveSessions \cup ClosedSessions : BlocksTell(history, c.session)
    BY <1>1, HeldSessions DEF HoldsItsTurns, HoldsOnly
  <2>. QED BY <2>1 DEF SummariesTellTheirTurns, BlocksTell, SameTurn
<1>. QED BY <1>1, MemoryInvariant, PTL

\* An episode, queued or archived, counts the turns of its session but those
\* the eviction loop dropped, summarised turns included (engram_flush.rs:54).
THEOREM EpisodesCountTurns == Spec => []EpisodesCountTheirTurns
<1>1. ASSUME MemoryInv PROVE EpisodesCountTheirTurns
  <2> DEFINE eps == Queue \o archive
  <2>1. /\ Queue \in Seq(Episode) /\ archive \in Seq(Episode)
        /\ \A i \in 1..Len(Queue) : TellsItsTurns(history, evicted, Queue[i])
        /\ \A i \in 1..Len(archive) : TellsItsTurns(history, evicted, archive[i])
    BY <1>1, QueueNow
  <2>2. /\ Len(eps) = Len(Queue) + Len(archive) /\ Len(Queue) \in Nat /\ Len(archive) \in Nat
        /\ \A i \in 1..Len(Queue) : eps[i] = Queue[i]
        /\ \A i \in 1..Len(archive) : eps[Len(Queue) + i] = archive[i]
    BY <2>1, QueueFacts
  <2>. HIDE DEF eps
  <2>3. ASSUME NEW i \in 1..Len(eps) PROVE TellsItsTurns(history, evicted, eps[i])
    <3>1. CASE i \in 1..Len(Queue)
      BY <2>1, <2>2, <3>1
    <3>2. CASE i \notin 1..Len(Queue)
      <4>1. i - Len(Queue) \in 1..Len(archive) /\ Len(Queue) + (i - Len(Queue)) = i
        BY <2>2, <3>2
      <4>2. eps[i] = archive[i - Len(Queue)]
        BY <2>2, <4>1
      <4>. QED BY <2>1, <4>1, <4>2
    <3>. QED BY <3>1, <3>2
  <2>4. ASSUME NEW i \in 1..Len(eps)
        PROVE  eps[i].turn_count
                 = Cardinality({id \in RecordedTurns : history[id].session_id = eps[i].session_id}
                                 \ evicted)
    <3>1. {id \in RecordedTurns : history[id].session_id = eps[i].session_id}
            = Mine(history, eps[i].session_id)
      BY DEF RecordedTurns, Mine
    <3>. QED BY <2>3, <3>1 DEF TellsItsTurns
  <2>. QED BY <2>4 DEF EpisodesCountTheirTurns, eps
<1>. QED BY <1>1, MemoryInvariant, PTL

-----------------------------------------------------------------------------
(* Silence.                                                                *)

SilenceInv == MemoryInv /\ LatestTurnsAreTimed /\ NoSilenceInsideASession

\* The turn before turn j in its session is less than a timeout older.
FollowsSoon(h, i, j) ==
  \E k \in i..(j - 1) :
    /\ h[k].session_id = h[j].session_id
    /\ h[j].timestamp - h[k].timestamp < SessionTimeout
    /\ \A m \in (k + 1)..(j - 1) : h[m].session_id # h[j].session_id

LEMMA SilenceMeans ==
  /\ NoSilenceInsideASession <=>
       \A i, j \in 1..Len(history) :
         i < j /\ history[i].session_id = history[j].session_id => FollowsSoon(history, i, j)
  /\ NoSilenceInsideASession' <=>
       \A i, j \in 1..Len(history') :
         i < j /\ history'[i].session_id = history'[j].session_id => FollowsSoon(history', i, j)
BY DEF NoSilenceInsideASession, RecordedTurns, FollowsSoon

LEMMA RecordTurnSilence ==
  ASSUME SilenceInv, NEW u \in Users, NEW rec \in Recorded, NEW p, NEW X, NEW R,
         Records(u, rec, p, X, R)
  PROVE  LatestTurnsAreTimed' /\ NoSilenceInsideASession'
<1> DEFINE N == Len(history)
<1>1. /\ history \in Seq(Recorded) /\ N \in Nat
      /\ sessions \in [Users -> SessionState \cup {NoSession}]
      /\ MemoryInv
  BY NoTurnYet DEF SilenceInv, MemoryInv, TypeOK
<1>2. /\ history' = Append(history, rec)
      /\ sessions' = [sessions EXCEPT ![u] = p]
      /\ p \in SessionState /\ p.session_id = rec.session_id
      /\ p.last_activity = rec.timestamp /\ rec.timestamp = now
      /\ \/ rec.session_id = N + 1
         \/ /\ u \in Active
            /\ rec.session_id = sessions[u].session_id
            /\ now - sessions[u].last_activity < SessionTimeout
  BY DEF Records
<1>3. /\ Len(history') = N + 1 /\ history'[N + 1] = rec
      /\ \A i \in 1..N : history'[i] = history[i]
  BY <1>1, <1>2
<1>4. \A i \in 1..N : history[i].session_id \in 1..i
  BY <1>1 DEF MemoryInv, SessionsAreNamed, RecordedTurns
<1>. HIDE DEF N
<1>5. \A w \in Active : \E k \in 1..N :
        /\ history[k].session_id = sessions[w].session_id
        /\ history[k].timestamp = sessions[w].last_activity
        /\ \A m \in 1..N : m > k => history[m].session_id # sessions[w].session_id
  BY DEF SilenceInv, LatestTurnsAreTimed, RecordedTurns, N
<1>6. LatestTurnsAreTimed'
  <2>1. ASSUME NEW w \in Active'
        PROVE  \E k \in 1..(N + 1) :
                 /\ history'[k].session_id = sessions'[w].session_id
                 /\ history'[k].timestamp = sessions'[w].last_activity
                 /\ \A m \in 1..(N + 1) : m > k => history'[m].session_id # sessions'[w].session_id
    <3>1. CASE w = u
      <4>1. sessions'[w] = p
        BY <1>1, <1>2, <2>1, <3>1 DEF Active
      <4>2. N + 1 \in 1..(N + 1) /\ \A m \in 1..(N + 1) : ~(m > N + 1)
        BY <1>1
      <4>. QED BY <1>2, <1>3, <4>1, <4>2
    <3>2. CASE w # u
      <4>1. w \in Active /\ sessions'[w] = sessions[w]
        BY <1>1, <1>2, <2>1, <3>2 DEF Active
      <4>2. PICK k \in 1..N :
              /\ history[k].session_id = sessions[w].session_id
              /\ history[k].timestamp = sessions[w].last_activity
              /\ \A m \in 1..N : m > k => history[m].session_id # sessions[w].session_id
        BY <1>5, <4>1
      <4>3. rec.session_id # sessions[w].session_id
        <5>1. CASE rec.session_id = N + 1
          <6>1. history[k].session_id \in 1..k
            BY <1>4
          <6>. QED BY <1>1, <4>2, <5>1, <6>1
        <5>2. CASE u \in Active /\ rec.session_id = sessions[u].session_id
          BY <1>1, <3>2, <4>1, <5>2, HoldersApart
        <5>. QED BY <1>2, <5>1, <5>2
      <4>4. k \in 1..(N + 1) /\ \A m \in 1..(N + 1) : m \in 1..N \/ m = N + 1
        BY <1>1
      <4>5. \A m \in 1..(N + 1) : m > k => history'[m].session_id # sessions[w].session_id
        BY <1>3, <4>2, <4>3, <4>4
      <4>. QED BY <1>3, <4>1, <4>2, <4>4, <4>5
    <3>. QED BY <3>1, <3>2
  <2>. QED BY <1>3, <2>1 DEF LatestTurnsAreTimed, RecordedTurns
<1>7. ASSUME NEW i \in 1..(N + 1), NEW j \in 1..(N + 1), i < j,
             history'[i].session_id = history'[j].session_id
      PROVE  FollowsSoon(history', i, j)
  <2>1. i \in 1..N
    BY <1>1, <1>7
  <2>2. CASE j \in 1..N
    <3>1. FollowsSoon(history, i, j)
      BY <1>3, <1>7, <2>1, <2>2, SilenceMeans DEF SilenceInv, N
    <3>2. PICK k \in i..(j - 1) :
            /\ history[k].session_id = history[j].session_id
            /\ history[j].timestamp - history[k].timestamp < SessionTimeout
            /\ \A m \in (k + 1)..(j - 1) : history[m].session_id # history[j].session_id
      BY <3>1 DEF FollowsSoon
    <3>3. k \in 1..N /\ \A m \in (k + 1)..(j - 1) : m \in 1..N
      BY <1>1, <2>1, <2>2, <3>2
    <3>. QED BY <1>3, <2>2, <3>2, <3>3 DEF FollowsSoon
  <2>3. CASE j = N + 1
    <3>1. history[i].session_id = rec.session_id
      BY <1>3, <1>7, <2>1, <2>3
    <3>2. rec.session_id # N + 1
      <4>1. history[i].session_id \in 1..i
        BY <1>4, <2>1
      <4>. QED BY <1>1, <2>1, <3>1, <4>1
    <3>3. /\ u \in Active /\ rec.session_id = sessions[u].session_id
          /\ now - sessions[u].last_activity < SessionTimeout
      BY <1>2, <3>2
    <3>4. PICK k \in 1..N :
            /\ history[k].session_id = sessions[u].session_id
            /\ history[k].timestamp = sessions[u].last_activity
            /\ \A m \in 1..N : m > k => history[m].session_id # sessions[u].session_id
      BY <1>5, <3>3
    <3>5. k \in i..(j - 1)
      BY <1>1, <2>1, <2>3, <3>1, <3>3, <3>4
    <3>6. \A m \in (k + 1)..(j - 1) : m \in 1..N /\ m > k
      BY <1>1, <2>3
    <3>7. \A m \in (k + 1)..(j - 1) : history'[m].session_id # rec.session_id
      BY <1>3, <3>3, <3>4, <3>6
    <3>8. /\ history'[k].session_id = rec.session_id
          /\ rec.timestamp - history'[k].timestamp < SessionTimeout
      BY <1>2, <1>3, <3>3, <3>4
    <3>. QED BY <1>3, <2>3, <3>5, <3>7, <3>8 DEF FollowsSoon
  <2>. QED BY <1>1, <2>2, <2>3
<1>. QED BY <1>3, <1>6, <1>7, SilenceMeans

\* The sessions that live on keep their name and their time.
LEMMA SameSilence ==
  ASSUME SilenceInv, UNCHANGED history,
         \A u \in Active' : /\ u \in Active
                            /\ sessions'[u].session_id = sessions[u].session_id
                            /\ sessions'[u].last_activity = sessions[u].last_activity
  PROVE  LatestTurnsAreTimed' /\ NoSilenceInsideASession'
<1>1. LatestTurnsAreTimed'
  BY DEF SilenceInv, LatestTurnsAreTimed, RecordedTurns
<1>2. NoSilenceInsideASession'
  BY DEF SilenceInv, NoSilenceInsideASession, RecordedTurns
<1>. QED BY <1>1, <1>2

LEMMA NextSilence == SilenceInv /\ [Next]_vars => SilenceInv'
<1> SUFFICES ASSUME SilenceInv, [Next]_vars PROVE SilenceInv'
  OBVIOUS
<1>1. MemoryInv /\ MemoryInv' /\ sessions \in [Users -> SessionState \cup {NoSession}]
  BY NextMemoryInv DEF SilenceInv, MemoryInv, TypeOK
<1> SUFFICES LatestTurnsAreTimed' /\ NoSilenceInsideASession'
  BY <1>1 DEF SilenceInv
<1>2. ASSUME NEW u \in Users, NEW c \in Contents, RecordTurn(u, c)
      PROVE  LatestTurnsAreTimed' /\ NoSilenceInsideASession'
  BY <1>1, <1>2, RecordTurnFacts, RecordTurnSilence
<1>3. ASSUME UNCHANGED <<history, sessions>>
      PROVE  LatestTurnsAreTimed' /\ NoSilenceInsideASession'
  BY <1>3, SameSilence DEF Active
<1>4. ASSUME UNCHANGED history, NEW gone,
             sessions' = [u \in Users |-> IF u \in gone THEN NoSession ELSE sessions[u]]
      PROVE  LatestTurnsAreTimed' /\ NoSilenceInsideASession'
  <2>1. \A u \in Active' : u \in Active /\ sessions'[u] = sessions[u]
    BY <1>4 DEF Active
  <2>. QED BY <1>4, <2>1, SameSilence
<1>5. ASSUME NEW job \in jobs, NEW size \in SummarySizes, SummaryArrives(job, size)
      PROVE  LatestTurnsAreTimed' /\ NoSilenceInsideASession'
  <2> DEFINE u == job.user_id
             s == sessions[u]
  <2>1. UNCHANGED history /\ u \in Users
    BY <1>1, <1>5 DEF SummaryArrives, past, MemoryInv, TypeOK, JobType
  <2>2. CASE sessions' = sessions
    BY <1>3, <2>1, <2>2
  <2>3. CASE s # NoSession /\ sessions' = [sessions EXCEPT ![u] = Installed(s, job, size)]
    <3>1. s \in SessionState
      BY <1>1, <2>1, <2>3
    <3>2. /\ Installed(s, job, size).session_id = s.session_id
          /\ Installed(s, job, size).last_activity = s.last_activity
      BY <3>1 DEF Installed, WithoutOldest, SessionState
    <3>3. \A w \in Active' : /\ w \in Active
                             /\ sessions'[w].session_id = sessions[w].session_id
                             /\ sessions'[w].last_activity = sessions[w].last_activity
      <4>1. \A w \in Users : w # u => sessions'[w] = sessions[w]
        BY <1>1, <2>3
      <4>2. sessions'[u] = Installed(s, job, size)
        BY <1>1, <2>1, <2>3
      <4>. QED BY <2>3, <3>2, <4>1, <4>2 DEF Active
    <3>. QED BY <2>1, <3>3, SameSilence
  <2>. QED BY <1>5, <2>2, <2>3 DEF SummaryArrives
<1>6. CASE \/ \E r \in recording : CheckSummarization(r)
           \/ \E t \in tasks : TaskStep(t)
           \/ RetryStep
           \/ Tick
           \/ UNCHANGED vars
           \/ \E job \in jobs : SummaryFails(job)
  <2>1. UNCHANGED <<history, sessions>>
    BY <1>6 DEF CheckSummarization, TaskStep, SkipEmpty, FlushPersists, FlushFails, QueueFailed,
                BeginRetry, RetryStep, RetryPersists, RetryFails, EndRetry, Tick, SummaryFails,
                vars, past, memory
  <2>. QED BY <1>3, <2>1
<1>7. ASSUME NEW u \in Users, ResetConversation(u)
      PROVE  LatestTurnsAreTimed' /\ NoSilenceInsideASession'
  <2>1. [sessions EXCEPT ![u] = NoSession]
          = [w \in Users |-> IF w \in {u} THEN NoSession ELSE sessions[w]]
    BY <1>1
  <2>2. /\ UNCHANGED history
        /\ sessions' = [w \in Users |-> IF w \in {u} THEN NoSession ELSE sessions[w]]
    BY <1>7, <2>1 DEF ResetConversation, past
  <2>. QED BY <1>4, <2>2
<1>8. CASE Sweep
  <2>1. /\ UNCHANGED history
        /\ sessions' = [w \in Users |-> IF w \in {u \in Users : Expired(u)} THEN NoSession
                                        ELSE sessions[w]]
    BY <1>8 DEF Sweep, past
  <2>. QED BY <1>4, <2>1
<1>9. CASE Crash
  <2>1. UNCHANGED history /\ Active' = {}
    BY <1>9 DEF Crash, Active
  <2>. QED BY <2>1, SameSilence
<1>. QED BY <1>2, <1>5, <1>6, <1>7, <1>8, <1>9 DEF Next, SummaryStep

\* Two turns of one session that follow each other are less than a timeout
\* apart, however late the sweep is (buffer.rs:192-200).
THEOREM SessionsHaveNoSilence == Spec => []NoSilenceInsideASession
<1>1. Init => SilenceInv
  <2>1. ASSUME Init PROVE LatestTurnsAreTimed /\ NoSilenceInsideASession
    <3>1. Active = {} /\ RecordedTurns = {}
      BY <2>1 DEF Init, Active, RecordedTurns
    <3>. QED BY <3>1 DEF LatestTurnsAreTimed, NoSilenceInsideASession
  <2>. QED BY <2>1, InitMemoryInv DEF SilenceInv
<1>2. SilenceInv => NoSilenceInsideASession
  BY DEF SilenceInv
<1>. QED BY <1>1, <1>2, NextSilence, PTL DEF Spec

-----------------------------------------------------------------------------
(* The order of the queue.                                                 *)

\* r has episodes of q in their order, then perhaps one of another session.
InOrderOf(r, q) ==
  \A k, l \in 1..Len(r) : k < l =>
    \/ \E m, n \in 1..Len(q) : m < n /\ r[k] = q[m] /\ r[l] = q[n]
    \/ \A n \in 1..Len(q) : q[n].session_id # r[l].session_id

LEMMA OrderKept ==
  ASSUME NEW q, NEW r, Len(q) \in Nat, OncePerSession(q), InOrderOf(r, q), NEW a, NEW b,
         Before(q, a, b)
  PROVE  ~Before(r, b, a)
<1>1. PICK i, j \in 1..Len(q) : i < j /\ q[i].session_id = a /\ q[j].session_id = b
  BY DEF Before
<1>2. ASSUME NEW k \in 1..Len(r), NEW l \in 1..Len(r), k < l,
             r[k].session_id = b, r[l].session_id = a
      PROVE  FALSE
  <2>1. PICK m, n \in 1..Len(q) : m < n /\ r[k] = q[m] /\ r[l] = q[n]
    BY <1>1, <1>2 DEF InOrderOf
  <2>2. m = j /\ n = i
    BY <1>1, <1>2, <2>1 DEF OncePerSession
  <2>. QED BY <1>1, <2>1, <2>2
<1>. QED BY <1>2 DEF Before

LEMMA WithoutInOrder ==
  ASSUME NEW q, NEW r, NEW k, Len(q) \in Nat, IsWithout(r, q, k)
  PROVE  InOrderOf(r, q)
<1>1. Len(r) = Len(q) - 1 /\ k \in 1..Len(q)
  BY DEF IsWithout
<1>2. ASSUME NEW i \in 1..Len(r), NEW j \in 1..Len(r), i < j
      PROVE  \E m, n \in 1..Len(q) : m < n /\ r[i] = q[m] /\ r[j] = q[n]
  <2>1. CASE j < k
    <3>1. i \in 1..Len(q) /\ j \in 1..Len(q) /\ i < k
      BY <1>1, <1>2, <2>1
    <3>2. r[i] = q[i] /\ r[j] = q[j]
      BY <2>1, <3>1 DEF IsWithout
    <3>. QED BY <1>2, <3>1, <3>2
  <2>2. CASE i < k /\ ~(j < k)
    <3>1. i \in 1..Len(q) /\ j + 1 \in 1..Len(q) /\ i < j + 1
      BY <1>1, <1>2
    <3>2. r[i] = q[i] /\ r[j] = q[j + 1]
      BY <2>2 DEF IsWithout
    <3>. QED BY <3>1, <3>2
  <2>3. CASE ~(i < k)
    <3>1. i + 1 \in 1..Len(q) /\ j + 1 \in 1..Len(q) /\ i + 1 < j + 1 /\ ~(j < k)
      BY <1>1, <1>2, <2>3
    <3>2. r[i] = q[i + 1] /\ r[j] = q[j + 1]
      BY <2>3, <3>1 DEF IsWithout
    <3>. QED BY <3>1, <3>2
  <2>. QED BY <1>1, <1>2, <2>1, <2>2, <2>3
<1>. QED BY <1>2 DEF InOrderOf

LEMMA EnqueuedInOrder ==
  ASSUME NEW q \in Seq(Episode), NEW ep, \A i \in 1..Len(q) : q[i].session_id # ep.session_id
  PROVE  InOrderOf(Enqueued(q, ep), q)
<1> DEFINE r == IF QueueFull(q) THEN Tail(q) ELSE q
           e == Append(r, ep)
<1>1. Enqueued(q, ep) = e /\ Len(q) \in Nat
  BY DEF Enqueued
<1>2. r \in Seq(Episode) /\ InOrderOf(r, q)
  <2>1. CASE QueueFull(q)
    <3>1. q # <<>>
      BY <2>1, PendingAssumption DEF QueueFull
    <3>2. IsWithout(Tail(q), q, 1) /\ Tail(q) \in Seq(Episode)
      BY <3>1, TailIsWithout
    <3>. QED BY <1>1, <2>1, <3>2, WithoutInOrder
  <2>2. CASE ~QueueFull(q)
    BY <2>2 DEF InOrderOf
  <2>. QED BY <2>1, <2>2
<1>. HIDE DEF r
<1>3. Len(e) = Len(r) + 1 /\ Len(r) \in Nat /\ e[Len(r) + 1] = ep /\ \A i \in 1..Len(r) : e[i] = r[i]
  BY <1>2
<1>. HIDE DEF e
<1>4. ASSUME NEW k \in 1..Len(e), NEW l \in 1..Len(e), k < l
      PROVE  \/ \E m, n \in 1..Len(q) : m < n /\ e[k] = q[m] /\ e[l] = q[n]
             \/ \A n \in 1..Len(q) : q[n].session_id # e[l].session_id
  <2>1. CASE l \in 1..Len(r)
    <3>1. k \in 1..Len(r)
      BY <1>3, <1>4, <2>1
    <3>2. e[k] = r[k] /\ e[l] = r[l]
      BY <1>3, <2>1, <3>1
    <3>. QED BY <1>2, <1>4, <2>1, <3>1, <3>2 DEF InOrderOf
  <2>2. CASE l = Len(r) + 1
    BY <1>3, <2>2
  <2>. QED BY <1>3, <2>1, <2>2
<1>5. InOrderOf(e, q)
  BY <1>4 DEF InOrderOf
<1>. QED BY <1>1, <1>5

\* No step swaps two queued episodes: what fails again keeps its place before
\* what was not tried yet (engram_flush.rs:150).
THEOREM QueueKeepsItsOrder == Spec => QueueOrderKept
<1> DEFINE Order == \A a, b \in 1..Len(history) : Before(Queue, a, b) => ~Before(Queue', b, a)
<1>1. ASSUME MemoryInv, [Next]_vars PROVE Order
  <2>1. Queue \in Seq(Episode) /\ Len(Queue) \in Nat /\ OncePerSession(Queue)
    BY <1>1, QueueNow
  <2>2. InOrderOf(Queue', Queue) => Order
    BY <2>1, OrderKept
  <2>3. TypeOK'
    BY <1>1, NextTypeOK DEF MemoryInv
  <2>. HIDE DEF Order
  <2>4. Queue' = Queue => Order
    BY <2>1, <2>2 DEF InOrderOf
  <2>5. ASSUME NEW t \in tasks, TaskStep(t) PROVE Order
    <3>1. ASSUME NEW c \in t.todo, SkipEmpty(t, c) \/ FlushPersists(t, c) \/ FlushFails(t, c)
          PROVE  Order
      BY <2>4, <3>1 DEF SkipEmpty, FlushPersists, FlushFails, Queue
    <3>2. CASE QueueFailed(t)
      <4>1. /\ t.failed # <<>> /\ ~retrying.active /\ retrying' = retrying
            /\ pending' = Enqueued(pending, t.failed[1])
        BY <3>2 DEF QueueFailed
      <4>2. retrying.still = <<>> /\ Queue = pending
        BY <1>1, <4>1, QueueNow
      <4>3. t.failed \in Seq(Episode)
        BY <1>1 DEF MemoryInv, TypeOK, TaskType
      <4>4. 1 \in 1..Len(t.failed)
        BY <4>1, <4>3
      <4>5. \A i \in 1..Len(pending) : pending[i].session_id # t.failed[1].session_id
        BY <1>1, <4>2, <4>4, HoldersApart
      <4>6. InOrderOf(Enqueued(pending, t.failed[1]), pending)
        BY <2>1, <4>2, <4>5, EnqueuedInOrder
      <4>7. Queue' = pending'
        <5>1. pending' \in Seq(Episode)
          BY <2>3 DEF TypeOK
        <5>. QED BY <4>1, <4>2, <5>1, EmptyQueues DEF Queue
      <4>. QED BY <2>2, <4>1, <4>2, <4>6, <4>7
    <3>3. CASE BeginRetry(t)
      BY <1>1, <2>3, <2>4, <3>3, BeginRetryHolds
    <3>. QED BY <2>5, <3>1, <3>2, <3>3 DEF TaskStep
  <2>6. CASE RetryStep
    <3>1. CASE RetryPersists
      <4>1. IsWithout(Queue', Queue, Len(retrying.still) + 1)
        BY <1>1, <2>3, <3>1, RetryPersistsHolds
      <4>. QED BY <2>1, <2>2, <4>1, WithoutInOrder
    <3>2. CASE RetryFails \/ EndRetry
      BY <1>1, <2>3, <2>4, <3>2, RetryFailsHolds, EndRetryHolds
    <3>. QED BY <2>6, <3>1, <3>2 DEF RetryStep
  <2>7. CASE Crash
    <3>1. Len(Queue') = 0
      BY <2>7 DEF Crash, Queue, Idle
    <3>2. InOrderOf(Queue', Queue)
      BY <3>1 DEF InOrderOf
    <3>. QED BY <2>2, <3>2
  <2>8. CASE \/ \E u \in Users, c \in Contents : RecordTurn(u, c)
             \/ \E r \in recording : CheckSummarization(r)
             \/ \E job \in jobs : SummaryStep(job)
             \/ \E u \in Users : ResetConversation(u)
             \/ Sweep
             \/ Tick
             \/ UNCHANGED vars
    BY <2>4, <2>8 DEF RecordTurn, CheckSummarization, SummaryStep, SummaryArrives, SummaryFails,
                      ResetConversation, Sweep, Tick, vars, memory, Queue
  <2>. QED BY <1>1, <2>5, <2>6, <2>7, <2>8 DEF Next
<1>. QED BY <1>1, MemoryInvariant, PTL DEF Spec, QueueOrderKept

-----------------------------------------------------------------------------
(* The memory implements the ledger.                                       *)

\* The status of turn i, from the turns buffered, archived and lost.
Status(i, b, a, l) ==
  CASE i \in b -> "live" [] i \in a -> "archived" [] i \in l -> "lost" [] OTHER -> "closed"

Apart(b, a, l) == b \cap a = {} /\ b \cap l = {} /\ a \cap l = {}

LEMMA StatusMeans ==
  ASSUME NEW i, NEW b, NEW a, NEW l, Apart(b, a, l)
  PROVE  /\ i \in b <=> Status(i, b, a, l) = "live"
         /\ i \in a <=> Status(i, b, a, l) = "archived"
         /\ i \in l <=> Status(i, b, a, l) = "lost"
         /\ Status(i, b, a, l) \in {"live", "archived", "lost", "closed"}
<1>1. CASE i \in b
  <2>1. i \notin a /\ i \notin l
    BY <1>1 DEF Apart
  <2>. QED BY <1>1, <2>1 DEF Status
<1>2. CASE i \in a
  <2>1. i \notin b /\ i \notin l
    BY <1>2 DEF Apart
  <2>. QED BY <1>2, <2>1 DEF Status
<1>3. CASE i \in l
  <2>1. i \notin b /\ i \notin a
    BY <1>3 DEF Apart
  <2>. QED BY <1>3, <2>1 DEF Status
<1>4. CASE i \notin b /\ i \notin a /\ i \notin l
  BY <1>4 DEF Status
<1>. QED BY <1>1, <1>2, <1>3, <1>4

LEMMA WhereIsStatus ==
  ASSUME NEW i
  PROVE  /\ WhereIs(i) = Status(i, BufferedTurns, ArchivedTurns, LostTurns)
         /\ WhereIs(i)' = Status(i, BufferedTurns', ArchivedTurns', LostTurns')
BY DEF WhereIs, Status

LEMMA PlacesOnce ==
  ASSUME NEW p, NEW R, OnePlace(p, R)
  PROVE  /\ Apart(p[1], p[5], p[6] \cup p[7] \cup p[8] \cup p[9])
         /\ \A x \in p[2] \cup p[3] \cup p[4] :
              x \notin p[1] /\ x \notin p[5] /\ x \notin p[6] \cup p[7] \cup p[8] \cup p[9]
         /\ \A i \in 1..9 : p[i] \subseteq R
<1>1. \A i, j \in 1..9 : i # j => \A x : ~(x \in p[i] /\ x \in p[j])
  BY DEF OnePlace
<1>2. /\ 1 \in 1..9 /\ 2 \in 1..9 /\ 3 \in 1..9 /\ 4 \in 1..9 /\ 5 \in 1..9
      /\ 6 \in 1..9 /\ 7 \in 1..9 /\ 8 \in 1..9 /\ 9 \in 1..9
  OBVIOUS
<1>3. ASSUME NEW x
      PROVE  /\ x \in p[1] => /\ x \notin p[2] /\ x \notin p[3] /\ x \notin p[4] /\ x \notin p[5]
                              /\ x \notin p[6] /\ x \notin p[7] /\ x \notin p[8] /\ x \notin p[9]
             /\ x \in p[5] => /\ x \notin p[2] /\ x \notin p[3] /\ x \notin p[4]
                              /\ x \notin p[6] /\ x \notin p[7] /\ x \notin p[8] /\ x \notin p[9]
             /\ x \in p[2] \cup p[3] \cup p[4] =>
                  x \notin p[6] /\ x \notin p[7] /\ x \notin p[8] /\ x \notin p[9]
  BY <1>1, <1>2
<1>4. \A i \in 1..9 : p[i] \subseteq R
  BY DEF OnePlace
<1>. QED BY <1>3, <1>4 DEF Apart

LEMMA StatusNow ==
  ASSUME MemoryInv, MemoryInv'
  PROVE  /\ Apart(BufferedTurns, ArchivedTurns, LostTurns)
         /\ Apart(BufferedTurns', ArchivedTurns', LostTurns')
         /\ \A x \in ClosedTurns \cup FailedTurns \cup QueuedTurns :
              x \notin BufferedTurns /\ x \notin ArchivedTurns /\ x \notin LostTurns
         /\ BufferedTurns \subseteq 1..Len(history)
         /\ ClosedTurns \subseteq 1..Len(history)
         /\ FailedTurns \subseteq 1..Len(history)
         /\ QueuedTurns \subseteq 1..Len(history)
         /\ evicted \subseteq LostTurns
<1>1. PICK P, Q : NineNow(P, Q)
  BY NineNowExist
<1>2. OnePlace(P, 1..Len(history))
  BY <1>1 DEF NineNow, MemoryInv
<1>3. /\ P[1] = BufferedTurns /\ P[2] = ClosedTurns /\ P[3] = FailedTurns /\ P[4] = QueuedTurns
      /\ P[5] = ArchivedTurns /\ LostTurns = P[6] \cup P[7] \cup P[8] \cup P[9]
      /\ Q[1] = BufferedTurns' /\ Q[5] = ArchivedTurns'
      /\ LostTurns' = Q[6] \cup Q[7] \cup Q[8] \cup Q[9]
  BY <1>1 DEF NineNow, IsNine, LostTurns
<1>4. /\ Apart(P[1], P[5], P[6] \cup P[7] \cup P[8] \cup P[9])
      /\ \A x \in P[2] \cup P[3] \cup P[4] :
           x \notin P[1] /\ x \notin P[5] /\ x \notin P[6] \cup P[7] \cup P[8] \cup P[9]
      /\ \A i \in 1..9 : P[i] \subseteq 1..Len(history)
  BY <1>2, PlacesOnce
<1>5. Apart(Q[1], Q[5], Q[6] \cup Q[7] \cup Q[8] \cup Q[9])
  <2>1. EveryTurnInOnePlace'
    BY DEF MemoryInv
  <2>2. OnePlace(Q, 1..Len(history'))
    <3>1. EveryTurnInOnePlace' <=>
            OnePlace(<<BufferedTurns', ClosedTurns', FailedTurns', QueuedTurns', ArchivedTurns',
                       evicted', replaced', dropped', crashed'>>, 1..Len(history'))
      BY OnePlaceNow
    <3> DEFINE q == <<BufferedTurns', ClosedTurns', FailedTurns', QueuedTurns', ArchivedTurns',
                      evicted', replaced', dropped', crashed'>>
    <3>2. IsNine(q, BufferedTurns', ClosedTurns', FailedTurns', QueuedTurns', ArchivedTurns',
                 evicted', replaced', dropped', crashed')
      BY Nine
    <3>3. OnePlace(q, 1..Len(history'))
      BY <2>1, <3>1
    <3>. HIDE DEF q
    <3>4. \A i \in 1..9 : Q[i] = q[i]
      BY <1>1, <3>2, NineIndices, Zenon DEF NineNow, IsNine
    <3>. QED BY <3>3, <3>4 DEF OnePlace
  <2>. QED BY <2>2, PlacesOnce
<1>6. /\ P[1] \subseteq 1..Len(history) /\ P[2] \subseteq 1..Len(history)
      /\ P[3] \subseteq 1..Len(history) /\ P[4] \subseteq 1..Len(history)
  BY <1>4
<1>. QED BY <1>3, <1>4, <1>5, <1>6 DEF LostTurns

\* The two tables of the ledger.
LEMMA LedgerTables ==
  ASSUME MemoryInv
  PROVE  /\ Ledger!Turns = 1..Len(history)
         /\ \A s, w : Ledger!At(s, w)
              = {i \in 1..Len(history) : history[i].session_id = s /\ WhereIs(i) = w}
         /\ \A s, w : \A i \in Ledger!At(s, w) : s \in Ledger!Sessions(w)
<1>1. Len(history) \in Nat /\ RecordedTurns = 1..Len(history)
  BY NoTurnYet DEF RecordedTurns
<1>2. Ledger!Turns = 1..Len(history)
  BY <1>1 DEF Ledger!Turns
<1>3. \A s, w : Ledger!At(s, w)
        = {i \in 1..Len(history) : history[i].session_id = s /\ WhereIs(i) = w}
  BY <1>1, <1>2 DEF Ledger!At
<1>4. \A w : Ledger!Sessions(w)
        = {history[i].session_id : i \in {j \in 1..Len(history) : WhereIs(j) = w}}
  BY <1>1, <1>2 DEF Ledger!Sessions
<1>5. \A s, w : \A i \in Ledger!At(s, w) : s \in Ledger!Sessions(w)
  BY <1>3, <1>4
<1>. QED BY <1>2, <1>3, <1>5

LEMMA LedgerMove ==
  ASSUME MemoryInv, UNCHANGED history, NEW S, NEW w,
         \A i \in 1..Len(history) : WhereIs(i)' = IF i \in S THEN w ELSE WhereIs(i)
  PROVE  /\ Ledger!Move(S, w)
         /\ UNCHANGED [i \in RecordedTurns |-> history[i].session_id]
<1>1. RecordedTurns = 1..Len(history) /\ RecordedTurns' = 1..Len(history)
  BY DEF RecordedTurns
<1>2. Ledger!Turns = 1..Len(history)
  BY LedgerTables
<1>. QED BY <1>1, <1>2 DEF Ledger!Move

LEMMA LedgerStays ==
  ASSUME UNCHANGED history, \A i \in 1..Len(history) : WhereIs(i)' = WhereIs(i)
  PROVE  UNCHANGED Ledger!ledger
<1>1. RecordedTurns = 1..Len(history) /\ RecordedTurns' = 1..Len(history)
  BY DEF RecordedTurns
<1>. QED BY <1>1 DEF Ledger!ledger

LEMMA LedgerAdd ==
  ASSUME MemoryInv, NEW rec \in Recorded, history' = Append(history, rec), NEW L,
         NEW n, n = Len(history) + 1, WhereIs(n)' = "live",
         \A i \in 1..Len(history) : WhereIs(i)' = IF i \in L THEN "lost" ELSE WhereIs(i)
  PROVE  Ledger!Add(rec.session_id, L)
<1> DEFINE N == Len(history)
           S == [i \in RecordedTurns |-> history[i].session_id]
           W == [i \in RecordedTurns |-> WhereIs(i)]
<1>1. /\ N \in Nat /\ RecordedTurns = 1..N /\ history \in Seq(Recorded)
      /\ Len(history') = N + 1 /\ history'[N + 1] = rec /\ \A i \in 1..N : history'[i] = history[i]
  BY NoTurnYet DEF RecordedTurns
<1>2. RecordedTurns' = 1..(N + 1)
  BY <1>1 DEF RecordedTurns
<1>3. Len(S) = N /\ \A i \in 1..N : S[i] = history[i].session_id
  BY <1>1
<1>4. S' = Append(S, rec.session_id)
  <2>1. \A i \in 1..N : history[i] \in Recorded
    BY <1>1
  <2>2. S \in Seq(Nat) /\ rec.session_id \in Nat
    BY <1>1, <2>1 DEF Recorded
  <2>3. S' = [i \in 1..(N + 1) |-> history'[i].session_id]
    BY <1>2
  <2>4. \A i \in 1..(N + 1) : history'[i].session_id = IF i = N + 1 THEN rec.session_id ELSE S[i]
    BY <1>1, <1>3
  <2>. QED BY <1>1, <1>3, <2>2, <2>3, <2>4
<1>5. W' = [i \in 1..(N + 1) |-> IF i > N THEN "live" ELSE IF i \in L THEN "lost" ELSE W[i]]
  <2>1. \A i \in 1..N : W[i] = WhereIs(i)
    BY <1>1
  <2>2. W' = [i \in 1..(N + 1) |-> WhereIs(i)']
    BY <1>2
  <2>3. \A i \in 1..(N + 1) : (i \in 1..N /\ ~(i > N)) \/ (i = N + 1 /\ i > N)
    BY <1>1
  <2>. HIDE DEF W
  <2>4. ASSUME NEW i \in 1..(N + 1)
        PROVE  WhereIs(i)' = IF i > N THEN "live" ELSE IF i \in L THEN "lost" ELSE W[i]
    <3>1. CASE i \in 1..N /\ ~(i > N)
      BY <2>1, <3>1
    <3>2. CASE i = N + 1 /\ i > N
      <4>1. i = n
        BY <3>2
      <4>. QED BY <3>2, <4>1
    <3>. QED BY <2>3, <3>1, <3>2
  <2>. QED BY <2>2, <2>4, Zenon
<1>. QED BY <1>3, <1>4, <1>5 DEF Ledger!Add

\* The turns a session holds, where they all are.
LEMMA WholeSession ==
  ASSUME MemoryInv, MemoryInv', NEW T, T # {}, NEW sid, T = Mine(history, sid) \ evicted, NEW w,
         w # "lost", \A i \in T : WhereIs(i) = w
  PROVE  Ledger!At(sid, w) = T /\ sid \in Ledger!Sessions(w)
<1>1. Ledger!At(sid, w) = {i \in 1..Len(history) : history[i].session_id = sid /\ WhereIs(i) = w}
  BY LedgerTables
<1>2. \A i : i \in Mine(history, sid) <=> i \in 1..Len(history) /\ history[i].session_id = sid
  BY DEF Mine
<1>3. \A i \in evicted : WhereIs(i) = "lost"
  BY WhereIsStatus, StatusNow, StatusMeans
<1>4. Ledger!At(sid, w) = T
  BY <1>1, <1>2, <1>3
<1>. QED BY <1>4, LedgerTables

\* A turn is pushed: its session grows, or opens alone or over a stale one.
LEMMA RecordTurnLedger ==
  ASSUME MemoryInv, MemoryInv', NEW u \in Users, NEW rec \in Recorded, NEW p, NEW X, NEW R,
         Records(u, rec, p, X, R)
  PROVE  Ledger!Extend \/ Ledger!Open
<1> DEFINE N == Len(history)
           sid == rec.session_id
<1>1. /\ history' = Append(history, rec)
      /\ X \subseteq TurnsOf(u) /\ R \subseteq TurnsOf(u) /\ X \cap R = {}
      /\ X \subseteq Mine(history, sid)
      /\ LostTurns' = (LostTurns \cup X) \cup R
      /\ ArchivedTurns' = ArchivedTurns
      /\ BufferedTurns' = ((BufferedTurns \ X) \ R) \cup {N + 1}
      /\ TurnsOf(u) \subseteq BufferedTurns
      /\ N \in Nat
  <2>1. /\ evicted' = evicted \cup X /\ replaced' = replaced \cup R
        /\ UNCHANGED <<archive, dropped, crashed>>
    BY DEF Records
  <2>2. LostTurns' = (LostTurns \cup X) \cup R /\ ArchivedTurns' = ArchivedTurns
    BY <2>1 DEF LostTurns, ArchivedTurns, EpisodeTurns
  <2>3. /\ BufferedTurns' = ((BufferedTurns \ X) \ R) \cup {N + 1}
        /\ TurnsOf(u) \subseteq BufferedTurns
    BY RecordTurnTurns
  <2>4. /\ history' = Append(history, rec)
        /\ X \subseteq TurnsOf(u) /\ R \subseteq TurnsOf(u) /\ X \cap R = {}
        /\ X \subseteq Mine(history, sid)
    BY DEF Records
  <2>5. N \in Nat
    BY NoTurnYet
  <2>. QED BY <2>2, <2>3, <2>4, <2>5
<1>2. ASSUME NEW n, n = N + 1 PROVE WhereIs(n)' = "live"
  <2>1. WhereIs(n)' = Status(n, BufferedTurns', ArchivedTurns', LostTurns')
    BY WhereIsStatus
  <2>2. n \in BufferedTurns' /\ Apart(BufferedTurns', ArchivedTurns', LostTurns')
    BY <1>1, <1>2, StatusNow
  <2>. QED BY <2>1, <2>2, StatusMeans
<1>3. ASSUME NEW i \in 1..N PROVE WhereIs(i)' = IF i \in X \cup R THEN "lost" ELSE WhereIs(i)
  <2> DEFINE b == BufferedTurns
             a == ArchivedTurns
             l == LostTurns
  <2>1. Apart(b, a, l) /\ Apart(BufferedTurns', ArchivedTurns', LostTurns')
    BY StatusNow
  <2>2. i # N + 1
    BY <1>1
  <2>3. /\ WhereIs(i) = Status(i, b, a, l)
        /\ WhereIs(i)' = Status(i, BufferedTurns', ArchivedTurns', LostTurns')
    BY WhereIsStatus
  <2>. HIDE DEF N
  <2>4. CASE i \in X \cup R
    <3>1. i \in LostTurns'
      BY <1>1, <2>4
    <3>. QED BY <2>1, <2>3, <2>4, <3>1, StatusMeans
  <2>5. CASE i \notin X \cup R
    <3>1. /\ i \in BufferedTurns' <=> i \in b
          /\ i \in ArchivedTurns' <=> i \in a
          /\ i \in LostTurns' <=> i \in l
      BY <1>1, <2>2, <2>5
    <3>2. Status(i, BufferedTurns', ArchivedTurns', LostTurns') = Status(i, b, a, l)
      BY <3>1 DEF Status
    <3>. QED BY <2>3, <2>5, <3>2
  <2>. QED BY <2>4, <2>5
<1>4. \A L : L = X \cup R => Ledger!Add(sid, L)
  BY <1>1, <1>2, <1>3, LedgerAdd
<1>5. \A i \in TurnsOf(u) : WhereIs(i) = "live"
  BY <1>1, WhereIsStatus, StatusNow, StatusMeans
<1>6. ASSUME u \in Active
      PROVE  /\ Ledger!At(sessions[u].session_id, "live") = TurnsOf(u)
             /\ sessions[u].session_id \in Ledger!Sessions("live")
  <2>1. TurnsOf(u) # {} /\ TurnsOf(u) = Mine(history, sessions[u].session_id) \ evicted
    BY <1>6 DEF MemoryInv, SessionsHold, HoldsItsTurns, HoldsOnly, TurnsOf, Active
  <2>. HIDE DEF sid
  <2>. QED BY <1>5, <2>1, WholeSession
<1>7. ASSUME u \notin Active PROVE TurnsOf(u) = {}
  BY <1>7 DEF Active, TurnsOf
<1>8. CASE u \in Active /\ sid = sessions[u].session_id /\ R = {}
  <2>1. Ledger!Add(sid, X) /\ X \subseteq Ledger!At(sid, "live") /\ sid \in Ledger!Sessions("live")
    BY <1>1, <1>4, <1>6, <1>8
  <2>. QED BY <2>1 DEF Ledger!Extend
<1>9. CASE sid = N + 1 /\ X = {} /\ R = TurnsOf(u)
  <2>1. Len([i \in RecordedTurns |-> history[i].session_id]) = N
    BY <1>1 DEF RecordedTurns
  <2>2. TurnsOf(u) = X \cup R
    BY <1>9
  <2>3. CASE u \in Active
    <3>1. Ledger!At(sessions[u].session_id, "live") = X \cup R
      BY <1>6, <2>2, <2>3
    <3>2. Ledger!Add(sid, Ledger!At(sessions[u].session_id, "live"))
      BY <1>4, <3>1 DEF Ledger!Add
    <3>3. sid = Len([i \in RecordedTurns |-> history[i].session_id]) + 1
      BY <1>9, <2>1
    <3>4. \E s \in Ledger!Sessions("live") :
            Ledger!Add(Len([i \in RecordedTurns |-> history[i].session_id]) + 1, Ledger!At(s, "live"))
      BY <1>6, <2>3, <3>2, <3>3 DEF Ledger!Add
    <3>. QED BY <3>4 DEF Ledger!Open
  <2>4. CASE u \notin Active
    <3>1. Ledger!Add(sid, {})
      BY <1>4, <1>7, <2>2, <2>4
    <3>2. sid = Len([i \in RecordedTurns |-> history[i].session_id]) + 1
      BY <1>9, <2>1
    <3>. QED BY <3>1, <3>2 DEF Ledger!Open
  <2>. QED BY <2>3, <2>4
<1>. QED BY <1>8, <1>9 DEF Records

LEMMA ClosesLedger ==
  ASSUME MemoryInv, MemoryInv', NEW gone, NEW retry, Closes(gone, retry)
  PROVE  Ledger!Close
<1> DEFINE X == UNION {TurnsIn(sessions[u]) : u \in gone}
           S == {sessions[u].session_id : u \in gone}
           Y == UNION {Ledger!At(s, "live") : s \in S}
<1>1. BufferedTurns' = BufferedTurns \ X /\ X \subseteq BufferedTurns
  BY ClosesTurns
<1>2. /\ gone \subseteq Active /\ UNCHANGED history
      /\ LostTurns' = LostTurns /\ ArchivedTurns' = ArchivedTurns
  BY DEF Closes, LostTurns, ArchivedTurns, EpisodeTurns
<1>3. ASSUME NEW u \in gone
      PROVE  /\ Ledger!At(sessions[u].session_id, "live") = TurnsIn(sessions[u])
             /\ sessions[u].session_id \in Ledger!Sessions("live")
  <2>1. /\ TurnsIn(sessions[u]) # {}
        /\ TurnsIn(sessions[u]) = Mine(history, sessions[u].session_id) \ evicted
    BY <1>2 DEF MemoryInv, SessionsHold, HoldsItsTurns, HoldsOnly
  <2>2. \A i \in TurnsIn(sessions[u]) : i \in BufferedTurns
    BY <1>1
  <2>3. \A i \in TurnsIn(sessions[u]) : WhereIs(i) = "live"
    BY <2>2, WhereIsStatus, StatusNow, StatusMeans
  <2>. QED BY <2>1, <2>3, WholeSession
<1>4. X = Y
  <2>1. \A x : x \in X <=> \E u \in gone : x \in TurnsIn(sessions[u])
    OBVIOUS
  <2>2. \A x : x \in Y <=> \E u \in gone : x \in Ledger!At(sessions[u].session_id, "live")
    OBVIOUS
  <2>. HIDE DEF X, Y
  <2>3. \A x : x \in X <=> x \in Y
    BY <1>3, <2>1, <2>2
  <2>. QED BY <2>3
<1>5. S \in SUBSET Ledger!Sessions("live")
  BY <1>3
<1>. HIDE DEF X, Y, S
<1>6. ASSUME NEW i \in 1..Len(history)
      PROVE  WhereIs(i)' = IF i \in Y THEN "closed" ELSE WhereIs(i)
  <2>1. /\ WhereIs(i) = Status(i, BufferedTurns, ArchivedTurns, LostTurns)
        /\ WhereIs(i)' = Status(i, BufferedTurns \ X, ArchivedTurns, LostTurns)
    BY <1>1, <1>2, WhereIsStatus
  <2>2. CASE i \in X
    <3>1. i \notin ArchivedTurns /\ i \notin LostTurns /\ i \notin BufferedTurns \ X
      BY <1>1, <2>2, StatusNow DEF Apart
    <3>. QED BY <1>4, <2>1, <2>2, <3>1 DEF Status
  <2>3. CASE i \notin X
    BY <1>4, <2>1, <2>3 DEF Status
  <2>. QED BY <2>2, <2>3
<1>7. /\ Ledger!Move(Y, "closed")
      /\ UNCHANGED [i \in RecordedTurns |-> history[i].session_id]
  BY <1>2, <1>6, LedgerMove
<1>. QED BY <1>5, <1>7 DEF Ledger!Close, Y

\* A closed session, whole, goes from w to the store or is lost.
LEMMA SettlesLedger ==
  ASSUME MemoryInv, MemoryInv', UNCHANGED <<history, sessions>>, NEW sid, NEW T,
         T # {}, T = Mine(history, sid) \ evicted,
         T \subseteq (ClosedTurns \cup FailedTurns) \cup QueuedTurns,
         \/ ArchivedTurns' = ArchivedTurns \cup T /\ LostTurns' = LostTurns
         \/ ArchivedTurns' = ArchivedTurns /\ LostTurns' = LostTurns \cup T
  PROVE  Ledger!Archive \/ Ledger!Drop
<1>1. BufferedTurns' = BufferedTurns
  BY DEF BufferedTurns, TurnsOf
<1>2. \A i \in T : i \notin BufferedTurns /\ i \notin ArchivedTurns /\ i \notin LostTurns
  BY StatusNow
<1>3. \A i \in T : WhereIs(i) = "closed"
  BY <1>2, WhereIsStatus DEF Status
<1>4. Ledger!At(sid, "closed") = T /\ sid \in Ledger!Sessions("closed")
  BY <1>3, WholeSession
<1>5. \A i : /\ WhereIs(i) = Status(i, BufferedTurns, ArchivedTurns, LostTurns)
             /\ WhereIs(i)' = Status(i, BufferedTurns, ArchivedTurns', LostTurns')
  BY <1>1, WhereIsStatus
<1>6. CASE ArchivedTurns' = ArchivedTurns \cup T /\ LostTurns' = LostTurns
  <2>1. \A i \in 1..Len(history) : WhereIs(i)' = IF i \in T THEN "archived" ELSE WhereIs(i)
    BY <1>2, <1>5, <1>6 DEF Status
  <2>2. /\ Ledger!Move(T, "archived")
        /\ UNCHANGED [i \in RecordedTurns |-> history[i].session_id]
    BY <2>1, LedgerMove
  <2>. QED BY <1>4, <2>2 DEF Ledger!Archive
<1>7. CASE ArchivedTurns' = ArchivedTurns /\ LostTurns' = LostTurns \cup T
  <2>1. \A i \in 1..Len(history) : WhereIs(i)' = IF i \in T THEN "lost" ELSE WhereIs(i)
    BY <1>2, <1>5, <1>7 DEF Status
  <2>2. /\ Ledger!Move(T, "lost")
        /\ UNCHANGED [i \in RecordedTurns |-> history[i].session_id]
    BY <2>1, LedgerMove
  <2>. QED BY <1>4, <2>2 DEF Ledger!Drop
<1>. QED BY <1>6, <1>7

LEMMA CrashLedger ==
  ASSUME MemoryInv, MemoryInv', Crash
  PROVE  Ledger!Crash
<1>1. /\ UNCHANGED <<history, ArchivedTurns>>
      /\ LostTurns' = LostTurns \cup (((BufferedTurns \cup ClosedTurns) \cup FailedTurns) \cup QueuedTurns)
      /\ BufferedTurns' = {}
  BY DEF Crash, LostTurns, ArchivedTurns, EpisodeTurns, BufferedTurns, TurnsOf
<1>2. \A i \in 1..Len(history) :
        \/ i \in BufferedTurns \/ i \in (ClosedTurns \cup FailedTurns) \cup QueuedTurns
        \/ i \in ArchivedTurns \/ i \in LostTurns
  <2>1. PICK P, Q : NineNow(P, Q)
    BY NineNowExist
  <2>2. OnePlace(P, 1..Len(history))
    BY <2>1 DEF NineNow, MemoryInv
  <2>3. \A i \in 1..Len(history) : \E k \in 1..9 : i \in P[k]
    BY <2>2 DEF OnePlace
  <2>. QED BY <2>1, <2>3, NineIndices DEF NineNow, IsNine, LostTurns
<1>3. \A i : /\ WhereIs(i) = Status(i, BufferedTurns, ArchivedTurns, LostTurns)
             /\ WhereIs(i)' = Status(i, BufferedTurns', ArchivedTurns', LostTurns')
  BY WhereIsStatus
<1> DEFINE S == {i \in 1..Len(history) : WhereIs(i) \in {"live", "closed"}}
<1>4. ASSUME NEW i \in 1..Len(history) PROVE WhereIs(i)' = IF i \in S THEN "lost" ELSE WhereIs(i)
  <2>1. /\ Apart(BufferedTurns, ArchivedTurns, LostTurns)
        /\ Apart(BufferedTurns', ArchivedTurns', LostTurns')
        /\ \A x \in (ClosedTurns \cup FailedTurns) \cup QueuedTurns :
             x \notin BufferedTurns /\ x \notin ArchivedTurns /\ x \notin LostTurns
    BY StatusNow
  <2>2. CASE i \in ArchivedTurns
    <3>1. WhereIs(i) = "archived" /\ WhereIs(i)' = "archived"
      BY <1>1, <1>3, <2>1, <2>2, StatusMeans
    <3>. QED BY <3>1
  <2>3. CASE i \in LostTurns
    <3>1. i \in LostTurns'
      BY <1>1, <2>3
    <3>2. WhereIs(i) = "lost" /\ WhereIs(i)' = "lost"
      BY <1>3, <2>1, <2>3, <3>1, StatusMeans
    <3>. QED BY <3>2
  <2>4. CASE i \in BufferedTurns \/ i \in (ClosedTurns \cup FailedTurns) \cup QueuedTurns
    <3>1. i \in LostTurns'
      BY <1>1, <2>4
    <3>2. WhereIs(i)' = "lost"
      BY <1>3, <2>1, <3>1, StatusMeans
    <3>3. WhereIs(i) \in {"live", "closed"}
      <4>1. CASE i \in BufferedTurns
        BY <1>3, <2>1, <4>1, StatusMeans
      <4>2. CASE i \in (ClosedTurns \cup FailedTurns) \cup QueuedTurns
        BY <1>3, <2>1, <4>2 DEF Status
      <4>. QED BY <2>4, <4>1, <4>2
    <3>. QED BY <3>2, <3>3
  <2>. QED BY <1>2, <2>2, <2>3, <2>4
<1>5. /\ Ledger!Move(S, "lost")
      /\ UNCHANGED [i \in RecordedTurns |-> history[i].session_id]
  <2>. HIDE DEF S
  <2>. QED BY <1>1, <1>4, LedgerMove
<1>6. Ledger!Turns = 1..Len(history)
  BY LedgerTables
<1>7. S = {i \in Ledger!Turns : [j \in RecordedTurns |-> WhereIs(j)][i] \in {"live", "closed"}}
  BY <1>6 DEF RecordedTurns
<1>. QED BY <1>5, <1>7 DEF Ledger!Crash

\* A step that moves no turn between the ledger's places.
LEMMA SameLedger ==
  ASSUME MemoryInv, MemoryInv', UNCHANGED history, BufferedTurns' = BufferedTurns,
         ArchivedTurns' = ArchivedTurns, LostTurns' = LostTurns
  PROVE  UNCHANGED Ledger!ledger
BY WhereIsStatus, LedgerStays

LEMMA TaskStepLedger ==
  ASSUME MemoryInv, MemoryInv', NEW t \in tasks, TaskStep(t)
  PROVE  Ledger!Archive \/ Ledger!Drop \/ UNCHANGED Ledger!ledger
<1>1. ASSUME NEW c \in t.todo, SkipEmpty(t, c)
      PROVE  FALSE
  BY <1>1, NeverEmpty DEF SkipEmpty
<1>2. ASSUME NEW c \in t.todo, FlushPersists(t, c)
      PROVE  Ledger!Archive \/ Ledger!Drop
  <2> DEFINE T == TurnsIn(c.session)
             sid == c.session.session_id
  <2>1. T # {} /\ T = Mine(history, sid) \ evicted
    BY DEF MemoryInv, SessionsHold, HoldsItsTurns, HoldsOnly
  <2>2. \A i \in T : i \in ClosedTurns
    BY PlacesAre, InToFlush
  <2>3. UNCHANGED <<history, sessions, LostTurns>> /\ archive' = Append(archive, EpisodeFrom(c))
    BY <1>2 DEF FlushPersists, past, LostTurns
  <2>4. ArchivedTurns' = ArchivedTurns \cup T
    <3>1. archive \in Seq(Episode) /\ EpisodeFrom(c).content = T
      BY DEF MemoryInv, TypeOK, EpisodeFrom
    <3>. QED BY <2>3, <3>1, PlacesAre, AppendedTurns
  <2>. HIDE DEF T, sid
  <2>. QED BY <2>1, <2>2, <2>3, <2>4, SettlesLedger
<1>3. ASSUME NEW c \in t.todo, FlushFails(t, c)
      PROVE  UNCHANGED Ledger!ledger
  BY <1>3, SameLedger DEF FlushFails, past, BufferedTurns, TurnsOf, ArchivedTurns, EpisodeTurns,
                          LostTurns
<1>4. ASSUME QueueFailed(t)
      PROVE  Ledger!Drop \/ Ledger!Archive \/ UNCHANGED Ledger!ledger
  <2>1. /\ UNCHANGED <<history, sessions, BufferedTurns, ArchivedTurns>>
        /\ LostTurns' = LostTurns \cup DroppedBy(pending)
        /\ ~retrying.active
    BY <1>4 DEF QueueFailed, BufferedTurns, TurnsOf, ArchivedTurns, EpisodeTurns, LostTurns
  <2>2. CASE QueueFull(pending)
    <3> DEFINE T == pending[1].content
               sid == pending[1].session_id
    <3>1. pending \in Seq(Episode) /\ Queue = pending /\ QueuedTurns = EpisodeTurns(pending)
      BY <2>1, QueueNow
    <3>2. pending # <<>>
      BY <2>2, PendingAssumption DEF QueueFull
    <3>3. 1 \in 1..Len(pending) /\ Head(pending) = pending[1]
      BY <3>1, <3>2
    <3>4. T # {} /\ T = Mine(history, sid) \ evicted
      BY <3>1, <3>3 DEF MemoryInv, EpisodesTell, TellsItsTurns
    <3>5. \A i \in T : i \in QueuedTurns
      BY <3>1, <3>3, InEpisodes
    <3>6. LostTurns' = LostTurns \cup T
      BY <2>1, <2>2, <3>3 DEF DroppedBy
    <3>. HIDE DEF T, sid
    <3>. QED BY <2>1, <3>4, <3>5, <3>6, SettlesLedger
  <2>3. CASE ~QueueFull(pending)
    <3>1. LostTurns' = LostTurns
      BY <2>1, <2>3 DEF DroppedBy
    <3>. QED BY <2>1, <3>1, SameLedger
  <2>. QED BY <2>2, <2>3
<1>5. ASSUME BeginRetry(t)
      PROVE  UNCHANGED Ledger!ledger
  BY <1>5, SameLedger DEF BeginRetry, past, BufferedTurns, TurnsOf, ArchivedTurns, EpisodeTurns,
                          LostTurns
<1>. QED BY <1>1, <1>2, <1>3, <1>4, <1>5 DEF TaskStep

LEMMA RetryStepLedger ==
  ASSUME MemoryInv, MemoryInv', RetryStep
  PROVE  Ledger!Archive \/ Ledger!Drop \/ UNCHANGED Ledger!ledger
<1>1. CASE RetryPersists
  <2> DEFINE k == Len(retrying.still) + 1
             T == Queue[k].content
             sid == Queue[k].session_id
  <2>1. IsWithout(Queue', Queue, k) /\ archive' = Append(archive, Queue[k])
    BY <1>1, RetryPersistsHolds DEF MemoryInv
  <2>2. k \in 1..Len(Queue)
    BY <2>1 DEF IsWithout
  <2>3. T # {} /\ T = Mine(history, sid) \ evicted
    BY <2>2 DEF MemoryInv, EpisodesTell, TellsItsTurns
  <2>4. \A i \in T : i \in QueuedTurns
    BY <2>2, QueueNow, InEpisodes
  <2>5. UNCHANGED <<history, sessions, LostTurns>>
    BY <1>1 DEF RetryPersists, past, LostTurns
  <2>6. ArchivedTurns' = ArchivedTurns \cup T
    <3>1. archive \in Seq(Episode)
      BY DEF MemoryInv, TypeOK
    <3>. QED BY <2>1, <3>1, PlacesAre, AppendedTurns
  <2>. HIDE DEF T, sid
  <2>. QED BY <2>3, <2>4, <2>5, <2>6, SettlesLedger
<1>2. CASE RetryFails \/ EndRetry
  BY <1>2, SameLedger DEF RetryFails, EndRetry, past, BufferedTurns, TurnsOf, ArchivedTurns,
                          EpisodeTurns, LostTurns
<1>. QED BY <1>1, <1>2 DEF RetryStep

LEMMA SummaryStepLedger ==
  ASSUME MemoryInv, MemoryInv', NEW job \in jobs, SummaryStep(job)
  PROVE  UNCHANGED Ledger!ledger
<1>1. UNCHANGED <<history, ArchivedTurns, LostTurns>>
  BY DEF SummaryStep, SummaryArrives, SummaryFails, past, ArchivedTurns, EpisodeTurns, LostTurns
<1>2. BufferedTurns' = BufferedTurns
  <2>1. CASE SummaryFails(job)
    BY <2>1 DEF SummaryFails, BufferedTurns, TurnsOf
  <2>2. ASSUME NEW size \in SummarySizes, SummaryArrives(job, size)
        PROVE  BufferedTurns' = BufferedTurns
    BY <2>2, SummaryArrivesTurns
  <2>. QED BY <2>1, <2>2 DEF SummaryStep
<1>. QED BY <1>1, <1>2, SameLedger

LEMMA NextLedger == MemoryInv /\ [Next]_vars => [Ledger!Next]_(Ledger!ledger)
<1> SUFFICES ASSUME MemoryInv, [Next]_vars
             PROVE  Ledger!Next \/ UNCHANGED Ledger!ledger
  OBVIOUS
<1>1. MemoryInv'
  BY NextMemoryInv
<1>2. ASSUME NEW u \in Users, NEW c \in Contents, RecordTurn(u, c)
      PROVE  Ledger!Extend \/ Ledger!Open
  BY <1>1, <1>2, RecordTurnFacts, RecordTurnLedger
<1>3. ASSUME NEW u \in Users, ResetConversation(u)
      PROVE  Ledger!Close
  BY <1>1, <1>3, ResetCloses, ClosesLedger
<1>4. ASSUME Sweep
      PROVE  Ledger!Close
  BY <1>1, <1>4, SweepCloses, ClosesLedger
<1>5. ASSUME NEW job \in jobs, SummaryStep(job)
      PROVE  UNCHANGED Ledger!ledger
  BY <1>1, <1>5, SummaryStepLedger
<1>6. ASSUME NEW t \in tasks, TaskStep(t)
      PROVE  Ledger!Archive \/ Ledger!Drop \/ UNCHANGED Ledger!ledger
  BY <1>1, <1>6, TaskStepLedger
<1>7. ASSUME RetryStep
      PROVE  Ledger!Archive \/ Ledger!Drop \/ UNCHANGED Ledger!ledger
  BY <1>1, <1>7, RetryStepLedger
<1>8. ASSUME Crash
      PROVE  Ledger!Crash
  BY <1>1, <1>8, CrashLedger
<1>9. ASSUME (\E r \in recording : CheckSummarization(r)) \/ Tick \/ UNCHANGED vars
      PROVE  UNCHANGED Ledger!ledger
  <2>1. UNCHANGED <<history, BufferedTurns, ArchivedTurns, LostTurns>>
    BY <1>9 DEF CheckSummarization, Tick, vars, memory, past, BufferedTurns, TurnsOf,
                ArchivedTurns, EpisodeTurns, LostTurns
  <2>. QED BY <1>1, <2>1, SameLedger
<1>. QED BY <1>2, <1>3, <1>4, <1>5, <1>6, <1>7, <1>8, <1>9 DEF Next, Ledger!Next

\* Every step of the memory is a step of the ledger or moves no turn: a session
\* closes whole, is archived whole and at most once, and what is archived or
\* lost stays so (buffer.rs, main.rs sweep, engram_flush.rs).
THEOREM MemoryImplementsLedger == Spec => ImplementsLedger
<1>1. Init => Ledger!Init
  BY DEF Init, Ledger!Init, RecordedTurns
<1>. QED BY <1>1, NextLedger, MemoryInvariant, PTL DEF Spec, ImplementsLedger, Ledger!Spec
=============================================================================
