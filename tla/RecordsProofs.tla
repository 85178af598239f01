---------------------------- MODULE RecordsProofs ----------------------------
(***************************************************************************)
(* What is proved of the records kept of providers and of the requests     *)
(* sent to them: the usage books (UsageBooks), the windows of the rate     *)
(* limiter and the rate tracker (RateWindows), a provider's health         *)
(* (ProviderHealth).  The first two are lists that grow at their end and   *)
(* are filtered: their proofs rest on what DataLemmas says of Only and     *)
(* SumOver.                                                                *)
(***************************************************************************)
EXTENDS MCBooks, ProviderHealth, DataLemmas

-----------------------------------------------------------------------------
(***************************************************************************)
(* The usage books: what is counted, and what a crash can lose of it.      *)
(***************************************************************************)

LEMMA CountType ==
  ASSUME NEW s \in Seq(Record), NEW S PROVE CountOf(s, S) \in Counter
<1>1. TokensOf \in [Record -> Nat]
  BY UsageBooksAssumption DEF TokensOf, Record
<1>2. Only(s, S) \in Seq(Record)
  BY OnlyType
<1>3. Len(Only(s, S)) \in Nat /\ SumOver(Only(s, S), TokensOf) \in Nat
  BY <1>1, <1>2, LenProperties, SumType
<1> QED
  BY <1>3 DEF CountOf, Counter

LEMMA CountEmpty == \A S : CountOf(<<>>, S) = Nothing
<1>1. TokensOf \in [Record -> Nat]
  BY UsageBooksAssumption DEF TokensOf, Record
<1>2. SumOver(<<>>, TokensOf) = 0 /\ Len(<<>>) = 0
  BY <1>1, SumEmpty
<1> QED
  BY <1>2, OnlyEmpty DEF CountOf, Nothing

LEMMA CountAppend ==
  ASSUME NEW s \in Seq(Record), NEW r \in Record, NEW S
  PROVE  CountOf(Append(s, r), S) = IF r \in S THEN Plus(CountOf(s, S), r.tokens) ELSE CountOf(s, S)
<1>1. TokensOf \in [Record -> Nat] /\ TokensOf[r] = r.tokens
  BY UsageBooksAssumption DEF TokensOf, Record
<1> DEFINE o == Only(s, S)
<1>2. o \in Seq(Record) /\ Only(Append(s, r), S) = IF r \in S THEN Append(o, r) ELSE o
  BY OnlyType, OnlyAppend
<1> HIDE DEF o
<1>3. Len(Append(o, r)) = Len(o) + 1 /\ SumOver(Append(o, r), TokensOf) = SumOver(o, TokensOf) + r.tokens
  BY <1>1, <1>2, AppendProperties, SumAppend
<1>4. CASE r \in S
  BY <1>2, <1>3, <1>4 DEF CountOf, Plus, o
<1>5. CASE r \notin S
  BY <1>2, <1>5 DEF CountOf, o
<1> QED
  BY <1>4, <1>5

LEMMA CountNone ==
  ASSUME NEW s \in Seq(Record), NEW S, \A r \in ToSet(s) : r \notin S
  PROVE  CountOf(s, S) = Nothing
<1>1. Only(s, S) = <<>> /\ Only(<<>>, S) = <<>>
  BY OnlyNone, OnlyEmpty
<1> QED
  BY <1>1, CountEmpty DEF CountOf

LEMMA CountMonotone ==
  ASSUME NEW s \in Seq(Record), NEW S, NEW R, \A r \in ToSet(s) : r \in S => r \in R
  PROVE  /\ CountOf(s, S).requests <= CountOf(s, R).requests
         /\ CountOf(s, S).tokens <= CountOf(s, R).tokens
<1>1. TokensOf \in [Record -> Nat]
  BY UsageBooksAssumption DEF TokensOf, Record
<1>2. /\ Len(Only(s, S)) <= Len(Only(s, R))
      /\ SumOver(Only(s, S), TokensOf) <= SumOver(Only(s, R), TokensOf)
  BY <1>1, OnlyMonotone
<1> QED
  BY <1>2 DEF CountOf

(* A day of the calendar is one of those that the books have.              *)
LEMMA TodayIsADay ==
  ASSUME time \in FirstTime..LastTime PROVE Today \in Days
<1>1. time \in Nat /\ LastTime \in Nat /\ time <= LastTime /\ DayLength \in Nat /\ DayLength > 0
  BY UsageBooksAssumption
<1>2. \A a, b \in Nat, k \in Nat \ {0} : a <= b => a \div k \in Nat /\ b \div k \in Nat /\ a \div k <= b \div k
  OBVIOUS
<1> QED
  BY <1>1, <1>2 DEF Today, Days

(* Recording a response counts it in the four counters.                    *)
LEMMA EnteredAgrees ==
  ASSUME data \in Counts, NEW r \in Record, NEW s \in Seq(Record), Agrees(data, s)
  PROVE  Entered(r) \in Counts /\ Agrees(Entered(r), Append(s, r))
<1>1. /\ r.day \in Days /\ r.provider \in Provs /\ r.model \in UsedModels /\ r.tokens \in Nat
  BY UsageBooksAssumption DEF Record
<1>2. \A c \in Counter : Plus(c, r.tokens) \in Counter
  BY <1>1 DEF Counter, Plus
<1> DEFINE e == Entered(r)
<1>3. /\ e.total = Plus(data.total, r.tokens)
      /\ e.daily = [data.daily EXCEPT ![r.day] = Plus(@, r.tokens)]
      /\ e.provider = [data.provider EXCEPT ![<<r.day, r.provider>>] = Plus(@, r.tokens)]
      /\ e.model = [data.model EXCEPT ![<<r.day, r.model>>] = Plus(@, r.tokens)]
      /\ e = [total |-> e.total, daily |-> e.daily, provider |-> e.provider, model |-> e.model]
  <2>1. data = [total |-> data.total, daily |-> data.daily, provider |-> data.provider,
                model |-> data.model]
    BY DEF Counts
  <2>2. DOMAIN data = {"total", "daily", "provider", "model"}
    BY <2>1
  <2>3. e.total = Plus(data.total, r.tokens)
    BY <2>2 DEF Entered
  <2>4. e.daily = [data.daily EXCEPT ![r.day] = Plus(@, r.tokens)]
    BY <2>2 DEF Entered
  <2>5. e.provider = [data.provider EXCEPT ![<<r.day, r.provider>>] = Plus(@, r.tokens)]
    BY <2>2 DEF Entered
  <2>6. e.model = [data.model EXCEPT ![<<r.day, r.model>>] = Plus(@, r.tokens)]
    BY <2>2 DEF Entered
  <2>7. e = [x \in {"total", "daily", "provider", "model"} |-> e[x]]
    BY <2>2 DEF Entered
  <2>8. e = [total |-> e.total, daily |-> e.daily, provider |-> e.provider, model |-> e.model]
    <3> HIDE DEF e
    <3> QED
      BY <2>7
  <2> QED
    BY <2>3, <2>4, <2>5, <2>6, <2>8
<1> HIDE DEF e
<1>4. /\ data.total \in Counter /\ data.daily \in [Days -> Counter]
      /\ data.provider \in [Days \X Provs -> Counter] /\ data.model \in [Days \X UsedModels -> Counter]
  BY DEF Counts
<1>5. /\ e.total \in Counter /\ e.daily \in [Days -> Counter]
      /\ e.provider \in [Days \X Provs -> Counter] /\ e.model \in [Days \X UsedModels -> Counter]
  BY <1>1, <1>2, <1>3, <1>4
<1>6. e \in Counts
  BY <1>3, <1>5 DEF Counts
<1>7. e.total = CountOf(Append(s, r), Record)
  BY <1>3, CountAppend DEF Agrees
<1>8. ASSUME NEW t \in Days
      PROVE  /\ e.daily[t] = CountOf(Append(s, r), {q \in Record : q.day = t})
             /\ \A p \in Provs : e.provider[<<t, p>>] =
                  CountOf(Append(s, r), {q \in Record : q.day = t /\ q.provider = p})
             /\ \A m \in UsedModels : e.model[<<t, m>>] =
                  CountOf(Append(s, r), {q \in Record : q.day = t /\ q.model = m})
  <2>1. e.daily[t] = CountOf(Append(s, r), {q \in Record : q.day = t})
    <3> DEFINE S == {q \in Record : q.day = t}
    <3>1. data.daily[t] = CountOf(s, S) /\ (r \in S <=> r.day = t)
      BY DEF Agrees
    <3>2. e.daily[t] = IF r.day = t THEN Plus(data.daily[t], r.tokens) ELSE data.daily[t]
      BY <1>3, <1>4
    <3> HIDE DEF S
    <3>3. e.daily[t] = CountOf(Append(s, r), S)
      BY <3>1, <3>2, CountAppend
    <3> QED
      BY <3>3 DEF S
  <2>2. ASSUME NEW p \in Provs
        PROVE  e.provider[<<t, p>>] = CountOf(Append(s, r), {q \in Record : q.day = t /\ q.provider = p})
    <3> DEFINE S == {q \in Record : q.day = t /\ q.provider = p}
    <3>1. data.provider[<<t, p>>] = CountOf(s, S) /\ (r \in S <=> <<r.day, r.provider>> = <<t, p>>)
      BY DEF Agrees
    <3>2. e.provider[<<t, p>>] = IF <<r.day, r.provider>> = <<t, p>>
             THEN Plus(data.provider[<<t, p>>], r.tokens) ELSE data.provider[<<t, p>>]
      BY <1>3, <1>4
    <3> HIDE DEF S
    <3>3. e.provider[<<t, p>>] = CountOf(Append(s, r), S)
      BY <3>1, <3>2, CountAppend
    <3> QED
      BY <3>3 DEF S
  <2>3. ASSUME NEW m \in UsedModels
        PROVE  e.model[<<t, m>>] = CountOf(Append(s, r), {q \in Record : q.day = t /\ q.model = m})
    <3> DEFINE S == {q \in Record : q.day = t /\ q.model = m}
    <3>1. data.model[<<t, m>>] = CountOf(s, S) /\ (r \in S <=> <<r.day, r.model>> = <<t, m>>)
      BY DEF Agrees
    <3>2. e.model[<<t, m>>] = IF <<r.day, r.model>> = <<t, m>>
             THEN Plus(data.model[<<t, m>>], r.tokens) ELSE data.model[<<t, m>>]
      BY <1>3, <1>4
    <3> HIDE DEF S
    <3>3. e.model[<<t, m>>] = CountOf(Append(s, r), S)
      BY <3>1, <3>2, CountAppend
    <3> QED
      BY <3>3 DEF S
  <2> QED
    BY <2>1, <2>2, <2>3
<1>9. Agrees(e, Append(s, r))
  BY <1>7, <1>8 DEF Agrees
<1> QED
  BY <1>6, <1>9 DEF e

LEMMA FreshAgrees == Fresh \in Counts /\ Agrees(Fresh, <<>>)
<1>1. Nothing \in Counter
  BY DEF Nothing, Counter
<1>2. Fresh \in Counts
  BY <1>1 DEF Fresh, Counts
<1>3. Agrees(Fresh, <<>>)
  BY CountEmpty DEF Fresh, Agrees
<1> QED
  BY <1>2, <1>3

(* An invariant over the four books: every counter, in memory and in the   *)
(* file, is of the records it is said to be of, no later than now.         *)
Recorded ==
  /\ Agrees(data, kept)
  /\ IF usageFile \in {<<>>, Torn} THEN filed = <<>> ELSE Agrees(usageFile, filed)

(* What is not filed is recent; nothing is when nothing has changed since  *)
(* the last save.                                                          *)
Lossless == LossIsRecent /\ (~spoiled /\ ~dirty => filed = kept)

CountsSince(o, u, w) ==
  /\ u[w].count = CountOf(o, {r \in Record : r.at >= u[w].start}).requests
  /\ u[w].tokens = CountOf(o, {r \in Record : r.at >= u[w].start}).tokens
  /\ \A r \in ToSet(o) : r.at <= u[w].start + WindowLength[w]
  /\ u[w].start <= time

(* Every window counts what was sent since it began, and nothing was sent  *)
(* to the provider after the window should have ended.                     *)
WindowsTrue == \A w \in Windows : CountsSince(OfWatched, usage, w)

UsageType == [Windows -> [count : Nat, tokens : Nat, start : 0..LastTime]]

BooksInv == BookTypeOK /\ Recorded /\ Lossless /\ WindowsTrue

(* A window that has expired is begun anew: it had nothing to count now.   *)
LEMMA ResetIsTrue ==
  ASSUME time \in FirstTime..LastTime, NEW o \in Seq(Record), NEW u \in UsageType, NEW ws,
         \A w \in Windows : CountsSince(o, u, w)
  PROVE  /\ Reset(u, ws) \in UsageType
         /\ \A w \in Windows : CountsSince(o, Reset(u, ws), w)
         /\ \A w \in Windows \cap ws : time - Reset(u, ws)[w].start <= WindowLength[w]
<1> DEFINE v == Reset(u, ws)
<1>1. /\ time \in Nat /\ time \in 0..LastTime /\ WindowLength \in [Windows -> Nat]
      /\ \A r \in Record : r.at \in Nat
  BY UsageBooksAssumption DEF Record
<1>2. \A r \in ToSet(o) : r \in Record
  <2>1. ASSUME NEW i \in DOMAIN o PROVE o[i] \in Record
    BY LenProperties, ElementOfSeq
  <2> QED
    BY <2>1 DEF ToSet
<1>3. v \in UsageType
  BY <1>1 DEF Reset, UsageType
<1>4. ASSUME NEW w \in Windows
      PROVE  CountsSince(o, v, w) /\ (w \in ws => time - v[w].start <= WindowLength[w])
  <2>1. u[w].start \in Nat /\ WindowLength[w] \in Nat
    BY <1>1 DEF UsageType
  <2>2. CASE w \in ws /\ time - u[w].start > WindowLength[w]
    <3>1. v[w] = [count |-> 0, tokens |-> 0, start |-> time]
      BY <2>2 DEF Reset
    <3>2. \A r \in ToSet(o) : r.at <= u[w].start + WindowLength[w] /\ r.at \in Nat
      BY <1>1, <1>2 DEF CountsSince
    <3>3. \A r \in ToSet(o) : ~(r.at >= time) /\ r.at <= time + WindowLength[w]
      BY <1>1, <2>1, <2>2, <3>2
    <3> DEFINE S == {r \in Record : r.at >= time}
    <3>4. \A r \in ToSet(o) : r \notin S
      BY <3>3
    <3> HIDE DEF S
    <3>5. CountOf(o, S) = Nothing
      BY <3>4, CountNone
    <3>6. CountOf(o, {r \in Record : r.at >= v[w].start}) = Nothing
      BY <3>1, <3>5 DEF S
    <3>7. time <= time /\ time - time <= WindowLength[w]
      BY <1>1, <2>1
    <3> HIDE DEF v
    <3> QED
      BY <3>1, <3>3, <3>6, <3>7 DEF CountsSince, Nothing
  <2>3. CASE ~(w \in ws /\ time - u[w].start > WindowLength[w])
    <3>1. v[w] = u[w]
      BY <2>3 DEF Reset
    <3>2. w \in ws => time - u[w].start <= WindowLength[w]
      BY <1>1, <2>1, <2>3
    <3> HIDE DEF v
    <3> QED
      BY <3>1, <3>2 DEF CountsSince
  <2> QED
    BY <2>2, <2>3
<1> QED
  BY <1>3, <1>4

(* Counting a response that comes now.                                     *)
LEMMA CountedIsTrue ==
  ASSUME time \in FirstTime..LastTime, NEW o \in Seq(Record), NEW u \in UsageType,
         NEW r \in Record, r.at = time,
         \A w \in Windows : CountsSince(o, u, w) /\ time - u[w].start <= WindowLength[w]
  PROVE  /\ Counted(u, r.tokens) \in UsageType
         /\ \A w \in Windows : CountsSince(Append(o, r), Counted(u, r.tokens), w)
<1> DEFINE v == Counted(u, r.tokens)
<1>1. /\ time \in Nat /\ r.tokens \in Nat /\ WindowLength \in [Windows -> Nat]
  <2>1. r.tokens \in Nat
    BY UsageBooksAssumption DEF Record
  <2> QED
    BY <2>1, UsageBooksAssumption
<1>2. ASSUME NEW w \in Windows
      PROVE  /\ v[w] \in [count : Nat, tokens : Nat, start : 0..LastTime]
             /\ v[w].count = u[w].count + 1 /\ v[w].tokens = u[w].tokens + r.tokens
             /\ v[w].start = u[w].start
  <2> DEFINE x == u[w]
  <2>1. x \in [count : Nat, tokens : Nat, start : 0..LastTime]
    BY DEF UsageType
  <2>2. v[w] = [x EXCEPT !.count = @ + 1, !.tokens = @ + r.tokens]
    BY DEF Counted
  <2> HIDE DEF x, v
  <2>3. /\ v[w] \in [count : Nat, tokens : Nat, start : 0..LastTime]
        /\ v[w].count = x.count + 1 /\ v[w].tokens = x.tokens + r.tokens /\ v[w].start = x.start
    <3>1. DOMAIN x = {"count", "tokens", "start"} /\ x.count \in Nat /\ x.tokens \in Nat
          /\ x.start \in 0..LastTime
      BY <2>1
    <3>2. v[w].count = x.count + 1
      BY <2>2, <3>1
    <3>3. v[w].tokens = x.tokens + r.tokens
      BY <2>2, <3>1
    <3>4. v[w].start = x.start
      BY <2>2, <3>1
    <3>5. v[w] = [f \in {"count", "tokens", "start"} |-> v[w][f]]
      BY <2>2, <3>1
    <3>6. v[w] = [count |-> v[w].count, tokens |-> v[w].tokens, start |-> v[w].start]
      BY <3>5
    <3> QED
      BY <1>1, <3>1, <3>2, <3>3, <3>4, <3>6
  <2> QED
    BY <2>3 DEF x
<1>4. v \in UsageType
  <2>1. v = [w \in Windows |-> v[w]]
    BY DEF Counted
  <2> HIDE DEF v
  <2> QED
    BY <1>2, <2>1 DEF UsageType
<1>3. ASSUME NEW w \in Windows PROVE CountsSince(Append(o, r), v, w)
  <2>1. /\ v[w].count = u[w].count + 1 /\ v[w].tokens = u[w].tokens + r.tokens
        /\ v[w].start = u[w].start /\ u[w].start \in Nat /\ WindowLength[w] \in Nat
    BY <1>1, <1>2 DEF UsageType
  <2> DEFINE S == {q \in Record : q.at >= u[w].start}
  <2>2. /\ u[w].count = CountOf(o, S).requests /\ u[w].tokens = CountOf(o, S).tokens
        /\ u[w].start <= time
    BY DEF CountsSince
  <2>3. r \in S
    BY <2>2
  <2> HIDE DEF S
  <2>4. CountOf(Append(o, r), S) = Plus(CountOf(o, S), r.tokens)
    BY <2>3, CountAppend
  <2>5. v[w].count = CountOf(Append(o, r), S).requests /\ v[w].tokens = CountOf(Append(o, r), S).tokens
    BY <2>1, <2>2, <2>4 DEF Plus
  <2>6. \A q \in ToSet(Append(o, r)) : q.at <= u[w].start + WindowLength[w]
    <3>1. ToSet(Append(o, r)) = ToSet(o) \cup {r}
      BY ToSetAppend
    <3>2. \A q \in ToSet(o) : q.at <= u[w].start + WindowLength[w]
      BY DEF CountsSince
    <3>3. r.at <= u[w].start + WindowLength[w]
      BY <1>1, <2>1
    <3> QED
      BY <3>1, <3>2, <3>3
  <2> HIDE DEF v
  <2> QED
    BY <2>1, <2>2, <2>5, <2>6 DEF CountsSince, S
<1> QED
  BY <1>3, <1>4

(* What the provider was sent since the start, with one record more.       *)
LEMMA WatchedType == BookTypeOK => OfWatched \in Seq(Record)
<1> SUFFICES ASSUME BookTypeOK PROVE OfWatched \in Seq(Record)
  OBVIOUS
<1>1. SubSeq(kept, loaded + 1, Len(kept)) \in Seq(Record)
  <2>1. loaded \in Nat /\ Len(kept) \in Nat /\ kept \in Seq(Record)
    BY LenProperties DEF BookTypeOK
  <2>2. \A i \in (loaded + 1)..Len(kept) : kept[i] \in Record
    BY <2>1, ElementOfSeq
  <2> QED
    BY <2>1, <2>2, SubSeqProperties
<1> QED
  BY <1>1, OnlyType DEF OfWatched

LEMMA WatchedAppend ==
  ASSUME BookTypeOK, NEW r \in Record, kept' = Append(kept, r), loaded' = loaded
  PROVE  OfWatched' = IF r.provider = Watched THEN Append(OfWatched, r) ELSE OfWatched
<1>1. loaded \in Nat /\ Len(kept) \in Nat /\ kept \in Seq(Record) /\ loaded <= Len(kept)
  BY LenProperties DEF BookTypeOK
<1> DEFINE k == Append(kept, r)
           a == SubSeq(kept, loaded + 1, Len(kept))
           b == SubSeq(k, loaded + 1, Len(k))
<1>2. k \in Seq(Record) /\ Len(k) = Len(kept) + 1 /\ k[Len(kept) + 1] = r
      /\ \A i \in 1..Len(kept) : k[i] = kept[i]
  BY <1>1, AppendProperties
<1> HIDE DEF k
<1>3. a \in Seq(Record) /\ Len(a) = Len(kept) - loaded
      /\ \A i \in 1..(Len(kept) - loaded) : a[i] = kept[loaded + i]
  <2>1. \A i \in (loaded + 1)..Len(kept) : kept[i] \in Record
    BY <1>1, ElementOfSeq
  <2>2. /\ a \in Seq(Record)
        /\ Len(a) = IF loaded + 1 <= Len(kept) THEN Len(kept) - (loaded + 1) + 1 ELSE 0
        /\ \A i \in 1..(Len(kept) - (loaded + 1) + 1) : a[i] = kept[(loaded + 1) + i - 1]
    BY <1>1, <2>1, SubSeqProperties
  <2> HIDE DEF a
  <2> QED
    BY <1>1, <2>2
<1>4. b \in Seq(Record) /\ Len(b) = Len(kept) - loaded + 1
      /\ \A i \in 1..(Len(kept) - loaded + 1) : b[i] = k[loaded + i]
  <2>1. \A i \in (loaded + 1)..Len(k) : k[i] \in Record
    BY <1>1, <1>2, ElementOfSeq
  <2>2. /\ b \in Seq(Record)
        /\ Len(b) = IF loaded + 1 <= Len(k) THEN Len(k) - (loaded + 1) + 1 ELSE 0
        /\ \A i \in 1..(Len(k) - (loaded + 1) + 1) : b[i] = k[(loaded + 1) + i - 1]
    BY <1>1, <1>2, <2>1, SubSeqProperties
  <2> HIDE DEF b
  <2> QED
    BY SMTT(30), <1>1, <1>2, <2>2
<1> HIDE DEF a, b
<1>5. b = Append(a, r)
  <2>1. /\ Append(a, r) \in Seq(Record) /\ Len(Append(a, r)) = Len(a) + 1
        /\ Append(a, r)[Len(a) + 1] = r /\ \A i \in 1..Len(a) : Append(a, r)[i] = a[i]
    BY <1>3, AppendProperties
  <2>2. ASSUME NEW i \in 1..Len(b) PROVE b[i] = Append(a, r)[i]
    <3>1. CASE i = Len(a) + 1
      <4>1. loaded + i = Len(kept) + 1
        BY <1>1, <1>3, <3>1
      <4> QED
        BY <1>2, <1>3, <1>4, <2>1, <3>1, <4>1
    <3>2. CASE i # Len(a) + 1
      <4>1. i \in 1..Len(a) /\ loaded + i \in 1..Len(kept)
        BY <1>1, <1>3, <1>4, <3>2
      <4> QED
        BY <1>2, <1>3, <1>4, <2>1, <4>1
    <3> QED
      BY <3>1, <3>2
  <2> QED
    BY <1>1, <1>3, <1>4, <2>1, <2>2, SeqEqual
<1> DEFINE S == {q \in Record : q.provider = Watched}
<1>6. OfWatched = Only(a, S) /\ OfWatched' = Only(b, S)
  BY DEF OfWatched, a, b, k
<1>7. r \in S <=> r.provider = Watched
  OBVIOUS
<1> HIDE DEF S
<1>8. Only(Append(a, r), S) = IF r \in S THEN Append(Only(a, S), r) ELSE Only(a, S)
  BY <1>3, OnlyAppend
<1> QED
  BY <1>5, <1>6, <1>7, <1>8

LEMMA EmptyIsNoCount == <<>> \notin Counts
<1> SUFFICES ASSUME <<>> \in Counts PROVE FALSE
  OBVIOUS
<1>1. "total" \in DOMAIN <<>>
  BY DEF Counts
<1>2. DOMAIN <<>> = {}
  OBVIOUS
<1> QED
  BY <1>1, <1>2

LEMMA PrefixOfItself == ASSUME NEW T, NEW s \in Seq(T) PROVE IsPrefix(s, s)
<1>1. Len(s) <= Len(s)
  BY LenProperties
<1> QED
  BY <1>1 DEF IsPrefix

LEMMA PrefixAppend ==
  ASSUME NEW T, NEW s \in Seq(T), NEW t \in Seq(T), NEW x \in T, IsPrefix(s, t)
  PROVE  IsPrefix(s, Append(t, x))
<1> DEFINE a == Append(t, x)
<1>1. Len(s) \in Nat /\ Len(t) \in Nat /\ Len(s) <= Len(t)
      /\ SubSeq(s, 1, Len(s)) = SubSeq(t, 1, Len(s))
  BY LenProperties DEF IsPrefix
<1>2. a \in Seq(T) /\ Len(a) = Len(t) + 1 /\ \A i \in 1..Len(t) : a[i] = t[i]
  BY AppendProperties
<1> HIDE DEF a
<1>3. \A i \in 1..Len(s) : i \in 1..Len(t) /\ i \in 1..Len(a) /\ a[i] = t[i] /\ t[i] \in T /\ a[i] \in T
  BY <1>1, <1>2, ElementOfSeq
<1>4. /\ SubSeq(t, 1, Len(s)) \in Seq(T) /\ Len(SubSeq(t, 1, Len(s))) = Len(s)
      /\ \A i \in 1..Len(s) : SubSeq(t, 1, Len(s))[i] = t[i]
  BY <1>1, <1>3, SubSeqProperties
<1>5. /\ SubSeq(a, 1, Len(s)) \in Seq(T) /\ Len(SubSeq(a, 1, Len(s))) = Len(s)
      /\ \A i \in 1..Len(s) : SubSeq(a, 1, Len(s))[i] = a[i]
  BY <1>1, <1>3, SubSeqProperties
<1>6. SubSeq(t, 1, Len(s)) = SubSeq(a, 1, Len(s))
  BY <1>3, <1>4, <1>5, SeqEqual
<1> QED
  BY <1>1, <1>2, <1>6 DEF IsPrefix, a

(* A save that succeeds files everything; one that fails spoils what was   *)
(* promised.                                                               *)
LEMMA SaveKeepsBooks ==
  ASSUME BookTypeOK, Recorded, SaveUsage, data' \in Counts, kept' \in Seq(Record),
         Agrees(data', kept')
  PROVE  /\ usageFile' \in Counts \cup {<<>>, Torn} /\ filed' \in Seq(Record)
         /\ lastSave' \in FirstTime..LastTime /\ dirty' \in BOOLEAN /\ spoiled' \in BOOLEAN
         /\ Recorded' /\ Lossless'
<1>1. CASE /\ usageFile' = data' /\ filed' = kept'
           /\ dirty' = FALSE /\ lastSave' = time /\ spoiled' = FALSE
  <2>1. usageFile' \notin {<<>>, Torn}
    BY <1>1, EmptyIsNoCount, UsageBooksAssumption
  <2>2. Recorded'
    BY <1>1, <2>1 DEF Recorded
  <2>3. IsPrefix(filed', kept') /\ (Len(filed') + 1)..Len(kept') = {}
    <3>1. Len(kept') \in Nat
      BY LenProperties
    <3>2. \A n \in Nat : (n + 1)..n = {}
      OBVIOUS
    <3> QED
      BY <1>1, <3>1, <3>2, PrefixOfItself
  <2>4. Lossless'
    BY <1>1, <2>3 DEF Lossless, LossIsRecent
  <2> QED
    BY <1>1, <2>2, <2>4 DEF BookTypeOK
<1>2. CASE /\ \/ UNCHANGED <<usageFile, filed>>
              \/ usageFile' = Torn /\ filed' = <<>>
           /\ dirty' = TRUE /\ spoiled' = TRUE
           /\ UNCHANGED lastSave
  <2>1. filed' \in Seq(Record) /\ usageFile' \in Counts \cup {<<>>, Torn}
    <3>1. <<>> \in Seq(Record)
      OBVIOUS
    <3>2. filed \in Seq(Record) /\ usageFile \in Counts \cup {<<>>, Torn}
      BY DEF BookTypeOK
    <3> QED
      BY <1>2, <3>1, <3>2
  <2>2. Recorded'
    BY <1>2 DEF Recorded
  <2>3. Lossless'
    BY <1>2 DEF Lossless, LossIsRecent
  <2> QED
    BY <1>2, <2>1, <2>2, <2>3 DEF BookTypeOK
<1> QED
  BY <1>1, <1>2 DEF SaveUsage

(* What no step but a record or a restart changes.                         *)
LEMMA SameWindows ==
  ASSUME WindowsTrue, UNCHANGED <<time, usage, kept, loaded>> PROVE WindowsTrue'
BY DEF WindowsTrue, CountsSince, OfWatched

LEMMA RecordKeepsBooks ==
  ASSUME BooksInv, NEW p \in Provs, NEW m \in UsedModels, NEW n \in Amounts, RecordUsage(p, m, n)
  PROVE  BooksInv'
<1> DEFINE r == [provider |-> p, model |-> m, tokens |-> n, day |-> Today, at |-> time]
<1>1. BookTypeOK /\ Recorded /\ Lossless /\ WindowsTrue
  BY DEF BooksInv
<1>2. time \in FirstTime..LastTime /\ time \in Nat /\ time' = time
  BY <1>1, UsageBooksAssumption DEF BookTypeOK, RecordUsage
<1>3. r \in Record /\ r.at = time /\ r.provider = p /\ r.tokens = n
  BY <1>2, TodayIsADay DEF Record
<1>4. /\ running /\ running' = running /\ quota' = quota /\ quotaFile' = quotaFile /\ loaded' = loaded
      /\ data' = Entered(r) /\ kept' = Append(kept, r)
      /\ usage' = IF p = Watched THEN Counted(Reset(usage, Windows), n) ELSE usage
      /\ IF SaveDue THEN SaveUsage ELSE dirty' = TRUE /\ Unsaved
  BY DEF RecordUsage
<1> HIDE DEF r
<1>5. kept \in Seq(Record) /\ filed \in Seq(Record) /\ data \in Counts /\ usage \in UsageType
      /\ loaded \in 0..Len(kept)
  BY <1>1 DEF BookTypeOK, UsageType
<1>6. kept' \in Seq(Record) /\ Len(kept') = Len(kept) + 1 /\ kept'[Len(kept) + 1] = r
      /\ \A i \in 1..Len(kept) : kept'[i] = kept[i]
  BY <1>3, <1>4, <1>5, AppendProperties
<1>7. data' \in Counts /\ Agrees(data', kept')
  BY <1>1, <1>3, <1>4, <1>5, EnteredAgrees DEF Recorded
<1>8. usage' \in UsageType /\ WindowsTrue'
  <2>1. OfWatched \in Seq(Record)
    BY <1>1, WatchedType
  <2>2. OfWatched' = IF p = Watched THEN Append(OfWatched, r) ELSE OfWatched
    BY <1>1, <1>3, <1>4, WatchedAppend
  <2>3. CASE p = Watched
    <3> DEFINE u == Reset(usage, Windows)
    <3>1. u \in UsageType /\ \A w \in Windows : CountsSince(OfWatched, u, w)
            /\ time - u[w].start <= WindowLength[w]
      BY <1>1, <1>2, <1>5, <2>1, ResetIsTrue DEF WindowsTrue
    <3> HIDE DEF u
    <3>2. /\ Counted(u, n) \in UsageType
          /\ \A w \in Windows : CountsSince(Append(OfWatched, r), Counted(u, n), w)
      BY <1>2, <1>3, <2>1, <3>1, CountedIsTrue
    <3>3. usage' = Counted(u, n) /\ OfWatched' = Append(OfWatched, r)
      BY <1>4, <2>2, <2>3 DEF u
    <3> QED
      BY <1>2, <3>2, <3>3 DEF WindowsTrue, CountsSince
  <2>4. CASE p # Watched
    <3>1. usage' = usage /\ OfWatched' = OfWatched
      BY <1>4, <2>2, <2>4
    <3> QED
      BY <1>1, <1>2, <1>5, <3>1 DEF WindowsTrue, CountsSince
  <2> QED
    BY <2>3, <2>4
<1>9. loaded' \in 0..Len(kept')
  <2>1. Len(kept) \in Nat
    BY <1>5, LenProperties
  <2> QED
    BY <1>4, <1>5, <1>6, <2>1
<1>10. /\ usageFile' \in Counts \cup {<<>>, Torn} /\ filed' \in Seq(Record)
       /\ lastSave' \in FirstTime..LastTime /\ dirty' \in BOOLEAN /\ spoiled' \in BOOLEAN
       /\ Recorded' /\ Lossless'
  <2>1. CASE SaveDue
    BY <1>1, <1>4, <1>6, <1>7, <2>1, SaveKeepsBooks
  <2>2. CASE ~SaveDue
    <3>1. /\ dirty' = TRUE /\ usageFile' = usageFile /\ filed' = filed /\ lastSave' = lastSave
          /\ spoiled' = spoiled
      BY <1>4, <2>2 DEF Unsaved
    <3>2. Recorded'
      BY <1>1, <1>7, <3>1 DEF Recorded
    <3>3. Lossless'
      <4> SUFFICES ASSUME ~spoiled'
                   PROVE  /\ IsPrefix(filed', kept')
                          /\ \A i \in (Len(filed') + 1)..Len(kept') :
                               running' /\ kept'[i].at <= lastSave' + SaveInterval
        BY <3>1 DEF Lossless, LossIsRecent
      <4>1. /\ IsPrefix(filed, kept)
            /\ \A i \in (Len(filed) + 1)..Len(kept) : running /\ kept[i].at <= lastSave + SaveInterval
        BY <1>1, <3>1 DEF Lossless, LossIsRecent
      <4>2. IsPrefix(filed', kept')
        BY <1>3, <1>4, <1>5, <3>1, <4>1, PrefixAppend
      <4>3. r.at <= lastSave + SaveInterval
        <5>1. lastSave \in Nat /\ SaveInterval \in Nat
          BY <1>1, UsageBooksAssumption DEF BookTypeOK
        <5> QED
          BY <1>2, <1>3, <2>2, <5>1 DEF SaveDue
      <4>4. \A i \in (Len(filed) + 1)..(Len(kept) + 1) :
              i = Len(kept) + 1 \/ (i \in (Len(filed) + 1)..Len(kept) /\ i \in 1..Len(kept))
        <5>1. Len(filed) \in Nat /\ Len(kept) \in Nat
          BY <1>5, LenProperties
        <5> QED
          BY <5>1
      <4> QED
        BY <1>4, <1>6, <3>1, <4>1, <4>2, <4>3, <4>4
    <3> QED
      BY <1>1, <3>1, <3>2, <3>3 DEF BookTypeOK
  <2> QED
    BY <2>1, <2>2
<1>11. BookTypeOK'
  BY <1>1, <1>2, <1>4, <1>6, <1>7, <1>8, <1>9, <1>10 DEF BookTypeOK, UsageType
<1> QED
  BY <1>8, <1>10, <1>11 DEF BooksInv

LEMMA StopKeepsBooks == ASSUME BooksInv, Stop PROVE BooksInv'
<1>1. BookTypeOK /\ Recorded /\ Lossless /\ WindowsTrue
  BY DEF BooksInv
<1>2. /\ running' = FALSE /\ time' = time /\ UNCHANGED quotas /\ UNCHANGED <<data, kept, loaded>>
      /\ IF dirty THEN SaveUsage ELSE UNCHANGED dirty /\ Unsaved
  BY DEF Stop
<1>3. WindowsTrue'
  BY <1>1, <1>2, SameWindows DEF quotas
<1>4. /\ usageFile' \in Counts \cup {<<>>, Torn} /\ filed' \in Seq(Record)
      /\ lastSave' \in FirstTime..LastTime /\ dirty' \in BOOLEAN /\ spoiled' \in BOOLEAN
      /\ Recorded' /\ Lossless'
  <2>1. CASE dirty
    <3>1. data' \in Counts /\ kept' \in Seq(Record) /\ Agrees(data', kept')
      BY <1>1, <1>2 DEF BookTypeOK, Recorded
    <3> QED
      BY <1>1, <1>2, <2>1, <3>1, SaveKeepsBooks
  <2>2. CASE ~dirty
    <3>1. /\ dirty' = dirty /\ usageFile' = usageFile /\ filed' = filed /\ lastSave' = lastSave
          /\ spoiled' = spoiled
      BY <1>2, <2>2 DEF Unsaved
    <3>2. Recorded'
      BY <1>1, <1>2, <3>1 DEF Recorded
    <3>3. Lossless'
      <4> SUFFICES ASSUME ~spoiled PROVE Lossless'
        BY <3>1 DEF Lossless, LossIsRecent
      <4>1. filed = kept /\ IsPrefix(filed, kept)
        BY <1>1, <2>2 DEF Lossless, LossIsRecent
      <4>2. (Len(kept) + 1)..Len(kept) = {}
        <5>1. Len(kept) \in Nat
          BY <1>1, LenProperties DEF BookTypeOK
        <5> QED
          BY <5>1
      <4> QED
        BY <1>2, <3>1, <4>1, <4>2 DEF Lossless, LossIsRecent
    <3> QED
      BY <1>1, <3>1, <3>2, <3>3 DEF BookTypeOK
  <2> QED
    BY <2>1, <2>2
<1>5. BookTypeOK'
  BY <1>1, <1>2, <1>4 DEF BookTypeOK, quotas
<1> QED
  BY <1>3, <1>4, <1>5 DEF BooksInv

LEMMA RestartKeepsBooks == ASSUME BooksInv, Restart PROVE BooksInv'
<1>1. BookTypeOK /\ Recorded /\ Lossless /\ WindowsTrue
  BY DEF BooksInv
<1>2. /\ running' = TRUE /\ usage' = Unused /\ quota' = LoadedQuota
      /\ data' = IF usageFile \in {<<>>, Torn} THEN Fresh ELSE usageFile
      /\ kept' = filed /\ loaded' = Len(filed)
      /\ dirty' = FALSE /\ lastSave' = time /\ spoiled' = FALSE
      /\ UNCHANGED <<time, quotaFile, usageFile, filed>>
  BY DEF Restart
<1>3. filed \in Seq(Record) /\ Len(filed) \in Nat
  BY <1>1, LenProperties DEF BookTypeOK
<1>4. data' \in Counts /\ Agrees(data', kept')
  BY <1>1, <1>2, FreshAgrees DEF BookTypeOK, Recorded
<1>5. Recorded'
  BY <1>1, <1>2, <1>4 DEF Recorded
<1>6. Lossless'
  <2>1. (Len(filed) + 1)..Len(filed) = {} /\ IsPrefix(filed, filed)
    BY <1>3, PrefixOfItself
  <2> QED
    BY <1>2, <2>1 DEF Lossless, LossIsRecent
<1>7. LoadedQuota \in Limitations
  <2>1. quotaFile \notin {<<>>, Torn} => quotaFile \in Limitations
    BY <1>1 DEF BookTypeOK
  <2>2. KnownLimits \in Limitations
    BY UsageBooksAssumption
  <2>3. \A l, q \in Limitations : Limits(l, q) \in Limitations
    BY DEF Limits, Limitations
  <2> QED
    BY <2>1, <2>2, <2>3 DEF LoadedQuota
<1>8. Unused \in UsageType
  BY UsageBooksAssumption DEF Unused, UsageType
<1>9. WindowsTrue'
  <2>1. OfWatched' = <<>>
    <3>1. SubSeq(filed, Len(filed) + 1, Len(filed)) = <<>>
      <4>1. Len(filed) + 1 \in Int /\ Len(filed) \in Int /\ Len(filed) < Len(filed) + 1
        BY <1>3
      <4> QED
        BY <4>1, SubSeqEmpty
    <3> QED
      BY <1>2, <3>1, OnlyEmpty DEF OfWatched
  <2>2. time \in Nat /\ time' = time
    BY <1>1, <1>2, UsageBooksAssumption DEF BookTypeOK
  <2>3. ASSUME NEW w \in Windows PROVE CountsSince(<<>>, Unused, w)
    <3>1. Unused[w] = [count |-> 0, tokens |-> 0, start |-> 0]
      BY DEF Unused
    <3>2. CountOf(<<>>, {r \in Record : r.at >= Unused[w].start}) = Nothing
      BY CountEmpty
    <3> QED
      BY <2>2, <3>1, <3>2, ToSetEmpty DEF CountsSince, Nothing
  <2> QED
    BY <1>2, <2>1, <2>2, <2>3 DEF WindowsTrue, CountsSince
<1>10. BookTypeOK'
  <2>1. Len(filed) \in 0..Len(filed)
    BY <1>3
  <2> QED
    BY <1>1, <1>2, <1>3, <1>4, <1>7, <1>8, <2>1 DEF BookTypeOK, UsageType
<1> QED
  BY <1>5, <1>6, <1>9, <1>10 DEF BooksInv

LEMMA OthersKeepBooks ==
  ASSUME BooksInv,
         \/ \E ws : ReadQuota(ws)
         \/ \E l \in NewLimits : SetQuota(l)
         \/ Crash \/ BookTick \/ UNCHANGED bookVars
  PROVE  BooksInv'
<1>1. BookTypeOK /\ Recorded /\ Lossless /\ WindowsTrue
  BY DEF BooksInv
<1>2. ASSUME NEW ws, ReadQuota(ws) PROVE BooksInv'
  <2>1. usage' = Reset(usage, ws \cup VerdictWindows)
        /\ UNCHANGED <<time, running, quota, quotaFile>> /\ UNCHANGED books
    BY <1>2 DEF ReadQuota
  <2>2. OfWatched \in Seq(Record) /\ usage \in UsageType /\ time \in FirstTime..LastTime
    BY <1>1, WatchedType DEF BookTypeOK, UsageType
  <2>3. usage' \in UsageType /\ \A w \in Windows : CountsSince(OfWatched, usage', w)
    BY <1>1, <2>1, <2>2, ResetIsTrue DEF WindowsTrue
  <2>4. OfWatched' = OfWatched /\ time' = time
    BY <2>1 DEF OfWatched, books
  <2>5. WindowsTrue'
    BY <2>3, <2>4 DEF WindowsTrue, CountsSince
  <2>6. BookTypeOK'
    BY <1>1, <2>1, <2>3 DEF BookTypeOK, UsageType, books
  <2>7. Recorded' /\ Lossless'
    BY <1>1, <2>1 DEF Recorded, Lossless, LossIsRecent, books
  <2> QED
    BY <2>5, <2>6, <2>7 DEF BooksInv
<1>3. ASSUME NEW l \in NewLimits, SetQuota(l) PROVE BooksInv'
  <2>1. UNCHANGED <<time, running, usage>> /\ UNCHANGED books
        /\ quota' = Limits(l, quota) /\ quotaFile' \in {quota', quotaFile, Torn}
    BY <1>3 DEF SetQuota
  <2>2. quota' \in Limitations
    <3>1. l \in [rpm : Nat, rpd : Nat, daily : Nat] /\ quota \in Limitations
      BY <1>1, UsageBooksAssumption DEF BookTypeOK
    <3> QED
      BY <2>1, <3>1 DEF Limits, Limitations
  <2>3. WindowsTrue'
    BY <1>1, <2>1, SameWindows DEF books
  <2>4. Recorded' /\ Lossless'
    BY <1>1, <2>1 DEF Recorded, Lossless, LossIsRecent, books
  <2>5. BookTypeOK'
    BY <1>1, <2>1, <2>2 DEF BookTypeOK, books
  <2> QED
    BY <2>3, <2>4, <2>5 DEF BooksInv
<1>4. CASE Crash
  <2>1. /\ running' = FALSE /\ spoiled' = TRUE
        /\ UNCHANGED <<time, usage, quota, quotaFile, data, dirty, lastSave, kept, loaded>>
        /\ \/ UNCHANGED <<usageFile, filed>>
           \/ usageFile' = Torn /\ filed' = <<>>
    BY <1>4 DEF Crash, quotas
  <2>2. WindowsTrue'
    BY <1>1, <2>1, SameWindows
  <2>3. Recorded' /\ Lossless'
    BY <1>1, <2>1 DEF Recorded, Lossless, LossIsRecent
  <2>4. BookTypeOK'
    <3>1. <<>> \in Seq(Record)
      OBVIOUS
    <3>2. filed \in Seq(Record) /\ usageFile \in Counts \cup {<<>>, Torn}
      BY <1>1 DEF BookTypeOK
    <3>3. filed' \in Seq(Record) /\ usageFile' \in Counts \cup {<<>>, Torn}
      BY <2>1, <3>1, <3>2
    <3> QED
      BY <1>1, <2>1, <3>3 DEF BookTypeOK
  <2> QED
    BY <2>2, <2>3, <2>4 DEF BooksInv
<1>5. CASE BookTick
  <2>1. /\ time' = time + 1 /\ time < LastTime
        /\ running' = running /\ UNCHANGED <<usage, quota, quotaFile>> /\ UNCHANGED books
    BY <1>5 DEF BookTick, quotas
  <2>2. time' \in FirstTime..LastTime /\ time \in Nat
    BY <1>1, <2>1, UsageBooksAssumption DEF BookTypeOK
  <2>3. OfWatched' = OfWatched
    BY <2>1 DEF OfWatched, books
  <2>4. WindowsTrue'
    <3>1. \A w \in Windows : usage[w].start \in Nat
      BY <1>1 DEF BookTypeOK
    <3>2. \A w \in Windows : usage[w].start <= time => usage[w].start <= time + 1
      BY <2>2, <3>1
    <3> QED
      BY <1>1, <2>1, <2>3, <3>2 DEF WindowsTrue, CountsSince
  <2>5. Recorded' /\ Lossless'
    BY <1>1, <2>1 DEF Recorded, Lossless, LossIsRecent, books
  <2>6. BookTypeOK'
    BY <1>1, <2>1, <2>2 DEF BookTypeOK, books
  <2> QED
    BY <2>4, <2>5, <2>6 DEF BooksInv
<1>6. CASE UNCHANGED bookVars
  <2>1. WindowsTrue'
    BY <1>1, <1>6, SameWindows DEF bookVars, quotas, books
  <2>2. Recorded' /\ Lossless' /\ BookTypeOK'
    BY <1>1, <1>6 DEF Recorded, Lossless, LossIsRecent, BookTypeOK, bookVars, quotas, books
  <2> QED
    BY <2>1, <2>2 DEF BooksInv
<1> QED
  BY <1>2, <1>3, <1>4, <1>5, <1>6

LEMMA BooksStep ==
  /\ BookInit => BooksInv
  /\ BooksInv /\ [BookNext]_bookVars => BooksInv'
<1>1. ASSUME BookInit PROVE BooksInv
  <2>1. /\ time = FirstTime /\ running = TRUE
        /\ usage = Unused /\ quota = KnownLimits /\ quotaFile = <<>>
        /\ data = Fresh /\ usageFile = <<>> /\ dirty = FALSE /\ lastSave = FirstTime
        /\ kept = <<>> /\ filed = <<>> /\ loaded = 0 /\ spoiled = FALSE
    BY <1>1 DEF BookInit
  <2>2. <<>> \in Seq(Record) /\ Len(<<>>) = 0
    OBVIOUS
  <2>3. Unused \in UsageType /\ FirstTime \in FirstTime..LastTime /\ FirstTime \in Nat
        /\ KnownLimits \in Limitations
    BY UsageBooksAssumption DEF Unused, UsageType
  <2>4. BookTypeOK
    <3>1. 0 \in 0..0
      OBVIOUS
    <3> QED
      BY <2>1, <2>2, <2>3, <3>1, FreshAgrees DEF BookTypeOK, UsageType
  <2>5. Recorded
    BY <2>1, FreshAgrees DEF Recorded
  <2>6. Lossless
    <3>1. IsPrefix(<<>>, <<>>)
      BY <2>2, PrefixOfItself
    <3>2. (0 + 1)..0 = {}
      OBVIOUS
    <3> QED
      BY <2>1, <2>2, <3>1, <3>2 DEF Lossless, LossIsRecent
  <2>7. OfWatched = <<>>
    <3>1. SubSeq(<<>>, 0 + 1, Len(<<>>)) = <<>>
      BY SubSeqEmpty
    <3> QED
      BY <2>1, <3>1, OnlyEmpty DEF OfWatched
  <2>8. ASSUME NEW w \in Windows PROVE CountsSince(<<>>, Unused, w)
    <3>1. Unused[w] = [count |-> 0, tokens |-> 0, start |-> 0]
      BY DEF Unused
    <3>2. CountOf(<<>>, {r \in Record : r.at >= Unused[w].start}) = Nothing
      BY CountEmpty
    <3> QED
      BY <2>1, <2>3, <3>1, <3>2, ToSetEmpty DEF CountsSince, Nothing
  <2> QED
    BY <2>1, <2>4, <2>5, <2>6, <2>7, <2>8 DEF BooksInv, WindowsTrue
<1>2. ASSUME BooksInv, [BookNext]_bookVars PROVE BooksInv'
  BY <1>2, RecordKeepsBooks, StopKeepsBooks, RestartKeepsBooks, OthersKeepBooks DEF BookNext
<1> QED
  BY <1>1, <1>2

(* The four counters of tracking.py are each the count of the same records,*)
(* over saves that fail, crashes and restarts (record, _save, _load).      *)
THEOREM BooksAlwaysAgree == BookSpec => []BooksAgree
<1>1. BooksInv => BooksAgree
  BY DEF BooksInv, Recorded, BooksAgree
<1> QED
  BY <1>1, BooksStep, PTL DEF BookSpec

(* While saves succeed, a crash loses only what was recorded within        *)
(* SaveInterval of the last save, and a shutdown nothing (_maybe_save,     *)
(* flush).                                                                 *)
THEOREM LossesAreRecent == BookSpec => []LossIsRecent
<1>1. BooksInv => LossIsRecent
  BY DEF BooksInv, Lossless
<1> QED
  BY <1>1, BooksStep, PTL DEF BookSpec

LEMMA WindowsTell == BooksInv => QuotaIsRecent
<1> SUFFICES ASSUME BooksInv PROVE QuotaIsRecent
  OBVIOUS
<1>1. /\ OfWatched \in Seq(Record) /\ usage \in UsageType /\ time \in FirstTime..LastTime
      /\ time \in Nat /\ quota \in Limitations
  BY WatchedType, UsageBooksAssumption DEF BooksInv, BookTypeOK, UsageType
<1>2. \A r \in ToSet(OfWatched) : r \in Record
  <2> DEFINE o == OfWatched
  <2>1. ASSUME NEW i \in DOMAIN o PROVE o[i] \in Record
    <3> HIDE DEF o
    <3>1. o \in Seq(Record)
      BY <1>1 DEF o
    <3> QED
      BY <3>1, LenProperties, ElementOfSeq
  <2> QED
    BY <2>1 DEF ToSet
<1>3. ASSUME NEW ws, NEW w \in Windows \cap ws
      PROVE  /\ Reset(usage, ws)[w].count <= RecentOf(w).requests
             /\ Reset(usage, ws)[w].tokens <= RecentOf(w).tokens
             /\ Reset(usage, ws)[w].count \in Nat /\ Reset(usage, ws)[w].tokens \in Nat
  <2> DEFINE v == Reset(usage, ws)
             S == {r \in Record : r.at >= v[w].start}
             R == {r \in Record : time - r.at <= WindowLength[w]}
  <2>1. v \in UsageType /\ CountsSince(OfWatched, v, w) /\ time - v[w].start <= WindowLength[w]
    BY <1>1, ResetIsTrue DEF BooksInv, WindowsTrue
  <2> HIDE DEF v
  <2>2. v[w].start \in Nat /\ WindowLength[w] \in Nat /\ v[w].count \in Nat /\ v[w].tokens \in Nat
    BY <2>1, UsageBooksAssumption DEF UsageType
  <2>3. ASSUME NEW r \in ToSet(OfWatched), r \in S PROVE r \in R
    <3>1. r \in Record /\ r.at \in Nat /\ r.at >= v[w].start
      BY <1>2, <2>3, UsageBooksAssumption DEF Record
    <3>2. time - r.at <= WindowLength[w]
      BY <1>1, <2>1, <2>2, <3>1
    <3> QED
      BY <3>1, <3>2
  <2> HIDE DEF S, R
  <2>4. /\ CountOf(OfWatched, S).requests <= CountOf(OfWatched, R).requests
        /\ CountOf(OfWatched, S).tokens <= CountOf(OfWatched, R).tokens
    BY <1>1, <2>3, CountMonotone
  <2>5. v[w].count = CountOf(OfWatched, S).requests /\ v[w].tokens = CountOf(OfWatched, S).tokens
    BY <2>1 DEF CountsSince, S
  <2> QED
    BY <2>2, <2>4, <2>5 DEF RecentOf, R, v
<1>4. ShownIsRecent
  BY <1>3 DEF ShownIsRecent
<1>5. WindowsCountAll
  BY DEF BooksInv, WindowsTrue, CountsSince, WindowsCountAll
<1>6. RefusalIsRecent
  <2> DEFINE v == Reset(usage, VerdictWindows)
  <2>1. "minute" \in Windows \cap VerdictWindows /\ "day" \in Windows \cap VerdictWindows
        /\ "month" \in Windows /\ "month" \notin VerdictWindows
    BY DEF Windows, VerdictWindows
  <2>2. v["month"] = usage["month"]
    BY <2>1 DEF Reset
  <2>3. /\ v["minute"].count <= RecentOf("minute").requests /\ v["day"].count <= RecentOf("day").requests
        /\ v["day"].tokens <= RecentOf("day").tokens
        /\ v["minute"].count \in Nat /\ v["day"].count \in Nat /\ v["day"].tokens \in Nat
    BY <1>3, <2>1
  <2>4. \A w \in Windows : RecentOf(w).requests \in Nat /\ RecentOf(w).tokens \in Nat
    BY <1>1, CountType DEF RecentOf, Counter
  <2> HIDE DEF v
  <2>5. \A l, a, b \in Nat : ~Under(l, a) /\ a <= b => ~Under(l, b)
    BY DEF Under
  <2>6. quota.rpm \in Nat /\ quota.rpd \in Nat /\ quota.daily \in Nat
    BY <1>1 DEF Limitations
  <2>7. ASSUME ~Within(v, quota), Under(quota.monthly, usage["month"].tokens)
        PROVE  \/ ~Under(quota.rpm, v["minute"].count) \/ ~Under(quota.rpd, v["day"].count)
               \/ ~Under(quota.daily, v["day"].tokens)
    BY <2>2, <2>7 DEF Within
  <2>8. "minute" \in Windows /\ "day" \in Windows
    BY DEF Windows
  <2> QED
    BY <2>3, <2>4, <2>5, <2>6, <2>7, <2>8 DEF RefusalIsRecent, v
<1> QED
  BY <1>4, <1>5, <1>6 DEF QuotaIsRecent

(* A quota window tells what was sent in it, no more and no less, and a    *)
(* refusal rests on that (reset_if_expired, is_within_limits).             *)
THEOREM QuotasAreRecent == BookSpec => []QuotaIsRecent
BY WindowsTell, BooksStep, PTL DEF BookSpec

-----------------------------------------------------------------------------
(***************************************************************************)
(* RateWindows.                                                            *)
(***************************************************************************)
(* The times, and the bookings, of the last w at time n. *)
SentAt(n, w) == {t \in 1..Horizon : t + w > n}
BookedAt(n, w) == {r \in Booking : r.at + w > n}

LEMMA Lengths ==
  /\ Minute \in Nat /\ Minute > 0 /\ Day \in Nat /\ Day > 0 /\ Minute <= Day
  /\ Cooldown \in Nat /\ Cooldown > 0 /\ MaxAttempts \in Nat /\ MaxAttempts > 0
  /\ Horizon \in Nat /\ Horizon > 0 /\ Estimates \subseteq Nat /\ Tokens \subseteq Nat
  /\ "none" \notin Models /\ EntryLimits \in [Models -> LimitRecords]
  /\ SetLimits \subseteq LimitRecords /\ NoLimits \in LimitRecords
  /\ ProviderRpm \in Nat /\ ProviderRpd \in Nat
  BY RateWindowsAssumption DEF RateWindowsAssumption, NoLimits, LimitRecords

LEMMA SpentType == Spent \in [Booking -> Nat]
  BY Lengths DEF Spent, Booking

LEMMA Wider ==
  ASSUME NEW S, NEW T, S \subseteq T, NEW s \in Seq(S)
  PROVE  s \in Seq(T)
  OBVIOUS

LEMMA AreWindows ==
  \A w : /\ Lately(w) = BookedAt(now, w)
         /\ \A s : Recent(s, w) = Only(s, SentAt(now, w))
  BY DEF Lately, Recent, Inside, SentAt, BookedAt

LEMMA AreHistories ==
  ASSUME now \in Nat, NEW w \in Nat
  PROVE  /\ LastSends(w) = Len(Only(sends, SentAt(now, w)))
         /\ \A m \in Models : LastBooked(m, w) = Only(booked[m], BookedAt(now, w))
<1>1. {t \in 1..Horizon : now - t < w} = SentAt(now, w)
  BY Lengths DEF SentAt
<1>2. {r \in Booking : now - r.at < w} = BookedAt(now, w)
  <2>1. \A r \in Booking : now - r.at < w <=> r.at + w > now
    BY DEF Booking
  <2> QED
    BY <2>1 DEF BookedAt
<1> QED
  BY <1>1, <1>2 DEF LastSends, LastBooked

(* What two lists agree on, they agree on a part of. *)
LEMMA AgreeLess ==
  ASSUME NEW T, NEW s \in Seq(T), NEW r \in Seq(T), NEW S, NEW R, R \subseteq S,
         Only(s, S) = Only(r, S)
  PROVE  Only(s, R) = Only(r, R)
<1>1. S \cap R = R
  OBVIOUS
<1>2. Only(Only(s, S), R) = Only(s, S \cap R) /\ Only(Only(r, S), R) = Only(r, S \cap R)
  BY OnlyTwice
<1> QED
  BY <1>1, <1>2

LEMMA AgreePruned ==
  ASSUME NEW T, NEW s \in Seq(T), NEW S
  PROVE  Only(Only(s, S), S) = Only(s, S)
<1>1. S \cap S = S
  OBVIOUS
<1> QED
  BY <1>1, OnlyTwice

LEMMA AgreeAppended ==
  ASSUME NEW T, NEW s \in Seq(T), NEW r \in Seq(T), NEW S, NEW x \in T,
         Only(s, S) = Only(r, S)
  PROVE  Only(Append(s, x), S) = Only(Append(r, x), S)
<1>1. /\ Only(Append(s, x), S) = IF x \in S THEN Append(Only(s, S), x) ELSE Only(s, S)
      /\ Only(Append(r, x), S) = IF x \in S THEN Append(Only(r, S), x) ELSE Only(r, S)
  BY OnlyAppend
<1> QED
  BY <1>1

LEMMA Narrower ==
  ASSUME NEW n \in Nat, NEW k \in Nat, n <= k, NEW v \in Nat, NEW w \in Nat, v <= w
  PROVE  SentAt(k, v) \subseteq SentAt(n, w) /\ BookedAt(k, v) \subseteq BookedAt(n, w)
  BY DEF SentAt, BookedAt, Booking
-----------------------------------------------------------------------------
PlanType == [model : Models \cup {"none"}, tries : 0..MaxAttempts, estimate : Estimates \cup {0}]

(* The lists and the clock have their types; planned has its in RateTypeOK. *)
Timed ==
  /\ now \in 1..Horizon
  /\ minute \in Seq(1..now) /\ day \in Seq(1..now) /\ sends \in Seq(1..now)
  /\ buckets \in [Models -> Seq([at : 1..now, tokens : Tokens])]
  /\ booked \in [Models -> Seq([at : 1..now, tokens : Tokens])]
PlansTyped ==
  /\ limits \in [Models -> LimitRecords]
  /\ cooldowns \in [Models -> 0..(now + Cooldown)]
  /\ planned \in [Callers -> PlanType]
  /\ honest \in BOOLEAN

LEMMA TypeParts == (RateTypeOK <=> Timed /\ PlansTyped) /\ (RateTypeOK' <=> Timed' /\ PlansTyped')
  BY DEF RateTypeOK, Timed, PlansTyped, PlanType

LEMMA PrunedTypes ==
  ASSUME RateTypeOK
  PROVE  /\ \A w : Recent(minute, w) \in Seq(1..now) /\ Recent(day, w) \in Seq(1..now)
         /\ \A m \in Models : Pruned(buckets[m]) \in Seq([at : 1..now, tokens : Tokens])
<1>1. Timed
  BY TypeParts
<1> QED
  BY <1>1, OnlyType DEF Timed, Recent, Pruned

LEMMA RegisteredType ==
  ASSUME RateTypeOK, NEW m \in Models
  PROVE  Registered(m) \in LimitRecords
  BY TypeParts, Lengths DEF PlansTyped, Registered

(* An action without the clock keeps the types. *)
LEMMA StartTyped == RateInit => RateTypeOK
<1> SUFFICES ASSUME RateInit PROVE RateTypeOK
  OBVIOUS
<1> DEFINE E == <<>>
<1>1. \A S : E \in Seq(S)
  OBVIOUS
<1>2. minute = E /\ day = E /\ sends = E /\ buckets = [m \in Models |-> E] /\ booked = buckets
  BY DEF RateInit
<1> HIDE DEF E
<1>3. Timed
  BY <1>1, <1>2, Lengths DEF RateInit, Timed
<1>4. Idle \in PlanType
  BY Lengths DEF Idle, PlanType
<1>5. PlansTyped
  BY <1>4, Lengths DEF RateInit, PlansTyped
<1> QED
  BY <1>3, <1>5, TypeParts

LEMMA PlanTyped ==
  ASSUME RateTypeOK, NEW c \in Callers, NEW m \in Models, NEW e \in Estimates, Plan(c, m, e)
  PROVE  RateTypeOK'
<1>1. Timed /\ PlansTyped
  BY TypeParts
<1>2. Timed'
  <2>1. minute' \in Seq(1..now) /\ day' \in Seq(1..now)
    BY PrunedTypes DEF Plan, PruneLimiter
  <2>2. \/ buckets' = buckets
        \/ buckets' = [buckets EXCEPT ![m] = Pruned(@)]
    BY <1>1 DEF Plan, Timed
  <2>3. buckets' \in [Models -> Seq([at : 1..now, tokens : Tokens])]
    BY <1>1, <2>2, PrunedTypes DEF Timed
  <2>4. now' = now /\ sends' = sends /\ booked' = booked
    BY DEF Plan
  <2> QED
    BY <1>1, <2>1, <2>3, <2>4 DEF Timed
<1>3. PlansTyped'
  <2>1. limits' = limits \/ limits' = [limits EXCEPT ![m] = Registered(m)]
    BY DEF Plan
  <2>2. cooldowns' = cooldowns \/ cooldowns' = [cooldowns EXCEPT ![m] = 0]
    BY DEF Plan
  <2>3. \/ planned' = planned
        \/ planned' = [planned EXCEPT ![c] = [model |-> m, tries |-> 0, estimate |-> e]]
    BY DEF Plan
  <2>4. [model |-> m, tries |-> 0, estimate |-> e] \in PlanType
    BY Lengths DEF PlanType
  <2>5. now' = now /\ honest' = honest
    BY DEF Plan
  <2>6. limits' \in [Models -> LimitRecords]
    BY <1>1, <2>1, RegisteredType DEF PlansTyped
  <2>7. cooldowns' \in [Models -> 0..(now + Cooldown)]
    <3>1. 0 \in 0..(now + Cooldown)
      BY <1>1, Lengths DEF Timed
    <3> QED
      BY <1>1, <2>2, <3>1 DEF PlansTyped
  <2>8. planned' \in [Callers -> PlanType]
    BY <1>1, <2>3, <2>4 DEF PlansTyped
  <2> QED
    BY <1>1, <2>5, <2>6, <2>7, <2>8 DEF PlansTyped
<1> QED
  BY <1>2, <1>3, TypeParts

LEMMA SendTyped ==
  ASSUME RateTypeOK, NEW c \in Callers, Send(c)
  PROVE  RateTypeOK'
<1>1. Timed /\ PlansTyped
  BY TypeParts
<1>2. now \in 1..now
  BY <1>1 DEF Timed
<1>3. Timed'
  <2>1. minute' \in Seq(1..now) /\ day' \in Seq(1..now) /\ sends' \in Seq(1..now)
    BY <1>1, <1>2, PrunedTypes, AppendProperties DEF Send, Timed
  <2> QED
    BY <1>1, <2>1 DEF Timed, Send
<1>4. PlansTyped'
  <2>1. planned[c] \in PlanType /\ planned[c].tries < MaxAttempts
    BY <1>1 DEF PlansTyped, Send
  <2>2. [planned[c] EXCEPT !.tries = @ + 1] \in PlanType
    BY <2>1, Lengths DEF PlanType
  <2>3. planned' = [planned EXCEPT ![c] = [planned[c] EXCEPT !.tries = @ + 1]]
    BY <1>1 DEF Send, PlansTyped
  <2> QED
    BY <1>1, <2>2, <2>3 DEF PlansTyped, Send
<1> QED
  BY <1>3, <1>4, TypeParts

LEMMA AnsweredIs ==
  ASSUME RateTypeOK, NEW c \in Callers, Answered(c)
  PROVE  planned' \in [Callers -> PlanType] /\ planned' = [planned EXCEPT ![c] = Idle]
<1>1. PlansTyped
  BY TypeParts
<1>2. Idle \in PlanType
  BY Lengths DEF Idle, PlanType
<1> QED
  BY <1>1, <1>2 DEF PlansTyped, Answered

LEMMA BookTyped ==
  ASSUME RateTypeOK, NEW c \in Callers, NEW t \in Tokens, Book(c, t)
  PROVE  RateTypeOK'
<1> DEFINE m == planned[c].model
           r == [at |-> now, tokens |-> t]
<1>1. Timed /\ PlansTyped /\ Answered(c)
  BY TypeParts DEF Book
<1>2. r \in [at : 1..now, tokens : Tokens]
  BY <1>1 DEF Timed
<1>3. buckets' = [buckets EXCEPT ![m] = Append(@, r)] /\ booked' = [booked EXCEPT ![m] = Append(@, r)]
  BY DEF Book
<1> HIDE DEF m, r
<1>4. /\ buckets' \in [Models -> Seq([at : 1..now, tokens : Tokens])]
      /\ booked' \in [Models -> Seq([at : 1..now, tokens : Tokens])]
  BY <1>1, <1>2, <1>3, AppendProperties DEF Timed
<1>5. Timed'
  BY <1>1, <1>4 DEF Timed, Book
<1>6. PlansTyped'
  <2>1. planned' \in [Callers -> PlanType]
    BY <1>1, AnsweredIs
  <2>2. honest' \in BOOLEAN
    BY DEF Book
  <2> QED
    BY <1>1, <2>1, <2>2 DEF PlansTyped, Book
<1> QED
  BY <1>5, <1>6, TypeParts

LEMMA EndTyped ==
  ASSUME RateTypeOK, NEW c \in Callers, CoolDown(c) \/ GiveUp(c)
  PROVE  RateTypeOK'
<1>1. Timed /\ PlansTyped /\ Answered(c)
  BY TypeParts DEF CoolDown, GiveUp
<1>2. Timed'
  BY <1>1 DEF Timed, CoolDown, GiveUp, windows
<1>3. cooldowns' = cooldowns \/ \E m : cooldowns' = [cooldowns EXCEPT ![m] = now + Cooldown]
  BY DEF CoolDown, GiveUp, windows
<1>4. now + Cooldown \in 0..(now + Cooldown)
  BY <1>1, Lengths DEF Timed
<1>5. cooldowns' \in [Models -> 0..(now + Cooldown)]
  BY <1>1, <1>3, <1>4 DEF PlansTyped
<1>6. planned' \in [Callers -> PlanType]
  BY <1>1, AnsweredIs
<1> QED
  BY <1>1, <1>2, <1>5, <1>6, TypeParts DEF PlansTyped, CoolDown, GiveUp, windows

LEMMA OtherTyped ==
  ASSUME RateTypeOK,
         (\E m \in Models, l \in SetLimits : SetLimit(m, l)) \/ Report \/ CleanUp \/ RateTick
         \/ UNCHANGED rateVars
  PROVE  RateTypeOK'
<1>1. Timed /\ PlansTyped
  BY TypeParts
<1>2. CASE \E m \in Models, l \in SetLimits : SetLimit(m, l)
  <2>1. PICK m \in Models, l \in SetLimits : SetLimit(m, l)
    BY <1>2
  <2>2. l \in LimitRecords
    BY Lengths
  <2>3. Timed' /\ PlansTyped'
    BY <1>1, <2>1, <2>2 DEF SetLimit, Timed, PlansTyped
  <2> QED
    BY <2>3, TypeParts
<1>3. CASE Report
  <2>1. Timed' /\ PlansTyped'
    BY <1>1, <1>3, PrunedTypes DEF Report, PruneLimiter, Timed, PlansTyped
  <2> QED
    BY <2>1, TypeParts
<1>4. CASE CleanUp
  <2>1. Timed'
    BY <1>1, <1>4, PrunedTypes DEF CleanUp, Timed
  <2>2. PlansTyped'
    BY <1>1, <1>4, Lengths DEF CleanUp, PlansTyped
  <2> QED
    BY <2>1, <2>2, TypeParts
<1>5. CASE RateTick
  <2>1. now \in Nat /\ now < Horizon /\ now' = now + 1
    BY <1>1, <1>5, Lengths DEF RateTick, Timed
  <2>2. now' \in 1..Horizon /\ 1..now \subseteq 1..now'
        /\ 0..(now + Cooldown) \subseteq 0..(now' + Cooldown)
    BY <2>1, Lengths
  <2>3. [at : 1..now, tokens : Tokens] \subseteq [at : 1..now', tokens : Tokens]
    BY <2>2
  <2>4. \A m \in Models : /\ buckets[m] \in Seq([at : 1..now', tokens : Tokens])
                          /\ booked[m] \in Seq([at : 1..now', tokens : Tokens])
    <3> SUFFICES ASSUME NEW m \in Models
                 PROVE  /\ buckets[m] \in Seq([at : 1..now', tokens : Tokens])
                        /\ booked[m] \in Seq([at : 1..now', tokens : Tokens])
      OBVIOUS
    <3>1. /\ buckets[m] \in Seq([at : 1..now, tokens : Tokens])
          /\ booked[m] \in Seq([at : 1..now, tokens : Tokens])
      BY <1>1 DEF Timed
    <3> DEFINE A == [at : 1..now, tokens : Tokens]
               B == [at : 1..now', tokens : Tokens]
    <3> HIDE DEF A, B
    <3>2. A \subseteq B /\ buckets[m] \in Seq(A) /\ booked[m] \in Seq(A)
      BY <2>3, <3>1 DEF A, B
    <3>3. buckets[m] \in Seq(B) /\ booked[m] \in Seq(B)
      BY <3>2, Wider
    <3> QED
      BY <3>3 DEF B
  <2>5. minute \in Seq(1..now') /\ day \in Seq(1..now') /\ sends \in Seq(1..now')
    BY <1>1, <2>2, Wider DEF Timed
  <2>6. UNCHANGED <<windows, planned, sends, booked, honest>>
    BY <1>5 DEF RateTick
  <2>7. Timed'
    BY <1>1, <2>2, <2>4, <2>5, <2>6 DEF Timed, windows
  <2>8. PlansTyped'
    BY <1>1, <2>2, <2>6 DEF PlansTyped, windows
  <2> QED
    BY <2>7, <2>8, TypeParts
<1>6. CASE UNCHANGED rateVars
  BY <1>1, <1>6, TypeParts DEF rateVars, windows, Timed, PlansTyped
<1> QED
  BY <1>2, <1>3, <1>4, <1>5, <1>6

-----------------------------------------------------------------------------
(* A caller that has been planned has a model. *)
PlannedHaveModels == \A c \in Callers : planned[c].model = "none" => planned[c] = Idle

(* What was pruned from the lists is in no window any more. *)
Kept ==
  /\ Only(minute, SentAt(now, Minute)) = Only(sends, SentAt(now, Minute))
  /\ Only(day, SentAt(now, Day)) = Only(sends, SentAt(now, Day))
  /\ \A m \in Models : Only(buckets[m], BookedAt(now, Day)) = Only(booked[m], BookedAt(now, Day))

KeptInv == RateTypeOK /\ PlannedHaveModels /\ Kept

LEMMA Listed ==
  ASSUME RateTypeOK
  PROVE  /\ now \in 1..Horizon /\ now \in Nat
         /\ minute \in Seq(1..Horizon) /\ day \in Seq(1..Horizon) /\ sends \in Seq(1..Horizon)
         /\ buckets \in [Models -> Seq(Booking)] /\ booked \in [Models -> Seq(Booking)]
<1>1. Timed
  BY TypeParts
<1>2. now \in 1..Horizon /\ now \in Nat
  BY <1>1, Lengths DEF Timed
<1>3. 1..now \subseteq 1..Horizon
  BY <1>2, Lengths
<1>4. [at : 1..now, tokens : Tokens] \subseteq Booking
  BY <1>3 DEF Booking
<1>5. minute \in Seq(1..Horizon) /\ day \in Seq(1..Horizon) /\ sends \in Seq(1..Horizon)
  BY <1>1, <1>3, Wider DEF Timed
<1>6. buckets \in [Models -> Seq(Booking)] /\ booked \in [Models -> Seq(Booking)]
  <2> DEFINE A == [at : 1..now, tokens : Tokens]
  <2>1. buckets \in [Models -> Seq(A)] /\ booked \in [Models -> Seq(A)] /\ A \subseteq Booking
    BY <1>1, <1>4 DEF Timed
  <2> HIDE DEF A
  <2>2. \A m \in Models : buckets[m] \in Seq(Booking) /\ booked[m] \in Seq(Booking)
    <3> SUFFICES ASSUME NEW m \in Models
                 PROVE  buckets[m] \in Seq(Booking) /\ booked[m] \in Seq(Booking)
      OBVIOUS
    <3>1. buckets[m] \in Seq(A) /\ booked[m] \in Seq(A)
      BY <2>1
    <3> QED
      BY <2>1, <3>1, Wider
  <2> QED
    BY <2>1, <2>2
<1> QED
  BY <1>2, <1>5, <1>6

(* A list that is pruned, extended or left alone agrees with its history,  *)
(* which is extended with it.                                              *)
LEMMA LimiterPruned ==
  ASSUME KeptInv, minute' = Recent(minute, Minute), day' = Recent(day, Day), now' = now, sends' = sends
  PROVE  /\ Only(minute', SentAt(now', Minute)) = Only(sends', SentAt(now', Minute))
         /\ Only(day', SentAt(now', Day)) = Only(sends', SentAt(now', Day))
<1> DEFINE S == SentAt(now, Minute)
           D == SentAt(now, Day)
<1>1. minute' = Only(minute, S) /\ day' = Only(day, D)
  BY AreWindows
<1>2. Only(minute, S) = Only(sends, S) /\ Only(day, D) = Only(sends, D)
  BY DEF KeptInv, Kept
<1>3. SentAt(now', Minute) = S /\ SentAt(now', Day) = D
  OBVIOUS
<1> HIDE DEF S, D
<1>4. Only(Only(minute, S), S) = Only(minute, S) /\ Only(Only(day, D), D) = Only(day, D)
  BY Listed, AgreePruned DEF KeptInv
<1> QED
  BY <1>1, <1>2, <1>3, <1>4

LEMMA BucketPruned ==
  ASSUME KeptInv, NEW m \in Models
  PROVE  Only(Pruned(buckets[m]), BookedAt(now, Day)) = Only(booked[m], BookedAt(now, Day))
<1> DEFINE D == BookedAt(now, Day)
<1>1. Pruned(buckets[m]) = Only(buckets[m], D)
  BY AreWindows DEF Pruned
<1>2. Only(buckets[m], D) = Only(booked[m], D)
  BY DEF KeptInv, Kept
<1> HIDE DEF D
<1>3. buckets[m] \in Seq(Booking)
  BY Listed DEF KeptInv
<1>4. Only(Only(buckets[m], D), D) = Only(buckets[m], D)
  BY <1>3, AgreePruned
<1> QED
  BY <1>1, <1>2, <1>4 DEF D

LEMMA PlanKeeps ==
  ASSUME KeptInv, NEW c \in Callers, NEW m \in Models, NEW e \in Estimates, Plan(c, m, e)
  PROVE  Kept' /\ PlannedHaveModels'
<1>1. Timed /\ PlansTyped
  BY TypeParts DEF KeptInv
<1>2. now' = now /\ sends' = sends /\ booked' = booked
  BY DEF Plan
<1>3. \A k \in Models : buckets'[k] = buckets[k] \/ buckets'[k] = Pruned(buckets[k])
  BY <1>1 DEF Plan, Timed
<1>4. \A k \in Models : Only(buckets'[k], BookedAt(now, Day)) = Only(booked[k], BookedAt(now, Day))
  BY <1>3, BucketPruned DEF KeptInv, Kept
<1>5. Kept'
  BY <1>2, <1>4, LimiterPruned DEF Kept, Plan, PruneLimiter
<1>6. PlannedHaveModels'
  <2>1. \/ planned' = planned
        \/ planned' = [planned EXCEPT ![c] = [model |-> m, tries |-> 0, estimate |-> e]]
    BY DEF Plan
  <2>2. m # "none"
    BY Lengths
  <2> QED
    BY <1>1, <2>1, <2>2 DEF KeptInv, PlannedHaveModels, PlansTyped
<1> QED
  BY <1>5, <1>6

LEMMA SendKeeps ==
  ASSUME KeptInv, NEW c \in Callers, Send(c)
  PROVE  Kept' /\ PlannedHaveModels'
<1>1. Timed /\ PlansTyped
  BY TypeParts DEF KeptInv
<1>2. now' = now /\ buckets' = buckets /\ booked' = booked
  BY DEF Send
<1> DEFINE S == SentAt(now, Minute)
           D == SentAt(now, Day)
<1>3. minute' = Append(Only(minute, S), now) /\ day' = Append(Only(day, D), now)
      /\ sends' = Append(sends, now)
  BY AreWindows DEF Send
<1>4. Only(minute, S) = Only(sends, S) /\ Only(day, D) = Only(sends, D)
  BY DEF KeptInv, Kept
<1>5. SentAt(now', Minute) = S /\ SentAt(now', Day) = D
  BY <1>2
<1> HIDE DEF S, D
<1>6. now \in 1..Horizon /\ minute \in Seq(1..Horizon) /\ day \in Seq(1..Horizon)
      /\ sends \in Seq(1..Horizon)
  BY Listed DEF KeptInv
<1>7. Only(Only(minute, S), S) = Only(minute, S) /\ Only(Only(day, D), D) = Only(day, D)
      /\ Only(minute, S) \in Seq(1..Horizon) /\ Only(day, D) \in Seq(1..Horizon)
  BY <1>6, AgreePruned, OnlyType
<1>8. Only(minute', S) = Only(sends', S)
  <2> DEFINE p == Only(minute, S)
  <2>1. minute' = Append(p, now) /\ sends' = Append(sends, now) /\ p \in Seq(1..Horizon)
        /\ Only(p, S) = Only(sends, S)
    BY <1>3, <1>4, <1>7
  <2> DEFINE T == 1..Horizon
  <2> HIDE DEF p, T
  <2>2. p \in Seq(T) /\ sends \in Seq(T) /\ now \in T
    BY <1>6, <2>1 DEF T
  <2>3. Only(Append(p, now), S) = Only(Append(sends, now), S)
    BY <2>1, <2>2, AgreeAppended
  <2> QED
    BY <2>1, <2>3
<1>9. Only(day', D) = Only(sends', D)
  <2> DEFINE p == Only(day, D)
  <2>1. day' = Append(p, now) /\ sends' = Append(sends, now) /\ p \in Seq(1..Horizon)
        /\ Only(p, D) = Only(sends, D)
    BY <1>3, <1>4, <1>7
  <2> DEFINE T == 1..Horizon
  <2> HIDE DEF p, T
  <2>2. p \in Seq(T) /\ sends \in Seq(T) /\ now \in T
    BY <1>6, <2>1 DEF T
  <2>3. Only(Append(p, now), D) = Only(Append(sends, now), D)
    BY <2>1, <2>2, AgreeAppended
  <2> QED
    BY <2>1, <2>3
<1>10. Kept'
  BY <1>2, <1>5, <1>8, <1>9 DEF KeptInv, Kept
<1>11. PlannedHaveModels'
  <2>1. planned[c] # Idle /\ planned' = [planned EXCEPT ![c].tries = @ + 1]
    BY DEF Send
  <2>2. \A d \in Callers : planned'[d].model = planned[d].model /\ (d # c => planned'[d] = planned[d])
    BY <1>1, <2>1 DEF PlansTyped, PlanType
  <2> QED
    BY <2>1, <2>2 DEF KeptInv, PlannedHaveModels
<1> QED
  BY <1>10, <1>11

LEMMA AnsweredHaveModels ==
  ASSUME KeptInv, NEW c \in Callers, Answered(c)
  PROVE  planned[c].model \in Models /\ PlannedHaveModels'
<1>1. PlansTyped
  BY TypeParts DEF KeptInv
<1>2. planned[c] \in PlanType /\ planned[c].tries > 0
  BY <1>1 DEF PlansTyped, Answered
<1>3. planned[c] # Idle
  BY <1>2 DEF Idle
<1>4. planned[c].model \in Models
  BY <1>2, <1>3 DEF KeptInv, PlannedHaveModels, PlanType
<1>5. PlannedHaveModels'
  BY <1>1 DEF KeptInv, PlannedHaveModels, Answered, PlansTyped
<1> QED
  BY <1>4, <1>5

LEMMA BookKeeps ==
  ASSUME KeptInv, NEW c \in Callers, NEW t \in Tokens, Book(c, t)
  PROVE  Kept' /\ PlannedHaveModels'
<1> DEFINE m == planned[c].model
           r == [at |-> now, tokens |-> t]
           D == BookedAt(now, Day)
<1>1. m \in Models /\ PlannedHaveModels'
  BY AnsweredHaveModels DEF Book
<1>2. r \in Booking /\ buckets \in [Models -> Seq(Booking)] /\ booked \in [Models -> Seq(Booking)]
  BY Listed DEF KeptInv, Booking
<1>3. UNCHANGED <<now, minute, day, sends>>
  BY DEF Book
<1>4. buckets' = [buckets EXCEPT ![m] = Append(@, r)] /\ booked' = [booked EXCEPT ![m] = Append(@, r)]
  BY DEF Book
<1> HIDE DEF m, r, D
<1>5. \A k \in Models : Only(buckets[k], D) = Only(booked[k], D)
  BY DEF KeptInv, Kept, D
<1>6. Only(Append(buckets[m], r), D) = Only(Append(booked[m], r), D)
  BY <1>1, <1>2, <1>5, AgreeAppended
<1>7. \A k \in Models : Only(buckets'[k], D) = Only(booked'[k], D)
  BY <1>1, <1>2, <1>4, <1>5, <1>6
<1>8. Kept'
  BY <1>3, <1>7 DEF KeptInv, Kept, D
<1> QED
  BY <1>1, <1>8

LEMMA TickKeeps ==
  ASSUME KeptInv, RateTick
  PROVE  Kept' /\ PlannedHaveModels'
<1>1. now \in Nat /\ now' = now + 1 /\ UNCHANGED <<minute, day, buckets, planned, sends, booked>>
  BY Listed DEF KeptInv, RateTick, windows
<1>2. /\ SentAt(now', Minute) \subseteq SentAt(now, Minute)
      /\ SentAt(now', Day) \subseteq SentAt(now, Day)
      /\ BookedAt(now', Day) \subseteq BookedAt(now, Day)
  BY <1>1, Lengths, Narrower
<1>3. RateTypeOK /\ Kept
  BY DEF KeptInv
<1>4. Only(minute, SentAt(now', Minute)) = Only(sends, SentAt(now', Minute))
  BY <1>2, <1>3, Listed, AgreeLess DEF Kept
<1>5. Only(day, SentAt(now', Day)) = Only(sends, SentAt(now', Day))
  BY <1>2, <1>3, Listed, AgreeLess DEF Kept
<1>6. ASSUME NEW m \in Models
      PROVE  Only(buckets[m], BookedAt(now', Day)) = Only(booked[m], BookedAt(now', Day))
  <2>1. buckets[m] \in Seq(Booking) /\ booked[m] \in Seq(Booking)
        /\ Only(buckets[m], BookedAt(now, Day)) = Only(booked[m], BookedAt(now, Day))
    BY <1>3, Listed DEF Kept
  <2> QED
    BY <1>2, <2>1, AgreeLess
<1>7. Kept'
  BY <1>1, <1>4, <1>5, <1>6 DEF Kept
<1> QED
  BY <1>1, <1>7 DEF KeptInv, PlannedHaveModels

LEMMA OthersKeep ==
  ASSUME KeptInv,
         \/ \E c \in Callers : CoolDown(c) \/ GiveUp(c)
         \/ \E m \in Models, l \in SetLimits : SetLimit(m, l)
         \/ Report \/ CleanUp \/ UNCHANGED rateVars
  PROVE  Kept' /\ PlannedHaveModels'
<1>1. CASE \E c \in Callers : CoolDown(c) \/ GiveUp(c)
  <2>1. PICK c \in Callers : CoolDown(c) \/ GiveUp(c)
    BY <1>1
  <2>2. Answered(c) /\ UNCHANGED <<now, minute, day, buckets, sends, booked>>
    BY <2>1 DEF CoolDown, GiveUp, windows
  <2> QED
    BY <2>2, AnsweredHaveModels DEF KeptInv, Kept
<1>2. CASE \E m \in Models, l \in SetLimits : SetLimit(m, l)
  BY <1>2 DEF SetLimit, KeptInv, Kept, PlannedHaveModels
<1>3. CASE Report
  <2>1. now' = now /\ sends' = sends /\ booked' = booked /\ planned' = planned
        /\ buckets' = [m \in Models |-> Pruned(buckets[m])]
    BY <1>3 DEF Report
  <2>2. Kept'
    BY <1>3, <2>1, LimiterPruned, BucketPruned DEF Kept, Report, PruneLimiter
  <2> QED
    BY <2>1, <2>2 DEF KeptInv, PlannedHaveModels
<1>4. CASE CleanUp
  <2>1. UNCHANGED <<now, minute, day, planned, sends, booked>>
        /\ buckets' = [m \in Models |-> Pruned(buckets[m])]
    BY <1>4 DEF CleanUp
  <2>2. Kept'
    BY <2>1, BucketPruned DEF KeptInv, Kept
  <2> QED
    BY <2>1, <2>2 DEF KeptInv, PlannedHaveModels
<1>5. CASE UNCHANGED rateVars
  BY <1>5 DEF rateVars, windows, KeptInv, Kept, PlannedHaveModels
<1> QED
  BY <1>1, <1>2, <1>3, <1>4, <1>5

LEMMA KeptStart == RateInit => KeptInv
<1> SUFFICES ASSUME RateInit PROVE KeptInv
  OBVIOUS
<1>1. RateTypeOK
  BY StartTyped
<1>2. PlannedHaveModels
  BY DEF RateInit, PlannedHaveModels
<1>3. minute = sends /\ day = sends /\ buckets = booked
  BY DEF RateInit
<1> QED
  BY <1>1, <1>2, <1>3 DEF KeptInv, Kept

LEMMA KeptStep == KeptInv /\ [RateNext]_rateVars => KeptInv'
<1> SUFFICES ASSUME KeptInv, [RateNext]_rateVars PROVE KeptInv'
  OBVIOUS
<1>1. RateTypeOK
  BY DEF KeptInv
<1>2. CASE \E c \in Callers, m \in Models, e \in Estimates : Plan(c, m, e)
  BY <1>1, <1>2, PlanTyped, PlanKeeps DEF KeptInv
<1>3. CASE \E c \in Callers : Send(c)
  BY <1>1, <1>3, SendTyped, SendKeeps DEF KeptInv
<1>4. CASE \E c \in Callers, t \in Tokens : Book(c, t)
  BY <1>1, <1>4, BookTyped, BookKeeps DEF KeptInv
<1>5. CASE \E c \in Callers : CoolDown(c) \/ GiveUp(c)
  BY <1>1, <1>5, EndTyped, OthersKeep DEF KeptInv
<1>6. CASE \/ \E m \in Models, l \in SetLimits : SetLimit(m, l)
           \/ Report \/ CleanUp \/ UNCHANGED rateVars
  BY <1>1, <1>6, OtherTyped, OthersKeep DEF KeptInv
<1>7. CASE RateTick
  BY <1>1, <1>7, OtherTyped, TickKeeps DEF KeptInv
<1> QED
  BY <1>2, <1>3, <1>4, <1>5, <1>6, <1>7 DEF RateNext

(* The variables of the windows have the types the code gives them         *)
(* (rate_limiter.py, rate_tracker.py).                                     *)
THEOREM WindowsTyped == RateSpec => []RateTypeOK
<1>1. RateSpec => []KeptInv
  BY KeptStart, KeptStep, PTL DEF RateSpec
<1>2. KeptInv => RateTypeOK
  BY DEF KeptInv
<1> QED
  BY <1>1, <1>2, PTL

LEMMA WindowsAgree ==
  ASSUME KeptInv, NEW w \in {Minute, Day}
  PROVE  \A m \in Models : Only(buckets[m], Lately(w)) = LastBooked(m, w)
<1> SUFFICES ASSUME NEW m \in Models PROVE Only(buckets[m], Lately(w)) = LastBooked(m, w)
  OBVIOUS
<1>1. w \in Nat /\ w <= Day /\ Day \in Nat
  BY Lengths
<1>2. now \in Nat /\ buckets[m] \in Seq(Booking) /\ booked[m] \in Seq(Booking)
  BY Listed DEF KeptInv
<1>3. BookedAt(now, w) \subseteq BookedAt(now, Day)
  BY <1>1, <1>2, Narrower
<1>4. Only(buckets[m], BookedAt(now, Day)) = Only(booked[m], BookedAt(now, Day))
  BY DEF KeptInv, Kept
<1>5. Only(buckets[m], BookedAt(now, w)) = Only(booked[m], BookedAt(now, w))
  BY <1>2, <1>3, <1>4, AgreeLess
<1>6. LastBooked(m, w) = Only(booked[m], BookedAt(now, w)) /\ Lately(w) = BookedAt(now, w)
  BY <1>1, <1>2, AreHistories, AreWindows
<1> QED
  BY <1>5, <1>6

(* Whatever plans, reports and cleanups prune, the tracker's answer to the *)
(* next request is that of all requests since the start (rate_tracker.py,  *)
(* is_limited).                                                            *)
THEOREM PruningIsSafe == RateSpec => []PruningLosesNothing
<1>1. RateSpec => []KeptInv
  BY KeptStart, KeptStep, PTL DEF RateSpec
<1>2. KeptInv => PruningLosesNothing
  BY WindowsAgree DEF PruningLosesNothing, Requests, TokensIn, SumTokens
<1> QED
  BY <1>1, <1>2, PTL

-----------------------------------------------------------------------------
(* What is planned and not answered yet is as good as counted: the         *)
(* requests of a model, and the attempts that each of them may still make. *)
Pending(m) == {c \in Callers : planned[c].model = m}
ToMake == {k \in Callers \X (1..MaxAttempts) : planned[k[1]] # Idle /\ k[2] > planned[k[1]].tries}

RequestsBound(m, w, limit) ==
  limit > 0 => Len(LastBooked(m, w)) + Cardinality(Pending(m)) <= limit + Others

AttemptsBound(w, limit) ==
  limit > 0 => LastSends(w) + Cardinality(ToMake) <= limit + Cardinality(Callers) * MaxAttempts - 1

(* A pending request may have t tokens; one of them, the last that was     *)
(* planned, only what it was estimated to have.                            *)
TokensBound(m, limit, t) ==
  LET sum == SumTokens(LastBooked(m, Minute))
      n == Cardinality(Pending(m))
      most == limit + Others * t
  IN  honest => \/ sum + n * t <= most
                \/ \E c \in Pending(m) : sum + planned[c].estimate + n * t <= most + t

Largest == {t \in Tokens : \A u \in Tokens : u <= t}

Bounded ==
  /\ \A m \in Models : LET l == EntryLimits[m] IN
       /\ RequestsBound(m, Minute, l.rpm)
       /\ RequestsBound(m, Day, l.rpd)
       /\ \A t \in Largest : l.tpm > 0 => TokensBound(m, l.tpm, t)
  /\ AttemptsBound(Minute, ProviderRpm)
  /\ AttemptsBound(Day, ProviderRpd)

RatesInv == KeptInv /\ Bounded

LEMMA CallersCount ==
  /\ IsFiniteSet(Callers) /\ Cardinality(Callers) \in Nat /\ Cardinality(Callers) > 0
  /\ Others \in Nat /\ Others + 1 = Cardinality(Callers)
<1>1. IsFiniteSet(Callers) /\ Callers # {}
  BY RateWindowsAssumption DEF RateWindowsAssumption
<1>2. Cardinality(Callers) \in Nat /\ Cardinality(Callers) # 0
  BY <1>1, FS_CardinalityType, FS_EmptySet
<1> QED
  BY <1>1, <1>2 DEF Others

LEMMA PendingCount ==
  ASSUME NEW m
  PROVE  /\ IsFiniteSet(Pending(m)) /\ Cardinality(Pending(m)) \in Nat
         /\ Cardinality(Pending(m)) <= Others + 1
         /\ (Pending(m) # {} => Cardinality(Pending(m)) > 0)
<1>1. Pending(m) \in SUBSET Callers
  BY DEF Pending
<1>2. IsFiniteSet(Pending(m)) /\ Cardinality(Pending(m)) <= Cardinality(Callers)
  BY <1>1, CallersCount, FS_Subset
<1>3. Cardinality(Pending(m)) \in Nat /\ (Pending(m) # {} => Cardinality(Pending(m)) # 0)
  BY <1>2, FS_CardinalityType, FS_EmptySet
<1> QED
  BY <1>2, <1>3, CallersCount

LEMMA SlotsCount ==
  ASSUME NEW slots \in SUBSET (Callers \X (1..MaxAttempts))
  PROVE  /\ IsFiniteSet(slots) /\ Cardinality(slots) \in Nat
         /\ Cardinality(slots) <= Cardinality(Callers) * MaxAttempts
<1> DEFINE tries == 1..MaxAttempts
           all == Callers \X tries
<1>1. IsFiniteSet(tries) /\ Cardinality(tries) = MaxAttempts
  BY Lengths, FS_Interval
<1> HIDE DEF tries
<1>2. IsFiniteSet(all) /\ Cardinality(all) = Cardinality(Callers) * MaxAttempts
  BY <1>1, CallersCount, FS_Product
<1>3. slots \in SUBSET all
  BY DEF tries
<1> HIDE DEF all
<1>4. IsFiniteSet(slots) /\ Cardinality(slots) <= Cardinality(all)
  BY <1>2, <1>3, FS_Subset
<1> QED
  BY <1>2, <1>4, FS_CardinalityType

LEMMA ToMakeCount ==
  /\ IsFiniteSet(ToMake) /\ Cardinality(ToMake) \in Nat
  /\ Cardinality(ToMake) <= Cardinality(Callers) * MaxAttempts
  BY SlotsCount DEF ToMake

LEMMA ToMakeLater ==
  Cardinality(ToMake') \in Nat /\ Cardinality(ToMake') <= Cardinality(Callers) * MaxAttempts
  BY SlotsCount DEF ToMake

(* The windows lose what leaves them with time and gain what is booked.    *)
LEMMA BookedCounts ==
  ASSUME KeptInv, NEW m \in Models, NEW w \in {Minute, Day}
  PROVE  Len(LastBooked(m, w)) \in Nat /\ SumTokens(LastBooked(m, w)) \in Nat
<1>1. booked[m] \in Seq(Booking)
  BY Listed DEF KeptInv
<1>2. LastBooked(m, w) \in Seq(Booking)
  BY <1>1, OnlyType DEF LastBooked
<1> QED
  BY <1>2, LenProperties, SpentType, SumType DEF SumTokens

LEMMA SendsCount == KeptInv => \A w : LastSends(w) \in Nat
<1> SUFFICES ASSUME KeptInv, NEW w PROVE LastSends(w) \in Nat
  OBVIOUS
<1>1. Only(sends, {t \in 1..Horizon : now - t < w}) \in Seq(1..Horizon)
  BY Listed, OnlyType DEF KeptInv
<1> QED
  BY <1>1, LenProperties DEF LastSends

LEMMA WindowsOnlyAge ==
  ASSUME KeptInv, now' \in Nat, now <= now', booked' = booked, sends' = sends,
         NEW w \in {Minute, Day}
  PROVE  /\ LastSends(w)' <= LastSends(w)
         /\ \A m \in Models : /\ Len(LastBooked(m, w)') <= Len(LastBooked(m, w))
                              /\ SumTokens(LastBooked(m, w)') <= SumTokens(LastBooked(m, w))
<1>1. w \in Nat /\ now \in Nat /\ sends \in Seq(1..Horizon) /\ booked \in [Models -> Seq(Booking)]
  BY Listed, Lengths DEF KeptInv
<1> DEFINE A == {t \in 1..Horizon : now - t < w}
           B == {t \in 1..Horizon : now' - t < w}
           C == {r \in Booking : now - r.at < w}
           D == {r \in Booking : now' - r.at < w}
<1>2. (\A t \in B : t \in A) /\ (\A r \in D : r \in C)
  <2>1. \A n \in Nat, k \in Nat, v \in Nat, t \in Nat : n <= k /\ k - t < v => n - t < v
    OBVIOUS
  <2>2. \A t \in 1..Horizon : t \in Nat
    OBVIOUS
  <2>3. \A r \in Booking : r.at \in 1..Horizon
    BY DEF Booking
  <2>4. \A t \in 1..Horizon : now' - t < w => now - t < w
    <3> HIDE DEF A, B, C, D
    <3> QED
      BY <1>1, <2>1, <2>2
  <2> QED
    BY <2>3, <2>4
<1>3. /\ LastSends(w)' = Len(Only(sends, B)) /\ LastSends(w) = Len(Only(sends, A))
      /\ \A m \in Models : LastBooked(m, w)' = Only(booked[m], D) /\ LastBooked(m, w) = Only(booked[m], C)
  BY DEF LastSends, LastBooked
<1> HIDE DEF A, B, C, D
<1>4. Len(Only(sends, B)) <= Len(Only(sends, A))
  <2> DEFINE f == [t \in 1..Horizon |-> 0]
  <2>1. f \in [1..Horizon -> Nat]
    OBVIOUS
  <2> HIDE DEF f
  <2> QED
    BY <1>1, <1>2, <2>1, OnlyMonotone
<1>5. ASSUME NEW m \in Models
      PROVE  /\ Len(Only(booked[m], D)) <= Len(Only(booked[m], C))
             /\ SumOver(Only(booked[m], D), Spent) <= SumOver(Only(booked[m], C), Spent)
  BY <1>1, <1>2, SpentType, OnlyMonotone
<1> QED
  BY <1>3, <1>4, <1>5 DEF SumTokens

LEMMA WindowsGain ==
  ASSUME KeptInv, NEW m \in Models, NEW r \in Booking, r.at = now, now' = now,
         booked' = [booked EXCEPT ![m] = Append(@, r)], NEW w \in {Minute, Day}
  PROVE  /\ Len(LastBooked(m, w)') = Len(LastBooked(m, w)) + 1
         /\ SumTokens(LastBooked(m, w)') = SumTokens(LastBooked(m, w)) + r.tokens
         /\ \A k \in Models \ {m} : LastBooked(k, w)' = LastBooked(k, w)
<1>1. w \in Nat /\ w > 0 /\ now \in Nat /\ booked \in [Models -> Seq(Booking)]
  BY Listed, Lengths DEF KeptInv
<1> DEFINE S == {q \in Booking : now - q.at < w}
           l == Only(booked[m], S)
<1>2. r \in S
  BY <1>1
<1>3. LastBooked(m, w)' = Only(Append(booked[m], r), S) /\ LastBooked(m, w) = l
  BY <1>1 DEF LastBooked
<1>4. \A k \in Models \ {m} : LastBooked(k, w)' = LastBooked(k, w)
  BY <1>1 DEF LastBooked
<1> HIDE DEF S
<1>5. l \in Seq(Booking) /\ Only(Append(booked[m], r), S) = Append(l, r)
  BY <1>1, <1>2, OnlyType, OnlyAppend
<1> HIDE DEF l
<1>6. Len(Append(l, r)) = Len(l) + 1
  BY <1>5, AppendProperties
<1>7. SumOver(Append(l, r), Spent) = SumOver(l, Spent) + Spent[r]
  BY <1>5, SpentType, SumAppend
<1>8. Spent[r] = r.tokens
  BY DEF Spent
<1> QED
  BY <1>3, <1>4, <1>5, <1>6, <1>7, <1>8 DEF SumTokens

LEMMA EstimatesCount == \A p \in PlanType : p.estimate \in Nat
<1> SUFFICES ASSUME NEW p \in PlanType PROVE p.estimate \in Nat
  OBVIOUS
<1>1. p.estimate \in Estimates \cup {0}
  BY DEF PlanType
<1>2. \A e \in Estimates \cup {0} : e \in Nat
  BY Lengths
<1> QED
  BY <1>1, <1>2, Zenon

LEMMA Times ==
  /\ \A n \in Nat, t \in Nat : n * t \in Nat /\ (n + 1) * t = n * t + t
  /\ \A n \in Nat, k \in Nat, t \in Nat : n <= k => n * t <= k * t
<1>1. \A n \in Nat, t \in Nat : n * t \in Nat /\ (n + 1) * t = n * t + t
  OBVIOUS
<1>2. ASSUME NEW n \in Nat, NEW k \in Nat, NEW t \in Nat, n <= k PROVE n * t <= k * t
  <2>1. PICK d \in Nat : k = n + d
    <3>1. k - n \in Nat /\ k = n + (k - n)
      BY <1>2
    <3> QED
      BY <3>1
  <2>2. (n + d) * t = n * t + d * t /\ d * t \in Nat /\ n * t \in Nat
    OBVIOUS
  <2> QED
    BY <2>1, <2>2
<1> QED
  BY <1>1, <1>2

ModelBound(m) ==
  LET l == EntryLimits[m] IN
  /\ RequestsBound(m, Minute, l.rpm)
  /\ RequestsBound(m, Day, l.rpd)
  /\ \A t \in Largest : l.tpm > 0 => TokensBound(m, l.tpm, t)

LEMMA BoundedIs ==
  /\ Bounded <=> /\ \A m \in Models : ModelBound(m)
                 /\ AttemptsBound(Minute, ProviderRpm) /\ AttemptsBound(Day, ProviderRpd)
  /\ Bounded' <=> /\ \A m \in Models : ModelBound(m)'
                  /\ AttemptsBound(Minute, ProviderRpm)' /\ AttemptsBound(Day, ProviderRpd)'
  BY DEF Bounded, ModelBound

LEMMA EntryType ==
  ASSUME NEW m \in Models
  PROVE  /\ EntryLimits[m] \in LimitRecords
         /\ EntryLimits[m].rpm \in Nat /\ EntryLimits[m].rpd \in Nat /\ EntryLimits[m].tpm \in Nat
         /\ EntryLimits[m].tpd \in Nat
  BY Lengths DEF LimitRecords

(* Fewer in the windows and fewer pending, with estimates as they were. *)
LEMMA ModelBoundKept ==
  ASSUME KeptInv, NEW m \in Models, ModelBound(m), honest' = honest,
         Pending(m)' = Pending(m),
         \A c \in Pending(m) : planned'[c].estimate = planned[c].estimate,
         \A w \in {Minute, Day} :
            /\ Len(LastBooked(m, w)') \in Nat /\ SumTokens(LastBooked(m, w)') \in Nat
            /\ Len(LastBooked(m, w)') <= Len(LastBooked(m, w))
            /\ SumTokens(LastBooked(m, w)') <= SumTokens(LastBooked(m, w))
  PROVE  ModelBound(m)'
<1> DEFINE l == EntryLimits[m]
           n == Cardinality(Pending(m))
<1>1. /\ l.rpm \in Nat /\ l.rpd \in Nat /\ l.tpm \in Nat /\ n \in Nat /\ Others \in Nat
      /\ Tokens \subseteq Nat /\ Estimates \subseteq Nat
  BY EntryType, PendingCount, CallersCount, Lengths
<1>2. Cardinality(Pending(m)') = n
  OBVIOUS
<1> HIDE DEF n, l
<1>3. \A w \in {Minute, Day} : /\ Len(LastBooked(m, w)) \in Nat
                               /\ SumTokens(LastBooked(m, w)) \in Nat
  BY BookedCounts
<1>4. \A w \in {Minute, Day}, limit \in Nat : RequestsBound(m, w, limit) => RequestsBound(m, w, limit)'
  <2> SUFFICES ASSUME NEW w \in {Minute, Day}, NEW limit \in Nat, RequestsBound(m, w, limit), limit > 0
               PROVE  Len(LastBooked(m, w)') + Cardinality(Pending(m)') <= limit + Others
    BY DEF RequestsBound
  <2> DEFINE before == Len(LastBooked(m, w))
             after == Len(LastBooked(m, w)')
  <2>1. before \in Nat /\ after \in Nat /\ after <= before
    BY <1>3
  <2>2. before + n <= limit + Others
    BY DEF RequestsBound, n
  <2> HIDE DEF before, after
  <2>3. after + n <= limit + Others
    BY <1>1, <2>1, <2>2
  <2> QED
    BY <1>2, <2>3 DEF after
<1>5. ASSUME NEW t \in Largest, TokensBound(m, l.tpm, t) PROVE TokensBound(m, l.tpm, t)'
  <2>1. t \in Nat
    BY <1>1 DEF Largest
  <2>2. n * t \in Nat /\ Others * t \in Nat
    BY <1>1, <2>1, Times
  <2>3. \A c \in Pending(m) : planned[c].estimate \in Nat
    <3>1. \A c \in Callers : planned[c] \in PlanType
      BY TypeParts DEF KeptInv, PlansTyped
    <3> QED
      BY <3>1, EstimatesCount DEF Pending
  <2> DEFINE sum == SumTokens(LastBooked(m, Minute))
             later == SumTokens(LastBooked(m, Minute)')
             P == n * t
             most == l.tpm + Others * t
  <2>4. sum \in Nat /\ later \in Nat /\ later <= sum /\ P \in Nat /\ most \in Nat
    BY SMTT(30), <1>1, <1>3, <2>2
  <2>5. honest => \/ sum + P <= most \/ \E c \in Pending(m) : sum + planned[c].estimate + P <= most + t
    BY <1>5 DEF TokensBound, n
  <2>6. most \in Nat
    BY SMTT(30), <1>1, <2>2
  <2>7. ASSUME honest' PROVE \/ later + P <= most
                             \/ \E c \in Pending(m)' : later + planned'[c].estimate + P <= most + t
    <3>2. \A c \in Pending(m) : c \in Pending(m)' /\ planned'[c].estimate = planned[c].estimate
      OBVIOUS
    <3> HIDE DEF sum, later, P, most
    <3>3. CASE sum + P <= most
      BY <2>4, <3>3
    <3>4. CASE \E c \in Pending(m) : sum + planned[c].estimate + P <= most + t
      <4>1. PICK c \in Pending(m) : sum + planned[c].estimate + P <= most + t
        BY <3>4
      <4>2. planned[c].estimate \in Nat
        BY <2>3
      <4>3. later + planned[c].estimate + P <= most + t
        <5> DEFINE e == planned[c].estimate
        <5>1. e \in Nat /\ sum + e + P <= most + t
          BY <4>1, <4>2
        <5>2. t \in Nat
          BY <2>1
        <5> HIDE DEF e
        <5>3. later + e + P <= most + t
          BY <2>4, <2>6, <5>1, <5>2
        <5> QED
          BY <5>3 DEF e
      <4> QED
        BY <3>2, <4>3
    <3> QED
      BY <2>5, <2>7, <3>3, <3>4
  <2> QED
    BY <1>2, <2>7 DEF TokensBound
<1> QED
  BY <1>1, <1>4, <1>5 DEF ModelBound, l

LEMMA AttemptsKept ==
  ASSUME KeptInv, NEW w \in {Minute, Day}, NEW limit \in Nat, AttemptsBound(w, limit),
         LastSends(w)' \in Nat, Cardinality(ToMake') \in Nat,
         LastSends(w)' + Cardinality(ToMake') <= LastSends(w) + Cardinality(ToMake)
  PROVE  AttemptsBound(w, limit)'
<1>1. LastSends(w) \in Nat /\ Cardinality(ToMake) \in Nat
  BY SendsCount, ToMakeCount
<1>2. Cardinality(Callers) * MaxAttempts \in Nat
  BY CallersCount, Lengths, Times
<1> DEFINE most == limit + Cardinality(Callers) * MaxAttempts - 1
<1>3. most \in Int
  BY <1>2
<1>4. limit > 0 => LastSends(w) + Cardinality(ToMake) <= most
  BY DEF AttemptsBound
<1>5. limit > 0 => LastSends(w)' + Cardinality(ToMake') <= most
  <2> HIDE DEF most
  <2> QED
    BY <1>1, <1>3, <1>4
<1> QED
  BY <1>5 DEF AttemptsBound

(* With time, what is in the windows becomes less. *)
LEMMA AgeBounded ==
  ASSUME KeptInv, KeptInv', Bounded, now <= now', UNCHANGED <<planned, sends, booked, honest>>
  PROVE  Bounded'
<1>1. now' \in Nat
  <2>1. RateTypeOK'
    BY DEF KeptInv
  <2> QED
    BY <2>1, TypeParts, Lengths DEF Timed
<1>2. /\ \A m : Pending(m)' = Pending(m)
      /\ ToMake' = ToMake
  BY DEF Pending, ToMake
<1>3. \A w \in {Minute, Day} : LastSends(w)' \in Nat /\ LastSends(w) \in Nat /\ \A m \in Models :
        /\ Len(LastBooked(m, w)') \in Nat /\ SumTokens(LastBooked(m, w)') \in Nat
  <2>1. now' \in Nat /\ booked \in [Models -> Seq(Booking)] /\ sends \in Seq(1..Horizon)
    BY <1>1, Listed DEF KeptInv
  <2>2. \A S : Only(sends, S) \in Seq(1..Horizon) /\ \A m \in Models : Only(booked[m], S) \in Seq(Booking)
    BY <2>1, OnlyType
  <2>3. \A w \in {Minute, Day} : \A m \in Models : LastBooked(m, w)' \in Seq(Booking)
    BY <2>2 DEF LastBooked
  <2>4. \A s \in Seq(Booking) : Len(s) \in Nat /\ SumTokens(s) \in Nat
    BY LenProperties, SpentType, SumType DEF SumTokens
  <2>5. \A w \in {Minute, Day} : LastSends(w)' \in Nat
    BY <2>2, LenProperties DEF LastSends
  <2>6. \A w \in {Minute, Day} : LastSends(w) \in Nat
    BY <2>2, LenProperties DEF LastSends
  <2> QED
    BY <2>3, <2>4, <2>5, <2>6
<1>4. \A m \in Models : ModelBound(m)'
  <2> SUFFICES ASSUME NEW m \in Models PROVE ModelBound(m)'
    OBVIOUS
  <2>1. ModelBound(m)
    BY BoundedIs
  <2>2. \A w \in {Minute, Day} : /\ Len(LastBooked(m, w)') <= Len(LastBooked(m, w))
                                 /\ SumTokens(LastBooked(m, w)') <= SumTokens(LastBooked(m, w))
    BY <1>1, WindowsOnlyAge
  <2>3. \A c \in Pending(m) : planned'[c].estimate = planned[c].estimate
    OBVIOUS
  <2> QED
    BY <1>2, <1>3, <2>1, <2>2, <2>3, ModelBoundKept
<1>5. ASSUME NEW w \in {Minute, Day}, NEW limit \in Nat, AttemptsBound(w, limit) PROVE AttemptsBound(w, limit)'
  <2>1. LastSends(w)' <= LastSends(w)
    BY <1>1, WindowsOnlyAge
  <2>2. Cardinality(ToMake') \in Nat /\ Cardinality(ToMake') = Cardinality(ToMake)
    BY <1>2, ToMakeCount
  <2>3. LastSends(w)' + Cardinality(ToMake') <= LastSends(w) + Cardinality(ToMake)
    BY <1>3, <2>1, <2>2
  <2> QED
    BY <1>3, <1>5, <2>2, <2>3, AttemptsKept
<1> QED
  BY <1>4, <1>5, BoundedIs, Lengths

-----------------------------------------------------------------------------
(* A caller that is answered is no longer pending, and only it.            *)
LEMMA AnsweredLeaves ==
  ASSUME KeptInv, NEW c \in Callers, Answered(c), NEW m, m = planned[c].model
  PROVE  /\ m \in Models /\ c \in Pending(m)
         /\ Pending(m)' = Pending(m) \ {c}
         /\ \A k \in Models \ {m} : c \notin Pending(k) /\ Pending(k)' = Pending(k)
         /\ \A d \in Callers \ {c} : planned'[d] = planned[d]
         /\ ToMake' \subseteq ToMake
         /\ Cardinality(Pending(m)') \in Nat
         /\ Cardinality(Pending(m)) = Cardinality(Pending(m)') + 1
         /\ Cardinality(ToMake') \in Nat /\ Cardinality(ToMake') <= Cardinality(ToMake)
<1>1. m \in Models /\ c \in Pending(m)
  BY AnsweredHaveModels DEF Pending
<1>2. planned \in [Callers -> PlanType] /\ planned' = [planned EXCEPT ![c] = Idle]
  BY TypeParts, AnsweredIs DEF KeptInv, PlansTyped
<1>3. \A d \in Callers \ {c} : planned'[d] = planned[d]
  BY <1>2
<1>4. planned'[c] = Idle /\ Idle.model = "none"
  BY <1>2 DEF Idle
<1>5. \A k \in Models : Pending(k)' = Pending(k) \ {c}
  BY <1>3, <1>4, Lengths DEF Pending
<1>6. \A k \in Models \ {m} : c \notin Pending(k)
  BY DEF Pending
<1>7. ToMake' \subseteq ToMake
  BY <1>3, <1>4 DEF ToMake
<1>8. Cardinality(ToMake') \in Nat /\ Cardinality(ToMake') <= Cardinality(ToMake)
  BY <1>7, ToMakeCount, FS_Subset, FS_CardinalityType
<1> DEFINE P == Pending(m)
<1>9. P \ {c} = Pending(m)' /\ c \in P /\ IsFiniteSet(P) /\ Cardinality(P) \in Nat
  BY <1>1, <1>5, PendingCount
<1>10. Cardinality(P \ {c}) \in Nat /\ Cardinality(P) = Cardinality(P \ {c}) + 1
  <2> HIDE DEF P
  <2>1. IsFiniteSet(P \ {c}) /\ Cardinality(P \ {c}) = Cardinality(P) - 1
    BY <1>9, FS_RemoveElement
  <2> QED
    BY <1>9, <2>1, FS_CardinalityType
<1>11. \A k \in Models \ {m} : Pending(k)' = Pending(k)
  BY <1>5, <1>6
<1> QED
  BY <1>1, <1>3, <1>6, <1>7, <1>8, <1>9, <1>10, <1>11

(* In terms of numbers: the sum with one pending request fewer.            *)
LEMMA OneFewer ==
  ASSUME NEW sum \in Nat, NEW n \in Nat, NEW t \in Nat, NEW most \in Nat, NEW e \in Nat,
         NEW tokens \in Nat, tokens <= t
  PROVE  /\ sum + (n + 1) * t <= most => sum + tokens + n * t <= most
         /\ tokens <= e /\ sum + e + (n + 1) * t <= most + t => sum + tokens + n * t <= most
         /\ \A d \in Nat : sum + d + (n + 1) * t <= most + t => sum + tokens + d + n * t <= most + t
<1> DEFINE P == n * t
<1>1. P \in Nat /\ (n + 1) * t = P + t
  BY Times
<1> HIDE DEF P
<1>2. /\ sum + (P + t) <= most => sum + tokens + P <= most
      /\ tokens <= e /\ sum + e + (P + t) <= most + t => sum + tokens + P <= most
      /\ \A d \in Nat : sum + d + (P + t) <= most + t => sum + tokens + d + P <= most + t
  BY <1>1
<1> QED
  BY <1>1, <1>2 DEF P

(* The tokens of the answer, none when it failed: they are no more than    *)
(* those that were estimated, while all are honest.                        *)
LEMMA AnsweredTokens ==
  ASSUME KeptInv, NEW c \in Callers, Answered(c), NEW t \in Nat, NEW limit \in Nat,
         NEW m, m = planned[c].model,
         NEW tokens \in Nat, tokens <= t, TokensBound(m, limit, t),
         honest' => honest /\ tokens <= planned[c].estimate,
         SumTokens(LastBooked(m, Minute)') = SumTokens(LastBooked(m, Minute)) + tokens
  PROVE  TokensBound(m, limit, t)'
<1> SUFFICES ASSUME honest'
             PROVE  LET sum == SumTokens(LastBooked(m, Minute))
                        n == Cardinality(Pending(m)')
                        most == limit + Others * t
                    IN  \/ sum + tokens + n * t <= most
                        \/ \E d \in Pending(m)' : sum + tokens + planned'[d].estimate + n * t <= most + t
  BY DEF TokensBound
<1> DEFINE sum == SumTokens(LastBooked(m, Minute))
           n == Cardinality(Pending(m)')
           most == limit + Others * t
<1>1. m \in Models /\ n \in Nat /\ Cardinality(Pending(m)) = n + 1 /\ Pending(m)' = Pending(m) \ {c}
      /\ \A d \in Callers \ {c} : planned'[d] = planned[d]
  BY AnsweredLeaves
<1>2. sum \in Nat
  BY <1>1, BookedCounts
<1>3. most \in Nat
  BY CallersCount, Times
<1>4. \A d \in Callers : planned[d].estimate \in Nat
  BY TypeParts, EstimatesCount DEF KeptInv, PlansTyped
<1>5. \/ sum + (n + 1) * t <= most
      \/ \E d \in Pending(m) : sum + planned[d].estimate + (n + 1) * t <= most + t
  BY <1>1 DEF TokensBound
<1>6. tokens <= planned[c].estimate /\ Pending(m) \subseteq Callers
  BY DEF Pending
<1> HIDE DEF sum, n, most
<1>7. CASE sum + (n + 1) * t <= most
  <2>1. sum + tokens + n * t <= most
    BY <1>1, <1>2, <1>3, <1>4, <1>7, OneFewer
  <2> QED
    BY <2>1 DEF sum, n, most
<1>8. CASE \E d \in Pending(m) : sum + planned[d].estimate + (n + 1) * t <= most + t
  <2>1. PICK d \in Pending(m) : sum + planned[d].estimate + (n + 1) * t <= most + t
    BY <1>8
  <2>2. planned[d].estimate \in Nat /\ planned[c].estimate \in Nat
    BY <1>4, <1>6
  <2>3. CASE d = c
    <3>1. sum + planned[c].estimate + (n + 1) * t <= most + t
      BY <2>1, <2>3
    <3>2. sum + tokens + n * t <= most
      BY <1>1, <1>2, <1>3, <1>6, <2>2, <3>1, OneFewer
    <3> QED
      BY <3>2 DEF sum, n, most
  <2>4. CASE d # c
    <3>1. d \in Pending(m)' /\ planned'[d].estimate = planned[d].estimate
      BY <1>1, <1>6, <2>4
    <3>2. sum + tokens + planned[d].estimate + n * t <= most + t
      BY <1>1, <1>2, <1>3, <2>1, <2>2, OneFewer
    <3> QED
      BY <3>1, <3>2 DEF sum, n, most
  <2> QED
    BY <2>3, <2>4
<1> QED
  BY <1>5, <1>7, <1>8

(* A failure changes no list. *)
LEMMA EndBounded ==
  ASSUME KeptInv, Bounded, NEW c \in Callers, CoolDown(c) \/ GiveUp(c)
  PROVE  Bounded'
<1>0. PICK m : m = planned[c].model
  OBVIOUS
<1>1. Answered(c) /\ UNCHANGED <<now, sends, booked, honest>>
  BY DEF CoolDown, GiveUp
<1>2. \A w : LastSends(w)' = LastSends(w) /\ \A k : LastBooked(k, w)' = LastBooked(k, w)
  BY <1>1 DEF LastSends, LastBooked
<1>3. \A k \in Models, w \in {Minute, Day} :
        Len(LastBooked(k, w)) \in Nat /\ SumTokens(LastBooked(k, w)) \in Nat
  BY BookedCounts
<1>4. \A k \in Models : ModelBound(k)
  BY BoundedIs
<1>5. ASSUME NEW k \in Models \ {m} PROVE ModelBound(k)'
  <2>1. \A d \in Pending(k) : planned'[d].estimate = planned[d].estimate
    BY <1>1, <1>0, AnsweredLeaves DEF Pending
  <2>2. Pending(k)' = Pending(k)
    BY <1>0, <1>1, AnsweredLeaves
  <2>3. \A w \in {Minute, Day} :
            /\ Len(LastBooked(k, w)') \in Nat /\ SumTokens(LastBooked(k, w)') \in Nat
            /\ Len(LastBooked(k, w)') <= Len(LastBooked(k, w))
            /\ SumTokens(LastBooked(k, w)') <= SumTokens(LastBooked(k, w))
    BY <1>2, <1>3
  <2> QED
    BY <1>1, <1>4, <2>1, <2>2, <2>3, ModelBoundKept
<1>6. ModelBound(m)'
  <2>1. m \in Models /\ Cardinality(Pending(m)') \in Nat
        /\ Cardinality(Pending(m)) = Cardinality(Pending(m)') + 1
    BY <1>0, <1>1, AnsweredLeaves
  <2>2. \A w \in {Minute, Day}, limit \in Nat : RequestsBound(m, w, limit) => RequestsBound(m, w, limit)'
    <3> QED
      BY <1>2, <1>3, <2>1, CallersCount DEF RequestsBound
  <2>3. ASSUME NEW t \in Largest, NEW limit \in Nat, TokensBound(m, limit, t) PROVE TokensBound(m, limit, t)'
    <3>1. t \in Nat
      BY Lengths DEF Largest
    <3>2. \A d \in Callers : planned[d].estimate \in Nat
      BY TypeParts, EstimatesCount DEF KeptInv, PlansTyped
    <3>3. SumTokens(LastBooked(m, Minute)') = SumTokens(LastBooked(m, Minute)) + 0
      BY <1>2, <1>3, <2>1
    <3>4. 0 <= t /\ 0 <= planned[c].estimate
      BY <3>1, <3>2
    <3> QED
      BY <1>1, <2>3, <3>1, <3>3, <3>4, <1>0, AnsweredTokens
  <2> QED
    BY <1>4, <2>1, <2>2, <2>3, EntryType DEF ModelBound
<1>7. ASSUME NEW w \in {Minute, Day}, NEW limit \in Nat, AttemptsBound(w, limit) PROVE AttemptsBound(w, limit)'
  <2>1. LastSends(w) \in Nat /\ Cardinality(ToMake) \in Nat
    BY SendsCount, ToMakeCount
  <2>2. Cardinality(ToMake') \in Nat /\ Cardinality(ToMake') <= Cardinality(ToMake)
    BY <1>0, <1>1, AnsweredLeaves
  <2>3. LastSends(w)' \in Nat /\ LastSends(w)' + Cardinality(ToMake') <= LastSends(w) + Cardinality(ToMake)
    BY <1>2, <2>1, <2>2
  <2> QED
    BY <1>7, <2>2, <2>3, AttemptsKept
<1> QED
  BY <1>5, <1>6, <1>7, BoundedIs, Lengths

LEMMA BookBounded ==
  ASSUME KeptInv, Bounded, NEW c \in Callers, NEW tokens \in Tokens, Book(c, tokens)
  PROVE  Bounded'
<1>0. PICK m : m = planned[c].model
  OBVIOUS
<1> DEFINE r == [at |-> now, tokens |-> tokens]
<1>1. Answered(c) /\ UNCHANGED <<now, sends>> /\ tokens \in Nat
  BY Lengths DEF Book
<1>2. m \in Models
  BY <1>0, <1>1, AnsweredLeaves
<1>3. r \in Booking /\ r.at = now /\ r.tokens = tokens
  BY Listed DEF KeptInv, Booking
<1>4. booked' = [booked EXCEPT ![m] = Append(@, r)] /\ honest' = (honest /\ tokens <= planned[c].estimate)
  BY <1>0 DEF Book
<1> HIDE DEF r
<1>5. \A w \in {Minute, Day} :
        /\ Len(LastBooked(m, w)') = Len(LastBooked(m, w)) + 1
        /\ SumTokens(LastBooked(m, w)') = SumTokens(LastBooked(m, w)) + tokens
        /\ \A k \in Models \ {m} : LastBooked(k, w)' = LastBooked(k, w)
  BY <1>1, <1>2, <1>3, <1>4, WindowsGain
<1>6. \A k \in Models, w \in {Minute, Day} :
        Len(LastBooked(k, w)) \in Nat /\ SumTokens(LastBooked(k, w)) \in Nat
  BY BookedCounts
<1>7. \A k \in Models : ModelBound(k)
  BY BoundedIs
<1>8. ASSUME NEW k \in Models \ {m} PROVE ModelBound(k)'
  <2>1. \A d \in Pending(k) : planned'[d].estimate = planned[d].estimate
    BY <1>0, <1>1, AnsweredLeaves DEF Pending
  <2>2. Pending(k)' = Pending(k) /\ \A w \in {Minute, Day} : LastBooked(k, w)' = LastBooked(k, w)
    BY <1>0, <1>1, <1>5, AnsweredLeaves
  <2>3. CASE honest' = honest
    <3>1. \A w \in {Minute, Day} :
            /\ Len(LastBooked(k, w)') \in Nat /\ SumTokens(LastBooked(k, w)') \in Nat
            /\ Len(LastBooked(k, w)') <= Len(LastBooked(k, w))
            /\ SumTokens(LastBooked(k, w)') <= SumTokens(LastBooked(k, w))
      BY <1>6, <2>2
    <3> QED
      BY <1>7, <2>1, <2>2, <2>3, <3>1, ModelBoundKept
  <2>4. CASE ~honest'
    <3>1. \A t, limit : TokensBound(k, limit, t)'
      BY <2>4 DEF TokensBound
    <3>2. \A w \in {Minute, Day}, limit \in Nat : RequestsBound(k, w, limit) => RequestsBound(k, w, limit)'
      BY <2>2 DEF RequestsBound
    <3> QED
      BY <1>7, <3>1, <3>2, EntryType DEF ModelBound
  <2>5. honest \in BOOLEAN
    BY TypeParts DEF KeptInv, PlansTyped
  <2> QED
    BY <1>4, <2>3, <2>4, <2>5
<1>9. ModelBound(m)'
  <2>1. Cardinality(Pending(m)') \in Nat /\ Cardinality(Pending(m)) = Cardinality(Pending(m)') + 1
    BY <1>0, <1>1, AnsweredLeaves
  <2>2. \A w \in {Minute, Day}, limit \in Nat : RequestsBound(m, w, limit) => RequestsBound(m, w, limit)'
    BY <1>2, <1>5, <1>6, <2>1, CallersCount DEF RequestsBound
  <2>3. ASSUME NEW t \in Largest, NEW limit \in Nat, TokensBound(m, limit, t) PROVE TokensBound(m, limit, t)'
    <3>1. t \in Nat /\ tokens <= t
      BY Lengths DEF Largest
    <3>2. SumTokens(LastBooked(m, Minute)') = SumTokens(LastBooked(m, Minute)) + tokens
      BY <1>5
    <3> QED
      BY <1>0, <1>1, <1>4, <2>3, <3>1, <3>2, AnsweredTokens
  <2> QED
    BY <1>2, <1>7, <2>2, <2>3, EntryType DEF ModelBound
<1>10. ASSUME NEW w \in {Minute, Day}, NEW limit \in Nat, AttemptsBound(w, limit) PROVE AttemptsBound(w, limit)'
  <2>1. LastSends(w) \in Nat /\ Cardinality(ToMake) \in Nat
    BY SendsCount, ToMakeCount
  <2>2. Cardinality(ToMake') \in Nat /\ Cardinality(ToMake') <= Cardinality(ToMake)
    BY <1>0, <1>1, AnsweredLeaves
  <2>3. LastSends(w)' = LastSends(w)
    BY <1>1 DEF LastSends
  <2>4. LastSends(w)' \in Nat /\ LastSends(w)' + Cardinality(ToMake') <= LastSends(w) + Cardinality(ToMake)
    BY <2>1, <2>2, <2>3
  <2> QED
    BY <1>10, <2>2, <2>4, AttemptsKept
<1> QED
  BY <1>8, <1>9, <1>10, BoundedIs, Lengths

(* An attempt uses up one of those that were still to make. *)
LEMMA SendBounded ==
  ASSUME KeptInv, Bounded, NEW c \in Callers, Send(c)
  PROVE  Bounded'
<1>1. UNCHANGED <<now, booked, honest>> /\ sends' = Append(sends, now)
      /\ planned[c] # Idle /\ planned[c].tries < MaxAttempts
      /\ planned' = [planned EXCEPT ![c].tries = @ + 1]
  BY DEF Send
<1>2. planned \in [Callers -> PlanType] /\ now \in 1..Horizon /\ sends \in Seq(1..Horizon)
  BY TypeParts, Listed DEF KeptInv, PlansTyped
<1>3. /\ \A d \in Callers : planned'[d].model = planned[d].model
      /\ \A d \in Callers : planned'[d].estimate = planned[d].estimate
      /\ \A d \in Callers \ {c} : planned'[d] = planned[d]
      /\ planned'[c].tries = planned[c].tries + 1 /\ planned[c].tries \in 0..MaxAttempts
  BY <1>1, <1>2 DEF PlanType
<1>4. \A k : Pending(k)' = Pending(k)
  BY <1>3 DEF Pending
<1>5. ASSUME NEW k \in Models PROVE ModelBound(k)'
  <2>1. \A d \in Pending(k) : planned'[d].estimate = planned[d].estimate
    BY <1>3 DEF Pending
  <2>2. \A w \in {Minute, Day} : LastBooked(k, w)' = LastBooked(k, w)
    BY <1>1 DEF LastBooked
  <2>3. \A w \in {Minute, Day} :
          /\ Len(LastBooked(k, w)') \in Nat /\ SumTokens(LastBooked(k, w)') \in Nat
          /\ Len(LastBooked(k, w)') <= Len(LastBooked(k, w))
          /\ SumTokens(LastBooked(k, w)') <= SumTokens(LastBooked(k, w))
    BY <2>2, BookedCounts
  <2>4. ModelBound(k)
    BY BoundedIs
  <2> QED
    BY <1>1, <1>4, <2>1, <2>3, <2>4, ModelBoundKept
<1> DEFINE made == <<c, planned[c].tries + 1>>
<1>6. made \in ToMake
  BY <1>1, <1>3, Lengths DEF ToMake
<1>7. ToMake' \subseteq ToMake \ {made}
  <2> SUFFICES ASSUME NEW k \in ToMake' PROVE k \in ToMake /\ k # made
    OBVIOUS
  <2>1. /\ k \in Callers \X (1..MaxAttempts) /\ k[1] \in Callers /\ k[2] \in 1..MaxAttempts
        /\ k = <<k[1], k[2]>> /\ planned'[k[1]] # Idle /\ k[2] > planned'[k[1]].tries
    BY DEF ToMake
  <2>2. CASE k[1] = c
    <3>1. k[2] > planned[c].tries + 1
      BY <1>3, <2>1, <2>2
    <3>2. k[2] > planned[c].tries
      BY <1>3, <2>1, <3>1
    <3> QED
      BY <1>1, <2>1, <2>2, <3>1, <3>2 DEF ToMake
  <2>3. CASE k[1] # c
    BY <1>3, <2>1, <2>3 DEF ToMake
  <2> QED
    BY <2>2, <2>3
<1> HIDE DEF made
<1>8. Cardinality(ToMake') \in Nat /\ Cardinality(ToMake) \in Nat
      /\ Cardinality(ToMake') + 1 <= Cardinality(ToMake)
  <2>1. IsFiniteSet(ToMake) /\ Cardinality(ToMake) \in Nat
    BY ToMakeCount
  <2>2. IsFiniteSet(ToMake \ {made}) /\ Cardinality(ToMake \ {made}) = Cardinality(ToMake) - 1
    BY <1>6, <2>1, FS_RemoveElement
  <2>3. IsFiniteSet(ToMake') /\ Cardinality(ToMake') <= Cardinality(ToMake \ {made})
    BY <1>7, <2>2, FS_Subset
  <2>4. Cardinality(ToMake') \in Nat
    BY <2>3, FS_CardinalityType
  <2> QED
    BY <2>1, <2>2, <2>3, <2>4
<1>9. \A w \in {Minute, Day} : LastSends(w)' = LastSends(w) + 1
  <2> SUFFICES ASSUME NEW w \in {Minute, Day} PROVE LastSends(w)' = LastSends(w) + 1
    OBVIOUS
  <2>1. w \in Nat /\ w > 0
    BY Lengths
  <2> DEFINE S == {t \in 1..Horizon : now - t < w}
             l == Only(sends, S)
  <2>2. now \in S
    BY <1>2, <2>1
  <2>3. LastSends(w)' = Len(Only(Append(sends, now), S)) /\ LastSends(w) = Len(l)
    BY <1>1 DEF LastSends
  <2> HIDE DEF S
  <2>4. l \in Seq(1..Horizon) /\ Only(Append(sends, now), S) = Append(l, now)
    <3> DEFINE T == 1..Horizon
    <3>1. now \in T /\ sends \in Seq(T)
      BY <1>2
    <3> HIDE DEF T
    <3>2. l \in Seq(T) /\ Only(Append(sends, now), S) = Append(l, now)
      BY <2>2, <3>1, OnlyType, OnlyAppend
    <3> QED
      BY <3>2 DEF T
  <2> HIDE DEF l
  <2>5. Len(Append(l, now)) = Len(l) + 1
    BY <1>2, <2>4, AppendProperties
  <2> QED
    BY <2>3, <2>4, <2>5
<1>10. ASSUME NEW w \in {Minute, Day}, NEW limit \in Nat, AttemptsBound(w, limit) PROVE AttemptsBound(w, limit)'
  <2>1. LastSends(w) \in Nat
    BY SendsCount
  <2>2. LastSends(w)' \in Nat /\ LastSends(w)' + Cardinality(ToMake') <= LastSends(w) + Cardinality(ToMake)
    BY <1>8, <1>9, <2>1
  <2> QED
    BY <1>8, <1>10, <2>2, AttemptsKept
<1> QED
  BY <1>5, <1>10, BoundedIs, Lengths

LEMMA PlanBounded ==
  ASSUME KeptInv, KeptInv', Bounded, NEW c \in Callers, NEW m \in Models, NEW e \in Estimates,
         Plan(c, m, e)
  PROVE  Bounded'
<1>1. UNCHANGED <<now, sends, booked, honest>> /\ planned[c] = Idle
  BY DEF Plan
<1>2. now \in Nat
  BY Listed DEF KeptInv
<1>3. CASE planned' = planned
  <2>1. now <= now'
    BY <1>1, <1>2
  <2> QED
    BY <1>1, <1>3, <2>1, AgeBounded
<1>4. CASE planned' # planned
  <2> DEFINE l == Registered(m)
             plan == [model |-> m, tries |-> 0, estimate |-> e]
  <2>1. /\ ~ProviderFull /\ ~Full(buckets[m], l) /\ ~WouldExceed(buckets[m], l, e)
        /\ planned' = [planned EXCEPT ![c] = plan]
    BY <1>4 DEF Plan
  <2>2. planned \in [Callers -> PlanType]
    BY TypeParts DEF KeptInv, PlansTyped
  <2>3. planned'[c] = plan /\ plan.model = m /\ plan.estimate = e
        /\ \A d \in Callers \ {c} : planned'[d] = planned[d]
    BY <2>1, <2>2
  <2>4. e \in Nat
    BY Lengths
  <2> HIDE DEF plan
  <2>5. \A w : LastSends(w)' = LastSends(w) /\ \A k : LastBooked(k, w)' = LastBooked(k, w)
    BY <1>1 DEF LastSends, LastBooked
  <2>6. \A k \in Models, w \in {Minute, Day} :
          Len(LastBooked(k, w)) \in Nat /\ SumTokens(LastBooked(k, w)) \in Nat
    BY BookedCounts
  <2>7. planned[c].model = "none" /\ planned[c] = Idle
    BY <1>1 DEF Idle
  <2>8. ASSUME NEW k \in Models \ {m} PROVE ModelBound(k)'
    <3>1. \A d \in Pending(k) : planned'[d].estimate = planned[d].estimate
      BY <2>3, <2>7, Lengths DEF Pending
    <3>2. Pending(k)' = Pending(k)
      BY <2>3, <2>7, Lengths DEF Pending
    <3>3. \A w \in {Minute, Day} :
            /\ Len(LastBooked(k, w)') \in Nat /\ SumTokens(LastBooked(k, w)') \in Nat
            /\ Len(LastBooked(k, w)') <= Len(LastBooked(k, w))
            /\ SumTokens(LastBooked(k, w)') <= SumTokens(LastBooked(k, w))
      BY <2>5, <2>6
    <3>4. ModelBound(k)
      BY BoundedIs
    <3> QED
      BY <1>1, <3>1, <3>2, <3>3, <3>4, ModelBoundKept
  <2>9. ModelBound(m)'
    <3> DEFINE q == EntryLimits[m]
    <3>1. q.rpm \in Nat /\ q.rpd \in Nat /\ q.tpm \in Nat
      BY EntryType
    <3>2. q = NoLimits \/ l = q
      BY DEF Registered
    <3>3. q.rpm > 0 \/ q.rpd > 0 \/ q.tpm > 0 => l = q
      BY <3>1, <3>2 DEF NoLimits
    <3> HIDE DEF l, q
    <3>4. \A w \in {Minute, Day} : /\ Requests(buckets[m], w) = Len(LastBooked(m, w))
                                   /\ TokensIn(buckets[m], w) = SumTokens(LastBooked(m, w))
      BY WindowsAgree DEF Requests, TokensIn, SumTokens
    <3>5. /\ q.rpm > 0 => Len(LastBooked(m, Minute)) < q.rpm
          /\ q.rpd > 0 => Len(LastBooked(m, Day)) < q.rpd
          /\ q.tpm > 0 => SumTokens(LastBooked(m, Minute)) < q.tpm
          /\ q.tpm > 0 /\ e > 0 => SumTokens(LastBooked(m, Minute)) + e <= q.tpm
      BY <2>1, <2>4, <2>6, <3>1, <3>3, <3>4 DEF Full, WouldExceed, Reached
    <3>6. Cardinality(Pending(m)') \in Nat /\ Cardinality(Pending(m)') <= Others + 1
      <4>1. Pending(m)' \in SUBSET Callers
        BY DEF Pending
      <4> QED
        BY <4>1, CallersCount, FS_Subset, FS_CardinalityType
    <3>7. c \in Pending(m)'
      BY <2>3 DEF Pending
    <3>8. RequestsBound(m, Minute, q.rpm)' /\ RequestsBound(m, Day, q.rpd)'
      <4>1. /\ q.rpm > 0 => Len(LastBooked(m, Minute)) + Cardinality(Pending(m)') <= q.rpm + Others
            /\ q.rpd > 0 => Len(LastBooked(m, Day)) + Cardinality(Pending(m)') <= q.rpd + Others
        BY <2>6, <3>1, <3>5, <3>6, CallersCount
      <4> QED
        BY <2>5, <4>1 DEF RequestsBound, q
    <3>9. ASSUME NEW t \in Largest, q.tpm > 0 PROVE TokensBound(m, q.tpm, t)'
      <4> DEFINE sum == SumTokens(LastBooked(m, Minute))
                 n == Cardinality(Pending(m)')
                 P == n * t
                 Q == Others * t
      <4>1. t \in Nat
        BY Lengths DEF Largest
      <4>2. (Others + 1) * t = Q + t /\ P <= (Others + 1) * t /\ P \in Nat /\ Q \in Nat
        BY <3>6, <4>1, CallersCount, Times
      <4>3. sum \in Nat /\ sum + e <= q.tpm
        <5>1. sum \in Nat /\ sum < q.tpm /\ (e > 0 => sum + e <= q.tpm)
          BY <2>6, <3>5, <3>9
        <5> HIDE DEF sum
        <5> QED
          BY <2>4, <3>1, <5>1
      <4> HIDE DEF sum, P, Q
      <4>4. sum + e + P <= q.tpm + Q + t
        BY <2>4, <3>1, <4>1, <4>2, <4>3
      <4>5. planned'[c].estimate = e
        BY <2>3
      <4>6. sum = SumTokens(LastBooked(m, Minute)')
        BY <2>5 DEF sum
      <4>7. sum + planned'[c].estimate + P <= q.tpm + Q + t
        BY <4>4, <4>5
      <4> QED
        BY <3>7, <4>6, <4>7 DEF TokensBound, P, Q, q
    <3> QED
      BY <3>8, <3>9 DEF ModelBound, q
  <2>10. ASSUME NEW w \in {Minute, Day}, NEW limit \in Nat, limit > 0 => LastSends(w) < limit
         PROVE  AttemptsBound(w, limit)'
    <3>1. LastSends(w) \in Nat
      BY SendsCount
    <3> DEFINE all == Cardinality(Callers) * MaxAttempts
    <3>2. all \in Nat
      BY CallersCount, Lengths, Times
    <3>3. Cardinality(ToMake') \in Nat /\ Cardinality(ToMake') <= all
      BY ToMakeLater
    <3> HIDE DEF all
    <3>4. limit > 0 => LastSends(w) + Cardinality(ToMake') <= limit + all - 1
      BY <2>10, <3>1, <3>2, <3>3
    <3> QED
      BY <2>5, <3>4 DEF AttemptsBound, all
  <2>11. /\ ProviderRpm > 0 => LastSends(Minute) < ProviderRpm
         /\ ProviderRpd > 0 => LastSends(Day) < ProviderRpd
    <3>1. LastSends(Minute) = Len(Recent(minute, Minute)) /\ LastSends(Day) = Len(Recent(day, Day))
      BY <1>2, Lengths, AreHistories, AreWindows DEF KeptInv, Kept
    <3>2. LastSends(Minute) \in Nat /\ LastSends(Day) \in Nat
      BY SendsCount
    <3> QED
      BY <2>1, <3>1, <3>2, Lengths DEF ProviderFull, Reached
  <2>12. AttemptsBound(Minute, ProviderRpm)' /\ AttemptsBound(Day, ProviderRpd)'
    BY <2>10, <2>11, Lengths
  <2> QED
    BY <2>8, <2>9, <2>12, BoundedIs
<1> QED
  BY <1>3, <1>4

LEMMA StartBounded == RateInit => Bounded
<1> SUFFICES ASSUME RateInit PROVE Bounded
  OBVIOUS
<1>1. KeptInv
  BY KeptStart
<1>2. \A m \in Models : Pending(m) = {}
  BY Lengths DEF RateInit, Pending, Idle
<1>3. ToMake = {}
  BY DEF RateInit, ToMake
<1>4. Cardinality({}) = 0
  BY FS_EmptySet
<1>5. \A w : LastSends(w) = 0
  <2>1. sends = <<>> /\ Len(<<>>) = 0
    BY DEF RateInit
  <2> QED
    BY <2>1, OnlyEmpty DEF LastSends
<1>6. \A m \in Models : \A w : LastBooked(m, w) = <<>>
  BY OnlyEmpty DEF RateInit, LastBooked
<1>7. Len(<<>>) = 0 /\ SumTokens(<<>>) = 0
  BY SpentType, SumEmpty DEF SumTokens
<1>8. ASSUME NEW m \in Models PROVE ModelBound(m)
  <2>1. \A w \in {Minute, Day}, limit \in Nat : RequestsBound(m, w, limit)
    <3> SUFFICES ASSUME NEW w \in {Minute, Day}, NEW limit \in Nat PROVE RequestsBound(m, w, limit)
      OBVIOUS
    <3>1. Len(LastBooked(m, w)) = 0 /\ Cardinality(Pending(m)) = 0
      BY <1>2, <1>4, <1>6, <1>7
    <3>2. 0 + 0 <= limit + Others
      BY CallersCount
    <3> QED
      BY <3>1, <3>2 DEF RequestsBound
  <2>2. ASSUME NEW t \in Largest, NEW limit \in Nat PROVE TokensBound(m, limit, t)
    <3>1. t \in Nat
      BY Lengths DEF Largest
    <3> DEFINE Q == Others * t
               P == 0 * t
    <3>2. Q \in Nat /\ P = 0
      BY <3>1, CallersCount, Times
    <3> HIDE DEF P, Q
    <3>3. 0 + P <= limit + Q
      BY <3>2
    <3> QED
      BY <1>2, <1>4, <1>6, <1>7, <3>3 DEF TokensBound, P, Q
  <2> QED
    BY <2>1, <2>2, EntryType DEF ModelBound
<1>9. ASSUME NEW w, NEW limit \in Nat PROVE AttemptsBound(w, limit)
  <2> DEFINE all == Cardinality(Callers) * MaxAttempts
  <2>1. all \in Nat
    BY CallersCount, Lengths, Times
  <2> HIDE DEF all
  <2>2. limit > 0 => 0 + 0 <= limit + all - 1
    BY <2>1
  <2> QED
    BY <1>3, <1>4, <1>5, <2>2 DEF AttemptsBound, all
<1> QED
  BY <1>8, <1>9, BoundedIs, Lengths

LEMMA RatesStep == RatesInv /\ [RateNext]_rateVars => RatesInv'
<1> SUFFICES ASSUME KeptInv, Bounded, [RateNext]_rateVars PROVE KeptInv' /\ Bounded'
  BY DEF RatesInv
<1>1. KeptInv'
  BY KeptStep
<1>2. now \in Nat
  BY Listed DEF KeptInv
<1>3. CASE \E c \in Callers, m \in Models, e \in Estimates : Plan(c, m, e)
  BY <1>1, <1>3, PlanBounded
<1>4. CASE \E c \in Callers : Send(c)
  BY <1>1, <1>4, SendBounded
<1>5. CASE \E c \in Callers, t \in Tokens : Book(c, t)
  BY <1>1, <1>5, BookBounded
<1>6. CASE \E c \in Callers : CoolDown(c) \/ GiveUp(c)
  BY <1>1, <1>6, EndBounded
<1>7. CASE \/ \E m \in Models, l \in SetLimits : SetLimit(m, l)
           \/ Report \/ CleanUp \/ RateTick \/ UNCHANGED rateVars
  <2>1. UNCHANGED <<planned, sends, booked, honest>> /\ (now' = now \/ now' = now + 1)
    BY <1>7 DEF SetLimit, Report, CleanUp, RateTick, rateVars
  <2>2. now <= now'
    BY <1>2, <2>1
  <2> QED
    BY <1>1, <2>1, <2>2, AgeBounded
<1> QED
  BY <1>3, <1>4, <1>5, <1>6, <1>7 DEF RateNext

(* Whatever is under way together, no minute and no day holds more of a    *)
(* model's requests or tokens, or of a provider's attempts, than the limit *)
(* and what the requests planned at the same time add (_select_provider,   *)
(* is_limited, would_exceed_token_limit, record_request).                  *)
THEOREM LimitsHold == RateSpec => []WindowsHold
<1>1. RateInit => RatesInv
  BY KeptStart, StartBounded DEF RatesInv
<1>2. RatesInv => WindowsHold
  <2> SUFFICES ASSUME KeptInv, Bounded PROVE WindowsHold
    BY DEF RatesInv
  <2>1. \A m \in Models : ModelBound(m)
    BY BoundedIs
  <2>2. ModelWindowHolds
    <3> SUFFICES ASSUME NEW m \in Models
                 PROVE  LET l == EntryLimits[m] IN
                        /\ l.rpm > 0 => Len(LastBooked(m, Minute)) <= l.rpm + Others
                        /\ l.rpd > 0 => Len(LastBooked(m, Day)) <= l.rpd + Others
      BY DEF ModelWindowHolds
    <3> DEFINE n == Cardinality(Pending(m))
               a == Len(LastBooked(m, Minute))
               b == Len(LastBooked(m, Day))
    <3>1. n \in Nat /\ a \in Nat /\ b \in Nat /\ Others \in Nat
      BY PendingCount, BookedCounts, CallersCount
    <3>2. EntryLimits[m].rpm > 0 => a + n <= EntryLimits[m].rpm + Others
      BY <2>1 DEF ModelBound, RequestsBound
    <3>3. EntryLimits[m].rpd > 0 => b + n <= EntryLimits[m].rpd + Others
      BY <2>1 DEF ModelBound, RequestsBound
    <3> HIDE DEF n, a, b
    <3>4. /\ EntryLimits[m].rpm > 0 => a <= EntryLimits[m].rpm + Others
          /\ EntryLimits[m].rpd > 0 => b <= EntryLimits[m].rpd + Others
      BY <3>1, <3>2, <3>3, EntryType
    <3> QED
      BY <3>4 DEF a, b
  <2>3. TokenWindowHolds
    <3> SUFFICES ASSUME NEW m \in Models, honest, EntryLimits[m].tpm > 0, NEW t \in Largest
                 PROVE  SumTokens(LastBooked(m, Minute)) <= EntryLimits[m].tpm + Others * t
      BY DEF TokenWindowHolds, Largest
    <3> DEFINE n == Cardinality(Pending(m))
               sum == SumTokens(LastBooked(m, Minute))
               P == n * t
               most == EntryLimits[m].tpm + Others * t
    <3>1. \/ sum + P <= most
          \/ \E c \in Pending(m) : sum + planned[c].estimate + P <= most + t
      BY <2>1 DEF ModelBound, TokensBound
    <3>2. t \in Nat /\ n \in Nat /\ sum \in Nat
      BY Lengths, PendingCount, BookedCounts DEF Largest
    <3>3. P \in Nat /\ most \in Nat
      BY <3>2, CallersCount, EntryType, Times
    <3>4. (\E c : c \in Pending(m)) => t <= P
      <4>1. (\E c : c \in Pending(m)) => n > 0
        BY PendingCount
      <4>2. n > 0 => 1 * t <= P
        BY <3>2, Times
      <4> QED
        BY <3>2, <4>1, <4>2
    <3>5. \A c \in Pending(m) : planned[c].estimate \in Nat
      BY TypeParts, EstimatesCount DEF KeptInv, PlansTyped, Pending
    <3> HIDE DEF n, sum, P, most
    <3>6. sum <= most
      <4>1. CASE sum + P <= most
        BY <3>2, <3>3, <4>1
      <4>2. CASE \E c \in Pending(m) : sum + planned[c].estimate + P <= most + t
        <5>1. PICK c \in Pending(m) : sum + planned[c].estimate + P <= most + t
          BY <4>2
        <5>2. t <= P /\ planned[c].estimate \in Nat
          BY <3>4, <3>5
        <5> QED
          BY <3>2, <3>3, <5>1, <5>2
      <4> QED
        BY <3>1, <4>1, <4>2
    <3> QED
      BY <3>6 DEF sum, most
  <2>4. ProviderWindowHolds
    <3> DEFINE all == Cardinality(Callers) * MaxAttempts
               n == Cardinality(ToMake)
    <3>1. all \in Nat /\ n \in Nat /\ LastSends(Minute) \in Nat /\ LastSends(Day) \in Nat
      BY CallersCount, Lengths, Times, ToMakeCount, SendsCount
    <3>2. /\ ProviderRpm > 0 => LastSends(Minute) + n <= ProviderRpm + all - 1
          /\ ProviderRpd > 0 => LastSends(Day) + n <= ProviderRpd + all - 1
      BY DEF Bounded, AttemptsBound
    <3> HIDE DEF all, n
    <3>3. /\ ProviderRpm > 0 => LastSends(Minute) <= ProviderRpm + (all - 1)
          /\ ProviderRpd > 0 => LastSends(Day) <= ProviderRpd + (all - 1)
      BY <3>1, <3>2, Lengths
    <3> QED
      BY <3>3 DEF ProviderWindowHolds, all
  <2> QED
    BY <2>2, <2>3, <2>4 DEF WindowsHold
<1> QED
  BY <1>1, <1>2, RatesStep, PTL DEF RateSpec

-----------------------------------------------------------------------------
(* Side by side, the windows and the books behave as each does alone.      *)
LEMMA SideBySide == Both => RateSpec /\ BookSpec
<1>1. BothInit => RateInit /\ BookInit
  BY DEF BothInit
<1>2. [BothNext]_<<part, rateVars, bookVars>> => [RateNext]_rateVars /\ [BookNext]_bookVars
  BY DEF BothNext
<1> QED
  BY <1>1, <1>2, PTL DEF Both, RateSpec, BookSpec

(* The windows and the books have the types the code gives them, whatever  *)
(* is recorded, pruned, saved and read back (rate_tracker.py, tracking.py, *)
(* quota_tracker.py).                                                      *)
THEOREM BooksTyped == Both => []BooksTypeOK
<1>1. BookSpec => []BookTypeOK
  <2>1. BooksInv => BookTypeOK
    BY DEF BooksInv
  <2> QED
    BY <2>1, BooksStep, PTL DEF BookSpec
<1>2. RateTypeOK /\ BookTypeOK => BooksTypeOK
  BY DEF BooksTypeOK
<1> QED
  BY <1>1, <1>2, SideBySide, WindowsTyped, PTL

-----------------------------------------------------------------------------
(***************************************************************************)
(* A provider's health record.                                             *)
(***************************************************************************)

LEMMA InitHealth == Init => TypeOK /\ StatusTellsFailures
  BY ThresholdAssumption, PeriodsAssumption
     DEF Init, TypeOK, StatusTellsFailures, LongAgo

(* A recorded answer keeps the counter within its bound. *)
LEMMA AnswersAreCounted ==
  ASSUME failures \in 0..DownThreshold
  PROVE  /\ OneMore(failures) \in 0..DownThreshold
         /\ Forgiven \in 0..DownThreshold /\ Forgiven < DownThreshold
  BY ThresholdAssumption DEF OneMore, Forgiven

LEMMA CheckKeepsHealth ==
  ASSUME TypeOK, StatusTellsFailures, NEW c \in Checkers, CheckStep(c)
  PROVE  TypeOK' /\ StatusTellsFailures'
<1> USE DEF TypeOK, StatusTellsFailures, LongAgo, health, loopVars
<1>1. CASE Ping(c)
  BY <1>1 DEF Ping
<1>2. CASE CheckWithoutKey(c)
  BY <1>2, ThresholdAssumption, PeriodsAssumption DEF CheckWithoutKey
<1>3. CASE PingAnswered(c)
  BY <1>3, AnswersAreCounted, ThresholdAssumption, PeriodsAssumption
     DEF PingAnswered, RecordCheck
<1>4. CASE PingFailed(c)
  BY <1>4, AnswersAreCounted, ThresholdAssumption, PeriodsAssumption
     DEF PingFailed, RecordCheck
(* A failure below the threshold that leaves the status comes from one     *)
(* that is not down, because the counter only grew.                        *)
<1>5. CASE PingRaised(c)
  <2>1. failures <= OneMore(failures)
    BY ThresholdAssumption DEF OneMore
  <2> QED
    BY <1>5, <2>1, AnswersAreCounted, ThresholdAssumption, PeriodsAssumption
       DEF PingRaised, RecordCheck
<1> QED
  BY <1>1, <1>2, <1>3, <1>4, <1>5 DEF CheckStep

LEMMA LoopKeepsHealth ==
  ASSUME TypeOK, StatusTellsFailures, LoopStep
  PROVE  TypeOK' /\ StatusTellsFailures'
<1> USE DEF TypeOK, StatusTellsFailures, health, loopVars
<1>1. CASE PingRound
  <2>1. Loop \in Checkers
    BY DEF Checkers
  <2> QED
    BY <1>1, <2>1 DEF PingRound
<1>2. CASE KeyRound
  BY <1>2 DEF KeyRound
<1>3. CASE RoundEnds
  BY <1>3, PeriodsAssumption DEF RoundEnds, Pause
<1> QED
  BY <1>1, <1>2, <1>3 DEF LoopStep

LEMMA OthersKeepHealth ==
  ASSUME TypeOK, StatusTellsFailures,
         \/ \E c \in Askers : Ask(c)
         \/ Tick
         \/ ProviderChanges
         \/ EditKeys
  PROVE  TypeOK' /\ StatusTellsFailures'
<1> USE DEF TypeOK, StatusTellsFailures, health, loopVars
<1>1. CASE \E c \in Askers : Ask(c)
  <2>1. PICK c \in Askers : Ask(c)
    BY <1>1
  <2>2. c \in Checkers
    BY DEF Checkers
  <2> QED
    BY <2>1, <2>2 DEF Ask
<1>2. CASE Tick
  BY <1>2, PeriodsAssumption DEF Tick, LongAgo
<1>3. CASE ProviderChanges
  BY <1>3 DEF ProviderChanges
<1>4. CASE EditKeys
  BY <1>4 DEF EditKeys
<1> QED
  BY <1>1, <1>2, <1>3, <1>4

LEMMA StepKeepsHealth ==
  ASSUME TypeOK, StatusTellsFailures, [Next]_vars
  PROVE  TypeOK' /\ StatusTellsFailures'
<1>1. CASE Next
  BY <1>1, CheckKeepsHealth, LoopKeepsHealth, OthersKeepHealth DEF Next
<1>2. CASE UNCHANGED vars
  BY <1>2 DEF vars, health, loopVars, TypeOK, StatusTellsFailures
<1> QED
  BY <1>1, <1>2

(* The variables of the health checker keep their types, under any number  *)
(* of overlapping checks (check_provider, _loop).                          *)
THEOREM HealthTypes == Spec => []TypeOK
<1>1. TypeOK /\ StatusTellsFailures /\ [Next]_vars => (TypeOK /\ StatusTellsFailures)'
  BY StepKeepsHealth
<1> QED
  BY <1>1, InitHealth, PTL DEF Spec

(* Down means that DOWN_THRESHOLD failures in a row stand against the      *)
(* provider, whichever checks overlap and whatever happens to its keys     *)
(* (check_provider).                                                       *)
THEOREM DownMeansFailures == Spec => []StatusTellsFailures
<1>1. TypeOK /\ StatusTellsFailures /\ [Next]_vars => (TypeOK /\ StatusTellsFailures)'
  BY StepKeepsHealth
<1> QED
  BY <1>1, InitHealth, PTL DEF Spec
=============================================================================
