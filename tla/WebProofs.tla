----------------------------- MODULE WebProofs -----------------------------
(***************************************************************************)
(* Theorems about WebClient: what its pages and its caches show, for any   *)
(* files, organisations, clicks, calls in flight and answers, in any order.*)
(***************************************************************************)
EXTENDS WebClient, SequenceTheorems, FiniteSetTheorems, TLAPS

-----------------------------------------------------------------------------
(* Calls in flight *)

\* What is left in flight when an answer has arrived.
LEMMA RemoveAtElements ==
  ASSUME NEW S, NEW s \in Seq(S), NEW i \in DOMAIN s
  PROVE  /\ RemoveAt(s, i) \in Seq(S)
         /\ Len(RemoveAt(s, i)) = Len(s) - 1
         /\ DOMAIN RemoveAt(s, i) = 1 .. (Len(s) - 1)
         /\ \A j \in 1 .. (Len(s) - 1) : \E k \in DOMAIN s : RemoveAt(s, i)[j] = s[k]
         /\ i # Len(s) => /\ RemoveAt(s, i) # << >>
                          /\ RemoveAt(s, i)[Len(RemoveAt(s, i))] = s[Len(s)]
<1> DEFINE before == SubSeq(s, 1, i - 1)
           after == SubSeq(s, i + 1, Len(s))
<1>1. Len(s) \in Nat /\ DOMAIN s = 1 .. Len(s) /\ i \in 1 .. Len(s)
      /\ \A k \in 1 .. Len(s) : s[k] \in S
  BY LenProperties, ElementOfSeq
<1>2. /\ before \in Seq(S) /\ Len(before) = i - 1
      /\ \A j \in 1 .. (i - 1) : before[j] = s[j]
  <2>1. /\ 1 \in Int /\ i - 1 \in Int /\ \A k \in 1 .. (i - 1) : s[k] \in S
    BY <1>1
  <2>2. /\ before \in Seq(S) /\ Len(before) = (IF 1 <= i - 1 THEN i - 1 - 1 + 1 ELSE 0)
        /\ \A j \in 1 .. (i - 1 - 1 + 1) : before[j] = s[1 + j - 1]
    BY <2>1, SubSeqProperties
  <2>3. QED
    BY <1>1, <2>2
<1>3. /\ after \in Seq(S) /\ Len(after) = Len(s) - i
      /\ \A j \in 1 .. (Len(s) - i) : after[j] = s[i + j]
  <2>1. /\ i + 1 \in Int /\ Len(s) \in Int /\ \A k \in (i + 1) .. Len(s) : s[k] \in S
    BY <1>1
  <2>2. /\ after \in Seq(S)
        /\ Len(after) = (IF i + 1 <= Len(s) THEN Len(s) - (i + 1) + 1 ELSE 0)
        /\ \A j \in 1 .. (Len(s) - (i + 1) + 1) : after[j] = s[(i + 1) + j - 1]
    BY <2>1, SubSeqProperties
  <2> HIDE DEF after
  <2>3. ASSUME NEW j \in 1 .. (Len(s) - i)
        PROVE  after[j] = s[i + j]
    <3>1. j \in 1 .. (Len(s) - (i + 1) + 1) /\ (i + 1) + j - 1 = i + j
      BY <1>1
    <3>2. QED
      BY <2>2, <3>1
  <2>4. QED
    BY <1>1, <2>2, <2>3
<1> HIDE DEF before, after
<1>4. RemoveAt(s, i) = before \o after
  BY DEF RemoveAt, before, after
<1>5. /\ before \o after \in Seq(S)
      /\ Len(before \o after) = Len(s) - 1
      /\ \A j \in 1 .. (Len(s) - 1) : (before \o after)[j] =
            IF j <= i - 1 THEN before[j] ELSE after[j - (i - 1)]
  <2>1. /\ before \o after \in Seq(S)
        /\ Len(before \o after) = Len(before) + Len(after)
        /\ \A j \in 1 .. (Len(before) + Len(after)) : (before \o after)[j] =
              IF j <= Len(before) THEN before[j] ELSE after[j - Len(before)]
    BY <1>2, <1>3, ConcatProperties
  <2>2. Len(before) + Len(after) = Len(s) - 1
    BY <1>1, <1>2, <1>3
  <2>3. QED
    BY <1>2, <2>1, <2>2
<1>6. ASSUME NEW j \in 1 .. (Len(s) - 1)
      PROVE  \E k \in DOMAIN s : (before \o after)[j] = s[k]
  <2>1. CASE j <= i - 1
    <3>1. j \in 1 .. (i - 1) /\ j \in DOMAIN s
      BY <1>1, <2>1
    <3>2. QED
      BY <1>2, <1>5, <2>1, <3>1
  <2>2. CASE ~ (j <= i - 1)
    <3>1. j - (i - 1) \in 1 .. (Len(s) - i) /\ i + (j - (i - 1)) = j + 1 /\ j + 1 \in DOMAIN s
      BY <1>1, <2>2
    <3>2. after[j - (i - 1)] = s[j + 1]
      BY <1>3, <3>1
    <3>3. QED
      BY <1>5, <2>2, <3>1, <3>2
  <2>3. QED
    BY <2>1, <2>2
<1>7. ASSUME i # Len(s)
      PROVE  before \o after # << >> /\ (before \o after)[Len(s) - 1] = s[Len(s)]
  <2>1. /\ Len(s) - 1 \in 1 .. (Len(s) - 1) /\ ~ (Len(s) - 1 <= i - 1)
        /\ (Len(s) - 1) - (i - 1) = Len(s) - i /\ Len(s) - i \in 1 .. (Len(s) - i)
        /\ i + (Len(s) - i) = Len(s) /\ Len(s) - 1 # 0
    BY <1>1, <1>7
  <2>2. after[Len(s) - i] = s[Len(s)]
    BY <1>3, <2>1
  <2>3. (before \o after)[Len(s) - 1] = after[Len(s) - i]
    BY <1>5, <2>1
  <2>4. before \o after # << >>
    BY <1>5, <2>1
  <2>5. QED
    BY <2>2, <2>3, <2>4
<1>8. QED
  BY <1>1, <1>4, <1>5, <1>6, <1>7, LenProperties

\* The same, without the last.
LEMMA RemoveAtProperties ==
  ASSUME NEW S, NEW s \in Seq(S), NEW i \in DOMAIN s
  PROVE  /\ RemoveAt(s, i) \in Seq(S)
         /\ Len(RemoveAt(s, i)) = Len(s) - 1
         /\ DOMAIN RemoveAt(s, i) = 1 .. (Len(s) - 1)
         /\ \A j \in 1 .. (Len(s) - 1) : \E k \in DOMAIN s : RemoveAt(s, i)[j] = s[k]
  BY RemoveAtElements

\* The last call in flight stays the last until it is answered.
LEMMA RemoveAtLast ==
  ASSUME NEW S, NEW s \in Seq(S), NEW i \in DOMAIN s, i # Len(s)
  PROVE  RemoveAt(s, i) # << >> /\ RemoveAt(s, i)[Len(RemoveAt(s, i))] = s[Len(s)]
  BY RemoveAtElements

\* What is in flight when a call is made.
LEMMA AppendElements ==
  ASSUME NEW S, NEW s \in Seq(S), NEW e \in S
  PROVE  /\ Append(s, e) \in Seq(S)
         /\ Append(s, e) # << >>
         /\ Len(Append(s, e)) = Len(s) + 1
         /\ DOMAIN Append(s, e) = 1 .. (Len(s) + 1)
         /\ DOMAIN s = 1 .. Len(s) /\ Len(s) \in Nat
         /\ \A i \in DOMAIN s : Append(s, e)[i] = s[i]
         /\ Append(s, e)[Len(s) + 1] = e
  BY AppendProperties, LenProperties

-----------------------------------------------------------------------------
(* The caches *)

\* Two answers.
LEMMA PairProperties ==
  ASSUME NEW x \in Nat, NEW y \in Nat
  PROVE  /\ <<x, y>> \in Seq(Nat) /\ Len(<<x, y>>) = 2 /\ <<x, y>> # << >>
         /\ <<x, y>>[1] = x /\ <<x, y>>[2] = y
<1>1. <<x, y>> \in Seq(Nat)
  OBVIOUS
<1>2. Len(<<x, y>>) = 2
  OBVIOUS
<1>3. <<x, y>> # << >>
  OBVIOUS
<1>4. <<x, y>>[1] = x /\ <<x, y>>[2] = y
  OBVIOUS
<1>5. QED
  BY <1>1, <1>2, <1>3, <1>4

\* The caller is given v and the caller before him is remembered.
LEMMA GivenLast ==
  ASSUME NEW c \in Copies, Len(c.answers) <= 2, NEW v \in Nat
  PROVE  /\ Given(c, v) = [c EXCEPT !.answers = Given(c, v).answers]
         /\ Given(c, v).answers \in Seq(Nat)
         /\ Len(Given(c, v).answers) <= 2
         /\ Given(c, v).answers # << >>
         /\ Last(Given(c, v).answers) = v
         /\ Len(Given(c, v).answers) = 2 =>
               /\ c.answers # << >>
               /\ Given(c, v).answers[1] = Last(c.answers)
               /\ Given(c, v).answers[2] = v
<1> DEFINE a == c.answers
           b == IF Len(a) < 2 THEN Append(a, v) ELSE <<a[2], v>>
<1>1. a \in Seq(Nat)
  BY DEF Copies
<1>2. Given(c, v) = [c EXCEPT !.answers = b]
  BY DEF Given
<1>3. Given(c, v).answers = b
  BY <1>2 DEF Copies
<1> HIDE DEF a
<1>4. Len(a) \in Nat /\ Len(a) <= 2 /\ (a = << >> => Len(a) = 0) /\ DOMAIN a = 1 .. Len(a)
  BY <1>1, EmptySeq, LenProperties DEF a
<1>5. CASE Len(a) < 2
  <2>1. b = Append(a, v)
    BY <1>5
  <2> HIDE DEF b
  <2>2. /\ Append(a, v) \in Seq(Nat) /\ Append(a, v) # << >> /\ Len(Append(a, v)) = Len(a) + 1
        /\ \A i \in 1 .. Len(a) : Append(a, v)[i] = a[i]
        /\ Append(a, v)[Len(a) + 1] = v
    BY <1>1, AppendProperties
  <2>3. Len(a) = 1 => a # << >> /\ Append(a, v)[1] = a[1]
    BY <1>4, <2>2
  <2>4. QED
    BY <1>2, <1>3, <1>4, <1>5, <2>1, <2>2, <2>3 DEF Last, a
<1>6. CASE ~ (Len(a) < 2)
  <2>1. b = <<a[2], v>> /\ Len(a) = 2 /\ a # << >>
    BY <1>4, <1>6
  <2> HIDE DEF b
  <2>2. a[2] \in Nat
    <3>1. 2 \in 1 .. Len(a)
      BY <2>1
    <3>2. QED
      BY <1>1, <3>1, ElementOfSeq
  <2>3. /\ <<a[2], v>> \in Seq(Nat) /\ Len(<<a[2], v>>) = 2 /\ <<a[2], v>> # << >>
        /\ <<a[2], v>>[1] = a[2] /\ <<a[2], v>>[2] = v
    BY <2>2, PairProperties
  <2>4. Last(b) = v /\ Last(a) = a[2] /\ b[1] = a[2] /\ b[2] = v
    BY <2>1, <2>2, <2>3 DEF Last
  <2>5. b \in Seq(Nat) /\ Len(b) <= 2 /\ b # << >>
    BY <2>1, <2>2, <2>3
  <2>6. QED
    BY <1>2, <1>3, <2>1, <2>4, <2>5 DEF a
<1>7. QED
  BY <1>5, <1>6

\* Whoever is given what is then in localStorage is given no less than the one
\* before him (api.js getTrustListCached, attach.js getFormatsCached).
LEMMA GivenKeeps ==
  ASSUME CacheInv, NEW d, CopiesFit(d), d.answers = cache.answers,
         cache.crossed => d.crossed, cache.saved # 0 => d.saved # 0,
         ~d.crossed => cache.saved <= d.saved,
         cache' = Given(d, d.saved)
  PROVE  CacheInv'
<1> DEFINE b == Given(d, d.saved).answers
<1>1. d \in Copies /\ cache \in Copies /\ d.saved \in Nat /\ Len(d.answers) <= 2
  BY DEF CacheInv, CopiesFit, Copies
<1>2. /\ Given(d, d.saved) = [d EXCEPT !.answers = b]
      /\ b \in Seq(Nat) /\ Len(b) <= 2 /\ b # << >> /\ Last(b) = d.saved
      /\ Len(b) = 2 => /\ d.answers # << >> /\ b[1] = Last(d.answers) /\ b[2] = d.saved
  BY <1>1, GivenLast
<1> HIDE DEF b
<1>3. cache' = [d EXCEPT !.answers = b]
  BY <1>2
<1>4. /\ cache' \in Copies /\ cache'.answers = b /\ cache'.saved = d.saved
      /\ cache'.crossed = d.crossed /\ cache'.memory = d.memory /\ cache'.worker = d.worker
      /\ cache'.behind = d.behind /\ cache'.fetches = d.fetches /\ cache'.served = d.served
  BY <1>1, <1>2, <1>3 DEF Copies
<1>5. CopiesFit(cache')
  BY <1>4 DEF CopiesFit, CopiesAreOld, CopiesAgree, CopiesInOrder
<1>6. Len(b) = 2 => Last(cache.answers) = cache.saved
  BY <1>2 DEF CacheInv
<1>7. cache.saved \in Nat /\ cache.crossed \in BOOLEAN /\ d.crossed \in BOOLEAN
  BY <1>1 DEF Copies
<1>8. CachesKeep'
  BY <1>1, <1>2, <1>4, <1>6, <1>7 DEF CachesKeep
<1>9. QED
  BY <1>2, <1>4, <1>5, <1>8 DEF CacheInv

\* Nobody is given anything, and what is in localStorage stays.
LEMMA NotGivenKeeps ==
  ASSUME CacheInv, NEW d, CopiesFit(d), d.answers = cache.answers, d.saved = cache.saved,
         cache.crossed => d.crossed, cache' = d
  PROVE  CacheInv'
  BY DEF CacheInv, CachesKeep

\* The service worker fetches behind its answer.
LEMMA BehindFits ==
  ASSUME NEW c, CopiesFit(c), c.behind # 0
  PROVE  /\ CopiesFit(Behind(c))
         /\ Behind(c).answers = c.answers /\ Behind(c).saved = c.saved
         /\ Behind(c).behind = c.behind /\ Behind(c).what = c.what
         /\ Behind(c).worker = c.worker
         /\ c.crossed => Behind(c).crossed
<1>1. CASE c.online /\ Len(c.fetches) < MaxCalls
  <2> DEFINE fetches == Append(c.fetches, c.served)
             d == [c EXCEPT !.fetches = fetches, !.crossed = @ \/ c.fetches # << >>]
  <2>1. Behind(c) = d
    BY <1>1 DEF Behind
  <2>2. c \in Copies /\ c.fetches \in Seq(Nat) /\ c.served \in Nat /\ c.behind \in Nat
        /\ c.crossed \in BOOLEAN
    BY DEF CopiesFit, Copies
  <2>3. /\ fetches \in Seq(Nat) /\ Len(fetches) = Len(c.fetches) + 1
        /\ DOMAIN fetches = 1 .. (Len(c.fetches) + 1)
        /\ DOMAIN c.fetches = 1 .. Len(c.fetches) /\ Len(c.fetches) \in Nat
        /\ \A i \in DOMAIN c.fetches : fetches[i] = c.fetches[i]
        /\ fetches[Len(c.fetches) + 1] = c.served
    BY <2>2, AppendElements
  <2>4. \A i \in DOMAIN fetches : i \in DOMAIN c.fetches \/ i = Len(c.fetches) + 1
    BY <2>3
  <2> HIDE DEF fetches
  <2>5. /\ d \in Copies /\ d.answers = c.answers /\ d.saved = c.saved /\ d.behind = c.behind
        /\ d.worker = c.worker /\ d.what = c.what /\ d.served = c.served /\ d.memory = c.memory
        /\ d.fetches = fetches
        /\ c.crossed => d.crossed
        /\ ~d.crossed => ~c.crossed /\ c.fetches = << >>
    BY <2>2, <2>3 DEF Copies
  <2> HIDE DEF d
  <2>6. \A i \in DOMAIN fetches : fetches[i] \in 1 .. c.served /\ (~d.crossed => c.behind <= fetches[i])
    <3>1. ASSUME NEW i \in DOMAIN c.fetches
          PROVE  c.fetches[i] \in 1 .. c.served /\ c.fetches # << >>
      BY DEF CopiesFit, CopiesAreOld
    <3>2. c.served \in 1 .. c.served /\ c.behind <= c.served
      BY <2>2 DEF CopiesFit, CopiesAreOld
    <3>3. QED
      BY <2>3, <2>4, <2>5, <3>1, <3>2
  <2>7. c.fetches = << >> => Len(c.fetches) = 0
    OBVIOUS
  <2>8. CopiesInOrder(d)
    <3>1. ~d.crossed => Len(fetches) = 1
      BY <2>2, <2>3, <2>5, <2>7
    <3>2. ~c.crossed => (c.worker => c.saved <= c.behind)
      BY DEF CopiesFit, CopiesInOrder
    <3>3. 1 <= 1
      OBVIOUS
    <3>4. SUFFICES ASSUME ~d.crossed
                   PROVE  /\ d.worker => d.saved <= d.behind
                          /\ Len(d.fetches) <= 1
                          /\ \A i \in DOMAIN d.fetches : d.behind <= d.fetches[i]
      BY DEF CopiesInOrder
    <3>5. QED
      BY <2>5, <2>6, <3>1, <3>2, <3>3, <3>4, Zenon
  <2>9. CopiesAreOld(d)
    BY <2>5, <2>6 DEF CopiesFit, CopiesAreOld
  <2>10. QED
    BY <2>1, <2>5, <2>8, <2>9 DEF CopiesFit, CopiesAgree
<1>2. CASE ~ (c.online /\ Len(c.fetches) < MaxCalls)
  BY <1>2 DEF Behind
<1>3. QED
  BY <1>1, <1>2

\* What has been fetched is kept and given.
LEMMA StoredKeeps ==
  ASSUME CacheInv, NEW c, CopiesFit(c), c.answers = cache.answers, NEW v \in 1 .. c.served,
         cache.crossed => c.crossed, ~c.crossed => cache.saved <= v,
         c.worker => c.behind # 0 /\ (~c.crossed => v <= c.behind),
         cache' = Stored(c, v)
  PROVE  CacheInv'
<1> DEFINE d == [c EXCEPT !.saved = v, !.memory = IF c.what = "formats" THEN v ELSE 0]
<1>1. c \in Copies /\ c.served \in Nat /\ v \in Nat /\ v # 0
  BY DEF CopiesFit, Copies
<1>2. /\ d \in Copies /\ d.answers = c.answers /\ d.saved = v /\ d.behind = c.behind
      /\ d.worker = c.worker /\ d.served = c.served /\ d.memory \in {0, v}
      /\ d.fetches = c.fetches /\ d.crossed = c.crossed
  BY <1>1 DEF Copies
<1>3. cache' = Given(d, v)
  BY DEF Stored
<1> HIDE DEF d
<1>4. CopiesFit(d)
  BY <1>1, <1>2 DEF CopiesFit, CopiesAreOld, CopiesAgree, CopiesInOrder
<1>5. QED
  BY <1>1, <1>2, <1>3, <1>4, GivenKeeps

\* An answer arrives: from the service worker, from the server, or from what was
\* kept (api.js getTrustListCached, attach.js getFormatsCached).
LEMMA FetchedKeeps ==
  ASSUME CacheInv, Fetched
  PROVE  CacheInv'
<1> DEFINE c == [cache EXCEPT !.calls = @ - 1]
           filled == [c EXCEPT !.behind = c.served]
           kept == [c EXCEPT !.memory = IF c.what = "formats" THEN c.saved ELSE 0]
<1>1. /\ cache \in Copies /\ cache.calls \in Nat /\ cache.calls > 0 /\ cache.served \in Nat
      /\ cache.saved \in Nat /\ cache.behind \in Nat /\ cache.memory \in Nat
      /\ cache.crossed \in BOOLEAN
  BY DEF CacheInv, CopiesFit, Copies, Fetched
<1>2. /\ c \in Copies /\ c.answers = cache.answers /\ c.saved = cache.saved
      /\ c.behind = cache.behind /\ c.worker = cache.worker /\ c.what = cache.what
      /\ c.served = cache.served /\ c.memory = cache.memory /\ c.fetches = cache.fetches
      /\ c.crossed = cache.crossed
  <2>1. PICK n \in Nat : n = cache.calls - 1
    BY <1>1
  <2>2. c = [cache EXCEPT !.calls = n]
    BY <2>1
  <2>3. QED
    BY <1>1, <2>2 DEF Copies
<1>3. \/ c.worker /\ c.behind # 0 /\ cache' = Stored(Behind(c), c.behind)
      \/ /\ ~(c.worker /\ c.behind # 0) /\ c.online
         /\ cache' = Stored(IF c.worker THEN filled ELSE c, c.served)
      \/ ~(c.worker /\ c.behind # 0) /\ ~c.online /\ cache' = Given(kept, c.saved)
  BY <1>1 DEF Fetched
<1> HIDE DEF c
<1>4. CopiesFit(c)
  BY <1>2 DEF CacheInv, CopiesFit, CopiesAreOld, CopiesAgree, CopiesInOrder
<1>5. CASE c.worker /\ c.behind # 0 /\ cache' = Stored(Behind(c), c.behind)
  <2>1. /\ CopiesFit(Behind(c)) /\ Behind(c).answers = c.answers
        /\ Behind(c).behind = c.behind
        /\ c.crossed => Behind(c).crossed
    BY <1>4, <1>5, BehindFits
  <2>2. c.behind \in 1 .. Behind(c).served /\ (~c.crossed => c.saved <= c.behind)
    <3>1. Behind(c).served \in Nat /\ Behind(c).behind <= Behind(c).served
      BY <2>1 DEF CopiesFit, CopiesAreOld, Copies
    <3>2. c.behind \in 1 .. Behind(c).served
      <4>1. c.behind \in Nat /\ c.behind # 0 /\ c.behind <= Behind(c).served
        BY <1>1, <1>2, <1>5, <2>1, <3>1
      <4>2. QED
        BY <3>1, <4>1
    <3>3. QED
      BY <1>4, <1>5, <3>2 DEF CopiesFit, CopiesInOrder
  <2>3. /\ cache.crossed => Behind(c).crossed
        /\ ~Behind(c).crossed => cache.saved <= c.behind
        /\ c.behind <= Behind(c).behind
    BY <1>1, <1>2, <1>4, <1>5, <2>1, <2>2, BehindFits
  <2>4. QED
    BY <1>2, <1>5, <2>1, <2>2, <2>3, StoredKeeps
<1>6. CASE /\ ~(c.worker /\ c.behind # 0) /\ c.online
           /\ cache' = Stored(IF c.worker THEN filled ELSE c, c.served)
  <2>1. c.served \in 1 .. c.served /\ cache.saved <= c.served
    BY <1>1, <1>2 DEF CacheInv, CopiesFit, CopiesAreOld
  <2>2. CASE c.worker
    <3>1. c.behind = 0 /\ c.fetches = << >> /\ c.saved = 0
      BY <1>4, <1>6, <2>2 DEF CopiesFit, CopiesAreOld, CopiesAgree
    <3>2. /\ filled \in Copies /\ filled.answers = c.answers /\ filled.saved = c.saved
          /\ filled.behind = c.served /\ filled.worker = c.worker /\ filled.served = c.served
          /\ filled.memory = c.memory /\ filled.fetches = c.fetches
          /\ filled.crossed = c.crossed
      BY <1>1, <1>2 DEF Copies
    <3> HIDE DEF filled
    <3>3. CopiesFit(filled)
      <4>1. CopiesAreOld(filled)
        BY <1>1, <1>2, <1>4, <3>1, <3>2 DEF CopiesFit, CopiesAreOld
      <4>2. CopiesAgree(filled)
        BY <1>4, <3>1, <3>2 DEF CopiesFit, CopiesAgree
      <4>3. DOMAIN c.fetches = {} /\ Len(c.fetches) = 0
        BY <3>1
      <4>4. CopiesInOrder(filled)
        BY <1>1, <1>2, <3>1, <3>2, <4>3 DEF CopiesInOrder
      <4>5. QED
        BY <3>2, <4>1, <4>2, <4>4 DEF CopiesFit
    <3>4. c.served \in 1 .. filled.served /\ c.served # 0 /\ c.served <= filled.behind
      BY <1>1, <1>2, <2>1, <3>2
    <3>5. cache' = Stored(filled, c.served)
      BY <1>6, <2>2
    <3>6. QED
      BY <1>1, <1>2, <2>1, <3>2, <3>3, <3>4, <3>5, StoredKeeps
  <2>3. CASE ~ c.worker
    <3>1. cache' = Stored(c, c.served)
      BY <1>6, <2>3
    <3>2. QED
      BY <1>2, <1>4, <2>1, <2>3, <3>1, StoredKeeps
  <2>4. QED
    BY <2>2, <2>3
<1>7. CASE ~(c.worker /\ c.behind # 0) /\ ~c.online /\ cache' = Given(kept, c.saved)
  <2>1. /\ kept \in Copies /\ kept.answers = c.answers /\ kept.saved = c.saved
        /\ kept.behind = c.behind /\ kept.worker = c.worker /\ kept.served = c.served
        /\ kept.memory \in {0, c.saved} /\ kept.fetches = c.fetches
        /\ kept.crossed = c.crossed
    BY <1>1, <1>2 DEF Copies
  <2> HIDE DEF kept
  <2>2. CopiesFit(kept)
    BY <1>4, <2>1 DEF CopiesFit, CopiesAreOld, CopiesAgree, CopiesInOrder
  <2>3. cache.saved <= kept.saved
    BY <1>1, <1>2, <2>1
  <2>4. QED
    BY <1>2, <1>7, <2>1, <2>2, <2>3, GivenKeeps
<1>8. QED
  BY <1>3, <1>5, <1>6, <1>7

\* No step of a cache makes anybody's copy older, or lets him go without.
LEMMA CacheStep ==
  ASSUME CacheInv, CachesNext, MaxVersionAssumption
  PROVE  CacheInv'
<1>1. /\ cache \in Copies /\ CopiesFit(cache) /\ cache.calls \in Nat /\ cache.served \in Nat
      /\ cache.saved \in Nat /\ cache.behind \in Nat /\ cache.memory \in Nat
      /\ cache.crossed \in BOOLEAN /\ cache.fetches \in Seq(Nat) /\ cache.online \in BOOLEAN
  BY DEF CacheInv, CopiesFit, Copies
<1>2. CASE Published
  <2> DEFINE d == [cache EXCEPT !.served = @ + 1]
  <2>1. /\ d \in Copies /\ d.answers = cache.answers /\ d.saved = cache.saved
        /\ d.behind = cache.behind /\ d.worker = cache.worker /\ d.served = cache.served + 1
        /\ d.memory = cache.memory /\ d.fetches = cache.fetches
        /\ d.crossed = cache.crossed
    <3>1. PICK n \in Nat : n = cache.served + 1
      BY <1>1
    <3>2. d = [cache EXCEPT !.served = n]
      BY <3>1
    <3>3. QED
      BY <1>1, <3>1, <3>2 DEF Copies
  <2>2. cache' = d
    BY <1>2 DEF Published
  <2> HIDE DEF d
  <2>3. CopiesAreOld(d)
    BY <1>1, <2>1 DEF CopiesFit, CopiesAreOld
  <2>4. CopiesFit(d)
    BY <1>1, <2>1, <2>3 DEF CopiesFit, CopiesAgree, CopiesInOrder
  <2>5. QED
    BY <2>1, <2>2, <2>4, NotGivenKeeps
<1>3. CASE Connection
  <2> DEFINE d == [cache EXCEPT !.online = ~@]
  <2>1. /\ d \in Copies /\ d.answers = cache.answers /\ d.saved = cache.saved
        /\ d.behind = cache.behind /\ d.worker = cache.worker /\ d.served = cache.served
        /\ d.memory = cache.memory /\ d.fetches = cache.fetches
        /\ d.crossed = cache.crossed
    BY <1>1 DEF Copies
  <2>2. cache' = d
    BY <1>3 DEF Connection
  <2> HIDE DEF d
  <2>3. CopiesFit(d)
    BY <1>1, <2>1 DEF CopiesFit, CopiesAreOld, CopiesAgree, CopiesInOrder
  <2>4. QED
    BY <2>1, <2>2, <2>3, NotGivenKeeps
<1>4. CASE Want
  <2>1. CASE cache.memory # 0
    <3>1. cache' = Given(cache, cache.saved)
      BY <1>1, <1>4, <2>1 DEF Want, CopiesFit, CopiesAgree
    <3>2. cache.saved <= cache.saved
      BY <1>1
    <3>3. QED
      BY <1>1, <3>1, <3>2, GivenKeeps
  <2>2. CASE cache.memory = 0
    <3> DEFINE d == [cache EXCEPT !.calls = @ + 1, !.crossed = @ \/ cache.calls > 0]
    <3>1. /\ d \in Copies /\ d.answers = cache.answers /\ d.saved = cache.saved
          /\ d.behind = cache.behind /\ d.worker = cache.worker /\ d.served = cache.served
          /\ d.memory = cache.memory /\ d.fetches = cache.fetches
          /\ cache.crossed => d.crossed
      <4> DEFINE n == cache.calls + 1
                 b == cache.crossed \/ cache.calls > 0
      <4>1. n \in Nat /\ b \in BOOLEAN /\ (cache.crossed => b)
        BY <1>1
      <4>2. d = [cache EXCEPT !.calls = n, !.crossed = b]
        OBVIOUS
      <4> HIDE DEF n, b, d
      <4>3. QED
        BY <1>1, <4>1, <4>2 DEF Copies
    <3>2. cache' = d
      BY <1>4, <2>2 DEF Want
    <3> HIDE DEF d
    <3>3. CopiesFit(d)
      BY <1>1, <3>1 DEF CopiesFit, CopiesAreOld, CopiesAgree, CopiesInOrder
    <3>4. QED
      BY <3>1, <3>2, <3>3, NotGivenKeeps
  <2>3. QED
    BY <2>1, <2>2
<1>5. CASE Fetched
  BY <1>5, FetchedKeeps
<1>6. CASE Shown
  <2>1. CASE cache.behind # 0
    <3>1. cache' = Behind(cache)
      BY <1>6, <2>1 DEF Shown
    <3>2. QED
      BY <1>1, <2>1, <3>1, BehindFits, NotGivenKeeps
  <2>2. CASE cache.behind = 0 /\ cache.online
    <3> DEFINE d == [cache EXCEPT !.behind = cache.served]
    <3>1. cache' = d /\ cache.worker
      BY <1>6, <2>2 DEF Shown
    <3>2. /\ d \in Copies /\ d.answers = cache.answers /\ d.saved = cache.saved
          /\ d.behind = cache.served /\ d.worker = cache.worker /\ d.served = cache.served
          /\ d.memory = cache.memory /\ d.fetches = cache.fetches
          /\ d.crossed = cache.crossed
      BY <1>1 DEF Copies
    <3> HIDE DEF d
    <3>3. cache.fetches = << >> /\ cache.saved = 0
      BY <1>1, <2>2, <3>1 DEF CopiesFit, CopiesAreOld, CopiesAgree
    <3>4. CopiesAreOld(d)
      BY <1>1, <3>2, <3>3 DEF CopiesFit, CopiesAreOld
    <3>5. CopiesAgree(d)
      BY <1>1, <3>2, <3>3 DEF CopiesFit, CopiesAgree
    <3>6. DOMAIN cache.fetches = {} /\ Len(cache.fetches) = 0
      BY <3>3
    <3>7. CopiesInOrder(d)
      BY <1>1, <3>2, <3>3, <3>6 DEF CopiesInOrder
    <3>8. QED
      BY <3>1, <3>2, <3>4, <3>5, <3>7, NotGivenKeeps DEF CopiesFit
  <2>3. CASE cache.behind = 0 /\ ~cache.online
    <3>1. cache' = cache
      BY <1>6, <2>3 DEF Shown
    <3>2. QED
      BY <1>1, <3>1, NotGivenKeeps
  <2>4. QED
    BY <2>1, <2>2, <2>3
<1>7. CASE Refetched
  <2>1. PICK i \in DOMAIN cache.fetches :
           cache' = [cache EXCEPT !.behind = cache.fetches[i],
                                  !.fetches = RemoveAt(cache.fetches, i)]
    BY <1>7 DEF Refetched
  <2> DEFINE fetches == RemoveAt(cache.fetches, i)
             d == [cache EXCEPT !.behind = cache.fetches[i], !.fetches = fetches]
  <2>2. /\ fetches \in Seq(Nat) /\ Len(fetches) = Len(cache.fetches) - 1
        /\ DOMAIN fetches = 1 .. (Len(cache.fetches) - 1)
        /\ \A j \in 1 .. (Len(cache.fetches) - 1) :
              \E k \in DOMAIN cache.fetches : fetches[j] = cache.fetches[k]
    BY <1>1, RemoveAtProperties
  <2>3. Len(cache.fetches) \in Nat /\ DOMAIN cache.fetches = 1 .. Len(cache.fetches)
        /\ cache.fetches[i] \in Nat
    BY <1>1, LenProperties
  <2> HIDE DEF fetches
  <2>4. /\ d \in Copies /\ d.answers = cache.answers /\ d.saved = cache.saved
        /\ d.behind = cache.fetches[i] /\ d.worker = cache.worker /\ d.served = cache.served
        /\ d.memory = cache.memory /\ d.fetches = fetches
        /\ d.crossed = cache.crossed
    BY <1>1, <2>2, <2>3 DEF Copies
  <2>5. cache' = d
    BY <2>1 DEF fetches
  <2> HIDE DEF d
  <2>6. cache.fetches[i] \in 1 .. cache.served
    BY <1>1 DEF CopiesFit, CopiesAreOld
  <2>7. CopiesAreOld(d)
    <3>1. \A j \in DOMAIN fetches : fetches[j] \in 1 .. cache.served
      BY <1>1, <2>2 DEF CopiesFit, CopiesAreOld
    <3>2. cache.fetches[i] <= cache.served /\ cache.fetches[i] # 0
      BY <1>1, <2>6
    <3>3. QED
      BY <1>1, <2>4, <3>1, <3>2 DEF CopiesFit, CopiesAreOld
  <2>8. CopiesAgree(d)
    BY <1>1, <2>4, <2>6 DEF CopiesFit, CopiesAgree
  <2>9. CopiesInOrder(d)
    <3>1. SUFFICES ASSUME ~cache.crossed
                   PROVE  /\ cache.worker => cache.saved <= cache.fetches[i]
                          /\ Len(fetches) <= 1
                          /\ \A j \in DOMAIN fetches : cache.fetches[i] <= fetches[j]
      BY <2>4 DEF CopiesInOrder
    <3>2. /\ cache.worker => cache.saved <= cache.behind
          /\ Len(cache.fetches) <= 1
          /\ cache.behind <= cache.fetches[i]
      BY <1>1, <3>1 DEF CopiesFit, CopiesInOrder
    <3>3. Len(fetches) = 0 /\ DOMAIN fetches = {}
      <4>1. Len(cache.fetches) <= 1 /\ i \in 1 .. Len(cache.fetches)
        BY <2>3, <3>2
      <4>2. \A n \in Nat : n <= 1 /\ i \in 1 .. n => n = 1
        OBVIOUS
      <4>3. Len(cache.fetches) = 1
        BY <2>3, <4>1, <4>2
      <4>4. QED
        BY <2>2, <4>3
    <3>4. QED
      BY <1>1, <2>3, <3>2, <3>3
  <2>10. QED
    BY <2>4, <2>5, <2>7, <2>8, <2>9, NotGivenKeeps DEF CopiesFit
<1>8. CASE Reload
  <2> DEFINE d == [cache EXCEPT !.memory = 0]
  <2>1. /\ d \in Copies /\ d.answers = cache.answers /\ d.saved = cache.saved
        /\ d.behind = cache.behind /\ d.worker = cache.worker /\ d.served = cache.served
        /\ d.memory = 0 /\ d.fetches = cache.fetches
        /\ d.crossed = cache.crossed
    BY <1>1 DEF Copies
  <2>2. cache' = d
    BY <1>8 DEF Reload
  <2> HIDE DEF d
  <2>3. CopiesFit(d)
    BY <1>1, <2>1 DEF CopiesFit, CopiesAreOld, CopiesAgree, CopiesInOrder
  <2>4. QED
    BY <2>1, <2>2, <2>3, NotGivenKeeps
<1>9. QED
  BY <1>2, <1>3, <1>4, <1>5, <1>6, <1>7, <1>8 DEF CachesNext

\* Nothing is cached to begin with.
LEMMA StartFits ==
  ASSUME NEW what \in Resources, NEW worker \in BOOLEAN, cache = Start(what, worker)
  PROVE  CacheInv
<1>1. << >> \in Seq(Nat) /\ Len(<< >>) = 0 /\ DOMAIN << >> = {}
  OBVIOUS
<1>2. /\ cache \in Copies /\ cache.served = 1 /\ cache.saved = 0 /\ cache.behind = 0
      /\ cache.memory = 0 /\ cache.fetches = << >> /\ cache.answers = << >>
  BY <1>1 DEF Start, Copies
<1>3. CopiesFit(cache)
  BY <1>1, <1>2 DEF CopiesFit, CopiesAreOld, CopiesAgree, CopiesInOrder
<1>4. QED
  BY <1>1, <1>2, <1>3 DEF CacheInv, CachesKeep

\* The caches change on their page only.
LEMMA CacheOrNot ==
  ASSUME [Next]_vars
  PROVE  CachesNext \/ UNCHANGED cache
  BY Zenon DEF Next, Remount, vars

(***************************************************************************)
(* Once the trust list or the catalogue of formats has been had, it is had *)
(* from then on, and never an older one unless two fetches cross, with or  *)
(* without a service worker, however often the server publishes, the       *)
(* connection fails and the page is loaded again.                          *)
(***************************************************************************)
THEOREM CachedCopiesKeep == Spec => []CachesKeep
<1>1. Init => CacheInv
  <2>1. SUFFICES ASSUME Init PROVE CacheInv
    OBVIOUS
  <2>2. PICK what \in Resources, worker \in BOOLEAN : cache = Start(what, worker)
    BY <2>1 DEF Init
  <2>3. QED
    BY <2>2, StartFits
<1>2. CacheInv /\ [Next]_vars => CacheInv'
  <2>1. SUFFICES ASSUME CacheInv, [Next]_vars PROVE CacheInv'
    OBVIOUS
  <2>2. CASE CachesNext
    BY <2>1, <2>2, CacheStep, MaxVersionAssumption
  <2>3. CASE UNCHANGED cache
    BY <2>1, <2>3 DEF CacheInv, CachesKeep
  <2>4. QED
    BY <2>1, <2>2, <2>3, CacheOrNot
<1>3. CacheInv => CachesKeep
  BY DEF CacheInv
<1>4. QED
  BY <1>1, <1>2, <1>3, PTL DEF Spec

-----------------------------------------------------------------------------
(* The issue page *)

\* What is written down for a document is never "none" again (writer.go: rows
\* are only added).
LEMMA DocsStay ==
  ASSUME docs \in [Files -> States], [Next]_vars
  PROVE  /\ docs' \in [Files -> States]
         /\ \A f \in Files : docs[f] # "none" => docs'[f] # "none"
<1> DEFINE Grows == UNCHANGED docs \/ \E f, s : s \in States \ {"none"} /\ docs' = [docs EXCEPT ![f] = s]
<1>1. ASSUME DeskNext
      PROVE  Grows
  <2>1. ASSUME RehydrateAnswered
        PROVE  Grows
    <3>1. PICK q \in Questions("rehydrate") :
             \/ /\ docs[q.of] \in {"none", "live", "revoked"}
                /\ docs' = [docs EXCEPT ![q.of] = IF @ = "none" THEN "live" ELSE @]
             \/ UNCHANGED docs
      BY <2>1, Zenon DEF RehydrateAnswered
    <3>2. QED
      BY <3>1 DEF States
  <2>2. ASSUME ~RehydrateAnswered
        PROVE  UNCHANGED docs
    BY <1>1, <2>2, Zenon DEF DeskNext, Drop, DropNothing, DeskAnswers, Answered, AnswerFails,
       ToggleScan, NoCamera, Scanned, ScanAnswers, ScanAnswered, ScanFails, AskRestore,
       RestoreAnswered,
       AskRehydrate, AskIdentify, IdentifyAnswered, AskAttack, AttackAnswered
  <2>3. QED
    BY <2>1, <2>2
<1>2. ASSUME SendNext \/ InboxNext
      PROVE  UNCHANGED docs
  BY <1>2, Zenon DEF SendNext, InboxNext, SendListed, ChooseReceiver, Send, Posted, Loaded,
      VerifyItem,
     SentElsewhere, PickOrg, DefaultOrg, SetOrg
<1>3. ASSUME IssueNext, ~Issued, ~RunAnswered
      PROVE  UNCHANGED docs
  BY <1>3, Zenon DEF IssueNext, ChooseFile, Issue, IssuersListed, AskIssuers, Lookup,
      LookupAnswered,
     Choose, Cancel, Run
<1>4. ASSUME Issued
      PROVE  Grows
  <2>1. \/ UNCHANGED docs
        \/ \E s \in {"live", docs[form.call]} \ {"none"} : docs' = [docs EXCEPT ![form.call] = s]
    BY <1>4, Zenon DEF Issued
  <2>2. CASE form.call \in Files
    BY <2>1, <2>2 DEF States
  <2>3. CASE form.call \notin Files
    <3>1. \A s : [docs EXCEPT ![form.call] = s] = docs
      BY <2>3
    <3>2. QED
      BY <2>1, <3>1
  <2>4. QED
    BY <2>2, <2>3
<1>5. ASSUME RunAnswered
      PROVE  Grows
  BY <1>5 DEF RunAnswered, Outcome, States
<1>6. ASSUME ReadingNext \/ ComparingNext \/ CachesNext
      PROVE  UNCHANGED docs
  BY <1>6, Zenon DEF ReadingNext, SetLimit, Refresh, RowsLoaded, LoadSamples, SamplesLoaded,
      Reindex,
     Reindexed, ComparingNext, Pick, SetMode, SetInputs, Compare, Compared, CachesNext, Published,
     Connection, Want, Fetched, Shown, Refetched, Reload
<1>7. ASSUME Elsewhere({"live"}) \/ Elsewhere(States \ {"none"})
      PROVE  Grows
  BY <1>7 DEF Elsewhere, States
<1>8. Grows
  <2> HIDE DEF Grows
  <2>1. \/ DeskNext \/ SendNext \/ InboxNext \/ IssueNext \/ ReadingNext \/ ComparingNext \/ CachesNext
        \/ Elsewhere({"live"}) \/ Elsewhere(States \ {"none"}) \/ UNCHANGED docs
    BY Zenon DEF Next, Remount, vars
  <2>2. UNCHANGED docs => Grows
    BY DEF Grows
  <2>3. QED
    BY <1>1, <1>2, <1>3, <1>4, <1>5, <1>6, <1>7, <2>1, <2>2, Zenon
<1>9. QED
  BY <1>8

\* What the fields of the section are made of.
LEMMA CareParts ==
  /\ NoTarget \in Targets /\ NoCall \in CareCalls /\ NoMsg \in Messages
  /\ NoCall.kind = "" /\ ~NoMsg.ok
  /\ \A f \in Files, s \in States :
        /\ [of |-> f, state |-> s] \in Targets
        /\ [of |-> f, state |-> s] # NoTarget
        /\ [of |-> f, state |-> s].of = f
  /\ \A f \in Files, k \in Updates \union {"lookup"} :
        /\ [kind |-> k, of |-> f] \in CareCalls
        /\ [kind |-> k, of |-> f].kind = k
        /\ [kind |-> k, of |-> f].of = f
        /\ \A ok \in BOOLEAN : /\ [of |-> f, kind |-> k, ok |-> ok] \in Messages
                               /\ [of |-> f, kind |-> k, ok |-> ok].of = f
                               /\ [of |-> f, kind |-> k, ok |-> ok].ok = ok
  BY DEF NoTarget, NoCall, NoMsg, Targets, CareCalls, Messages, SomeFile, States, Updates

\* Each click on the issue page, and each answer to it, keeps the invariant.
LEMMA IssueStep ==
  ASSUME IssueInv, IssueNext
  PROVE  IssueInv'
<1>1. docs \in [Files -> States] /\ form \in Forms /\ care \in Cares
  BY DEF IssueInv, IssueTypes
<1>2. /\ care.target \in Targets /\ care.action \in Updates \union {""} /\ care.busy \in BOOLEAN
      /\ care.call \in CareCalls /\ care.msg \in Messages
  BY <1>1 DEF Cares
<1>3. CallFits /\ MessageFits
  BY DEF IssueInv
<1>4. CASE ChooseFile
  <2>1. PICK f \in Files : form' = [form EXCEPT !.file = f, !.done = NoFile]
    BY <1>4 DEF ChooseFile
  <2>2. form' \in Forms /\ form'.busy = form.busy /\ form'.call = form.call /\ form'.done = NoFile
    BY <1>1, <2>1 DEF Forms, SomeFile
  <2>3. docs' = docs /\ care' = care
    BY <1>4 DEF ChooseFile
  <2>4. QED
    BY <1>1, <1>3, <2>2, <2>3 DEF IssueInv, IssueTypes, CallFits, MessageFits
<1>5. CASE Issue
  <2>1. form.file \in Files
    BY <1>1, <1>5 DEF Issue, Forms, SomeFile
  <2>2. form' = [form EXCEPT !.busy = TRUE, !.call = form.file, !.error = FALSE, !.done = NoFile]
    BY <1>5 DEF Issue
  <2>3. form' \in Forms /\ form'.call = form.file /\ form'.done = NoFile
    BY <1>1, <2>1, <2>2 DEF Forms, SomeFile
  <2>4. docs' = docs /\ care' = care
    BY <1>5 DEF Issue
  <2>5. QED
    BY <1>1, <1>3, <2>1, <2>3, <2>4 DEF IssueInv, IssueTypes, CallFits, MessageFits
<1>6. CASE Issued
  <2>1. form.call \in Files /\ care' = care
    BY <1>3, <1>6 DEF Issued, CallFits
  <2>2. CASE /\ \E s \in {"live", docs[form.call]} \ {"none"} :
                   docs' = [docs EXCEPT ![form.call] = s]
             /\ form' \in {[form EXCEPT !.busy = FALSE, !.call = NoFile, !.done = form.call],
                           [form EXCEPT !.busy = FALSE, !.call = NoFile, !.error = TRUE]}
    <3>1. PICK s \in {"live", docs[form.call]} \ {"none"} :
                docs' = [docs EXCEPT ![form.call] = s]
      BY <2>2
    <3>2. s \in States /\ s # "none"
      BY <1>1, <2>1, <3>1 DEF States
    <3>3. /\ docs' \in [Files -> States] /\ docs'[form.call] # "none"
          /\ \A f \in Files : docs[f] # "none" => docs'[f] # "none"
      BY <1>1, <2>1, <3>1, <3>2
    <3>4. form' \in Forms /\ form'.busy = FALSE /\ form'.done \in {form.call, form.done}
      BY <1>1, <2>1, <2>2 DEF Forms, SomeFile
    <3>5. form.done \in Files \union {NoFile}
      BY <1>1 DEF Forms, SomeFile
    <3>6. form'.done # NoFile => docs'[form'.done] # "none"
      BY <1>3, <2>1, <3>3, <3>4, <3>5 DEF MessageFits
    <3>7. QED
      BY <1>1, <1>3, <2>1, <3>3, <3>4, <3>6 DEF IssueInv, IssueTypes, CallFits, MessageFits
  <2>3. CASE /\ form' = [form EXCEPT !.busy = FALSE, !.call = NoFile, !.error = TRUE]
             /\ UNCHANGED docs
    <3>1. form' \in Forms /\ form'.busy = FALSE /\ form'.done = form.done
      BY <1>1, <2>3 DEF Forms, SomeFile
    <3>2. QED
      BY <1>1, <1>3, <2>1, <2>3, <3>1 DEF IssueInv, IssueTypes, CallFits, MessageFits
  <2>4. QED
    BY <1>6, <2>2, <2>3, Zenon DEF Issued
<1>7. CASE IssuersListed \/ AskIssuers
  <2>1. /\ docs' = docs /\ care' = care
        /\ \E st \in {"asking", "ready", "failed"} : form' = [form EXCEPT !.issuers = st]
    BY <1>7 DEF IssuersListed, AskIssuers
  <2>2. /\ form' \in Forms /\ form'.busy = form.busy /\ form'.done = form.done
        /\ form'.call = form.call
    BY <1>1, <2>1 DEF Forms
  <2>3. QED
    BY <1>1, <1>3, <2>1, <2>2 DEF IssueInv, IssueTypes, CallFits, MessageFits
<1>8. CASE \E f \in Files : Lookup(f)
  <2>1. PICK f \in Files : Lookup(f)
    BY <1>8
  <2> DEFINE call == [kind |-> "lookup", of |-> f]
  <2>2. /\ docs' = docs /\ form' = form /\ care.target = NoTarget
        /\ care' = [care EXCEPT !.msg = NoMsg, !.action = "", !.busy = TRUE, !.call = call]
    BY <2>1 DEF Lookup
  <2>3. call \in CareCalls /\ call.kind = "lookup" /\ call.of = f /\ NoMsg \in Messages
    BY CareParts
  <2> HIDE DEF call
  <2>4. /\ care' \in Cares /\ care'.target = care.target /\ care'.action = "" /\ care'.busy = TRUE
        /\ care'.call = call /\ care'.msg = NoMsg
    BY <1>1, <1>2, <2>2, <2>3 DEF Cares
  <2>5. CallFits'
    BY <1>3, <2>2, <2>3, <2>4 DEF CallFits, Updates
  <2>6. QED
    BY <1>1, <1>3, <2>2, <2>4, <2>5 DEF IssueInv, IssueTypes, MessageFits
<1>9. CASE LookupAnswered
  <2> DEFINE f == care.call.of
             quiet == [care EXCEPT !.busy = FALSE, !.call = NoCall]
             found == [of |-> f, state |-> docs[f]]
             missed == [of |-> f, kind |-> "lookup", ok |-> FALSE]
  <2>1. /\ docs' = docs /\ form' = form /\ care.call.kind = "lookup"
        /\ \/ docs[f] # "none" /\ care' = [quiet EXCEPT !.target = found]
           \/ care' = [quiet EXCEPT !.msg = missed]
    <3>1. PICK l \in Ledgers(f) :
             care' = IF l = "registered" THEN [quiet EXCEPT !.target = found]
                     ELSE [quiet EXCEPT !.msg = missed]
      BY <1>9 DEF LookupAnswered
    <3>2. l = "registered" => docs[f] # "none"
      BY DEF Ledgers
    <3>3. QED
      BY <1>9, <3>1, <3>2 DEF LookupAnswered
  <2>2. f \in Files /\ care.target = NoTarget /\ care.msg = NoMsg
    BY <1>3, <2>1 DEF CallFits
  <2>3. care.action = ""
    BY <1>3, <2>2 DEF CallFits
  <2>4. docs[f] \in States
    BY <1>1, <2>2
  <2>5. /\ found \in Targets /\ found # NoTarget /\ found.of = f
        /\ missed \in Messages /\ NoCall \in CareCalls /\ NoCall.kind = ""
    <3>1. found \in Targets /\ found # NoTarget /\ found.of = f
      <4>1. PICK g \in Files, s \in States : g = f /\ s = docs[f]
        BY <2>2, <2>4
      <4>2. found = [of |-> g, state |-> s]
        BY <4>1
      <4> HIDE DEF found, f
      <4>3. QED
        BY <4>1, <4>2, CareParts
    <3>2. missed \in Messages
      BY <2>2, CareParts
    <3>3. QED
      BY <3>1, <3>2, CareParts
  <2> HIDE DEF found, missed, f
  <2>6. CASE care' = [quiet EXCEPT !.target = found]
    <3>1. /\ care' \in Cares /\ care'.target = found /\ care'.action = care.action
          /\ care'.call = NoCall /\ care'.msg = care.msg /\ care'.busy = FALSE
      BY <1>1, <2>5, <2>6 DEF Cares
    <3>2. CallFits'
      BY <1>3, <2>1, <2>2, <2>3, <2>5, <3>1 DEF CallFits, Updates
    <3>3. QED
      BY <1>1, <1>3, <2>1, <2>2, <3>1, <3>2 DEF IssueInv, IssueTypes, MessageFits
  <2>7. CASE care' = [quiet EXCEPT !.msg = missed]
    <3>1. /\ care' \in Cares /\ care'.target = care.target /\ care'.action = care.action
          /\ care'.call = NoCall /\ care'.msg = missed /\ care'.busy = FALSE
      BY <1>1, <2>5, <2>7 DEF Cares
    <3>2. CallFits'
      BY <1>3, <2>1, <2>2, <2>3, <2>5, <3>1 DEF CallFits, Updates
    <3>3. QED
      BY <1>1, <1>3, <2>1, <2>2, <3>1, <3>2 DEF IssueInv, IssueTypes, MessageFits
  <2>8. QED
    BY <2>1, <2>6, <2>7
<1>10. CASE Choose
  <2>1. PICK a \in Updates : care' = [care EXCEPT !.action = a]
    BY <1>10 DEF Choose, Updates
  <2>2. docs' = docs /\ form' = form /\ care.target # NoTarget
    BY <1>10 DEF Choose
  <2>3. /\ care' \in Cares /\ care'.target = care.target /\ care'.busy = care.busy
        /\ care'.call = care.call /\ care'.msg = care.msg
    BY <1>1, <2>1 DEF Cares
  <2>4. CallFits'
    BY <1>3, <2>2, <2>3 DEF CallFits
  <2>5. QED
    BY <1>1, <1>3, <2>2, <2>3, <2>4 DEF IssueInv, IssueTypes, MessageFits
<1>11. CASE Cancel
  <2>1. /\ docs' = docs /\ form' = form
        /\ care' = [care EXCEPT !.target = NoTarget, !.action = ""]
    BY <1>11 DEF Cancel
  <2>2. /\ care' \in Cares /\ care'.target = NoTarget /\ care'.action = "" /\ care'.busy = care.busy
        /\ care'.call = care.call /\ care'.msg = care.msg
    BY <1>1, <2>1, CareParts DEF Cares
  <2>3. CallFits'
    BY <1>3, <2>1, <2>2 DEF CallFits
  <2>4. QED
    BY <1>1, <1>3, <2>1, <2>2, <2>3 DEF IssueInv, IssueTypes, MessageFits
<1>12. CASE Run
  <2> DEFINE call == [kind |-> care.action, of |-> care.target.of]
  <2>1. /\ docs' = docs /\ form' = form /\ care.action # ""
        /\ care' = [care EXCEPT !.busy = TRUE, !.msg = NoMsg, !.call = call]
    BY <1>12 DEF Run
  <2>2. care.target # NoTarget /\ care.target.of \in Files /\ care.action \in Updates
    BY <1>2, <1>3, <2>1 DEF CallFits
  <2>3. call \in CareCalls /\ call.kind = care.action /\ call.of = care.target.of /\ NoMsg \in Messages
    BY <2>2, CareParts
  <2> HIDE DEF call
  <2>4. /\ care' \in Cares /\ care'.target = care.target /\ care'.action = care.action
        /\ care'.call = call /\ care'.msg = NoMsg /\ care'.busy = TRUE
    BY <1>1, <2>1, <2>3 DEF Cares
  <2>5. CallFits'
    BY <1>3, <2>1, <2>2, <2>3, <2>4 DEF CallFits, Updates
  <2>6. QED
    BY <1>1, <1>3, <2>1, <2>4, <2>5 DEF IssueInv, IssueTypes, MessageFits
<1>13. CASE RunAnswered
  <2> DEFINE f == care.call.of
             kind == care.call.kind
             after == Outcome(kind, docs[f])
             quiet == [care EXCEPT !.busy = FALSE, !.call = NoCall]
             told == [of |-> f, kind |-> kind, ok |-> TRUE]
             refused == [of |-> f, kind |-> kind, ok |-> FALSE]
             ended == [quiet EXCEPT !.target = NoTarget, !.action = "", !.msg = told]
             failed == [quiet EXCEPT !.msg = refused]
  <2>1. /\ form' = form /\ kind \in Updates
        /\ \/ /\ after # "refused" /\ docs' = [docs EXCEPT ![f] = after]
              /\ care' \in {ended, failed}
           \/ care' = failed /\ docs' = docs
    BY <1>13 DEF RunAnswered, Updates
  <2>2. f \in Files /\ care.msg = NoMsg /\ (care.target # NoTarget => care.target.of = f)
    BY <1>3, <2>1 DEF CallFits, Updates
  <2>3. after # "refused" => after \in States \ {"none"}
    BY DEF Outcome, States
  <2>4. /\ told \in Messages /\ refused \in Messages /\ NoCall \in CareCalls /\ NoCall.kind = ""
        /\ NoTarget \in Targets /\ refused.of = f /\ ~refused.ok
    BY <2>1, <2>2, CareParts
  <2>5. /\ docs' \in [Files -> States]
        /\ \A g \in Files : docs[g] # "none" => docs'[g] # "none"
    BY <1>1, <2>1, <2>2, <2>3
  <2> HIDE DEF told, refused, f, kind, after
  <2>6. form'.done # NoFile => docs'[form'.done] # "none"
    BY <1>1, <1>3, <2>1, <2>5 DEF MessageFits, Forms, SomeFile
  <2>7. CASE care' = ended
    <3>1. /\ care' \in Cares /\ care'.target = NoTarget /\ care'.action = ""
          /\ care'.call = NoCall /\ care'.msg = told /\ care'.busy = FALSE
      BY <1>1, <2>4, <2>7 DEF Cares
    <3>2. CallFits'
      BY <1>3, <2>1, <2>4, <3>1 DEF CallFits, Updates
    <3>3. QED
      BY <1>1, <2>1, <2>5, <2>6, <3>1, <3>2 DEF IssueInv, IssueTypes, MessageFits
  <2>8. CASE care' = failed
    <3>1. /\ care' \in Cares /\ care'.target = care.target /\ care'.action = care.action
          /\ care'.call = NoCall /\ care'.msg = refused /\ care'.busy = FALSE
      BY <1>1, <2>4, <2>8 DEF Cares
    <3>2. CallFits'
      BY <1>3, <2>1, <2>4, <3>1 DEF CallFits, Updates
    <3>3. QED
      BY <1>1, <2>1, <2>2, <2>4, <2>5, <2>6, <3>1, <3>2 DEF IssueInv, IssueTypes, MessageFits
  <2>9. QED
    BY <2>1, <2>7, <2>8
<1>14. QED
  BY <1>4, <1>5, <1>6, <1>7, <1>8, <1>9, <1>10, <1>11, <1>12, <1>13 DEF IssueNext

\* Whatever else happens, no document is forgotten.
LEMMA IssueKept ==
  ASSUME IssueInv, [Next]_vars, UNCHANGED <<form, care>>
  PROVE  IssueInv'
<1>1. /\ docs' \in [Files -> States]
      /\ \A f \in Files : docs[f] # "none" => docs'[f] # "none"
  BY DocsStay DEF IssueInv, IssueTypes
<1>2. form.done \in Files \union {NoFile}
  BY DEF IssueInv, IssueTypes, Forms, SomeFile
<1>3. MessageFits'
  BY <1>1, <1>2 DEF IssueInv, MessageFits
<1>4. QED
  BY <1>1, <1>3 DEF IssueInv, IssueTypes, CallFits

\* The page as it is mounted.
LEMMA IssueMounted ==
  ASSUME docs \in [Files -> States], form = EmptyForm, care = EmptyCare
  PROVE  IssueInv
<1>1. form \in Forms /\ form.busy = FALSE /\ form.done = NoFile
  BY DEF Forms, EmptyForm, SomeFile
<1>2. /\ care \in Cares /\ care.target = NoTarget /\ care.action = "" /\ care.call = NoCall
      /\ care.busy = FALSE /\ care.msg = NoMsg
  BY CareParts DEF Cares, EmptyCare
<1>3. CallFits
  BY <1>1, <1>2, CareParts DEF CallFits, Updates
<1>4. QED
  BY <1>1, <1>2, <1>3 DEF IssueInv, IssueTypes, MessageFits

\* The issue page tells of what became of the document that was asked about
\* (Issue.jsx:137-181), on whatever page the client is.
LEMMA IssueAlways == Spec => []IssueInv
<1>1. Init => IssueInv
  <2>1. SUFFICES ASSUME Init PROVE IssueInv
    OBVIOUS
  <2>2. form = EmptyForm /\ care = EmptyCare
    BY <2>1 DEF Init, Mounted
  <2>3. docs \in [Files -> States]
    BY <2>1 DEF Init, States
  <2>4. QED
    BY <2>2, <2>3, IssueMounted
<1>2. IssueInv /\ [Next]_vars => IssueInv'
  <2>1. SUFFICES ASSUME IssueInv, [Next]_vars PROVE IssueInv'
    OBVIOUS
  <2>2. \/ IssueNext \/ UNCHANGED <<form, care>>
        \/ form' = EmptyForm /\ care' = EmptyCare
    BY <2>1, Zenon DEF Next, Remount, vars, issueVars
  <2>3. CASE form' = EmptyForm /\ care' = EmptyCare
    <3>1. docs' \in [Files -> States]
      BY <2>1, DocsStay DEF IssueInv, IssueTypes
    <3>2. /\ EmptyForm \in Forms /\ EmptyForm.busy = FALSE /\ EmptyForm.done = NoFile
      BY DEF Forms, EmptyForm, SomeFile
    <3>3. /\ EmptyCare \in Cares /\ EmptyCare.target = NoTarget /\ EmptyCare.action = ""
          /\ EmptyCare.call = NoCall /\ EmptyCare.busy = FALSE /\ EmptyCare.msg = NoMsg
      BY CareParts DEF Cares, EmptyCare
    <3>4. CallFits'
      BY <2>3, <3>2, <3>3, CareParts DEF CallFits, Updates
    <3>5. QED
      BY <2>3, <3>1, <3>2, <3>3, <3>4 DEF IssueInv, IssueTypes, MessageFits
  <2>4. QED
    BY <2>1, <2>2, <2>3, IssueStep, IssueKept
<1>3. QED
  BY <1>1, <1>2, PTL DEF Spec

-----------------------------------------------------------------------------
(* The ledger page and the comparison page *)

\* What loading does to the page.
LEMMA LoadingFields ==
  ASSUME NEW t, NEW l, NEW b \in Books(t, l), NEW n \in Nat, sampled \in BOOLEAN,
         NEW r, r = Loading(b, n)
  PROVE  /\ r \in Books(t, l) /\ r.limit = b.limit
         /\ r.samples = b.samples /\ ~r.stale
         /\ r.loads \in Seq(LoadCalls) /\ r.loads # << >>
         /\ Len(b.loads) \in Nat /\ Len(r.loads) = Len(b.loads) + 1
         /\ DOMAIN r.loads = 1 .. (Len(b.loads) + 1)
         /\ r.loads[Len(b.loads) + 1].limit = n /\ r.loads[Len(b.loads) + 1].seen = sampled
<1> DEFINE call == [limit |-> n, seen |-> sampled]
           loads == Append(b.loads, call)
<1>1. call \in LoadCalls /\ call.limit = n /\ call.seen = sampled
  BY DEF LoadCalls
<1>2. b.loads \in Seq(LoadCalls)
  BY DEF Books
<1>3. r = [b EXCEPT !.error = FALSE, !.loading = TRUE, !.loads = loads, !.stale = FALSE]
  BY <1>2 DEF Loading
<1> HIDE DEF call
<1>4. /\ loads \in Seq(LoadCalls) /\ loads # << >>
      /\ Len(b.loads) \in Nat /\ Len(loads) = Len(b.loads) + 1
      /\ DOMAIN loads = 1 .. (Len(b.loads) + 1) /\ loads[Len(b.loads) + 1] = call
  BY <1>1, <1>2, AppendElements
<1> HIDE DEF loads
<1>5. /\ r \in Books(t, l) /\ r.limit = b.limit
      /\ r.samples = b.samples /\ r.loads = loads /\ r.stale = FALSE
  BY <1>3, <1>4 DEF Books
<1>6. QED
  BY <1>1, <1>4, <1>5

\* The question the page asks is the one it would ask.
LEMMA LoadedFits ==
  ASSUME ReadingInv, NEW b \in Books(book.todo, book.log), NEW n \in Limits,
         b.limit = n, b.loads = book.loads, b.samples = book.samples,
         book' = Loading(b, n), sampled' = sampled, likeness' = likeness
  PROVE  ReadingInv'
<1>0. sampled \in BOOLEAN /\ n \in Nat
  BY LimitsAssumption DEF ReadingInv, ReadingTypes
<1> DEFINE k == Len(book.loads)
<1>1. /\ book' \in Books(book.todo, book.log) /\ book'.limit = n /\ book'.samples = book.samples
      /\ book'.loads # << >> /\ Len(book'.loads) = k + 1
      /\ book'.loads[k + 1].limit = n /\ book'.loads[k + 1].seen = sampled
  BY <1>0, LoadingFields
<1> HIDE DEF k
<1>4. ReadingTypes'
  <2>1. book' \in Books(book'.todo, book'.log)
    BY <1>1 DEF Books
  <2>2. QED
    BY <2>1 DEF ReadingInv, ReadingTypes
<1>5. BookFits'
  <2>1. book.samples.st = "report" => sampled
    BY DEF ReadingInv, BookFits
  <2>2. QED
    BY <1>1, <2>1 DEF BookFits
<1>6. RowsFit'
  BY <1>1 DEF RowsFit
<1>7. QED
  BY <1>4, <1>5, <1>6 DEF ReadingInv, LikenessFits, ViewsFit, ComparisonFits

\* Each click on the ledger page, and each answer to it, keeps the invariant.
LEMMA BookStep ==
  ASSUME ReadingInv, ReadingNext
  PROVE  ReadingInv'
<1>1. /\ sampled \in BOOLEAN /\ book \in Books(book.todo, book.log) /\ likeness \in Likenesses
      /\ BookFits /\ RowsFit
  BY DEF ReadingInv, ReadingTypes, ViewsFit
<1>2. /\ book.limit \in Limits /\ book.loads \in Seq(LoadCalls) /\ book.stale \in BOOLEAN
      /\ book.data \in [limit : Nat, sampled : BOOLEAN]
      /\ book.samples \in [st : {"", "busy", "report", "error"}, limit : Nat]
  BY <1>1 DEF Books
<1>3. likeness' = likeness
  BY Zenon DEF ReadingNext, SetLimit, Refresh, RowsLoaded, LoadSamples, SamplesLoaded,
      Reindex, Reindexed
<1>4. ASSUME NEW b, NEW t, NEW l, b \in Books(t, l), book' = b
      PROVE  book' \in Books(book'.todo, book'.log)
  BY <1>4 DEF Books
<1>5. ASSUME BookFits', RowsFit', sampled' \in BOOLEAN, book' \in Books(book'.todo, book'.log)
      PROVE  ReadingInv'
  BY <1>3, <1>5 DEF ReadingInv, ReadingTypes, LikenessFits, ViewsFit, ComparisonFits
<1>6. CASE \E n \in Limits : SetLimit(n)
  <2>1. PICK n \in Limits : SetLimit(n)
    BY <1>6
  <2> DEFINE b == [book EXCEPT !.limit = n]
  <2>2. /\ b \in Books(book.todo, book.log) /\ b.limit = n /\ b.loads = book.loads
        /\ b.samples = book.samples
    BY <1>1 DEF Books
  <2>3. book' = Loading(b, n) /\ sampled' = sampled
    BY <2>1 DEF SetLimit
  <2> HIDE DEF b
  <2>4. QED
    BY <1>3, <2>2, <2>3, LoadedFits
<1>7. CASE Refresh
  <2>1. book' = Loading(book, book.limit) /\ sampled' = sampled
    BY <1>7 DEF Refresh
  <2>2. QED
    BY <1>1, <1>2, <1>3, <2>1, LoadedFits
<1>8. CASE RowsLoaded
  <2> DEFINE rest(i) == [book EXCEPT !.loads = RemoveAt(book.loads, i), !.loading = FALSE]
  <2>1. PICK i \in DOMAIN book.loads :
           \/ \E seen \in {book.loads[i].seen, sampled} :
                 book' = [rest(i) EXCEPT !.data = [limit |-> book.loads[i].limit, sampled |-> seen],
                                         !.stale = book.stale \/ (i = Len(book.loads) /\ i > 1)]
           \/ book' = [rest(i) EXCEPT !.error = TRUE, !.stale = book.stale \/ i = Len(book.loads)]
    BY <1>1, <1>8 DEF RowsLoaded, Books
  <2> DEFINE loads == RemoveAt(book.loads, i)
  <2>2. /\ loads \in Seq(LoadCalls) /\ Len(loads) = Len(book.loads) - 1
        /\ i # Len(book.loads) => loads # << >> /\ loads[Len(loads)] = book.loads[Len(book.loads)]
    <3>1. book.loads \in Seq(LoadCalls) /\ i \in DOMAIN book.loads
      BY <1>2, <2>1
    <3> HIDE DEF loads
    <3>2. /\ RemoveAt(book.loads, i) \in Seq(LoadCalls)
          /\ Len(RemoveAt(book.loads, i)) = Len(book.loads) - 1
          /\ i # Len(book.loads) =>
                /\ RemoveAt(book.loads, i) # << >>
                /\ RemoveAt(book.loads, i)[Len(RemoveAt(book.loads, i))] = book.loads[Len(book.loads)]
      BY <3>1, RemoveAtProperties, RemoveAtLast
    <3>3. QED
      BY <3>2 DEF loads
  <2>3. Len(book.loads) \in Nat /\ i \in 1 .. Len(book.loads) /\ book.loads[i] \in LoadCalls
    <3>1. book.loads \in Seq(LoadCalls) /\ i \in DOMAIN book.loads
      BY <1>2, <2>1
    <3> HIDE DEF loads
    <3>2. QED
      BY <3>1, LenProperties, ElementOfSeq
  <2>4. sampled' = sampled
    BY <1>8 DEF RowsLoaded
  <2>5. i = Len(book.loads) /\ ~(i > 1) => loads = << >>
    BY <2>2, <2>3, EmptySeq
  <2>6. book.loads # << >>
    BY <2>3
  <2> HIDE DEF loads
  <2>7. ASSUME NEW d \in [limit : Nat, sampled : BOOLEAN], NEW e \in BOOLEAN, NEW h \in BOOLEAN,
               book' = [book EXCEPT !.loads = loads, !.loading = FALSE, !.data = d, !.error = e, !.stale = h],
               ~h => /\ ~book.stale
                     /\ i = Len(book.loads) => /\ loads = << >> /\ d.limit = book.loads[i].limit
                                   /\ d.sampled \in {book.loads[i].seen, sampled}
        PROVE  ReadingInv'
    <3>1. /\ book' \in Books(book.todo, book.log) /\ book'.limit = book.limit
          /\ book'.samples = book.samples /\ book'.stale = h /\ book'.data = d
          /\ book'.loads = loads
      BY <1>1, <2>2, <2>7 DEF Books
    <3>2. ASSUME ~h
          PROVE  LET asked == book.loads[Len(book.loads)]
                 IN  asked.limit = book.limit /\ (book.samples.st = "report" => asked.seen)
      BY <1>1, <2>6, <2>7, <3>2 DEF BookFits
    <3>3. BookFits'
      <4>1. book.samples.st = "report" => sampled
        BY <1>1 DEF BookFits
      <4>2. ~h /\ loads # << >> => loads[Len(loads)] = book.loads[Len(book.loads)]
        BY <2>2, <2>7
      <4>3. QED
        BY <2>4, <3>1, <3>2, <4>1, <4>2 DEF BookFits
    <3>4. RowsFit'
      <4>1. ASSUME ~h, loads = << >>
            PROVE  d.limit = book.limit /\ (book.samples.st = "report" => d.sampled)
        <5>1. i = Len(book.loads)
          BY <2>2, <4>1
        <5>2. book.samples.st = "report" => sampled
          BY <1>1 DEF BookFits
        <5>3. QED
          BY <2>7, <3>2, <4>1, <5>1, <5>2
      <4>2. QED
        BY <3>1, <4>1 DEF RowsFit
    <3>5. QED
      BY <1>1, <1>4, <1>5, <2>4, <3>1, <3>3, <3>4
  <2>8. ASSUME NEW seen \in {book.loads[i].seen, sampled},
               book' = [rest(i) EXCEPT !.data = [limit |-> book.loads[i].limit, sampled |-> seen],
                                       !.stale = book.stale \/ (i = Len(book.loads) /\ i > 1)]
        PROVE  ReadingInv'
    <3> DEFINE d == [limit |-> book.loads[i].limit, sampled |-> seen]
               h == book.stale \/ (i = Len(book.loads) /\ i > 1)
    <3>1. d \in [limit : Nat, sampled : BOOLEAN] /\ d.limit = book.loads[i].limit /\ d.sampled = seen
      BY <1>1, <2>3 DEF LoadCalls
    <3>2. h \in BOOLEAN /\ (~h => ~book.stale /\ (i = Len(book.loads) => loads = << >>))
      BY <1>2, <2>5
    <3> HIDE DEF d, h
    <3>3. /\ book' = [book EXCEPT !.loads = loads, !.loading = FALSE, !.data = d,
                                  !.error = book.error, !.stale = h]
          /\ book.error \in BOOLEAN
      BY <1>1, <2>8 DEF Books, d, h, loads
    <3>4. QED
      BY <2>7, <3>1, <3>2, <3>3
  <2>9. ASSUME book' = [rest(i) EXCEPT !.error = TRUE, !.stale = book.stale \/ i = Len(book.loads)]
        PROVE  ReadingInv'
    <3> DEFINE h == book.stale \/ i = Len(book.loads)
    <3>1. h \in BOOLEAN /\ (~h => ~book.stale /\ i # Len(book.loads))
      BY <1>2
    <3> HIDE DEF h
    <3>2. book' = [book EXCEPT !.loads = loads, !.loading = FALSE, !.data = book.data,
                               !.error = TRUE, !.stale = h]
      BY <1>1, <2>9 DEF Books, h, loads
    <3>3. QED
      BY <1>2, <2>7, <3>1, <3>2
  <2>10. QED
    BY <2>1, <2>8, <2>9
<1>9. CASE LoadSamples
  <2> DEFINE s == [st |-> "busy", limit |-> book.limit]
  <2>1. book' = [book EXCEPT !.samples = s] /\ sampled' = sampled
    BY <1>9 DEF LoadSamples
  <2>2. /\ s \in [st : {"", "busy", "report", "error"}, limit : Nat] /\ s.st = "busy"
    BY <1>2, LimitsAssumption
  <2> HIDE DEF s
  <2>4. /\ book' \in Books(book.todo, book.log) /\ book'.limit = book.limit
        /\ book'.samples = s /\ book'.stale = book.stale /\ book'.data = book.data
        /\ book'.loads = book.loads
    BY <1>1, <2>1, <2>2 DEF Books
  <2>5. BookFits' /\ RowsFit'
    BY <1>1, <2>1, <2>2, <2>4 DEF BookFits, RowsFit
  <2>6. QED
    BY <1>1, <1>4, <1>5, <2>1, <2>4, <2>5
<1>10. CASE SamplesLoaded
  <2>1. CASE /\ sampled' = TRUE
             /\ LET b == [book EXCEPT !.samples.st = "report"]
                IN  book' = [Loading(b, b.samples.limit) EXCEPT
                               !.loads[Len(b.loads) + 1].seen = TRUE, !.stale = b.samples.limit # b.limit]
    <3> DEFINE b == [book EXCEPT !.samples.st = "report"]
               n == book.samples.limit
               r == Loading(b, n)
               k == Len(book.loads) + 1
               h == n # book.limit
    <3>1. n \in Nat /\ Len(book.loads) \in Nat /\ h \in BOOLEAN
      BY <1>2, LenProperties
    <3>2. /\ b.samples.limit = n /\ b.limit = book.limit
          /\ b.loads = book.loads /\ b \in Books(book.todo, book.log)
      BY <1>1 DEF Books
    <3> HIDE DEF b, n
    <3>3. /\ r \in Books(book.todo, book.log) /\ r.limit = book.limit
          /\ r.loads \in Seq(LoadCalls) /\ Len(r.loads) = k /\ DOMAIN r.loads = 1 .. k
          /\ r.loads[k].limit = n
      BY <1>1, <3>1, <3>2, LoadingFields
    <3> HIDE DEF r
    <3> DEFINE last == [r.loads[k] EXCEPT !.seen = TRUE]
               loads == [r.loads EXCEPT ![k] = last]
    <3>4. k \in 1 .. k
      BY <3>1
    <3>5. last \in LoadCalls /\ last.limit = n /\ last.seen = TRUE
      <4>1. r.loads[k] \in LoadCalls
        BY <3>3, <3>4, ElementOfSeq
      <4>2. QED
        BY <3>3, <4>1 DEF LoadCalls
    <3>6. book' = [r EXCEPT !.loads = loads, !.stale = h]
      BY <2>1, <3>2, <3>3, <3>4 DEF r, b, n
    <3> HIDE DEF last
    <3>7. loads \in Seq(LoadCalls) /\ Len(loads) = k /\ loads[k] = last
      BY <3>1, <3>3, <3>4, <3>5, ExceptSeq, LenProperties
    <3>8. loads # << >>
      BY <3>1, <3>7
    <3> HIDE DEF loads
    <3>9. /\ book' \in Books(book.todo, book.log) /\ book'.limit = book.limit
          /\ book'.stale = h /\ book'.loads = loads
      BY <3>1, <3>3, <3>6, <3>7 DEF Books
    <3>12. BookFits' /\ RowsFit'
      BY <2>1, <3>5, <3>7, <3>8, <3>9 DEF BookFits, RowsFit
    <3>13. QED
      BY <1>4, <1>5, <2>1, <3>9, <3>12
  <2>2. CASE sampled' \in {sampled, TRUE} /\ book' = [book EXCEPT !.samples.st = "error"]
    <3>1. /\ book' \in Books(book.todo, book.log) /\ book'.limit = book.limit
          /\ book'.samples.st = "error" /\ book'.stale = book.stale /\ book'.data = book.data
          /\ book'.loads = book.loads
      BY <1>1, <2>2 DEF Books
    <3>2. BookFits' /\ RowsFit'
      BY <1>1, <3>1 DEF BookFits, RowsFit
    <3>3. QED
      BY <1>1, <1>4, <1>5, <2>2, <3>1, <3>2
  <2>3. QED
    BY <1>10, <2>1, <2>2 DEF SamplesLoaded
<1>11. CASE Reindex \/ Reindexed
  <2>1. sampled' = sampled
    BY <1>11 DEF Reindex, Reindexed
  <2>2. \E t, l : book' = [book EXCEPT !.todo = t, !.log = l]
    <3>1. CASE Reindex
      BY <3>1 DEF Reindex
    <3>2. CASE Reindexed
      <4>1. \/ \E t : book' = [book EXCEPT !.todo = t]
            \/ \E t, l : book' = [[book EXCEPT !.todo = t] EXCEPT !.log = l]
        BY <3>2, Zenon DEF Reindexed
      <4>2. ASSUME NEW t, book' = [book EXCEPT !.todo = t]
            PROVE  book' = [book EXCEPT !.todo = t, !.log = book.log]
        BY <1>1, <4>2 DEF Books
      <4>3. QED
        BY <4>1, <4>2
    <3>3. QED
      BY <1>11, <3>1, <3>2
  <2>3. PICK t, l : book' = [book EXCEPT !.todo = t, !.log = l]
    BY <2>2
  <2>4. /\ book' \in Books(t, l) /\ book'.limit = book.limit
        /\ book'.samples = book.samples /\ book'.stale = book.stale /\ book'.data = book.data
        /\ book'.loads = book.loads
    BY <1>1, <2>3 DEF Books
  <2>5. BookFits' /\ RowsFit'
    BY <1>1, <2>1, <2>4 DEF BookFits, RowsFit
  <2>6. QED
    BY <1>1, <1>4, <1>5, <2>1, <2>4, <2>5
<1>12. QED
  BY <1>6, <1>7, <1>8, <1>9, <1>10, <1>11 DEF ReadingNext

\* The page of the comparison takes what it is answered for what it asked.
LEMMA LikenessStep ==
  ASSUME ReadingInv, ComparingNext
  PROVE  ReadingInv'
<1>1. likeness \in Likenesses /\ LikenessFits /\ ComparisonFits
  BY DEF ReadingInv, ReadingTypes, ViewsFit
<1>2. /\ likeness.inputs \in Inputs /\ likeness.call \in Inputs /\ likeness.result \in Inputs
      /\ likeness.busy \in BOOLEAN /\ likeness.stale \in BOOLEAN /\ likeness.error \in BOOLEAN
  BY <1>1 DEF Likenesses
<1>3. sampled' = sampled /\ book' = book
  BY Zenon DEF ComparingNext, Pick, SetMode, SetInputs, Compare, Compared
<1>4. NoInputs \in Inputs
  BY DEF Inputs, NoInputs
<1>5. ASSUME likeness' \in Likenesses, LikenessFits', ComparisonFits'
      PROVE  ReadingInv'
  BY <1>3, <1>5 DEF ReadingInv, ReadingTypes, BookFits, ViewsFit, RowsFit
<1>6. ASSUME NEW inputs \in Inputs, SetInputs(inputs)
      PROVE  ReadingInv'
  <2>1. likeness' = [likeness EXCEPT !.inputs = inputs, !.result = NoInputs, !.stale = likeness.busy]
    BY <1>6 DEF SetInputs
  <2>3. /\ likeness' \in Likenesses /\ likeness'.result = NoInputs
        /\ likeness'.stale = likeness.busy /\ likeness'.busy = likeness.busy
    BY <1>1, <1>2, <1>4, <2>1 DEF Likenesses
  <2>4. LikenessFits' /\ ComparisonFits'
    BY <2>3 DEF LikenessFits, ComparisonFits
  <2>5. QED
    BY <1>5, <2>3, <2>4
<1>7. CASE Compare
  <2>1. likeness' = [likeness EXCEPT !.busy = TRUE, !.error = FALSE, !.result = NoInputs,
                                     !.call = likeness.inputs, !.stale = FALSE]
    BY <1>7 DEF Compare
  <2>2. /\ likeness' \in Likenesses /\ likeness'.result = NoInputs
        /\ likeness'.call = likeness.inputs /\ likeness'.inputs = likeness.inputs
    BY <1>1, <1>2, <1>4, <2>1 DEF Likenesses
  <2>3. LikenessFits' /\ ComparisonFits'
    BY <2>2 DEF LikenessFits, ComparisonFits
  <2>4. QED
    BY <1>5, <2>2, <2>3
<1>8. CASE Compared
  <2>1. likeness.busy
    BY <1>8 DEF Compared
  <2>2. \E r \in {likeness.call, likeness.result}, e \in {TRUE, likeness.error} :
           likeness' = [likeness EXCEPT !.busy = FALSE, !.call = NoInputs, !.result = r, !.error = e]
    <3> DEFINE quiet == [likeness EXCEPT !.busy = FALSE, !.call = NoInputs]
    <3>1. /\ [quiet EXCEPT !.result = likeness.call] =
                [likeness EXCEPT !.busy = FALSE, !.call = NoInputs, !.result = likeness.call,
                                 !.error = likeness.error]
          /\ [quiet EXCEPT !.error = TRUE] =
                [likeness EXCEPT !.busy = FALSE, !.call = NoInputs, !.result = likeness.result,
                                 !.error = TRUE]
      BY <1>1 DEF Likenesses
    <3>2. likeness' \in {[quiet EXCEPT !.result = likeness.call], [quiet EXCEPT !.error = TRUE]}
      BY <1>8 DEF Compared
    <3> HIDE DEF quiet
    <3>3. QED
      BY <3>1, <3>2
  <2>3. PICK r \in {likeness.call, likeness.result}, e \in {TRUE, likeness.error} :
           likeness' = [likeness EXCEPT !.busy = FALSE, !.call = NoInputs, !.result = r, !.error = e]
    BY <2>2
  <2>4. r \in Inputs /\ e \in BOOLEAN
    BY <1>2
  <2>5. /\ likeness' \in Likenesses /\ likeness'.busy = FALSE /\ likeness'.result = r
        /\ likeness'.inputs = likeness.inputs /\ likeness'.stale = likeness.stale
    BY <1>1, <1>4, <2>3, <2>4 DEF Likenesses
  <2>6. ~likeness.stale /\ r # NoInputs => r = likeness.inputs
    BY <1>1, <2>1 DEF LikenessFits
  <2>7. LikenessFits' /\ ComparisonFits'
    BY <2>5, <2>6 DEF LikenessFits, ComparisonFits
  <2>8. QED
    BY <1>5, <2>5, <2>7
<1>9. CASE (\E field \in {"target", "other"} : Pick(field)) \/ SetMode
  <2>1. \E inputs \in Inputs : SetInputs(inputs)
    <3>1. ASSUME NEW f \in Files
          PROVE  /\ [likeness.inputs EXCEPT !["target"] = f] \in Inputs
                 /\ [likeness.inputs EXCEPT !["other"] = f] \in Inputs
      BY <1>2 DEF Inputs
    <3>2. ASSUME NEW m \in {"file", "ledger"}
          PROVE  [likeness.inputs EXCEPT !.mode = m] \in Inputs
      BY <1>2 DEF Inputs
    <3>3. QED
      BY <1>9, <3>1, <3>2 DEF Pick, SetMode
  <2>2. QED
    BY <1>6, <2>1
<1>10. QED
  BY <1>7, <1>8, <1>9 DEF ComparingNext

\* The invariant speaks of nothing that other pages change.
LEMMA ReadingKept ==
  ASSUME ReadingInv, UNCHANGED <<sampled, book, likeness>>
  PROVE  ReadingInv'
BY DEF ReadingInv, ReadingTypes, BookFits, LikenessFits, ViewsFit, RowsFit, ComparisonFits

\* The page of the comparison as it is mounted.
LEMMA LikenessMounted ==
  /\ EmptyLikeness \in Likenesses /\ EmptyLikeness.result = NoInputs
  /\ EmptyLikeness.busy = FALSE
BY DEF EmptyLikeness, Likenesses, Inputs, NoInputs

\* The ledger page as it is mounted: its effect has asked for the rows.
LEMMA BookMounted ==
  ASSUME sampled \in BOOLEAN
  PROVE  /\ \E e : OpenBook \in Books(e, e)
         /\ OpenBook.loads # << >> /\ OpenBook.samples.st = ""
         /\ OpenBook.loads[Len(OpenBook.loads)].limit = OpenBook.limit
<1> DEFINE b == [limit |-> DefaultLimit, data |-> NoData, error |-> FALSE, loading |-> FALSE,
                 loads |-> << >>, samples |-> [st |-> "", limit |-> 0], todo |-> << >>, log |-> << >>,
                 stale |-> FALSE]
<1>1. b \in Books(<< >>, << >>) /\ b.limit = DefaultLimit
  BY LimitsAssumption, EmptySeq DEF Books, NoData
<1>2. Len(b.loads) = 0 /\ b.samples.st = ""
  OBVIOUS
<1>3. OpenBook = Loading(b, DefaultLimit) /\ DefaultLimit \in Nat
  BY LimitsAssumption DEF OpenBook
<1> HIDE DEF b
<1> DEFINE n == DefaultLimit
<1> HIDE DEF n
<1>4. PICK e, c, r : c = b /\ c \in Books(e, e) /\ r = Loading(c, n) /\ n \in Nat /\ r = OpenBook
  BY <1>1, <1>3 DEF n
<1>5. c \in Books(e, e) /\ r = Loading(c, n) /\ n \in Nat /\ sampled \in BOOLEAN
  BY <1>4
<1>6. /\ r \in Books(e, e) /\ r.limit = c.limit
      /\ r.samples = c.samples /\ r.loads # << >> /\ Len(r.loads) = Len(c.loads) + 1
      /\ DOMAIN r.loads = 1 .. (Len(c.loads) + 1) /\ r.loads[Len(c.loads) + 1].limit = n
  BY <1>5, LoadingFields
<1> DEFINE m == Len(c.loads)
           loads == r.loads
<1>7. m = 0
  BY <1>2, <1>4
<1>8. c.samples.st = "" /\ c.limit = n
  BY <1>1, <1>2, <1>4 DEF n
<1>9. Len(loads) = m + 1 /\ DOMAIN loads = 1 .. (m + 1) /\ loads[m + 1].limit = n
      /\ r.samples = c.samples /\ r.limit = c.limit
  BY <1>6
<1> HIDE DEF m, loads
<1>10. loads[Len(loads)].limit = n
  BY <1>9
<1>11. r.samples.st = "" /\ r.limit = n
  BY <1>8, <1>9
<1>12. r.loads[Len(r.loads)].limit = r.limit
  BY <1>10, <1>11, Zenon DEF loads
<1>13. r = OpenBook /\ r \in Books(e, e) /\ r.loads # << >>
  BY <1>4, <1>6
<1> HIDE DEF b, n
<1>14. QED
  BY <1>13, <1>11, <1>12, Zenon

\* The pages that read the server show what they were last asked for
\* (Ledger.jsx:35-67, Similarity.jsx:24-43).
LEMMA ReadingAlways == Spec => []ReadingInv
<1>1. Init => ReadingInv
  <2>1. SUFFICES ASSUME Init PROVE ReadingInv
    OBVIOUS
  <2>0. sampled = FALSE
    BY <2>1, Zenon DEF Init
  <2>00. sampled \in BOOLEAN
    BY <2>0
  <2>2. book = OpenBook /\ likeness = EmptyLikeness
    BY <2>1 DEF Init, Mounted
  <2>3. ReadingTypes
    BY <2>00, <2>2, BookMounted, LikenessMounted DEF ReadingTypes, Books
  <2>4. BookFits /\ RowsFit
    <3>1. "" # "report"
      OBVIOUS
    <3>2. /\ book.loads # << >> /\ book.samples.st = ""
          /\ book.loads[Len(book.loads)].limit = book.limit
      BY <2>00, <2>2, BookMounted
    <3>3. QED
      BY <3>1, <3>2, Zenon DEF BookFits, RowsFit
  <2>5. LikenessFits /\ ComparisonFits
    BY <2>2, LikenessMounted DEF LikenessFits, ComparisonFits
  <2>6. QED
    BY <2>3, <2>4, <2>5 DEF ReadingInv, ViewsFit
<1>2. ReadingInv /\ [Next]_vars => ReadingInv'
  <2>1. SUFFICES ASSUME ReadingInv, [Next]_vars PROVE ReadingInv'
    OBVIOUS
  <2>2. \/ ReadingNext \/ ComparingNext \/ UNCHANGED <<sampled, book, likeness>>
        \/ book' = OpenBook /\ UNCHANGED <<sampled, likeness>>
        \/ likeness' = EmptyLikeness /\ UNCHANGED <<sampled, book>>
    BY <2>1, Zenon DEF Next, Remount, vars, ledgerVars
  <2>3. CASE book' = OpenBook /\ UNCHANGED <<sampled, likeness>>
    <3>1. sampled \in BOOLEAN
      BY <2>1 DEF ReadingInv, ReadingTypes
    <3>2. ReadingTypes'
      BY <2>1, <2>3, <3>1, BookMounted DEF ReadingInv, ReadingTypes, Books
    <3>3. BookFits' /\ RowsFit'
      <4>1. /\ book'.loads # << >> /\ book'.samples.st = ""
            /\ book'.loads[Len(book'.loads)].limit = book'.limit
        BY <2>3, <3>1, BookMounted
      <4>2. "" # "report"
        OBVIOUS
      <4>3. QED
        BY <4>1, <4>2, Zenon DEF BookFits, RowsFit
    <3>4. QED
      BY <2>1, <2>3, <3>2, <3>3 DEF ReadingInv, LikenessFits, ViewsFit, ComparisonFits
  <2>4. CASE likeness' = EmptyLikeness /\ UNCHANGED <<sampled, book>>
    <3>1. LikenessFits' /\ ComparisonFits' /\ likeness' \in Likenesses
      BY <2>4, LikenessMounted DEF LikenessFits, ComparisonFits
    <3>2. QED
      BY <2>1, <2>4, <3>1 DEF ReadingInv, ReadingTypes, BookFits, ViewsFit, RowsFit
  <2>5. QED
    BY <2>1, <2>2, <2>3, <2>4, BookStep, LikenessStep, ReadingKept
<1>3. QED
  BY <1>1, <1>2, PTL DEF Spec

\* What a page shows fits what it was last asked, however often the user asks,
\* leaves and comes back: the issue page tells of the document that was issued or
\* changed; the ledger page shows, when nothing is awaited, the rows of the chosen
\* limit, unless the answer to the last question failed, arrived before that to an
\* earlier one, or was to a question of loadSamples whose limit had been changed
\* since; and the comparison is that of the chosen files, unless they were changed
\* while it was awaited (Issue.jsx:88-181, Ledger.jsx:35-67, Similarity.jsx:24-43).
THEOREM PagesAnswerWhatTheyAsk == Spec => []AnswersFit
<1>1. IssueInv /\ ReadingInv => AnswersFit
  BY DEF IssueInv, ReadingInv, AnswersFit
<1>2. QED
  BY <1>1, IssueAlways, ReadingAlways, PTL

-----------------------------------------------------------------------------
(* The exchange between organisations *)

\* Nothing is struck out of the log.
LogGrows ==
    /\ observations' \in Seq(Notes)
    /\ Len(observations) <= Len(observations')
    /\ \A v \in DOMAIN observations : observations'[v] = observations[v]

\* What the log is made of.
LEMMA LogParts ==
  ASSUME ExchangeInv
  PROVE  /\ observations \in Seq(Notes) /\ Len(observations) \in Nat
         /\ DOMAIN observations = 1 .. Len(observations)
         /\ posts \in Seq(Posts) /\ org \in SomeOrg /\ send \in SendPanels
         /\ inbox = Closed \/ inbox \in Inboxes
         /\ LogFits /\ InboxFits /\ ListenersFit /\ InboxIsTrue
  BY LenProperties DEF ExchangeInv, ExchangeTypes

\* A log that has grown says the same of what was in it.
LEMMA NotesKeep ==
  ASSUME observations \in Seq(Notes), LogGrows,
         NEW e, NEW n \in 0 .. Len(observations), NoteFits(e, n)
  PROVE  NoteFits(e, n)'
<1>1. Len(observations) \in Nat /\ DOMAIN observations = 1 .. Len(observations)
  BY LenProperties
<1>2. ASSUME e.kind = "VERIFIED"
      PROVE  /\ e.re \in 1 .. n
             /\ e.doc = observations'[e.re].doc /\ e.from = observations'[e.re].from /\ e.to = e.by
  <2>1. /\ e.re \in 1 .. n
        /\ e.doc = observations[e.re].doc /\ e.from = observations[e.re].from /\ e.to = e.by
    BY <1>2 DEF NoteFits
  <2>2. e.re \in DOMAIN observations
    BY <1>1, <2>1
  <2>3. observations'[e.re] = observations[e.re]
    BY <2>2 DEF LogGrows
  <2>4. QED
    BY <2>1, <2>3
<1>3. QED
  BY <1>2 DEF NoteFits

\* Of fewer entries no more than the limit are left.
LEMMA FewerNotes ==
  ASSUME NEW l \in Int, NEW m \in Int, NEW S \in SUBSET (l .. m), NEW T \in SUBSET S,
         Cardinality(S) <= InboxLimit
  PROVE  Cardinality(T) <= InboxLimit
<1>1. IsFiniteSet(l .. m)
  BY FS_Interval
<1>2. IsFiniteSet(S)
  BY <1>1, FS_Subset
<1>3. IsFiniteSet(T) /\ Cardinality(T) <= Cardinality(S)
  BY <1>2, FS_Subset
<1>4. Cardinality(S) \in Nat /\ Cardinality(T) \in Nat /\ InboxLimit \in Nat
  BY <1>2, <1>3, FS_CardinalityType, WebAssumption
<1>5. QED
  BY <1>3, <1>4

\* An inbox that lists the same is as true in a log that has grown.
LEMMA InboxKeeps ==
  ASSUME ExchangeInv, LogGrows, inbox.open, inbox'.items = inbox.items,
         inbox'.org = inbox.org, inbox'.asked = inbox.asked
  PROVE  InboxIsTrue'
<1> DEFINE n == Len(observations)
           m == Len(observations)'
<1>1. /\ n \in Nat /\ m \in Nat /\ n <= m /\ DOMAIN observations = 1 .. n
  BY LogParts, LenProperties DEF LogGrows
<1>2. /\ inbox.items \subseteq 1 .. n /\ inbox.asked <= n /\ inbox.asked \in Nat
  <2>1. inbox \in Inboxes
    BY LogParts DEF Closed
  <2>2. QED
    BY <2>1, LogParts DEF InboxFits, Inboxes
<1>3. \A v \in 1 .. n : observations'[v] = observations[v]
  BY <1>1 DEF LogGrows
<1>4. ASSUME NEW s \in inbox.items
      PROVE  /\ observations'[s].to = inbox.org
             /\ \A v \in 1 .. inbox.asked :
                   observations'[v].re = s => observations'[v].by # observations'[s].to
  <2>1. /\ observations[s].to = inbox.org
        /\ \A v \in 1 .. inbox.asked :
              observations[v].re = s => observations[v].by # observations[s].to
    BY LogParts DEF InboxIsTrue
  <2>2. s \in 1 .. n /\ \A v \in 1 .. inbox.asked : v \in 1 .. n
    BY <1>1, <1>2
  <2>3. QED
    BY <1>3, <2>1, <2>2
<1>5. ASSUME NEW s \in 1 .. inbox.asked, Unseen(s)',
             Cardinality(NotesFor(inbox.org, s, Len(observations)))' <= InboxLimit
      PROVE  s \in inbox.items
  <2>1. s \in 1 .. n /\ \A v \in s .. n : v \in s .. m /\ v \in 1 .. n
    BY <1>1, <1>2
  <2>2. Unseen(s)
    <3>1. /\ observations'[s].kind = "SENT" /\ observations'[s].to = inbox.org
          /\ \A v \in s .. m :
                ~ (observations'[v].kind = "VERIFIED" /\ observations'[v].doc = observations'[s].doc)
      BY <1>5 DEF Unseen
    <3>2. QED
      BY <1>3, <2>1, <3>1 DEF Unseen
  <2>3. Cardinality(NotesFor(inbox.org, s, n)) <= InboxLimit
    <3> DEFINE few == {v \in s .. n : observations[v].to = inbox.org}
               more == {v \in s .. m : observations'[v].to = inbox.org}
    <3>1. few \subseteq more /\ more \subseteq s .. m
      BY <1>3, <2>1
    <3>2. s \in Int /\ m \in Int
      BY <1>1, <2>1
    <3>3. more = NotesFor(inbox.org, s, Len(observations))'
      BY DEF NotesFor
    <3>4. few = NotesFor(inbox.org, s, n)
      BY DEF NotesFor
    <3>5. Cardinality(more) <= InboxLimit
      BY <1>5, <3>3
    <3> HIDE DEF few, more, m
    <3>6. Cardinality(few) <= InboxLimit
      BY <3>1, <3>2, <3>5, FewerNotes
    <3>7. QED
      BY <3>4, <3>6
  <2>4. QED
    BY <2>2, <2>3, LogParts DEF InboxIsTrue
<1>6. QED
  BY <1>4, <1>5 DEF InboxIsTrue

\* A log that nobody writes to.
LEMMA LogStays ==
  ASSUME ExchangeInv, UNCHANGED observations
  PROVE  LogGrows
  BY LogParts DEF LogGrows

\* The inbox asks for what was sent to an organisation.
LEMMA AskingFields ==
  ASSUME NEW p \in Inboxes, NEW o \in SomeOrg, observations \in Seq(Notes), NEW r, r = Asking(p, o),
         \A i \in DOMAIN p.loads : p.loads[i].asked <= Len(observations)
  PROVE  /\ r \in Inboxes /\ r.open /\ r.asked = p.asked /\ r.org = p.org
         /\ o = NoOrg => r.items = {}
         /\ o # NoOrg => r.items = p.items
         /\ \A i \in DOMAIN r.loads : r.loads[i].asked <= Len(observations)
<1>1. p.loads \in Seq(Loads) /\ p.open
  BY DEF Inboxes
<1>2. CASE o = NoOrg
  <2>1. r = [p EXCEPT !.me = o, !.items = {}]
    BY <1>2 DEF Asking
  <2>2. /\ r \in Inboxes /\ r.asked = p.asked /\ r.org = p.org /\ r.items = {} /\ r.loads = p.loads
    BY <2>1 DEF Inboxes
  <2>3. r.open
    BY <2>2 DEF Inboxes
  <2>4. QED
    BY <1>2, <2>2, <2>3
<1>3. CASE o # NoOrg
  <2> DEFINE load == [org |-> o, asked |-> Len(observations)]
             loads == Append(p.loads, load)
  <2>1. r = [p EXCEPT !.me = o, !.loads = loads]
    BY <1>3 DEF Asking
  <2>2. Len(observations) \in Nat /\ o \in Orgs
    BY <1>3, LenProperties DEF SomeOrg
  <2>3. load \in Loads /\ load.asked <= Len(observations)
    BY <2>2 DEF Loads
  <2> HIDE DEF load
  <2>4. /\ loads \in Seq(Loads) /\ DOMAIN loads = 1 .. (Len(p.loads) + 1) /\ Len(p.loads) \in Nat
        /\ DOMAIN p.loads = 1 .. Len(p.loads)
        /\ \A i \in DOMAIN p.loads : loads[i] = p.loads[i]
        /\ loads[Len(p.loads) + 1] = load
    BY <1>1, <2>3, AppendElements
  <2>5. \A i \in DOMAIN loads : loads[i].asked <= Len(observations)
    <3>1. \A i \in DOMAIN loads : i \in DOMAIN p.loads \/ i = Len(p.loads) + 1
      BY <2>4
    <3>2. QED
      BY <2>3, <2>4, <3>1
  <2> HIDE DEF loads
  <2>6. /\ r \in Inboxes /\ r.asked = p.asked /\ r.org = p.org /\ r.items = p.items /\ r.loads = loads
    BY <2>1, <2>4 DEF Inboxes
  <2>7. r.open
    BY <2>6 DEF Inboxes
  <2>8. QED
    BY <1>3, <2>5, <2>6, <2>7
<1>4. QED
  BY <1>2, <1>3

\* The inbox as it is opened.
LEMMA OpenedFields ==
  ASSUME org \in SomeOrg, observations \in Seq(Notes), NEW r, r = Opened
  PROVE  /\ r \in Inboxes /\ r.open /\ r.asked = 0 /\ r.items = {}
         /\ \A i \in DOMAIN r.loads : r.loads[i].asked <= Len(observations)
<1> DEFINE p == [me |-> NoOrg, open |-> TRUE, items |-> {}, org |-> NoOrg, asked |-> 0,
                 error |-> FALSE, done |-> {}, failed |-> {}, busy |-> 0, loads |-> << >>]
<1>1. p \in Inboxes /\ p.asked = 0 /\ p.items = {}
  BY EmptySeq DEF Inboxes, SomeOrg
<1>2. \A i \in DOMAIN p.loads : p.loads[i].asked <= Len(observations)
  OBVIOUS
<1>3. r = Asking(p, org)
  BY DEF Opened
<1> HIDE DEF p
<1>4. PICK q, o : q = p /\ q \in Inboxes /\ o = org /\ o \in SomeOrg /\ r = Asking(q, o)
                  /\ \A i \in DOMAIN q.loads : q.loads[i].asked <= Len(observations)
  BY <1>1, <1>2, <1>3
<1>5. /\ r \in Inboxes /\ r.open /\ r.asked = q.asked
      /\ o = NoOrg => r.items = {}
      /\ o # NoOrg => r.items = q.items
      /\ \A i \in DOMAIN r.loads : r.loads[i].asked <= Len(observations)
  BY <1>4, AskingFields
<1>6. QED
  BY <1>1, <1>4, <1>5

\* The inbox that was just opened lists nothing and nothing is missing from it.
LEMMA OpenedFits ==
  ASSUME org \in SomeOrg, observations \in Seq(Notes), UNCHANGED observations, inbox' = Opened
  PROVE  inbox' \in Inboxes /\ InboxFits' /\ InboxIsTrue'
<1>1. PICK r : r = Opened /\ r = inbox'
  OBVIOUS
<1>2. /\ r \in Inboxes /\ r.asked = 0 /\ r.items = {}
      /\ \A i \in DOMAIN r.loads : r.loads[i].asked <= Len(observations)
  BY <1>1, OpenedFields
<1>3. Len(observations) \in Nat /\ 0 <= Len(observations) /\ 1 .. 0 = {}
  BY LenProperties
<1>4. QED
  BY <1>1, <1>2, <1>3 DEF InboxFits, InboxIsTrue

\* What a send panel looks like when it is drawn.
LEMMA DrawnFields ==
  ASSUME NEW p \in SendPanels, NEW f \in SomeFile, org \in SomeOrg, NEW r, r = Drawn(p, f)
  PROVE  r \in SendPanels /\ r.st = p.st /\ r.of = f
<1> DEFINE me == IF org = NoOrg THEN Home ELSE org
           asked == p.asked \/ me # p.me
<1>1. me \in SomeOrg
  BY WebAssumption DEF SomeOrg
<1>2. asked \in BOOLEAN
  OBVIOUS
<1>3. r = [p EXCEPT !.of = f, !.me = me, !.asked = asked]
  BY DEF Drawn
<1> HIDE DEF me, asked
<1>4. QED
  BY <1>1, <1>2, <1>3 DEF SendPanels

\* The panels close and open with the page; what is on its way goes on.
LEMMA PanelsFields ==
  ASSUME ExchangeInv, NEW f \in SomeFile, NEW b \in BOOLEAN, Panels(f, b)
  PROVE  /\ send' \in SendPanels
         /\ f = NoFile => send'.st = "off"
         /\ f # NoFile => send'.st # "off" /\ send'.of = f
         /\ send'.st = (IF f = NoFile THEN "off" ELSE IF send.st = "off" THEN "idle" ELSE send.st)
         /\ inbox' \in {Closed, Opened, inbox}
         /\ posts' \in Seq(Posts) /\ DOMAIN posts' = DOMAIN posts
         /\ \A i \in DOMAIN posts :
               /\ posts'[i].note = posts[i].note
               /\ posts'[i].live /\ posts[i].note.kind = "SENT" => posts[i].live /\ f # NoFile
               /\ posts'[i].live /\ posts[i].note.kind # "SENT" => b
         /\ b => inbox'.open
<1>1. send \in SendPanels /\ org \in SomeOrg /\ posts \in Seq(Posts) /\ DOMAIN posts = 1 .. Len(posts)
      /\ Len(posts) \in Nat
  BY LogParts, LenProperties
<1>2. /\ send' \in SendPanels
      /\ send'.st = (IF f = NoFile THEN "off" ELSE IF send.st = "off" THEN "idle" ELSE send.st)
      /\ f # NoFile => send'.of = f
  <2>1. CASE f = NoFile
    <3>1. send' = NoSend
      BY <2>1 DEF Panels
    <3>2. QED
      BY <2>1, <3>1 DEF NoSend, SendPanels, SomeFile, SomeOrg
  <2>2. CASE f # NoFile /\ send.st = "off"
    <3> DEFINE p == [NoSend EXCEPT !.st = "idle"]
    <3>1. send' = Drawn(p, f)
      BY <2>2 DEF Panels
    <3>2. p \in SendPanels /\ p.st = "idle"
      BY DEF NoSend, SendPanels, SomeFile, SomeOrg
    <3> HIDE DEF p
    <3>3. QED
      BY <1>1, <2>2, <3>1, <3>2, DrawnFields
  <2>3. CASE f # NoFile /\ send.st # "off"
    <3>1. send' = Drawn(send, f)
      BY <2>3 DEF Panels
    <3>2. QED
      BY <1>1, <2>3, <3>1, DrawnFields
  <2>4. QED
    BY <2>1, <2>2, <2>3
<1>3. f # NoFile => send'.st # "off"
  BY <1>1, <1>2
<1>4. inbox' \in {Closed, Opened, inbox}
  BY DEF Panels
<1>5. /\ posts' \in Seq(Posts) /\ DOMAIN posts' = DOMAIN posts
      /\ \A i \in DOMAIN posts :
            /\ posts'[i].note = posts[i].note
            /\ posts'[i].live /\ posts[i].note.kind = "SENT" => posts[i].live /\ f # NoFile
            /\ posts'[i].live /\ posts[i].note.kind # "SENT" => b
  <2> DEFINE live(i) == posts[i].live /\ IF posts[i].note.kind = "SENT" THEN f # NoFile ELSE b
             post(i) == [posts[i] EXCEPT !.live = live(i)]
  <2>1. posts' = [i \in DOMAIN posts |-> post(i)]
    BY DEF Panels
  <2>2. ASSUME NEW i \in DOMAIN posts
        PROVE  /\ post(i) \in Posts /\ post(i).note = posts[i].note
               /\ post(i).live /\ posts[i].note.kind = "SENT" => posts[i].live /\ f # NoFile
               /\ post(i).live /\ posts[i].note.kind # "SENT" => b
    <3>1. posts[i] \in Posts
      BY <1>1, <2>2, ElementOfSeq
    <3>2. live(i) \in BOOLEAN
      BY <3>1 DEF Posts
    <3>3. /\ live(i) /\ posts[i].note.kind = "SENT" => posts[i].live /\ f # NoFile
          /\ live(i) /\ posts[i].note.kind # "SENT" => b
      OBVIOUS
    <3> HIDE DEF live
    <3>4. QED
      BY <3>1, <3>2, <3>3 DEF Posts
  <2> HIDE DEF post
  <2>3. posts' \in [1 .. Len(posts) -> Posts]
    BY <1>1, <2>1, <2>2
  <2>4. posts' \in Seq(Posts) /\ DOMAIN posts' = DOMAIN posts
    BY <1>1, <2>3
  <2>5. \A i \in DOMAIN posts : posts'[i] = post(i)
    BY <2>1
  <2>6. QED
    BY <2>2, <2>4, <2>5
<1>6. b => inbox'.open
  <2>1. ASSUME b, ~inbox.open
        PROVE  inbox'.open
    <3>1. PICK r : r = Opened /\ inbox' = r
      BY <2>1 DEF Panels
    <3>2. org \in SomeOrg /\ observations \in Seq(Notes)
      BY LogParts
    <3>3. QED
      BY <3>1, <3>2, OpenedFields
  <2>2. ASSUME b, inbox.open
        PROVE  inbox'.open
    BY <2>2 DEF Panels
  <2>3. QED
    BY <2>1, <2>2
<1>7. QED
  BY <1>2, <1>3, <1>4, <1>5, <1>6

\* The panels open and close: the log and the inbox stay true.
LEMMA PanelsStep ==
  ASSUME ExchangeInv, NEW f \in SomeFile, NEW b \in BOOLEAN, Panels(f, b),
         UNCHANGED <<observations, org>>
  PROVE  ExchangeInv'
<1>1. LogGrows
  BY LogStays
<1>2. /\ observations' \in Seq(Notes) /\ posts' \in Seq(Posts) /\ org' \in SomeOrg
      /\ send' \in SendPanels /\ DOMAIN posts' = DOMAIN posts
  BY LogParts, PanelsFields
<1>3. LogFits'
  <2>1. \A i \in DOMAIN posts' : posts'[i].note = posts[i].note /\ i \in DOMAIN posts
    BY PanelsFields
  <2>2. \A e, n : NoteFits(e, n)' <=> NoteFits(e, n)
    BY DEF NoteFits
  <2>3. LogFits /\ observations' = observations
    BY LogParts
  <2>4. \A i \in DOMAIN posts' : NoteFits(posts'[i].note, Len(observations))
    BY <2>1, <2>3 DEF LogFits
  <2>5. QED
    BY <2>2, <2>3, <2>4 DEF LogFits, NoteFits
<1>4. ListenersFit'
  <2>1. \A i \in DOMAIN posts : posts'[i].live /\ posts'[i].note.kind = "SENT" => send'.st # "off"
    BY PanelsFields
  <2>2. \A i \in DOMAIN posts : posts'[i].live /\ posts'[i].note.kind = "VERIFIED" => inbox'.open
    <3>1. "VERIFIED" # "SENT"
      OBVIOUS
    <3>2. QED
      BY <3>1, PanelsFields
  <2>3. QED
    BY <1>2, <2>1, <2>2 DEF ListenersFit
<1>5. (inbox' = Closed \/ inbox' \in Inboxes) /\ InboxFits' /\ InboxIsTrue'
  <2>1. CASE inbox' = Closed
    <3>1. ~inbox'.open
      BY <2>1 DEF Closed
    <3>2. QED
      BY <2>1, <3>1 DEF InboxFits, InboxIsTrue
  <2>2. CASE inbox' = Opened
    BY <2>2, LogParts, OpenedFits
  <2>3. CASE inbox' = inbox
    BY <2>3, LogParts DEF InboxFits, InboxIsTrue, Unseen, NotesFor
  <2>4. QED
    BY <2>1, <2>2, <2>3, PanelsFields
<1>6. QED
  BY <1>2, <1>3, <1>4, <1>5 DEF ExchangeInv, ExchangeTypes

\* A list of receivers, or the choice among them.
LEMMA DrawnAgain ==
  ASSUME ExchangeInv, NEW to \in SomeOrg, NEW list \in SUBSET Orgs, NEW asked \in BOOLEAN,
         NEW d, d = Drawn(send, send.of),
         \/ send' = [d EXCEPT !.list = list, !.to = to, !.asked = asked]
         \/ send' = [d EXCEPT !.to = to]
         \/ send' = [send EXCEPT !.asked = asked]
  PROVE  send' \in SendPanels /\ send'.st = send.st /\ send'.of = send.of
<1>1. send \in SendPanels /\ org \in SomeOrg /\ send.of \in SomeFile
  BY LogParts DEF SendPanels
<1>2. d \in SendPanels /\ d.st = send.st /\ d.of = send.of
  BY <1>1, DrawnFields
<1>3. QED
  BY <1>1, <1>2 DEF SendPanels

\* What is left of the exchange when only the send panel changes.
LEMMA SendKeeps ==
  ASSUME ExchangeInv, send' \in SendPanels, send.st # "off" => send'.st # "off",
         UNCHANGED <<observations, org, inbox, posts>>
  PROVE  ExchangeInv'
<1>1. LogFits' /\ InboxFits' /\ InboxIsTrue' /\ ListenersFit'
  BY LogParts DEF LogFits, NoteFits, InboxFits, InboxIsTrue, Unseen, NotesFor, ListenersFit
<1>2. QED
  BY <1>1, LogParts DEF ExchangeInv, ExchangeTypes

\* The send panel lists or chooses the receivers.
LEMMA SendListedStep ==
  ASSUME ExchangeInv, SendListed \/ ChooseReceiver
  PROVE  ExchangeInv' /\ send'.st = send.st /\ send'.of = send.of
<1>1. UNCHANGED <<observations, org, inbox, posts>>
  BY DEF SendListed, ChooseReceiver
<1>2. send.list \in SUBSET Orgs
  BY LogParts DEF SendPanels
<1>3. PICK to \in SomeOrg, list \in SUBSET Orgs, asked \in BOOLEAN :
         \/ send' = [Drawn(send, send.of) EXCEPT !.list = list, !.to = to, !.asked = asked]
         \/ send' = [Drawn(send, send.of) EXCEPT !.to = to]
         \/ send' = [send EXCEPT !.asked = asked]
  <2>1. CASE SendListed
    <3> DEFINE others == Orgs \ {send.me}
    <3>1. others \in SUBSET Orgs /\ others \subseteq SomeOrg /\ FALSE \in BOOLEAN
      BY DEF SomeOrg
    <3>2. \/ \E to \in others :
                send' = [Drawn(send, send.of) EXCEPT !.list = others, !.to = to, !.asked = FALSE]
          \/ send' = [send EXCEPT !.asked = FALSE]
      BY <2>1, Zenon DEF SendListed
    <3>3. NoOrg \in SomeOrg
      BY DEF SomeOrg
    <3> HIDE DEF others
    <3>4. QED
      BY <3>1, <3>2, <3>3
  <2>2. CASE ChooseReceiver
    <3>1. PICK to \in send.list \ {send.to} : send' = [Drawn(send, send.of) EXCEPT !.to = to]
      BY <2>2, Zenon DEF ChooseReceiver
    <3>2. to \in SomeOrg
      BY <1>2, <3>1 DEF SomeOrg
    <3>3. QED
      BY <1>2, <3>1, <3>2
  <2>3. QED
    BY <2>1, <2>2
<1>4. send' \in SendPanels /\ send'.st = send.st /\ send'.of = send.of
  BY <1>3, DrawnAgain
<1>5. QED
  BY <1>1, <1>4, SendKeeps

\* A note that is written down, on its way to the server.
LEMMA PostFields ==
  ASSUME ExchangeInv, NEW e \in Notes, NoteFits(e, Len(observations)),
         posts' = Append(posts, [note |-> e, live |-> TRUE])
  PROVE  /\ posts' \in Seq(Posts) /\ DOMAIN posts' = 1 .. (Len(posts) + 1)
         /\ DOMAIN posts = 1 .. Len(posts) /\ Len(posts) \in Nat
         /\ \A i \in DOMAIN posts : posts'[i] = posts[i]
         /\ posts'[Len(posts) + 1].note = e
         /\ UNCHANGED observations => LogFits'
<1> DEFINE post == [note |-> e, live |-> TRUE]
<1>1. post \in Posts /\ post.note = e
  BY DEF Posts
<1> HIDE DEF post
<1>2. posts' = Append(posts, post) /\ posts \in Seq(Posts)
  BY LogParts DEF post
<1>3. /\ posts' \in Seq(Posts) /\ DOMAIN posts' = 1 .. (Len(posts) + 1)
      /\ DOMAIN posts = 1 .. Len(posts) /\ Len(posts) \in Nat
      /\ \A i \in DOMAIN posts : posts'[i] = posts[i]
      /\ posts'[Len(posts) + 1] = post
  BY <1>1, <1>2, AppendElements
<1>4. ASSUME UNCHANGED observations
      PROVE  LogFits'
  <2>1. \A i \in DOMAIN posts' : i \in DOMAIN posts \/ i = Len(posts) + 1
    BY <1>3
  <2>2. \A i \in DOMAIN posts' : NoteFits(posts'[i].note, Len(observations))
    BY <1>1, <1>3, <2>1, LogParts DEF LogFits
  <2>3. QED
    BY <1>4, <2>2, LogParts DEF LogFits, NoteFits
<1>5. QED
  BY <1>1, <1>3, <1>4

\* Field e of the note is of the log.
LEMMA SentFits ==
  ASSUME NEW f \in SomeFile, NEW a \in SomeOrg, NEW b \in SomeOrg, NEW n, NEW e, e = Sent(f, a, b)
  PROVE  e \in Notes /\ NoteFits(e, n) /\ e.kind = "SENT" /\ e.doc = f
  BY DEF Sent, Notes, NoteFits

\* A note is sent: it says what the panel was about.
LEMMA SendStep ==
  ASSUME ExchangeInv, Send
  PROVE  /\ ExchangeInv' /\ send'.st = "busy" /\ send'.of = send.of /\ send.st # "off"
         /\ UNCHANGED observations
         /\ DOMAIN posts' = 1 .. (Len(posts) + 1) /\ DOMAIN posts = 1 .. Len(posts)
         /\ \A i \in DOMAIN posts : posts'[i] = posts[i]
         /\ posts'[Len(posts) + 1].note.doc = send.of
<1>1. /\ send \in SendPanels /\ send.of \in SomeFile /\ send.me \in SomeOrg /\ send.to \in SomeOrg
      /\ org \in SomeOrg
  BY LogParts DEF SendPanels
<1>2. /\ posts' = Append(posts, [note |-> Sent(send.of, send.me, send.to), live |-> TRUE])
      /\ send' = [Drawn(send, send.of) EXCEPT !.st = "busy"] /\ send.st # "off"
      /\ UNCHANGED <<observations, org, inbox>>
  BY DEF Send
<1>3. PICK e : e = Sent(send.of, send.me, send.to)
  OBVIOUS
<1>4. e \in Notes /\ NoteFits(e, Len(observations)) /\ e.kind = "SENT" /\ e.doc = send.of
  BY <1>1, <1>3, SentFits
<1>5. /\ posts' \in Seq(Posts) /\ DOMAIN posts' = 1 .. (Len(posts) + 1)
      /\ DOMAIN posts = 1 .. Len(posts) /\ Len(posts) \in Nat
      /\ \A i \in DOMAIN posts : posts'[i] = posts[i]
      /\ posts'[Len(posts) + 1].note = e
      /\ LogFits'
  BY <1>2, <1>3, <1>4, PostFields
<1>6. PICK d : d = Drawn(send, send.of)
  OBVIOUS
<1>7. d \in SendPanels /\ d.of = send.of
  BY <1>1, <1>6, DrawnFields
<1>8. send' = [d EXCEPT !.st = "busy"]
  BY <1>2, <1>6
<1>9. send' \in SendPanels /\ send'.st = "busy" /\ send'.of = send.of
  BY <1>7, <1>8 DEF SendPanels
<1>10. ListenersFit' /\ InboxFits' /\ InboxIsTrue'
  <2>1. \A i \in DOMAIN posts' : i \in DOMAIN posts \/ posts'[i].note = e
    BY <1>5
  <2>2. ListenersFit'
    BY <1>2, <1>4, <1>5, <1>9, <2>1, LogParts DEF ListenersFit
  <2>3. QED
    BY <1>2, <2>2, LogParts DEF InboxFits, InboxIsTrue, Unseen, NotesFor
<1>11. ExchangeInv'
  BY <1>2, <1>5, <1>9, <1>10, LogParts DEF ExchangeInv, ExchangeTypes
<1>12. QED
  BY <1>2, <1>4, <1>5, <1>9, <1>11

\* The organisation changes, and the inbox asks again.
LEMMA SetOrgStep ==
  ASSUME ExchangeInv, NEW o \in Orgs, SetOrg(o)
  PROVE  ExchangeInv'
<1>1. org' = o /\ UNCHANGED <<observations, send, posts>> /\ o \in SomeOrg /\ o # NoOrg
  BY NoneAssumption DEF SetOrg, SomeOrg
<1>2. LogFits'
  BY <1>1, LogParts DEF LogFits, NoteFits
<1>3. /\ inbox' = Closed \/ inbox' \in Inboxes
      /\ InboxFits' /\ InboxIsTrue'
      /\ inbox.open => inbox'.open
  <2>1. CASE inbox.open
    <3>1. inbox \in Inboxes /\ \A i \in DOMAIN inbox.loads : inbox.loads[i].asked <= Len(observations)
      BY <2>1, LogParts DEF Closed, InboxFits
    <3>2. PICK r : r = Asking(inbox, o) /\ r = inbox'
      BY <2>1 DEF SetOrg
    <3>3. /\ r \in Inboxes /\ r.open /\ r.asked = inbox.asked /\ r.org = inbox.org
          /\ r.items = inbox.items
          /\ \A i \in DOMAIN r.loads : r.loads[i].asked <= Len(observations)
      <4>1. observations \in Seq(Notes)
        BY LogParts
      <4>2. PICK q : /\ q = inbox /\ q \in Inboxes /\ r = Asking(q, o)
                     /\ \A i \in DOMAIN q.loads : q.loads[i].asked <= Len(observations)
        BY <3>1, <3>2
      <4>3. o \in SomeOrg /\ o # NoOrg
        BY <1>1
      <4>4. /\ r \in Inboxes /\ r.open /\ r.asked = q.asked /\ r.org = q.org /\ r.items = q.items
            /\ \A i \in DOMAIN r.loads : r.loads[i].asked <= Len(observations)
        BY <4>1, <4>2, <4>3, AskingFields
      <4>5. QED
        BY <4>2, <4>4
    <3>4. InboxIsTrue'
      BY <1>1, <2>1, <3>2, <3>3, LogStays, InboxKeeps
    <3>5. InboxFits'
      BY <1>1, <2>1, <3>2, <3>3, LogParts DEF InboxFits
    <3>6. QED
      BY <3>2, <3>3, <3>4, <3>5
  <2>2. CASE ~inbox.open
    <3>1. inbox' = inbox
      BY <2>2 DEF SetOrg
    <3>2. QED
      BY <1>1, <2>2, <3>1, LogParts DEF InboxFits, InboxIsTrue
  <2>3. QED
    BY <2>1, <2>2
<1>4. ListenersFit'
  BY <1>1, <1>3, LogParts DEF ListenersFit
<1>5. QED
  BY <1>1, <1>2, <1>3, <1>4, LogParts DEF ExchangeInv, ExchangeTypes

\* One more note in the log.
LEMMA LogAppends ==
  ASSUME ExchangeInv, NEW e \in Notes, NoteFits(e, Len(observations)),
         observations' = Append(observations, e)
  PROVE  /\ LogGrows /\ Len(observations') = Len(observations) + 1
         /\ \E i \in DOMAIN observations' : observations'[i] = e
         /\ \A v \in DOMAIN observations' : NoteFits(observations[v], v - 1)'
<1> DEFINE n == Len(observations)
<1>1. /\ observations \in Seq(Notes) /\ n \in Nat /\ DOMAIN observations = 1 .. n
      /\ \A v \in DOMAIN observations : NoteFits(observations[v], v - 1)
  BY LogParts DEF LogFits
<1>2. PICK m : m = n /\ m \in Nat
  BY <1>1
<1>3. /\ observations' \in Seq(Notes) /\ Len(observations') = m + 1
      /\ DOMAIN observations' = 1 .. (m + 1)
      /\ \A v \in 1 .. m : observations'[v] = observations[v]
      /\ observations'[m + 1] = e
  BY <1>1, <1>2, AppendElements
<1>4. LogGrows
  BY <1>1, <1>2, <1>3 DEF LogGrows
<1>5. ASSUME NEW v \in 1 .. (m + 1)
      PROVE  NoteFits(observations[v], v - 1)'
  <2>1. CASE v = m + 1
    <3>1. NoteFits(e, m) /\ m \in 0 .. n
      BY <1>2
    <3>2. NoteFits(e, m)'
      BY <1>1, <1>4, <3>1, NotesKeep
    <3>3. v - 1 = m /\ observations'[v] = e
      BY <1>2, <1>3, <2>1
    <3>4. QED
      BY <3>2, <3>3 DEF NoteFits
  <2>2. CASE v # m + 1
    <3>1. v \in 1 .. m /\ v - 1 \in 0 .. n
      BY <1>2, <2>2
    <3>2. PICK d, j : d = observations[v] /\ j = v - 1 /\ j \in 0 .. n /\ NoteFits(d, j)
      BY <1>1, <1>2, <3>1
    <3>3. NoteFits(d, j)'
      BY <1>1, <1>4, <3>2, NotesKeep
    <3>4. observations'[v] = d
      BY <1>3, <3>1, <3>2
    <3>5. QED
      BY <3>2, <3>3, <3>4 DEF NoteFits
  <2>3. QED
    BY <2>1, <2>2
<1>6. \E i \in DOMAIN observations' : observations'[i] = e
  BY <1>2, <1>3
<1>7. QED
  BY <1>2, <1>3, <1>4, <1>5, <1>6

\* What an inbox lists and asks for stays in the log.
LEMMA InboxBounds ==
  ASSUME ExchangeInv, LogGrows, inbox.open
  PROVE  /\ inbox.items \subseteq 1 .. Len(observations') /\ inbox.asked <= Len(observations')
         /\ \A i \in DOMAIN inbox.loads : inbox.loads[i].asked <= Len(observations')
<1> DEFINE n == Len(observations)
           m == Len(observations')
<1>1. n \in Nat /\ m \in Nat /\ n <= m
  BY LogParts, LenProperties DEF LogGrows
<1>2. /\ inbox.items \subseteq 1 .. n /\ inbox.asked <= n
      /\ \A i \in DOMAIN inbox.loads : inbox.loads[i].asked <= n
  BY LogParts DEF InboxFits
<1>3. inbox \in Inboxes
  BY LogParts DEF Closed
<1>4. /\ inbox.asked \in Nat /\ inbox.loads \in Seq(Loads)
  BY <1>3 DEF Inboxes
<1>5. \A i \in DOMAIN inbox.loads : inbox.loads[i].asked \in Nat
  <2>1. \A i \in DOMAIN inbox.loads : inbox.loads[i] \in Loads
    BY <1>4, LenProperties, ElementOfSeq
  <2>2. QED
    BY <2>1 DEF Loads
<1>6. (\A x \in Nat : x <= n => x <= m) /\ 1 .. n \subseteq 1 .. m
  BY <1>1
<1>7. QED
  BY <1>2, <1>4, <1>5, <1>6

\* The inbox does not lose what it lists when the log grows.
LEMMA InboxGrows ==
  ASSUME ExchangeInv, LogGrows, inbox' = inbox
  PROVE  (inbox' = Closed \/ inbox' \in Inboxes) /\ InboxFits' /\ InboxIsTrue'
<1>1. CASE inbox.open
  BY <1>1, InboxBounds, InboxKeeps, LogParts DEF InboxFits
<1>2. CASE ~inbox.open
  BY <1>2, LogParts DEF InboxFits, InboxIsTrue
<1>3. QED
  BY <1>1, <1>2

\* What is on its way fits a log that has grown.
LEMMA PostsKeep ==
  ASSUME ExchangeInv, LogGrows, NEW e, NoteFits(e, Len(observations))
  PROVE  \A m : m = Len(observations') => NoteFits(e, m)'
<1> DEFINE n == Len(observations)
<1>1. n \in Nat /\ Len(observations') \in Nat /\ n <= Len(observations')
      /\ observations \in Seq(Notes)
  BY LogParts, LenProperties DEF LogGrows
<1>2. PICK j : j = n /\ j \in 0 .. n
  BY <1>1
<1>3. NoteFits(e, j)'
  BY <1>1, <1>2, NotesKeep
<1>4. ASSUME NEW m, m = Len(observations')
      PROVE  1 .. j \subseteq 1 .. m
  BY <1>1, <1>2, <1>4
<1>5. QED
  BY <1>3, <1>4 DEF NoteFits

\* Another browser sends something.
LEMMA SentElsewhereStep ==
  ASSUME ExchangeInv, SentElsewhere
  PROVE  ExchangeInv' /\ LogGrows /\ UNCHANGED <<send, posts>>
<1>0. PICK f \in Files, o \in Orgs \ {Home} : observations' = Append(observations, Sent(f, Home, o))
  BY DEF SentElsewhere
<1>1. PICK e : e = Sent(f, Home, o) /\ observations' = Append(observations, e)
  BY <1>0
<1>2. UNCHANGED <<org, send, inbox, posts>>
  BY DEF SentElsewhere
<1>3. f \in SomeFile /\ Home \in SomeOrg /\ o \in SomeOrg
  BY WebAssumption DEF SomeFile, SomeOrg
<1>4. e \in Notes /\ NoteFits(e, Len(observations))
  BY <1>1, <1>3, SentFits
<1>5. LogGrows /\ \A v \in DOMAIN observations' : NoteFits(observations[v], v - 1)'
  BY <1>1, <1>4, LogAppends
<1>6. LogFits'
  <2>1. ASSUME NEW i \in DOMAIN posts
        PROVE  NoteFits(posts[i].note, Len(observations))'
    <3>1. PICK n, m : n = posts[i].note /\ m = Len(observations') /\ NoteFits(n, Len(observations))
      BY LogParts DEF LogFits
    <3>2. NoteFits(n, m)'
      BY <1>5, <3>1, PostsKeep
    <3>3. QED
      BY <1>2, <3>1, <3>2 DEF NoteFits
  <2>2. QED
    BY <1>2, <1>5, <2>1 DEF LogFits, NoteFits
<1>7. QED
  BY <1>2, <1>5, <1>6, LogParts, InboxGrows DEF ExchangeInv, ExchangeTypes, ListenersFit, LogGrows

\* What the server reads in its log at some moment after the question.
LEMMA PendingIsTrue ==
  ASSUME ExchangeInv, NEW n \in Nat, n = Len(observations), NEW o, NEW a \in 0 .. n, NEW k \in a .. n
  PROVE  /\ Pending(o, k) \subseteq 1 .. n
         /\ \A s \in Pending(o, k) :
               /\ observations[s].to = o
               /\ \A v \in 1 .. a : observations[v].re = s => observations[v].by # observations[s].to
         /\ \A s \in 1 .. a :
               /\ observations[s].kind = "SENT" /\ observations[s].to = o
               /\ \A v \in s .. n :
                     ~ (observations[v].kind = "VERIFIED" /\ observations[v].doc = observations[s].doc)
               /\ Cardinality(NotesFor(o, s, n)) <= InboxLimit
               => s \in Pending(o, k)
<1>1. DOMAIN observations = 1 .. n /\ \A v \in 1 .. n : observations[v] \in Notes /\ NoteFits(observations[v], v - 1)
  <2>1. DOMAIN observations = 1 .. n /\ observations \in Seq(Notes)
    BY LogParts
  <2>2. \A v \in 1 .. n : NoteFits(observations[v], v - 1)
    BY <2>1, LogParts DEF LogFits
  <2>3. \A v \in 1 .. n : observations[v] \in Notes
    BY <2>1, ElementOfSeq
  <2>4. QED
    BY <2>1, <2>2, <2>3
<1>2. /\ 1 .. k \subseteq 1 .. n /\ 1 .. a \subseteq 1 .. k
  OBVIOUS
<1>3. ASSUME NEW s \in Pending(o, k)
      PROVE  /\ s \in 1 .. n /\ observations[s].to = o
             /\ \A v \in 1 .. a : observations[v].re = s => observations[v].by # observations[s].to
  <2>1. /\ s \in 1 .. k /\ observations[s].to = o /\ s \in Listed(o, k)
        /\ \A v \in Listed(o, k) : ~TakenOff(s, v)
    BY DEF Pending, Listed
  <2>2. ASSUME NEW v \in 1 .. a, observations[v].re = s, observations[v].by = observations[s].to
        PROVE  FALSE
    <3>1. v \in 1 .. k /\ v \in 1 .. n /\ s # 0
      BY <1>2, <2>1
    <3>2. observations[v].kind = "VERIFIED"
      BY <1>1, <2>2, <3>1 DEF NoteFits, Notes
    <3>3. /\ s \in 1 .. (v - 1) /\ observations[v].doc = observations[s].doc
          /\ observations[v].from = observations[s].from /\ observations[v].to = observations[s].to
      BY <1>1, <2>2, <3>1, <3>2 DEF NoteFits
    <3>4. v >= s
      BY <3>1, <3>3
    <3>5. TakenOff(s, v)
      BY <3>2, <3>3, <3>4 DEF TakenOff
    <3>6. v \in Listed(o, k)
      <4>1. /\ Cardinality(NotesFor(o, s, k)) <= InboxLimit
            /\ NotesFor(o, s, k) \subseteq s .. k /\ NotesFor(o, v, k) \subseteq NotesFor(o, s, k)
            /\ s \in Int /\ k \in Int
        BY <2>1, <3>1, <3>4 DEF Listed, NotesFor
      <4>2. Cardinality(NotesFor(o, v, k)) <= InboxLimit
        BY <4>1, FewerNotes
      <4>3. QED
        BY <2>1, <3>1, <3>3, <4>2 DEF Listed
    <3>7. QED
      BY <2>1, <3>5, <3>6
  <2>3. QED
    BY <1>2, <2>1, <2>2
<1>4. ASSUME NEW s \in 1 .. a, observations[s].kind = "SENT", observations[s].to = o,
             \A v \in s .. n :
                ~ (observations[v].kind = "VERIFIED" /\ observations[v].doc = observations[s].doc),
             Cardinality(NotesFor(o, s, n)) <= InboxLimit
      PROVE  s \in Pending(o, k)
  <2>1. s \in 1 .. k
    BY <1>2
  <2>2. ASSUME NEW v \in 1 .. k, TakenOff(s, v)
        PROVE  FALSE
    <3>1. v \in s .. n
      BY <2>1, <2>2 DEF TakenOff
    <3>2. QED
      BY <1>4, <2>2, <3>1 DEF TakenOff
  <2>3. s \in Listed(o, k)
    <3>1. /\ NotesFor(o, s, n) \subseteq s .. n /\ NotesFor(o, s, k) \subseteq NotesFor(o, s, n)
          /\ s \in Int /\ n \in Int
      BY <1>2, <2>1 DEF NotesFor
    <3>2. Cardinality(NotesFor(o, s, k)) <= InboxLimit
      BY <1>4, <3>1, FewerNotes
    <3>3. QED
      BY <1>4, <2>1, <3>2 DEF Listed
  <2>4. QED
    BY <1>4, <2>2, <2>3 DEF Pending, Listed
<1>5. QED
  BY <1>3, <1>4

\* The inbox hears what was sent to an organisation.
LEMMA LoadedStep ==
  ASSUME ExchangeInv, Loaded
  PROVE  ExchangeInv'
<1>1. /\ UNCHANGED <<observations, org, send, posts>> /\ inbox.open
  BY DEF Loaded
<1>2. PICK i \in DOMAIN inbox.loads :
         LET load == inbox.loads[i]
             rest == [inbox EXCEPT !.loads = RemoveAt(@, i)]
         IN  \/ \E k \in load.asked..Len(observations) :
                   inbox' = [rest EXCEPT !.items = Pending(load.org, k), !.org = load.org,
                                         !.asked = load.asked, !.error = FALSE]
             \/ inbox' = [rest EXCEPT !.error = TRUE]
  BY DEF Loaded
<1>3. inbox \in Inboxes
  BY <1>1, LogParts DEF Closed
<1>4. i \in DOMAIN inbox.loads /\ inbox.loads \in Seq(Loads) /\ inbox.items \in SUBSET Nat /\ inbox.asked \in Nat
      /\ inbox.org \in SomeOrg
  BY <1>2, <1>3 DEF Inboxes
<1> DEFINE loads == RemoveAt(inbox.loads, i)
           load == inbox.loads[i]
           o == load.org
           a == load.asked
           n == Len(observations)
<1>5. load \in Loads
  BY <1>4, LenProperties, ElementOfSeq
<1>6. o \in Orgs /\ o \in SomeOrg /\ a \in Nat /\ n \in Nat /\ a <= n
  <2>1. o \in Orgs /\ a \in Nat
    BY <1>5 DEF Loads
  <2>2. a <= n /\ n \in Nat
    BY <1>1, <1>4, LogParts DEF InboxFits
  <2>3. QED
    BY <2>1, <2>2 DEF SomeOrg
<1>7. /\ loads \in Seq(Loads) /\ DOMAIN loads = 1 .. (Len(inbox.loads) - 1)
      /\ \A j \in 1 .. (Len(inbox.loads) - 1) : \E l \in DOMAIN inbox.loads : loads[j] = inbox.loads[l]
  BY <1>4, RemoveAtProperties
<1>8. \A j \in DOMAIN loads : loads[j].asked <= n
  <2>1. \A j \in DOMAIN inbox.loads : inbox.loads[j].asked <= n
    BY <1>1, LogParts DEF InboxFits
  <2>2. QED
    BY <1>7, <2>1
<1>9. ASSUME inbox' \in Inboxes, InboxFits', InboxIsTrue'
      PROVE  ExchangeInv'
  <2>1. LogFits' /\ ListenersFit'
    <3>1. inbox'.open
      BY <1>9 DEF Inboxes
    <3>2. QED
      BY <1>1, <3>1, LogParts DEF LogFits, NoteFits, ListenersFit
  <2>2. QED
    BY <1>1, <1>9, <2>1, LogParts DEF ExchangeInv, ExchangeTypes
<1> HIDE DEF loads, o, a
<1>10. CASE \E k \in a .. n :
               inbox' = [inbox EXCEPT !.loads = loads, !.items = Pending(o, k), !.org = o,
                                      !.asked = a, !.error = FALSE]
  <2>1. PICK k \in a .. n :
               inbox' = [inbox EXCEPT !.loads = loads, !.items = Pending(o, k), !.org = o,
                                      !.asked = a, !.error = FALSE]
    BY <1>10
  <2> DEFINE items == Pending(o, k)
  <2>2. a \in 0 .. n /\ k \in a .. n
    BY <1>6, <2>1
  <2>3. /\ items \subseteq 1 .. n
        /\ \A s \in items :
              /\ observations[s].to = o
              /\ \A v \in 1 .. a : observations[v].re = s => observations[v].by # observations[s].to
        /\ \A s \in 1 .. a :
              /\ observations[s].kind = "SENT" /\ observations[s].to = o
              /\ \A v \in s .. n :
                    ~ (observations[v].kind = "VERIFIED" /\ observations[v].doc = observations[s].doc)
              /\ Cardinality(NotesFor(o, s, n)) <= InboxLimit
              => s \in items
    BY <1>6, <2>2, PendingIsTrue
  <2> HIDE DEF items
  <2>4. items \in SUBSET Nat
    BY <1>6, <2>3
  <2>5. /\ inbox' \in Inboxes /\ inbox'.items = items /\ inbox'.org = o /\ inbox'.asked = a
        /\ inbox'.loads = loads
    BY <1>3, <1>6, <1>7, <2>1, <2>4 DEF Inboxes, items
  <2>6. InboxFits'
    BY <1>1, <1>6, <1>8, <2>3, <2>5 DEF InboxFits
  <2>7. InboxIsTrue'
    BY <1>1, <2>3, <2>5 DEF InboxIsTrue, Unseen, NotesFor
  <2>8. QED
    BY <1>9, <2>5, <2>6, <2>7
<1>11. CASE inbox' = [inbox EXCEPT !.loads = loads, !.error = TRUE]
  <2>1. /\ inbox' \in Inboxes /\ inbox'.items = inbox.items /\ inbox'.org = inbox.org
        /\ inbox'.asked = inbox.asked /\ inbox'.loads = loads
    BY <1>3, <1>7, <1>11 DEF Inboxes
  <2>2. InboxIsTrue'
    BY <1>1, <2>1, LogStays, InboxKeeps
  <2>3. InboxFits'
    BY <1>1, <1>8, <2>1, LogParts DEF InboxFits
  <2>4. QED
    BY <1>9, <2>1, <2>2, <2>3
<1>12. QED
  BY <1>2, <1>10, <1>11 DEF loads, o, a

\* An entry of the inbox is verified.
LEMMA VerifyItemStep ==
  ASSUME ExchangeInv, VerifyItem
  PROVE  /\ ExchangeInv' /\ UNCHANGED <<observations, send>>
         /\ \A i \in DOMAIN posts' :
               \/ i \in DOMAIN posts /\ posts'[i] = posts[i]
               \/ posts'[i].note.kind # "SENT"
<1>1. /\ UNCHANGED <<observations, org, send>> /\ inbox.open
  BY DEF VerifyItem
<1>2. inbox \in Inboxes
  BY <1>1, LogParts DEF Closed
<1>3. PICK s \in inbox.items :
         \/ /\ posts' = Append(posts, [note |-> Verified(s, inbox.me), live |-> TRUE])
            /\ inbox' = [inbox EXCEPT !.busy = s]
         \/ /\ inbox' = [inbox EXCEPT !.busy = 0, !.failed = @ \union {s}]
            /\ UNCHANGED posts
  BY DEF VerifyItem
<1>4. inbox.items \in SUBSET Nat /\ inbox.me \in SomeOrg /\ inbox.failed \in SUBSET Nat
  BY <1>2 DEF Inboxes
<1>5. s \in 1 .. Len(observations) /\ observations[s] \in Notes /\ s \in Nat
  <2>1. s \in 1 .. Len(observations) /\ s \in Nat
    BY <1>1, <1>3, <1>4, LogParts DEF InboxFits
  <2>2. QED
    BY <2>1, LogParts, ElementOfSeq
<1>6. /\ inbox' \in Inboxes /\ inbox'.items = inbox.items /\ inbox'.org = inbox.org
      /\ inbox'.asked = inbox.asked /\ inbox'.loads = inbox.loads
  <2>1. CASE inbox' = [inbox EXCEPT !.busy = s]
    BY <1>2, <1>5, <2>1 DEF Inboxes
  <2>2. CASE inbox' = [inbox EXCEPT !.busy = 0, !.failed = @ \union {s}]
    <3> DEFINE f == inbox.failed \union {s}
    <3>1. f \in SUBSET Nat
      BY <1>4, <1>5
    <3>2. inbox' = [inbox EXCEPT !.busy = 0, !.failed = f]
      BY <2>2
    <3> HIDE DEF f
    <3>3. QED
      BY <1>2, <3>1, <3>2 DEF Inboxes
  <2>3. QED
    BY <1>3, <2>1, <2>2
<1>7. InboxFits' /\ InboxIsTrue'
  <2>1. InboxIsTrue'
    BY <1>1, <1>6, LogStays, InboxKeeps
  <2>2. InboxFits'
    BY <1>1, <1>6, LogParts DEF InboxFits
  <2>3. QED
    BY <2>1, <2>2
<1>8. inbox'.open
  BY <1>6 DEF Inboxes
<1>9. /\ posts' \in Seq(Posts) /\ LogFits' /\ ListenersFit'
      /\ \A i \in DOMAIN posts' :
            \/ i \in DOMAIN posts /\ posts'[i] = posts[i]
            \/ posts'[i].note.kind # "SENT"
  <2>1. CASE posts' = Append(posts, [note |-> Verified(s, inbox.me), live |-> TRUE])
    <3>1. PICK e : e = Verified(s, inbox.me)
      OBVIOUS
    <3>2. e \in Notes /\ NoteFits(e, Len(observations)) /\ e.kind # "SENT"
      BY <1>4, <1>5, <3>1 DEF Verified, Notes, NoteFits
    <3>3. /\ posts' \in Seq(Posts) /\ DOMAIN posts' = 1 .. (Len(posts) + 1)
          /\ DOMAIN posts = 1 .. Len(posts) /\ Len(posts) \in Nat
          /\ \A i \in DOMAIN posts : posts'[i] = posts[i]
          /\ posts'[Len(posts) + 1].note = e
          /\ LogFits'
      BY <1>1, <2>1, <3>1, <3>2, PostFields
    <3>4. \A i \in DOMAIN posts' : i \in DOMAIN posts \/ i = Len(posts) + 1
      BY <3>3
    <3>5. ListenersFit'
      BY <1>1, <1>8, <3>2, <3>3, <3>4, LogParts DEF ListenersFit
    <3>6. \A i \in DOMAIN posts' :
             \/ i \in DOMAIN posts /\ posts'[i] = posts[i]
             \/ posts'[i].note.kind # "SENT"
      BY <3>2, <3>3, <3>4
    <3>7. QED
      BY <3>3, <3>5, <3>6
  <2>2. CASE UNCHANGED posts
    BY <1>1, <1>8, <2>2, LogParts DEF LogFits, NoteFits, ListenersFit
  <2>3. QED
    BY <1>3, <2>1, <2>2
<1>10. QED
  BY <1>1, <1>6, <1>7, <1>9, LogParts DEF ExchangeInv, ExchangeTypes

\* What a panel hears of the note it waited for.
LEMMA HeardFields ==
  ASSUME ExchangeInv, NEW i \in DOMAIN posts, NEW ok \in BOOLEAN, Heard(posts[i], ok)
  PROVE  /\ send' \in SendPanels /\ send'.of = send.of
         /\ send.st # "off" <=> send'.st # "off"
         /\ send'.st = "done" => \/ send.st = "done"
                                 \/ ok /\ posts[i].live /\ posts[i].note.kind = "SENT"
         /\ inbox' = Closed \/ inbox' \in Inboxes
         /\ inbox.open => inbox'.open /\ inbox'.items = inbox.items /\ inbox'.org = inbox.org
                          /\ inbox'.asked = inbox.asked /\ inbox'.loads = inbox.loads
         /\ ~inbox.open => inbox' = inbox
<1> DEFINE post == posts[i]
           sending == post.live /\ post.note.kind = "SENT"
           verifying == post.live /\ post.note.kind = "VERIFIED"
<1>1. send \in SendPanels /\ send.of \in SomeFile /\ org \in SomeOrg
  BY LogParts DEF SendPanels
<1>2. post \in Posts /\ post.note \in Notes /\ post.note.re \in Nat
  <2>1. post \in Posts
    BY LogParts, LenProperties, ElementOfSeq
  <2>2. QED
    BY <2>1 DEF Posts, Notes
<1>3. /\ sending => send.st # "off"
      /\ verifying => inbox.open
  BY LogParts DEF ListenersFit
<1>4. /\ send' \in SendPanels /\ send'.of = send.of
      /\ send.st # "off" <=> send'.st # "off"
      /\ send'.st = "done" => send.st = "done" \/ (ok /\ sending)
  <2>1. CASE sending
    <3>1. PICK d, st : /\ d = Drawn(send, send.of) /\ st = (IF ok THEN "done" ELSE "error")
                       /\ send' = [d EXCEPT !.st = st]
      BY <2>1 DEF Heard
    <3>2. d \in SendPanels /\ d.of = send.of
      BY <1>1, <3>1, DrawnFields
    <3>3. st \in {"done", "error"} /\ (st = "done" => ok)
      BY <3>1
    <3>4. send' \in SendPanels /\ send'.of = send.of /\ send'.st = st
      BY <3>1, <3>2, <3>3 DEF SendPanels
    <3>5. QED
      BY <1>3, <2>1, <3>3, <3>4
  <2>2. CASE ~sending
    <3>1. send' = send
      BY <2>2 DEF Heard
    <3>2. QED
      BY <1>1, <3>1
  <2>3. QED
    BY <2>1, <2>2
<1>5. CASE ~verifying
  <2>1. inbox' = inbox
    BY <1>5 DEF Heard
  <2>2. QED
    BY <1>4, <2>1, LogParts
<1>6. CASE verifying
  <2>1. inbox.open /\ inbox \in Inboxes
    BY <1>3, <1>6, LogParts DEF Closed
  <2>2. inbox.done \in SUBSET Nat /\ inbox.failed \in SUBSET Nat
    BY <2>1 DEF Inboxes
  <2>3. PICK done \in SUBSET Nat, failed \in SUBSET Nat :
           inbox' = [inbox EXCEPT !.busy = 0, !.done = done, !.failed = failed]
    <3> DEFINE re == post.note.re
    <3>1. \/ inbox' = [inbox EXCEPT !.busy = 0, !.done = @ \union {re}, !.failed = @ \ {re}]
          \/ inbox' = [inbox EXCEPT !.busy = 0, !.failed = @ \union {re}, !.done = @ \ {re}]
      BY <1>6 DEF Heard
    <3>2. re \in Nat
      BY <1>2
    <3> HIDE DEF re
    <3>3. CASE inbox' = [inbox EXCEPT !.busy = 0, !.done = @ \union {re}, !.failed = @ \ {re}]
      <4>1. inbox.done \union {re} \in SUBSET Nat /\ inbox.failed \ {re} \in SUBSET Nat
        BY <2>2, <3>2
      <4>2. QED
        BY <3>3, <4>1
    <3>4. CASE inbox' = [inbox EXCEPT !.busy = 0, !.failed = @ \union {re}, !.done = @ \ {re}]
      <4>1. inbox.failed \union {re} \in SUBSET Nat /\ inbox.done \ {re} \in SUBSET Nat
        BY <2>2, <3>2
      <4>2. PICK x, y : x = inbox.done \ {re} /\ y = inbox.failed \union {re}
                        /\ x \in SUBSET Nat /\ y \in SUBSET Nat
        BY <4>1
      <4>3. inbox' = [inbox EXCEPT !.busy = 0, !.done = x, !.failed = y]
        BY <2>1, <3>4, <4>2 DEF Inboxes
      <4>4. QED
        BY <4>2, <4>3
    <3>5. QED
      BY <3>1, <3>3, <3>4
  <2>4. /\ inbox' \in Inboxes /\ inbox'.items = inbox.items /\ inbox'.org = inbox.org
        /\ inbox'.asked = inbox.asked /\ inbox'.loads = inbox.loads
    BY <2>1, <2>3 DEF Inboxes
  <2>5. inbox'.open
    BY <2>4 DEF Inboxes
  <2>6. QED
    BY <1>4, <2>1, <2>4, <2>5
<1>7. QED
  BY <1>5, <1>6

\* An answer arrives: the note is in the log or it is not.
LEMMA PostedStep ==
  ASSUME ExchangeInv, Posted
  PROVE  /\ ExchangeInv' /\ LogGrows /\ send'.of = send.of
         /\ send.st # "off" <=> send'.st # "off"
         /\ \A j \in DOMAIN posts' : \E i \in DOMAIN posts : posts'[j] = posts[i]
         /\ send'.st = "done" =>
               \/ send.st = "done"
               \/ \E i \in DOMAIN posts, v \in DOMAIN observations' :
                     /\ posts[i].live /\ posts[i].note.kind = "SENT"
                     /\ observations'[v] = posts[i].note
<1>1. PICK i \in DOMAIN posts :
         /\ posts' = RemoveAt(posts, i)
         /\ \/ /\ observations' = Append(observations, posts[i].note)
               /\ \E ok \in BOOLEAN : Heard(posts[i], ok)
            \/ /\ UNCHANGED observations
               /\ Heard(posts[i], FALSE)
  BY DEF Posted
<1>2. UNCHANGED org
  BY DEF Posted
<1>3. i \in DOMAIN posts /\ posts \in Seq(Posts)
  BY <1>1, LogParts
<1>4. posts[i] \in Posts /\ posts[i].note \in Notes /\ NoteFits(posts[i].note, Len(observations))
  <2>1. posts[i] \in Posts
    BY <1>3, LenProperties, ElementOfSeq
  <2>2. NoteFits(posts[i].note, Len(observations))
    BY <1>3, LogParts DEF LogFits
  <2>3. QED
    BY <2>1, <2>2 DEF Posts
<1>5. /\ posts' \in Seq(Posts) /\ DOMAIN posts' = 1 .. (Len(posts) - 1)
      /\ \A j \in 1 .. (Len(posts) - 1) : \E k \in DOMAIN posts : posts'[j] = posts[k]
  BY <1>1, <1>3, RemoveAtProperties
<1>6. /\ LogGrows
      /\ \A v \in DOMAIN observations' : NoteFits(observations[v], v - 1)'
  <2>1. CASE observations' = Append(observations, posts[i].note)
    <3>1. PICK e : e = posts[i].note
      OBVIOUS
    <3>2. e \in Notes /\ NoteFits(e, Len(observations)) /\ observations' = Append(observations, e)
      BY <1>4, <2>1, <3>1
    <3>3. QED
      BY <3>2, LogAppends
  <2>2. CASE UNCHANGED observations
    <3>1. LogGrows
      BY <2>2, LogStays
    <3>2. QED
      BY <2>2, <3>1, LogParts DEF LogFits, NoteFits
  <2>3. QED
    BY <1>1, <2>1, <2>2
<1>7. LogFits'
  <2>1. ASSUME NEW j \in DOMAIN posts'
        PROVE  NoteFits(posts[j].note, Len(observations))'
    <3>1. PICK k \in DOMAIN posts : posts'[j] = posts[k]
      BY <1>5
    <3>2. PICK e, m : e = posts[k].note /\ m = Len(observations') /\ NoteFits(e, Len(observations))
      BY <3>1, LogParts DEF LogFits
    <3>3. NoteFits(e, m)'
      BY <1>6, <3>2, PostsKeep
    <3>4. QED
      BY <3>1, <3>2, <3>3 DEF NoteFits
  <2>2. QED
    BY <1>6, <2>1 DEF LogFits
<1>8. PICK ok \in BOOLEAN :
         /\ Heard(posts[i], ok)
         /\ ok => observations' = Append(observations, posts[i].note)
  BY <1>1
<1>9. /\ send' \in SendPanels /\ send'.of = send.of
      /\ send.st # "off" <=> send'.st # "off"
      /\ send'.st = "done" => \/ send.st = "done"
                              \/ ok /\ posts[i].live /\ posts[i].note.kind = "SENT"
      /\ inbox' = Closed \/ inbox' \in Inboxes
      /\ inbox.open => inbox'.open /\ inbox'.items = inbox.items /\ inbox'.org = inbox.org
                       /\ inbox'.asked = inbox.asked /\ inbox'.loads = inbox.loads
      /\ ~inbox.open => inbox' = inbox
  BY <1>3, <1>8, HeardFields
<1>10. ListenersFit'
  <2>1. \A j \in DOMAIN posts' : \E k \in DOMAIN posts : posts'[j] = posts[k]
    BY <1>5
  <2>2. \A k \in DOMAIN posts : posts[k].live =>
           /\ posts[k].note.kind = "SENT" => send'.st # "off"
           /\ posts[k].note.kind = "VERIFIED" => inbox'.open
    <3>1. \A k \in DOMAIN posts : posts[k].live =>
             /\ posts[k].note.kind = "SENT" => send.st # "off"
             /\ posts[k].note.kind = "VERIFIED" => inbox.open
      BY LogParts DEF ListenersFit
    <3>2. (send.st # "off" => send'.st # "off") /\ (inbox.open => inbox'.open)
      BY <1>9
    <3>3. QED
      BY <3>1, <3>2, Zenon
  <2>3. QED
    BY <2>1, <2>2 DEF ListenersFit
<1>11. InboxFits' /\ InboxIsTrue'
  <2>1. CASE inbox.open
    <3>1. InboxIsTrue'
      BY <1>6, <1>9, <2>1, InboxKeeps
    <3>2. Len(observations) \in Nat /\ Len(observations)' \in Nat /\ Len(observations) <= Len(observations)'
      BY <1>6, LogParts, LenProperties DEF LogGrows
    <3>3. InboxFits'
      BY <1>6, <1>9, <2>1, InboxBounds DEF InboxFits
    <3>4. QED
      BY <3>1, <3>3
  <2>2. CASE ~inbox.open
    BY <1>6, <1>9, <2>2, InboxGrows
  <2>3. QED
    BY <2>1, <2>2
<1>12. ExchangeInv'
  BY <1>2, <1>5, <1>6, <1>7, <1>9, <1>10, <1>11, LogParts DEF ExchangeInv, ExchangeTypes, LogGrows
<1>13. ASSUME ok
       PROVE  \E v \in DOMAIN observations' : observations'[v] = posts[i].note
  <2>1. PICK e : e = posts[i].note
    OBVIOUS
  <2>2. e \in Notes /\ NoteFits(e, Len(observations)) /\ observations' = Append(observations, e)
    BY <1>4, <1>8, <1>13, <2>1
  <2>3. QED
    BY <2>1, <2>2, LogAppends
<1>14. QED
  BY <1>3, <1>5, <1>6, <1>9, <1>12, <1>13

-----------------------------------------------------------------------------
(* The verify page *)

\* A panel is there before and after or neither.
LEMMA KeptFields ==
  ASSUME NEW p \in PanelsOfPage, NEW b \in BOOLEAN, NEW q \in PanelsOfPage
  PROVE  /\ Kept(p, b, q) \in PanelsOfPage
         /\ Kept(p, b, q).st # "off" => /\ b
                                        /\ \/ Kept(p, b, q) = p /\ p.st # "off"
                                           \/ Kept(p, b, q) = q
<1>1. Off \in PanelsOfPage /\ ~ (Off.st # "off")
  BY DEF Off, PanelsOfPage, PanelStates, SomeFile
<1>2. QED
  BY <1>1 DEF Kept

\* A panel that is opened.
LEMMA AtFields ==
  ASSUME NEW st \in PanelStates, NEW f \in SomeFile
  PROVE  At(st, f) \in PanelsOfPage /\ At(st, f).st = st /\ At(st, f).of = f
  BY DEF At, PanelsOfPage

\* The page as a record.
LEMMA DeskFields ==
  ASSUME NEW d \in Desks
  PROVE  /\ d.pair \in Pairs /\ d.result \in Results /\ d.busy \in BOOLEAN /\ d.calls \in Seq(Pairs)
         /\ d.scans \in Seq(Scannings) /\ d.asks \in SUBSET Askings
         /\ d.restore \in PanelsOfPage /\ d.rehydrate \in PanelsOfPage
         /\ d.identify \in PanelsOfPage /\ d.attack \in PanelsOfPage
         /\ d.pair.doc \in SomeFile /\ d.pair.sig \in SomeFile /\ d.result.file \in SomeFile
         /\ d.result.labelled \in BOOLEAN
<1>1. /\ d.pair \in Pairs /\ d.result \in Results /\ d.busy \in BOOLEAN /\ d.calls \in Seq(Pairs)
      /\ d.scans \in Seq(Scannings) /\ d.asks \in SUBSET Askings
      /\ d.restore \in PanelsOfPage /\ d.rehydrate \in PanelsOfPage
      /\ d.identify \in PanelsOfPage /\ d.attack \in PanelsOfPage
  BY DEF Desks
<1>2. QED
  BY <1>1 DEF Pairs, Results

\* The verdict decides which panels are there.
LEMMA WithPanelsFields ==
  ASSUME NEW d \in Desks, NEW e, e = WithPanels(d)
  PROVE  /\ e \in Desks
         /\ e.pair = d.pair /\ e.result = d.result /\ e.busy = d.busy /\ e.calls = d.calls
         /\ e.restore.st # "off" => Registered(d)
         /\ e.restore.st = "done" => e.restore = d.restore
         /\ e.rehydrate.st # "off" =>
               d.result # NoResult /\ (e.rehydrate.of = d.pair.doc \/ (e.rehydrate = d.rehydrate /\ d.rehydrate.st # "off"))
         /\ e.identify.st # "off" =>
               d.result # NoResult /\ (e.identify.of = d.pair.doc \/ (e.identify = d.identify /\ d.identify.st # "off"))
         /\ e.attack.st # "off" =>
               d.result # NoResult /\ (e.attack.of = d.pair.doc \/ (e.attack = d.attack /\ d.attack.st # "off"))
         /\ \A q \in e.asks : /\ e[q.panel].st # "off"
                              /\ \/ q \in d.asks
                                 \/ q.panel = "identify" /\ q.of = d.pair.doc
<1> DEFINE doc == d.pair.doc
           given == doc # NoFile /\ d.result # NoResult
           b1 == Registered(d) /\ ~d.result.labelled
           b2 == given /\ Unregistered(d)
           b4 == given /\ d.result.labelled /\ d.result.source = "drop"
           p1 == Kept(d.restore, b1, At("idle", NoFile))
           p2 == Kept(d.rehydrate, b2, At("idle", doc))
           st3 == IF Unregistered(d) THEN "busy" ELSE "idle"
           p3 == Kept(d.identify, given, At(st3, doc))
           p4 == Kept(d.attack, b4, At("idle", doc))
           next == [d EXCEPT !.restore = p1, !.rehydrate = p2, !.identify = p3, !.attack = p4]
           q0 == [panel |-> "identify", of |-> doc]
           started == IF d.identify.st = "off" /\ next.identify.st = "busy" THEN {q0} ELSE {}
           asks == {q \in d.asks : next[q.panel].st # "off"} \union started
<1>1. e = [next EXCEPT !.asks = asks]
  BY DEF WithPanels
<1>2. doc \in SomeFile /\ NoFile \in SomeFile /\ st3 \in PanelStates /\ "idle" \in PanelStates
  BY DeskFields DEF SomeFile, PanelStates
<1>3. /\ b1 \in BOOLEAN /\ b2 \in BOOLEAN /\ given \in BOOLEAN /\ b4 \in BOOLEAN
      /\ (b1 => Registered(d)) /\ (b2 => d.result # NoResult) /\ (given => d.result # NoResult)
      /\ (b4 => d.result # NoResult)
  BY DeskFields DEF Registered, Unregistered
<1>4. /\ d.restore \in PanelsOfPage /\ d.rehydrate \in PanelsOfPage
      /\ d.identify \in PanelsOfPage /\ d.attack \in PanelsOfPage
      /\ d.asks \in SUBSET Askings
  BY DeskFields
<1> HIDE DEF doc, given, b1, b2, b4, st3
<1>5. /\ p1 \in PanelsOfPage
      /\ p1.st # "off" => b1
      /\ p1.st = "done" => p1 = d.restore
  <2>1. At("idle", NoFile) \in PanelsOfPage /\ At("idle", NoFile).st = "idle"
    BY <1>2, AtFields
  <2>2. p1 \in PanelsOfPage /\ (p1.st # "off" => b1 /\ (p1 = d.restore \/ p1 = At("idle", NoFile)))
    BY <1>3, <1>4, <2>1, KeptFields
  <2>3. "idle" # "done" /\ "done" # "off"
    OBVIOUS
  <2> HIDE DEF p1
  <2>4. QED
    BY <2>1, <2>2, <2>3
<1>6. /\ p2 \in PanelsOfPage
      /\ p2.st # "off" => b2 /\ (p2.of = doc \/ (p2 = d.rehydrate /\ d.rehydrate.st # "off"))
  <2>1. At("idle", doc) \in PanelsOfPage /\ At("idle", doc).of = doc
    BY <1>2, AtFields
  <2>2. QED
    BY <1>3, <1>4, <2>1, KeptFields
<1>7. /\ p3 \in PanelsOfPage
      /\ p3.st # "off" => given /\ (p3.of = doc \/ (p3 = d.identify /\ d.identify.st # "off"))
  <2>1. At(st3, doc) \in PanelsOfPage /\ At(st3, doc).of = doc
    BY <1>2, AtFields
  <2>2. QED
    BY <1>3, <1>4, <2>1, KeptFields
<1>8. /\ p4 \in PanelsOfPage
      /\ p4.st # "off" => b4 /\ (p4.of = doc \/ (p4 = d.attack /\ d.attack.st # "off"))
  <2>1. At("idle", doc) \in PanelsOfPage /\ At("idle", doc).of = doc
    BY <1>2, AtFields
  <2>2. QED
    BY <1>3, <1>4, <2>1, KeptFields
<1> HIDE DEF p1, p2, p3, p4
<1>9. /\ next \in Desks /\ next.restore = p1 /\ next.rehydrate = p2 /\ next.identify = p3
      /\ next.attack = p4 /\ next.pair = d.pair /\ next.result = d.result /\ next.busy = d.busy
      /\ next.calls = d.calls
  <2>1. p1 \in PanelsOfPage /\ p2 \in PanelsOfPage /\ p3 \in PanelsOfPage /\ p4 \in PanelsOfPage
    BY <1>5, <1>6, <1>7, <1>8
  <2>2. QED
    BY ONLY d \in Desks, <2>1 DEF Desks, next
<1> HIDE DEF next
<1>10. q0 \in Askings /\ q0.panel = "identify" /\ q0.of = doc
  BY <1>2 DEF Askings, PanelNames
<1> HIDE DEF q0
<1>11. asks \in SUBSET Askings
       /\ \A q \in asks : /\ q \in Askings /\ next[q.panel].st # "off"
                          /\ q \in d.asks \/ (q.panel = "identify" /\ q.of = doc)
  <2>1. started \subseteq {q0} /\ \A q \in started : next.identify.st = "busy"
    OBVIOUS
  <2>2. \A q \in started : q = q0 /\ next[q.panel].st # "off"
    BY <1>10, <2>1
  <2> HIDE DEF started
  <2>3. QED
    BY <1>4, <1>10, <2>1, <2>2
<1> HIDE DEF asks
<1>12. /\ e \in Desks /\ e.asks = asks
       /\ e.restore = p1 /\ e.rehydrate = p2 /\ e.identify = p3
       /\ e.attack = p4 /\ e.pair = d.pair /\ e.result = d.result /\ e.busy = d.busy
       /\ e.calls = d.calls
  BY <1>1, <1>9, <1>11 DEF Desks
<1>13. \A q \in Askings : e[q.panel] = next[q.panel]
  <2>1. /\ e["restore"] = next["restore"] /\ e["rehydrate"] = next["rehydrate"]
        /\ e["identify"] = next["identify"] /\ e["attack"] = next["attack"]
    BY <1>9, <1>12
  <2>2. QED
    BY <2>1 DEF Askings, PanelNames
<1>14. \A q \in e.asks : /\ e[q.panel].st # "off"
                         /\ \/ q \in d.asks
                            \/ q.panel = "identify" /\ q.of = doc
  BY <1>11, <1>12, <1>13
<1>15. QED
  BY <1>3, <1>5, <1>6, <1>7, <1>8, <1>12, <1>14 DEF doc

\* No verdict is not one that knows the document.
LEMMA NoVerdict ==
  /\ NoResult \in Results /\ NoResult.source = ""
  /\ \A d : d.result = NoResult => ~Registered(d)
<1>1. NoResult.ledger = "" /\ NoResult.source = "" /\ NoResult \in Results
  BY DEF NoResult, Results, SomeFile
<1>2. "" # "registered"
  OBVIOUS
<1>3. QED
  BY <1>1, <1>2 DEF Registered

\* What is asked, when the panels are what they were: the panels that are there
\* are about the document in front of the user.
LEMMA QuestionsDrawn ==
  ASSUME DeskInv, NEW d \in Desks, desk' = WithPanels(d),
         d.restore = desk.restore, d.rehydrate = desk.rehydrate, d.identify = desk.identify,
         d.attack = desk.attack, d.asks = desk.asks,
         d.pair = desk.pair \/ d.result = NoResult
  PROVE  QuestionsFit'
<1>1. PICK e : e = desk' /\ e = WithPanels(d)
  OBVIOUS
<1>2. /\ e \in Desks /\ e.pair = d.pair /\ e.result = d.result
      /\ e.restore.st # "off" => Registered(d)
      /\ e.rehydrate.st # "off" =>
            d.result # NoResult /\ (e.rehydrate.of = d.pair.doc \/ (e.rehydrate = d.rehydrate /\ d.rehydrate.st # "off"))
      /\ e.identify.st # "off" =>
            d.result # NoResult /\ (e.identify.of = d.pair.doc \/ (e.identify = d.identify /\ d.identify.st # "off"))
      /\ e.attack.st # "off" =>
            d.result # NoResult /\ (e.attack.of = d.pair.doc \/ (e.attack = d.attack /\ d.attack.st # "off"))
      /\ \A q \in e.asks : /\ e[q.panel].st # "off"
                           /\ \/ q \in d.asks
                              \/ q.panel = "identify" /\ q.of = d.pair.doc
  BY <1>1, WithPanelsFields
<1>3. QuestionsFit
  BY DEF DeskInv
<1>4. /\ desk.rehydrate.st # "off" => desk.rehydrate.of = desk.pair.doc
      /\ desk.identify.st # "off" => desk.identify.of = desk.pair.doc
      /\ desk.attack.st # "off" => desk.attack.of = desk.pair.doc
  BY <1>3 DEF QuestionsFit
<1>5. \A q \in desk.asks : q.panel \in {"rehydrate", "identify", "attack"} => q.of = desk.pair.doc
  BY <1>3 DEF QuestionsFit, Questions
<1>6. e.restore.st # "off" => Registered(e)
  BY <1>2 DEF Registered
<1>7. /\ e["rehydrate"].st # "off" => d.result # NoResult /\ e["rehydrate"].of = e.pair.doc
      /\ e["identify"].st # "off" => d.result # NoResult /\ e["identify"].of = e.pair.doc
      /\ e["attack"].st # "off" => d.result # NoResult /\ e["attack"].of = e.pair.doc
  BY <1>2, <1>4
<1>8. ASSUME NEW p \in {"rehydrate", "identify", "attack"}
      PROVE  /\ e[p].st # "off" => e[p].of = e.pair.doc
             /\ \A q \in e.asks : q.panel = p => q.of = e.pair.doc
  <2>1. e[p].st # "off" => d.result # NoResult /\ e[p].of = e.pair.doc
    BY <1>7
  <2>2. ASSUME NEW q \in e.asks, q.panel = p
        PROVE  q.of = e.pair.doc
    <3>1. e[p].st # "off" /\ (q \in d.asks \/ q.of = d.pair.doc)
      BY <1>2, <2>2
    <3>2. d.pair = desk.pair
      BY <2>1, <3>1
    <3>3. q \in desk.asks => q.of = desk.pair.doc
      BY <1>5, <2>2
    <3>4. QED
      BY <1>2, <3>1, <3>2, <3>3
  <2>3. QED
    BY <2>1, <2>2
<1>9. QED
  BY <1>1, <1>2, <1>6, <1>8 DEF QuestionsFit, Questions

\* The page is drawn: what it shows is about the file in front of the user, and
\* about the verdict if that was put over no other.
LEMMA RenderStep ==
  ASSUME ExchangeInv, DeskInv, NEW d \in Desks, Render(d), UNCHANGED <<observations, org>>,
         d.restore = desk.restore, d.rehydrate = desk.rehydrate, d.identify = desk.identify,
         d.attack = desk.attack, d.asks = desk.asks,
         d.pair = desk.pair \/ d.result = NoResult,
         overtaken' \in BOOLEAN, covered' \in BOOLEAN,
         ~overtaken' =>
            /\ d.calls # << >> => d.calls[Len(d.calls)] = d.pair
            /\ d.calls = << >> /\ d.result.source = "drop" => d.result.file = FileOf(d.pair),
         ~covered' => \/ d.result = NoResult \/ desk.result = NoResult
                      \/ d.result = desk.result /\ ~covered
  PROVE  ExchangeInv' /\ DeskInv'
<1>1. PICK f, b : /\ f = (IF Registered(d) THEN d.result.file ELSE NoFile)
                  /\ b = (d.result = NoResult /\ ~d.busy)
                  /\ Panels(f, b)
  BY DEF Render
<1>2. f \in SomeFile /\ b \in BOOLEAN /\ Panels(f, b)
  BY <1>1, DeskFields DEF SomeFile
<1>3. ExchangeInv'
  BY <1>2, PanelsStep
<1>4. /\ f = NoFile => send'.st = "off"
      /\ f # NoFile => send'.st # "off" /\ send'.of = f
      /\ send'.st = (IF f = NoFile THEN "off" ELSE IF send.st = "off" THEN "idle" ELSE send.st)
      /\ DOMAIN posts' = DOMAIN posts
      /\ \A i \in DOMAIN posts :
            /\ posts'[i].note = posts[i].note
            /\ posts'[i].live /\ posts[i].note.kind = "SENT" => posts[i].live /\ f # NoFile
  BY <1>2, PanelsFields
<1>5. PICK e : e = desk' /\ e = WithPanels(d)
  BY DEF Render
<1>6. /\ e \in Desks
      /\ e.pair = d.pair /\ e.result = d.result /\ e.calls = d.calls
      /\ e.restore.st # "off" => Registered(d)
      /\ e.restore.st = "done" => e.restore = d.restore
      /\ \A q \in e.asks : /\ e[q.panel].st # "off"
                           /\ \/ q \in d.asks
                              \/ q.panel = "identify" /\ q.of = d.pair.doc
  BY <1>5, WithPanelsFields
<1>7. QuestionsFit'
  BY <1>5, QuestionsDrawn
<1>8. SendingFits'
  <2>1. f # NoFile => Registered(d) /\ f = d.result.file
    BY <1>1
  <2>2. send'.st # "off" => Registered(e) /\ send'.of = e.result.file
    BY <1>4, <1>6, <2>1 DEF Registered
  <2>3. QED
    BY <1>5, <2>2 DEF SendingFits
<1>9. QuestionsFit /\ SendingFits /\ (~covered => Uncovered)
  BY DEF DeskInv
<1>10. desk.result = NoResult => /\ desk.restore.st = "off" /\ send.st = "off"
                                 /\ \A q \in desk.asks : q.panel # "restore"
                                 /\ \A i \in DOMAIN posts : posts[i].note.kind = "SENT" => ~posts[i].live
  <2> SUFFICES ASSUME desk.result = NoResult
               PROVE  /\ desk.restore.st = "off" /\ send.st = "off"
                      /\ \A q \in desk.asks : q.panel # "restore"
                      /\ \A i \in DOMAIN posts : posts[i].note.kind = "SENT" => ~posts[i].live
    OBVIOUS
  <2>1. ~ Registered(desk)
    BY NoVerdict
  <2>2. desk["restore"].st = "off" /\ send.st = "off"
    BY <1>9, <2>1 DEF QuestionsFit, SendingFits
  <2>3. \A q \in desk.asks : q.panel # "restore"
    BY <1>9, <2>2 DEF QuestionsFit
  <2>4. \A i \in DOMAIN posts : posts[i].note.kind = "SENT" => ~posts[i].live
    BY <2>2, LogParts DEF ListenersFit
  <2>5. QED
    BY <2>2, <2>3, <2>4
<1>11. d.result = NoResult => ~Registered(d) /\ f = NoFile
  BY <1>1, NoVerdict
<1>12. ASSUME ~covered'
       PROVE  Uncovered'
  <2>1. ASSUME d.result # NoResult, desk.result # NoResult
        PROVE  d.result = desk.result /\ Uncovered
    BY <1>9, <1>12, <2>1
  <2>3. \A q \in e.asks : q.panel = "restore" => q.of = e.result.file
    <3>1. ASSUME NEW q \in e.asks, q.panel = "restore"
          PROVE  q.of = e.result.file
      <4>1. e["restore"].st # "off" /\ q \in desk.asks
        BY <1>6, <3>1
      <4>2. Registered(d) /\ d.result # NoResult
        BY <1>6, <1>11, <4>1
      <4>3. d.result = desk.result /\ Uncovered
        BY <1>10, <2>1, <3>1, <4>1, <4>2
      <4>4. q.of = desk.result.file
        BY <3>1, <4>1, <4>3 DEF Uncovered, Questions
      <4>5. QED
        BY <1>6, <4>3, <4>4
    <3>2. QED
      BY <3>1
  <2>4. e.restore.st = "done" => e.restore.of = e.result.file
    <3>1. ASSUME e.restore.st = "done"
          PROVE  e.restore.of = e.result.file
      <4>1. e.restore = desk.restore /\ desk.restore.st = "done"
        BY <1>6, <3>1
      <4>2. Registered(d) /\ d.result # NoResult
        BY <1>6, <1>11, <3>1
      <4>3. d.result = desk.result /\ Uncovered
        BY <1>10, <2>1, <4>1, <4>2
      <4>4. desk.restore.of = desk.result.file
        BY <4>1, <4>3 DEF Uncovered
      <4>5. QED
        BY <1>6, <4>1, <4>3, <4>4
    <3>2. QED
      BY <3>1
  <2>5. \A i \in DOMAIN posts' :
           posts'[i].live /\ posts'[i].note.kind = "SENT" => posts'[i].note.doc = e.result.file
    <3>1. ASSUME NEW i \in DOMAIN posts', posts'[i].live, posts'[i].note.kind = "SENT"
          PROVE  posts'[i].note.doc = e.result.file
      <4>1. i \in DOMAIN posts /\ posts'[i].note = posts[i].note /\ posts[i].live /\ f # NoFile
        BY <1>4, <3>1
      <4>2. d.result = desk.result /\ Uncovered
        BY <1>10, <1>11, <2>1, <3>1, <4>1
      <4>3. posts[i].note.doc = desk.result.file
        BY <3>1, <4>1, <4>2 DEF Uncovered
      <4>4. QED
        BY <1>6, <4>1, <4>2, <4>3
    <3>2. QED
      BY <3>1
  <2>6. send'.st = "done" => \E i \in DOMAIN observations :
           observations[i].kind = "SENT" /\ observations[i].doc = e.result.file
    <3>1. ASSUME send'.st = "done"
          PROVE  \E i \in DOMAIN observations :
                    observations[i].kind = "SENT" /\ observations[i].doc = e.result.file
      <4>1. f # NoFile /\ send.st = "done"
        BY <1>4, <3>1
      <4>2. d.result = desk.result /\ Uncovered
        BY <1>10, <1>11, <2>1, <4>1
      <4>3. QED
        BY <1>6, <4>1, <4>2 DEF Uncovered
    <3>2. QED
      BY <3>1
  <2>7. QED
    BY <1>5, <2>3, <2>4, <2>5, <2>6 DEF Uncovered, Questions
<1>13. ~overtaken' => LastWord'
  BY <1>5, <1>6 DEF LastWord
<1>14. QED
  BY <1>3, <1>5, <1>6, <1>7, <1>8, <1>12, <1>13 DEF DeskInv

\* A verdict, from the document or from a printed code.
LEMMA VerdictFields ==
  ASSUME NEW p \in Pairs, NEW r \in Verdicts(p)
  PROVE  r \in Results /\ r.file = FileOf(p)
<1>1. PICK l \in Ledgers(FileOf(p)) :
         r = [file |-> FileOf(p), ledger |-> l, labelled |-> (p.sig # NoFile \/ p.doc \in Labelled),
              source |-> "drop"]
  BY DEF Verdicts
<1> DEFINE b == p.sig # NoFile \/ p.doc \in Labelled
<1>2. l \in {"unavailable", "unregistered", "registered"} /\ b \in BOOLEAN /\ FileOf(p) \in SomeFile
  BY DEF Ledgers, FileOf, Pairs, SomeFile
<1> HIDE DEF b
<1>3. r = [file |-> FileOf(p), ledger |-> l, labelled |-> b, source |-> "drop"]
  BY <1>1 DEF b
<1>4. QED
  BY <1>2, <1>3 DEF Results

\* Files are dropped, or the chooser is closed without any.
LEMMA DropStep ==
  ASSUME ExchangeInv, DeskInv, (\E p \in Drops : Drop(p)) \/ DropNothing
  PROVE  ExchangeInv' /\ DeskInv'
<1>1. /\ desk \in Desks /\ overtaken \in BOOLEAN /\ covered \in BOOLEAN
      /\ ~overtaken => LastWord
  BY DEF DeskInv
<1>2. desk.calls \in Seq(Pairs) /\ NoResult \in Results /\ NoResult.source # "drop"
  BY <1>1, DeskFields, NoVerdict
<1>3. ASSUME NEW p \in Drops, Drop(p)
      PROVE  ExchangeInv' /\ DeskInv'
  <2> DEFINE calls == Append(desk.calls, p)
             d == [desk EXCEPT !.pair = p, !.result = NoResult, !.busy = TRUE, !.error = FALSE,
                               !.calls = calls]
  <2>1. Render(d) /\ UNCHANGED <<observations, org>> /\ overtaken' = FALSE /\ covered' = FALSE
    BY <1>3 DEF Drop
  <2>2. p \in Pairs
    BY DropsAssumption
  <2>3. /\ calls \in Seq(Pairs) /\ calls # << >> /\ Len(calls) = Len(desk.calls) + 1
        /\ calls[Len(desk.calls) + 1] = p
    BY <1>2, <2>2, AppendElements
  <2> HIDE DEF calls
  <2>4. /\ d \in Desks /\ d.pair = p /\ d.result = NoResult /\ d.calls = calls
        /\ d.restore = desk.restore /\ d.rehydrate = desk.rehydrate /\ d.identify = desk.identify
        /\ d.attack = desk.attack /\ d.asks = desk.asks
    BY <1>1, <1>2, <2>2, <2>3 DEF Desks
  <2> HIDE DEF d
  <2>5. overtaken' \in BOOLEAN /\ covered' \in BOOLEAN
    BY <2>1
  <2>6. d.calls # << >> /\ d.calls[Len(d.calls)] = d.pair
    BY <2>3, <2>4
  <2>7. QED
    BY <2>1, <2>4, <2>5, <2>6, RenderStep
<1>4. ASSUME DropNothing
      PROVE  ExchangeInv' /\ DeskInv'
  <2> DEFINE d == [desk EXCEPT !.result = NoResult, !.error = FALSE]
  <2>1. Render(d) /\ UNCHANGED <<observations, org, overtaken>> /\ covered' = FALSE
    BY <1>4 DEF DropNothing
  <2>2. /\ d \in Desks /\ d.pair = desk.pair /\ d.result = NoResult /\ d.calls = desk.calls
        /\ d.restore = desk.restore /\ d.rehydrate = desk.rehydrate /\ d.identify = desk.identify
        /\ d.attack = desk.attack /\ d.asks = desk.asks
    BY <1>1, <1>2 DEF Desks
  <2> HIDE DEF d
  <2>3. overtaken' \in BOOLEAN /\ covered' \in BOOLEAN
    BY <1>1, <2>1
  <2>4. ~overtaken => (d.calls # << >> => d.calls[Len(d.calls)] = d.pair)
    BY <1>1, <2>2 DEF LastWord
  <2>5. d.result.source # "drop"
    BY <1>2, <2>2
  <2>6. QED
    BY <2>1, <2>2, <2>3, <2>4, <2>5, RenderStep
<1>5. QED
  BY <1>3, <1>4

\* A verdict arrives, or an error instead.
LEMMA DeskAnswersStep ==
  ASSUME ExchangeInv, DeskInv, DeskAnswers
  PROVE  ExchangeInv' /\ DeskInv'
<1>1. /\ desk \in Desks /\ overtaken \in BOOLEAN /\ covered \in BOOLEAN
      /\ ~overtaken => LastWord
  BY DEF DeskInv
<1>2. desk.calls \in Seq(Pairs) /\ DOMAIN desk.calls = 1 .. Len(desk.calls) /\ Len(desk.calls) \in Nat
  BY <1>1, DeskFields, LenProperties
<1>3. PICK i \in DOMAIN desk.calls : Answered(i) \/ AnswerFails(i)
  BY DEF DeskAnswers
<1> DEFINE calls == RemoveAt(desk.calls, i)
<1>4. /\ calls \in Seq(Pairs) /\ Len(calls) = Len(desk.calls) - 1
      /\ i # Len(desk.calls) => calls # << >> /\ calls[Len(calls)] = desk.calls[Len(desk.calls)]
  <2>1. desk.calls \in Seq(Pairs) /\ i \in DOMAIN desk.calls
    BY <1>2
  <2> HIDE DEF calls
  <2>2. /\ RemoveAt(desk.calls, i) \in Seq(Pairs) /\ Len(RemoveAt(desk.calls, i)) = Len(desk.calls) - 1
        /\ i # Len(desk.calls) =>
              /\ RemoveAt(desk.calls, i) # << >>
              /\ RemoveAt(desk.calls, i)[Len(RemoveAt(desk.calls, i))] = desk.calls[Len(desk.calls)]
    BY <2>1, RemoveAtProperties, RemoveAtLast
  <2>3. QED
    BY <2>2 DEF calls
<1>5. desk.calls[i] \in Pairs /\ i \in 1 .. Len(desk.calls)
  BY <1>2, ElementOfSeq
<1>6. ASSUME ~overtaken
      PROVE  /\ desk.calls[Len(desk.calls)] = desk.pair
             /\ i # Len(desk.calls) => calls # << >> /\ calls[Len(calls)] = desk.pair
             /\ i = Len(desk.calls) /\ ~(i > 1) => calls = << >>
  <2>1. desk.calls # << >>
    BY <1>2
  <2>2. desk.calls[Len(desk.calls)] = desk.pair
    BY <1>1, <1>6, <2>1 DEF LastWord
  <2> HIDE DEF calls
  <2>3. i = Len(desk.calls) /\ ~(i > 1) => Len(calls) = 0
    <3>1. \A n \in Nat : \A j \in 1 .. n : j = n /\ ~(j > 1) => n - 1 = 0
      OBVIOUS
    <3>2. Len(desk.calls) \in Nat /\ i \in 1 .. Len(desk.calls) /\ Len(calls) = Len(desk.calls) - 1
      BY <1>2, <1>4, <1>5
    <3>3. QED
      BY <3>1, <3>2
  <2>4. QED
    BY <1>4, <2>2, <2>3, EmptySeq
<1> HIDE DEF calls
<1>7. CASE Answered(i)
  <2>1. PICK r \in Verdicts(desk.calls[i]) :
           Render([desk EXCEPT !.result = r, !.busy = FALSE, !.calls = calls])
    BY <1>7 DEF Answered, calls
  <2>2. /\ UNCHANGED <<observations, org>> /\ overtaken' = (overtaken \/ (i = Len(desk.calls) /\ i > 1))
        /\ covered' = (desk.result # NoResult)
    BY <1>7 DEF Answered
  <2>3. r \in Results /\ r.file = FileOf(desk.calls[i])
    BY <1>5, VerdictFields
  <2> DEFINE d == [desk EXCEPT !.result = r, !.busy = FALSE, !.calls = calls]
  <2>4. /\ d \in Desks /\ d.pair = desk.pair /\ d.result = r /\ d.calls = calls
        /\ d.restore = desk.restore /\ d.rehydrate = desk.rehydrate /\ d.identify = desk.identify
        /\ d.attack = desk.attack /\ d.asks = desk.asks
    BY <1>1, <1>4, <2>3 DEF Desks
  <2>5. Render(d)
    BY <2>1
  <2> HIDE DEF d
  <2>6. ASSUME ~overtaken'
        PROVE  /\ d.calls # << >> => d.calls[Len(d.calls)] = d.pair
               /\ d.calls = << >> => d.result.file = FileOf(d.pair)
    <3>1. ~overtaken /\ (i = Len(desk.calls) => ~(i > 1))
      BY <2>2, <2>6
    <3>2. CASE i = Len(desk.calls)
      BY <1>6, <2>3, <2>4, <3>1, <3>2
    <3>3. CASE i # Len(desk.calls)
      BY <1>6, <2>4, <3>1, <3>3
    <3>4. QED
      BY <3>2, <3>3
  <2>7. /\ overtaken' \in BOOLEAN /\ covered' \in BOOLEAN
        /\ ~covered' => desk.result = NoResult
    BY <1>1, <2>2
  <2>8. QED
    BY <2>2, <2>4, <2>5, <2>6, <2>7, RenderStep
<1>8. CASE AnswerFails(i)
  <2> DEFINE d == [desk EXCEPT !.error = TRUE, !.busy = FALSE, !.calls = calls]
  <2>1. /\ Render(d) /\ UNCHANGED <<observations, org, covered>>
        /\ overtaken' = (overtaken \/ i = Len(desk.calls))
    BY <1>8 DEF AnswerFails, calls
  <2>2. /\ d \in Desks /\ d.pair = desk.pair /\ d.result = desk.result /\ d.calls = calls
        /\ d.restore = desk.restore /\ d.rehydrate = desk.rehydrate /\ d.identify = desk.identify
        /\ d.attack = desk.attack /\ d.asks = desk.asks
    BY <1>1, <1>4 DEF Desks
  <2> HIDE DEF d
  <2>3. ~overtaken' => d.calls # << >> /\ d.calls[Len(d.calls)] = d.pair
    BY <1>6, <2>1, <2>2
  <2>4. overtaken' \in BOOLEAN /\ covered' \in BOOLEAN
    BY <1>1, <2>1
  <2>5. QED
    BY <2>1, <2>2, <2>3, <2>4, RenderStep
<1>9. QED
  BY <1>3, <1>7, <1>8

\* The scanner opens, closes or finds no camera; what it found is answered.
LEMMA ScannerStep ==
  ASSUME ExchangeInv, DeskInv, ToggleScan \/ NoCamera \/ ScanAnswers
  PROVE  ExchangeInv' /\ DeskInv'
<1>1. /\ desk \in Desks /\ overtaken \in BOOLEAN /\ covered \in BOOLEAN
      /\ ~overtaken => LastWord
  BY DEF DeskInv
<1>2. /\ desk.scans \in Seq(Scannings) /\ DOMAIN desk.scans = 1 .. Len(desk.scans)
      /\ Len(desk.scans) \in Nat
  BY <1>1, DeskFields, LenProperties
<1>3. \* Only the scanner changes.
      ASSUME NEW st \in {"off", "seeking", "asking", "dead"}, NEW error \in BOOLEAN,
             NEW scans \in Seq(Scannings),
             Render([desk EXCEPT !.scan = st, !.scans = scans, !.error = error]),
             UNCHANGED <<observations, org, overtaken, covered>>
      PROVE  ExchangeInv' /\ DeskInv'
  <2> DEFINE d == [desk EXCEPT !.scan = st, !.scans = scans, !.error = error]
  <2>1. /\ d \in Desks /\ d.pair = desk.pair /\ d.result = desk.result /\ d.calls = desk.calls
        /\ d.restore = desk.restore /\ d.rehydrate = desk.rehydrate /\ d.identify = desk.identify
        /\ d.attack = desk.attack /\ d.asks = desk.asks
    BY <1>1, <1>3 DEF Desks
  <2>2. Render(d)
    BY <1>3
  <2> HIDE DEF d
  <2>3. ~overtaken =>
           /\ d.calls # << >> => d.calls[Len(d.calls)] = d.pair
           /\ d.calls = << >> /\ d.result.source = "drop" => d.result.file = FileOf(d.pair)
    BY <1>1, <2>1 DEF LastWord
  <2>4. QED
    BY <1>1, <1>3, <2>1, <2>2, <2>3, RenderStep
<1>4. \* The scanner that is closed hears no more.
      ASSUME NEW s \in Seq(Scannings)
      PROVE  [i \in DOMAIN s |-> [s[i] EXCEPT !.live = FALSE]] \in Seq(Scannings)
  <2>1. \A i \in DOMAIN s : s[i] \in Scannings
    BY LenProperties, ElementOfSeq
  <2>2. \A i \in DOMAIN s : [s[i] EXCEPT !.live = FALSE] \in Scannings
    BY <2>1 DEF Scannings
  <2>3. DOMAIN s = 1 .. Len(s) /\ Len(s) \in Nat
    BY LenProperties
  <2>4. QED
    BY <2>2, <2>3
<1>5. desk.error \in BOOLEAN /\ desk.scan \in {"off", "seeking", "asking", "dead"}
  BY <1>1 DEF Desks
<1>6. CASE ToggleScan
  <2> DEFINE st == IF desk.scan = "off" THEN "seeking" ELSE "off"
             scans == [i \in DOMAIN desk.scans |-> [desk.scans[i] EXCEPT !.live = FALSE]]
  <2>1. Render([desk EXCEPT !.scan = st, !.scans = scans]) /\ UNCHANGED <<observations, org, overtaken, covered>>
    BY <1>6 DEF ToggleScan
  <2>2. scans \in Seq(Scannings) /\ st \in {"off", "seeking", "asking", "dead"}
    BY <1>2, <1>4
  <2> HIDE DEF st, scans
  <2>3. [desk EXCEPT !.scan = st, !.scans = scans] = [desk EXCEPT !.scan = st, !.scans = scans, !.error = desk.error]
    BY <1>1 DEF Desks
  <2>4. QED
    BY <1>3, <1>5, <2>1, <2>2, <2>3
<1>7. CASE NoCamera
  <2>1. Render([desk EXCEPT !.scan = "dead", !.error = TRUE]) /\ UNCHANGED <<observations, org, overtaken, covered>>
    BY <1>7 DEF NoCamera
  <2>2. [desk EXCEPT !.scan = "dead", !.error = TRUE] = [desk EXCEPT !.scan = "dead", !.scans = desk.scans, !.error = TRUE]
    BY <1>1 DEF Desks
  <2>3. QED
    BY <1>2, <1>3, <2>1, <2>2
<1>8. ASSUME NEW i \in DOMAIN desk.scans, ScanFails(i)
      PROVE  ExchangeInv' /\ DeskInv'
  <2> DEFINE st == IF desk.scans[i].live THEN "dead" ELSE desk.scan
             scans == RemoveAt(desk.scans, i)
  <2>1. Render([desk EXCEPT !.scan = st, !.scans = scans, !.error = TRUE]) /\ UNCHANGED <<observations, org, overtaken, covered>>
    BY <1>8 DEF ScanFails
  <2>2. scans \in Seq(Scannings) /\ st \in {"off", "seeking", "asking", "dead"}
    BY <1>2, <1>5, RemoveAtProperties
  <2> HIDE DEF st, scans
  <2>3. QED
    BY <1>3, <2>1, <2>2
<1>9. ASSUME NEW i \in DOMAIN desk.scans, ScanAnswered(i)
      PROVE  ExchangeInv' /\ DeskInv'
  <2> DEFINE rest == RemoveAt(desk.scans, i)
             scans == [j \in DOMAIN rest |-> [rest[j] EXCEPT !.live = FALSE]]
             f == desk.scans[i].file
  <2>1. covered' = (desk.result # NoResult) /\ UNCHANGED <<observations, org, overtaken>>
    BY <1>9 DEF ScanAnswered
  <2>2. PICK l \in Ledgers(f) :
           Render([desk EXCEPT !.scan = "off", !.scans = scans,
                               !.result = [file |-> f, ledger |-> l, labelled |-> FALSE, source |-> "qr"]])
    BY <1>9 DEF ScanAnswered
  <2>3. rest \in Seq(Scannings)
    BY <1>2, RemoveAtProperties
  <2> HIDE DEF rest
  <2>4. scans \in Seq(Scannings)
    BY <1>4, <2>3
  <2>5. f \in SomeFile
    <3>1. desk.scans[i] \in Scannings
      BY <1>2, ElementOfSeq
    <3>2. QED
      BY <3>1 DEF Scannings, SomeFile
  <2>6. l \in {"unavailable", "unregistered", "registered"}
    BY DEF Ledgers
  <2> HIDE DEF f, scans
  <2>7. PICK r : r = [file |-> f, ledger |-> l, labelled |-> FALSE, source |-> "qr"]
    OBVIOUS
  <2>8. r \in Results /\ r.source = "qr"
    BY <2>5, <2>6, <2>7 DEF Results
  <2> DEFINE d == [desk EXCEPT !.scan = "off", !.scans = scans, !.result = r]
  <2>9. Render(d)
    BY <2>2, <2>7
  <2>10. /\ d \in Desks /\ d.pair = desk.pair /\ d.result = r /\ d.calls = desk.calls
         /\ d.restore = desk.restore /\ d.rehydrate = desk.rehydrate /\ d.identify = desk.identify
         /\ d.attack = desk.attack /\ d.asks = desk.asks
    BY <1>1, <2>4, <2>8 DEF Desks
  <2> HIDE DEF d
  <2>11. /\ overtaken' \in BOOLEAN /\ covered' \in BOOLEAN
         /\ ~covered' => desk.result = NoResult
    BY <1>1, <2>1
  <2>12. d.result.source # "drop"
    BY <2>8, <2>10
  <2>13. ~overtaken => (d.calls # << >> => d.calls[Len(d.calls)] = d.pair)
    BY <1>1, <2>10 DEF LastWord
  <2>14. QED
    BY <2>1, <2>9, <2>10, <2>11, <2>12, <2>13, RenderStep
<1>10. QED
  BY <1>6, <1>7, <1>8, <1>9 DEF ScanAnswers

\* One panel changes, and what is asked for.
WithPanel(p, x, asks) == [desk EXCEPT !.asks = asks, ![p] = x]

\* The others stay as they are.
LEMMA PanelSet ==
  ASSUME desk \in Desks, NEW p \in PanelNames, NEW x \in PanelsOfPage, NEW asks \in SUBSET Askings,
         NEW e, e = WithPanel(p, x, asks)
  PROVE  /\ e \in Desks /\ e.pair = desk.pair /\ e.result = desk.result /\ e.calls = desk.calls
         /\ e.asks = asks /\ e[p] = x
         /\ \A o \in PanelNames \ {p} : e[o] = desk[o]
<1>1. CASE p = "restore"
  <2>1. e = [desk EXCEPT !.asks = asks, !.restore = x]
    BY <1>1 DEF WithPanel
  <2>2. /\ e \in Desks /\ e.pair = desk.pair /\ e.result = desk.result /\ e.calls = desk.calls
        /\ e.asks = asks /\ e.restore = x /\ e.rehydrate = desk.rehydrate
        /\ e.identify = desk.identify /\ e.attack = desk.attack
    BY <2>1 DEF Desks
  <2>3. QED
    BY <1>1, <2>2 DEF PanelNames
<1>2. CASE p = "rehydrate"
  <2>1. e = [desk EXCEPT !.asks = asks, !.rehydrate = x]
    BY <1>2 DEF WithPanel
  <2>2. /\ e \in Desks /\ e.pair = desk.pair /\ e.result = desk.result /\ e.calls = desk.calls
        /\ e.asks = asks /\ e.restore = desk.restore /\ e.rehydrate = x
        /\ e.identify = desk.identify /\ e.attack = desk.attack
    BY <2>1 DEF Desks
  <2>3. QED
    BY <1>2, <2>2 DEF PanelNames
<1>3. CASE p = "identify"
  <2>1. e = [desk EXCEPT !.asks = asks, !.identify = x]
    BY <1>3 DEF WithPanel
  <2>2. /\ e \in Desks /\ e.pair = desk.pair /\ e.result = desk.result /\ e.calls = desk.calls
        /\ e.asks = asks /\ e.restore = desk.restore /\ e.rehydrate = desk.rehydrate
        /\ e.identify = x /\ e.attack = desk.attack
    BY <2>1 DEF Desks
  <2>3. QED
    BY <1>3, <2>2 DEF PanelNames
<1>4. CASE p = "attack"
  <2>1. e = [desk EXCEPT !.asks = asks, !.attack = x]
    BY <1>4 DEF WithPanel
  <2>2. /\ e \in Desks /\ e.pair = desk.pair /\ e.result = desk.result /\ e.calls = desk.calls
        /\ e.asks = asks /\ e.restore = desk.restore /\ e.rehydrate = desk.rehydrate
        /\ e.identify = desk.identify /\ e.attack = x
    BY <2>1 DEF Desks
  <2>3. QED
    BY <1>4, <2>2 DEF PanelNames
<1>5. QED
  BY <1>1, <1>2, <1>3, <1>4 DEF PanelNames

\* What happens inside a panel leaves the page as true as it was.
LEMMA InsideStep ==
  ASSUME ExchangeInv, DeskInv, NEW e \in Desks, Inside(e), UNCHANGED <<observations, org, overtaken, covered>>,
         e.pair = desk.pair, e.result = desk.result, e.calls = desk.calls,
         \A p \in PanelNames : desk[p].st # "off" <=> e[p].st # "off",
         \A p \in {"rehydrate", "identify", "attack"} :
            e[p].st # "off" => e[p].of = desk.pair.doc,
         e.restore.st = "done" => \/ desk.restore.st = "done" /\ e.restore.of = desk.restore.of
                                  \/ \E q \in Questions("restore") : e.restore.of = q.of,
         \A q \in e.asks :
            \/ q \in desk.asks
            \/ /\ desk[q.panel].st # "off"
               /\ q.panel = "restore" => q.of = desk.result.file
               /\ q.panel # "restore" => q.of = desk.pair.doc
  PROVE  ExchangeInv' /\ DeskInv'
<1>1. desk' = e /\ UNCHANGED <<send, inbox, posts>>
  BY DEF Inside
<1>2. ExchangeInv'
  BY <1>1, LogParts DEF ExchangeInv, ExchangeTypes, LogFits, NoteFits, InboxFits,
      ListenersFit, InboxIsTrue,
                         Unseen, NotesFor
<1>3. /\ QuestionsFit /\ SendingFits /\ overtaken \in BOOLEAN /\ covered \in BOOLEAN
      /\ ~overtaken => LastWord
      /\ ~covered => Uncovered
  BY DEF DeskInv
<1>4. e.asks \in SUBSET Askings /\ \A q \in Askings : q.panel \in PanelNames
  BY DeskFields DEF Askings
<1>5. QuestionsFit'
  <2>1. e["restore"].st # "off" => Registered(e)
    BY <1>3 DEF QuestionsFit, Registered, PanelNames
  <2>2. \A q \in e.asks : e[q.panel].st # "off"
    <3>1. \A q \in desk.asks : desk[q.panel].st # "off"
      BY <1>3 DEF QuestionsFit
    <3>2. QED
      BY <1>4, <3>1
  <2>3. ASSUME NEW p \in {"rehydrate", "identify", "attack"}, NEW q \in e.asks, q.panel = p
        PROVE  q.of = desk.pair.doc
    <3>1. q \in desk.asks => q.of = desk.pair.doc
      BY <1>3, <2>3 DEF QuestionsFit, Questions
    <3>2. p # "restore"
      OBVIOUS
    <3>3. QED
      BY <2>3, <3>1, <3>2
  <2>4. QED
    BY <1>1, <2>1, <2>2, <2>3 DEF QuestionsFit, Questions
<1>6. SendingFits'
  BY <1>1, <1>3 DEF SendingFits, Registered
<1>7. ASSUME ~covered
      PROVE  Uncovered'
  <2>1. Uncovered
    BY <1>3, <1>7
  <2>2. \A q \in desk.asks : q.panel = "restore" => q.of = desk.result.file
    BY <2>1 DEF Uncovered, Questions
  <2>3. \A q \in e.asks : q.panel = "restore" => q.of = desk.result.file
    BY <2>2
  <2>4. e.restore.st = "done" => e.restore.of = desk.result.file
    BY <2>1 DEF Uncovered
  <2>5. QED
    BY <1>1, <2>1, <2>3, <2>4 DEF Uncovered, Questions
<1>8. ~overtaken => LastWord'
  BY <1>1, <1>3 DEF LastWord
<1>9. QED
  BY <1>1, <1>2, <1>3, <1>5, <1>6, <1>7, <1>8 DEF DeskInv

\* A panel asks the server about its file.
LEMMA AskStep ==
  ASSUME ExchangeInv, DeskInv, UNCHANGED <<observations, org, overtaken, covered>>,
         NEW p \in PanelNames, NEW x \in PanelsOfPage, NEW q0 \in Askings, q0.panel = p,
         desk[p].st # "off", x.st # "off", x.of = desk[p].of,
         p = "restore" => x = desk[p] /\ q0.of = desk.result.file,
         p # "restore" => q0.of = desk.pair.doc,
         Inside(WithPanel(p, x, desk.asks \union {q0}))
  PROVE  ExchangeInv' /\ DeskInv'
<1>1. desk \in Desks /\ desk.asks \in SUBSET Askings /\ QuestionsFit
  BY DeskFields DEF DeskInv
<1>2. PICK asks : asks = desk.asks \union {q0}
  OBVIOUS
<1>3. asks \in SUBSET Askings
  BY <1>1, <1>2
<1>4. PICK e : e = WithPanel(p, x, asks)
  OBVIOUS
<1>5. Inside(e)
  BY <1>2, <1>4
<1>6. /\ e \in Desks /\ e.pair = desk.pair /\ e.result = desk.result /\ e.calls = desk.calls
      /\ e.asks = asks /\ e[p] = x
      /\ \A o \in PanelNames \ {p} : e[o] = desk[o]
  BY <1>1, <1>3, <1>4, PanelSet
<1>7. \A o \in PanelNames : desk[o].st # "off" <=> e[o].st # "off"
  BY <1>6
<1>8. \A o \in {"rehydrate", "identify", "attack"} : e[o].st # "off" => e[o].of = desk.pair.doc
  <2>1. \A o \in {"rehydrate", "identify", "attack"} : desk[o].st # "off" => desk[o].of = desk.pair.doc
    BY <1>1 DEF QuestionsFit
  <2>2. \A o \in {"rehydrate", "identify", "attack"} : o \in PanelNames
    BY DEF PanelNames
  <2>3. QED
    BY <1>6, <2>1, <2>2
<1>9. e["restore"] = desk["restore"]
  <2>1. "restore" \in PanelNames
    BY DEF PanelNames
  <2>2. QED
    BY <1>6, <2>1
<1>10. \A q \in e.asks :
          \/ q \in desk.asks
          \/ /\ desk[q.panel].st # "off"
             /\ q.panel = "restore" => q.of = desk.result.file
             /\ q.panel # "restore" => q.of = desk.pair.doc
  BY <1>2, <1>6
<1>11. QED
  BY <1>5, <1>6, <1>7, <1>8, <1>9, <1>10, InsideStep

\* A panel hears what it had asked.
LEMMA HearStep ==
  ASSUME ExchangeInv, DeskInv, UNCHANGED <<observations, org, overtaken, covered>>,
         NEW q0 \in desk.asks, NEW st \in PanelStates \ {"off"}, Inside(Hears(q0, st))
  PROVE  ExchangeInv' /\ DeskInv'
<1>1. desk \in Desks /\ desk.asks \in SUBSET Askings /\ QuestionsFit
  BY DeskFields DEF DeskInv
<1>2. PICK p, x, asks : p = q0.panel /\ x = At(st, q0.of) /\ asks = desk.asks \ {q0}
  OBVIOUS
<1>3. p \in PanelNames /\ q0.of \in SomeFile /\ asks \in SUBSET Askings
  BY <1>1, <1>2 DEF Askings
<1>4. x \in PanelsOfPage /\ x.st = st /\ x.of = q0.of
  BY <1>2, <1>3, AtFields
<1>5. PICK e : e = WithPanel(p, x, asks)
  OBVIOUS
<1>6. Inside(e)
  BY <1>2, <1>5 DEF Hears, WithPanel
<1>7. /\ e \in Desks /\ e.pair = desk.pair /\ e.result = desk.result /\ e.calls = desk.calls
      /\ e.asks = asks /\ e[p] = x
      /\ \A o \in PanelNames \ {p} : e[o] = desk[o]
  BY <1>1, <1>3, <1>4, <1>5, PanelSet
<1>8. desk[p].st # "off"
  BY <1>1, <1>2 DEF QuestionsFit
<1>9. \A o \in PanelNames : desk[o].st # "off" <=> e[o].st # "off"
  BY <1>4, <1>7, <1>8
<1>10. \A o \in {"rehydrate", "identify", "attack"} : e[o].st # "off" => e[o].of = desk.pair.doc
  <2>1. \A o \in {"rehydrate", "identify", "attack"} : desk[o].st # "off" => desk[o].of = desk.pair.doc
    BY <1>1 DEF QuestionsFit
  <2>2. \A o \in {"rehydrate", "identify", "attack"} : o \in PanelNames
    BY DEF PanelNames
  <2>3. p \in {"rehydrate", "identify", "attack"} => x.of = desk.pair.doc
    BY <1>1, <1>2, <1>4 DEF QuestionsFit, Questions
  <2>4. QED
    BY <1>7, <2>1, <2>2, <2>3
<1>11. e["restore"].st = "done" =>
          \/ desk["restore"].st = "done" /\ e["restore"].of = desk["restore"].of
          \/ \E q \in Questions("restore") : e["restore"].of = q.of
  <2>1. "restore" \in PanelNames
    BY DEF PanelNames
  <2>2. p = "restore" => q0 \in Questions("restore")
    BY <1>2 DEF Questions
  <2>3. QED
    BY <1>4, <1>7, <2>1, <2>2
<1>12. \A q \in e.asks : q \in desk.asks
  BY <1>2, <1>7
<1>13. QED
  BY <1>6, <1>7, <1>9, <1>10, <1>11, <1>12, InsideStep

\* A label that was asked for does not come.
LEMMA RestoreFailsStep ==
  ASSUME ExchangeInv, DeskInv, UNCHANGED <<observations, org, overtaken, covered>>,
         NEW q0 \in Questions("restore"),
         Inside(IF desk.restore.st = "done" THEN [desk EXCEPT !.asks = @ \ {q0}]
                ELSE [desk EXCEPT !.asks = @ \ {q0}, !.restore = At("error", NoFile)])
  PROVE  ExchangeInv' /\ DeskInv'
<1>1. /\ desk \in Desks /\ desk.asks \in SUBSET Askings /\ desk.restore \in PanelsOfPage
      /\ QuestionsFit /\ q0 \in desk.asks /\ q0.panel = "restore"
  BY DeskFields DEF DeskInv, Questions
<1>2. PICK p, asks, x : /\ p = "restore" /\ asks = desk.asks \ {q0}
                        /\ x = (IF desk.restore.st = "done" THEN desk.restore ELSE At("error", NoFile))
  OBVIOUS
<1>3. /\ p \in PanelNames /\ asks \in SUBSET Askings /\ x \in PanelsOfPage /\ x.st # "off"
      /\ x.st = "done" => x = desk.restore
  <2>1. "error" \in PanelStates /\ NoFile \in SomeFile /\ "error" # "done" /\ "error" # "off"
    BY DEF PanelStates, SomeFile
  <2>2. At("error", NoFile) \in PanelsOfPage /\ At("error", NoFile).st = "error"
    BY <2>1, AtFields
  <2>3. p \in PanelNames
    BY <1>2 DEF PanelNames
  <2>4. QED
    BY <1>1, <1>2, <2>1, <2>2, <2>3
<1>4. PICK e : e = WithPanel(p, x, asks)
  OBVIOUS
<1>5. Inside(e)
  <2>1. CASE desk.restore.st = "done"
    <3>1. Inside([desk EXCEPT !.asks = asks])
      BY <1>2, <2>1
    <3>2. e = [desk EXCEPT !.asks = asks, !.restore = desk.restore]
      BY <1>2, <1>4, <2>1 DEF WithPanel
    <3>3. e = [desk EXCEPT !.asks = asks]
      BY <1>1, <3>2 DEF Desks
    <3>4. QED
      BY <3>1, <3>3
  <2>2. CASE desk.restore.st # "done"
    BY <1>2, <1>4, <2>2 DEF WithPanel
  <2>3. QED
    BY <2>1, <2>2
<1>6. /\ e \in Desks /\ e.pair = desk.pair /\ e.result = desk.result /\ e.calls = desk.calls
      /\ e.asks = asks /\ e[p] = x
      /\ \A o \in PanelNames \ {p} : e[o] = desk[o]
  BY <1>1, <1>3, <1>4, PanelSet
<1>7. desk["restore"].st # "off"
  BY <1>1 DEF QuestionsFit
<1>8. \A o \in PanelNames : desk[o].st # "off" <=> e[o].st # "off"
  BY <1>2, <1>3, <1>6, <1>7
<1>9. \A o \in {"rehydrate", "identify", "attack"} : e[o].st # "off" => e[o].of = desk.pair.doc
  <2>1. \A o \in {"rehydrate", "identify", "attack"} : desk[o].st # "off" => desk[o].of = desk.pair.doc
    BY <1>1 DEF QuestionsFit
  <2>2. \A o \in {"rehydrate", "identify", "attack"} : o \in PanelNames \ {p}
    BY <1>2 DEF PanelNames
  <2>3. QED
    BY <1>6, <2>1, <2>2
<1>10. e.restore.st = "done" => desk.restore.st = "done" /\ e.restore.of = desk.restore.of
  BY <1>2, <1>3, <1>6
<1>11. \A q \in e.asks : q \in desk.asks
  BY <1>2, <1>6
<1>12. QED
  BY <1>5, <1>6, <1>8, <1>9, <1>10, <1>11, InsideStep

\* A panel of the page asks.
LEMMA AsksStep ==
  ASSUME ExchangeInv, DeskInv, AskRestore \/ AskRehydrate \/ AskIdentify \/ AskAttack
  PROVE  ExchangeInv' /\ DeskInv'
<1>1. UNCHANGED <<observations, org, overtaken, covered>>
  BY DEF AskRestore, AskRehydrate, AskIdentify, AskAttack
<1>2. /\ desk \in Desks /\ desk.pair.doc \in SomeFile /\ desk.result.file \in SomeFile
      /\ desk.restore \in PanelsOfPage /\ desk.rehydrate \in PanelsOfPage
      /\ desk.identify \in PanelsOfPage /\ desk.attack \in PanelsOfPage
  BY DeskFields DEF DeskInv
<1>3. \* The button of panel p, which shows it is busy.
      ASSUME NEW p \in PanelNames \ {"restore"}, desk[p].st # "off",
             Inside(WithPanel(p, [desk[p] EXCEPT !.st = "busy"],
                              desk.asks \union {[panel |-> p, of |-> desk.pair.doc]}))
      PROVE  ExchangeInv' /\ DeskInv'
  <2>1. PICK x, q0 : x = [desk[p] EXCEPT !.st = "busy"] /\ q0 = [panel |-> p, of |-> desk.pair.doc]
    OBVIOUS
  <2>2. Inside(WithPanel(p, x, desk.asks \union {q0}))
    BY <1>3, <2>1
  <2>3. desk[p] \in PanelsOfPage
    BY <1>2 DEF PanelNames
  <2>4. x \in PanelsOfPage /\ x.st # "off" /\ x.of = desk[p].of
    BY <2>1, <2>3 DEF PanelsOfPage, PanelStates
  <2>5. q0 \in Askings /\ q0.panel = p /\ q0.of = desk.pair.doc
    BY <1>2, <2>1 DEF Askings
  <2>6. p \in PanelNames /\ p # "restore"
    OBVIOUS
  <2>7. QED
    BY <1>1, <1>3, <2>2, <2>4, <2>5, <2>6, AskStep
<1>4. CASE AskRehydrate
  <2>1. Inside([Asks("rehydrate", desk.pair.doc) EXCEPT !.rehydrate.st = "busy"])
        /\ desk.rehydrate.st # "off"
    BY <1>4 DEF AskRehydrate
  <2>2. [Asks("rehydrate", desk.pair.doc) EXCEPT !.rehydrate.st = "busy"]
           = WithPanel("rehydrate", [desk.rehydrate EXCEPT !.st = "busy"],
                       desk.asks \union {[panel |-> "rehydrate", of |-> desk.pair.doc]})
    BY <1>2 DEF Asks, WithPanel, Desks
  <2>3. QED
    BY <1>3, <2>1, <2>2 DEF PanelNames
<1>5. CASE AskIdentify
  <2>1. Inside([Asks("identify", desk.pair.doc) EXCEPT !.identify.st = "busy"])
        /\ desk.identify.st # "off"
    BY <1>5 DEF AskIdentify
  <2>2. [Asks("identify", desk.pair.doc) EXCEPT !.identify.st = "busy"]
           = WithPanel("identify", [desk.identify EXCEPT !.st = "busy"],
                       desk.asks \union {[panel |-> "identify", of |-> desk.pair.doc]})
    BY <1>2 DEF Asks, WithPanel, Desks
  <2>3. QED
    BY <1>3, <2>1, <2>2 DEF PanelNames
<1>6. CASE AskAttack
  <2>1. Inside([Asks("attack", desk.pair.doc) EXCEPT !.attack.st = "busy"])
        /\ desk.attack.st # "off"
    BY <1>6 DEF AskAttack
  <2>2. [Asks("attack", desk.pair.doc) EXCEPT !.attack.st = "busy"]
           = WithPanel("attack", [desk.attack EXCEPT !.st = "busy"],
                       desk.asks \union {[panel |-> "attack", of |-> desk.pair.doc]})
    BY <1>2 DEF Asks, WithPanel, Desks
  <2>3. QED
    BY <1>3, <2>1, <2>2 DEF PanelNames
<1>7. CASE AskRestore
  <2>1. Inside(Asks("restore", desk.result.file)) /\ desk.restore.st # "off"
    BY <1>7 DEF AskRestore
  <2>2. PICK p, x, q0 : /\ p = "restore" /\ x = desk.restore
                        /\ q0 = [panel |-> "restore", of |-> desk.result.file]
    OBVIOUS
  <2>3. /\ p \in PanelNames /\ x \in PanelsOfPage /\ q0 \in Askings /\ q0.panel = p
        /\ desk[p].st # "off" /\ x.st # "off" /\ x = desk[p] /\ x.of = desk[p].of
        /\ q0.of = desk.result.file /\ p = "restore"
    BY <1>2, <2>1, <2>2 DEF PanelNames, Askings
  <2>4. [desk EXCEPT !.asks = @ \union {q0}] = [desk EXCEPT !.asks = @ \union {q0}, !.restore = desk.restore]
    BY <1>2 DEF Desks
  <2>5. Inside(WithPanel(p, x, desk.asks \union {q0}))
    BY <2>1, <2>2, <2>4 DEF Asks, WithPanel
  <2>6. QED
    BY <1>1, <2>3, <2>5, AskStep
<1>8. QED
  BY <1>4, <1>5, <1>6, <1>7

\* A panel of the page is answered.
LEMMA HearsStep ==
  ASSUME ExchangeInv, DeskInv,
         RestoreAnswered \/ RehydrateAnswered \/ IdentifyAnswered \/ AttackAnswered
  PROVE  ExchangeInv' /\ DeskInv'
<1>1. UNCHANGED <<observations, org, overtaken, covered>>
  BY DEF RestoreAnswered, RehydrateAnswered, IdentifyAnswered, AttackAnswered
<1>2. \A p : \A q \in Questions(p) : q \in desk.asks
  BY DEF Questions
<1>3. \/ \E q \in desk.asks, st \in PanelStates \ {"off"} : Inside(Hears(q, st))
      \/ \E q \in Questions("restore") :
            Inside(IF desk.restore.st = "done" THEN [desk EXCEPT !.asks = @ \ {q}]
                   ELSE [desk EXCEPT !.asks = @ \ {q}, !.restore = At("error", NoFile)])
  <2>1. {"done", "error", "review", "notfound", "notext"} \subseteq PanelStates \ {"off"}
    BY DEF PanelStates
  <2>2. CASE RestoreAnswered
    BY <1>2, <2>1, <2>2 DEF RestoreAnswered
  <2>3. CASE RehydrateAnswered
    BY <1>2, <2>1, <2>3 DEF RehydrateAnswered
  <2>4. CASE IdentifyAnswered
    BY <1>2, <2>1, <2>4 DEF IdentifyAnswered
  <2>5. CASE AttackAnswered
    BY <1>2, <2>1, <2>5 DEF AttackAnswered
  <2>6. QED
    BY <2>2, <2>3, <2>4, <2>5
<1>4. QED
  BY <1>1, <1>3, HearStep, RestoreFailsStep

\* The scanner has seen a code.
LEMMA ScannedStep ==
  ASSUME ExchangeInv, DeskInv, Scanned
  PROVE  ExchangeInv' /\ DeskInv'
<1>1. desk \in Desks /\ desk.scans \in Seq(Scannings) /\ QuestionsFit
  BY DeskFields DEF DeskInv
<1>2. PICK f \in Files :
         Inside([desk EXCEPT !.scan = "asking", !.scans = Append(@, [file |-> f, live |-> TRUE])])
  BY DEF Scanned
<1>3. UNCHANGED <<observations, org, overtaken, covered>>
  BY DEF Scanned
<1>4. PICK s : s = [file |-> f, live |-> TRUE]
  OBVIOUS
<1>5. s \in Scannings
  BY <1>4 DEF Scannings
<1> DEFINE scans == Append(desk.scans, s)
           e == [desk EXCEPT !.scan = "asking", !.scans = scans]
<1>6. scans \in Seq(Scannings)
  BY <1>1, <1>5, AppendElements
<1>7. Inside(e)
  BY <1>2, <1>4
<1> HIDE DEF scans
<1>8. /\ e \in Desks /\ e.pair = desk.pair /\ e.result = desk.result /\ e.calls = desk.calls
      /\ e.asks = desk.asks /\ e.restore = desk.restore /\ e.rehydrate = desk.rehydrate
      /\ e.identify = desk.identify /\ e.attack = desk.attack
  BY <1>1, <1>6 DEF Desks
<1> HIDE DEF e
<1>9. \A p \in PanelNames : e[p] = desk[p]
  BY <1>8 DEF PanelNames
<1>10. \A p \in {"rehydrate", "identify", "attack"} : e[p].st # "off" => e[p].of = desk.pair.doc
  <2>1. \A p \in {"rehydrate", "identify", "attack"} : desk[p].st # "off" => desk[p].of = desk.pair.doc
    BY <1>1 DEF QuestionsFit
  <2>2. QED
    BY <1>9, <2>1 DEF PanelNames
<1>11. QED
  BY <1>3, <1>7, <1>8, <1>9, <1>10, InsideStep

\* The verify page moves; the exchange with it.
LEMMA DeskStep ==
  ASSUME ExchangeInv, DeskInv, DeskNext
  PROVE  ExchangeInv' /\ DeskInv'
  BY DropStep, DeskAnswersStep, ScannerStep, ScannedStep, AsksStep, HearsStep DEF DeskNext

\* The exchange moves: what is sent on stays what the verdict is about.
LEMMA ExchangeKeepsDesk ==
  ASSUME ExchangeInv, DeskInv, UNCHANGED <<desk, overtaken, covered>>, LogGrows, send'.of = send.of,
         send.st # "off" <=> send'.st # "off",
         \A j \in DOMAIN posts' :
            \/ \E i \in DOMAIN posts : posts'[j] = posts[i]
            \/ posts'[j].note.kind # "SENT"
            \/ send.st # "off" /\ posts'[j].note.doc = send.of,
         send'.st = "done" =>
            \/ send.st = "done"
            \/ \E i \in DOMAIN posts, v \in DOMAIN observations' :
                  /\ posts[i].live /\ posts[i].note.kind = "SENT"
                  /\ observations'[v] = posts[i].note
  PROVE  DeskInv'
<1>1. /\ desk \in Desks /\ overtaken \in BOOLEAN /\ covered \in BOOLEAN /\ QuestionsFit /\ SendingFits
      /\ ~overtaken => LastWord
      /\ ~covered => Uncovered
  BY DEF DeskInv
<1>2. QuestionsFit'
  BY <1>1 DEF QuestionsFit, Questions, Registered
<1>3. SendingFits'
  BY <1>1 DEF SendingFits, Registered
<1>4. ASSUME ~covered
      PROVE  Uncovered'
  <2>1. Uncovered
    BY <1>1, <1>4
  <2>2. \A i \in DOMAIN posts :
           posts[i].live /\ posts[i].note.kind = "SENT" => posts[i].note.doc = desk.result.file
    BY <2>1 DEF Uncovered
  <2>3. \A j \in DOMAIN posts' :
           posts'[j].live /\ posts'[j].note.kind = "SENT" => posts'[j].note.doc = desk.result.file
    <3>1. send.st # "off" => send.of = desk.result.file
      BY <1>1 DEF SendingFits
    <3>2. QED
      BY <2>2, <3>1
  <2>4. send'.st = "done" => \E v \in DOMAIN observations' :
           observations'[v].kind = "SENT" /\ observations'[v].doc = desk.result.file
    <3>1. CASE send.st = "done"
      <4>1. PICK v \in DOMAIN observations :
               observations[v].kind = "SENT" /\ observations[v].doc = desk.result.file
        BY <2>1, <3>1 DEF Uncovered
      <4>2. observations'[v] = observations[v] /\ v \in DOMAIN observations'
        <5>1. /\ Len(observations) \in Nat /\ Len(observations') \in Nat
              /\ Len(observations) <= Len(observations')
              /\ DOMAIN observations = 1 .. Len(observations)
              /\ DOMAIN observations' = 1 .. Len(observations')
          BY LogParts, LenProperties DEF LogGrows
        <5>2. QED
          BY <4>1, <5>1 DEF LogGrows
      <4>3. QED
        BY <4>1, <4>2
    <3>2. CASE \E i \in DOMAIN posts, v \in DOMAIN observations' :
                  /\ posts[i].live /\ posts[i].note.kind = "SENT"
                  /\ observations'[v] = posts[i].note
      BY <2>2, <3>2
    <3>3. QED
      BY <3>1, <3>2
  <2>5. QED
    BY <2>1, <2>3, <2>4 DEF Uncovered, Questions
<1>5. ~overtaken => LastWord'
  BY <1>1 DEF LastWord
<1>6. QED
  BY <1>1, <1>2, <1>3, <1>4, <1>5 DEF DeskInv

\* A note is sent, stored or answered.
LEMMA SendNextStep ==
  ASSUME ExchangeInv, DeskInv, SendNext, UNCHANGED <<desk, overtaken, covered>>
  PROVE  ExchangeInv' /\ DeskInv'
<1>1. CASE SendListed \/ ChooseReceiver
  <2>1. ExchangeInv' /\ send'.st = send.st /\ send'.of = send.of
    BY <1>1, SendListedStep
  <2>2. UNCHANGED <<observations, posts>>
    BY <1>1 DEF SendListed, ChooseReceiver
  <2>3. LogGrows
    BY <2>2, LogStays
  <2>4. \A j \in DOMAIN posts' : \E i \in DOMAIN posts : posts'[j] = posts[i]
    BY <2>2
  <2>5. QED
    BY <2>1, <2>3, <2>4, ExchangeKeepsDesk
<1>2. CASE Send
  <2>1. /\ ExchangeInv' /\ send'.st = "busy" /\ send'.of = send.of /\ send.st # "off"
        /\ UNCHANGED observations
        /\ DOMAIN posts' = 1 .. (Len(posts) + 1) /\ DOMAIN posts = 1 .. Len(posts)
        /\ \A i \in DOMAIN posts : posts'[i] = posts[i]
        /\ posts'[Len(posts) + 1].note.doc = send.of
    BY <1>2, SendStep
  <2>2. LogGrows
    BY <2>1, LogStays
  <2>3. \A j \in DOMAIN posts' :
           \/ \E i \in DOMAIN posts : posts'[j] = posts[i]
           \/ send.st # "off" /\ posts'[j].note.doc = send.of
    <3>1. Len(posts) \in Nat
      BY LogParts, LenProperties
    <3>2. \A j \in DOMAIN posts' : j \in DOMAIN posts \/ j = Len(posts) + 1
      BY <2>1, <3>1
    <3>3. QED
      BY <2>1, <3>2
  <2>4. send'.st # "off" /\ send'.st # "done"
    BY <2>1
  <2>5. QED
    BY <2>1, <2>2, <2>3, <2>4, ExchangeKeepsDesk
<1>3. CASE Posted
  BY <1>3, PostedStep, ExchangeKeepsDesk
<1>4. QED
  BY <1>1, <1>2, <1>3 DEF SendNext

\* The inbox lists, verifies and hears; the organisation is chosen anew.
LEMMA InboxNextStep ==
  ASSUME ExchangeInv, DeskInv, InboxNext, UNCHANGED <<desk, overtaken, covered>>
  PROVE  ExchangeInv' /\ DeskInv'
<1>1. \* The send panel and its notes stay as they are.
      ASSUME UNCHANGED <<send, posts>>, LogGrows
      PROVE  DeskInv'
  <2>1. \A j \in DOMAIN posts' : \E i \in DOMAIN posts : posts'[j] = posts[i]
    BY <1>1
  <2>2. QED
    BY <1>1, <2>1, ExchangeKeepsDesk
<1>2. CASE Loaded
  <2>1. UNCHANGED <<observations, send, posts>>
    BY <1>2 DEF Loaded
  <2>2. QED
    BY <1>1, <1>2, <2>1, LogStays, LoadedStep
<1>3. CASE VerifyItem
  <2>1. /\ ExchangeInv' /\ UNCHANGED <<observations, send>>
        /\ \A i \in DOMAIN posts' :
              \/ i \in DOMAIN posts /\ posts'[i] = posts[i]
              \/ posts'[i].note.kind # "SENT"
    BY <1>3, VerifyItemStep
  <2>2. LogGrows
    BY <2>1, LogStays
  <2>3. QED
    BY <2>1, <2>2, ExchangeKeepsDesk
<1>4. CASE Posted
  BY <1>4, PostedStep, ExchangeKeepsDesk
<1>5. CASE SentElsewhere
  BY <1>1, <1>5, SentElsewhereStep
<1>6. CASE PickOrg \/ DefaultOrg
  <2>1. PICK o \in Orgs : SetOrg(o)
    BY <1>6, WebAssumption DEF PickOrg, DefaultOrg
  <2>2. UNCHANGED <<observations, send, posts>>
    BY <2>1 DEF SetOrg
  <2>3. QED
    BY <1>1, <2>1, <2>2, LogStays, SetOrgStep
<1>7. QED
  BY <1>2, <1>3, <1>4, <1>5, <1>6 DEF InboxNext

\* The verify page as it is mounted.
DeskFresh ==
  /\ observations \in Seq(Notes) /\ org \in SomeOrg
  /\ desk = EmptyDesk /\ overtaken = FALSE /\ covered = FALSE /\ send = NoSend /\ posts = << >>
  /\ \A v \in DOMAIN observations : NoteFits(observations[v], v - 1)
  /\ inbox = Closed \/ inbox = Opened

\* There is nothing on it that could be about something else.
LEMMA DeskMounted == DeskFresh => ExchangeInv /\ DeskInv
<1> SUFFICES ASSUME DeskFresh PROVE ExchangeInv /\ DeskInv
  OBVIOUS
<1> USE DEF DeskFresh
<1>1. /\ EmptyDesk \in Desks /\ EmptyDesk.restore.st = "off" /\ EmptyDesk.rehydrate.st = "off"
      /\ EmptyDesk.identify.st = "off" /\ EmptyDesk.attack.st = "off" /\ EmptyDesk.asks = {}
      /\ EmptyDesk.calls = << >> /\ EmptyDesk.result = NoResult
  <2>1. Off \in PanelsOfPage /\ Off.st = "off" /\ NoPair \in Pairs
    BY DEF Off, PanelsOfPage, PanelStates, SomeFile, NoPair, Pairs
  <2>2. << >> \in Seq(Pairs) /\ << >> \in Seq(Scannings) /\ {} \in SUBSET Askings
    BY EmptySeq
  <2>3. QED
    BY <2>1, <2>2, NoVerdict DEF EmptyDesk, Desks
<1>2. NoSend \in SendPanels /\ NoSend.st = "off"
  BY DEF NoSend, SendPanels, SomeFile, SomeOrg
<1>3. posts \in Seq(Posts) /\ DOMAIN posts = {}
  BY EmptySeq
<1>4. (inbox = Closed \/ inbox \in Inboxes) /\ InboxFits /\ InboxIsTrue
  <2>1. CASE inbox = Closed
    <3>1. ~inbox.open
      BY <2>1 DEF Closed
    <3>2. QED
      BY <2>1, <3>1 DEF InboxFits, InboxIsTrue
  <2>2. CASE inbox = Opened
    <3>1. PICK r : r = Opened /\ r = inbox
      BY <2>2
    <3>2. /\ r \in Inboxes /\ r.asked = 0 /\ r.items = {}
          /\ \A i \in DOMAIN r.loads : r.loads[i].asked <= Len(observations)
      BY <3>1, OpenedFields
    <3>3. Len(observations) \in Nat /\ 0 <= Len(observations) /\ 1 .. 0 = {}
      BY LenProperties
    <3>4. QED
      BY <3>1, <3>2, <3>3 DEF InboxFits, InboxIsTrue
  <2>3. QED
    BY <2>1, <2>2
<1>5. ExchangeInv
  BY <1>2, <1>3, <1>4 DEF ExchangeInv, ExchangeTypes, LogFits, ListenersFit
<1>6. QuestionsFit
  <2>1. /\ EmptyDesk["restore"].st = "off" /\ EmptyDesk["rehydrate"].st = "off"
        /\ EmptyDesk["identify"].st = "off" /\ EmptyDesk["attack"].st = "off"
    BY <1>1
  <2>2. QED
    BY <1>1, <2>1 DEF QuestionsFit, Questions
<1>7. SendingFits
  BY <1>2 DEF SendingFits
<1>8. LastWord /\ Uncovered
  <2>1. desk.calls = << >> /\ desk.result.source # "drop"
    BY <1>1, NoVerdict
  <2>2. desk.restore.st # "done" /\ send.st # "done"
    BY <1>1, <1>2
  <2>3. QED
    BY <1>1, <1>3, <2>1, <2>2 DEF LastWord, Uncovered, Questions
<1>9. QED
  BY <1>1, <1>5, <1>6, <1>7, <1>8 DEF DeskInv

\* The same of the page that is mounted again.
LEMMA DeskRemounted == DeskFresh' => ExchangeInv' /\ DeskInv'
  BY DeskMounted, PTL

\* The page that is not there does not move.
LEMMA DeskKept ==
  ASSUME ExchangeInv, DeskInv, UNCHANGED <<desk, overtaken, covered, send, inbox, posts,
  observations, org>>
  PROVE  ExchangeInv' /\ DeskInv'
<1>1. ExchangeInv'
  BY LogParts DEF ExchangeInv, ExchangeTypes, LogFits, NoteFits, InboxFits, ListenersFit,
      InboxIsTrue,
                  Unseen, NotesFor
<1>2. LogGrows
  BY LogStays
<1>3. \A j \in DOMAIN posts' : \E i \in DOMAIN posts : posts'[j] = posts[i]
  OBVIOUS
<1>4. QED
  BY <1>1, <1>2, <1>3, ExchangeKeepsDesk

\* What the other pages and the other clients do leaves the exchange alone.
LEMMA OthersKeepDesk ==
  ASSUME [Next]_vars
  PROVE  \/ DeskNext
         \/ (SendNext \/ InboxNext) /\ UNCHANGED <<desk, overtaken, covered>>
         \/ UNCHANGED <<desk, overtaken, covered, send, inbox, posts, observations, org>>
         \/ /\ desk' = EmptyDesk /\ overtaken' = FALSE /\ covered' = FALSE /\ send' = NoSend /\ inbox' = Opened
            /\ posts' = << >> /\ UNCHANGED <<observations, org>>
<1>1. ASSUME IssueNext
      PROVE  UNCHANGED <<observations, org>>
  BY <1>1, Zenon DEF IssueNext, ChooseFile, Issue, Issued, IssuersListed, AskIssuers, Lookup,
     LookupAnswered, Choose, Cancel, Run, RunAnswered
<1>2. ASSUME ReadingNext \/ ComparingNext \/ CachesNext
      PROVE  UNCHANGED <<observations, org>>
  BY <1>2, Zenon DEF ReadingNext, SetLimit, Refresh, RowsLoaded, LoadSamples, SamplesLoaded,
      Reindex,
     Reindexed, ComparingNext, Pick, SetMode, SetInputs, Compare, Compared, CachesNext, Published,
     Connection, Want, Fetched, Shown, Refetched, Reload
<1>3. ASSUME Elsewhere({"live"}) \/ Elsewhere(States \ {"none"})
      PROVE  UNCHANGED <<observations, org>>
  BY <1>3, Zenon DEF Elsewhere
<1>4. ASSUME Remount
      PROVE  \/ UNCHANGED <<desk, overtaken, covered, send, inbox, posts, observations, org>>
             \/ /\ desk' = EmptyDesk /\ overtaken' = FALSE /\ covered' = FALSE /\ send' = NoSend /\ inbox' = Opened
                /\ posts' = << >> /\ UNCHANGED <<observations, org>>
  BY <1>4, Zenon DEF Remount, verifyVars
<1>5. \/ DeskNext
      \/ (SendNext \/ InboxNext) /\ UNCHANGED <<desk, overtaken, covered>>
      \/ /\ IssueNext \/ ReadingNext \/ ComparingNext \/ CachesNext \/ Elsewhere({"live"})
            \/ Elsewhere(States \ {"none"})
         /\ UNCHANGED verifyVars
      \/ Remount \/ UNCHANGED vars
  BY Zenon DEF Next
<1>6. QED
  BY <1>1, <1>2, <1>3, <1>4, <1>5, Zenon DEF verifyVars, vars

\* The verify page and the exchange it opens are consistent.
LEMMA DeskAlways == Spec => [](ExchangeInv /\ DeskInv)
<1>1. Init => ExchangeInv /\ DeskInv
  <2>1. SUFFICES ASSUME Init PROVE DeskFresh
    BY DeskMounted
  <2>2. /\ desk = EmptyDesk /\ overtaken = FALSE /\ covered = FALSE /\ send = NoSend /\ posts = << >>
        /\ observations = << >> /\ (inbox = Closed \/ inbox = Opened)
    BY <2>1 DEF Init, Mounted
  <2>3. org \in SomeOrg
    BY <2>1, WebAssumption DEF Init, SomeOrg
  <2>4. observations \in Seq(Notes) /\ DOMAIN observations = {}
    BY <2>2, EmptySeq
  <2>5. QED
    BY <2>2, <2>3, <2>4 DEF DeskFresh
<1>2. ExchangeInv /\ DeskInv /\ [Next]_vars => ExchangeInv' /\ DeskInv'
  <2>1. SUFFICES ASSUME ExchangeInv, DeskInv, [Next]_vars PROVE ExchangeInv' /\ DeskInv'
    OBVIOUS
  <2>2. CASE /\ desk' = EmptyDesk /\ overtaken' = FALSE /\ covered' = FALSE /\ send' = NoSend /\ inbox' = Opened
             /\ posts' = << >> /\ UNCHANGED <<observations, org>>
    <3>1. inbox' = Opened'
      BY <2>2 DEF Opened, Asking
    <3>2. /\ observations \in Seq(Notes) /\ org \in SomeOrg
          /\ \A v \in DOMAIN observations : NoteFits(observations[v], v - 1)
      BY <2>1, LogParts DEF LogFits
    <3>3. DeskFresh'
      BY <2>2, <3>1, <3>2 DEF DeskFresh, NoteFits
    <3>4. QED
      BY <3>3, DeskRemounted
  <2>3. QED
    BY <2>1, <2>2, OthersKeepDesk, DeskStep, SendNextStep, InboxNextStep, DeskKept
<1>3. QED
  BY <1>1, <1>2, PTL DEF Spec

\* What stands in an inbox was sent to the organisation for which it was asked
\* and had not been verified there by then, whatever answers cross and whoever
\* writes to the log meanwhile; and what was sent and verified by nobody since is
\* in it, as long as no more entries of the organisation came since than the inbox
\* asks for (Federation.jsx:80-118).
THEOREM InboxesAreTrue == Spec => []InboxIsTrue
<1>1. ExchangeInv /\ DeskInv => InboxIsTrue
  BY DEF ExchangeInv
<1>2. QED
  BY <1>1, DeskAlways, PTL

\* Everything on the verify page is about the file in front of the user, whatever
\* other clients do and however often the page is left: the panels about the
\* dropped document always; the verdict, when all calls have ended, unless the
\* call of the last drop failed or ended before an earlier one; the recovered label
\* and the note of sending, unless the verdict was put over another, be it that of
\* an earlier drop or of a scanned code (Verify.jsx:24-97).
THEOREM PanelsAreAboutTheFile == Spec => []PanelsFit
<1>1. ExchangeInv /\ DeskInv => PanelsFit
  <2>1. SUFFICES ASSUME DeskInv PROVE PanelsFit
    OBVIOUS
  <2>2. QuestionsFit /\ (~overtaken => LastWord) /\ (~covered => Uncovered)
    BY <2>1 DEF DeskInv
  <2>3. QED
    BY <2>2 DEF PanelsFit, QuestionsFit, LastWord, Uncovered
<1>2. QED
  BY <1>1, DeskAlways, PTL
=============================================================================
