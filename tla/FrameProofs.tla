----------------------------- MODULE FrameProofs -----------------------------
(***************************************************************************)
(* The way of a frame for every number of consumers, sessions and frames:  *)
(* types, no lost frame, no lost wake-up, delivery once and in order, and  *)
(* that FramePath implements Mailbox.                                      *)
(***************************************************************************)
EXTENDS MailboxRefinement, SequenceTheorems, TLAPS

\* No consumer is twice in the list of a queue, so that taking it out of the
\* list once takes it out.
Once(list) == \A i, j \in DOMAIN list : list[i] = list[j] => i = j

ListedOnce == \A s \in Sessions : Once(getters[s])

\* The current session is the last one made; nothing is in the queue of a
\* session to come, and nobody is in get() on it.
NotBefore ==
    /\ queue \in {0, made}
    /\ \A s \in Sessions : buf[s] # Empty => s <= made
    /\ \A k \in Consumers : state[k] # "idle" => source[k] \in 1 .. made

Typed == TypeOK /\ ListedOnce /\ NotBefore

\* f was sent before g, as far as two frames of one session go.
Before(f, g) == f.session = g.session => f.n < g.n

\* f has left the callbacks: it is in a queue or was given away.
Handled(f) == f \in delivered \/ \E s \in Sessions : f = buf[s]

\* The frames of a session lie along their way in the order they were sent in:
\* sent, being posted, ready, handled.
Queued ==
    /\ \A s \in Sessions : posting[s] # Empty =>
          posting[s].session = s /\ posting[s].n <= sent[s]
    /\ \A i \in DOMAIN ready :
          /\ ready[i].n <= sent[ready[i].session]
          /\ posting[ready[i].session] # Empty => Before(ready[i], posting[ready[i].session])
    /\ \A i, j \in DOMAIN ready : i < j => Before(ready[i], ready[j])
    /\ \A f \in Frames : Handled(f) =>
          /\ f.n <= sent[f.session]
          /\ posting[f.session] # Empty => Before(f, posting[f.session])
          /\ \A i \in DOMAIN ready : Before(f, ready[i])

\* Consumer k can be given what is in queue s.
Within(k, s) == s = queue \/ (state[k] # "idle" /\ source[k] = s)

\* What is in a queue was given to nobody, is older than what is in a later
\* queue, and newer than all that those who can still take it were given.
Boxed ==
    /\ \A s \in Sessions : buf[s] # Empty => buf[s] \notin delivered
    /\ \A s, t \in Sessions :
          s < t /\ buf[s] # Empty /\ buf[t] # Empty => Before(buf[s], buf[t])
    /\ \A k \in Consumers : got[k] # Empty => got[k] \in delivered
    /\ \A k \in Consumers, s \in Sessions :
          Within(k, s) /\ buf[s] # Empty /\ got[k] # Empty => Before(got[k], buf[s])

-----------------------------------------------------------------------------
(* The lists of waiting consumers.                                         *)

\* What is first and what is left of a list.
LEMMA HeadOff ==
    ASSUME NEW S, NEW list \in Seq(S), list # <<>>
    PROVE  /\ 1 \in DOMAIN list
           /\ Head(list) = list[1] /\ Head(list) \in S
           /\ Tail(list) \in Seq(S)
           /\ DOMAIN Tail(list) = 1 .. Len(list) - 1
           /\ \A i \in DOMAIN Tail(list) :
                  i + 1 \in DOMAIN list /\ Tail(list)[i] = list[i + 1]
BY SMT

\* Taking k out of a list that holds nobody twice leaves the others, once.
LEMMA LeavingTheList ==
    ASSUME NEW S, NEW list \in Seq(S), Once(list), NEW k
    PROVE  /\ Without(list, k) \in Seq(S) /\ Once(Without(list, k))
           /\ \A c : Listed(c, Without(list, k)) <=> c # k /\ Listed(c, list)
<1>. DEFINE at == CHOOSE i \in DOMAIN list : list[i] = k
           rest == Without(list, k)
<1>1. CASE ~Listed(k, list)
  BY <1>1 DEF Without
<1>2. CASE Listed(k, list)
  <2>1. at \in DOMAIN list /\ list[at] = k
    BY <1>2 DEF Listed
  <2>2. rest = [i \in 1 .. Len(list) - 1 |-> IF i < at THEN list[i] ELSE list[i + 1]]
    BY <1>2 DEF Without
  <2>3. Len(list) \in Nat /\ DOMAIN list = 1 .. Len(list)
    OBVIOUS
  <2>. HIDE DEF at, rest
  <2>4. rest \in Seq(S) /\ DOMAIN rest = 1 .. Len(list) - 1
    <3>1. \A i \in 1 .. Len(list) - 1 : rest[i] \in S
      BY <2>1, <2>2, <2>3
    <3>2. Len(list) - 1 \in Nat
      BY <2>1, <2>3
    <3>3. rest \in [1 .. Len(list) - 1 -> S]
      BY <3>1, <2>2
    <3>. QED  BY <3>2, <3>3
  <2>5. \A i \in DOMAIN rest : rest[i] = IF i < at THEN list[i] ELSE list[i + 1]
    BY <2>2, <2>4
  <2>6. \A i \in DOMAIN list : i < at => i \in DOMAIN rest /\ rest[i] = list[i]
    BY <2>1, <2>3, <2>4, <2>5
  <2>7. \A i \in DOMAIN list : i > at => i - 1 \in DOMAIN rest /\ rest[i - 1] = list[i]
    BY <2>1, <2>3, <2>4, <2>5
  <2>8. Once(rest)
    BY <2>1, <2>3, <2>4, <2>5 DEF Once
  <2>9. ASSUME NEW i \in DOMAIN rest
        PROVE  rest[i] # k /\ \E j \in DOMAIN list : list[j] = rest[i]
    BY <2>1, <2>3, <2>4, <2>5 DEF Once
  <2>10. ASSUME NEW i \in DOMAIN list, list[i] # k
         PROVE  \E j \in DOMAIN rest : rest[j] = list[i]
    BY <2>1, <2>3, <2>6, <2>7, <2>10
  <2>11. \A c : Listed(c, rest) <=> c # k /\ Listed(c, list)
    BY <2>9, <2>10 DEF Listed
  <2>. QED  BY <2>4, <2>8, <2>11 DEF rest
<1>. QED  BY <1>1, <1>2

\* The first gone from such a list leaves the others, once.
LEMMA FirstGone ==
    ASSUME NEW S, NEW list \in Seq(S), Once(list), list # <<>>
    PROVE  /\ Head(list) \in S /\ Listed(Head(list), list)
           /\ Tail(list) \in Seq(S) /\ Once(Tail(list))
           /\ \A c : Listed(c, Tail(list)) <=> c # Head(list) /\ Listed(c, list)
<1>. DEFINE rest == Tail(list)
           h == Head(list)
<1>1. /\ 1 \in DOMAIN list /\ h = list[1] /\ h \in S
      /\ rest \in Seq(S)
      /\ DOMAIN rest = 1 .. Len(list) - 1
      /\ \A i \in DOMAIN rest : i + 1 \in DOMAIN list /\ rest[i] = list[i + 1]
  BY HeadOff
<1>2. DOMAIN list = 1 .. Len(list) /\ Len(list) \in Nat
  OBVIOUS
<1>. HIDE DEF rest, h
<1>3. ASSUME NEW i \in DOMAIN rest
      PROVE  rest[i] # h /\ \E j \in DOMAIN list : list[j] = rest[i]
  BY <1>1, <1>2 DEF Once
<1>4. ASSUME NEW i \in DOMAIN list, list[i] # h
      PROVE  \E j \in DOMAIN rest : rest[j] = list[i]
  <2>1. i - 1 \in DOMAIN rest /\ rest[i - 1] = list[i]
    BY <1>1, <1>2, <1>4
  <2>. QED  BY <2>1
<1>5. Once(rest)
  BY <1>1, <1>2 DEF Once
<1>6. \A c : Listed(c, rest) <=> c # h /\ Listed(c, list)
  BY <1>3, <1>4 DEF Listed
<1>. QED  BY <1>1, <1>5, <1>6 DEF rest, h, Listed

\* k at the end of a list that did not hold it.
LEMMA LastIn ==
    ASSUME NEW S, NEW list \in Seq(S), Once(list), NEW k \in S, ~Listed(k, list)
    PROVE  /\ Append(list, k) \in Seq(S) /\ Once(Append(list, k))
           /\ \A c : Listed(c, Append(list, k)) <=> c = k \/ Listed(c, list)
<1>. DEFINE longer == Append(list, k)
<1>1. /\ longer \in Seq(S)
      /\ Len(list) \in Nat /\ DOMAIN list = 1 .. Len(list)
      /\ DOMAIN longer = 1 .. Len(list) + 1
      /\ \A i \in 1 .. Len(list) : longer[i] = list[i]
      /\ longer[Len(list) + 1] = k
  BY AppendProperties
<1>. HIDE DEF longer
<1>2. Once(longer)
  BY <1>1 DEF Once, Listed
<1>3. \A c : Listed(c, longer) <=> c = k \/ Listed(c, list)
  BY <1>1 DEF Listed
<1>. QED  BY <1>1, <1>2, <1>3 DEF longer

\* Who waits where is who is listed where.
Lists ==
    /\ getters \in [Sessions -> Seq(Consumers)]
    /\ state \in [Consumers -> {"idle", "waiting", "woken"}]
    /\ source \in [Consumers -> 0 .. MaxSessions]
    /\ \A k \in Consumers, s \in Sessions :
          Listed(k, getters[s]) <=> state[k] = "waiting" /\ source[k] = s
    /\ ListedOnce

LEMMA WaitsLists ==
    ASSUME Lists, NEW k \in Consumers, NEW s \in Sessions,
           state[k] # "waiting", Waits(k, s),
           source' = [source EXCEPT ![k] = s]
    PROVE  Lists'
<1>. USE DEF Lists, Sessions
<1>1. /\ getters' = [getters EXCEPT ![s] = Append(getters[s], k)]
      /\ state' = [state EXCEPT ![k] = "waiting"]
  BY DEF Waits
<1>2. /\ Append(getters[s], k) \in Seq(Consumers) /\ Once(Append(getters[s], k))
      /\ \A c : Listed(c, Append(getters[s], k)) <=> c = k \/ Listed(c, getters[s])
  <2>1. getters[s] \in Seq(Consumers) /\ Once(getters[s]) /\ ~Listed(k, getters[s])
    BY DEF ListedOnce
  <2>. QED  BY <2>1, LastIn
<1>3. /\ getters' \in [Sessions -> Seq(Consumers)]
      /\ state' \in [Consumers -> {"idle", "waiting", "woken"}]
      /\ source' \in [Consumers -> 0 .. MaxSessions]
      /\ ListedOnce'
  BY <1>1, <1>2 DEF ListedOnce
<1>4. \A c \in Consumers, t \in Sessions :
         Listed(c, getters'[t]) <=> state'[c] = "waiting" /\ source'[c] = t
  BY <1>1, <1>2
<1>. QED  BY <1>3, <1>4 DEF Listed, ListedOnce

LEMMA WakesLists ==
    ASSUME Lists, NEW s \in Sessions, WakeNext(s), UNCHANGED source
    PROVE  /\ Lists'
           /\ getters[s] # <<>> => \E k \in Consumers : state'[k] = "woken" /\ source[k] = s
<1>. USE DEF Lists, Sessions
<1>1. CASE getters[s] = <<>>
  BY <1>1 DEF WakeNext, ListedOnce, Listed
<1>2. CASE getters[s] # <<>>
  <2>. DEFINE h == Head(getters[s])
             rest == Tail(getters[s])
  <2>1. /\ state' = [state EXCEPT ![h] = "woken"]
        /\ getters' = [getters EXCEPT ![s] = rest]
    BY <1>2 DEF WakeNext
  <2>2. /\ h \in Consumers /\ Listed(h, getters[s])
        /\ rest \in Seq(Consumers) /\ Once(rest)
        /\ \A c : Listed(c, rest) <=> c # h /\ Listed(c, getters[s])
    <3>1. getters[s] \in Seq(Consumers) /\ Once(getters[s])
      BY DEF ListedOnce
    <3>. QED  BY <1>2, <3>1, FirstGone
  <2>. HIDE DEF h, rest
  <2>3. /\ getters' \in [Sessions -> Seq(Consumers)]
        /\ state' \in [Consumers -> {"idle", "waiting", "woken"}]
        /\ ListedOnce'
    BY <2>1, <2>2 DEF ListedOnce
  <2>4. \A c \in Consumers, t \in Sessions :
           Listed(c, getters'[t]) <=> state'[c] = "waiting" /\ source'[c] = t
    BY <2>1, <2>2
  <2>5. state'[h] = "woken" /\ source[h] = s
    BY <2>1, <2>2
  <2>. QED  BY <2>2, <2>3, <2>4, <2>5 DEF Listed, ListedOnce
<1>. QED  BY <1>1, <1>2

LEMMA RunsLists ==
    ASSUME Lists, NEW k \in Consumers, state[k] # "waiting",
           state' = [state EXCEPT ![k] = "idle"], UNCHANGED <<getters, source>>
    PROVE  Lists'
BY DEF Lists, ListedOnce, Sessions, Listed

\* Giving up and handing the wake-up on is leaving the list, then waking the
\* first of the others.
LEMMA GiveUpLists ==
    ASSUME Lists, NEW k \in Consumers, source[k] \in Sessions, GiveUp(k)
    PROVE  /\ Lists'
           /\ state[k] = "woken" /\ buf[source[k]] # Empty /\ getters'[source[k]] # <<>> =>
                 \E c \in Consumers : state'[c] = "woken" /\ source[c] = source[k]
           /\ \A c \in Consumers \ {k} : state[c] = "woken" => state'[c] = "woken"
           /\ \A c \in Consumers : state[c] = "idle" => state'[c] = "idle"
<1>. USE DEF Lists
<1>. DEFINE s == source[k]
           others == Without(getters[s], k)
           h == Head(others)
           rest == Tail(others)
           handOn == state[k] = "woken" /\ buf[s] # Empty /\ others # <<>>
<1>1. /\ state' = IF handOn THEN [state EXCEPT ![k] = "idle", ![h] = "woken"]
                  ELSE [state EXCEPT ![k] = "idle"]
      /\ getters' = [getters EXCEPT ![s] = IF handOn THEN rest ELSE others]
      /\ UNCHANGED source
  BY DEF GiveUp
<1>2. /\ others \in Seq(Consumers) /\ Once(others)
      /\ \A c : Listed(c, others) <=> c # k /\ Listed(c, getters[s])
  <2>1. getters[s] \in Seq(Consumers) /\ Once(getters[s])
    BY DEF ListedOnce
  <2>. QED  BY <2>1, LeavingTheList
<1>3. handOn => /\ h \in Consumers /\ Listed(h, others)
                /\ rest \in Seq(Consumers) /\ Once(rest)
                /\ \A c : Listed(c, rest) <=> c # h /\ Listed(c, others)
  BY <1>2, FirstGone
<1>4. s \in Sessions /\ s = source[k]
  OBVIOUS
<1>5. state[k] = "woken" /\ buf[s] # Empty => handOn \/ others = <<>>
  OBVIOUS
<1>. HIDE DEF s, others, h, rest, handOn
<1>6. CASE ~handOn
  <2>1. /\ getters' \in [Sessions -> Seq(Consumers)]
        /\ state' \in [Consumers -> {"idle", "waiting", "woken"}]
        /\ ListedOnce'
    BY <1>1, <1>2, <1>4, <1>6 DEF ListedOnce
  <2>2. \A c \in Consumers, t \in Sessions :
           Listed(c, getters'[t]) <=> state'[c] = "waiting" /\ source'[c] = t
    BY <1>1, <1>2, <1>4, <1>6
  <2>3. getters'[s] = others
    BY <1>1, <1>4, <1>6
  <2>. QED  BY <1>1, <1>4, <1>5, <1>6, <2>1, <2>2, <2>3 DEF Listed, ListedOnce
<1>7. CASE handOn
  <2>1. h # k /\ state[h] = "waiting" /\ source[h] = s
    BY <1>2, <1>3, <1>4, <1>7
  <2>2. state' = [state EXCEPT ![k] = "idle", ![h] = "woken"]
    BY <1>1, <1>7
  <2>3. /\ getters' \in [Sessions -> Seq(Consumers)]
        /\ state' \in [Consumers -> {"idle", "waiting", "woken"}]
        /\ ListedOnce'
    BY <1>1, <1>3, <1>4, <1>7, <2>2 DEF ListedOnce
  <2>4. \A c \in Consumers : state'[c] =
           IF c = h THEN "woken" ELSE IF c = k THEN "idle" ELSE state[c]
    BY <2>1, <2>2, <1>3, <1>7
  <2>5. \A c \in Consumers, t \in Sessions :
           Listed(c, getters'[t]) <=> state'[c] = "waiting" /\ source'[c] = t
    <3>1. getters'[s] = rest /\ \A t \in Sessions \ {s} : getters'[t] = getters[t]
      BY <1>1, <1>4, <1>7
    <3>2. \A c \in Consumers : Listed(c, rest) <=> c # h /\ c # k /\ Listed(c, getters[s])
      BY <1>2, <1>3, <1>7
    <3>3. \A c \in Consumers :
             Listed(c, getters'[s]) <=> state'[c] = "waiting" /\ source'[c] = s
      BY <1>1, <1>4, <2>4, <3>1, <3>2
    <3>4. \A c \in Consumers, t \in Sessions \ {s} :
             Listed(c, getters'[t]) <=> state'[c] = "waiting" /\ source'[c] = t
      BY <1>1, <1>4, <2>1, <2>4, <3>1
    <3>. QED  BY <3>3, <3>4
  <2>. QED  BY <1>1, <1>3, <1>4, <1>7, <2>1, <2>3, <2>4, <2>5 DEF Listed, ListedOnce
<1>. QED  BY <1>6, <1>7

-----------------------------------------------------------------------------
(* Types.                                                                  *)

LEMMA Bounds == MaxSessions \in Nat /\ MaxFrames \in Nat
BY BoundAssumption

LEMMA ListsOfTyped ==
    Typed => /\ Lists
             /\ queue # 0 => queue \in Sessions
             /\ \A k \in Consumers : state[k] # "idle" => source[k] \in Sessions
BY Bounds DEF Typed, TypeOK, NotBefore, Lists, Sessions

\* What is at the head of the callbacks, and what is left of them.
LEMMA ReadyOff ==
    ASSUME Typed, ready # <<>>
    PROVE  /\ Head(ready) \in Frames /\ Tail(ready) \in Seq(Frames)
           /\ 1 \in DOMAIN ready /\ Head(ready) = ready[1]
           /\ \A i \in DOMAIN Tail(ready) :
                  i + 1 \in DOMAIN ready /\ Tail(ready)[i] = ready[i + 1]
<1>1. ready \in Seq(Frames)
  BY DEF Typed, TypeOK
<1>. HIDE DEF Frames
<1>. QED  BY <1>1, HeadOff

LEMMA TakeTyped ==
    ASSUME Typed, NEW k \in Consumers, NEW s \in Sessions, buf[s] # Empty, Take(k, s)
    PROVE  /\ buf' \in [Sessions -> Frames \cup {Empty}]
           /\ got' \in [Consumers -> Frames \cup {Empty}]
           /\ delivered' \subseteq Frames
           /\ \A t \in Sessions : buf'[t] # Empty => buf[t] # Empty
BY DEF Typed, TypeOK, Take, Give

LEMMA TypedInit == Init => Typed
<1>. SUFFICES ASSUME Init PROVE Typed
  OBVIOUS
<1>1. \A k, s : s \in Sessions => ~Listed(k, getters[s]) /\ Once(getters[s])
  BY DEF Init, Listed, Once
<1>2. ListedOnce /\ NotBefore
  BY <1>1, Bounds DEF Init, ListedOnce, NotBefore
<1>3. \A k \in Consumers, s \in Sessions :
         Listed(k, getters[s]) <=> state[k] = "waiting" /\ source[k] = s
  BY <1>1 DEF Init
<1>4. getters \in [Sessions -> Seq(Consumers)] /\ ready \in Seq(Frames)
  BY DEF Init
<1>5. /\ queue \in 0 .. made /\ made \in 0 .. MaxSessions
      /\ sent \in [Sessions -> 0 .. MaxFrames]
      /\ source \in [Consumers -> 0 .. MaxSessions]
  BY Bounds DEF Init
<1>6. lastNotify \in BOOLEAN /\ open \in BOOLEAN /\ timed \in [Consumers -> BOOLEAN]
  BY DEF Init
<1>. QED  BY <1>2, <1>3, <1>4, <1>5, <1>6 DEF Init, Typed, TypeOK

LEMMA TypedNext == Typed /\ [Next]_vars => Typed'
<1>. SUFFICES ASSUME Typed, [Next]_vars PROVE Typed'
  OBVIOUS
<1>1. Lists /\ (queue # 0 => queue \in Sessions)
      /\ \A k \in Consumers : state[k] # "idle" => source[k] \in Sessions
  BY ListsOfTyped
<1>. USE Bounds DEF Typed
<1>2. CASE Dial
  <2>1. /\ made \in Nat /\ made < MaxSessions /\ made' = made + 1 /\ queue' = made + 1
        /\ lastNotify' = FALSE /\ notifying' \subseteq Sessions
        /\ UNCHANGED <<worker, ready, buf, consumer, given, newest>>
    BY <1>2 DEF Dial, TypeOK
  <2>2. TypeOK'
    <3>1. queue' \in 0 .. made' /\ made' \in 0 .. MaxSessions
      BY <2>1
    <3>2. open' \in BOOLEAN
      BY <1>2 DEF Dial, TypeOK
    <3>. QED  BY <2>1, <3>1, <3>2 DEF TypeOK, worker, consumer, given
  <2>3. NotBefore'
    BY <2>1 DEF TypeOK, NotBefore, consumer, Sessions
  <2>. QED  BY <2>1, <2>2, <2>3 DEF ListedOnce, consumer
<1>3. CASE Subscribe
  BY <1>1, <1>3 DEF Subscribe, TypeOK, NotBefore, ListedOnce, worker, consumer, given
<1>4. CASE Teardown
  BY <1>1, <1>4 DEF Teardown, TypeOK, NotBefore, ListedOnce, worker, consumer, given
<1>5. CASE LinkDrop
  BY <1>1, <1>5 DEF LinkDrop, TypeOK, NotBefore, ListedOnce, worker, consumer, given
<1>6. ASSUME NEW s \in Sessions, OnNotify(s) PROVE Typed'
  BY <1>1, <1>6 DEF OnNotify, TypeOK, NotBefore, ListedOnce, Frames, session, consumer, given
<1>7. ASSUME NEW s \in Sessions, Post(s) PROVE Typed'
  <2>1. ready' \in Seq(Frames)
    BY <1>7 DEF Post, TypeOK
  <2>. QED  BY <1>1, <1>7, <2>1 DEF Post, TypeOK, NotBefore, ListedOnce, session, consumer, given
<1>8. CASE HandleNotify
  <2>1. ready' \in Seq(Frames) /\ Head(ready) \in Frames
    BY <1>8, ReadyOff DEF HandleNotify
  <2>2. CASE queue # 0 /\ Enqueue(queue, Head(ready))
    <3>1. Lists'
      BY <1>1, <1>8, <2>2, WakesLists DEF Enqueue, HandleNotify
    <3>2. \A k \in Consumers : state'[k] # "idle" => state[k] # "idle"
      <4>1. CASE getters[queue] = <<>>
        BY <2>2, <4>1 DEF Enqueue, WakeNext
      <4>2. CASE getters[queue] # <<>>
        <5>1. getters[queue] \in Seq(Consumers) /\ Once(getters[queue])
          BY <1>1, <2>2 DEF Lists, ListedOnce
        <5>2. Head(getters[queue]) \in Consumers /\ Listed(Head(getters[queue]), getters[queue])
          BY <4>2, <5>1, FirstGone
        <5>. QED  BY <1>1, <2>2, <4>2, <5>2 DEF Enqueue, WakeNext, Lists
      <4>. QED  BY <4>1, <4>2
    <3>3. /\ buf' = [buf EXCEPT ![queue] = Head(ready)]
          /\ newest' = [newest EXCEPT ![queue] = Head(ready)]
          /\ lastNotify' = TRUE
          /\ UNCHANGED <<queue, made, notifying, open, worker, source, timed, given>>
      BY <1>8, <2>2 DEF HandleNotify, Enqueue
    <3>4. TypeOK'
      BY <1>1, <2>1, <2>2, <3>1, <3>3 DEF Lists, TypeOK, worker, given
    <3>5. NotBefore'
      BY <1>1, <2>2, <3>2, <3>3 DEF TypeOK, NotBefore, Sessions
    <3>. QED  BY <3>1, <3>4, <3>5 DEF Lists
  <2>3. CASE UNCHANGED <<buf, newest, getters, state>>
    BY <1>1, <1>8, <2>1, <2>3 DEF HandleNotify, TypeOK, NotBefore, ListedOnce, worker, given
  <2>. QED  BY <1>8, <2>2, <2>3 DEF HandleNotify
<1>9. ASSUME NEW k \in Consumers, NEW t \in BOOLEAN, Get(k, t) PROVE Typed'
  <2>1. /\ queue \in Sessions /\ source' = [source EXCEPT ![k] = queue]
        /\ timed' = [timed EXCEPT ![k] = t] /\ state[k] = "idle"
        /\ UNCHANGED <<session, worker, ready, newest>>
    BY <1>1, <1>9 DEF Get
  <2>2. CASE buf[queue] # Empty /\ Take(k, queue) /\ UNCHANGED <<getters, state>>
    <3>1. \A c \in Consumers, s \in Sessions :
             Listed(c, getters[s]) <=> state[c] = "waiting" /\ source'[c] = s
      BY <1>1, <2>1 DEF Lists
    <3>2. TypeOK'
      <4>1. /\ source' \in [Consumers -> 0 .. MaxSessions]
            /\ timed' \in [Consumers -> BOOLEAN]
        BY <2>1 DEF TypeOK, Sessions
      <4>. QED  BY <2>1, <2>2, <3>1, <4>1, TakeTyped DEF TypeOK, session, worker
    <3>3. NotBefore'
      BY <1>1, <2>1, <2>2, TakeTyped DEF TypeOK, NotBefore, session
    <3>. QED  BY <2>2, <3>2, <3>3 DEF ListedOnce
  <2>3. CASE Waits(k, queue) /\ UNCHANGED <<buf, given>>
    <3>1. Lists'
      BY <1>1, <2>1, <2>3, WaitsLists
    <3>. QED  BY <1>1, <2>1, <2>3, <3>1
              DEF Waits, Lists, TypeOK, NotBefore, Sessions, session, worker, given
  <2>. QED  BY <1>9, <2>2, <2>3 DEF Get
<1>10. ASSUME NEW k \in Consumers, LatestFrame(k) PROVE Typed'
  BY <1>1, <1>10, TakeTyped
     DEF LatestFrame, TypeOK, NotBefore, ListedOnce, session, worker, consumer
<1>11. ASSUME NEW k \in Consumers, Resume(k) PROVE Typed'
  <2>1. /\ source[k] \in Sessions /\ state[k] = "woken"
        /\ UNCHANGED <<session, worker, ready, source, timed, newest>>
    BY <1>1, <1>11 DEF Resume
  <2>2. CASE /\ buf[source[k]] # Empty /\ Take(k, source[k])
             /\ state' = [state EXCEPT ![k] = "idle"] /\ UNCHANGED getters
    <3>1. Lists'
      BY <1>1, <2>1, <2>2, RunsLists
    <3>. QED  BY <1>1, <2>1, <2>2, <3>1, TakeTyped
              DEF Lists, TypeOK, NotBefore, session, worker
  <2>3. CASE Waits(k, source[k]) /\ UNCHANGED <<buf, given>>
    <3>1. source' = [source EXCEPT ![k] = source[k]]
      BY <2>1 DEF TypeOK
    <3>2. Lists'
      BY <1>1, <2>1, <2>3, <3>1, WaitsLists
    <3>. QED  BY <1>1, <2>1, <2>3, <3>2
              DEF Waits, Lists, TypeOK, NotBefore, session, worker, given
  <2>. QED  BY <1>11, <2>2, <2>3 DEF Resume
<1>12. ASSUME NEW k \in Consumers, GiveUp(k) PROVE Typed'
  <2>1. state[k] # "idle" /\ source[k] \in Sessions
    BY <1>1, <1>12 DEF GiveUp
  <2>2. Lists' /\ \A c \in Consumers : state[c] = "idle" => state'[c] = "idle"
    BY <1>1, <1>12, <2>1, GiveUpLists
  <2>3. UNCHANGED <<session, worker, ready, buf, source, timed, given, newest>>
    BY <1>12 DEF GiveUp
  <2>. QED  BY <1>1, <2>2, <2>3 DEF Lists, TypeOK, NotBefore, session, worker, given
<1>13. CASE UNCHANGED vars
  BY <1>1, <1>13 DEF vars, session, worker, consumer, given, TypeOK, NotBefore, ListedOnce
<1>14. CASE LoopCloses
  <2>1. open' \in BOOLEAN
    BY <1>14 DEF LoopCloses
  <2>2. ready' \in Seq(Frames)
    BY <1>14 DEF LoopCloses
  <2>. QED  BY <1>1, <1>14, <2>1, <2>2
            DEF LoopCloses, TypeOK, NotBefore, ListedOnce, worker, consumer, given
<1>. QED  BY <1>2, <1>3, <1>4, <1>5, <1>6, <1>7, <1>8, <1>9, <1>10, <1>11, <1>12, <1>13,
             <1>14
          DEF Next, WaitFrame, NextFrame

\* Types of the frame path, and that the getters listed at a queue are exactly
\* the consumers suspended on it, each once.
THEOREM FramesTyped == Spec => []TypeOK
<1>1. Spec => []Typed
  BY TypedInit, TypedNext, PTL DEF Spec
<1>2. Typed => TypeOK
  BY DEF Typed
<1>. QED  BY <1>1, <1>2, PTL

-----------------------------------------------------------------------------
(* How the content of a queue changes.                                     *)

\* A frame that was handled by the loop goes into the current queue.
Fills ==
    /\ queue \in Sessions /\ ready # <<>> /\ ready' = Tail(ready)
    /\ Enqueue(queue, Head(ready))
    /\ UNCHANGED <<queue, made, notifying, open, worker, source, timed, given>>

\* Consumer k, who could, is given what is in queue s, and leaves its call.
Takes(k, s) ==
    /\ Within(k, s) /\ buf[s] # Empty
    /\ Take(k, s)
    /\ state' = [state EXCEPT ![k] = "idle"]
    /\ \A c \in Consumers \ {k} : source'[c] = source[c]
    /\ UNCHANGED <<session, worker, ready, getters, newest>>

LEMMA HowQueuesChange ==
    ASSUME Typed, [Next]_vars
    PROVE  \/ UNCHANGED <<buf, newest, given>>
           \/ Fills
           \/ \E k \in Consumers, s \in Sessions : Takes(k, s)
<1>1. Lists /\ (queue # 0 => queue \in Sessions)
      /\ \A k \in Consumers : state[k] # "idle" => source[k] \in Sessions
  BY ListsOfTyped
<1>2. CASE Dial \/ Subscribe \/ Teardown \/ LinkDrop \/ LoopCloses
  BY <1>2 DEF Dial, Subscribe, Teardown, LinkDrop, LoopCloses
<1>3. ASSUME NEW s \in Sessions, OnNotify(s) \/ Post(s)
      PROVE  UNCHANGED <<buf, newest, given>>
  BY <1>3 DEF OnNotify, Post
<1>4. CASE HandleNotify
  BY <1>1, <1>4 DEF HandleNotify, Fills
<1>5. ASSUME NEW k \in Consumers, NEW t \in BOOLEAN, Get(k, t)
      PROVE  UNCHANGED <<buf, newest, given>> \/ \E s \in Sessions : Takes(k, s)
  <2>1. CASE Take(k, queue) /\ buf[queue] # Empty /\ UNCHANGED <<getters, state>>
    <3>1. Takes(k, queue)
      BY <1>1, <1>5, <2>1 DEF Get, Takes, Within, Lists
    <3>. QED  BY <1>1, <1>5, <3>1 DEF Get
  <2>2. CASE UNCHANGED <<buf, given>>
    BY <1>5, <2>2 DEF Get
  <2>. QED  BY <1>5, <2>1, <2>2 DEF Get
<1>6. ASSUME NEW k \in Consumers, LatestFrame(k)
      PROVE  \E s \in Sessions : Takes(k, s)
  <2>1. Takes(k, queue)
    BY <1>1, <1>6 DEF LatestFrame, Takes, Within, Lists, consumer
  <2>. QED  BY <1>1, <1>6, <2>1 DEF LatestFrame
<1>7. ASSUME NEW k \in Consumers, Resume(k)
      PROVE  UNCHANGED <<buf, newest, given>> \/ \E s \in Sessions : Takes(k, s)
  <2>1. CASE Take(k, source[k])
    <3>1. Takes(k, source[k]) \/ UNCHANGED <<buf, newest, given>>
      BY <1>1, <1>7, <2>1 DEF Resume, Takes, Within
    <3>. QED  BY <1>1, <1>7, <3>1 DEF Resume
  <2>2. CASE UNCHANGED <<buf, given>>
    BY <1>7, <2>2 DEF Resume
  <2>. QED  BY <1>7, <2>1, <2>2 DEF Resume
<1>8. ASSUME NEW k \in Consumers, GiveUp(k)
      PROVE  UNCHANGED <<buf, newest, given>>
  BY <1>8 DEF GiveUp
<1>9. CASE UNCHANGED vars
  BY <1>9 DEF vars
<1>. QED  BY <1>2, <1>3, <1>4, <1>5, <1>6, <1>7, <1>8, <1>9 DEF Next, WaitFrame, NextFrame

\* What a consumer can be given after a step it could be given before, or was
\* not there.
LEMMA WithinBefore ==
    ASSUME Typed, [Next]_vars, NEW k \in Consumers, NEW s \in Sessions,
           buf[s] # Empty, Within(k, s)'
    PROVE  Within(k, s)
<1>1. Lists /\ (queue # 0 => queue \in Sessions)
      /\ \A c \in Consumers : state[c] # "idle" => source[c] \in Sessions
  BY ListsOfTyped
<1>. USE DEF Within, Typed
<1>2. CASE Dial
  BY <1>2 DEF Dial, TypeOK, NotBefore, Sessions, consumer
<1>3. CASE Subscribe \/ LinkDrop \/ Teardown \/ LoopCloses
  BY <1>3 DEF Subscribe, Teardown, LinkDrop, LoopCloses, consumer, Sessions
<1>4. ASSUME NEW t \in Sessions, OnNotify(t) \/ Post(t) PROVE Within(k, s)
  BY <1>4 DEF OnNotify, Post, session, consumer
<1>5. CASE HandleNotify
  <2>1. CASE queue # 0 /\ Enqueue(queue, Head(ready)) /\ getters[queue] # <<>>
    <3>1. getters[queue] \in Seq(Consumers) /\ Once(getters[queue])
      BY <1>1, <2>1 DEF Lists, ListedOnce
    <3>2. Head(getters[queue]) \in Consumers /\ Listed(Head(getters[queue]), getters[queue])
      BY <2>1, <3>1, FirstGone
    <3>. QED  BY <1>1, <1>5, <2>1, <3>2 DEF HandleNotify, Enqueue, WakeNext, Lists
  <2>2. CASE UNCHANGED state
    BY <1>5, <2>2 DEF HandleNotify
  <2>. QED  BY <1>5, <2>1, <2>2 DEF HandleNotify, Enqueue, WakeNext
<1>6. ASSUME NEW c \in Consumers, NEW t \in BOOLEAN, Get(c, t) PROVE Within(k, s)
  BY <1>1, <1>6 DEF Get, Waits, Lists, session
<1>7. ASSUME NEW c \in Consumers, LatestFrame(c) PROVE Within(k, s)
  BY <1>7 DEF LatestFrame, session, consumer
<1>8. ASSUME NEW c \in Consumers, Resume(c) PROVE Within(k, s)
  BY <1>1, <1>8 DEF Resume, Waits, Lists, session
<1>9. ASSUME NEW c \in Consumers, GiveUp(c) PROVE Within(k, s)
  <2>1. /\ \A b \in Consumers : state[b] = "idle" => state'[b] = "idle"
        /\ UNCHANGED <<session, source>>
    BY <1>1, <1>9, GiveUpLists DEF GiveUp
  <2>. QED  BY <2>1 DEF session
<1>10. CASE UNCHANGED vars
  BY <1>10 DEF vars, session, consumer
<1>. QED  BY <1>2, <1>3, <1>4, <1>5, <1>6, <1>7, <1>8, <1>9, <1>10
          DEF Next, WaitFrame, NextFrame

-----------------------------------------------------------------------------
(* No frame and no wake-up is lost.                                        *)

LEMMA NewestNext == Typed /\ NewestKept /\ [Next]_vars => NewestKept'
<1>. SUFFICES ASSUME Typed, NewestKept, [Next]_vars PROVE NewestKept'
  OBVIOUS
<1>. USE DEF NewestKept
<1>1. CASE UNCHANGED <<buf, newest, given>>
  BY <1>1 DEF given
<1>2. CASE Fills
  BY <1>2 DEF Fills, Enqueue, given, Typed, TypeOK
<1>3. ASSUME NEW k \in Consumers, NEW s \in Sessions, Takes(k, s) PROVE NewestKept'
  BY <1>3 DEF Takes, Take, Give, Typed, TypeOK
<1>. QED  BY <1>1, <1>2, <1>3, HowQueuesChange

LEMMA WakeupNext == Typed /\ NoLostWakeup /\ [Next]_vars => NoLostWakeup'
<1>. SUFFICES ASSUME Typed, NoLostWakeup, [Next]_vars PROVE NoLostWakeup'
  OBVIOUS
<1>1. Lists /\ (queue # 0 => queue \in Sessions)
      /\ \A c \in Consumers : state[c] # "idle" => source[c] \in Sessions
  BY ListsOfTyped
<1>. USE DEF NoLostWakeup
<1>2. CASE UNCHANGED <<buf, getters, state, source>>
  BY <1>2
<1>3. CASE HandleNotify
  <2>1. CASE queue # 0 /\ Enqueue(queue, Head(ready))
    <3>1. /\ getters[queue] # <<>> =>
                 \E k \in Consumers : state'[k] = "woken" /\ source[k] = queue
          /\ UNCHANGED source
      BY <1>1, <1>3, <2>1, WakesLists DEF HandleNotify, Enqueue
    <3>2. \A t \in Sessions \ {queue} : buf'[t] = buf[t] /\ getters'[t] = getters[t]
      BY <1>1, <2>1 DEF Enqueue, WakeNext, Typed, TypeOK
    <3>3. \A c \in Consumers : state[c] = "woken" => state'[c] = "woken"
      BY <1>1, <2>1 DEF Enqueue, WakeNext, Lists
    <3>4. getters[queue] = <<>> => getters'[queue] = <<>>
      BY <2>1 DEF Enqueue, WakeNext
    <3>. QED  BY <3>1, <3>2, <3>3, <3>4
  <2>. QED  BY <1>3, <2>1 DEF HandleNotify
<1>4. ASSUME NEW k \in Consumers, NEW t \in BOOLEAN, Get(k, t) PROVE NoLostWakeup'
  <2>1. CASE Take(k, queue) /\ UNCHANGED <<getters, state>>
    BY <1>1, <1>4, <2>1 DEF Get, Take, Lists, Typed, TypeOK
  <2>2. CASE buf[queue] = Empty /\ Waits(k, queue) /\ UNCHANGED <<buf, given>>
    BY <1>1, <1>4, <2>2 DEF Get, Waits, Lists
  <2>. QED  BY <1>4, <2>1, <2>2 DEF Get
<1>5. ASSUME NEW k \in Consumers, LatestFrame(k) PROVE NoLostWakeup'
  BY <1>1, <1>5 DEF LatestFrame, Take, consumer, Typed, TypeOK
<1>6. ASSUME NEW k \in Consumers, Resume(k) PROVE NoLostWakeup'
  <2>1. CASE Take(k, source[k]) /\ UNCHANGED getters /\ state' = [state EXCEPT ![k] = "idle"]
    BY <1>1, <1>6, <2>1 DEF Resume, Take, Lists, Typed, TypeOK
  <2>2. CASE buf[source[k]] = Empty /\ Waits(k, source[k]) /\ UNCHANGED <<buf, given>>
    BY <1>1, <1>6, <2>2 DEF Resume, Waits, Lists
  <2>. QED  BY <1>6, <2>1, <2>2 DEF Resume
<1>7. ASSUME NEW k \in Consumers, GiveUp(k) PROVE NoLostWakeup'
  <2>1. source[k] \in Sessions /\ UNCHANGED <<buf, source>>
    BY <1>1, <1>7 DEF GiveUp
  <2>2. /\ state[k] = "woken" /\ buf[source[k]] # Empty /\ getters'[source[k]] # <<>> =>
               \E c \in Consumers : state'[c] = "woken" /\ source[c] = source[k]
        /\ \A c \in Consumers \ {k} : state[c] = "woken" => state'[c] = "woken"
    BY <1>1, <1>7, <2>1, GiveUpLists
  <2>3. \A t \in Sessions : getters'[t] # <<>> => getters[t] # <<>>
    <3>1. \A t \in Sessions \ {source[k]} : getters'[t] = getters[t]
      BY <1>1, <1>7, <2>1 DEF GiveUp, Lists
    <3>2. getters[source[k]] = <<>> => getters'[source[k]] = <<>>
      BY <1>1, <1>7, <2>1 DEF GiveUp, Without, Listed, Lists
    <3>. QED  BY <3>1, <3>2
  <2>. QED  BY <2>1, <2>2, <2>3
<1>. QED  BY <1>2, <1>3, <1>4, <1>5, <1>6, <1>7
          DEF Next, WaitFrame, NextFrame, Dial, Subscribe, Teardown, LinkDrop, LoopCloses,
              OnNotify, Post, vars, consumer

\* The newest frame of a queue stays until it is given away, whatever
\* timeouts and overwrites happen.
THEOREM NothingNewerLost == Spec => []NewestKept
<1>1. Init => NewestKept
  BY DEF Init, NewestKept
<1>. QED  BY <1>1, TypedInit, TypedNext, NewestNext, PTL DEF Spec

\* Whoever waits where a frame is pending has a woken consumer before it.
THEOREM WakeupsKept == Spec => []NoLostWakeup
<1>1. Init => NoLostWakeup
  BY DEF Init, NoLostWakeup
<1>. QED  BY <1>1, TypedInit, TypedNext, WakeupNext, PTL DEF Spec

-----------------------------------------------------------------------------
(* Order.                                                                  *)

LEMMA QueuedNext == Typed /\ Queued /\ [Next]_vars => Queued'
<1>. SUFFICES ASSUME Typed, Queued, [Next]_vars PROVE Queued'
  OBVIOUS
<1>1. /\ sent \in [Sessions -> 0 .. MaxFrames]
      /\ posting \in [Sessions -> Frames \cup {Empty}]
      /\ ready \in Seq(Frames) /\ Len(ready) \in Nat /\ DOMAIN ready = 1 .. Len(ready)
      /\ buf \in [Sessions -> Frames \cup {Empty}]
  BY DEF Typed, TypeOK
<1>2. \A f \in Frames : f.session \in Sessions /\ f.n \in Nat
  BY Bounds DEF Frames
<1>3. \A s \in Sessions : sent[s] \in Nat
  BY <1>1, Bounds
<1>4. CASE UNCHANGED <<sent, posting, ready, buf, delivered>>
  BY <1>4 DEF Queued, Handled
<1>5. ASSUME NEW s \in Sessions, OnNotify(s) PROVE Queued'
  <2>. DEFINE new == [session |-> s, n |-> sent[s] + 1]
  <2>1. /\ posting[s] = Empty /\ sent' = [sent EXCEPT ![s] = sent[s] + 1]
        /\ posting' = posting \/ posting' = [posting EXCEPT ![s] = new]
        /\ UNCHANGED <<ready, buf, delivered>>
    BY <1>5 DEF OnNotify, given
  <2>2. \A t \in Sessions : posting'[t] # Empty =>
           posting'[t] = posting[t] \/ (t = s /\ posting'[t] = new)
    BY <1>1, <2>1
  <2>3. \A t \in Sessions : sent[t] <= sent'[t]
    BY <1>1, <1>3, <2>1
  <2>4. new.session = s /\ new.n = sent[s] + 1 /\ sent'[s] = sent[s] + 1
    BY <1>1, <2>1
  <2>5. \A f : Handled(f)' <=> Handled(f)
    BY <2>1 DEF Handled
  <2>6. \A i \in DOMAIN ready : ready[i] \in Frames
    BY <1>1
  <2>. HIDE DEF new
  <2>7. ASSUME NEW f \in Frames, f.n <= sent[f.session],
               posting[f.session] # Empty => Before(f, posting[f.session])
        PROVE  /\ f.n <= sent'[f.session]
               /\ posting'[f.session] # Empty => Before(f, posting'[f.session])
    <3>1. f.n <= sent'[f.session]
      BY <1>2, <1>3, <2>1, <2>3, <2>4, <2>7
    <3>2. CASE f.session = s
      <4>1. posting'[s] # Empty => posting'[s] = new
        BY <2>1, <2>2
      <4>2. f.n \in Nat /\ sent[s] \in Nat /\ f.n <= sent[s]
        BY <1>2, <1>3, <2>7, <3>2
      <4>. QED  BY <2>4, <3>2, <4>1, <4>2 DEF Before
    <3>3. CASE f.session # s
      <4>1. posting'[f.session] # Empty => posting'[f.session] = posting[f.session]
        BY <1>2, <2>2, <3>3
      <4>. QED  BY <2>7, <3>1, <4>1
    <3>. QED  BY <3>1, <3>2, <3>3
  <2>8. \A t \in Sessions : posting'[t] # Empty =>
           posting'[t].session = t /\ posting'[t].n <= sent'[t]
    <3>1. \A t \in Sessions : posting[t] # Empty => posting[t].n \in Nat
      BY <1>1, <1>2
    <3>. QED  BY <1>3, <2>1, <2>2, <2>3, <2>4, <3>1 DEF Queued
  <2>. QED  BY <2>1, <2>5, <2>6, <2>7, <2>8 DEF Queued
<1>6. ASSUME NEW s \in Sessions, Post(s), open PROVE Queued'
  <2>. DEFINE p == posting[s]
             longer == Append(ready, p)
  <2>1. /\ p # Empty /\ ready' = longer
        /\ posting' = [posting EXCEPT ![s] = Empty]
        /\ UNCHANGED <<sent, buf, delivered>>
    BY <1>6 DEF Post, given
  <2>2. p \in Frames /\ p.session = s /\ p.n <= sent[s]
    BY <1>1, <2>1 DEF Queued
  <2>3. /\ longer \in Seq(Frames) /\ DOMAIN longer = 1 .. Len(ready) + 1
        /\ \A i \in DOMAIN ready : longer[i] = ready[i]
        /\ longer[Len(ready) + 1] = p
    <3>. HIDE DEF Frames, p
    <3>. QED  BY <1>1, <2>2, AppendProperties
  <2>4. \A f : Handled(f)' <=> Handled(f)
    BY <2>1 DEF Handled
  <2>5. \A i \in DOMAIN ready : ready[i] \in Frames
    BY <1>1
  <2>6. \A t \in Sessions : posting'[t] # Empty => t # s /\ posting'[t] = posting[t]
    BY <1>1, <2>1
  <2>7. \A i \in DOMAIN ready : Before(ready[i], p)
    BY <1>2, <2>1, <2>2, <2>5 DEF Queued, Before
  <2>8. \A f \in Frames : Handled(f) => Before(f, p)
    BY <1>2, <2>1, <2>2 DEF Queued, Before
  <2>. HIDE DEF longer
  <2>9. \A i \in DOMAIN longer : i \in DOMAIN ready \/ (i = Len(ready) + 1 /\ longer[i] = p)
    BY <1>1, <2>3
  <2>. HIDE DEF p
  <2>10. \A i \in DOMAIN longer :
           /\ longer[i].n <= sent[longer[i].session]
           /\ posting'[longer[i].session] # Empty =>
                 Before(longer[i], posting'[longer[i].session])
    BY <1>2, <2>2, <2>3, <2>5, <2>6, <2>9 DEF Queued, Before
  <2>11. \A i, j \in DOMAIN longer : i < j => Before(longer[i], longer[j])
    BY <1>1, <2>3, <2>7, <2>9 DEF Queued
  <2>12. \A t \in Sessions : posting'[t] # Empty =>
            posting'[t].session = t /\ posting'[t].n <= sent'[t]
    BY <2>1, <2>6 DEF Queued
  <2>13. ASSUME NEW f \in Frames, Handled(f)
         PROVE  /\ f.n <= sent[f.session]
                /\ posting'[f.session] # Empty => Before(f, posting'[f.session])
                /\ \A i \in DOMAIN longer : Before(f, longer[i])
    BY <1>2, <2>3, <2>6, <2>8, <2>9, <2>13 DEF Queued
  <2>. QED  BY <2>1, <2>4, <2>10, <2>11, <2>12, <2>13 DEF Queued
<1>7. CASE HandleNotify
  <2>. DEFINE h == Head(ready)
             rest == Tail(ready)
  <2>1. /\ ready # <<>> /\ ready' = rest /\ UNCHANGED <<sent, posting, delivered>>
        /\ \A f : Handled(f)' => Handled(f) \/ f = h
    <3>1. ready # <<>> /\ ready' = rest /\ UNCHANGED <<sent, posting, delivered>>
      BY <1>7 DEF HandleNotify, worker, given
    <3>2. \A s \in Sessions : buf'[s] = buf[s] \/ buf'[s] = h
      BY <1>1, <1>7 DEF HandleNotify, Enqueue
    <3>. QED  BY <3>1, <3>2 DEF Handled
  <2>2. /\ h \in Frames /\ 1 \in DOMAIN ready /\ h = ready[1]
        /\ rest \in Seq(Frames) /\ DOMAIN rest = 1 .. Len(rest)
        /\ \A i \in DOMAIN rest : i + 1 \in DOMAIN ready /\ rest[i] = ready[i + 1]
    BY <2>1, ReadyOff
  <2>. HIDE DEF h, rest
  <2>3. ASSUME NEW i \in DOMAIN rest PROVE Before(h, rest[i])
    <3>1. i \in Int /\ 1 < i + 1 /\ i + 1 \in DOMAIN ready /\ rest[i] = ready[i + 1]
      BY <2>2
    <3>. QED  BY <2>2, <3>1 DEF Queued
  <2>4. \A i, j \in DOMAIN rest : i < j => Before(rest[i], rest[j])
    BY <1>1, <2>2 DEF Queued
  <2>5. \A i \in DOMAIN rest :
          /\ rest[i].n <= sent[rest[i].session]
          /\ posting[rest[i].session] # Empty => Before(rest[i], posting[rest[i].session])
    BY <2>2 DEF Queued
  <2>6. ASSUME NEW f \in Frames, Handled(f)'
        PROVE  /\ f.n <= sent[f.session]
               /\ posting[f.session] # Empty => Before(f, posting[f.session])
               /\ \A i \in DOMAIN rest : Before(f, rest[i])
    <3>1. CASE Handled(f)
      BY <2>2, <3>1 DEF Queued
    <3>2. CASE f = h
      BY <2>2, <2>3, <3>2 DEF Queued
    <3>. QED  BY <2>1, <2>6, <3>1, <3>2
  <2>7. \A s \in Sessions : posting[s] # Empty =>
           posting[s].session = s /\ posting[s].n <= sent[s]
    BY DEF Queued
  <2>. QED  BY <2>1, <2>4, <2>5, <2>6, <2>7 DEF Queued
<1>8. ASSUME NEW k \in Consumers, NEW s \in Sessions, Takes(k, s) PROVE Queued'
  <2>1. /\ UNCHANGED <<sent, posting, ready>>
        /\ buf' = [buf EXCEPT ![s] = Empty]
        /\ delivered' = delivered \cup {buf[s]}
    BY <1>8 DEF Takes, Take, Give, worker
  <2>2. \A f \in Frames : Handled(f)' => Handled(f)
    BY <1>1, <2>1, EmptyAssumption DEF Handled
  <2>. QED  BY <2>1, <2>2 DEF Queued
<1>9. UNCHANGED <<sent, posting, ready>> \/ HandleNotify \/ LoopCloses
      \/ \E s \in Sessions : OnNotify(s) \/ Post(s)
  <2>1. ASSUME NEW k \in Consumers,
               Get(k, TRUE) \/ Get(k, FALSE) \/ LatestFrame(k) \/ Resume(k) \/ GiveUp(k)
        PROVE  UNCHANGED <<sent, posting, ready>>
    BY <2>1 DEF Get, LatestFrame, Resume, GiveUp, worker
  <2>2. CASE Dial \/ Subscribe \/ Teardown \/ LinkDrop \/ UNCHANGED vars
    BY <2>2 DEF Dial, Subscribe, Teardown, LinkDrop, vars, worker
  <2>. QED  BY <2>1, <2>2 DEF Next, WaitFrame, NextFrame
<1>10. CASE LoopCloses
  <2>1. ready' = <<>> /\ UNCHANGED <<sent, posting, buf, delivered>>
    BY <1>10 DEF LoopCloses, worker, given
  <2>2. DOMAIN ready' = {}
    BY <2>1
  <2>3. \A f : Handled(f)' <=> Handled(f)
    BY <2>1 DEF Handled
  <2>. QED  BY <2>1, <2>2, <2>3 DEF Queued
<1>11. ASSUME NEW s \in Sessions, Post(s), ~open PROVE Queued'
  <2>1. /\ posting' = [posting EXCEPT ![s] = Empty]
        /\ UNCHANGED <<sent, ready, buf, delivered>>
    BY <1>11 DEF Post, given
  <2>2. \A t \in Sessions : posting'[t] # Empty => posting'[t] = posting[t]
    BY <1>1, <2>1
  <2>3. \A f : Handled(f)' <=> Handled(f)
    BY <2>1 DEF Handled
  <2>4. \A i \in DOMAIN ready : ready[i] \in Frames
    BY <1>1
  <2>. QED  BY <1>2, <2>1, <2>2, <2>3, <2>4 DEF Queued
<1>12. CASE UNCHANGED <<buf, newest, given>>
  BY <1>4, <1>5, <1>6, <1>7, <1>9, <1>10, <1>11, <1>12 DEF given
<1>13. Fills => HandleNotify \/ ~UNCHANGED <<sent, posting, ready>>
  <2>1. ASSUME Fills PROVE ready' # ready
    BY <2>1, ReadyOff DEF Fills
  <2>. QED  BY <2>1
<1>. QED  BY <1>5, <1>6, <1>7, <1>8, <1>9, <1>10, <1>11, <1>12, <1>13,
          HowQueuesChange

LEMMA BoxedNext == Typed /\ Queued /\ Boxed /\ [Next]_vars => Boxed'
<1>. SUFFICES ASSUME Typed, Queued, Boxed, [Next]_vars PROVE Boxed'
  OBVIOUS
<1>1. /\ buf \in [Sessions -> Frames \cup {Empty}]
      /\ got \in [Consumers -> Frames \cup {Empty}]
      /\ delivered \subseteq Frames
  BY DEF Typed, TypeOK
<1>2. CASE UNCHANGED <<buf, newest, given>>
  <2>1. UNCHANGED <<buf, got, delivered>>
    BY <1>2 DEF given
  <2>2. ASSUME NEW k \in Consumers, NEW s \in Sessions,
               Within(k, s)', buf[s] # Empty, got[k] # Empty
        PROVE  Before(got[k], buf[s])
    BY <2>2, WithinBefore DEF Boxed
  <2>. QED  BY <2>1, <2>2 DEF Boxed
<1>3. CASE Fills
  <2>. DEFINE h == Head(ready)
  <2>1. /\ queue \in Sessions /\ buf' = [buf EXCEPT ![queue] = h]
        /\ UNCHANGED <<got, delivered>>
    BY <1>3 DEF Fills, Enqueue, given
  <2>2. h \in Frames /\ \A f \in Frames : Handled(f) => Before(f, h)
    BY <1>3, ReadyOff DEF Fills, Queued
  <2>. HIDE DEF h
  <2>3. \A f \in Frames : Handled(f) => f # h
    BY <2>2, Bounds DEF Before, Frames
  <2>4. \A s \in Sessions : buf[s] # Empty => s <= queue /\ Handled(buf[s])
    BY <2>1, Bounds DEF Typed, NotBefore, Handled, Sessions
  <2>5. \A k \in Consumers : got[k] # Empty => Handled(got[k]) /\ got[k] \in Frames
    BY <1>1 DEF Boxed, Handled
  <2>6. \A s \in Sessions : buf'[s] # Empty => buf'[s] \notin delivered
    BY <1>1, <2>1, <2>3 DEF Boxed, Handled
  <2>7. ASSUME NEW s \in Sessions, NEW t \in Sessions,
               s < t, buf'[s] # Empty, buf'[t] # Empty
        PROVE  Before(buf'[s], buf'[t])
    <3>1. CASE t = queue
      <4>1. buf'[s] = buf[s] /\ buf'[t] = h
        BY <1>1, <2>1, <2>7, <3>1, Bounds DEF Sessions
      <4>. QED  BY <1>1, <2>2, <2>4, <2>7, <4>1
    <3>2. CASE t # queue
      <4>1. buf'[t] = buf[t] /\ t < queue
        BY <1>1, <2>1, <2>4, <2>7, <3>2, Bounds DEF Sessions
      <4>2. buf'[s] = buf[s]
        BY <1>1, <2>1, <2>7, <4>1, Bounds DEF Sessions
      <4>. QED  BY <2>7, <4>1, <4>2 DEF Boxed
    <3>. QED  BY <3>1, <3>2
  <2>8. ASSUME NEW k \in Consumers, NEW s \in Sessions,
               Within(k, s)', buf'[s] # Empty, got[k] # Empty
        PROVE  Before(got[k], buf'[s])
    <3>1. CASE s = queue
      BY <1>1, <2>1, <2>2, <2>5, <2>8, <3>1
    <3>2. CASE s # queue
      <4>1. buf'[s] = buf[s]
        BY <1>1, <2>1, <3>2
      <4>. QED  BY <2>8, <4>1, WithinBefore DEF Boxed
    <3>. QED  BY <3>1, <3>2
  <2>. QED  BY <2>1, <2>6, <2>7, <2>8 DEF Boxed
<1>4. ASSUME NEW k \in Consumers, NEW s \in Sessions, Takes(k, s) PROVE Boxed'
  <2>1. /\ Within(k, s) /\ buf[s] # Empty
        /\ buf' = [buf EXCEPT ![s] = Empty]
        /\ got' = [got EXCEPT ![k] = buf[s]]
        /\ delivered' = delivered \cup {buf[s]}
        /\ state' = [state EXCEPT ![k] = "idle"]
        /\ UNCHANGED queue
    BY <1>4 DEF Takes, Take, Give, session
  <2>2. \A t \in Sessions : buf'[t] # Empty => t # s /\ buf'[t] = buf[t]
    BY <1>1, <2>1
  <2>3. \A t \in Sessions : buf[t] # Empty => buf[t] \in Frames
    BY <1>1
  <2>4. \A t \in Sessions : t # s /\ buf[t] # Empty => buf[t] # buf[s]
    BY <2>1, <2>3, Bounds DEF Boxed, Before, Frames, Sessions
  <2>5. \A t \in Sessions : buf'[t] # Empty => buf'[t] \notin delivered'
    BY <2>1, <2>2, <2>4 DEF Boxed
  <2>6. \A t, u \in Sessions :
          t < u /\ buf'[t] # Empty /\ buf'[u] # Empty => Before(buf'[t], buf'[u])
    BY <2>2 DEF Boxed
  <2>7. \A c \in Consumers : got'[c] = IF c = k THEN buf[s] ELSE got[c]
    BY <1>1, <2>1
  <2>8. ASSUME NEW c \in Consumers, NEW t \in Sessions,
               Within(c, t)', buf'[t] # Empty, got'[c] # Empty
        PROVE  Before(got'[c], buf'[t])
    <3>1. t # s /\ buf'[t] = buf[t] /\ buf[t] # Empty
      BY <2>2, <2>8
    <3>2. CASE c # k
      BY <2>7, <2>8, <3>1, <3>2, WithinBefore DEF Boxed
    <3>3. CASE c = k
      <4>1. t = queue
        BY <2>1, <2>8, <3>3 DEF Within, Typed, TypeOK
      <4>2. s < t
        BY <2>1, <3>1, <4>1, Bounds DEF Within, Typed, NotBefore, Sessions, TypeOK
      <4>. QED  BY <2>1, <2>7, <3>1, <3>3, <4>2 DEF Boxed
    <3>. QED  BY <3>2, <3>3
  <2>9. \A c \in Consumers : got'[c] # Empty => got'[c] \in delivered'
    BY <2>1, <2>7 DEF Boxed
  <2>. QED  BY <2>5, <2>6, <2>8, <2>9 DEF Boxed
<1>. QED  BY <1>2, <1>3, <1>4, HowQueuesChange

\* What holds of every step: the types, the order along the way, and what is
\* in the queues.
Way == Typed /\ NewestKept /\ Queued /\ Boxed

LEMMA WayKept == Spec => []Way
<1>1. Init => Way
  <2>1. Init => NewestKept
    BY DEF Init, NewestKept
  <2>2. Init => Queued
    BY EmptyAssumption DEF Init, Queued, Handled
  <2>3. Init => Boxed
    BY DEF Init, Boxed
  <2>. QED  BY TypedInit, <2>1, <2>2, <2>3 DEF Way
<1>2. Way /\ [Next]_vars => Way'
  BY TypedNext, NewestNext, QueuedNext, BoxedNext DEF Way
<1>. QED  BY <1>1, <1>2, PTL DEF Spec

\* A frame is given away once, and nobody is given the frames of a session
\* out of order, even when a late callback puts a frame of the old session
\* into the queue of the new one.
THEOREM OnceInOrder == Spec => DeliveredOnceInOrder
<1>1. ASSUME Way, [Next]_vars, NEW k \in Consumers, got'[k] # got[k]
      PROVE  /\ got'[k] \notin delivered
             /\ got[k] # Empty /\ got[k].session = got'[k].session => got[k].n < got'[k].n
  <2>1. PICK c \in Consumers, s \in Sessions : Takes(c, s)
    BY <1>1, HowQueuesChange DEF Way, Fills, given
  <2>2. c = k /\ got'[k] = buf[s] /\ Within(k, s) /\ buf[s] # Empty
    BY <1>1, <2>1 DEF Takes, Take, Give, Way, Typed, TypeOK
  <2>. QED  BY <1>1, <2>2 DEF Way, Boxed, Before
<1>2. Way /\ [Next]_vars =>
        [\A k \in Consumers : got'[k] # got[k] =>
            /\ got'[k] \notin delivered
            /\ got[k] # Empty /\ got[k].session = got'[k].session =>
                  got[k].n < got'[k].n]_vars
  BY <1>1
<1>. QED  BY <1>2, WayKept, PTL DEF Spec, DeliveredOnceInOrder

-----------------------------------------------------------------------------
(* The mailbox.                                                            *)

\* Every step is a Put, a Take or no step of the mailbox.
THEOREM MailboxKept == Spec => ImplementsMailbox
<1>1. Init => Promise!Init
  BY DEF Init, Promise!Init
<1>2. ASSUME Way, [Next]_vars PROVE [Promise!Next]_(Promise!mailboxVars)
  <2>1. CASE UNCHANGED <<buf, newest, given>>
    BY <2>1 DEF given, Promise!mailboxVars
  <2>2. CASE Fills
    <3>1. Head(ready) \in Frames /\ Head(ready) \notin delivered
      <4>1. Head(ready) \in Frames /\ 1 \in DOMAIN ready /\ Head(ready) = ready[1]
        BY <1>2, <2>2, ReadyOff DEF Way, Fills
      <4>2. Head(ready) \in delivered => Before(Head(ready), Head(ready))
        BY <1>2, <4>1 DEF Way, Queued, Handled
      <4>. QED  BY <4>1, <4>2, Bounds DEF Before, Frames
    <3>2. Promise!Put(queue, Head(ready))
      BY <2>2, <3>1 DEF Fills, Enqueue, given, Promise!Put
    <3>. QED  BY <2>2, <3>1, <3>2 DEF Fills, Promise!Next
  <2>3. ASSUME NEW k \in Consumers, NEW s \in Sessions, Takes(k, s)
        PROVE  Promise!Next
    <3>1. Promise!Take(s)
      BY <1>2, <2>3 DEF Takes, Take, Give, Way, NewestKept, Promise!Take
    <3>. QED  BY <3>1 DEF Promise!Next
  <2>. QED  BY <1>2, <2>1, <2>2, <2>3, HowQueuesChange DEF Way
<1>. QED  BY <1>1, <1>2, WayKept, PTL DEF Spec, ImplementsMailbox, Promise!Spec
=============================================================================
